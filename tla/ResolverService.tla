--------------------------- MODULE ResolverService ---------------------------
(* What multi_resolver promises its callers: every request is answered once,  *)
(* with the outcome of its own name, and in the order of the requests.        *)
EXTENDS Naturals, Sequences, SequencesExt

CONSTANTS Requests, Outcomes

VARIABLES
    asked,      \* requests, oldest first
    answers     \* the [request, outcome] pairs their handlers were called with

Init == asked = <<>> /\ answers = <<>>

Ask(r) ==
    /\ r \notin ToSet(asked)
    /\ asked' = Append(asked, r)
    /\ UNCHANGED answers

Answer ==
    /\ Len(answers) < Len(asked)
    /\ \E o \in Outcomes :
          answers' = Append(answers, [request |-> asked[Len(answers) + 1], outcome |-> o])
    /\ UNCHANGED asked

Next == Answer \/ \E r \in Requests : Ask(r)

vars == <<asked, answers>>

SafeSpec == Init /\ [][Next]_vars
Spec == SafeSpec /\ WF_vars(Answer)
=============================================================================
