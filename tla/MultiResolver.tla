---------------------------- MODULE MultiResolver ----------------------------
(***************************************************************************)
(* The queueing resolver of source/shared/include/devices/multi_resolver.h *)
(* It serves any number of concurrent resolve() calls with one             *)
(* boost::asio resolver, one lookup at a time.  resolve() and              *)
(* resolve_handler() hold queue_mtx_ throughout, so each is one step.      *)
(* resolve_handler() holds it also while the caller's handler runs; no     *)
(* handler of this repository calls resolve(), which would block forever.  *)
(***************************************************************************)
EXTENDS Naturals, Sequences, SequencesExt

CONSTANT Requests   \* the url/handler pairs given to resolve()

VARIABLES
    ws_queue,   \* requests not yet taken off by resolve_handler
    lookups,    \* the async_resolve operations started and not yet handled
    asked,      \* history: requests, in queue order
    answers     \* history: the calls of handlers

vars == <<ws_queue, lookups, asked, answers>>

Outcomes == {"resolved", "failed"}
Answers == [request : Requests, outcome : Outcomes]

Init == ws_queue = <<>> /\ lookups = {} /\ asked = <<>> /\ answers = <<>>

\* begin_resolve(): the operation keeps a copy of the queue element
Begin(r) == [request |-> r, outcome |-> "pending"]

StartsAlways(q) == TRUE  \* mutant: does not wait for the lookup under way
StartsNow(q) == Len(q) < 2

\* resolve(), from any thread
Resolve(r) ==
    /\ r \notin ToSet(asked)
    /\ asked' = Append(asked, r)
    /\ ws_queue' = Append(ws_queue, r)
    /\ lookups' = IF StartsNow(ws_queue') THEN lookups \cup {Begin(Head(ws_queue'))}
                                          ELSE lookups
    /\ UNCHANGED answers

\* The system's resolver comes back, with endpoints or with an error.
LookupCompletes(l) ==
    /\ l \in lookups /\ l.outcome = "pending"
    /\ \E o \in Outcomes : lookups' = (lookups \ {l}) \cup {[l EXCEPT !.outcome = o]}
    /\ UNCHANGED <<ws_queue, asked, answers>>

NoNextLookup(q) == {}  \* mutant: the requests that wait are forgotten
NextLookup(q) == IF q = <<>> THEN {} ELSE {Begin(Head(q))}

AnyLookup(l) == TRUE  \* mutant: answers before the resolver has
Completed(l) == l.outcome # "pending"

\* resolve_handler(): it pops the front of the queue, starts the next lookup,
\* and calls the handler its own operation carried.
ResolveHandler(l) ==
    /\ l \in lookups /\ Completed(l)
    /\ ws_queue' = Tail(ws_queue)
    /\ lookups' = (lookups \ {l}) \cup NextLookup(ws_queue')
    /\ answers' = Append(answers, l)
    /\ UNCHANGED asked

Next ==
    \/ \E r \in Requests : Resolve(r)
    \/ \E l \in lookups : LookupCompletes(l) \/ ResolveHandler(l)

\* The operating system ends every lookup, and the io thread runs handlers.
Fairness ==
    /\ WF_vars(\E l \in lookups : LookupCompletes(l))
    /\ WF_vars(\E l \in lookups : ResolveHandler(l))

Spec == Init /\ [][Next]_vars
FairSpec == Spec /\ Fairness

-----------------------------------------------------------------------------
(* Properties.                                                             *)

\* What a lookup can be, and what the handlers of the callers are called with.
TypeOK ==
    /\ ws_queue \in Seq(Requests) /\ asked \in Seq(Requests)
    /\ lookups \subseteq [request : Requests, outcome : Outcomes \cup {"pending"}]
    /\ answers \in Seq(Answers)

\* The single resolver never runs two lookups, a request in the queue always
\* has one that will answer it or a request before it, and the lookup is for
\* the front: pop_front() takes off the request whose handler is called.
OneLookup ==
    IF ws_queue = <<>> THEN lookups = {}
    ELSE \E l \in lookups : lookups = {l} /\ l.request = Head(ws_queue)

\* Every request is answered once, in order, with its own outcome, and none is
\* left unanswered.
Promise == INSTANCE ResolverService WITH
    Requests <- Requests, Outcomes <- Outcomes, asked <- asked, answers <- answers
KeepsPromise == Promise!Spec
=============================================================================
