------------------------------- MODULE Outbox -------------------------------
(***************************************************************************)
(* What a session promises the owner of the messages: every accepted       *)
(* message is handed back exactly once, in the order of acceptance; frames *)
(* reach the wire in that order too, each before its message is handed     *)
(* back, and once a message was given up no later one is sent: what is on  *)
(* the wire is a contiguous block of what was accepted.                    *)
(***************************************************************************)
EXTENDS Naturals, Sequences, SequencesExt

CONSTANT Messages

VARIABLES
    accepted,   \* messages given to the session, oldest first
    handed,     \* messages given back, oldest first
    sent        \* messages whose frame is on the wire, oldest first

vars == <<accepted, handed, sent>>

\* The oldest message not handed back: the only one that may be sent.
Due == accepted[Len(handed) + 1]

Init == accepted = <<>> /\ handed = <<>> /\ sent = <<>>

Take(m) ==
    /\ m \notin ToSet(accepted)
    /\ accepted' = Append(accepted, m)
    /\ UNCHANGED <<handed, sent>>

Send ==
    /\ Len(handed) < Len(accepted)
    /\ Due \notin ToSet(sent)
    /\ sent # <<>> => Last(sent) = accepted[Len(handed)]
    /\ sent' = Append(sent, Due)
    /\ UNCHANGED <<accepted, handed>>

\* One message is handed back, or all that are left when the stream is gone.
HandBack ==
    /\ Len(handed) < Len(accepted)
    /\ \E n \in {Len(handed) + 1, Len(accepted)} :
          handed' = SubSeq(accepted, 1, n)
    /\ UNCHANGED <<accepted, sent>>

Next == Send \/ HandBack \/ \E m \in Messages : Take(m)

Spec == Init /\ [][Next]_vars
=============================================================================
