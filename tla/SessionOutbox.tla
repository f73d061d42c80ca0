---------------------------- MODULE SessionOutbox ----------------------------
(* A session without on_write_done_ implements the promise of Outbox: its    *)
(* history variables are the abstract ones.                                  *)
EXTENDS Session

Promise == INSTANCE Outbox WITH
    Messages <- Messages, accepted <- accepted, handed <- handed, sent <- sent

\* write(), the completion handler and the network together hand every message
\* back once and in order, and put a contiguous block of them on the wire.
ImplementsOutbox == Promise!Spec
=============================================================================
