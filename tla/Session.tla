------------------------------ MODULE Session ------------------------------
(***************************************************************************)
(* One WebSocket session (source/shared/include/session.h): a write queue  *)
(* with at most one asynchronous write outstanding, a read loop, and a     *)
(* close operation with a 500 ms deadline.                                 *)
(*                                                                         *)
(* The hosts of this repository run their io_context on exactly one        *)
(* thread, so a completion handler is one step; write() and close() may be *)
(* called by any thread between two handlers.  write() and the handlers    *)
(* that touch msg_queue hold write_queue_mutex_ while they do, so nothing  *)
(* interleaves inside them.  What the network and the Boost libraries do   *)
(* between the start of an asynchronous operation and the queueing of its  *)
(* handler is the group NetStep, modelled from how session.h uses them.    *)
(***************************************************************************)
EXTENDS Naturals, Sequences, SequencesExt

CONSTANTS
    Messages,       \* Message objects an application hands to write()
    CloseOp,        \* the lambda close() dispatches on write_strand_
    HasWriteDone,   \* on_write_done() was called: on_write_done_ != boost::none
    AbortIs89,      \* operation_aborted has value 89 (macOS), not 125 (Linux)
    MaxCloses       \* bound on the calls of close()

ASSUME SessionAssumption ==
    /\ CloseOp \notin Messages
    /\ HasWriteDone \in BOOLEAN
    /\ AbortIs89 \in BOOLEAN
    /\ MaxCloses \in Nat

VARIABLES
    status,     \* opt_at_status_
    ws,         \* the WebSocket layer: "closed", "open", "closing", "failed"
    tcp,        \* its socket: "none", "open", "reset" by the peer, "shut" here
    setup,      \* the start-up operation: "idle", "connect", ..., "over"
    result,     \* what it completed with: "pending", "ok", "err"
    queue,      \* msg_queue
    wr,         \* what became of the async_write of each message
    strand,     \* lambdas dispatched on write_strand_ that have not run
    read,       \* the outstanding async_read, or what it completed with
    closeOps,   \* async_close operations outstanding
    closeDone,  \* close_handler calls that are queued
    closes,     \* calls of close()
    timer,      \* *close_tmt: "off" (absent, cancelled, expired) or "armed"
    fired,      \* expiry lambdas of close timers that are queued
    accepted,   \* history: messages passed to write(), in queue order
    handed,     \* history: messages given to on_write_done_ or deallocate()
    sent,       \* history: messages whose frame went out completely
    stale       \* history: messages handed back while their write was in flight

setupVars == <<setup, result>>
writeVars == <<queue, wr, strand>>
closeVars == <<closeOps, closeDone, closes, timer, fired>>
history   == <<accepted, handed, sent, stale>>
vars == <<status, ws, tcp, setupVars, writeVars, read, closeVars, history>>

Statuses == {"BLOCKED", "ONLINE", "OFFLINE", "ABORTED"}

\* A message whose write_complete_handler has still to run.
InFlight(m) == wr[m] \in {"posted", "writing", "ok", "failed"}

Writing == {m \in Messages : wr[m] = "writing"}

\* stream_.is_open(), and what Beast lets an async_read start on
IsOpen == ws = "open"
Readable == ws \in {"open", "closing"}

Init ==
    /\ status = "BLOCKED"
    /\ ws = "closed"
    /\ tcp \in {"none", "open"}  \* constructed as client; around a next_layer
    /\ setup = "idle" /\ result = "pending"
    /\ queue = <<>> /\ strand = <<>>
    /\ wr = [m \in Messages |-> "idle"]
    /\ read = "none"
    /\ closeOps = 0 /\ closeDone = 0 /\ closes = 0
    /\ timer = "off" /\ fired = 0
    /\ accepted = <<>> /\ handed = <<>> /\ sent = <<>> /\ stale = {}

-----------------------------------------------------------------------------
(* The calls of the application.                                           *)

\* Without an endpoint in the url no socket is opened, and async_connect fails.
Connect(resolved) ==
    /\ setup = "idle" /\ tcp = "none"
    /\ status' = "BLOCKED"
    /\ setup' = "connect"
    /\ tcp' = IF resolved THEN "open" ELSE tcp
    /\ UNCHANGED <<ws, result, writeVars, read, closeVars, history>>

Accept ==
    /\ setup = "idle" /\ tcp # "none"
    /\ setup' = "accept"
    /\ UNCHANGED <<status, ws, tcp, result, writeVars, read, closeVars, history>>

\* stream_.async_write(msg): on a stream that is not open it completes at once
StartWrite(m) == IF IsOpen THEN "writing" ELSE "failed"

\* the test of write() on the queue it has just extended
SlotFreeLate(q) == Len(q) < 3  \* mutant: counts from zero
SlotFree(q) == Len(q) < 2

\* write() with its perform_write(): on the io thread the operation is started
\* here, on any other thread a lambda on write_strand_ will start it.
Write(m, onIoThread) ==
    /\ m \notin ToSet(accepted)
    /\ accepted' = Append(accepted, m)
    /\ queue' = Append(queue, m)
    /\ \/ /\ SlotFree(queue') /\ onIoThread
          /\ wr' = [wr EXCEPT ![m] = StartWrite(m)]
          /\ UNCHANGED strand
       \/ /\ SlotFree(queue') /\ ~onIoThread
          /\ wr' = [wr EXCEPT ![m] = "posted"]
          /\ strand' = Append(strand, m)
       \/ /\ ~SlotFree(queue')
          /\ UNCHANGED <<wr, strand>>
    /\ UNCHANGED <<status, ws, tcp, setupVars, read, closeVars, handed, sent, stale>>

\* close(): a new deadline replaces the old one in every state, the closing
\* handshake starts only from ONLINE
Close ==
    /\ closes < MaxCloses
    /\ closes' = closes + 1
    /\ timer' = "armed"
    /\ strand' = IF IsOpen /\ status = "ONLINE" THEN Append(strand, CloseOp)
                                                ELSE strand
    /\ UNCHANGED <<status, ws, tcp, setupVars, queue, wr, read, closeOps,
                   closeDone, fired, history>>

AppStep == Accept \/ Close
           \/ (\E resolved \in BOOLEAN : Connect(resolved))
           \/ \E m \in Messages, onIoThread \in BOOLEAN : Write(m, onIoThread)

-----------------------------------------------------------------------------
(* The handlers the io thread runs.                                        *)

ConnectHandler ==
    /\ setup = "connect" /\ result # "pending"
    /\ \/ /\ result = "ok"
          /\ setup' = "handshake" /\ result' = "pending"
          /\ UNCHANGED status
       \/ /\ result = "err"
          /\ setup' = "over" /\ status' = "ABORTED"
          /\ UNCHANGED result
    /\ UNCHANGED <<ws, tcp, writeVars, read, closeVars, history>>

\* perform_read(), called with the status st
StartRead(st) == IF st # "ONLINE" THEN "none"
                 ELSE IF Readable THEN "pending" ELSE "aborted"

\* handshake_handler and accepted_handler: they differ in whether on_ready_ is
\* called before or after perform_read()
ReadyHandler(op) ==
    /\ setup = op /\ result # "pending"
    /\ setup' = "over"
    /\ status' = IF result = "ok" THEN "ONLINE" ELSE "ABORTED"
    /\ read' = StartRead(status')
    /\ UNCHANGED <<ws, tcp, result, writeVars, closeVars, history>>

\* The head of write_strand_ runs: perform_write's lambda or close()'s.
RunStrand ==
    /\ strand # <<>>
    /\ strand' = Tail(strand)
    /\ \/ /\ Head(strand) \in Messages
          /\ wr' = [wr EXCEPT ![Head(strand)] = StartWrite(Head(strand))]
          /\ UNCHANGED <<closeOps, closeDone>>
       \/ /\ Head(strand) = CloseOp /\ IsOpen
          /\ closeOps' = closeOps + 1
          /\ UNCHANGED <<wr, closeDone>>
       \/ /\ Head(strand) = CloseOp /\ ~IsOpen
          /\ closeDone' = closeDone + 1
          /\ UNCHANGED <<wr, closeOps>>
    /\ UNCHANGED <<status, ws, tcp, setupVars, queue, read, closes, timer, fired,
                   history>>

\* perform_write(msg_queue.front()) on the io thread, rest being the queue
NoNextWrite(w, rest) == w  \* mutant: forgets the waiting messages
NextWrite(w, rest) == [w EXCEPT ![Head(rest)] = StartWrite(Head(rest))]

\* The stream is gone, or nothing waits: everything is handed back.
HandBackOne(m, rest) == Append(handed, m)  \* mutant: clears without handing back
HandBackTwice(m, rest) == Append(handed, m) \o queue  \* mutant: forgets the pop
HandBackAll(m, rest) == Append(handed, m) \o rest

\* Hands back msg and pops the front of the queue, whichever message that is.
WriteCompleteHandler(m) ==
    /\ wr[m] \in {"ok", "failed"}
    /\ LET done == [wr EXCEPT ![m] = "over"]
           rest == Tail(queue)
       IN \/ /\ queue = <<>>
             /\ wr' = done
             /\ UNCHANGED <<queue, handed>>
          \/ /\ queue # <<>> /\ rest # <<>> /\ IsOpen
             /\ queue' = rest
             /\ handed' = Append(handed, m)
             /\ wr' = NextWrite(done, rest)
          \/ /\ queue # <<>> /\ (rest = <<>> \/ ~IsOpen)
             /\ queue' = <<>>
             /\ handed' = HandBackAll(m, rest)
             /\ wr' = done
    /\ UNCHANGED <<status, ws, tcp, setupVars, strand, read, closeVars, accepted,
                   sent, stale>>

NoReread == "none"  \* mutant: the read loop stops after one message
Reread == StartRead(status)

ReadHandlerOk ==
    /\ read = "ok"
    /\ read' = Reread
    /\ UNCHANGED <<status, ws, tcp, setupVars, writeVars, closeVars, history>>

\* ec is error::closed, or its value is 89
EndsOffline == read = "closed" \/ (read = "aborted" /\ AbortIs89)

FlushDrops == handed  \* mutant: clears the queue without handing it back
Flushed == handed \o queue

ReadHandlerErr ==
    /\ read \in {"closed", "aborted", "error"}
    /\ read' = "none"
    /\ status' = IF EndsOffline THEN "OFFLINE" ELSE "ABORTED"
    /\ \/ /\ EndsOffline /\ HasWriteDone
          /\ handed' = Flushed
          /\ stale' = stale \cup {m \in ToSet(queue) : InFlight(m)}
          /\ queue' = <<>>
       \/ /\ ~(EndsOffline /\ HasWriteDone)
          /\ UNCHANGED <<handed, stale, queue>>
    /\ UNCHANGED <<ws, tcp, setupVars, wr, strand, closeVars, accepted, sent>>

AnswerUnasked == closeDone' = closeDone - 1  \* mutant: no completed close
AnswerClose == closeDone > 0 /\ closeDone' = closeDone - 1

CloseHandler ==
    /\ AnswerClose
    /\ timer' = "off"
    /\ status' = "OFFLINE"
    /\ UNCHANGED <<ws, tcp, setupVars, writeVars, read, closeOps, closes, fired,
                   history>>

\* The 500 ms are over: the lambda is queued, and cancelling or replacing the
\* timer no longer stops it.
TimerExpire ==
    /\ timer = "armed"
    /\ timer' = "off"
    /\ fired' = fired + 1
    /\ UNCHANGED <<status, ws, tcp, setupVars, writeVars, read, closeOps,
                   closeDone, closes, history>>

\* The lambda closes the socket if that is open, whatever the stream says.
ShutIfStreamOpen == IF IsOpen THEN "shut" ELSE tcp  \* mutant: one test too few
ShutSocket == IF tcp \in {"open", "reset"} THEN "shut" ELSE tcp

TimerHandler ==
    /\ fired > 0
    /\ fired' = fired - 1
    /\ tcp' = ShutSocket
    /\ UNCHANGED <<status, ws, setupVars, writeVars, read, closeOps, closeDone,
                   closes, timer, history>>

IoStep == ConnectHandler \/ ReadyHandler("handshake") \/ ReadyHandler("accept")
          \/ RunStrand \/ (\E m \in Messages : WriteCompleteHandler(m))
          \/ ReadHandlerOk \/ ReadHandlerErr \/ CloseHandler
          \/ TimerExpire \/ TimerHandler

-----------------------------------------------------------------------------
(* Boost.Asio, Boost.Beast and the peer.  An operation that can no longer  *)
(* succeed completes with an error (SetupFail, WriteFail, ReadErr,         *)
(* ReadAbort, CloseAbort); nothing obliges the peer to do anything.        *)

PeerReset ==
    /\ tcp = "open"
    /\ tcp' = "reset"
    /\ UNCHANGED <<status, ws, setupVars, writeVars, read, closeVars, history>>

SetupPending == setup \in {"connect", "handshake", "accept"} /\ result = "pending"

SetupOk ==
    /\ SetupPending /\ tcp = "open"
    /\ result' = "ok"
    /\ ws' = IF setup = "connect" THEN ws ELSE "open"
    /\ UNCHANGED <<status, tcp, setup, writeVars, read, closeVars, history>>

\* The peer answers, but not with an upgrade (or no upgrade request comes).
SetupDeclined ==
    /\ SetupPending /\ setup # "connect" /\ tcp = "open"
    /\ result' = "err"
    /\ UNCHANGED <<status, ws, tcp, setup, writeVars, read, closeVars, history>>

SetupFail ==
    /\ SetupPending /\ tcp # "open"
    /\ result' = "err"
    /\ UNCHANGED <<status, ws, tcp, setup, writeVars, read, closeVars, history>>

\* an operation that finds the stream broken marks it failed
Failed == IF Readable THEN "failed" ELSE ws

WriteOk(m) ==
    /\ wr[m] = "writing" /\ IsOpen /\ tcp = "open"
    /\ wr' = [wr EXCEPT ![m] = "ok"]
    /\ sent' = Append(sent, m)
    /\ UNCHANGED <<status, ws, tcp, setupVars, queue, strand, read, closeVars,
                   accepted, handed, stale>>

WriteFail(m) ==
    /\ wr[m] = "writing" /\ (tcp # "open" \/ ~IsOpen)
    /\ wr' = [wr EXCEPT ![m] = "failed"]
    /\ ws' = IF tcp # "open" THEN Failed ELSE ws
    /\ UNCHANGED <<status, tcp, setupVars, queue, strand, read, closeVars, history>>

ReadOk ==
    /\ read = "pending" /\ Readable /\ tcp = "open"
    /\ read' = "ok"
    /\ UNCHANGED <<status, ws, tcp, setupVars, writeVars, closeVars, history>>

\* The peer's close frame, answered by Beast, which then shuts the socket.
ReadClosed ==
    /\ read = "pending" /\ Readable /\ tcp = "open"
    /\ read' = "closed" /\ ws' = "closed" /\ tcp' = "shut"
    /\ UNCHANGED <<status, setupVars, writeVars, closeVars, history>>

ReadErr ==
    /\ read = "pending" /\ tcp = "reset"
    /\ read' = "error" /\ ws' = Failed
    /\ UNCHANGED <<status, tcp, setupVars, writeVars, closeVars, history>>

ReadAbort ==
    /\ read = "pending" /\ (tcp = "shut" \/ ~Readable)
    /\ read' = "aborted" /\ ws' = Failed
    /\ UNCHANGED <<status, tcp, setupVars, writeVars, closeVars, history>>

\* async_close waits for the frame being written, then sends its own.
CloseSend ==
    /\ closeOps > 0 /\ IsOpen /\ tcp = "open" /\ Writing = {}
    /\ ws' = "closing"
    /\ UNCHANGED <<status, tcp, setupVars, writeVars, read, closeVars, history>>

CloseAck ==
    /\ closeOps > 0 /\ ws = "closing" /\ tcp = "open"
    /\ ws' = "closed" /\ tcp' = "shut"
    /\ closeOps' = closeOps - 1 /\ closeDone' = closeDone + 1
    /\ UNCHANGED <<status, setupVars, writeVars, read, closes, timer, fired, history>>

\* Of two async_close operations, the one that did not send the frame fails.
CloseAbort ==
    /\ closeOps > 0
    /\ tcp # "open" \/ ~Readable \/ (ws = "closing" /\ closeOps > 1)
    /\ ws' = IF tcp # "open" THEN Failed ELSE ws
    /\ closeOps' = closeOps - 1 /\ closeDone' = closeDone + 1
    /\ UNCHANGED <<status, tcp, setupVars, writeVars, read, closes, timer, fired,
                   history>>

Abandon == SetupFail \/ (\E m \in Messages : WriteFail(m)) \/ ReadErr
           \/ ReadAbort \/ CloseAbort

NetStep == Abandon \/ PeerReset \/ SetupOk \/ SetupDeclined
           \/ (\E m \in Messages : WriteOk(m)) \/ ReadOk \/ ReadClosed
           \/ CloseSend \/ CloseAck

Next == AppStep \/ IoStep \/ NetStep

\* The io thread runs every queued handler, and an operation on a dead socket
\* or stream completes.  The application and the peer need not move.
Fairness ==
    /\ WF_vars(ConnectHandler)
    /\ WF_vars(ReadyHandler("handshake")) /\ WF_vars(ReadyHandler("accept"))
    /\ WF_vars(RunStrand)
    /\ \A m \in Messages : WF_vars(WriteCompleteHandler(m)) /\ WF_vars(WriteFail(m))
    /\ WF_vars(ReadHandlerOk) /\ WF_vars(ReadHandlerErr)
    /\ WF_vars(CloseHandler) /\ WF_vars(TimerExpire) /\ WF_vars(TimerHandler)
    /\ WF_vars(SetupFail) /\ WF_vars(ReadErr) /\ WF_vars(ReadAbort)
    /\ WF_vars(CloseAbort)

Spec == Init /\ [][Next]_vars
FairSpec == Spec /\ Fairness
-----------------------------------------------------------------------------
(* Properties.                                                             *)

\* Every variable keeps its type; at most MaxCloses closes are under way.
TypeOK ==
    /\ status \in Statuses
    /\ ws \in {"closed", "open", "closing", "failed"}
    /\ tcp \in {"none", "open", "reset", "shut"}
    /\ setup \in {"idle", "connect", "handshake", "accept", "over"}
    /\ result \in {"pending", "ok", "err"}
    /\ queue \in Seq(Messages) /\ strand \in Seq(Messages \cup {CloseOp})
    /\ wr \in [Messages -> {"idle", "posted", "writing", "ok", "failed", "over"}]
    /\ read \in {"none", "pending", "ok", "closed", "aborted", "error"}
    /\ closeOps \in Nat /\ closeDone \in Nat /\ closes \in 0..MaxCloses
    /\ timer \in {"off", "armed"} /\ fired \in Nat
    /\ accepted \in Seq(Messages) /\ handed \in Seq(Messages)
    /\ sent \in Seq(Messages) /\ stale \subseteq Messages

\* One asynchronous write at a time, always of the front of the queue (Beast
\* forbids two), whether it was started by write() on the io thread, by a
\* dispatched lambda or by a completion; until a flush left a write behind.
OneWriteInFlight ==
    stale = {} => \A m \in Messages :
                     InFlight(m) <=> queue # <<>> /\ m = Head(queue)

\* The messages handed back are the accepted ones, once each and in order, and
\* the queue holds the others: write_complete_handler's pop_front() and its msg
\* are about the same message; until a flush left a write behind.
HandedInOrder == stale = {} => accepted = handed \o queue

\* As many messages are handed back as leave the queue, also after a flush that
\* left a write behind: each message given back twice then costs one never given.
HandBackBalance == Len(accepted) = Len(handed) + Len(queue)

\* Only a message whose write was in flight when read_handler flushed the queue
\* is ever given back twice.
OnlyStaleTwice ==
    \A i, j \in 1..Len(handed) :
        i # j /\ handed[i] = handed[j] => handed[i] \in stale

\* A queue that is not empty has a write under way whose handler will drain it
\* and which keeps the session alive: ~session() with no on_write_done_ would
\* otherwise call boost::none.
QueueHasWriter == queue # <<>> => \E m \in Messages : InFlight(m)

\* A session that reports ONLINE has a read outstanding or completed, through
\* which it learns that the peer has gone.
OnlineIsReading == status = "ONLINE" => read # "none"

\* Nothing is outstanding but the calls the application has still to make.
Quiet ==
    /\ ~SetupPending /\ setup \notin {"connect", "handshake", "accept"}
    /\ read = "none" /\ strand = <<>> /\ closeOps = 0 /\ closeDone = 0
    /\ \A m \in Messages : ~InFlight(m)

\* A session that is closed once, at any time from the start of connect() or
\* accept() on, comes to rest whatever the peer does, by the handshake or by
\* the deadline: the io_context of a host can run out of work.
CloseEnds ==
    [](closes <= 1) => (timer = "armed" /\ setup # "idle" ~> Quiet)

\* Once the session has ended, and was not closed twice, every message that was
\* accepted is handed back, unless read_handler flushed the queue under a write:
\* otherwise none is lost with the connection.
EndedDrains ==
    [](closes <= 1) =>
        \A m \in Messages :
            m \in ToSet(accepted) /\ status \in {"OFFLINE", "ABORTED"}
                ~> m \in ToSet(handed) \/ stale # {}
=============================================================================
