------------------------------ MODULE Listener ------------------------------
(***************************************************************************)
(* The accept loop of source/shared/include/devices/listener.h, run by one *)
(* io thread.  accept_handler takes socket_mtx and posts a lambda; the     *)
(* lambda hands the socket on, releases the mutex and accepts again.  The  *)
(* mutex is thus held from one handler to a later one, and the two, the    *)
(* outstanding accept and the owner's start_listen() and stop_listen()     *)
(* share one socket.  The owner is the server of server.h: it stops only a *)
(* listener that is OPEN, and its handler takes every socket it is given.  *)
(***************************************************************************)
EXTENDS Naturals, Sequences, SequencesExt

CONSTANTS
    Connections,    \* connections peers make
    None,           \* no connection
    MaxStarts       \* bound on the calls of start_listen()

ASSUME ListenerAssumption == None \notin Connections /\ MaxStarts \in Nat

VARIABLES
    status_,
    acceptor_,  \* "none", "open", "closed"
    accepting,  \* async_accept operations pending on acceptor_
    io,         \* what the io thread has still to run, in order
    socket_,    \* the connection socket_ holds, or None
    mutex,      \* socket_mtx is locked
    starts,     \* calls of start_listen()
    taken,      \* history: connections accepted, in order
    delivered,  \* history: connections the handler was called with, in order
    ends,       \* history: calls of the handler with an error and no connection
    opened,     \* history: calls of start_listen() that succeeded
    failed,     \* history: accept failed by itself, as with too many open files
    overlap     \* history: a start_listen() came before the old loop had ended

ioVars  == <<accepting, io, socket_, mutex>>
history == <<taken, delivered, ends, opened, failed, overlap>>
vars == <<status_, acceptor_, ioVars, starts, history>>

\* accept_handler is queued with the connection, or with an error; the lambda
\* accept_handler posted is queued with the error code it captured.
Handler(c) == [what |-> "accept_handler", conn |-> c]
Lambda(ok) == [what |-> "lambda", ok |-> ok]

Idle == accepting = 0 /\ io = <<>>

Init ==
    /\ status_ = "CLOSED" /\ acceptor_ = "none"
    /\ accepting = 0 /\ io = <<>> /\ socket_ = None /\ mutex = FALSE
    /\ starts = 0 /\ taken = <<>> /\ delivered = <<>> /\ ends = 0 /\ opened = 0
    /\ failed = FALSE /\ overlap = FALSE

\* Errors of n pending operations, in the order their handlers will run.
Aborted(n) == [i \in 1..n |-> Handler(None)]

\* acceptor_->async_accept( socket_, ... ) with sock in socket_ and the handlers
\* q queued: it needs an open acceptor and a socket that is not open.
AsyncAccept(acc, sock, pending, q) ==
    IF acc = "open" /\ sock = None
    THEN accepting' = pending + 1 /\ io' = q
    ELSE accepting' = pending /\ io' = Append(q, Handler(None))

-----------------------------------------------------------------------------
(* The owner.                                                              *)

\* The new acceptor replaces the old one, which aborts what was pending there.
\* open(), set_option(), bind() or listen() may fail.
StartListen ==
    /\ starts < MaxStarts /\ starts' = starts + 1
    /\ overlap' = (overlap \/ ~Idle)
    /\ \/ /\ status_' = "CLOSED" /\ acceptor_' = "closed"
          /\ accepting' = 0 /\ io' = io \o Aborted(accepting)
          /\ UNCHANGED opened
       \/ /\ status_' = "OPEN" /\ acceptor_' = "open"
          /\ AsyncAccept("open", socket_, 0, io \o Aborted(accepting))
          /\ opened' = opened + 1
    /\ UNCHANGED <<socket_, mutex, taken, delivered, ends, failed>>

LeaksAccept == UNCHANGED <<accepting, io>>  \* mutant: the pending accept stays
AbortPending == accepting' = 0 /\ io' = io \o Aborted(accepting)

StopListen ==
    /\ status_ = "OPEN" /\ status_' = "CLOSED"
    /\ acceptor_' = "closed"
    /\ AbortPending
    /\ UNCHANGED <<socket_, mutex, starts, history>>

-----------------------------------------------------------------------------
(* The io thread.                                                          *)

\* mutant: the next accept is started before the socket is handed on
PostAndAccept(ok, q) == accepting' = accepting + 1 /\ io' = Append(q, Lambda(ok))
PostLambda(ok, q) == UNCHANGED accepting /\ io' = Append(q, Lambda(ok))

\* Asio assigns the connection to socket_ before it calls accept_handler, which
\* fails, and closes the connection, if socket_ is open.
AcceptHandler ==
    /\ io # <<>> /\ Head(io).what = "accept_handler"
    /\ ~mutex /\ mutex' = TRUE
    /\ LET c  == Head(io).conn
           ok == c # None /\ socket_ = None
       IN /\ socket_' = IF ok THEN c ELSE socket_
          /\ PostLambda(ok, Tail(io))
    /\ UNCHANGED <<status_, acceptor_, starts, history>>

\* mutants: the lambda accepts again whatever the error, or never again
AcceptAlways(ok, rest) == AsyncAccept(acceptor_, None, accepting, rest)
AcceptNever(ok, rest) == UNCHANGED accepting /\ io' = rest
AcceptAgain(ok, rest) ==
    IF ok THEN AsyncAccept(acceptor_, None, accepting, rest)
          ELSE UNCHANGED accepting /\ io' = rest

DeliverIfOpen ==  \* mutant: no connection is handed on after stop_listen()
    /\ delivered' = IF status_ = "OPEN" /\ socket_ # None
                    THEN Append(delivered, socket_) ELSE delivered
    /\ ends' = IF socket_ = None THEN ends + 1 ELSE ends
Deliver ==
    \/ socket_ # None /\ delivered' = Append(delivered, socket_) /\ UNCHANGED ends
    \/ socket_ = None /\ ends' = ends + 1 /\ UNCHANGED delivered

KeepsLock == UNCHANGED mutex  \* mutant: returns without unlock()
Unlock == mutex' = FALSE

\* handler( ec, std::move( socket_ ) ), unlock, and the next accept
RunLambda ==
    /\ io # <<>> /\ Head(io).what = "lambda"
    /\ Deliver
    /\ socket_' = None
    /\ Unlock
    /\ AcceptAgain(Head(io).ok, Tail(io))
    /\ UNCHANGED <<status_, acceptor_, starts, taken, opened, failed, overlap>>

-----------------------------------------------------------------------------
(* The network and the operating system.                                   *)

Arrive(c) ==
    /\ accepting > 0 /\ c \notin ToSet(taken)
    /\ accepting' = accepting - 1
    /\ io' = Append(io, Handler(c))
    /\ taken' = Append(taken, c)
    /\ UNCHANGED <<status_, acceptor_, socket_, mutex, starts, delivered, ends,
                   opened, failed, overlap>>

AcceptFails ==
    /\ accepting > 0
    /\ accepting' = accepting - 1
    /\ io' = Append(io, Handler(None))
    /\ failed' = TRUE
    /\ UNCHANGED <<status_, acceptor_, socket_, mutex, starts, taken, delivered,
                   ends, opened, overlap>>

Next ==
    \/ StartListen \/ StopListen
    \/ AcceptHandler \/ RunLambda
    \/ AcceptFails \/ \E c \in Connections : Arrive(c)

\* The io thread runs what is queued, in order.
Fairness == WF_vars(AcceptHandler) /\ WF_vars(RunLambda)

Spec == Init /\ [][Next]_vars
FairSpec == Spec /\ Fairness

-----------------------------------------------------------------------------
(* Properties.  All but the type invariant are about a listener that was   *)
(* not started again before its old accept loop had ended (~overlap).      *)

Handlers == [what : {"accept_handler"}, conn : Connections \cup {None}]
Lambdas  == [what : {"lambda"}, ok : BOOLEAN]

\* Every variable keeps its type.
TypeOK ==
    /\ status_ \in {"OPEN", "CLOSED"} /\ acceptor_ \in {"none", "open", "closed"}
    /\ accepting \in Nat /\ mutex \in BOOLEAN
    /\ io \in Seq(Handlers \cup Lambdas)
    /\ socket_ \in Connections \cup {None}
    /\ starts \in 0..MaxStarts /\ opened \in Nat /\ ends \in Nat
    /\ taken \in Seq(Connections) /\ delivered \in Seq(Connections)
    /\ failed \in BOOLEAN /\ overlap \in BOOLEAN

RunsLambda == io # <<>> /\ Head(io).what = "lambda"

\* One user of socket_ at a time: an accept that may assign it, or the handlers
\* that pass it on; while it holds a connection the lambda that moves that away is
\* next, so that no accept finds it open.
OneSocketUser ==
    ~overlap => accepting + Len(io) <= 1 /\ (socket_ # None => RunsLambda)

\* The io thread never waits for the mutex: the lambda that would release it is
\* behind the waiting handler in the queue of the same thread.
NeverBlocked ==
    ~overlap => (io # <<>> /\ Head(io).what = "accept_handler" => ~mutex)

\* Each connection is delivered once, in the order of arrival; none is lost, not
\* even one that arrived just before stop_listen().
Coming ==
    IF socket_ # None THEN <<socket_>>
    ELSE IF io # <<>> /\ Head(io).what = "accept_handler" /\ Head(io).conn # None
         THEN <<Head(io).conn>> ELSE <<>>

DeliveredOnce ==
    ~overlap => taken = delivered \o Coming

\* A listener that says it is OPEN is accepting, unless an accept failed: nothing
\* restarts the loop then, and the status does not tell.
OpenAccepts ==
    ~overlap /\ ~failed /\ status_ = "OPEN" => ~Idle

\* The end of each loop is reported to the handler exactly once, as an error.
EndReported == ~overlap => ends = IF Idle THEN opened ELSE opened - 1

\* A listener that was stopped comes to rest, unless it is started again.
StopEnds == status_ = "CLOSED" ~> (Idle \/ status_ = "OPEN" \/ overlap)
=============================================================================
