----------------------------- MODULE ClientHost -----------------------------
(***************************************************************************)
(* The owner of one client session, from its constructor to the return of  *)
(* its destructor: the Max object of websocketclient.cpp, which makes the  *)
(* session once the host name is resolved, and o::client (client.h), which *)
(* makes it at once and connects it later; there is none if the arguments  *)
(* are no address.  The destructor closes the session if there is one,     *)
(* releases the work guard, and joins the io thread; that returns when the *)
(* io_context has nothing left to do.                                      *)
(***************************************************************************)
EXTENDS Session

VARIABLES
    early,      \* the object is an o::client, which makes its session at once
    host,       \* the object: "new", "alive", "joining" its thread, "gone", "crashed"
    made,       \* the pointer connection_ / session_ is set
    lookup,     \* async_resolve: "none", "pending", "done", "assigned", "over"
    resolved,   \* the url has endpoints
    assertion,  \* history: assert( url.is_resolved() ) in connect()
    binary,     \* stream().binary(): frames are no longer sent as text
    text,       \* history: messages whose frame was begun as text
    before      \* history: messages sent before on_ready was called

hostVars  == <<early, host, made, lookup, resolved, assertion>>
frameVars == <<binary, text, before>>
allVars   == <<vars, hostVars, frameVars>>

HostInit ==
    /\ Init /\ tcp = "none" /\ early \in BOOLEAN
    /\ host = "new" /\ made = FALSE /\ lookup = "none" /\ resolved = FALSE
    /\ assertion = "holds"
    /\ binary = FALSE /\ text = {} /\ before = {}

\* session::connect(url) with its precondition
ConnectTo(endpoints) ==
    /\ Connect(endpoints)
    /\ assertion' = IF endpoints THEN assertion ELSE "fails"

\* The constructor: the endpoint of an IP address is known, a name is looked up,
\* and with neither nothing is started.
Construct(address) ==
    /\ host = "new" /\ host' = "alive"
    /\ resolved' = (address = "ip") /\ UNCHANGED early
    /\ \/ /\ address = "ip"
          /\ made' = TRUE
          /\ ConnectTo(TRUE)
          /\ UNCHANGED lookup
       \/ /\ address = "none"
          /\ UNCHANGED <<vars, made, lookup, assertion>>
       \/ /\ address = "name"
          /\ made' = early
          /\ lookup' = "pending"
          /\ UNCHANGED <<vars, assertion>>

LookupDone ==
    /\ lookup = "pending" /\ lookup' = "done"
    /\ resolved' \in BOOLEAN
    /\ UNCHANGED <<vars, early, host, made, assertion>>

\* perform_connect() assigns the pointer; the destructor may run before the
\* next step connects.  Neither callback looks at its error code.
AssignSession ==
    /\ lookup = "done" /\ lookup' = "assigned"
    /\ made' = TRUE
    /\ UNCHANGED <<vars, early, host, resolved, assertion>>

\* mutant: the callback returns on an error
ConnectIfResolved == IF resolved THEN ConnectTo(TRUE) ELSE UNCHANGED <<vars, assertion>>
ConnectAnyway == ConnectTo(resolved)

ConnectSession ==
    /\ lookup = "assigned" /\ lookup' = "over"
    /\ ConnectAnyway
    /\ UNCHANGED <<early, host, made, resolved>>

\* o::client::send(), which does not look whether there is a session;
\* websocketclient has no message that sends.
Send(m) ==
    /\ host = "alive" /\ early
    /\ \/ made /\ Write(m, FALSE) /\ UNCHANGED host
       \/ ~made /\ host' = "crashed" /\ UNCHANGED vars
    /\ UNCHANGED <<early, made, lookup, resolved, assertion>>

NeverClose == UNCHANGED vars  \* mutant: the destructor only joins
CloseIfMade == IF made THEN Close ELSE UNCHANGED vars

Destruct ==
    /\ host = "alive" /\ host' = "joining"
    /\ CloseIfMade
    /\ UNCHANGED <<early, made, lookup, resolved, assertion>>

\* io_context::run() returns: no operation, no handler and no timer is left.
NoSocketWork == read = "none"  \* mutant: stop() instead of running out of work
OutOfWork == lookup \in {"none", "over"} /\ Quiet /\ timer = "off" /\ fired = 0

\* ~session() hands the queue back; without on_write_done_ the first message
\* throws out of the destructor.
DestroySession ==
    /\ host' = IF queue = <<>> \/ HasWriteDone THEN "gone" ELSE "crashed"
    /\ handed' = IF HasWriteDone THEN handed \o queue ELSE handed
    /\ queue' = IF HasWriteDone THEN <<>> ELSE queue

\* join() returns and the members are destroyed.
JoinReturns ==
    /\ host = "joining" /\ OutOfWork
    /\ IF made THEN DestroySession ELSE host' = "gone" /\ UNCHANGED <<queue, handed>>
    /\ UNCHANGED <<status, ws, tcp, setupVars, wr, strand, read, closeVars,
                   accepted, sent, stale>>
    /\ UNCHANGED <<early, made, lookup, resolved, assertion>>

LeavesText == UNCHANGED binary  \* mutant: on_ready only reports
SetsBinary == binary' = TRUE

\* on_ready of websocketclient_iiwa, called by handshake_handler, and by
\* connect_handler with an error
OnReady ==
    IF early /\ setup # "over" /\ setup' = "over"
    THEN SetsBinary /\ before' = ToSet(accepted)
    ELSE UNCHANGED <<binary, before>>

\* A step of the session beneath; a frame is of the kind set when its write begins.
Beneath(A) ==
    /\ host \notin {"gone", "crashed"} /\ A /\ UNCHANGED hostVars
    /\ OnReady
    /\ text' = text \cup
           {m \in Messages : ~binary /\ wr[m] # "writing" /\ wr'[m] = "writing"}

\* A step of the object itself.
Owner(A) == A /\ UNCHANGED frameVars

HostNext ==
    \/ \E address \in {"ip", "name", "none"} : Owner(Construct(address))
    \/ Owner(LookupDone) \/ Owner(AssignSession) \/ Owner(ConnectSession)
    \/ Owner(Destruct) \/ Owner(JoinReturns)
    \/ \E m \in Messages : Owner(Send(m))
    \/ Beneath(IoStep \/ NetStep)

\* As for a session; the resolver answers or gives up, and join() returns when
\* it can.
HostFairness ==
    /\ WF_allVars(Owner(LookupDone)) /\ WF_allVars(Owner(AssignSession))
    /\ WF_allVars(Owner(ConnectSession)) /\ WF_allVars(Owner(JoinReturns))
    /\ WF_allVars(Beneath(ConnectHandler))
    /\ WF_allVars(Beneath(ReadyHandler("handshake")))
    /\ WF_allVars(Beneath(RunStrand))
    /\ \A m \in Messages : /\ WF_allVars(Beneath(WriteCompleteHandler(m)))
                           /\ WF_allVars(Beneath(WriteFail(m)))
    /\ WF_allVars(Beneath(ReadHandlerOk)) /\ WF_allVars(Beneath(ReadHandlerErr))
    /\ WF_allVars(Beneath(CloseHandler)) /\ WF_allVars(Beneath(TimerExpire))
    /\ WF_allVars(Beneath(TimerHandler)) /\ WF_allVars(Beneath(SetupFail))
    /\ WF_allVars(Beneath(ReadErr)) /\ WF_allVars(Beneath(ReadAbort))
    /\ WF_allVars(Beneath(CloseAbort))

HostSpec == HostInit /\ [][HostNext]_allVars
HostFairSpec == HostSpec /\ HostFairness

-----------------------------------------------------------------------------
(* Properties.                                                             *)

\* When the destructor has returned, every message the object sent has been
\* handed back: none points into the factory it destroys, and no write or
\* lambda of the session is left that would use one.  ~session() finds no message
\* it cannot hand back; only an object without a session crashes, if it sends.
NothingOutlivesHost ==
    /\ host = "gone" => /\ Len(handed) = Len(accepted)
                        /\ \A m \in ToSet(accepted) : m \in ToSet(handed) /\ ~InFlight(m)
    /\ host = "crashed" => ~made

\* websocketclient_iiwa: what is sent once the session is ready leaves in a binary
\* frame.  A message sent earlier may begin between the end of the handshake and
\* on_ready and leave as text, of which from_const_buffers copies nothing.
ReadySendsBinary == setup = "over" => text \subseteq before

\* assert( url.is_resolved() ), session.h:197
ConnectIsResolved == assertion = "holds"

\* The destructor returns, whatever the peer does, if it is called once the
\* session has begun to connect, if its deadline is still running when that
\* begins later, if the name was not found, or if there is no session to end.
DestructorReturns ==
    (\/ host = "alive" /\ setup # "idle"
     \/ host = "joining" /\ setup # "idle" /\ timer = "armed"
     \/ lookup = "over" /\ ~resolved
     \/ host = "alive" /\ lookup = "none" /\ ~made)
        ~> (host \in {"gone", "crashed"} \/ [](host = "alive"))

\* A name that is not found ends the session instead of leaving it BLOCKED.
LookupFailureIsReported ==
    (lookup = "done" /\ ~resolved) ~> (status = "ABORTED" \/ host = "gone")
=============================================================================
