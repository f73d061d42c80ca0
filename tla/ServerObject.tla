---------------------------- MODULE ServerObject ----------------------------
(***************************************************************************)
(* A websocketserver object (websocketserver.cpp): two attributes, each    *)
(* with a handler that corrects what Max wants to set, and the io_context  *)
(* with its thread, from construction to the end of the destructor.  No    *)
(* message of the object opens its listener.                               *)
(***************************************************************************)
EXTENDS Atoms

CONSTANTS
    PortMax,    \* 65535
    Longs,      \* the numbers Max may set the port to
    Symbols,    \* the symbols Max may set the address to
    Addresses   \* those among them ip::address::from_string() accepts

ASSUME ServerAssumption ==
    /\ PortMax \in 1..(IntHalf - 1) /\ Longs \subseteq Int
    /\ Addresses \subseteq Symbols

VARIABLES
    port, address,  \* the attributes
    work_,          \* the guard owns work
    worker,         \* network_worker_: "none", "started", "running", "ended", "joined"
    ctx_running,    \* the flag the thread keeps
    object_,        \* "none", "there", "joining", "gone"
    wanted          \* history: the last long the port was set to; <<>> or its value

attributes == <<port, address, wanted>>
threads    == <<work_, worker, ctx_running, object_>>
serverVars == <<attributes, threads>>

\* (external) An attribute may pass its default value to its handler or not.
ServerInit ==
    /\ port \in {-1, 1} /\ address \in Addresses /\ wanted = <<>>
    /\ work_ = TRUE /\ worker = "none" /\ ctx_running = FALSE /\ object_ = "none"

-----------------------------------------------------------------------------
(* The attributes.                                                         *)

NoLower(n) == IF Narrow(n) > PortMax THEN PortMax ELSE n    \* mutant

\* attr_restrict_long( 1, 65535, port, args ): the narrowed number is tested, and
\* the number itself passed on.
Restricted(n) ==
    CASE Narrow(n) > PortMax -> PortMax
      [] Narrow(n) < 1 -> 1
      [] OTHER -> n

\* handle_port_change; what it returns the attribute stores as an int.
SetPort(atom) ==
    /\ object_ = "there"
    /\ IF atom.type = "long"
       THEN port' = Narrow(Restricted(atom.value)) /\ wanted' = <<atom.value>>
       ELSE UNCHANGED <<port, wanted>>
    /\ UNCHANGED <<address, threads>>

\* attr_check_ip
CheckedIp(atom) ==
    IF atom.type = "sym" /\ atom.value \in Addresses THEN atom.value ELSE address

\* handle_address_change
SetAddress(atom) ==
    /\ object_ = "there"
    /\ address' = CheckedIp(atom)
    /\ UNCHANGED <<port, wanted, threads>>

-----------------------------------------------------------------------------
(* The io_context and its thread.                                          *)

\* websocketserver( args ), and start_ctx() if there is more than one argument
Construct(args) ==
    /\ object_ = "none" /\ object_' = "there"
    /\ worker' = IF args > 1 THEN "started" ELSE worker
    /\ UNCHANGED <<attributes, work_, ctx_running>>

WorkerEnters ==
    /\ worker = "started"
    /\ worker' = "running" /\ ctx_running' = TRUE
    /\ UNCHANGED <<attributes, work_, object_>>

\* io_context::run() returns when the guard, its only work, is gone.
WorkerLeaves ==
    /\ worker = "running" /\ ~work_
    /\ worker' = "ended" /\ ctx_running' = FALSE
    /\ UNCHANGED <<attributes, work_, object_>>

KeepWork == UNCHANGED work_     \* mutant
ResetWork == work_' = FALSE

\* ~websocketserver(), end_ctx()
Destroy ==
    /\ object_ = "there" /\ object_' = "joining"
    /\ ResetWork
    /\ UNCHANGED <<attributes, worker, ctx_running>>

Joined ==
    /\ object_ = "joining" /\ worker \in {"none", "ended"}
    /\ object_' = "gone" /\ worker' = IF worker = "ended" THEN "joined" ELSE worker
    /\ UNCHANGED <<attributes, work_, ctx_running>>

ServerNext ==
    \/ \E atom \in {Long(n) : n \in Longs} \cup {Symbol(s) : s \in Symbols} \cup {Other} :
           SetPort(atom) \/ SetAddress(atom)
    \/ \E args \in 0..2 : Construct(args)
    \/ WorkerEnters \/ WorkerLeaves \/ Destroy \/ Joined

\* The thread is scheduled, and so is the one that destroys the object.
ServerFairness ==
    WF_serverVars(WorkerEnters) /\ WF_serverVars(WorkerLeaves) /\ WF_serverVars(Joined)

ServerSpec == ServerInit /\ [][ServerNext]_serverVars

-----------------------------------------------------------------------------
(* Properties.                                                             *)

\* handle_port_change: whatever 64-bit number the port is set to, what the attribute
\* holds is a port, and, if the number fits an int, no other port is in between.
PortIsPort ==
    wanted # <<>> =>
        /\ port \in 1..PortMax
        /\ IsInt(wanted[1]) =>
               \A p \in 1..PortMax : /\ wanted[1] <= p => port <= p
                                    /\ wanted[1] >= p => port >= p

\* ~websocketserver: the destructor returns, be the thread not started, not yet in
\* run() or in it.
ObjectEnds == object_ = "joining" ~> object_ = "gone"
=============================================================================
