---------------------------- MODULE SessionStats ----------------------------
(***************************************************************************)
(* The traffic statistics of a session (devices/stats.h): counters that a  *)
(* one second timer moves into what get() reports, and set_enabled().      *)
(* do_stat_check() starts the timer again, so that its calls form a chain. *)
(* The session disables its statistics in close() and when its read loop   *)
(* or its start-up fails; the application may enable and disable them from *)
(* any thread.  Each wait is work of the io_context: the thread that joins *)
(* it, in the destructor of the host, waits for the chain to end.          *)
(*                                                                         *)
(* set_enabled() takes no mutex.  Its test of is_enabled, its assignments  *)
(* and its use of the timer are steps, between which other threads come.   *)
(* The handlers count under a mutex, which does not keep its reset from    *)
(* falling between the load and the store of an increment.                 *)
(***************************************************************************)
EXTENDS Naturals

CONSTANTS
    Apps,           \* threads of the application
    IoThread,       \* the thread that runs the io_context
    Owner,          \* the thread that destroys the host
    MaxCalls,       \* bound on the calls of set_enabled() by the application
    MaxMessages     \* bound on the messages counted

ASSUME StatsAssumption ==
    /\ MaxCalls \in Nat /\ MaxMessages \in Nat
    /\ IoThread # Owner /\ IoThread \notin Apps /\ Owner \notin Apps

VARIABLES
    is_enabled,
    waits,      \* async_wait operations pending on timer_
    due,        \* do_stat_check calls that are queued because it expired
    cut,        \* do_stat_check calls that are queued with operation_aborted
    total,      \* messages counted since the last check, of one category
    last,       \* what get() reports
    counting,   \* the io thread has loaded total and not stored it yet
    loaded,     \* what it has loaded
    call,       \* of each thread: how far it is in set_enabled()
    session,    \* the session: "up", "ending" (its reading has ended), "over"
    host,       \* its owner: "alive", "closing", "joining" the io thread, "gone"
    calls,      \* calls of set_enabled() by the application
    counted,    \* history: messages counted since the statistics were enabled
    reported,   \* history: the sum of the reports since then
    late,       \* history: the last set_enabled() that stops cancelled with the check queued
    raced,      \* history: the last reset fell into an increment or on a queued check
    crossed     \* history: two calls have found is_enabled unset at once

chain    == <<is_enabled, waits, due, cut>>
counters == <<total, last, counted, reported, raced>>
handler  == <<counting, loaded>>
owner    == <<session, host, calls>>
vars     == <<chain, counters, handler, owner, call, late, crossed>>

Threads == Apps \cup {IoThread, Owner}

Init ==
    /\ is_enabled = FALSE /\ waits = 0 /\ due = 0 /\ cut = 0
    /\ total = 0 /\ last = 0 /\ counted = 0 /\ reported = 0
    /\ session = "up" /\ host = "alive" /\ calls = 0
    /\ counting = FALSE /\ loaded = 0 /\ late = FALSE /\ raced = FALSE
    /\ call = [t \in Threads |-> "none"] /\ crossed = FALSE

-----------------------------------------------------------------------------
(* timer_: expires_after() and cancel() abort the waits that are pending,  *)
(* and do not reach a call that is queued already.                         *)

CancelNothing == UNCHANGED <<cut, waits>>  \* mutant: the timer runs on
Cancel == /\ cut' = cut + waits
          /\ waits' = 0

Rearm == /\ cut' = cut + waits
         /\ waits' = 1

-----------------------------------------------------------------------------

(* set_enabled(), on thread t.                                             *)

IgnoresRunning == TRUE  \* mutant: starts a chain whether or not one runs
NotRunning == ~is_enabled

Enabling == {t \in Threads : call[t] = "enabling"}
Arming == {t \in Threads : call[t] = "arming"}

Goes(t, where) == call' = [call EXCEPT ![t] = where]

\* Only an enable that finds is_enabled unset goes on to start the chain.
Enter(t, enabled) ==
    /\ call[t] = "none"
    /\ \/ /\ enabled /\ NotRunning /\ Goes(t, "enabling")
          /\ crossed' = (crossed \/ Enabling # {})
       \/ /\ ~(enabled /\ NotRunning) /\ Goes(t, "stopping")
          /\ UNCHANGED crossed
    /\ UNCHANGED <<chain, counters, handler, late>>

Reset(t) ==
    /\ call[t] = "enabling" /\ Goes(t, "arming")
    /\ is_enabled' = TRUE
    /\ total' = 0 /\ last' = 0 /\ counted' = 0 /\ reported' = 0
    /\ raced' = (counting \/ due > 0)
    /\ UNCHANGED <<waits, due, cut, handler, owner, late, crossed>>

StartTimer(t) ==
    /\ call[t] = "arming" /\ Goes(t, "none")
    /\ Rearm
    /\ UNCHANGED <<is_enabled, due, counters, handler, owner, late, crossed>>

\* The else branch tests is_enabled once more.
LooksAgain(t) ==
    /\ call[t] = "stopping"
    /\ \/ is_enabled /\ Goes(t, "cancelling") /\ UNCHANGED late
       \/ ~is_enabled /\ Goes(t, "none") /\ late' = FALSE
    /\ UNCHANGED <<chain, counters, handler, owner, crossed>>

StopTimer(t) ==
    /\ call[t] = "cancelling" /\ Goes(t, "none")
    /\ Cancel
    /\ late' = (due > 0)
    /\ UNCHANGED <<is_enabled, due, counters, handler, owner, crossed>>

SetEnabled(t) == Reset(t) \/ StartTimer(t) \/ LooksAgain(t) \/ StopTimer(t)

-----------------------------------------------------------------------------
(* What the io thread runs, one after the other.                           *)

IoFree == ~counting /\ call[IoThread] = "none"

KeepsTotal == UNCHANGED total  \* mutant: counts a message in every report
StartsOver == total' = 0

\* stat::diff_callback() of one category
DiffCallback ==
    /\ last' = total
    /\ StartsOver
    /\ reported' = reported + last'
    /\ UNCHANGED <<counted, raced>>

ChainEnds == is_enabled' = FALSE /\ UNCHANGED waits /\ cut' = cut - 1

\* A cancel() that comes while this runs does what it would do just before.
StatCheckOk ==
    /\ IoFree /\ due > 0 /\ due' = due - 1
    /\ DiffCallback
    /\ Rearm
    /\ UNCHANGED <<is_enabled, handler, owner, call, late, crossed>>

StatCheckAborted ==
    /\ IoFree /\ cut > 0
    /\ ChainEnds
    /\ UNCHANGED <<due, counters, handler, owner, call, late, crossed>>

\* A second is over.
Expire ==
    /\ waits > 0
    /\ due' = due + waits /\ waits' = 0
    /\ UNCHANGED <<is_enabled, cut, counters, handler, owner, call, late, crossed>>

\* msgs()++ in read_handler and write_complete_handler, enabled or not
CountLoad ==
    /\ IoFree /\ host # "gone" /\ counted < MaxMessages
    /\ counting' = TRUE /\ loaded' = total
    /\ UNCHANGED <<chain, counters, owner, call, late, crossed>>

CountStore ==
    /\ counting /\ counting' = FALSE
    /\ total' = loaded + 1 /\ counted' = counted + 1
    /\ UNCHANGED <<chain, last, reported, raced, loaded, owner, call, late, crossed>>

-----------------------------------------------------------------------------
(* The session and its owner.                                              *)

AppSets(t, enabled) ==
    /\ host = "alive" /\ calls < MaxCalls
    /\ Enter(t, enabled)
    /\ calls' = calls + 1
    /\ UNCHANGED <<session, host>>

\* connect_handler, handshake_handler or read_handler gets an error.
SessionEnds ==
    /\ IoFree /\ session = "up" /\ host # "gone" /\ session' = "ending"
    /\ Enter(IoThread, FALSE)
    /\ UNCHANGED <<host, calls>>

SessionEnded ==
    /\ session = "ending" /\ call[IoThread] = "none" /\ session' = "over"
    /\ UNCHANGED <<chain, counters, handler, host, calls, call, late, crossed>>

\* The host's destructor calls close(), and joins; no other thread calls into an
\* object that is destroyed.
Destruct ==
    /\ host = "alive" /\ \A t \in Apps : call[t] = "none"
    /\ host' = "closing"
    /\ Enter(Owner, FALSE)
    /\ UNCHANGED <<session, calls>>

Joins ==
    /\ host = "closing" /\ call[Owner] = "none" /\ host' = "joining"
    /\ UNCHANGED <<chain, counters, handler, session, calls, call, late, crossed>>

\* A session that still reads is work, and so is each call of the chain.
OutOfWork == IoFree /\ session = "over" /\ waits = 0 /\ due = 0 /\ cut = 0

\* join() returns; the session is destroyed with its statistics.
JoinReturns ==
    /\ host = "joining" /\ OutOfWork
    /\ host' = "gone"
    /\ UNCHANGED <<chain, counters, handler, session, calls, call, late, crossed>>

Next ==
    \/ \E t \in Apps, enabled \in BOOLEAN : AppSets(t, enabled)
    \/ \E t \in Threads : SetEnabled(t)
    \/ CountLoad \/ CountStore \/ SessionEnds \/ SessionEnded
    \/ Destruct \/ Joins \/ JoinReturns
    \/ Expire \/ StatCheckOk \/ StatCheckAborted

\* Timers expire, the io thread runs what is queued, set_enabled() and join()
\* return when they can.
Fairness ==
    /\ WF_vars(Expire) /\ WF_vars(StatCheckOk) /\ WF_vars(StatCheckAborted)
    /\ WF_vars(CountStore) /\ WF_vars(SessionEnded)
    /\ WF_vars(Joins) /\ WF_vars(JoinReturns)
    /\ \A t \in Threads : WF_vars(SetEnabled(t))

Spec == Init /\ [][Next]_vars
FairSpec == Spec /\ Fairness

-----------------------------------------------------------------------------
(* Properties.                                                             *)

\* Every variable keeps its type.
TypeOK ==
    /\ is_enabled \in BOOLEAN /\ late \in BOOLEAN /\ crossed \in BOOLEAN
    /\ counting \in BOOLEAN /\ loaded \in Nat /\ raced \in BOOLEAN
    /\ waits \in Nat /\ due \in Nat /\ cut \in Nat
    /\ total \in Nat /\ last \in Nat /\ counted \in Nat /\ reported \in Nat
    /\ call \in [Threads -> {"none", "enabling", "arming", "stopping", "cancelling"}]
    /\ session \in {"up", "ending", "over"}
    /\ host \in {"alive", "closing", "joining", "gone"}
    /\ calls \in 0..MaxCalls

\* As long as no two enables have found the statistics disabled at once: there is
\* one chain exactly while is_enabled is set and its timer started.  Whatever
\* disables on other threads fall between, no second chain starts, whose checks
\* would halve every reported interval, and none that no flag would stop.
OneChain ==
    ~crossed => waits + due + cut = IF is_enabled /\ Arming = {} THEN 1 ELSE 0

\* Each message counted since the statistics were enabled is in exactly one
\* report or still to be reported, over disabling, late expiries and messages
\* that arrive while the timer's call is queued - unless the reset of that enable
\* fell into an increment, which then brings the old count back, or on a check.
NothingCountedTwice == ~raced => total + reported = counted

\* The destructor of the host is not held up by the statistics, unless the last
\* set_enabled( false ) came when the timer had expired and do_stat_check was
\* queued: that call starts the timer again, and nobody stops it any more; or
\* unless two enables have crossed, after which the flag may be unset while the
\* timer runs, and set_enabled( false ) does not cancel it.
ChainLetsGo ==
    host = "joining" /\ session = "over" /\ ~late /\ ~crossed ~> host = "gone"
=============================================================================
