---------------------------- MODULE SessionLocks ----------------------------
(***************************************************************************)
(* The mutexes of a session and of the resolver its host shares, and what  *)
(* runs while they are held: session.h calls on_write_done_ and on_read_,  *)
(* and multi_resolver.h the caller's handler, without unlocking first.     *)
(* The callbacks belong to the application, and may call write() and       *)
(* resolve() again, as may its own threads.  The other modules take a      *)
(* handler as one step; here a step is one lock(), one unlock(), or the    *)
(* begin or end of a callback, and any number of threads runs the          *)
(* io_context.  A mutex locked again by its owner is waited for.           *)
(***************************************************************************)
EXTENDS FiniteSets, Sequences, SequencesExt

CONSTANTS
    IoThreads,  \* threads that may run the io_context
    Apps,       \* threads of the application
    NoThread    \* the owner of a free mutex

ASSUME LocksAssumption ==
    /\ NoThread \notin IoThreads \cup Apps /\ IoThreads \cap Apps = {}
    /\ IsFiniteSet(IoThreads)

VARIABLES
    io,         \* the threads that run the io_context
    calls,      \* what each callback of the application calls
    task,       \* what a thread runs: "none", a call or a handler
    todo,       \* the steps it has still to make
    owner       \* of each mutex

vars == <<io, calls, task, todo, owner>>

Threads == IoThreads \cup Apps
Mutexes == {"write_queue_mutex_", "stats mutex_", "queue_mtx_"}
Callbacks == {"on_write_done", "on_read", "resolved"}

Init ==
    /\ io \in (SUBSET IoThreads) \ {{}}
    /\ calls \in [Callbacks -> SUBSET {"write", "resolve"}]
    /\ task = [t \in Threads |-> "none"]
    /\ todo = [t \in Threads |-> <<>>]
    /\ owner = [m \in Mutexes |-> NoThread]

-----------------------------------------------------------------------------
(* The calls and handlers, as what they lock and unlock.                   *)

Holding(m, body) == <<<<"lock", m>>>> \o body \o <<<<"unlock", m>>>>

WriteCounts ==  \* mutant: write() counts what it queues
    Holding("write_queue_mutex_", Holding("stats mutex_", <<>>))
Write == Holding("write_queue_mutex_", <<>>)

Resolve == Holding("queue_mtx_", <<>>)

Callback(c) ==
    <<<<"begin", c>>>>
        \o (IF "write" \in calls[c] THEN Write ELSE <<>>)
        \o (IF "resolve" \in calls[c] THEN Resolve ELSE <<>>)
        \o <<<<"end", c>>>>

WriteComplete ==
    Holding("write_queue_mutex_", Holding("stats mutex_", Callback("on_write_done")))

ReadOk == Holding("stats mutex_", Callback("on_read"))

\* The end of reading: the flush of the queue, and the last call of on_read_.
FlushUnlocked == Callback("on_write_done")  \* mutant: the lock is forgotten
Flush == Holding("write_queue_mutex_", Callback("on_write_done"))
ReadEnd == Flush \o Callback("on_read")

ResolveHandler == Holding("queue_mtx_", Callback("resolved"))

-----------------------------------------------------------------------------

Start(t, name, steps) ==
    /\ task[t] = "none"
    /\ task' = [task EXCEPT ![t] = name]
    /\ todo' = [todo EXCEPT ![t] = steps]
    /\ UNCHANGED <<io, calls, owner>>

AppCalls(t) == Start(t, "write", Write) \/ Start(t, "resolve", Resolve)

\* A strand runs one handler at a time.
Handle(t, strand, steps) ==
    (\A u \in Threads : task[u] # strand) /\ Start(t, strand, steps)

IoRuns(t) == \/ Handle(t, "write_strand_", WriteComplete)
             \/ Handle(t, "read_strand_", ReadOk)
             \/ Handle(t, "read_strand_", ReadEnd)
             \/ Handle(t, "strand_", ResolveHandler)

Made(t) == todo' = [todo EXCEPT ![t] = Tail(@)]

Lock(t) ==
    /\ todo[t] # <<>> /\ Head(todo[t])[1] = "lock"
    /\ owner[Head(todo[t])[2]] = NoThread
    /\ owner' = [owner EXCEPT ![Head(todo[t])[2]] = t]
    /\ Made(t) /\ UNCHANGED <<io, calls, task>>

Unlock(t) ==
    /\ todo[t] # <<>> /\ Head(todo[t])[1] = "unlock"
    /\ owner' = [owner EXCEPT ![Head(todo[t])[2]] = NoThread]
    /\ Made(t) /\ UNCHANGED <<io, calls, task>>

CallbackStep(t) ==
    /\ todo[t] # <<>> /\ Head(todo[t])[1] \in {"begin", "end"}
    /\ Made(t) /\ UNCHANGED <<io, calls, task, owner>>

Return(t) ==
    /\ task[t] # "none" /\ todo[t] = <<>>
    /\ task' = [task EXCEPT ![t] = "none"]
    /\ UNCHANGED <<io, calls, todo, owner>>

Next ==
    \/ \E t \in Apps : AppCalls(t)
    \/ \E t \in io : IoRuns(t)
    \/ \E t \in Threads : Lock(t) \/ Unlock(t) \/ CallbackStep(t) \/ Return(t)

Spec == Init /\ [][Next]_vars

-----------------------------------------------------------------------------
(* Properties.                                                             *)

\* The thread t waits for: the owner of the mutex its next step locks.
WaitsFor(t) ==
    IF todo[t] # <<>> /\ Head(todo[t])[1] = "lock"
    THEN owner[Head(todo[t])[2]] ELSE NoThread

Stuck == \E S \in (SUBSET Threads) \ {{}} : \A t \in S : WaitsFor(t) \in S

\* No callback calls what needs the mutex it is called under.
NoReentry == "write" \notin calls["on_write_done"] /\ "resolve" \notin calls["resolved"]

\* The mutexes the callbacks lock are in one order behind the mutexes they are
\* called under; write_complete_handler puts the statistics behind the queue.
OneOrder ==
    /\ "write" \notin calls["on_read"]
    /\ "write" \in calls["resolved"] =>
           "resolve" \notin calls["on_read"] \cup calls["on_write_done"]

\* No threads ever wait for each other, or one for itself, if the callbacks do
\* not call what needs the mutex they are called under and either one thread runs
\* the io_context, as in the hosts of the repository, or the locks are ordered.
NeverStuck == NoReentry /\ (Cardinality(io) = 1 \/ OneOrder) => ~Stuck

\* Inside callback c: its end is still to come, and not its begin.
Inside(t, c) == <<"end", c>> \in ToSet(todo[t]) /\ <<"begin", c>> \notin ToSet(todo[t])

\* on_write_done_ is never run by two threads at once, although the handlers of
\* two strands call it: an application may keep its message pool without a lock.
DoneCallbackAlone ==
    \A t, u \in Threads :
        Inside(t, "on_write_done") /\ Inside(u, "on_write_done") => t = u
=============================================================================
