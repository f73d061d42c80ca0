--------------------------- MODULE DecoderWorker ---------------------------
(***************************************************************************)
(* The decoding threads of a client object (protobuf_decoder_worker.h): an *)
(* io_context of their own, kept alive by a work guard.  The object starts *)
(* the threads and stops them in its destructor; jobs are posted from any  *)
(* thread, the io thread of the session and a running job included, and    *)
(* also while stop() is under way.                                         *)
(***************************************************************************)
EXTENDS Naturals, Sequences

CONSTANTS
    Workers,    \* the threads run() may start
    Jobs,       \* calls of async_decode() and async_encode()
    None,       \* no job
    MaxStops    \* bound on the calls of stop()

ASSUME WorkerAssumption == None \notin Jobs /\ MaxStops \in Nat

VARIABLES
    work_,      \* the guard owns work
    stopped,    \* the io_context has run out of work
    queue,      \* jobs posted and not taken
    job,        \* what a thread is running
    threads_,   \* of each thread: "none", "started", "running", "ended", "joined"
    owner,      \* the owner's thread: "free" or "stopping"
    stops,      \* calls of stop() that have returned
    done,       \* history: how often each job was run
    posted,     \* history: jobs posted
    early,      \* history: jobs posted before the first stop() was called
    served      \* history: there were threads when stop() was called

context == <<work_, stopped, queue, job>>
history == <<done, posted, early, served>>
vars    == <<context, threads_, owner, stops, history>>

Init ==
    /\ work_ = TRUE /\ stopped = FALSE /\ queue = <<>>
    /\ job = [w \in Workers |-> None]
    /\ threads_ = [w \in Workers |-> "none"]
    /\ owner = "free" /\ stops = 0
    /\ done = [j \in Jobs |-> 0] /\ posted = {} /\ early = {} /\ served = FALSE

Busy == {w \in Workers : job[w] # None}
Alive == {w \in Workers : threads_[w] \in {"started", "running"}}

\* What keeps the io_context from stopping, given the guard, queue and busy threads.
Outstanding(guard, q, busy) == guard \/ q # <<>> \/ busy # {}

-----------------------------------------------------------------------------
(* The owner.                                                              *)

\* run( num_threads )
Run(ws) ==
    /\ owner = "free" /\ \A w \in ws : threads_[w] = "none"
    /\ threads_' = [w \in Workers |-> IF w \in ws THEN "started" ELSE threads_[w]]
    /\ UNCHANGED <<context, owner, stops, history>>

KeepsGuard == UNCHANGED <<work_, stopped>>  \* mutant: only joins
ReleaseGuard ==
    /\ work_' = FALSE
    /\ stopped' = (stopped \/ ~Outstanding(FALSE, queue, Busy))

\* stop(), up to the first join()
StopCalled ==
    /\ owner = "free" /\ stops < MaxStops /\ owner' = "stopping"
    /\ ReleaseGuard
    /\ early' = IF work_ THEN posted ELSE early
    /\ served' = \E w \in Workers : threads_[w] # "none"
    /\ UNCHANGED <<queue, job, threads_, stops, done, posted>>

NoneJoined == TRUE  \* mutant: joins only threads that are not joinable
AllJoined == Alive = {}

StopReturns ==
    /\ owner = "stopping" /\ AllJoined
    /\ owner' = "free" /\ stops' = stops + 1
    /\ threads_' = [w \in Workers |->
                        IF threads_[w] = "ended" THEN "joined" ELSE threads_[w]]
    /\ UNCHANGED <<context, history>>

\* async_decode() and async_encode()
Post(j) ==
    /\ j \notin posted /\ posted' = posted \cup {j}
    /\ queue' = Append(queue, j)
    /\ UNCHANGED <<work_, stopped, job, threads_, owner, stops, done, early, served>>

-----------------------------------------------------------------------------
(* The threads, in io_context::run().                                      *)

\* run() of a context that has no work stops it.
Enter(w) ==
    /\ threads_[w] = "started"
    /\ threads_' = [threads_ EXCEPT ![w] = "running"]
    /\ stopped' = (stopped \/ ~Outstanding(work_, queue, Busy))
    /\ UNCHANGED <<work_, queue, job, owner, stops, history>>

Take(w) ==
    /\ threads_[w] = "running" /\ job[w] = None
    /\ ~stopped /\ queue # <<>>
    /\ job' = [job EXCEPT ![w] = Head(queue)] /\ queue' = Tail(queue)
    /\ UNCHANGED <<work_, stopped, threads_, owner, stops, history>>

\* The job deserializes or serializes, calls its handler and returns.
Finish(w) ==
    /\ job[w] # None
    /\ done' = [done EXCEPT ![job[w]] = @ + 1]
    /\ job' = [job EXCEPT ![w] = None]
    /\ stopped' = (stopped \/ ~Outstanding(work_, queue, Busy \ {w}))
    /\ UNCHANGED <<work_, queue, threads_, owner, stops, posted, early, served>>

Leave(w) ==
    /\ threads_[w] = "running" /\ job[w] = None /\ stopped
    /\ threads_' = [threads_ EXCEPT ![w] = "ended"]
    /\ UNCHANGED <<context, owner, stops, history>>

Next ==
    \/ \E ws \in (SUBSET Workers) \ {{}} : Run(ws)
    \/ StopCalled \/ StopReturns
    \/ \E j \in Jobs : Post(j)
    \/ \E w \in Workers : Enter(w) \/ Take(w) \/ Finish(w) \/ Leave(w)

\* Threads are scheduled, jobs end, and stop() goes on when it can.
Fairness ==
    /\ WF_vars(StopReturns)
    /\ \A w \in Workers : /\ WF_vars(Enter(w)) /\ WF_vars(Take(w))
                          /\ WF_vars(Finish(w)) /\ WF_vars(Leave(w))

Spec == Init /\ [][Next]_vars
FairSpec == Spec /\ Fairness

-----------------------------------------------------------------------------
(* Properties.                                                             *)

\* stop() has returned, and there were threads for it to join.
Returned == stops > 0 /\ owner = "free" /\ served

\* Every job posted before stop() was called is done when stop() returns, and no
\* job is done twice, however many threads take from the queue.
EarlyJobsDone ==
    Returned => \A j \in Jobs : done[j] <= 1 /\ (j \in early => done[j] = 1)

\* Once stop() has returned no job runs any more: none that was posted late, and
\* none on threads that run() starts afterwards.
NothingAfterStop == [][Returned => done' = done]_vars

\* stop() returns, although jobs are posted while it waits.
StopEnds == owner = "stopping" ~> owner = "free"
=============================================================================
