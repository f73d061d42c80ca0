---------------------------- MODULE WorkerProofs ----------------------------
(***************************************************************************)
(* Theorems about the decoding threads, for any set of threads and jobs and *)
(* any number of stops.                                                    *)
(***************************************************************************)
EXTENDS DecoderWorker, SequenceTheorems, TLAPS

WorkerType ==
    /\ work_ \in BOOLEAN /\ stopped \in BOOLEAN /\ queue \in Seq(Jobs)
    /\ job \in [Workers -> Jobs \cup {None}]
    /\ threads_ \in [Workers -> {"none", "started", "running", "ended", "joined"}]
    /\ owner \in {"free", "stopping"} /\ stops \in Nat
    /\ done \in [Jobs -> Nat] /\ posted \subseteq Jobs /\ early \subseteq Jobs
    /\ served \in BOOLEAN

Queued(j) == \E i \in 1..Len(queue) : queue[i] = j
InHand(j) == \E w \in Workers : job[w] = j

\* A job that was posted is in the queue once, or with one thread, or done once.
OnePlace ==
    /\ \A i, k \in 1..Len(queue) : queue[i] = queue[k] => i = k
    /\ \A v, w \in Workers : job[v] = job[w] /\ job[v] # None => v = w
    /\ \A j \in Jobs :
        /\ done[j] <= 1
        /\ Queued(j) => ~InHand(j) /\ done[j] = 0
        /\ InHand(j) => done[j] = 0
        /\ j \in posted <=> Queued(j) \/ InHand(j) \/ done[j] = 1

\* The context stops only when the guard is gone and nothing is queued or
\* running, so that all that was posted before the guard was released is done;
\* a thread leaves, and stop() returns, only after that.
StoppedIdle ==
    /\ stopped => ~work_ /\ Busy = {} /\ \A j \in early : done[j] = 1
    /\ early \subseteq posted /\ (work_ => early = {})
    /\ \A w \in Workers : /\ threads_[w] \in {"ended", "joined"} => stopped
                          /\ job[w] # None => threads_[w] = "running"
    /\ served => \E w \in Workers : threads_[w] # "none"
    /\ Returned => stopped

\* the inductive invariant
WInv == WorkerType /\ OnePlace /\ StoppedIdle

LEMMA WorkerInit == Init => WInv
<1> SUFFICES ASSUME Init PROVE WInv
  OBVIOUS
<1>1. WorkerType
  <2>1. queue \in Seq(Jobs)
    BY DEF Init
  <2>2. /\ job \in [Workers -> Jobs \cup {None}] /\ done \in [Jobs -> Nat]
        /\ threads_ \in [Workers -> {"none", "started", "running", "ended", "joined"}]
    BY DEF Init
  <2> QED BY <2>1, <2>2 DEF Init, WorkerType
<1>2. OnePlace
  BY WorkerAssumption DEF Init, OnePlace, Queued, InHand
<1>3. StoppedIdle
  BY DEF Init, StoppedIdle, Returned
<1> QED BY <1>1, <1>2, <1>3 DEF WInv

\* When nothing but the threads of b is busy and the queue is empty, all that was
\* posted is done, or with them.
LEMMA IdleMeansDone ==
    ASSUME WInv, NEW b, Busy \subseteq b, queue = <<>>
    PROVE  \A j \in posted : j \in Jobs /\ (done[j] = 1 \/ \E w \in b : job[w] = j)
<1>1. \A j \in posted : j \in Jobs /\ (Queued(j) \/ InHand(j) \/ done[j] = 1)
  BY DEF WInv, WorkerType, OnePlace
<1>2. \A j : ~Queued(j)
  BY DEF Queued
<1>3. \A j \in Jobs : InHand(j) => \E w \in b : job[w] = j
  <2> SUFFICES ASSUME NEW j \in Jobs, InHand(j) PROVE \E w \in b : job[w] = j
    OBVIOUS
  <2>1. PICK w \in Workers : job[w] = j
    BY DEF InHand
  <2>2. job[w] # None
    BY <2>1, WorkerAssumption
  <2> QED BY <2>1, <2>2 DEF Busy
<1> QED BY <1>1, <1>2, <1>3

LEMMA OnePlaceFrame ==
    ASSUME OnePlace, UNCHANGED <<queue, job, done, posted>>
    PROVE  OnePlace'
BY DEF OnePlace, Queued, InHand

LEMMA WorkerRun ==
    ASSUME WInv, NEW ws \in SUBSET Workers, Run(ws)
    PROVE  WInv'
<1>1. WorkerType'
  BY DEF Run, context, history, WInv, WorkerType
<1>2. OnePlace'
  BY OnePlaceFrame DEF Run, context, history, WInv
<1>3. StoppedIdle'
  <2>1. \A w \in Workers : threads_'[w] = threads_[w]
                           \/ (threads_[w] = "none" /\ threads_'[w] = "started")
    BY DEF Run
  <2>2. UNCHANGED <<context, owner, stops, history>>
    BY DEF Run
  <2> QED BY <2>1, <2>2 DEF WInv, StoppedIdle, context, history, Returned, Busy
<1> QED BY <1>1, <1>2, <1>3 DEF WInv

LEMMA WorkerStopCalled ==
    ASSUME WInv, StopCalled
    PROVE  WInv'
<1>1. WorkerType'
  BY DEF StopCalled, ReleaseGuard, WInv, WorkerType
<1>2. OnePlace'
  BY OnePlaceFrame DEF StopCalled, WInv
<1>3. StoppedIdle'
  <2>1. work_' = FALSE /\ owner' = "stopping" /\ UNCHANGED <<queue, job, threads_, done, posted>>
    BY DEF StopCalled, ReleaseGuard
  <2>2. early' \subseteq posted
    BY DEF StopCalled, WInv, StoppedIdle
  <2>3. ASSUME stopped' PROVE Busy = {} /\ \A j \in early' : done[j] = 1
    <3>1. CASE stopped
      <4>1. ~work_
        BY <3>1 DEF WInv, StoppedIdle
      <4> QED BY <3>1, <4>1 DEF WInv, StoppedIdle, StopCalled
    <3>2. CASE ~stopped
      <4>1. queue = <<>> /\ Busy = {}
        BY <2>3, <3>2 DEF StopCalled, ReleaseGuard, Outstanding
      <4>2. \A j \in posted : j \in Jobs /\ (done[j] = 1 \/ \E w \in Busy : job[w] = j)
        BY <4>1, IdleMeansDone
      <4> QED BY <4>1, <4>2, <2>2
    <3> QED BY <3>1, <3>2
  <2>4. stopped => stopped'
    BY DEF StopCalled, ReleaseGuard
  <2>5. served' => \E w \in Workers : threads_[w] # "none"
    BY DEF StopCalled
  <2> QED BY <2>1, <2>2, <2>3, <2>4, <2>5 DEF WInv, StoppedIdle, Returned, Busy
<1> QED BY <1>1, <1>2, <1>3 DEF WInv

LEMMA WorkerStopReturns ==
    ASSUME WInv, StopReturns
    PROVE  WInv'
<1>1. WorkerType'
  BY DEF StopReturns, context, history, WInv, WorkerType
<1>2. OnePlace'
  BY OnePlaceFrame DEF StopReturns, context, history, WInv
<1>3. StoppedIdle'
  <2>1. UNCHANGED <<context, history>>
    BY DEF StopReturns
  <2>2. \A w \in Workers : /\ threads_[w] \notin {"started", "running"}
                           /\ threads_'[w] = IF threads_[w] = "ended" THEN "joined"
                                                                      ELSE threads_[w]
    BY DEF StopReturns, AllJoined, Alive
  <2>3. served => stopped
    <3> SUFFICES ASSUME served PROVE stopped
      OBVIOUS
    <3>1. PICK w \in Workers : threads_[w] # "none"
      BY DEF WInv, StoppedIdle
    <3>2. threads_[w] \in {"ended", "joined"}
      BY <2>2, <3>1 DEF WInv, WorkerType
    <3> QED BY <3>2 DEF WInv, StoppedIdle
  <2>4. \A w \in Workers : /\ threads_'[w] \in {"ended", "joined"} => stopped
                           /\ job[w] = None
                           /\ threads_[w] # "none" => threads_'[w] # "none"
    BY <2>2 DEF WInv, StoppedIdle
  <2> QED BY <2>1, <2>3, <2>4 DEF WInv, StoppedIdle, Returned, context, history, Busy
<1> QED BY <1>1, <1>2, <1>3 DEF WInv

LEMMA WorkerPost ==
    ASSUME WInv, NEW j \in Jobs, Post(j)
    PROVE  WInv'
<1>1. WorkerType'
  BY DEF Post, WInv, WorkerType
<1>2. OnePlace'
  <2>1. /\ queue \in Seq(Jobs) /\ queue' = Append(queue, j)
        /\ posted' = posted \cup {j} /\ j \notin posted /\ UNCHANGED <<job, done>>
        /\ done \in [Jobs -> Nat]
    BY DEF Post, WInv, WorkerType
  <2>2. /\ Len(queue') = Len(queue) + 1 /\ Len(queue) \in Nat /\ queue'[Len(queue) + 1] = j
        /\ \A i \in 1..Len(queue) : queue'[i] = queue[i]
    BY <2>1
  <2>3. \A i \in 1..Len(queue') : i \in 1..Len(queue) \/ i = Len(queue) + 1
    BY <2>2
  <2>4. ~Queued(j) /\ ~InHand(j) /\ done[j] # 1 /\ done[j] <= 1
    BY <2>1 DEF WInv, OnePlace
  <2>5. done[j] = 0
    BY <2>1, <2>4
  <2>6. Queued(j)'
    <3>1. Len(queue) + 1 \in 1..Len(queue')
      BY <2>2
    <3> QED BY <2>2, <3>1 DEF Queued
  <2>7. \A k \in Jobs : /\ k # j => (Queued(k)' <=> Queued(k))
                        /\ InHand(k)' <=> InHand(k)
    <3>1. \A i \in 1..Len(queue) : i \in 1..Len(queue')
      BY <2>2
    <3> QED BY <2>1, <2>2, <2>3, <3>1 DEF Queued, InHand
  <2>8. \A i, k \in 1..Len(queue') : queue'[i] = queue'[k] => i = k
    <3> SUFFICES ASSUME NEW i \in 1..Len(queue'), NEW k \in 1..Len(queue'), queue'[i] = queue'[k]
                 PROVE  i = k
      OBVIOUS
    <3>1. \A l \in 1..Len(queue) : queue[l] # j
      BY <2>4 DEF Queued
    <3> QED BY <2>2, <2>3, <3>1 DEF WInv, OnePlace
  <2> QED BY <2>1, <2>4, <2>5, <2>6, <2>7, <2>8 DEF WInv, OnePlace
<1>3. StoppedIdle'
  BY DEF Post, WInv, StoppedIdle, Returned, Busy
<1> QED BY <1>1, <1>2, <1>3 DEF WInv

LEMMA WorkerEnter ==
    ASSUME WInv, NEW w \in Workers, Enter(w)
    PROVE  WInv'
<1>1. WorkerType'
  BY DEF Enter, history, WInv, WorkerType
<1>2. OnePlace'
  BY OnePlaceFrame DEF Enter, history, WInv
<1>3. StoppedIdle'
  <2>1. /\ threads_[w] = "started" /\ threads_' = [threads_ EXCEPT ![w] = "running"]
        /\ UNCHANGED <<work_, queue, job, owner, stops, done, posted, early, served>>
        /\ stopped => stopped'
        /\ threads_ \in [Workers -> {"none", "started", "running", "ended", "joined"}]
    BY DEF Enter, history, WInv, WorkerType
  <2>2. ASSUME stopped', ~stopped
        PROVE  ~work_ /\ Busy = {} /\ \A j \in early : done[j] = 1
    <3>1. ~work_ /\ queue = <<>> /\ Busy = {}
      BY <2>2 DEF Enter, Outstanding
    <3>2. \A j \in posted : j \in Jobs /\ (done[j] = 1 \/ \E v \in Busy : job[v] = j)
      BY <3>1, IdleMeansDone
    <3> QED BY <3>1, <3>2 DEF WInv, StoppedIdle
  <2>3. \A v \in Workers : /\ threads_'[v] = threads_[v] \/ (v = w /\ threads_'[v] = "running")
                           /\ threads_'[v] \in {"ended", "joined"} => threads_[v] = threads_'[v]
    BY <2>1
  <2> QED BY <2>1, <2>2, <2>3 DEF WInv, StoppedIdle, Returned, Busy
<1> QED BY <1>1, <1>2, <1>3 DEF WInv

LEMMA WorkerTake ==
    ASSUME WInv, NEW w \in Workers, Take(w)
    PROVE  WInv'
<1>1. /\ queue \in Seq(Jobs) /\ queue # <<>> /\ queue' = Tail(queue)
      /\ job \in [Workers -> Jobs \cup {None}] /\ job[w] = None
      /\ job' = [job EXCEPT ![w] = Head(queue)]
      /\ ~stopped /\ threads_[w] = "running"
      /\ UNCHANGED <<work_, stopped, threads_, owner, stops, done, posted, early, served>>
  BY DEF Take, history, WInv, WorkerType
<1>2. /\ Head(queue) \in Jobs /\ Head(queue) = queue[1] /\ queue' \in Seq(Jobs)
      /\ Len(queue) \in Nat /\ Len(queue) > 0 /\ Len(queue') = Len(queue) - 1
      /\ \A i \in 1..Len(queue') : queue'[i] = queue[i + 1]
  BY <1>1
<1>3. WorkerType'
  BY <1>1, <1>2 DEF WInv, WorkerType
<1>4. OnePlace'
  <2>0. PICK h \in Jobs : h = Head(queue)
    BY <1>2
  <2>1. 1 \in 1..Len(queue) /\ \A i \in 1..Len(queue') : i + 1 \in 1..Len(queue) /\ i + 1 # 1
    BY <1>2
  <2>2. Queued(h) /\ ~InHand(h) /\ done[h] = 0
    BY <1>2, <2>0, <2>1 DEF WInv, OnePlace, Queued
  <2>3. ~Queued(h)'
    BY <1>2, <2>0, <2>1 DEF WInv, OnePlace, Queued
  <2>4. \A k \in Jobs : k # h => (Queued(k)' <=> Queued(k))
    <3>1. \A i \in 1..Len(queue) : i # 1 => i - 1 \in 1..Len(queue') /\ queue[i] = queue'[i - 1]
      <4> SUFFICES ASSUME NEW i \in 1..Len(queue), i # 1
                   PROVE  i - 1 \in 1..Len(queue') /\ queue[i] = queue'[i - 1]
        OBVIOUS
      <4>1. i - 1 \in 1..Len(queue') /\ (i - 1) + 1 = i
        BY <1>2
      <4> QED BY <1>2, <4>1
    <3> QED BY <1>2, <2>0, <2>1, <3>1 DEF Queued
  <2>5. h # None /\ \A v \in Workers : job'[v] = IF v = w THEN h ELSE job[v]
    BY <1>1, <1>2, <2>0, WorkerAssumption
  <2>6. InHand(h)' /\ \A k \in Jobs : k # h => (InHand(k)' <=> InHand(k))
    <3>1. \A k \in Jobs : k # None
      BY WorkerAssumption
    <3> QED BY <1>1, <2>5, <3>1 DEF InHand
  <2>7. \A u, v \in Workers : job'[u] = job'[v] /\ job'[u] # None => u = v
    BY <2>2, <2>5 DEF WInv, OnePlace, InHand
  <2>8. \A i, k \in 1..Len(queue') : queue'[i] = queue'[k] => i = k
    <3> SUFFICES ASSUME NEW i \in 1..Len(queue'), NEW k \in 1..Len(queue'), queue'[i] = queue'[k]
                 PROVE  i = k
      OBVIOUS
    <3>1. i + 1 = k + 1
      BY <1>2, <2>1 DEF WInv, OnePlace
    <3> QED BY <3>1, <1>2
  <2>9. UNCHANGED <<done, posted>>
    BY <1>1
  <2> QED BY <2>2, <2>3, <2>4, <2>6, <2>7, <2>8, <2>9 DEF WInv, OnePlace
<1>5. StoppedIdle'
  <2>1. \A v \in Workers : v # w => job'[v] = job[v]
    BY <1>1
  <2> QED BY <1>1, <2>1 DEF WInv, StoppedIdle, Returned
<1> QED BY <1>3, <1>4, <1>5 DEF WInv

LEMMA WorkerFinish ==
    ASSUME WInv, NEW w \in Workers, Finish(w)
    PROVE  WInv'
<1>0. PICK d \in Jobs : d = job[w]
  BY DEF Finish, WInv, WorkerType
<1>1. /\ job \in [Workers -> Jobs \cup {None}] /\ done \in [Jobs -> Nat]
      /\ d \in Jobs /\ d # None
      /\ job' = [job EXCEPT ![w] = None] /\ done' = [done EXCEPT ![d] = @ + 1]
      /\ UNCHANGED <<work_, queue, threads_, owner, stops, posted, early, served>>
  BY <1>0, WorkerAssumption DEF Finish, WInv, WorkerType
<1>2. WorkerType'
  BY <1>1 DEF Finish, WInv, WorkerType
<1>3. InHand(d) /\ done[d] = 0 /\ ~Queued(d)
  BY <1>0, <1>1 DEF WInv, OnePlace, InHand
<1>4. done'[d] = 1 /\ \A j \in Jobs : j # d => done'[j] = done[j]
  BY <1>1, <1>3
<1>5. \A v \in Workers : job'[v] = IF v = w THEN None ELSE job[v]
  BY <1>1
<1>6. OnePlace'
  <2>1. \A j \in Jobs : Queued(j)' <=> Queued(j)
    BY <1>1 DEF Queued
  <2>2. ~InHand(d)' /\ \A j \in Jobs : j # d => (InHand(j)' <=> InHand(j))
    <3>1. \A v \in Workers : v # w => job[v] # d
      BY <1>0, <1>1 DEF WInv, OnePlace
    <3> QED BY <1>0, <1>1, <1>5, <3>1, WorkerAssumption DEF InHand
  <2>3. \A u, v \in Workers : job'[u] = job'[v] /\ job'[u] # None => u = v
    BY <1>5 DEF WInv, OnePlace
  <2>4. \A i, k \in 1..Len(queue') : queue'[i] = queue'[k] => i = k
    BY <1>1 DEF WInv, OnePlace
  <2>5. posted' = posted
    BY <1>1
  <2> QED BY <1>3, <1>4, <2>1, <2>2, <2>3, <2>4, <2>5 DEF WInv, OnePlace
<1>7. StoppedIdle'
  <2>1. ~stopped
    BY <1>0, <1>1 DEF WInv, StoppedIdle, Busy
  <2>2. ASSUME stopped' PROVE ~work_ /\ Busy' = {} /\ \A j \in early : done'[j] = 1
    <3>1. ~work_ /\ queue = <<>> /\ Busy \ {w} = {}
      BY <2>1, <2>2 DEF Finish, Outstanding
    <3>2. \A j \in posted : j \in Jobs /\ (done[j] = 1 \/ d = j)
      <4>1. Busy \subseteq {w}
        BY <3>1
      <4> QED BY <1>0, <3>1, <4>1, IdleMeansDone
    <3>3. Busy' = {}
      BY <3>1, <1>5 DEF Busy
    <3> QED BY <1>4, <3>1, <3>2, <3>3 DEF WInv, StoppedIdle
  <2>3. \A v \in Workers : job'[v] # None => job[v] # None
    BY <1>5
  <2>4. ~Returned /\ (Returned' <=> Returned)
    BY <1>1, <2>1 DEF WInv, StoppedIdle, Returned
  <2> QED BY <1>1, <2>1, <2>2, <2>3, <2>4 DEF WInv, StoppedIdle
<1> QED BY <1>2, <1>6, <1>7 DEF WInv

LEMMA WorkerLeave ==
    ASSUME WInv, NEW w \in Workers, Leave(w)
    PROVE  WInv'
<1>1. WorkerType'
  BY DEF Leave, context, history, WInv, WorkerType
<1>2. OnePlace'
  BY OnePlaceFrame DEF Leave, context, history, WInv
<1>3. StoppedIdle'
  <2>1. /\ stopped /\ UNCHANGED <<context, owner, stops, history>> /\ job[w] = None
        /\ threads_' = [threads_ EXCEPT ![w] = "ended"]
        /\ threads_ \in [Workers -> {"none", "started", "running", "ended", "joined"}]
    BY DEF Leave, WInv, WorkerType
  <2>2. threads_'[w] = "ended" /\ \A v \in Workers : v # w => threads_'[v] = threads_[v]
    BY <2>1
  <2> QED BY <2>1, <2>2 DEF WInv, StoppedIdle, Returned, Busy, context, history
<1> QED BY <1>1, <1>2, <1>3 DEF WInv

LEMMA WorkerStep == WInv /\ [Next]_vars => WInv'
<1> SUFFICES ASSUME WInv, [Next]_vars PROVE WInv'
  OBVIOUS
<1>1. CASE UNCHANGED vars
  <2>1. WorkerType' /\ StoppedIdle'
    BY <1>1 DEF vars, context, history, WInv, WorkerType, StoppedIdle, Returned, Busy
  <2>2. OnePlace'
    BY <1>1, OnePlaceFrame DEF vars, context, history, WInv
  <2> QED BY <2>1, <2>2 DEF WInv
<1>2. ASSUME NEW ws \in (SUBSET Workers) \ {{}}, Run(ws) PROVE WInv'
  BY <1>2, WorkerRun
<1>3. ASSUME NEW w \in Workers, Enter(w) \/ Take(w) \/ Finish(w) \/ Leave(w) PROVE WInv'
  BY <1>3, WorkerEnter, WorkerTake, WorkerFinish, WorkerLeave
<1> QED BY <1>1, <1>2, <1>3, WorkerStopCalled, WorkerStopReturns, WorkerPost DEF Next

LEMMA WInvHolds == Spec => []WInv
BY WorkerInit, WorkerStep, PTL DEF Spec

\* For any number of threads: when stop() has joined them, every job posted
\* before it is done, and no job was ever taken by two threads.
THEOREM EarlyJobsAreDone == Spec => []EarlyJobsDone
<1>1. WInv => EarlyJobsDone
  BY DEF WInv, OnePlace, StoppedIdle, EarlyJobsDone
<1> QED BY <1>1, WInvHolds, PTL

\* Nothing is done any more once stop() has returned: a job posted late, or a
\* thread started late, finds a context that has stopped for good.
THEOREM StoppedForGood == Spec => NothingAfterStop
<1>1. WInv /\ [Next]_vars => [Returned => done' = done]_vars
  <2> SUFFICES ASSUME WInv, Next, Returned PROVE done' = done
    OBVIOUS
  <2>1. \A w \in Workers : ~Finish(w)
    BY DEF WInv, StoppedIdle, Busy, Finish
  <2> QED BY <2>1 DEF Next, Run, StopCalled, StopReturns, Post, Enter, Take, Leave, history
<1> QED BY <1>1, WInvHolds, PTL DEF Spec, NothingAfterStop
=============================================================================
