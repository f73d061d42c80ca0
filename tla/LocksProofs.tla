----------------------------- MODULE LocksProofs -----------------------------
(***************************************************************************)
(* Theorems about the mutexes of a session and its resolver, for any number *)
(* of threads and whatever the callbacks call.  What a thread has still to *)
(* do is one of finitely many rests of a call or handler, and each rest    *)
(* goes with the mutexes the thread holds.                                 *)
(***************************************************************************)
EXTENDS SessionLocks, Integers, SequenceTheorems, FiniteSetTheorems, TLAPS

Kinds == {"lock", "unlock", "begin", "end"}
Steps == Kinds \X (Mutexes \cup Callbacks)
Rests == Seq(Steps)

\* Concatenation, under a name that the provers do not look behind.
Cat(r, s) == r \o s

\* A step and what comes after it.
Then(k, x, s) == <<<<k, x>>>> \o s

LEMMA ThenIs ==
    ASSUME NEW k \in Kinds, NEW x \in Mutexes \cup Callbacks, NEW s \in Rests
    PROVE  /\ Then(k, x, s) \in Rests /\ Then(k, x, s) # <<>>
           /\ Head(Then(k, x, s)) = <<k, x>> /\ Tail(Then(k, x, s)) = s
           /\ ToSet(Then(k, x, s)) = {<<k, x>>} \cup ToSet(s)
<1> DEFINE e == <<k, x>>
           r == <<e>> \o s
<1>1. e \in Steps
    BY DEF Steps
<1> HIDE DEF e
<1>2. <<e>> \in Rests /\ Len(<<e>>) = 1 /\ <<e>>[1] = e
    BY <1>1 DEF Rests
<1>3. /\ r \in Rests /\ Len(r) = 1 + Len(s) /\ Len(s) \in Nat
      /\ \A i \in 1..(1 + Len(s)) : r[i] = IF i <= 1 THEN <<e>>[i] ELSE s[i - 1]
    BY <1>2, ConcatProperties, LenProperties DEF Rests
<1> HIDE DEF r
<1>4. r # <<>> /\ Head(r) = e
    BY <1>2, <1>3 DEF Rests
<1>5. Tail(r) = s
    <2>1. Tail(r) \in Rests /\ Len(Tail(r)) = Len(s) /\ \A i \in 1..Len(s) : Tail(r)[i] = r[i + 1]
        BY <1>3, <1>4, HeadTailProperties DEF Rests
    <2>2. \A i \in 1..Len(s) : Tail(r)[i] = s[i]
        BY <1>3, <2>1
    <2> QED BY <2>1, <2>2, SeqEqual DEF Rests
<1>6. ToSet(r) = {e} \cup ToSet(s)
    <2>1. ToSet(r) = {r[i] : i \in 1..Len(r)} /\ ToSet(s) = {s[i] : i \in 1..Len(s)}
        <3>1. DOMAIN r = 1..Len(r) /\ DOMAIN s = 1..Len(s)
            BY <1>3, LenProperties DEF Rests
        <3> QED BY <3>1 DEF ToSet
    <2>2. ASSUME NEW i \in 1..Len(r) PROVE r[i] \in {e} \cup ToSet(s)
        <3>1. CASE i = 1
            BY <1>2, <1>3, <3>1
        <3>2. CASE i # 1
            <4>1. i - 1 \in 1..Len(s) /\ r[i] = s[i - 1]
                BY <1>3, <3>2
            <4> QED BY <2>1, <4>1
        <3> QED BY <3>1, <3>2
    <2>3. e \in ToSet(r)
        BY <1>2, <1>3, <2>1
    <2>4. ASSUME NEW i \in 1..Len(s) PROVE s[i] \in ToSet(r)
        <3>1. i + 1 \in 1..Len(r) /\ r[i + 1] = s[i]
            BY <1>3
        <3> QED BY <2>1, <3>1
    <2> QED BY <2>1, <2>2, <2>3, <2>4
<1> QED BY <1>3, <1>4, <1>5, <1>6 DEF Then, e, r

-----------------------------------------------------------------------------
(* The calls and handlers step by step; x is what the callbacks call.      *)

WriteThen(x, c, s) ==
    IF "write" \in x[c]
    THEN Then("lock", "write_queue_mutex_", Then("unlock", "write_queue_mutex_", s)) ELSE s
ResolveThen(x, c, s) ==
    IF "resolve" \in x[c] THEN Then("lock", "queue_mtx_", Then("unlock", "queue_mtx_", s)) ELSE s
EndThen(c, s) == Then("end", c, s)
BodyThen(x, c, s) == WriteThen(x, c, ResolveThen(x, c, EndThen(c, s)))
CallThen(x, c, s) == Then("begin", c, BodyThen(x, c, s))

Done == <<>>
QueueUnlock == Then("unlock", "write_queue_mutex_", Done)
BothUnlock == Then("unlock", "stats mutex_", QueueUnlock)
StatsUnlock == Then("unlock", "stats mutex_", Done)
ResolverUnlock == Then("unlock", "queue_mtx_", Done)
FlushEnd(x) == Then("unlock", "write_queue_mutex_", CallThen(x, "on_read", Done))

CompleteLocked(x) == Then("lock", "stats mutex_", CallThen(x, "on_write_done", BothUnlock))

LEMMA RestTypes ==
    ASSUME NEW x, NEW c \in Callbacks, NEW s \in Rests
    PROVE  /\ EndThen(c, s) \in Rests /\ ResolveThen(x, c, EndThen(c, s)) \in Rests
           /\ BodyThen(x, c, s) \in Rests /\ CallThen(x, c, s) \in Rests
<1> USE DEF Kinds, Mutexes, Callbacks
<1>1. EndThen(c, s) \in Rests
    BY ThenIs DEF EndThen
<1>2. ASSUME NEW r \in Rests, NEW m \in Mutexes
      PROVE  Then("unlock", m, r) \in Rests /\ Then("lock", m, Then("unlock", m, r)) \in Rests
    <2>1. Then("unlock", m, r) \in Rests
        BY ThenIs
    <2> QED BY <2>1, ThenIs
<1>3. ResolveThen(x, c, EndThen(c, s)) \in Rests
    BY <1>1, <1>2 DEF ResolveThen
<1>4. BodyThen(x, c, s) \in Rests
    BY <1>2, <1>3 DEF BodyThen, WriteThen
<1> QED BY <1>1, <1>3, <1>4, ThenIs DEF CallThen

LEMMA NamedRests ==
    ASSUME NEW x
    PROVE  /\ Done \in Rests /\ QueueUnlock \in Rests /\ BothUnlock \in Rests
           /\ StatsUnlock \in Rests /\ ResolverUnlock \in Rests /\ FlushEnd(x) \in Rests
           /\ CompleteLocked(x) \in Rests
<1> USE DEF Kinds, Mutexes, Callbacks
<1>1. Done \in Rests
    BY DEF Done, Rests
<1>2. QueueUnlock \in Rests /\ StatsUnlock \in Rests /\ ResolverUnlock \in Rests
    BY <1>1, ThenIs DEF QueueUnlock, StatsUnlock, ResolverUnlock
<1>3. BothUnlock \in Rests
    BY <1>2, ThenIs DEF BothUnlock
<1>4. CallThen(x, "on_read", Done) \in Rests /\ CallThen(x, "on_write_done", BothUnlock) \in Rests
    BY <1>1, <1>3, RestTypes
<1> QED BY <1>1, <1>2, <1>3, <1>4, ThenIs DEF FlushEnd, CompleteLocked

LEMMA CatIsRest ==
    ASSUME NEW r \in Rests, NEW s \in Rests
    PROVE  Cat(r, s) \in Rests
BY ConcatProperties DEF Rests, Cat

LEMMA CatDone ==
    ASSUME NEW r \in Rests
    PROVE  Cat(r, Done) = r /\ Cat(Done, r) = r
BY ConcatEmptySeq DEF Rests, Cat, Done

LEMMA CatAssociative ==
    ASSUME NEW r \in Rests, NEW s \in Rests, NEW t \in Rests
    PROVE  Cat(Cat(r, s), t) = Cat(r, Cat(s, t))
BY ConcatAssociative DEF Rests, Cat

\* A mutex held around a body, and what comes after it.
LEMMA HoldingThen ==
    ASSUME NEW m \in Mutexes, NEW body \in Rests, NEW s \in Rests
    PROVE  /\ Holding(m, body) \in Rests
           /\ Cat(Holding(m, body), s) = Then("lock", m, Cat(body, Then("unlock", m, s)))
           /\ Holding(m, body) = Then("lock", m, Cat(body, Then("unlock", m, Done)))
<1> DEFINE l == <<<<"lock", m>>>>
           u == <<<<"unlock", m>>>>
<1>1. l \in Rests /\ u \in Rests /\ Done \in Rests
    <2>1. l \in Rests /\ u \in Rests
        BY DEF Steps, Rests, Kinds
    <2> QED BY <2>1, NamedRests
<1>2. /\ Then("unlock", m, s) = Cat(u, s) /\ Then("unlock", m, Done) = Cat(u, Done)
      /\ \A r : Then("lock", m, r) = Cat(l, r)
      /\ Holding(m, body) = Cat(Cat(l, body), u)
    BY DEF Then, Holding, Cat
<1> HIDE DEF l, u
<1>3. Cat(l, body) \in Rests /\ Holding(m, body) \in Rests
    BY <1>1, <1>2, CatIsRest
<1>4. ASSUME NEW r \in Rests
      PROVE  Cat(Holding(m, body), r) = Cat(l, Cat(body, Cat(u, r)))
    <2>1. Cat(Cat(Cat(l, body), u), r) = Cat(Cat(l, body), Cat(u, r))
        BY <1>1, <1>3, CatAssociative
    <2>2. Cat(Cat(l, body), Cat(u, r)) = Cat(l, Cat(body, Cat(u, r)))
        BY <1>1, CatIsRest, CatAssociative
    <2> QED BY <1>2, <2>1, <2>2
<1>5. Cat(Holding(m, body), Done) = Holding(m, body)
    BY <1>3, CatDone
<1> QED BY <1>1, <1>2, <1>3, <1>4, <1>5

LEMMA WriteIs ==
    /\ Write \in Rests /\ Write = Then("lock", "write_queue_mutex_", QueueUnlock)
    /\ \A s \in Rests : Cat(Write, s) =
           Then("lock", "write_queue_mutex_", Then("unlock", "write_queue_mutex_", s))
<1>1. Done \in Rests /\ Write = Holding("write_queue_mutex_", Done)
    BY NamedRests DEF Write, Done
<1>2. \A s \in Rests : Then("unlock", "write_queue_mutex_", s) \in Rests
    BY ThenIs DEF Mutexes, Kinds
<1>3. Write \in Rests /\ \A s \in Rests :
          /\ Cat(Write, s) = Then("lock", "write_queue_mutex_", Cat(Done, Then("unlock", "write_queue_mutex_", s)))
          /\ Write = Then("lock", "write_queue_mutex_", Cat(Done, Then("unlock", "write_queue_mutex_", Done)))
    BY <1>1, HoldingThen DEF Mutexes
<1> QED BY <1>1, <1>2, <1>3, CatDone DEF QueueUnlock

LEMMA ResolveIs ==
    /\ Resolve \in Rests /\ Resolve = Then("lock", "queue_mtx_", ResolverUnlock)
    /\ \A s \in Rests : Cat(Resolve, s) =
           Then("lock", "queue_mtx_", Then("unlock", "queue_mtx_", s))
<1>1. Done \in Rests /\ Resolve = Holding("queue_mtx_", Done)
    BY NamedRests DEF Resolve, Done
<1>2. \A s \in Rests : Then("unlock", "queue_mtx_", s) \in Rests
    BY ThenIs DEF Mutexes, Kinds
<1>3. Resolve \in Rests /\ \A s \in Rests :
          /\ Cat(Resolve, s) = Then("lock", "queue_mtx_", Cat(Done, Then("unlock", "queue_mtx_", s)))
          /\ Resolve = Then("lock", "queue_mtx_", Cat(Done, Then("unlock", "queue_mtx_", Done)))
    BY <1>1, HoldingThen DEF Mutexes
<1> QED BY <1>1, <1>2, <1>3, CatDone DEF ResolverUnlock

\* A callback and what comes after it.
LEMMA CallbackThen ==
    ASSUME NEW c \in Callbacks, NEW s \in Rests, NEW x, x = calls
    PROVE  /\ Callback(c) \in Rests /\ Cat(Callback(c), s) = CallThen(x, c, s)
           /\ Callback(c) = CallThen(x, c, Done)
<1> DEFINE b == <<<<"begin", c>>>>
           w == IF "write" \in calls[c] THEN Write ELSE <<>>
           r == IF "resolve" \in calls[c] THEN Resolve ELSE <<>>
           e == <<<<"end", c>>>>
<1>1. b \in Rests /\ e \in Rests /\ Done \in Rests
    BY NamedRests DEF Steps, Rests, Kinds
<1>2. w \in Rests /\ r \in Rests
    BY <1>1, WriteIs, ResolveIs DEF Done
<1>3. Callback(c) = Cat(Cat(Cat(b, w), r), e)
    BY DEF Callback, Cat
<1>4. ASSUME NEW t \in Rests PROVE Cat(w, t) = WriteThen(x, c, t)
    <2>1. CASE "write" \in calls[c]
        BY <2>1, WriteIs DEF WriteThen
    <2>2. CASE "write" \notin calls[c]
        BY <2>2, CatDone DEF WriteThen, Done
    <2> QED BY <2>1, <2>2
<1>5. ASSUME NEW t \in Rests PROVE Cat(r, t) = ResolveThen(x, c, t)
    <2>1. CASE "resolve" \in calls[c]
        BY <2>1, ResolveIs DEF ResolveThen
    <2>2. CASE "resolve" \notin calls[c]
        BY <2>2, CatDone DEF ResolveThen, Done
    <2> QED BY <2>1, <2>2
<1>6. /\ \A t : Then("begin", c, t) = Cat(b, t)
      /\ \A t : Then("end", c, t) = Cat(e, t)
    BY DEF Then, Cat
<1> HIDE DEF b, w, r, e
<1>7. Cat(b, w) \in Rests /\ Cat(Cat(b, w), r) \in Rests /\ Callback(c) \in Rests
    BY <1>1, <1>2, <1>3, CatIsRest
<1>8. ASSUME NEW t \in Rests PROVE Cat(Callback(c), t) = CallThen(x, c, t)
    <2>1. Cat(e, t) \in Rests /\ Cat(r, Cat(e, t)) \in Rests
        BY <1>1, <1>2, CatIsRest
    <2>2. Cat(Callback(c), t) = Cat(Cat(Cat(b, w), r), Cat(e, t))
        BY <1>1, <1>3, <1>7, CatAssociative
    <2>3. Cat(Cat(Cat(b, w), r), Cat(e, t)) = Cat(Cat(b, w), Cat(r, Cat(e, t)))
        BY <1>2, <1>7, <2>1, CatAssociative
    <2>4. Cat(Cat(b, w), Cat(r, Cat(e, t))) = Cat(b, Cat(w, Cat(r, Cat(e, t))))
        BY <1>1, <1>2, <2>1, CatAssociative
    <2>5. Cat(r, Cat(e, t)) = ResolveThen(x, c, EndThen(c, t))
        BY <1>5, <1>6, <2>1 DEF EndThen
    <2>6. Cat(w, Cat(r, Cat(e, t))) = BodyThen(x, c, t)
        BY <1>4, <2>1, <2>5 DEF BodyThen
    <2> QED BY <1>6, <2>2, <2>3, <2>4, <2>6 DEF CallThen
<1>9. Cat(Callback(c), Done) = Callback(c) /\ Cat(Callback(c), Done) = CallThen(x, c, Done)
    BY <1>1, <1>7, <1>8, CatDone
<1> QED BY <1>7, <1>8, <1>9

\* The handlers, step by step.
LEMMA HandlersAre ==
    ASSUME NEW x, x = calls
    PROVE  /\ WriteComplete = Then("lock", "write_queue_mutex_", CompleteLocked(x))
           /\ ReadOk = Then("lock", "stats mutex_", CallThen(x, "on_read", StatsUnlock))
           /\ ReadEnd = Then("lock", "write_queue_mutex_", CallThen(x, "on_write_done", FlushEnd(x)))
           /\ ResolveHandler = Then("lock", "queue_mtx_", CallThen(x, "resolved", ResolverUnlock))
<1>0. /\ Done \in Rests /\ QueueUnlock \in Rests /\ BothUnlock \in Rests
      /\ StatsUnlock \in Rests /\ ResolverUnlock \in Rests /\ FlushEnd(x) \in Rests
    BY NamedRests
<1>1. /\ Callback("on_write_done") \in Rests /\ Callback("on_read") \in Rests
      /\ Callback("resolved") \in Rests /\ Callback("on_read") = CallThen(x, "on_read", Done)
    BY <1>0, CallbackThen DEF Callbacks
<1>2. "write_queue_mutex_" \in Mutexes /\ "stats mutex_" \in Mutexes /\ "queue_mtx_" \in Mutexes
    BY DEF Mutexes
<1>3. WriteComplete = Then("lock", "write_queue_mutex_", CompleteLocked(x))
    <2> DEFINE inner == Holding("stats mutex_", Callback("on_write_done"))
    <2>1. /\ inner \in Rests
          /\ Cat(inner, QueueUnlock)
                = Then("lock", "stats mutex_", Cat(Callback("on_write_done"), BothUnlock))
        BY <1>0, <1>1, <1>2, HoldingThen DEF BothUnlock
    <2>2. Cat(Callback("on_write_done"), BothUnlock) = CallThen(x, "on_write_done", BothUnlock)
        BY <1>0, CallbackThen DEF Callbacks
    <2>3. WriteComplete = Holding("write_queue_mutex_", inner)
        BY DEF WriteComplete
    <2> HIDE DEF inner
    <2>4. WriteComplete = Then("lock", "write_queue_mutex_", Cat(inner, QueueUnlock))
        BY <1>0, <1>2, <2>1, <2>3, HoldingThen DEF QueueUnlock
    <2> QED BY <2>1, <2>2, <2>4 DEF CompleteLocked
<1>4. ReadOk = Then("lock", "stats mutex_", CallThen(x, "on_read", StatsUnlock))
    <2>1. ReadOk = Then("lock", "stats mutex_", Cat(Callback("on_read"), StatsUnlock))
        BY <1>0, <1>1, <1>2, HoldingThen DEF ReadOk, StatsUnlock
    <2>2. Cat(Callback("on_read"), StatsUnlock) = CallThen(x, "on_read", StatsUnlock)
        BY <1>0, CallbackThen DEF Callbacks
    <2> QED BY <2>1, <2>2
<1>5. ResolveHandler = Then("lock", "queue_mtx_", CallThen(x, "resolved", ResolverUnlock))
    <2>1. ResolveHandler = Then("lock", "queue_mtx_", Cat(Callback("resolved"), ResolverUnlock))
        BY <1>0, <1>1, <1>2, HoldingThen DEF ResolveHandler, ResolverUnlock
    <2>2. Cat(Callback("resolved"), ResolverUnlock) = CallThen(x, "resolved", ResolverUnlock)
        BY <1>0, CallbackThen DEF Callbacks
    <2> QED BY <2>1, <2>2
<1>6. ReadEnd = Then("lock", "write_queue_mutex_", CallThen(x, "on_write_done", FlushEnd(x)))
    <2>1. Cat(Flush, Callback("on_read"))
              = Then("lock", "write_queue_mutex_",
                     Cat(Callback("on_write_done"), Then("unlock", "write_queue_mutex_", Callback("on_read"))))
        BY <1>1, <1>2, HoldingThen DEF Flush
    <2>2. Cat(Callback("on_write_done"), FlushEnd(x)) = CallThen(x, "on_write_done", FlushEnd(x))
        BY <1>0, CallbackThen DEF Callbacks
    <2>3. ReadEnd = Cat(Flush, Callback("on_read"))
        BY DEF ReadEnd, Cat
    <2> QED BY <1>1, <2>1, <2>2, <2>3 DEF FlushEnd
<1> QED BY <1>3, <1>4, <1>5, <1>6

-----------------------------------------------------------------------------
(* Where a thread is.                                                      *)

\* Thread t has still to do s, and the mutexes in H are those it holds.
At(t, s, H) == todo[t] = s /\ \A m \in Mutexes : owner[m] = t <=> m \in H

\* Within callback c, called with the mutexes of H held and s to do afterwards.
InCall(x, t, c, H, s) ==
    \/ At(t, CallThen(x, c, s), H)
    \/ At(t, BodyThen(x, c, s), H)
    \/ /\ "write" \in x[c] /\ "write_queue_mutex_" \notin H
       /\ At(t, Then("unlock", "write_queue_mutex_", ResolveThen(x, c, EndThen(c, s))),
             H \cup {"write_queue_mutex_"})
    \/ At(t, ResolveThen(x, c, EndThen(c, s)), H)
    \/ /\ "resolve" \in x[c] /\ "queue_mtx_" \notin H
       /\ At(t, Then("unlock", "queue_mtx_", EndThen(c, s)), H \cup {"queue_mtx_"})
    \/ At(t, EndThen(c, s), H)

InApp(t) ==
    \/ At(t, Then("lock", "write_queue_mutex_", QueueUnlock), {})
    \/ At(t, QueueUnlock, {"write_queue_mutex_"})
    \/ At(t, Then("lock", "queue_mtx_", ResolverUnlock), {})
    \/ At(t, ResolverUnlock, {"queue_mtx_"})

InWriteComplete(x, t) ==
    \/ At(t, Then("lock", "write_queue_mutex_", CompleteLocked(x)), {})
    \/ At(t, CompleteLocked(x), {"write_queue_mutex_"})
    \/ InCall(x, t, "on_write_done", {"write_queue_mutex_", "stats mutex_"}, BothUnlock)
    \/ At(t, BothUnlock, {"write_queue_mutex_", "stats mutex_"})
    \/ At(t, QueueUnlock, {"write_queue_mutex_"})

InReadOk(x, t) ==
    \/ At(t, Then("lock", "stats mutex_", CallThen(x, "on_read", StatsUnlock)), {})
    \/ InCall(x, t, "on_read", {"stats mutex_"}, StatsUnlock)
    \/ At(t, StatsUnlock, {"stats mutex_"})

InReadEnd(x, t) ==
    \/ At(t, Then("lock", "write_queue_mutex_", CallThen(x, "on_write_done", FlushEnd(x))), {})
    \/ InCall(x, t, "on_write_done", {"write_queue_mutex_"}, FlushEnd(x))
    \/ At(t, FlushEnd(x), {"write_queue_mutex_"})
    \/ InCall(x, t, "on_read", {}, Done)

InResolveHandler(x, t) ==
    \/ At(t, Then("lock", "queue_mtx_", CallThen(x, "resolved", ResolverUnlock)), {})
    \/ InCall(x, t, "resolved", {"queue_mtx_"}, ResolverUnlock)
    \/ At(t, ResolverUnlock, {"queue_mtx_"})

InHandler(x, t) ==
    InWriteComplete(x, t) \/ InReadOk(x, t) \/ InReadEnd(x, t) \/ InResolveHandler(x, t)

Placed(x, t) == At(t, Done, {}) \/ InApp(t) \/ (t \in io /\ InHandler(x, t))

Tasks == {"none", "write", "resolve", "write_strand_", "read_strand_", "strand_"}

LInv ==
    /\ io \subseteq IoThreads
    /\ task \in [Threads -> Tasks] /\ DOMAIN todo = Threads /\ DOMAIN owner = Mutexes
    /\ \A m \in Mutexes : owner[m] \in Threads \cup {NoThread}
    /\ \A t \in Threads : Placed(calls, t) /\ (task[t] = "none" => todo[t] = Done)

-----------------------------------------------------------------------------
(* A step of a thread.                                                     *)

Moves(t) == Lock(t) \/ Unlock(t) \/ CallbackStep(t)

\* A thread unlocks only what it holds.
UnlocksOwn(t) == Unlock(t) => owner[Head(todo[t])[2]] = t

LEMMA AtLock ==
    ASSUME LInv, NEW t \in Threads, NEW m \in Mutexes, NEW s \in Rests, NEW H,
           At(t, Then("lock", m, s), H), Moves(t)
    PROVE  m \notin H /\ UnlocksOwn(t) /\ At(t, s, H \cup {m})'
<1>1. Head(todo[t]) = <<"lock", m>> /\ Tail(todo[t]) = s
    BY ThenIs DEF At, Kinds
<1>2. Lock(t)
    BY <1>1 DEF Moves, Unlock, CallbackStep
<1>3. owner[m] = NoThread /\ owner' = [owner EXCEPT ![m] = t] /\ todo' = [todo EXCEPT ![t] = s]
    <2>1. Head(todo[t])[2] = m
        BY <1>1
    <2>2. todo' = [todo EXCEPT ![t] = Tail(todo[t])]
        BY <1>2 DEF Lock, Made
    <2>3. owner[m] = NoThread /\ owner' = [owner EXCEPT ![m] = t]
        BY <1>2, <2>1 DEF Lock
    <2> QED BY <1>1, <2>2, <2>3
<1>4. m \notin H
    BY <1>3, LocksAssumption DEF At, Threads
<1>5. todo'[t] = s /\ \A n \in Mutexes : owner'[n] = IF n = m THEN t ELSE owner[n]
    BY <1>3 DEF LInv
<1>6. UnlocksOwn(t)
    BY <1>1 DEF UnlocksOwn, Unlock
<1> QED BY <1>4, <1>5, <1>6 DEF At

LEMMA AtUnlock ==
    ASSUME LInv, NEW t \in Threads, NEW m \in Mutexes, NEW s \in Rests, NEW H,
           m \in H, At(t, Then("unlock", m, s), H), Moves(t)
    PROVE  UnlocksOwn(t) /\ At(t, s, H \ {m})'
<1>1. Head(todo[t]) = <<"unlock", m>> /\ Tail(todo[t]) = s
    BY ThenIs DEF At, Kinds
<1>2. Unlock(t)
    BY <1>1 DEF Moves, Lock, CallbackStep
<1>3. owner' = [owner EXCEPT ![m] = NoThread] /\ todo' = [todo EXCEPT ![t] = s]
    <2>1. Head(todo[t])[2] = m
        BY <1>1
    <2>2. todo' = [todo EXCEPT ![t] = Tail(todo[t])]
        BY <1>2 DEF Unlock, Made
    <2>3. owner' = [owner EXCEPT ![m] = NoThread]
        BY <1>2, <2>1 DEF Unlock
    <2> QED BY <1>1, <2>2, <2>3
<1>4. todo'[t] = s /\ \A n \in Mutexes : owner'[n] = IF n = m THEN NoThread ELSE owner[n]
    BY <1>3 DEF LInv
<1>5. UnlocksOwn(t)
    <2>1. Head(todo[t])[2] = m
        BY <1>1
    <2> QED BY <2>1 DEF UnlocksOwn, At
<1> QED BY <1>4, <1>5, LocksAssumption DEF At, Threads

LEMMA AtCallback ==
    ASSUME LInv, NEW t \in Threads, NEW k \in {"begin", "end"}, NEW c \in Callbacks,
           NEW s \in Rests, NEW H, At(t, Then(k, c, s), H), Moves(t)
    PROVE  UnlocksOwn(t) /\ At(t, s, H)'
<1>1. Head(todo[t]) = <<k, c>> /\ Tail(todo[t]) = s
    BY ThenIs DEF At, Kinds
<1>2. CallbackStep(t)
    BY <1>1 DEF Moves, Lock, Unlock
<1>3. owner' = owner /\ todo' = [todo EXCEPT ![t] = s]
    BY <1>1, <1>2 DEF CallbackStep, Made
<1>4. todo'[t] = s
    BY <1>3 DEF LInv
<1>5. UnlocksOwn(t)
    BY <1>1 DEF UnlocksOwn, Unlock
<1> QED BY <1>3, <1>4, <1>5 DEF At

\* A step within a callback stays in it or comes to what is to do afterwards.
LEMMA InCallStep ==
    ASSUME LInv, NEW x, NEW t \in Threads, NEW c \in Callbacks, NEW H, NEW s \in Rests,
           InCall(x, t, c, H, s), Moves(t)
    PROVE  UnlocksOwn(t) /\ (InCall(x, t, c, H, s)' \/ At(t, s, H)')
<1> DEFINE q == "write_queue_mutex_"
           r == "queue_mtx_"
           end == EndThen(c, s)
           rest == ResolveThen(x, c, end)
           body == BodyThen(x, c, s)
<1>0. /\ q \in Mutexes /\ r \in Mutexes /\ end \in Rests /\ rest \in Rests /\ body \in Rests
      /\ Then("unlock", q, rest) \in Rests /\ Then("unlock", r, end) \in Rests
    <2>1. q \in Mutexes /\ r \in Mutexes /\ end \in Rests /\ rest \in Rests /\ body \in Rests
        BY RestTypes DEF Mutexes
    <2> HIDE DEF q, r, end, rest, body
    <2> QED BY <2>1, ThenIs DEF Kinds
<1>1. CASE At(t, CallThen(x, c, s), H)
    <2>1. CallThen(x, c, s) = Then("begin", c, body)
        BY DEF CallThen
    <2>2. UnlocksOwn(t) /\ At(t, body, H)'
        BY <1>0, <1>1, <2>1, AtCallback
    <2> QED BY <2>2 DEF InCall
<1>2. ASSUME At(t, end, H) PROVE UnlocksOwn(t) /\ At(t, s, H)'
    <2>1. end = Then("end", c, s)
        BY DEF EndThen
    <2> HIDE DEF end
    <2> QED BY <1>2, <2>1, AtCallback
<1>3. CASE /\ "resolve" \in x[c] /\ r \notin H
           /\ At(t, Then("unlock", r, end), H \cup {r})
    <2>1. UnlocksOwn(t) /\ At(t, end, (H \cup {r}) \ {r})'
        BY <1>0, <1>3, AtUnlock
    <2>2. (H \cup {r}) \ {r} = H
        BY <1>3
    <2> QED BY <2>1, <2>2 DEF InCall
<1>4. ASSUME At(t, rest, H)
      PROVE  UnlocksOwn(t) /\ (InCall(x, t, c, H, s)' \/ At(t, s, H)')
    <2>1. CASE "resolve" \in x[c]
        <3>1. rest = Then("lock", r, Then("unlock", r, end))
            BY <2>1 DEF ResolveThen
        <3>2. r \notin H /\ UnlocksOwn(t) /\ At(t, Then("unlock", r, end), H \cup {r})'
            BY <1>0, <1>4, <3>1, AtLock
        <3> QED BY <2>1, <3>2 DEF InCall
    <2>2. CASE "resolve" \notin x[c]
        <3>1. rest = end
            BY <2>2 DEF ResolveThen
        <3> QED BY <1>2, <1>4, <3>1
    <2> QED BY <2>1, <2>2
<1>5. CASE /\ "write" \in x[c] /\ q \notin H
           /\ At(t, Then("unlock", q, rest), H \cup {q})
    <2>1. UnlocksOwn(t) /\ At(t, rest, (H \cup {q}) \ {q})'
        BY <1>0, <1>5, AtUnlock
    <2>2. (H \cup {q}) \ {q} = H
        BY <1>5
    <2> QED BY <2>1, <2>2 DEF InCall
<1>6. CASE At(t, body, H)
    <2>1. CASE "write" \in x[c]
        <3>1. body = Then("lock", q, Then("unlock", q, rest))
            BY <2>1 DEF BodyThen, WriteThen
        <3>2. q \notin H /\ UnlocksOwn(t) /\ At(t, Then("unlock", q, rest), H \cup {q})'
            BY <1>0, <1>6, <3>1, AtLock
        <3> QED BY <2>1, <3>2 DEF InCall
    <2>2. CASE "write" \notin x[c]
        <3>1. body = rest
            BY <2>2 DEF BodyThen, WriteThen
        <3> QED BY <1>4, <1>6, <3>1
    <2> QED BY <2>1, <2>2
<1> QED BY <1>1, <1>2, <1>3, <1>4, <1>5, <1>6 DEF InCall

\* A step of a call or handler stays in it or ends it.
LEMMA PlacedStep ==
    ASSUME LInv, NEW x, NEW t \in Threads, Placed(x, t), Moves(t)
    PROVE  UnlocksOwn(t) /\ Placed(x, t)'
<1> DEFINE wq == "write_queue_mutex_"
           st == "stats mutex_"
           rq == "queue_mtx_"
           done == CallThen(x, "on_write_done", BothUnlock)
           read == CallThen(x, "on_read", StatsUnlock)
           flush == CallThen(x, "on_write_done", FlushEnd(x))
           last == CallThen(x, "on_read", Done)
           handler == CallThen(x, "resolved", ResolverUnlock)
<1>0. /\ wq \in Mutexes /\ st \in Mutexes /\ rq \in Mutexes
      /\ Done \in Rests /\ QueueUnlock \in Rests /\ BothUnlock \in Rests /\ StatsUnlock \in Rests
      /\ ResolverUnlock \in Rests /\ FlushEnd(x) \in Rests /\ CompleteLocked(x) \in Rests
      /\ done \in Rests /\ read \in Rests /\ flush \in Rests /\ last \in Rests /\ handler \in Rests
    <2>1. /\ Done \in Rests /\ QueueUnlock \in Rests /\ BothUnlock \in Rests /\ StatsUnlock \in Rests
          /\ ResolverUnlock \in Rests /\ FlushEnd(x) \in Rests /\ CompleteLocked(x) \in Rests
        BY NamedRests
    <2>2. /\ done \in Rests /\ read \in Rests /\ flush \in Rests /\ last \in Rests
          /\ handler \in Rests
        BY <2>1, RestTypes DEF Callbacks
    <2> QED BY <2>1, <2>2 DEF Mutexes
<1>io. io' = io
    BY DEF Moves, Lock, Unlock, CallbackStep
<1>n. wq # st /\ wq # rq /\ st # rq
    OBVIOUS
<1>q. /\ QueueUnlock = Then("unlock", wq, Done) /\ BothUnlock = Then("unlock", st, QueueUnlock)
      /\ StatsUnlock = Then("unlock", st, Done) /\ ResolverUnlock = Then("unlock", rq, Done)
      /\ FlushEnd(x) = Then("unlock", wq, last) /\ CompleteLocked(x) = Then("lock", st, done)
    BY DEF QueueUnlock, BothUnlock, StatsUnlock, ResolverUnlock, FlushEnd, CompleteLocked
<1>1. CASE At(t, Done, {})
    BY <1>1 DEF At, Done, Moves, Lock, Unlock, CallbackStep
<1>u. ASSUME NEW m \in Mutexes, At(t, Then("unlock", m, Done), {m})
      PROVE  UnlocksOwn(t) /\ At(t, Done, {})'
    <2>1. UnlocksOwn(t) /\ At(t, Done, {m} \ {m})'
        BY <1>0, <1>u, AtUnlock
    <2>2. {m} \ {m} = {}
        OBVIOUS
    <2> QED BY <2>1, <2>2
<1>l. ASSUME NEW m \in Mutexes, NEW s \in Rests, At(t, Then("lock", m, s), {})
      PROVE  UnlocksOwn(t) /\ At(t, s, {m})'
    <2>1. UnlocksOwn(t) /\ At(t, s, {} \cup {m})'
        BY <1>l, AtLock
    <2>2. {} \cup {m} = {m}
        OBVIOUS
    <2> QED BY <2>1, <2>2
<1>2. CASE InApp(t)
    <2>1. CASE At(t, Then("lock", wq, QueueUnlock), {})
        BY <1>0, <1>l, <2>1 DEF Placed, InApp
    <2>2. CASE At(t, QueueUnlock, {wq})
        BY <1>0, <1>q, <1>u, <2>2 DEF Placed
    <2>3. CASE At(t, Then("lock", rq, ResolverUnlock), {})
        BY <1>0, <1>l, <2>3 DEF Placed, InApp
    <2>4. CASE At(t, ResolverUnlock, {rq})
        BY <1>0, <1>q, <1>u, <2>4 DEF Placed
    <2> QED BY <1>2, <2>1, <2>2, <2>3, <2>4 DEF InApp
<1>3. CASE t \in io /\ InWriteComplete(x, t)
    <2> SUFFICES UnlocksOwn(t) /\ (InWriteComplete(x, t)' \/ At(t, Done, {})')
        BY <1>3, <1>io DEF Placed, InHandler
    <2>1. CASE At(t, Then("lock", wq, CompleteLocked(x)), {})
        BY <1>0, <1>l, <2>1 DEF InWriteComplete
    <2>2. CASE At(t, CompleteLocked(x), {wq})
        <3>1. UnlocksOwn(t) /\ At(t, done, {wq} \cup {st})'
            <4> HIDE DEF done, wq, st
            <4> QED BY <1>0, <1>q, <2>2, AtLock
        <3>2. {wq} \cup {st} = {wq, st}
            OBVIOUS
        <3> QED BY <3>1, <3>2 DEF InWriteComplete, InCall
    <2>3. CASE InCall(x, t, "on_write_done", {wq, st}, BothUnlock)
        BY <1>0, <2>3, InCallStep DEF InWriteComplete, Callbacks
    <2>4. CASE At(t, BothUnlock, {wq, st})
        <3>1. UnlocksOwn(t) /\ At(t, QueueUnlock, {wq, st} \ {st})'
            <4>1. st \in {wq, st}
                OBVIOUS
            <4> HIDE DEF wq, st
            <4> QED BY <1>0, <1>q, <2>4, <4>1, AtUnlock
        <3>2. {wq, st} \ {st} = {wq}
            OBVIOUS
        <3> QED BY <3>1, <3>2 DEF InWriteComplete
    <2>5. CASE At(t, QueueUnlock, {wq})
        BY <1>0, <1>q, <1>u, <2>5
    <2> QED BY <1>3, <2>1, <2>2, <2>3, <2>4, <2>5 DEF InWriteComplete
<1>4. CASE t \in io /\ InReadOk(x, t)
    <2> SUFFICES UnlocksOwn(t) /\ (InReadOk(x, t)' \/ At(t, Done, {})')
        BY <1>4, <1>io DEF Placed, InHandler
    <2>1. CASE At(t, Then("lock", st, read), {})
        BY <1>0, <1>l, <2>1 DEF InReadOk, InCall
    <2>2. CASE InCall(x, t, "on_read", {st}, StatsUnlock)
        BY <1>0, <2>2, InCallStep DEF InReadOk, Callbacks
    <2>3. CASE At(t, StatsUnlock, {st})
        BY <1>0, <1>q, <1>u, <2>3
    <2> QED BY <1>4, <2>1, <2>2, <2>3 DEF InReadOk
<1>5. CASE t \in io /\ InReadEnd(x, t)
    <2> SUFFICES UnlocksOwn(t) /\ (InReadEnd(x, t)' \/ At(t, Done, {})')
        BY <1>5, <1>io DEF Placed, InHandler
    <2>1. CASE At(t, Then("lock", wq, flush), {})
        BY <1>0, <1>l, <2>1 DEF InReadEnd, InCall
    <2>2. CASE InCall(x, t, "on_write_done", {wq}, FlushEnd(x))
        BY <1>0, <2>2, InCallStep DEF InReadEnd, Callbacks
    <2>3. CASE At(t, FlushEnd(x), {wq})
        <3>1. UnlocksOwn(t) /\ At(t, last, {wq} \ {wq})'
            <4>1. wq \in {wq}
                OBVIOUS
            <4> HIDE DEF wq, last
            <4> QED BY <1>0, <1>q, <2>3, <4>1, AtUnlock
        <3>2. {wq} \ {wq} = {}
            OBVIOUS
        <3> QED BY <3>1, <3>2 DEF InReadEnd, InCall
    <2>4. CASE InCall(x, t, "on_read", {}, Done)
        BY <1>0, <2>4, InCallStep DEF InReadEnd, Callbacks
    <2> QED BY <1>5, <2>1, <2>2, <2>3, <2>4 DEF InReadEnd
<1>6. CASE t \in io /\ InResolveHandler(x, t)
    <2> SUFFICES UnlocksOwn(t) /\ (InResolveHandler(x, t)' \/ At(t, Done, {})')
        BY <1>6, <1>io DEF Placed, InHandler
    <2>1. CASE At(t, Then("lock", rq, handler), {})
        BY <1>0, <1>l, <2>1 DEF InResolveHandler, InCall
    <2>2. CASE InCall(x, t, "resolved", {rq}, ResolverUnlock)
        BY <1>0, <2>2, InCallStep DEF InResolveHandler, Callbacks
    <2>3. CASE At(t, ResolverUnlock, {rq})
        BY <1>0, <1>q, <1>u, <2>3
    <2> QED BY <1>6, <2>1, <2>2, <2>3 DEF InResolveHandler
<1> QED BY <1>1, <1>2, <1>3, <1>4, <1>5, <1>6 DEF Placed, InHandler

\* The other threads are where they were.
LEMMA OthersStay ==
    ASSUME LInv, NEW x, NEW t \in Threads, NEW u \in Threads, u # t, Placed(x, u),
           Moves(t), UnlocksOwn(t)
    PROVE  Placed(x, u)'
<1>1. todo'[u] = todo[u] /\ io' = io
    BY DEF Moves, Lock, Unlock, CallbackStep, Made, LInv
<1>2. \A m \in Mutexes : (owner'[m] = u <=> owner[m] = u)
    BY LocksAssumption DEF Moves, Lock, Unlock, CallbackStep, UnlocksOwn, LInv, Threads
<1>3. \A s, H : At(u, s, H) => At(u, s, H)'
    BY <1>1, <1>2 DEF At
<1>4. \A c, H, s : InCall(x, u, c, H, s) => InCall(x, u, c, H, s)'
    BY <1>3 DEF InCall
<1> QED BY <1>1, <1>3, <1>4 DEF Placed, InApp, InHandler, InWriteComplete, InReadOk,
                                InReadEnd, InResolveHandler

-----------------------------------------------------------------------------
(* The invariant.                                                          *)

\* What is to do inside a callback is not nothing.
LEMMA InCallBusy ==
    ASSUME NEW x, NEW t, NEW c \in Callbacks, NEW H, NEW s \in Rests, InCall(x, t, c, H, s)
    PROVE  todo[t] # Done
<1> DEFINE end == EndThen(c, s)
           rest == ResolveThen(x, c, end)
           body == BodyThen(x, c, s)
<1>1. end \in Rests /\ rest \in Rests /\ body \in Rests
    BY RestTypes
<1>2. end # Done /\ CallThen(x, c, s) # Done
    BY <1>1, ThenIs DEF EndThen, CallThen, Kinds, Done
<1> HIDE DEF end
<1>3. Then("unlock", "queue_mtx_", end) # Done /\ Then("unlock", "queue_mtx_", end) \in Rests
    BY <1>1, ThenIs DEF Kinds, Mutexes, Done
<1>4. rest # Done
    BY <1>2, <1>3, ThenIs DEF ResolveThen, Kinds, Mutexes, Done
<1>5. body = WriteThen(x, c, rest)
    BY DEF BodyThen, end
<1> HIDE DEF rest, body
<1>6. Then("unlock", "write_queue_mutex_", rest) # Done
      /\ Then("unlock", "write_queue_mutex_", rest) \in Rests
    BY <1>1, ThenIs DEF Kinds, Mutexes, Done
<1>7. body # Done
    BY <1>4, <1>5, <1>6, ThenIs DEF WriteThen, Kinds, Mutexes, Done
<1> QED BY <1>2, <1>3, <1>4, <1>6, <1>7 DEF InCall, At, end, rest, body

\* A thread with nothing to do holds nothing.
LEMMA IdleHoldsNothing ==
    ASSUME NEW x, NEW t, Placed(x, t), todo[t] = Done
    PROVE  At(t, Done, {})
<1>0. /\ Done \in Rests /\ QueueUnlock \in Rests /\ BothUnlock \in Rests /\ StatsUnlock \in Rests
      /\ ResolverUnlock \in Rests /\ FlushEnd(x) \in Rests /\ CompleteLocked(x) \in Rests
    BY NamedRests
<1>1. \A m \in Mutexes, s \in Rests : Then("lock", m, s) # Done /\ Then("unlock", m, s) # Done
    BY ThenIs DEF Kinds, Done
<1>2. \A c \in Callbacks, s \in Rests : CallThen(x, c, s) \in Rests
    BY RestTypes
<1>3. ~InApp(t)
    BY <1>0, <1>1 DEF InApp, At, Mutexes, QueueUnlock, ResolverUnlock
<1>4. ~InWriteComplete(x, t)
    <2>1. QueueUnlock # Done /\ BothUnlock # Done
        BY <1>0, <1>1 DEF QueueUnlock, BothUnlock, Mutexes
    <2>2. CompleteLocked(x) # Done /\ Then("lock", "write_queue_mutex_", CompleteLocked(x)) # Done
        BY <1>0, <1>1, <1>2 DEF CompleteLocked, Mutexes, Callbacks
    <2> QED BY <1>0, <2>1, <2>2, InCallBusy DEF InWriteComplete, At, Callbacks
<1>5. ~InReadOk(x, t)
    <2>1. StatsUnlock # Done /\ Then("lock", "stats mutex_", CallThen(x, "on_read", StatsUnlock)) # Done
        BY <1>0, <1>1, <1>2 DEF StatsUnlock, Mutexes, Callbacks
    <2> QED BY <1>0, <2>1, InCallBusy DEF InReadOk, At, Callbacks
<1>6. ~InReadEnd(x, t)
    <2>1. FlushEnd(x) # Done /\ Then("lock", "write_queue_mutex_", CallThen(x, "on_write_done", FlushEnd(x))) # Done
        BY <1>0, <1>1, <1>2 DEF FlushEnd, Mutexes, Callbacks
    <2> QED BY <1>0, <2>1, InCallBusy DEF InReadEnd, At, Callbacks
<1>7. ~InResolveHandler(x, t)
    <2>1. ResolverUnlock # Done /\ Then("lock", "queue_mtx_", CallThen(x, "resolved", ResolverUnlock)) # Done
        BY <1>0, <1>1, <1>2 DEF ResolverUnlock, Mutexes, Callbacks
    <2> QED BY <1>0, <2>1, InCallBusy DEF InResolveHandler, At, Callbacks
<1> QED BY <1>3, <1>4, <1>5, <1>6, <1>7 DEF Placed, InHandler

\* A thread that begins a call or handler, or returns from one.
LEMMA StartKeeps ==
    ASSUME LInv, NEW t \in Threads, NEW name \in Tasks, NEW s, Start(t, name, s),
           At(t, s, {})' => Placed(calls, t)', name # "none"
    PROVE  LInv'
<1>1. todo' = [todo EXCEPT ![t] = s] /\ owner' = owner /\ io' = io /\ calls' = calls
      /\ task' = [task EXCEPT ![t] = name] /\ task[t] = "none"
    BY DEF Start
<1>2. todo'[t] = s /\ \A u \in Threads : u # t => todo'[u] = todo[u]
    BY <1>1 DEF LInv
<1>3. Placed(calls, t)'
    <2>1. At(t, Done, {})
        BY <1>1, IdleHoldsNothing DEF LInv
    <2>2. At(t, s, {})'
        BY <1>1, <1>2, <2>1 DEF At
    <2> QED BY <2>2
<1>4. ASSUME NEW u \in Threads, u # t PROVE Placed(calls, u)'
    <2>1. \A r, H : At(u, r, H) => At(u, r, H)'
        BY <1>1, <1>2, <1>4 DEF At
    <2>2. PICK x : x = calls
        OBVIOUS
    <2>3. Placed(x, u)
        BY <2>2 DEF LInv
    <2>4. \A c, H, r : InCall(x, u, c, H, r) => InCall(x, u, c, H, r)'
        BY <2>1 DEF InCall
    <2>5. Placed(x, u)'
        BY <1>1, <2>1, <2>3, <2>4 DEF Placed, InApp, InHandler, InWriteComplete, InReadOk,
                                      InReadEnd, InResolveHandler
    <2>6. calls' = x
        BY <1>1, <2>2
    <2> QED BY <2>5, <2>6
<1>5. \A u \in Threads : task'[u] = "none" => todo'[u] = Done
    BY <1>1, <1>2 DEF LInv
<1>6. \A u \in Threads : Placed(calls, u)'
    BY <1>3, <1>4
<1>7. /\ io' \subseteq IoThreads /\ task' \in [Threads -> Tasks]
      /\ DOMAIN todo' = Threads /\ DOMAIN owner' = Mutexes
      /\ \A m \in Mutexes : owner'[m] \in Threads \cup {NoThread}
    BY <1>1 DEF LInv
<1> QED BY <1>5, <1>6, <1>7 DEF LInv

LEMMA AppStarts ==
    ASSUME LInv, NEW t \in Apps, AppCalls(t)
    PROVE  LInv'
<1>1. PICK w, r : w = Write /\ r = Resolve
    OBVIOUS
<1>2. (At(t, w, {})' => Placed(calls, t)') /\ (At(t, r, {})' => Placed(calls, t)')
    <2>1. /\ w = Then("lock", "write_queue_mutex_", QueueUnlock)
          /\ r = Then("lock", "queue_mtx_", ResolverUnlock)
        BY <1>1, WriteIs, ResolveIs
    <2> QED BY <2>1 DEF Placed, InApp
<1>3. Start(t, "write", w) \/ Start(t, "resolve", r)
    BY <1>1 DEF AppCalls
<1>4. t \in Threads /\ "write" \in Tasks /\ "resolve" \in Tasks
    BY DEF Threads, Tasks
<1>5. CASE Start(t, "write", w)
    BY <1>2, <1>4, <1>5, StartKeeps
<1>6. CASE Start(t, "resolve", r)
    BY <1>2, <1>4, <1>6, StartKeeps
<1> QED BY <1>3, <1>5, <1>6

LEMMA IoStarts ==
    ASSUME LInv, NEW t \in io, IoRuns(t)
    PROVE  LInv'
<1>0. t \in Threads /\ io' = io /\ calls' = calls
    BY DEF IoRuns, Handle, Start, LInv, Threads
<1>1. PICK x, wc, ro, re, rh :
          /\ x = calls /\ wc = WriteComplete /\ ro = ReadOk /\ re = ReadEnd /\ rh = ResolveHandler
    OBVIOUS
<1>2. /\ wc = Then("lock", "write_queue_mutex_", CompleteLocked(x))
      /\ ro = Then("lock", "stats mutex_", CallThen(x, "on_read", StatsUnlock))
      /\ re = Then("lock", "write_queue_mutex_", CallThen(x, "on_write_done", FlushEnd(x)))
      /\ rh = Then("lock", "queue_mtx_", CallThen(x, "resolved", ResolverUnlock))
    BY <1>1, HandlersAre
<1>3. ASSUME NEW name \in {"write_strand_", "read_strand_", "strand_"}, NEW s \in {wc, ro, re, rh},
             Start(t, name, s)
      PROVE  LInv'
    <2>1. At(t, s, {})' => InHandler(x, t)'
        BY <1>2 DEF InHandler, InWriteComplete, InReadOk, InReadEnd, InResolveHandler
    <2>2. calls' = x
        BY <1>0, <1>1
    <2>3. At(t, s, {})' => Placed(calls, t)'
        BY <1>0, <2>1, <2>2 DEF Placed
    <2>4. name \in Tasks /\ name # "none"
        BY DEF Tasks
    <2> QED BY <1>0, <1>3, <2>3, <2>4, StartKeeps
<1>4. \/ Start(t, "write_strand_", wc) \/ Start(t, "read_strand_", ro)
      \/ Start(t, "read_strand_", re) \/ Start(t, "strand_", rh)
    BY <1>1 DEF IoRuns, Handle
<1> QED BY <1>3, <1>4

LEMMA LInvStep == LInv /\ [Next]_vars => LInv'
<1> SUFFICES ASSUME LInv, [Next]_vars PROVE LInv'
    OBVIOUS
<1>1. ASSUME NEW t \in Threads, Moves(t) PROVE LInv'
    <2>1. io' = io /\ calls' = calls /\ task' = task
        BY <1>1 DEF Moves, Lock, Unlock, CallbackStep
    <2>2. PICK x : x = calls
        OBVIOUS
    <2>3. UnlocksOwn(t) /\ Placed(x, t)'
        BY <1>1, <2>2, PlacedStep DEF LInv
    <2>4. \A u \in Threads : Placed(x, u)'
        BY <1>1, <2>2, <2>3, OthersStay DEF LInv
    <2>5. calls' = x
        BY <2>1, <2>2
    <2>6. \A u \in Threads : Placed(calls, u)'
        BY <2>4, <2>5
    <2>7. DOMAIN todo' = Threads /\ DOMAIN owner' = Mutexes
          /\ \A m \in Mutexes : owner'[m] \in Threads \cup {NoThread}
        BY <1>1 DEF Moves, Lock, Unlock, CallbackStep, Made, LInv
    <2>8. \A u \in Threads : task'[u] = "none" => todo'[u] = Done
        <3> SUFFICES ASSUME NEW u \in Threads, task[u] = "none" PROVE todo'[u] = Done
            BY <2>1
        <3>1. todo[u] = Done /\ u # t
            BY <1>1 DEF LInv, Moves, Lock, Unlock, CallbackStep, Done
        <3> QED BY <1>1, <3>1 DEF Moves, Lock, Unlock, CallbackStep, Made, LInv
    <2> QED BY <2>1, <2>6, <2>7, <2>8 DEF LInv
<1>2. ASSUME UNCHANGED <<io, calls, todo, owner>>,
             task' \in [Threads -> Tasks],
             \A u \in Threads : task'[u] = "none" => task[u] = "none" \/ todo[u] = <<>>
      PROVE  LInv'
    <2>1. \A u \in Threads : Placed(calls, u)'
        <3> SUFFICES ASSUME NEW u \in Threads PROVE Placed(calls, u)'
            OBVIOUS
        <3>1. \A r, H : At(u, r, H) => At(u, r, H)'
            BY <1>2 DEF At
        <3>2. PICK x : x = calls
            OBVIOUS
        <3>3. \A c, H, r : InCall(x, u, c, H, r) => InCall(x, u, c, H, r)'
            BY <3>1 DEF InCall
        <3>4. Placed(x, u) /\ io' = io /\ calls' = x
            BY <1>2, <3>2 DEF LInv
        <3>5. Placed(x, u)'
            BY <3>1, <3>3, <3>4 DEF Placed, InApp, InHandler, InWriteComplete, InReadOk,
                                    InReadEnd, InResolveHandler
        <3> QED BY <3>4, <3>5
    <2> QED BY <1>2, <2>1 DEF LInv, Done
<1>3. ASSUME NEW t \in Threads, Return(t) PROVE LInv'
    <2>1. /\ task' \in [Threads -> Tasks] /\ UNCHANGED <<io, calls, todo, owner>>
          /\ \A u \in Threads : task'[u] = "none" => task[u] = "none" \/ todo[u] = <<>>
        BY <1>3 DEF Return, LInv, Tasks
    <2> QED BY <1>2, <2>1
<1>4. CASE UNCHANGED vars
    <2>1. /\ task' \in [Threads -> Tasks] /\ UNCHANGED <<io, calls, todo, owner>>
          /\ \A u \in Threads : task'[u] = "none" => task[u] = "none" \/ todo[u] = <<>>
        BY <1>4 DEF vars, LInv
    <2> QED BY <1>2, <2>1
<1> QED BY <1>1, <1>3, <1>4, AppStarts, IoStarts DEF Next, Moves

LEMMA LInvInit == Init => LInv
<1> SUFFICES ASSUME Init PROVE LInv
    OBVIOUS
<1>1. \A t \in Threads : At(t, Done, {})
    BY LocksAssumption DEF Init, At, Done, Threads
<1>2. \A t \in Threads : Placed(calls, t)
    BY <1>1 DEF Placed
<1>3. io \subseteq IoThreads /\ task \in [Threads -> Tasks]
    BY DEF Init, Tasks
<1>4. /\ DOMAIN todo = Threads /\ DOMAIN owner = Mutexes
      /\ \A m \in Mutexes : owner[m] = NoThread
      /\ \A t \in Threads : todo[t] = Done
    BY DEF Init, Done
<1> QED BY <1>2, <1>3, <1>4 DEF LInv

-----------------------------------------------------------------------------
(* on_write_done_ runs under the mutex of the queue.                       *)

EndOfDone == <<"end", "on_write_done">>

LEMMA NoEndOfDone ==
    ASSUME NEW x
    PROVE  /\ EndOfDone \notin ToSet(Done) /\ EndOfDone \notin ToSet(QueueUnlock)
           /\ EndOfDone \notin ToSet(StatsUnlock) /\ EndOfDone \notin ToSet(ResolverUnlock)
<1>1. ToSet(Done) = {} /\ Done \in Rests
    <2>1. ToSet(Done) = {}
        BY DEF Done, ToSet
    <2> QED BY <2>1, NamedRests
<1>2. ASSUME NEW m \in Mutexes PROVE ToSet(Then("unlock", m, Done)) = {<<"unlock", m>>}
    <2>1. "unlock" \in Kinds /\ m \in Mutexes \cup Callbacks
        BY DEF Kinds
    <2>2. ToSet(Then("unlock", m, Done)) = {<<"unlock", m>>} \cup ToSet(Done)
        BY <1>1, <2>1, ThenIs
    <2> QED BY <1>1, <2>2
<1>3. /\ ToSet(QueueUnlock) = {<<"unlock", "write_queue_mutex_">>}
      /\ ToSet(StatsUnlock) = {<<"unlock", "stats mutex_">>}
      /\ ToSet(ResolverUnlock) = {<<"unlock", "queue_mtx_">>}
    BY <1>2 DEF QueueUnlock, StatsUnlock, ResolverUnlock, Mutexes
<1> QED BY <1>1, <1>3 DEF EndOfDone

\* The other callbacks do not call on_write_done_.
LEMMA OtherCallbacks ==
    ASSUME NEW x, NEW t, NEW c \in {"on_read", "resolved"}, NEW H, NEW s \in Rests,
           EndOfDone \notin ToSet(s)
    PROVE  /\ EndOfDone \notin ToSet(CallThen(x, c, s))
           /\ InCall(x, t, c, H, s) => EndOfDone \notin ToSet(todo[t])
<1> DEFINE end == EndThen(c, s)
           rest == ResolveThen(x, c, end)
           body == BodyThen(x, c, s)
           Clear(r) == r \in Rests /\ EndOfDone \notin ToSet(r)
<1>1. ASSUME NEW r, Clear(r), NEW m \in Mutexes, NEW k \in {"lock", "unlock"}
      PROVE  Clear(Then(k, m, r))
    BY <1>1, ThenIs DEF EndOfDone, Kinds
<1>2. ASSUME NEW r, Clear(r), NEW k \in {"begin", "end"}
      PROVE  Clear(Then(k, c, r))
    <2>1. k \in Kinds /\ c \in Mutexes \cup Callbacks /\ r \in Rests
        BY <1>2 DEF Kinds, Callbacks
    <2>2. Then(k, c, r) \in Rests /\ ToSet(Then(k, c, r)) = {<<k, c>>} \cup ToSet(r)
        BY <2>1, ThenIs
    <2> QED BY <1>2, <2>2 DEF EndOfDone
<1>3. Clear(end)
    <2>1. Clear(s)
        OBVIOUS
    <2> HIDE DEF Clear
    <2> QED BY <1>2, <2>1 DEF EndThen
<1> HIDE DEF Clear, end
<1>4. Clear(Then("unlock", "queue_mtx_", end))
    BY <1>1, <1>3 DEF Mutexes
<1>5. Clear(rest)
    BY <1>1, <1>3, <1>4 DEF ResolveThen, Mutexes
<1> HIDE DEF rest
<1>6. Clear(Then("unlock", "write_queue_mutex_", rest))
    BY <1>1, <1>5 DEF Mutexes
<1>7. Clear(body)
    <2>1. body = WriteThen(x, c, rest)
        BY DEF BodyThen, rest, end
    <2> QED BY <1>1, <1>5, <1>6, <2>1 DEF WriteThen, Mutexes
<1>8. Clear(CallThen(x, c, s))
    BY <1>2, <1>7 DEF CallThen
<1> QED BY <1>3, <1>4, <1>5, <1>6, <1>7, <1>8 DEF InCall, At, Clear, end, rest

\* A thread inside on_write_done_ holds the mutex of the queue.
LEMMA InsideHolds ==
    ASSUME NEW x, NEW t, Placed(x, t), Inside(t, "on_write_done")
    PROVE  owner["write_queue_mutex_"] = t
<1> DEFINE wq == "write_queue_mutex_"
           begin == <<"begin", "on_write_done">>
<1>0. /\ Done \in Rests /\ QueueUnlock \in Rests /\ BothUnlock \in Rests /\ StatsUnlock \in Rests
      /\ ResolverUnlock \in Rests /\ FlushEnd(x) \in Rests /\ CompleteLocked(x) \in Rests
    BY NamedRests
<1>1. EndOfDone \in ToSet(todo[t]) /\ begin \notin ToSet(todo[t]) /\ wq \in Mutexes
    BY DEF Inside, EndOfDone, Mutexes
<1>2. ASSUME NEW s, NEW H, wq \in H, At(t, s, H) PROVE owner[wq] = t
    BY <1>1, <1>2 DEF At
<1>3. ASSUME NEW c, NEW H, wq \in H, NEW s, InCall(x, t, c, H, s) PROVE owner[wq] = t
    BY <1>1, <1>3 DEF At, InCall
<1>4. ASSUME NEW m \in Mutexes, NEW s \in Rests, NEW k \in {"lock", "unlock"},
             EndOfDone \notin ToSet(s)
      PROVE  EndOfDone \notin ToSet(Then(k, m, s))
    BY <1>4, ThenIs DEF EndOfDone, Kinds
<1>5. ASSUME NEW s \in Rests, NEW m \in Mutexes
      PROVE  /\ begin \in ToSet(CallThen(x, "on_write_done", s))
             /\ begin \in ToSet(Then("lock", m, CallThen(x, "on_write_done", s)))
    <2>1. BodyThen(x, "on_write_done", s) \in Rests /\ CallThen(x, "on_write_done", s) \in Rests
        BY RestTypes DEF Callbacks
    <2>2. ToSet(CallThen(x, "on_write_done", s)) = {begin} \cup ToSet(BodyThen(x, "on_write_done", s))
        BY <2>1, ThenIs DEF CallThen, Kinds, Callbacks
    <2>3. ToSet(Then("lock", m, CallThen(x, "on_write_done", s)))
              = {<<"lock", m>>} \cup ToSet(CallThen(x, "on_write_done", s))
        BY <2>1, ThenIs DEF Kinds
    <2> QED BY <2>2, <2>3
<1>6. CASE At(t, Done, {})
    BY <1>1, <1>6, NoEndOfDone DEF At
<1>7. CASE InApp(t)
    <2>1. /\ EndOfDone \notin ToSet(Then("lock", wq, QueueUnlock))
          /\ EndOfDone \notin ToSet(Then("lock", "queue_mtx_", ResolverUnlock))
        BY <1>0, <1>4, NoEndOfDone DEF Mutexes
    <2> QED BY <1>1, <1>7, <2>1, NoEndOfDone DEF InApp, At
<1>8. CASE InWriteComplete(x, t)
    <2>1. begin \in ToSet(CompleteLocked(x))
        BY <1>0, <1>5 DEF CompleteLocked, Mutexes
    <2>2. begin \in ToSet(Then("lock", wq, CompleteLocked(x)))
        <3>1. "lock" \in Kinds /\ wq \in Mutexes \cup Callbacks
            BY DEF Kinds, Mutexes
        <3>2. ToSet(Then("lock", wq, CompleteLocked(x))) = {<<"lock", wq>>} \cup ToSet(CompleteLocked(x))
            BY <1>0, <3>1, ThenIs
        <3> QED BY <2>1, <3>2
    <2> QED BY <1>1, <1>2, <1>3, <1>8, <2>1, <2>2, NoEndOfDone DEF InWriteComplete, At
<1>9. CASE InReadOk(x, t)
    <2>1. EndOfDone \notin ToSet(CallThen(x, "on_read", StatsUnlock))
        BY <1>0, NoEndOfDone, OtherCallbacks
    <2>2. EndOfDone \notin ToSet(Then("lock", "stats mutex_", CallThen(x, "on_read", StatsUnlock)))
        BY <1>0, <1>4, <2>1, RestTypes DEF Mutexes, Callbacks
    <2> QED BY <1>0, <1>1, <1>9, <2>2, NoEndOfDone, OtherCallbacks DEF InReadOk, At
<1>10. CASE InReadEnd(x, t)
    <2>1. begin \in ToSet(Then("lock", wq, CallThen(x, "on_write_done", FlushEnd(x))))
        BY <1>0, <1>5 DEF Mutexes
    <2>2. ~InCall(x, t, "on_read", {}, Done)
        BY <1>0, <1>1, NoEndOfDone, OtherCallbacks
    <2> QED BY <1>1, <1>2, <1>3, <1>10, <2>1, <2>2 DEF InReadEnd, At
<1>11. CASE InResolveHandler(x, t)
    <2>1. EndOfDone \notin ToSet(CallThen(x, "resolved", ResolverUnlock))
        BY <1>0, NoEndOfDone, OtherCallbacks
    <2>2. EndOfDone \notin ToSet(Then("lock", "queue_mtx_", CallThen(x, "resolved", ResolverUnlock)))
        BY <1>0, <1>4, <2>1, RestTypes DEF Mutexes, Callbacks
    <2> QED BY <1>0, <1>1, <1>11, <2>2, NoEndOfDone, OtherCallbacks DEF InResolveHandler, At
<1> QED BY <1>6, <1>7, <1>8, <1>9, <1>10, <1>11 DEF Placed, InHandler

\* However many threads run the io_context and whatever the callbacks call,
\* on_write_done_ is never run by two threads at once.
THEOREM DoneRunsAlone == Spec => []DoneCallbackAlone
<1>1. LInv => DoneCallbackAlone
    BY InsideHolds DEF LInv, DoneCallbackAlone
<1> QED BY <1>1, LInvInit, LInvStep, PTL DEF Spec

-----------------------------------------------------------------------------
(* Who may wait for whom.                                                  *)

\* The order of the mutexes under OneOrder: the resolver's comes first if its
\* handlers write, and last if they do not.
Rank(m) ==
    IF "write" \in calls["resolved"]
    THEN IF m = "queue_mtx_" THEN 1 ELSE IF m = "write_queue_mutex_" THEN 2 ELSE 3
    ELSE IF m = "queue_mtx_" THEN 3 ELSE IF m = "write_queue_mutex_" THEN 1 ELSE 2

MayLock(H, m) == m \notin H /\ (OneOrder => \A n \in H : Rank(n) < Rank(m))

Waits(t) == todo[t] # <<>> /\ Head(todo[t])[1] = "lock"

\* A thread waits for a mutex that it does not hold and that is behind those it
\* holds, and holds none if it is not one of those that run handlers.
WaitsInOrder(t) == Waits(t) =>
    \E m \in Mutexes :
        /\ Head(todo[t])[2] = m /\ owner[m] # t
        /\ OneOrder => \A n \in Mutexes : owner[n] = t => Rank(n) < Rank(m)
        /\ t \notin io => \A n \in Mutexes : owner[n] # t

LEMMA AtALock ==
    ASSUME NEW t, NEW m \in Mutexes, NEW s \in Rests, NEW H, MayLock(H, m),
           t \in io \/ H = {}, At(t, Then("lock", m, s), H)
    PROVE  WaitsInOrder(t)
<1>1. "lock" \in Kinds /\ m \in Mutexes \cup Callbacks
    BY DEF Kinds
<1>2. Head(todo[t]) = <<"lock", m>>
    BY <1>1, ThenIs DEF At
<1>3. Head(todo[t])[2] = m
    BY <1>2
<1>4. \A n \in Mutexes : owner[n] = t <=> n \in H
    BY DEF At
<1> QED BY <1>3, <1>4 DEF WaitsInOrder, MayLock

LEMMA AtNoLock ==
    ASSUME NEW t, NEW k \in Kinds \ {"lock"}, NEW e \in Mutexes \cup Callbacks,
           NEW s \in Rests, NEW H, At(t, Then(k, e, s), H)
    PROVE  WaitsInOrder(t)
<1>1. Head(todo[t]) = <<k, e>>
    BY ThenIs DEF At
<1> QED BY <1>1 DEF WaitsInOrder, Waits

\* Within a callback, a thread waits only for what the callback may lock.
LEMMA InCallWaits ==
    ASSUME NEW x, NEW t \in io, NEW c \in Callbacks, NEW H, NEW s \in Rests,
           "write" \in x[c] => MayLock(H, "write_queue_mutex_"),
           "resolve" \in x[c] => MayLock(H, "queue_mtx_"),
           InCall(x, t, c, H, s)
    PROVE  WaitsInOrder(t)
<1> DEFINE q == "write_queue_mutex_"
           r == "queue_mtx_"
           end == EndThen(c, s)
           rest == ResolveThen(x, c, end)
           body == BodyThen(x, c, s)
<1>0. /\ q \in Mutexes /\ r \in Mutexes /\ end \in Rests /\ rest \in Rests /\ body \in Rests
      /\ Then("unlock", q, rest) \in Rests /\ Then("unlock", r, end) \in Rests
    <2>1. q \in Mutexes /\ r \in Mutexes /\ end \in Rests /\ rest \in Rests /\ body \in Rests
        BY RestTypes DEF Mutexes
    <2> HIDE DEF q, r, end, rest, body
    <2> QED BY <2>1, ThenIs DEF Kinds
<1>k. /\ "unlock" \in Kinds \ {"lock"} /\ "begin" \in Kinds \ {"lock"}
      /\ "end" \in Kinds \ {"lock"} /\ c \in Mutexes \cup Callbacks
      /\ q \in Mutexes \cup Callbacks /\ r \in Mutexes \cup Callbacks
    BY <1>0 DEF Kinds
<1>d. /\ CallThen(x, c, s) = Then("begin", c, body) /\ end = Then("end", c, s)
      /\ rest = IF "resolve" \in x[c] THEN Then("lock", r, Then("unlock", r, end)) ELSE end
      /\ body = IF "write" \in x[c] THEN Then("lock", q, Then("unlock", q, rest)) ELSE rest
    BY DEF CallThen, EndThen, ResolveThen, BodyThen, WriteThen
<1>i. \/ At(t, CallThen(x, c, s), H) \/ At(t, body, H)
      \/ At(t, Then("unlock", q, rest), H \cup {q}) \/ At(t, rest, H)
      \/ At(t, Then("unlock", r, end), H \cup {r}) \/ At(t, end, H)
    BY DEF InCall
<1> HIDE DEF q, r, end, rest, body
<1>1. CASE At(t, CallThen(x, c, s), H)
    BY <1>0, <1>k, <1>d, <1>1, AtNoLock
<1>2. CASE At(t, Then("unlock", q, rest), H \cup {q})
    BY <1>0, <1>k, <1>2, AtNoLock
<1>3. CASE At(t, Then("unlock", r, end), H \cup {r})
    BY <1>0, <1>k, <1>3, AtNoLock
<1>4. ASSUME At(t, end, H) PROVE WaitsInOrder(t)
    <2>1. At(t, Then("end", c, s), H)
        BY <1>d, <1>4
    <2> QED BY <1>k, <2>1, AtNoLock
<1>5. ASSUME At(t, rest, H) PROVE WaitsInOrder(t)
    <2>1. CASE "resolve" \in x[c]
        <3>1. At(t, Then("lock", r, Then("unlock", r, end)), H) /\ MayLock(H, r)
            BY <1>d, <1>5, <2>1 DEF r
        <3> QED BY <1>0, <3>1, AtALock
    <2>2. CASE "resolve" \notin x[c]
        BY <1>d, <1>4, <1>5, <2>2
    <2> QED BY <2>1, <2>2
<1>6. ASSUME At(t, body, H) PROVE WaitsInOrder(t)
    <2>1. CASE "write" \in x[c]
        <3>1. At(t, Then("lock", q, Then("unlock", q, rest)), H) /\ MayLock(H, q)
            BY <1>d, <1>6, <2>1 DEF q
        <3> QED BY <1>0, <3>1, AtALock
    <2>2. CASE "write" \notin x[c]
        BY <1>d, <1>5, <1>6, <2>2
    <2> QED BY <2>1, <2>2
<1> QED BY <1>i, <1>1, <1>2, <1>3, <1>4, <1>5, <1>6

LEMMA PlacedWaits ==
    ASSUME NoReentry, NEW t, Placed(calls, t)
    PROVE  WaitsInOrder(t)
<1> DEFINE wq == "write_queue_mutex_"
           st == "stats mutex_"
           rq == "queue_mtx_"
<1>0. PICK x : x = calls
    OBVIOUS
<1>r. /\ Done \in Rests /\ QueueUnlock \in Rests /\ BothUnlock \in Rests /\ StatsUnlock \in Rests
      /\ ResolverUnlock \in Rests /\ FlushEnd(x) \in Rests /\ CompleteLocked(x) \in Rests
    BY NamedRests
<1>c. \A c \in Callbacks, s \in Rests : CallThen(x, c, s) \in Rests
    BY RestTypes
<1>l. ASSUME NEW m \in Mutexes, NEW s \in Rests, At(t, Then("lock", m, s), {})
      PROVE  WaitsInOrder(t)
    <2>1. MayLock({}, m)
        BY DEF MayLock
    <2> QED BY <1>l, <2>1, AtALock
<1>u. ASSUME NEW m \in Mutexes, NEW s \in Rests, NEW H, At(t, Then("unlock", m, s), H)
      PROVE  WaitsInOrder(t)
    <2>1. "unlock" \in Kinds \ {"lock"} /\ m \in Mutexes \cup Callbacks
        BY DEF Kinds
    <2> QED BY <1>u, <2>1, AtNoLock
<1>1. CASE At(t, Done, {})
    BY <1>1 DEF At, Done, WaitsInOrder, Waits
<1>2. CASE InApp(t)
    BY <1>2, <1>r, <1>l, <1>u DEF InApp, QueueUnlock, ResolverUnlock, Mutexes
<1>3. CASE t \in io /\ InWriteComplete(x, t)
    <2>1. ASSUME At(t, CompleteLocked(x), {wq}) PROVE WaitsInOrder(t)
        <3>1. MayLock({wq}, st)
            BY DEF MayLock, Rank
        <3>2. CallThen(x, "on_write_done", BothUnlock) \in Rests /\ st \in Mutexes
            BY <1>r, <1>c DEF Callbacks, Mutexes
        <3> QED BY <1>3, <2>1, <3>1, <3>2, AtALock DEF CompleteLocked
    <2>2. ASSUME InCall(x, t, "on_write_done", {wq, st}, BothUnlock) PROVE WaitsInOrder(t)
        <3>1. "write" \notin x["on_write_done"]
            BY <1>0 DEF NoReentry
        <3>2. "resolve" \in x["on_write_done"] => MayLock({wq, st}, rq)
            BY <1>0 DEF MayLock, Rank, OneOrder
        <3> QED BY <1>r, <1>3, <2>2, <3>1, <3>2, InCallWaits DEF Callbacks
    <2>3. ASSUME At(t, BothUnlock, {wq, st}) \/ At(t, QueueUnlock, {wq}) PROVE WaitsInOrder(t)
        BY <1>r, <1>u, <2>3 DEF BothUnlock, QueueUnlock, Mutexes
    <2>4. ASSUME At(t, Then("lock", wq, CompleteLocked(x)), {}) PROVE WaitsInOrder(t)
        BY <1>r, <1>l, <2>4 DEF Mutexes
    <2> QED BY <1>3, <2>1, <2>2, <2>3, <2>4 DEF InWriteComplete
<1>4. CASE t \in io /\ InReadOk(x, t)
    <2>1. ASSUME InCall(x, t, "on_read", {st}, StatsUnlock) PROVE WaitsInOrder(t)
        <3>1. "write" \in x["on_read"] => MayLock({st}, wq)
            BY <1>0 DEF MayLock, OneOrder
        <3>2. "resolve" \in x["on_read"] => MayLock({st}, rq)
            BY <1>0 DEF MayLock, Rank, OneOrder
        <3> QED BY <1>r, <1>4, <2>1, <3>1, <3>2, InCallWaits DEF Callbacks
    <2>2. ASSUME At(t, StatsUnlock, {st}) PROVE WaitsInOrder(t)
        BY <1>r, <1>u, <2>2 DEF StatsUnlock, Mutexes
    <2>3. ASSUME At(t, Then("lock", st, CallThen(x, "on_read", StatsUnlock)), {})
          PROVE  WaitsInOrder(t)
        BY <1>r, <1>c, <1>l, <2>3 DEF Mutexes, Callbacks
    <2> QED BY <1>4, <2>1, <2>2, <2>3 DEF InReadOk
<1>5. CASE t \in io /\ InReadEnd(x, t)
    <2>1. ASSUME InCall(x, t, "on_write_done", {wq}, FlushEnd(x)) PROVE WaitsInOrder(t)
        <3>1. "write" \notin x["on_write_done"]
            BY <1>0 DEF NoReentry
        <3>2. "resolve" \in x["on_write_done"] => MayLock({wq}, rq)
            BY <1>0 DEF MayLock, Rank, OneOrder
        <3> QED BY <1>r, <1>5, <2>1, <3>1, <3>2, InCallWaits DEF Callbacks
    <2>2. ASSUME InCall(x, t, "on_read", {}, Done) PROVE WaitsInOrder(t)
        <3>1. MayLock({}, wq) /\ MayLock({}, rq)
            BY DEF MayLock
        <3> QED BY <1>r, <1>5, <2>2, <3>1, InCallWaits DEF Callbacks
    <2>3. ASSUME At(t, FlushEnd(x), {wq}) PROVE WaitsInOrder(t)
        BY <1>r, <1>c, <1>u, <2>3 DEF FlushEnd, Mutexes, Callbacks
    <2>4. ASSUME At(t, Then("lock", wq, CallThen(x, "on_write_done", FlushEnd(x))), {})
          PROVE  WaitsInOrder(t)
        BY <1>r, <1>c, <1>l, <2>4 DEF Mutexes, Callbacks
    <2> QED BY <1>5, <2>1, <2>2, <2>3, <2>4 DEF InReadEnd
<1>6. CASE t \in io /\ InResolveHandler(x, t)
    <2>1. ASSUME InCall(x, t, "resolved", {rq}, ResolverUnlock) PROVE WaitsInOrder(t)
        <3>1. "resolve" \notin x["resolved"]
            BY <1>0 DEF NoReentry
        <3>2. "write" \in x["resolved"] => MayLock({rq}, wq)
            BY <1>0 DEF MayLock, Rank
        <3> QED BY <1>r, <1>6, <2>1, <3>1, <3>2, InCallWaits DEF Callbacks
    <2>2. ASSUME At(t, ResolverUnlock, {rq}) PROVE WaitsInOrder(t)
        BY <1>r, <1>u, <2>2 DEF ResolverUnlock, Mutexes
    <2>3. ASSUME At(t, Then("lock", rq, CallThen(x, "resolved", ResolverUnlock)), {})
          PROVE  WaitsInOrder(t)
        BY <1>r, <1>c, <1>l, <2>3 DEF Mutexes, Callbacks
    <2> QED BY <1>6, <2>1, <2>2, <2>3 DEF InResolveHandler
<1>7. Placed(x, t)
    BY <1>0
<1> QED BY <1>1, <1>2, <1>3, <1>4, <1>5, <1>6, <1>7 DEF Placed, InHandler

-----------------------------------------------------------------------------
(* No cycle of waiting threads.                                            *)

LEMMA RankTypes == \A m \in Mutexes : Rank(m) \in 1..3
<1>1. ASSUME NEW m \in Mutexes PROVE Rank(m) = 1 \/ Rank(m) = 2 \/ Rank(m) = 3
    BY DEF Rank
<1> QED BY <1>1

\* In a set of threads that wait for each other, each waits for a mutex that
\* another thread of the set holds.
LEMMA StuckWaits ==
    ASSUME LInv, NoReentry, NEW S \in SUBSET Threads, \A t \in S : WaitsFor(t) \in S,
           NEW t \in S
    PROVE  \E m \in Mutexes :
               /\ owner[m] \in S /\ owner[m] # t
               /\ OneOrder => \A n \in Mutexes : owner[n] = t => Rank(n) < Rank(m)
               /\ t \notin io => \A n \in Mutexes : owner[n] # t
<1>1. WaitsFor(t) \in S /\ NoThread \notin S
    BY LocksAssumption DEF Threads
<1>2. Waits(t) /\ WaitsFor(t) = owner[Head(todo[t])[2]]
    BY <1>1 DEF Waits, WaitsFor
<1>3. WaitsInOrder(t)
    BY PlacedWaits DEF LInv
<1> QED BY <1>1, <1>2, <1>3 DEF WaitsInOrder

LEMMA LInvNeverStuck == LInv => NeverStuck
<1> SUFFICES ASSUME LInv, NoReentry, Cardinality(io) = 1 \/ OneOrder,
                    NEW S \in (SUBSET Threads) \ {{}}, \A t \in S : WaitsFor(t) \in S
             PROVE  FALSE
    BY DEF NeverStuck, Stuck
<1>1. S \in SUBSET Threads /\ S # {}
    OBVIOUS
<1>2. ASSUME NEW t \in S
      PROVE  \E m \in Mutexes :
                 /\ owner[m] \in S /\ owner[m] # t
                 /\ OneOrder => \A n \in Mutexes : owner[n] = t => Rank(n) < Rank(m)
                 /\ t \notin io => \A n \in Mutexes : owner[n] # t
    BY <1>1, StuckWaits
<1>3. PICK m1 \in Mutexes : owner[m1] \in S
    BY <1>1, <1>2
<1>4. PICK m2 \in Mutexes :
          /\ owner[m2] \in S /\ owner[m2] # owner[m1] /\ owner[m1] \in io
          /\ OneOrder => Rank(m1) < Rank(m2)
    BY <1>2, <1>3
<1>5. PICK m3 \in Mutexes :
          /\ owner[m3] \in S /\ owner[m2] \in io /\ (OneOrder => Rank(m2) < Rank(m3))
    BY <1>2, <1>4
<1>6. PICK m4 \in Mutexes : OneOrder => Rank(m3) < Rank(m4)
    BY <1>2, <1>5
<1>7. CASE OneOrder
    BY <1>4, <1>5, <1>6, <1>7, RankTypes
<1>8. CASE Cardinality(io) = 1
    <2>1. IsFiniteSet(io)
        BY LocksAssumption, FS_Subset DEF LInv
    <2>2. PICK r : io = {r}
        BY <1>8, <2>1, FS_Singleton
    <2> QED BY <1>4, <1>5, <2>2
<1> QED BY <1>7, <1>8

\* However many threads call the session and the resolver, none ever wait for
\* each other if no callback calls what needs the mutex it runs under, and one
\* thread runs the io_context or the callbacks keep the mutexes in one order.
THEOREM ThreadsNeverStick == Spec => []NeverStuck
BY LInvInit, LInvStep, LInvNeverStuck, PTL DEF Spec
=============================================================================
