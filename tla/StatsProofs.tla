----------------------------- MODULE StatsProofs -----------------------------
(***************************************************************************)
(* Theorems about the statistics of a session: the chain of checks, and    *)
(* the account of the messages they report.                                *)
(***************************************************************************)
EXTENDS SessionStats, TLAPS

\* One thread at most is between its test and the start of the timer.  Until it has
\* set the flag it is unset, and from then on nobody clears it, as no check is left.
OneEnables ==
    /\ \A t, u \in Threads :
           call[t] \in {"enabling", "arming"} /\ call[u] \in {"enabling", "arming"} => t = u
    /\ \A t \in Threads : call[t] = "enabling" => ~is_enabled
    /\ \A t \in Threads : call[t] = "arming" => is_enabled

\* the inductive invariant
SInv == TypeOK /\ (~crossed => OneEnables) /\ OneChain

\* While the flag is not set, or the timer not started, nothing of the timer is
\* left, and else exactly one of the three counts is one.
LEMMA ChainCases ==
    ASSUME SInv, ~crossed
    PROVE  \/ ~is_enabled /\ Arming = {} /\ waits = 0 /\ due = 0 /\ cut = 0
           \/ is_enabled /\ Arming # {} /\ waits = 0 /\ due = 0 /\ cut = 0
           \/ is_enabled /\ Arming = {} /\ waits = 1 /\ due = 0 /\ cut = 0
           \/ is_enabled /\ Arming = {} /\ waits = 0 /\ due = 1 /\ cut = 0
           \/ is_enabled /\ Arming = {} /\ waits = 0 /\ due = 0 /\ cut = 1
<1>0. waits \in Nat /\ due \in Nat /\ cut \in Nat
    BY DEF SInv, TypeOK
<1>1. CASE is_enabled /\ Arming = {}
    BY <1>0, <1>1 DEF SInv, OneChain
<1>2. CASE ~(is_enabled /\ Arming = {})
    <2>1. waits = 0 /\ due = 0 /\ cut = 0
        BY <1>0, <1>2 DEF SInv, OneChain
    <2>2. Arming # {} => is_enabled
        BY DEF SInv, OneEnables, Arming
    <2> QED BY <1>2, <2>1, <2>2
<1> QED BY <1>1, <1>2

\* Where a thread goes is where it is then, and no other thread moves.
LEMMA Moves ==
    ASSUME TypeOK, NEW t \in Threads, Goes(t, "none") \/ Goes(t, "enabling") \/ Goes(t, "arming")
                                      \/ Goes(t, "stopping") \/ Goes(t, "cancelling")
    PROVE  /\ call' \in [Threads -> {"none", "enabling", "arming", "stopping", "cancelling"}]
           /\ \A u \in Threads \ {t} : call'[u] = call[u]
           /\ \A where : Goes(t, where) => call'[t] = where
BY DEF Goes, TypeOK

\* A thread that neither was nor becomes one that enables.
LEMMA Aside ==
    ASSUME SInv, NEW t \in Threads, call[t] \notin {"enabling", "arming"},
           Goes(t, "none") \/ Goes(t, "stopping") \/ Goes(t, "cancelling"),
           UNCHANGED <<is_enabled, crossed>>
    PROVE  Arming' = Arming /\ (~crossed => OneEnables)'
<1>1. /\ \A u \in Threads \ {t} : call'[u] = call[u]
      /\ call'[t] \in {"none", "stopping", "cancelling"}
    BY Moves DEF SInv
<1>2. Arming' = Arming
    BY <1>1 DEF Arming
<1>3. \A u \in Threads : call'[u] \in {"enabling", "arming"} => call'[u] = call[u]
    BY <1>1
<1>4. ASSUME ~crossed PROVE OneEnables'
    BY <1>3, <1>4 DEF SInv, OneEnables
<1> QED BY <1>2, <1>4

\* set_enabled() begins; an enable that finds another before its assignment crosses it.
LEMMA EnterChain ==
    ASSUME SInv, NEW t \in Threads, NEW enabled \in BOOLEAN, Enter(t, enabled)
    PROVE  OneChain' /\ (~crossed => OneEnables)'
<1>0. call[t] = "none" /\ UNCHANGED <<is_enabled, waits, due, cut>>
    BY DEF Enter, chain
<1>1. CASE enabled /\ ~is_enabled
    <2>1. Goes(t, "enabling") /\ crossed' = (crossed \/ Enabling # {})
        BY <1>1 DEF Enter, NotRunning
    <2>2. call'[t] = "enabling" /\ \A u \in Threads \ {t} : call'[u] = call[u]
        BY <2>1, Moves DEF SInv
    <2>3. Arming' = Arming
        BY <1>0, <2>2 DEF Arming
    <2>4. ASSUME ~crossed' PROVE OneEnables'
        <3>1. ~crossed /\ Enabling = {} /\ OneEnables
            BY <2>1, <2>4 DEF SInv
        <3>2. \A u \in Threads : call[u] \notin {"enabling", "arming"}
            BY <1>1, <3>1 DEF OneEnables, Enabling
        <3>3. \A u \in Threads : call'[u] \in {"enabling", "arming"} => u = t
            BY <2>2, <3>2
        <3> QED BY <1>0, <1>1, <2>2, <3>3 DEF OneEnables
    <2>5. OneChain'
        BY <1>0, <2>1, <2>3 DEF SInv, OneChain
    <2> QED BY <2>4, <2>5
<1>2. CASE ~(enabled /\ ~is_enabled)
    <2>1. Goes(t, "stopping") /\ crossed' = crossed
        BY <1>2 DEF Enter, NotRunning
    <2>2. Arming' = Arming /\ (~crossed => OneEnables)'
        BY <1>0, <2>1, Aside
    <2> QED BY <1>0, <2>1, <2>2 DEF SInv, OneChain
<1> QED BY <1>1, <1>2

\* The steps of set_enabled() keep the chain, whoever makes them.
LEMMA SetEnabledChain ==
    ASSUME SInv, NEW t \in Threads, SetEnabled(t)
    PROVE  OneChain' /\ (~crossed => OneEnables)'
<1>1. CASE Reset(t)
    <2>1. /\ call[t] = "enabling" /\ Goes(t, "arming") /\ is_enabled'
          /\ UNCHANGED <<waits, due, cut, crossed>>
        BY <1>1 DEF Reset
    <2>2. call'[t] = "arming" /\ \A u \in Threads \ {t} : call'[u] = call[u]
        BY <2>1, Moves DEF SInv
    <2>3. t \in Arming'
        BY <2>2 DEF Arming
    <2>4. ASSUME ~crossed PROVE OneEnables' /\ waits = 0 /\ due = 0 /\ cut = 0
        <3>1. ~is_enabled /\ OneEnables
            BY <2>1, <2>4 DEF SInv, OneEnables
        <3>2. waits = 0 /\ due = 0 /\ cut = 0
            BY <2>4, <3>1, ChainCases
        <3>3. \A u \in Threads : call'[u] \in {"enabling", "arming"} => u = t
            BY <2>1, <2>2, <3>1 DEF OneEnables
        <3> QED BY <2>1, <2>2, <3>2, <3>3 DEF OneEnables
    <2> QED BY <2>1, <2>3, <2>4 DEF OneChain
<1>2. CASE StartTimer(t)
    <2>1. /\ call[t] = "arming" /\ Goes(t, "none") /\ waits' = 1 /\ cut' = cut + waits
          /\ UNCHANGED <<is_enabled, due, crossed>>
        BY <1>2 DEF StartTimer, Rearm
    <2>2. call'[t] = "none" /\ \A u \in Threads \ {t} : call'[u] = call[u]
        BY <2>1, Moves DEF SInv
    <2>3. ASSUME ~crossed PROVE OneEnables' /\ OneChain'
        <3>1. OneEnables /\ t \in Arming
            BY <2>1, <2>3 DEF SInv, Arming
        <3>2. is_enabled /\ waits = 0 /\ due = 0 /\ cut = 0
            BY <2>3, <3>1, ChainCases
        <3>3. \A u \in Threads : call'[u] \notin {"enabling", "arming"}
            BY <2>1, <2>2, <3>1 DEF OneEnables
        <3>4. Arming' = {} /\ OneEnables'
            BY <3>3 DEF Arming, OneEnables
        <3>5. waits' + due' + cut' = 1
            BY <2>1, <3>2
        <3> QED BY <2>1, <3>2, <3>4, <3>5 DEF OneChain
    <2> QED BY <2>1, <2>3 DEF OneChain
<1>3. CASE LooksAgain(t)
    <2>1. /\ call[t] = "stopping" /\ (Goes(t, "none") \/ Goes(t, "cancelling"))
          /\ UNCHANGED <<is_enabled, waits, due, cut, crossed>>
        BY <1>3 DEF LooksAgain, chain
    <2>2. Arming' = Arming /\ (~crossed => OneEnables)'
        BY <2>1, <1>3, Aside DEF LooksAgain
    <2> QED BY <2>1, <2>2 DEF SInv, OneChain
<1>4. CASE StopTimer(t)
    <2>1. /\ call[t] = "cancelling" /\ Goes(t, "none") /\ waits' = 0 /\ cut' = cut + waits
          /\ UNCHANGED <<is_enabled, due, crossed>>
        BY <1>4 DEF StopTimer, Cancel
    <2>2. Arming' = Arming /\ (~crossed => OneEnables)'
        BY <2>1, Aside
    <2>3. waits' + due' + cut' = waits + due + cut
        BY <2>1 DEF SInv, TypeOK
    <2> QED BY <2>1, <2>2, <2>3 DEF SInv, OneChain
<1> QED BY <1>1, <1>2, <1>3, <1>4 DEF SetEnabled

\* What a call of set_enabled() leaves of the types.
LEMMA SetEnabledTypes ==
    ASSUME TypeOK, NEW t \in Threads,
           SetEnabled(t) \/ \E enabled \in BOOLEAN : Enter(t, enabled)
    PROVE  /\ is_enabled' \in BOOLEAN /\ late' \in BOOLEAN /\ crossed' \in BOOLEAN
           /\ counting' \in BOOLEAN /\ loaded' \in Nat /\ raced' \in BOOLEAN
           /\ waits' \in Nat /\ due' \in Nat /\ cut' \in Nat
           /\ total' \in Nat /\ last' \in Nat /\ counted' \in Nat /\ reported' \in Nat
           /\ call' \in [Threads -> {"none", "enabling", "arming", "stopping", "cancelling"}]
<1> USE DEF TypeOK, chain, counters, handler
<1>1. CASE Reset(t)
    BY <1>1, Moves DEF Reset
<1>2. CASE StartTimer(t)
    BY <1>2, Moves DEF StartTimer, Rearm
<1>3. CASE LooksAgain(t)
    BY <1>3, Moves DEF LooksAgain
<1>4. CASE StopTimer(t)
    BY <1>4, Moves DEF StopTimer, Cancel
<1>5. ASSUME NEW enabled \in BOOLEAN, Enter(t, enabled)
      PROVE  /\ UNCHANGED <<chain, counters, handler, late>> /\ crossed' \in BOOLEAN
             /\ Goes(t, "enabling") \/ Goes(t, "stopping")
    BY <1>5 DEF Enter
<1> QED BY <1>1, <1>2, <1>3, <1>4, <1>5, Moves DEF SetEnabled

LEMMA SInvInit == Init => SInv
<1> SUFFICES ASSUME Init PROVE SInv
    OBVIOUS
<1>1. \A t \in Threads : call[t] = "none"
    BY DEF Init
<1>2. OneEnables
    BY <1>1 DEF OneEnables
<1>3. OneChain
    BY DEF Init, OneChain
<1>4. /\ is_enabled \in BOOLEAN /\ late \in BOOLEAN /\ crossed \in BOOLEAN
      /\ counting \in BOOLEAN /\ raced \in BOOLEAN
    BY DEF Init
<1>5. /\ waits = 0 /\ due = 0 /\ cut = 0 /\ total = 0 /\ last = 0
      /\ counted = 0 /\ reported = 0 /\ session = "up" /\ host = "alive"
      /\ calls = 0 /\ loaded = 0 /\ call = [t \in Threads |-> "none"]
    BY DEF Init
<1>6. TypeOK
    BY <1>4, <1>5, StatsAssumption DEF TypeOK
<1> QED BY <1>2, <1>3, <1>6 DEF SInv

\* A step that leaves set_enabled() and its callers where they are.
LEMMA ChainKept ==
    ASSUME SInv, UNCHANGED <<call, crossed, is_enabled>>,
           waits' + due' + cut' = waits + due + cut
    PROVE  OneChain' /\ (~crossed => OneEnables)'
BY DEF SInv, OneChain, OneEnables, Arming

LEMMA SInvStep == SInv /\ [Next]_vars => SInv'
<1> SUFFICES ASSUME SInv, [Next]_vars PROVE SInv'
    OBVIOUS
<1> USE StatsAssumption
<1>0. TypeOK BY DEF SInv
<1>1. ASSUME NEW t \in Apps, NEW enabled \in BOOLEAN, AppSets(t, enabled) PROVE SInv'
    <2>1. t \in Threads /\ Enter(t, enabled)
        BY <1>1 DEF AppSets, Threads
    <2>2. calls' \in 0..MaxCalls /\ UNCHANGED <<session, host>>
        BY <1>0, <1>1 DEF AppSets, TypeOK
    <2>3. TypeOK'
        BY <1>0, <2>1, <2>2, SetEnabledTypes DEF TypeOK
    <2> QED BY <2>1, <2>3, EnterChain DEF SInv
<1>2. ASSUME NEW t \in Threads, SetEnabled(t) PROVE SInv'
    <2>1. UNCHANGED owner
        BY <1>2 DEF SetEnabled, Reset, StartTimer, LooksAgain, StopTimer
    <2>2. TypeOK'
        BY <1>0, <1>2, <2>1, SetEnabledTypes DEF TypeOK, owner
    <2> QED BY <1>2, <2>2, SetEnabledChain DEF SInv
<1>3. CASE CountLoad \/ CountStore
    <2>1. UNCHANGED <<chain, owner, call, late, crossed, raced, last, reported>>
        BY <1>3 DEF CountLoad, CountStore, counters
    <2>2. counting' \in BOOLEAN
        BY <1>3 DEF CountLoad, CountStore
    <2>3. loaded' \in Nat /\ total' \in Nat /\ counted' \in Nat
        BY <1>0, <1>3 DEF CountLoad, CountStore, counters, TypeOK
    <2>4. TypeOK'
        BY <1>0, <2>1, <2>2, <2>3 DEF TypeOK, chain, owner
    <2> QED BY <2>1, <2>4, ChainKept DEF SInv, chain
<1>4. ASSUME SessionEnds \/ Destruct PROVE SInv'
    <2>1. PICK t \in Threads : Enter(t, FALSE)
        BY <1>4 DEF SessionEnds, Destruct, Threads
    <2>2. /\ session' \in {"up", "ending", "over"}
          /\ host' \in {"alive", "closing", "joining", "gone"} /\ UNCHANGED calls
        BY <1>0, <1>4 DEF SessionEnds, Destruct, TypeOK
    <2>3. TypeOK'
        BY <1>0, <2>1, <2>2, SetEnabledTypes DEF TypeOK
    <2> QED BY <2>1, <2>3, EnterChain DEF SInv
<1>5. CASE SessionEnded \/ Joins \/ JoinReturns
    <2>1. /\ UNCHANGED <<chain, counters, handler, calls, call, late, crossed>>
          /\ session' \in {"up", "ending", "over"}
          /\ host' \in {"alive", "closing", "joining", "gone"}
        BY <1>0, <1>5 DEF SessionEnded, Joins, JoinReturns, TypeOK
    <2>2. TypeOK'
        BY <1>0, <2>1 DEF TypeOK, chain, counters, handler
    <2> QED BY <2>1, <2>2, ChainKept DEF SInv, chain
<1>6. CASE Expire
    <2>1. /\ UNCHANGED <<is_enabled, cut, counters, handler, owner, call, late, crossed>>
          /\ due' = due + waits /\ waits' = 0
        BY <1>6 DEF Expire
    <2>2. waits' + due' + cut' = waits + due + cut
        BY <1>0, <2>1 DEF TypeOK
    <2>3. TypeOK'
        BY <1>0, <2>1 DEF TypeOK, counters, handler, owner
    <2> QED BY <2>1, <2>2, <2>3, ChainKept DEF SInv
<1>7. CASE StatCheckOk
    <2>1. /\ UNCHANGED <<is_enabled, handler, owner, call, late, crossed, counted, raced>>
          /\ due > 0 /\ due' = due - 1 /\ cut' = cut + waits /\ waits' = 1
          /\ last' = total /\ total' = 0 /\ reported' = reported + last'
        BY <1>7 DEF StatCheckOk, DiffCallback, StartsOver, Rearm
    <2>2. waits' + due' + cut' = waits + due + cut
        BY <1>0, <2>1 DEF TypeOK
    <2>3. TypeOK'
        BY <1>0, <2>1 DEF TypeOK, handler, owner
    <2> QED BY <2>1, <2>2, <2>3, ChainKept DEF SInv
<1>8. CASE StatCheckAborted
    <2>1. /\ is_enabled' = FALSE /\ cut > 0 /\ cut' = cut - 1
          /\ UNCHANGED <<waits, due, counters, handler, owner, call, late, crossed>>
        BY <1>8 DEF StatCheckAborted, ChainEnds
    <2>2. TypeOK'
        <3>1. is_enabled' \in BOOLEAN
            BY <2>1
        <3>2. cut' \in Nat
            BY <1>0, <2>1 DEF TypeOK
        <3> QED BY <1>0, <2>1, <3>1, <3>2 DEF TypeOK, counters, handler, owner
    <2>3. ASSUME ~crossed PROVE OneEnables' /\ OneChain'
        <3>1. Arming = {} /\ waits = 0 /\ due = 0 /\ cut = 1
            BY <2>1, <2>3, ChainCases
        <3>2. OneEnables'
            BY <2>1, <2>3, <3>1 DEF SInv, OneEnables, Arming
        <3> QED BY <2>1, <3>1, <3>2 DEF OneChain
    <2> QED BY <2>1, <2>2, <2>3 DEF SInv, OneChain
<1>9. CASE UNCHANGED vars
    <2>1. TypeOK'
        BY <1>0, <1>9 DEF vars, chain, counters, handler, owner, TypeOK
    <2> QED BY <1>9, <2>1, ChainKept DEF vars, chain, SInv
<1> QED BY <1>1, <1>2, <1>3, <1>4, <1>5, <1>6, <1>7, <1>8, <1>9 DEF Next

-----------------------------------------------------------------------------

\* For any number of threads and calls: every variable keeps its type, and there is
\* one chain of checks exactly while the statistics are enabled and their timer
\* started, until two enables find them disabled at once.
THEOREM OneChainAtATime == Spec => [](TypeOK /\ OneChain)
<1>1. SInv => TypeOK /\ OneChain BY DEF SInv
<1> QED BY SInvInit, SInvStep, <1>1, PTL DEF Spec

\* An increment under way works on the count that is there, unless a reset fell
\* into it.
CInv == /\ TypeOK
        /\ NothingCountedTwice
        /\ counting /\ ~raced => loaded = total

LEMMA CInvStep == TypeOK' /\ CInv /\ [Next]_vars => CInv'
<1> SUFFICES ASSUME TypeOK', CInv, [Next]_vars PROVE CInv'
    OBVIOUS
<1> DEFINE Account == NothingCountedTwice /\ (counting /\ ~raced => loaded = total)
<1> USE DEF CInv, NothingCountedTwice
<1>1. CASE CountLoad
    BY <1>1 DEF CountLoad, counters
<1>2. CASE CountStore
    BY <1>2 DEF CountStore, TypeOK
<1>3. CASE StatCheckOk
    BY <1>3 DEF StatCheckOk, IoFree, DiffCallback, StartsOver, handler, TypeOK
<1>4. ASSUME NEW t \in Threads, SetEnabled(t) PROVE Account'
    <2>1. CASE Reset(t)
        <3>1. /\ total' = 0 /\ reported' = 0 /\ counted' = 0 /\ counting' = counting
              /\ counting => raced'
            BY <2>1 DEF Reset, handler
        <3> QED BY <3>1
    <2>2. CASE UNCHANGED <<counters, handler>>
        BY <2>2 DEF counters, handler
    <2> QED BY <1>4, <2>1, <2>2 DEF SetEnabled, StartTimer, LooksAgain, StopTimer
<1>5. CASE UNCHANGED <<counters, handler>>
    BY <1>5 DEF counters, handler
<1> QED BY <1>1, <1>2, <1>3, <1>4, <1>5
        DEF Next, AppSets, Enter, SessionEnds, SessionEnded, Destruct, Joins, JoinReturns,
            Expire, StatCheckAborted, vars

\* Each message is in one report or still to be reported, for any number of threads
\* and whatever enables cross, unless the last reset fell into an increment or on a
\* check that was queued.
THEOREM MessagesCountedOnce == Spec => []NothingCountedTwice
<1>1. Init => CInv
    BY SInvInit DEF Init, CInv, NothingCountedTwice, SInv
<1>2. CInv => NothingCountedTwice
    BY DEF CInv
<1> QED BY <1>1, <1>2, CInvStep, OneChainAtATime, PTL DEF Spec
=============================================================================
