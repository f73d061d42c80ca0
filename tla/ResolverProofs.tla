--------------------------- MODULE ResolverProofs ---------------------------
(* Theorems about multi_resolver for any set of requests.                    *)
EXTENDS MultiResolver, SequenceTheorems, TLAPS

\* The queue holds the requests that were asked and not answered, in order.
QueueIsRest ==
    /\ Len(asked) = Len(answers) + Len(ws_queue)
    /\ \A i \in 1..Len(answers) : answers[i].request = asked[i]
    /\ \A i \in 1..Len(ws_queue) : ws_queue[i] = asked[Len(answers) + i]

RInv == TypeOK /\ OneLookup /\ QueueIsRest

LEMMA RInit == Init => RInv
BY DEF Init, RInv, TypeOK, OneLookup, QueueIsRest

\* resolve() starts a lookup exactly when none is under way.
LEMMA RResolve ==
    ASSUME RInv, NEW r \in Requests, Resolve(r)
    PROVE  RInv'
<1> USE DEF RInv, TypeOK
<1>1. /\ asked' = Append(asked, r) /\ ws_queue' = Append(ws_queue, r)
      /\ answers' = answers
  BY DEF Resolve
<1>2. /\ asked' \in Seq(Requests) /\ ws_queue' \in Seq(Requests)
      /\ Len(asked') = Len(asked) + 1 /\ Len(ws_queue') = Len(ws_queue) + 1
      /\ \A i \in 1..Len(asked) : asked'[i] = asked[i]
      /\ \A i \in 1..Len(ws_queue) : ws_queue'[i] = ws_queue[i]
      /\ asked'[Len(asked) + 1] = r /\ ws_queue'[Len(ws_queue) + 1] = r
      /\ ws_queue' # <<>>
  BY <1>1, AppendProperties
<1>3. Len(asked) \in Nat /\ Len(ws_queue) \in Nat /\ Len(answers) \in Nat
  OBVIOUS
<1>4. QueueIsRest'
  <2>1. Len(asked') = Len(answers') + Len(ws_queue')
    BY <1>1, <1>2, <1>3 DEF QueueIsRest
  <2>2. \A i \in 1..Len(answers') : answers'[i].request = asked'[i]
    BY <1>1, <1>2, <1>3 DEF QueueIsRest
  <2>3. ASSUME NEW i \in 1..Len(ws_queue') PROVE ws_queue'[i] = asked'[Len(answers') + i]
    <3>1. CASE i \in 1..Len(ws_queue)
      <4>1. Len(answers) + i \in 1..Len(asked)
        BY <3>1, <1>3 DEF QueueIsRest
      <4> QED BY <3>1, <4>1, <1>1, <1>2 DEF QueueIsRest
    <3>2. CASE i = Len(ws_queue) + 1
      BY <3>2, <1>1, <1>2, <1>3 DEF QueueIsRest
    <3> QED BY <3>1, <3>2, <1>2, <1>3
  <2> QED BY <2>1, <2>2, <2>3 DEF QueueIsRest
<1>5. CASE ws_queue = <<>>
  <2>1. Len(ws_queue') = 1 /\ Head(ws_queue') = r
    BY <1>1, <1>5
  <2>2. lookups' = {Begin(r)}
    BY <2>1, <1>5 DEF Resolve, StartsNow, OneLookup
  <2>3. Begin(r) \in [request : Requests, outcome : Outcomes \cup {"pending"}]
        /\ Begin(r).request = r
    BY DEF Begin
  <2>4. OneLookup'
    BY <2>1, <2>2, <2>3, <1>2 DEF OneLookup
  <2> QED BY <1>1, <1>2, <1>4, <2>2, <2>3, <2>4
<1>6. CASE ws_queue # <<>>
  <2>1. Len(ws_queue) > 0
    BY <1>6
  <2>2. lookups' = lookups
    BY <2>1, <1>2, <1>3 DEF Resolve, StartsNow
  <2>3. Head(ws_queue') = Head(ws_queue)
    BY <1>1, <1>6, HeadTailAppend
  <2>4. OneLookup'
    BY <2>2, <2>3, <1>2, <1>6 DEF OneLookup
  <2> QED BY <1>1, <1>2, <1>4, <2>2, <2>4
<1> QED BY <1>5, <1>6

LEMMA RCompletes ==
    ASSUME RInv, NEW l \in lookups, LookupCompletes(l)
    PROVE  RInv'
<1> USE DEF RInv, TypeOK
<1>1. PICK o \in Outcomes : lookups' = (lookups \ {l}) \cup {[l EXCEPT !.outcome = o]}
  BY DEF LookupCompletes
<1>2. /\ lookups = {l} /\ l.request = Head(ws_queue) /\ ws_queue # <<>>
      /\ l \in [request : Requests, outcome : Outcomes \cup {"pending"}]
  BY DEF OneLookup
<1>3. lookups' = {[l EXCEPT !.outcome = o]}
  BY <1>1, <1>2
<1>4. /\ [l EXCEPT !.outcome = o] \in [request : Requests, outcome : Outcomes \cup {"pending"}]
      /\ [l EXCEPT !.outcome = o].request = Head(ws_queue)
  BY <1>2
<1>5. UNCHANGED <<ws_queue, asked, answers>>
  BY DEF LookupCompletes
<1>6. OneLookup' /\ QueueIsRest'
  BY <1>2, <1>3, <1>4, <1>5 DEF OneLookup, QueueIsRest
<1> QED BY <1>3, <1>4, <1>5, <1>6

LEMMA RHandler ==
    ASSUME RInv, NEW l \in lookups, ResolveHandler(l)
    PROVE  /\ RInv'
           /\ answers' = Append(answers, l) /\ l \in Answers
           /\ Len(answers) < Len(asked) /\ l.request = asked[Len(answers) + 1]
<1> USE DEF RInv, TypeOK
<1>1. /\ lookups = {l} /\ l.request = Head(ws_queue) /\ ws_queue # <<>>
      /\ l \in [request : Requests, outcome : Outcomes \cup {"pending"}]
  BY DEF OneLookup
<1>2. l \in Answers
  BY <1>1 DEF ResolveHandler, Completed, Answers
<1>3. /\ ws_queue' = Tail(ws_queue) /\ lookups' = NextLookup(ws_queue')
      /\ answers' = Append(answers, l) /\ asked' = asked
  BY <1>1 DEF ResolveHandler
<1>4. /\ ws_queue' \in Seq(Requests) /\ Len(ws_queue') = Len(ws_queue) - 1
      /\ \A i \in 1..Len(ws_queue') : ws_queue'[i] = ws_queue[i + 1]
  BY <1>1, <1>3, HeadTailProperties
<1>5. /\ answers' \in Seq(Answers) /\ Len(answers') = Len(answers) + 1
      /\ \A i \in 1..Len(answers) : answers'[i] = answers[i]
      /\ answers'[Len(answers) + 1] = l
  BY <1>2, <1>3, AppendProperties
<1>6. /\ Len(asked) \in Nat /\ Len(ws_queue) \in Nat /\ Len(answers) \in Nat
      /\ Len(ws_queue) > 0 /\ Head(ws_queue) = ws_queue[1]
  BY <1>1
<1>7. Len(answers) < Len(asked) /\ l.request = asked[Len(answers) + 1]
  BY <1>1, <1>6 DEF QueueIsRest
<1>8. QueueIsRest'
  <2>1. Len(asked') = Len(answers') + Len(ws_queue')
    <3>1. Len(asked) = Len(answers) + Len(ws_queue)
      BY DEF QueueIsRest
    <3>2. asked' = asked
      BY <1>3
    <3>3. Len(answers') = Len(answers) + 1 /\ Len(ws_queue') = Len(ws_queue) - 1
      BY <1>4, <1>5
    <3> HIDE DEF RInv, TypeOK
    <3> QED BY <3>1, <3>2, <3>3, <1>6
  <2>2. ASSUME NEW i \in 1..Len(answers') PROVE answers'[i].request = asked'[i]
    <3>1. CASE i \in 1..Len(answers)
      BY <3>1, <1>3, <1>5 DEF QueueIsRest
    <3>2. CASE i = Len(answers) + 1
      BY <3>2, <1>3, <1>5, <1>7
    <3> QED BY <3>1, <3>2, <1>5, <1>6
  <2>3. ASSUME NEW i \in 1..Len(ws_queue') PROVE ws_queue'[i] = asked'[Len(answers') + i]
    <3>1. i + 1 \in 1..Len(ws_queue) /\ Len(answers') + i = Len(answers) + (i + 1)
      BY <1>4, <1>5, <1>6
    <3> QED BY <3>1, <1>3, <1>4 DEF QueueIsRest
  <2> QED BY <2>1, <2>2, <2>3 DEF QueueIsRest
<1>9. /\ OneLookup'
      /\ lookups' \subseteq [request : Requests, outcome : Outcomes \cup {"pending"}]
  <2>1. CASE ws_queue' = <<>>
    BY <2>1, <1>3 DEF NextLookup, OneLookup
  <2>2. CASE ws_queue' # <<>>
    <3>1. Head(ws_queue') \in Requests
      BY <2>2, <1>4
    <3>2. lookups' = {Begin(Head(ws_queue'))}
      BY <2>2, <1>3 DEF NextLookup
    <3>3. /\ Begin(Head(ws_queue')) \in [request : Requests, outcome : Outcomes \cup {"pending"}]
          /\ Begin(Head(ws_queue')).request = Head(ws_queue')
      BY <3>1 DEF Begin
    <3> QED BY <2>2, <3>2, <3>3 DEF OneLookup
  <2> QED BY <2>1, <2>2
<1> QED BY <1>2, <1>3, <1>4, <1>5, <1>7, <1>8, <1>9

LEMMA RStep == RInv /\ [Next]_vars => RInv'
<1> SUFFICES ASSUME RInv, [Next]_vars PROVE RInv'
  OBVIOUS
<1>1. CASE UNCHANGED vars
  BY <1>1 DEF vars, RInv, TypeOK, OneLookup, QueueIsRest
<1> QED BY <1>1, RResolve, RCompletes, RHandler DEF Next

LEMMA RInvHolds == Spec => []RInv
BY RInit, RStep, PTL DEF Spec

\* A lookup is of a request and has an outcome that can be told to its handler;
\* no handler is called with a lookup that is still pending.
THEOREM ResolverTypes == Spec => []TypeOK
<1>1. RInv => TypeOK
  BY DEF RInv
<1> QED BY <1>1, RInvHolds, PTL

\* The boost resolver is never asked for a second name while it looks one up,
\* and no request in the queue is without a lookup that will come to it.
THEOREM OneLookupAtATime == Spec => []OneLookup
<1>1. RInv => OneLookup
  BY DEF RInv
<1> QED BY <1>1, RInvHolds, PTL

\* However many threads call resolve(), every request is answered at most once,
\* in the order of the calls, and with the outcome of its own lookup.
THEOREM ResolverKeepsPromise == Spec => Promise!SafeSpec
<1>1. Init => Promise!Init
  BY DEF Init, Promise!Init
<1>2. RInv /\ [Next]_vars => [Promise!Next]_Promise!vars
  <2> SUFFICES ASSUME RInv, [Next]_vars PROVE [Promise!Next]_Promise!vars
    OBVIOUS
  <2>1. ASSUME NEW r \in Requests, Resolve(r) PROVE Promise!Next
    BY <2>1 DEF Resolve, Promise!Next, Promise!Ask, ToSet, Promise!ToSet
  <2>2. ASSUME NEW l \in lookups, LookupCompletes(l) PROVE UNCHANGED Promise!vars
    BY <2>2 DEF LookupCompletes, Promise!vars
  <2>3. ASSUME NEW l \in lookups, ResolveHandler(l) PROVE Promise!Next
    <3>1. /\ answers' = Append(answers, l) /\ l \in Answers
          /\ Len(answers) < Len(asked) /\ l.request = asked[Len(answers) + 1]
      BY <2>3, RHandler
    <3>2. l = [request |-> asked[Len(answers) + 1], outcome |-> l.outcome]
          /\ l.outcome \in Outcomes
      BY <3>1 DEF Answers
    <3>3. asked' = asked
      BY <2>3 DEF ResolveHandler
    <3> QED BY <3>1, <3>2, <3>3 DEF Promise!Next, Promise!Answer
  <2>4. CASE UNCHANGED vars
    BY <2>4 DEF vars, Promise!vars
  <2> QED BY <2>1, <2>2, <2>3, <2>4 DEF Next
<1> QED BY <1>1, <1>2, RInvHolds, PTL DEF Spec, Promise!SafeSpec
=============================================================================
