---------------------------- MODULE SessionProofs ----------------------------
(***************************************************************************)
(* Theorems about a session for any set of messages, any number of closes, *)
(* with and without an on_write_done handler, on any platform; and about   *)
(* the owners of a client session, as they ship, at the end.               *)
(***************************************************************************)
EXTENDS ClientHost, SessionOutbox, SequenceTheorems, TLAPS

(* The elements of a sequence, under the operations the session uses.      *)

LEMMA ToSetAppend ==
    ASSUME NEW S, NEW s \in Seq(S), NEW e \in S
    PROVE  ToSet(Append(s, e)) = ToSet(s) \cup {e}
<1>1. /\ Append(s, e) \in Seq(S)
      /\ Len(Append(s, e)) = Len(s) + 1
      /\ \A i \in 1..Len(s) : Append(s, e)[i] = s[i]
      /\ Append(s, e)[Len(s) + 1] = e
  BY AppendProperties
<1>2. Len(s) \in Nat
  BY LenProperties
<1>3. ASSUME NEW x \in ToSet(Append(s, e)) PROVE x \in ToSet(s) \cup {e}
  <2>1. PICK i \in 1..Len(Append(s, e)) : x = Append(s, e)[i]
    BY <1>1, <1>3 DEF ToSet
  <2>2. CASE i \in 1..Len(s)
    BY <2>1, <2>2, <1>1 DEF ToSet
  <2>3. CASE i = Len(s) + 1
    BY <2>1, <2>3, <1>1
  <2> QED BY <2>2, <2>3, <1>1, <1>2
<1>4. ASSUME NEW x \in ToSet(s) PROVE x \in ToSet(Append(s, e))
  <2>1. PICK i \in 1..Len(s) : x = s[i]
    BY <1>4 DEF ToSet
  <2>2. i \in 1..Len(Append(s, e)) /\ x = Append(s, e)[i]
    BY <2>1, <1>1, <1>2
  <2> QED BY <2>2 DEF ToSet
<1>5. e \in ToSet(Append(s, e))
  BY <1>1, <1>2 DEF ToSet
<1> QED BY <1>3, <1>4, <1>5

LEMMA AppendToConcat ==
    ASSUME NEW s \in Seq(Messages), NEW t \in Seq(Messages), NEW e \in Messages
    PROVE  Append(s \o t, e) = s \o Append(t, e)
<1>1. s \o t \in Seq(Messages) /\ <<e>> \in Seq(Messages)
  BY ConcatProperties
<1>2. Append(s \o t, e) = (s \o t) \o <<e>> /\ Append(t, e) = t \o <<e>>
  BY <1>1, AppendIsConcat
<1>3. (s \o t) \o <<e>> = s \o (t \o <<e>>)
  BY <1>1, ConcatAssociative
<1> QED BY <1>2, <1>3

\* Only members of X occur twice in s.
RepeatsOnly(s, X) == \A i, j \in 1..Len(s) : i # j /\ s[i] = s[j] => s[i] \in X

LEMMA RepeatsConcat ==
    ASSUME NEW X, NEW s \in Seq(Messages), NEW t \in Seq(Messages),
           RepeatsOnly(s, X), RepeatsOnly(t, X), ToSet(s) \cap ToSet(t) \subseteq X
    PROVE  RepeatsOnly(s \o t, X)
<1>1. /\ Len(s \o t) = Len(s) + Len(t)
      /\ \A i \in 1..Len(s) : (s \o t)[i] = s[i]
      /\ \A i \in 1..Len(t) : (s \o t)[Len(s) + i] = t[i]
  BY ConcatProperties
<1>2. Len(s) \in Nat /\ Len(t) \in Nat
  BY LenProperties
<1>3. \A i \in 1..Len(s \o t) : i \in 1..Len(s) \/ i - Len(s) \in 1..Len(t)
  BY <1>1, <1>2
<1>4. \A i \in 1..Len(s \o t) : i \notin 1..Len(s) =>
         i - Len(s) \in 1..Len(t) /\ (s \o t)[i] = t[i - Len(s)]
  <2> SUFFICES ASSUME NEW i \in 1..Len(s \o t), i \notin 1..Len(s)
               PROVE  i - Len(s) \in 1..Len(t) /\ (s \o t)[i] = t[i - Len(s)]
    OBVIOUS
  <2>1. i - Len(s) \in 1..Len(t) /\ Len(s) + (i - Len(s)) = i
    BY <1>2, <1>3
  <2> QED BY <2>1, <1>1
<1> SUFFICES ASSUME NEW i \in 1..Len(s \o t), NEW j \in 1..Len(s \o t),
                    i # j, (s \o t)[i] = (s \o t)[j]
             PROVE  (s \o t)[i] \in X
  BY DEF RepeatsOnly
<1>5. CASE i \in 1..Len(s) /\ j \in 1..Len(s)
  BY <1>1, <1>5 DEF RepeatsOnly
<1>6. CASE i \notin 1..Len(s) /\ j \notin 1..Len(s)
  <2>1. i - Len(s) # j - Len(s)
    BY <1>2
  <2> QED BY <2>1, <1>4, <1>6 DEF RepeatsOnly
<1>7. ASSUME NEW k \in 1..Len(s), NEW l \in 1..Len(t), s[k] = t[l] PROVE s[k] \in X
  BY <1>7 DEF ToSet
<1>8. CASE i \in 1..Len(s) /\ j \notin 1..Len(s)
  BY <1>1, <1>4, <1>7, <1>8
<1>9. CASE i \notin 1..Len(s) /\ j \in 1..Len(s)
  BY <1>1, <1>4, <1>7, <1>9
<1> QED BY <1>5, <1>6, <1>8, <1>9

LEMMA InToSet ==
    ASSUME NEW s \in Seq(Messages), NEW x
    PROVE  x \in ToSet(s) <=> \E i \in 1..Len(s) : x = s[i]
BY DEF ToSet

LEMMA ToSetConcat ==
    ASSUME NEW s \in Seq(Messages), NEW t \in Seq(Messages)
    PROVE  ToSet(s \o t) = ToSet(s) \cup ToSet(t)
<1>1. /\ Len(s \o t) = Len(s) + Len(t)
      /\ \A i \in 1..Len(s) : (s \o t)[i] = s[i]
      /\ \A i \in 1..Len(t) : (s \o t)[Len(s) + i] = t[i]
  BY ConcatProperties
<1>2. Len(s) \in Nat /\ Len(t) \in Nat
  BY LenProperties
<1>3. ASSUME NEW i \in 1..Len(s \o t) PROVE (s \o t)[i] \in ToSet(s) \cup ToSet(t)
  <2>1. CASE i \in 1..Len(s)
    BY <1>1, <2>1 DEF ToSet
  <2>2. CASE i \notin 1..Len(s)
    <3>1. i - Len(s) \in 1..Len(t) /\ Len(s) + (i - Len(s)) = i
      BY <1>1, <1>2, <2>2
    <3> QED BY <3>1, <1>1 DEF ToSet
  <2> QED BY <2>1, <2>2
<1>4. ASSUME NEW i \in 1..Len(s) PROVE s[i] \in ToSet(s \o t)
  <2>1. i \in 1..Len(s \o t)
    BY <1>1, <1>2
  <2> QED BY <2>1, <1>1 DEF ToSet
<1>5. ASSUME NEW i \in 1..Len(t) PROVE t[i] \in ToSet(s \o t)
  <2>1. Len(s) + i \in 1..Len(s \o t)
    BY <1>1, <1>2
  <2> QED BY <2>1, <1>1 DEF ToSet
<1>6. ASSUME NEW x \in ToSet(s \o t) PROVE x \in ToSet(s) \cup ToSet(t)
  <2>1. s \o t \in Seq(Messages)
    BY ConcatProperties
  <2>2. PICK i \in 1..Len(s \o t) : x = (s \o t)[i]
    BY <2>1, <1>6 DEF ToSet
  <2> QED BY <2>2, <1>3
<1>7. ASSUME NEW x \in ToSet(s) \cup ToSet(t) PROVE x \in ToSet(s \o t)
  BY <1>4, <1>5, <1>7, InToSet
<1> QED BY <1>6, <1>7

\* The front of a queue and the rest of it.
LEMMA HeadAndTail ==
    ASSUME NEW q \in Seq(Messages), q # <<>>
    PROVE  /\ Head(q) \in Messages /\ Tail(q) \in Seq(Messages)
           /\ ToSet(q) = {Head(q)} \cup ToSet(Tail(q))
           /\ RepeatsOnly(q, {}) => /\ RepeatsOnly(Tail(q), {})
                                    /\ Head(q) \notin ToSet(Tail(q))
<1>1. /\ Head(q) \in Messages /\ Tail(q) \in Seq(Messages)
      /\ Len(q) \in Nat /\ Len(q) > 0 /\ Len(Tail(q)) = Len(q) - 1
      /\ Head(q) = q[1]
      /\ \A i \in 1..Len(Tail(q)) : Tail(q)[i] = q[i + 1]
  OBVIOUS
<1>2. \A i \in 1..Len(Tail(q)) : i + 1 \in 1..Len(q) /\ i + 1 # 1
  BY <1>1
<1>3. \A i \in 1..Len(q) : i # 1 => i - 1 \in 1..Len(Tail(q)) /\ q[i] = Tail(q)[i - 1]
  <2> SUFFICES ASSUME NEW i \in 1..Len(q), i # 1
               PROVE  i - 1 \in 1..Len(Tail(q)) /\ q[i] = Tail(q)[i - 1]
    OBVIOUS
  <2>1. i - 1 \in 1..Len(Tail(q)) /\ (i - 1) + 1 = i
    BY <1>1
  <2> QED BY <2>1, <1>1
<1>4. 1 \in 1..Len(q)
  BY <1>1
<1>5. ToSet(q) = {Head(q)} \cup ToSet(Tail(q))
  <2>1. ASSUME NEW x \in ToSet(q) PROVE x \in {Head(q)} \cup ToSet(Tail(q))
    <3>1. PICK i \in 1..Len(q) : x = q[i]
      BY <2>1, InToSet
    <3>2. i # 1 => x \in ToSet(Tail(q))
      BY <3>1, <1>1, <1>3, InToSet
    <3> QED BY <3>1, <3>2, <1>1
  <2>2. ASSUME NEW x \in ToSet(Tail(q)) PROVE x \in ToSet(q)
    <3>1. PICK i \in 1..Len(Tail(q)) : x = Tail(q)[i]
      BY <2>2, <1>1 DEF ToSet
    <3> QED BY <3>1, <1>1, <1>2, InToSet
  <2>3. Head(q) \in ToSet(q)
    BY <1>1, <1>4, InToSet
  <2> QED BY <2>1, <2>2, <2>3
<1>6. ASSUME RepeatsOnly(q, {}) PROVE Head(q) \notin ToSet(Tail(q))
  BY <1>1, <1>2, <1>4, <1>6 DEF RepeatsOnly, ToSet
<1>7. ASSUME RepeatsOnly(q, {}) PROVE RepeatsOnly(Tail(q), {})
  <2> SUFFICES ASSUME NEW i \in 1..Len(Tail(q)), NEW j \in 1..Len(Tail(q)),
                      i # j, Tail(q)[i] = Tail(q)[j]
               PROVE  FALSE
    BY DEF RepeatsOnly
  <2>1. i + 1 \in 1..Len(q) /\ j + 1 \in 1..Len(q) /\ i + 1 # j + 1
    BY <1>2
  <2>2. q[i + 1] = q[j + 1]
    BY <1>1
  <2> QED BY <2>1, <2>2, <1>7 DEF RepeatsOnly
<1> QED BY <1>1, <1>5, <1>6, <1>7

\* One more element.
LEMMA RepeatsAppend ==
    ASSUME NEW X, NEW s \in Seq(Messages), NEW e \in Messages,
           RepeatsOnly(s, X), e \in ToSet(s) => e \in X
    PROVE  RepeatsOnly(Append(s, e), X)
<1>1. <<e>> \in Seq(Messages) /\ Append(s, e) = s \o <<e>>
  BY AppendIsConcat
<1>2. RepeatsOnly(<<e>>, X) /\ ToSet(<<e>>) = {e}
  BY DEF RepeatsOnly, ToSet
<1> QED BY <1>1, <1>2, RepeatsConcat

-----------------------------------------------------------------------------
(* Type correctness.                                                       *)

LEMMA TypeInit == Init => TypeOK
BY SessionAssumption DEF Init, TypeOK, Statuses

LEMMA TypeApp == TypeOK /\ AppStep => TypeOK'
<1> SUFFICES ASSUME TypeOK, AppStep PROVE TypeOK'
  OBVIOUS
<1> USE DEF TypeOK, Statuses, setupVars, writeVars, closeVars, history
<1>1. ASSUME NEW r \in BOOLEAN, Connect(r) PROVE TypeOK'
  BY <1>1 DEF Connect
<1>2. CASE Accept
  BY <1>2 DEF Accept
<1>3. CASE Close
  BY <1>3, SessionAssumption DEF Close
<1>4. ASSUME NEW m \in Messages, NEW b \in BOOLEAN, Write(m, b)
      PROVE  TypeOK'
  <2>1. accepted' \in Seq(Messages) /\ queue' \in Seq(Messages)
    BY <1>4 DEF Write
  <2>2. wr' \in [Messages -> {"idle", "posted", "writing", "ok", "failed", "over"}]
    BY <1>4 DEF Write, StartWrite
  <2>3. strand' \in Seq(Messages \cup {CloseOp})
    <3>1. Append(strand, m) \in Seq(Messages \cup {CloseOp})
      OBVIOUS
    <3> QED BY <1>4, <3>1 DEF Write
  <2> QED BY <1>4, <2>1, <2>2, <2>3 DEF Write
<1> QED BY <1>1, <1>2, <1>3, <1>4 DEF AppStep

LEMMA TypeIo == TypeOK /\ IoStep => TypeOK'
<1> SUFFICES ASSUME TypeOK, IoStep PROVE TypeOK'
  OBVIOUS
<1> USE DEF TypeOK, Statuses, setupVars, writeVars, closeVars, history
<1>1. CASE ConnectHandler
  BY <1>1 DEF ConnectHandler
<1>2. CASE ReadyHandler("handshake")
  BY <1>2 DEF ReadyHandler, StartRead
<1>3. CASE ReadyHandler("accept")
  BY <1>3 DEF ReadyHandler, StartRead
<1>4. CASE RunStrand
  <2>1. strand' \in Seq(Messages \cup {CloseOp})
    BY <1>4 DEF RunStrand
  <2>2. wr' \in [Messages -> {"idle", "posted", "writing", "ok", "failed", "over"}]
    BY <1>4 DEF RunStrand, StartWrite
  <2>3. closeOps' \in Nat /\ closeDone' \in Nat
    BY <1>4 DEF RunStrand
  <2> QED BY <1>4, <2>1, <2>2, <2>3 DEF RunStrand
<1>5. ASSUME NEW m \in Messages, WriteCompleteHandler(m) PROVE TypeOK'
  <2>1. queue # <<>> => Tail(queue) \in Seq(Messages)
    OBVIOUS
  <2>2. Append(handed, m) \in Seq(Messages)
    OBVIOUS
  <2>3. queue # <<>> => HandBackAll(m, Tail(queue)) \in Seq(Messages)
    BY <2>1, <2>2 DEF HandBackAll
  <2>4. queue' \in Seq(Messages) /\ handed' \in Seq(Messages)
    <3>1. CASE queue = <<>>
      BY <1>5, <3>1 DEF WriteCompleteHandler
    <3>2. CASE queue # <<>>
      <4>1. queue' = <<>> \/ queue' = Tail(queue)
        BY <1>5, <3>2 DEF WriteCompleteHandler
      <4>2. handed' = Append(handed, m) \/ handed' = HandBackAll(m, Tail(queue))
        BY <1>5, <3>2 DEF WriteCompleteHandler
      <4> QED BY <4>1, <4>2, <3>2, <2>1, <2>2, <2>3, EmptySeq
    <3> QED BY <3>1, <3>2
  <2>5. wr' \in [Messages -> {"idle", "posted", "writing", "ok", "failed", "over"}]
    BY <1>5 DEF WriteCompleteHandler, NextWrite, StartWrite
  <2> QED BY <1>5, <2>4, <2>5 DEF WriteCompleteHandler
<1>6. CASE ReadHandlerOk
  BY <1>6 DEF ReadHandlerOk, Reread, StartRead
<1>7. CASE ReadHandlerErr
  <2>1. queue' \in Seq(Messages) /\ handed' \in Seq(Messages)
    <3>1. handed \o queue \in Seq(Messages)
      BY ConcatProperties
    <3>2. handed' = handed \o queue \/ handed' = handed
      BY <1>7 DEF ReadHandlerErr, Flushed
    <3>3. queue' = <<>> \/ queue' = queue
      BY <1>7 DEF ReadHandlerErr
    <3> QED BY <3>1, <3>2, <3>3, EmptySeq
  <2>2. stale' \subseteq Messages
    <3>1. {m \in ToSet(queue) : InFlight(m)} \subseteq Messages
      BY DEF ToSet
    <3> QED BY <1>7, <3>1 DEF ReadHandlerErr
  <2> QED BY <1>7, <2>1, <2>2 DEF ReadHandlerErr
<1>8. CASE CloseHandler
  BY <1>8 DEF CloseHandler, AnswerClose
<1>9. CASE TimerExpire
  BY <1>9 DEF TimerExpire
<1>10. CASE TimerHandler
  BY <1>10 DEF TimerHandler, ShutSocket
<1> QED BY <1>1, <1>2, <1>3, <1>4, <1>5, <1>6, <1>7, <1>8, <1>9, <1>10 DEF IoStep

LEMMA TypeNet == TypeOK /\ NetStep => TypeOK'
<1> SUFFICES ASSUME TypeOK, NetStep PROVE TypeOK'
  OBVIOUS
<1> USE DEF TypeOK, Statuses, setupVars, writeVars, closeVars, history, Failed
<1>1. CASE PeerReset
  BY <1>1 DEF PeerReset
<1>2. CASE SetupOk \/ SetupDeclined \/ SetupFail
  BY <1>2 DEF SetupOk, SetupDeclined, SetupFail, SetupPending
<1>3. ASSUME NEW m \in Messages, WriteOk(m) \/ WriteFail(m) PROVE TypeOK'
  <2>1. CASE WriteOk(m)
    BY <2>1 DEF WriteOk
  <2>2. CASE WriteFail(m)
    BY <2>2 DEF WriteFail
  <2> QED BY <1>3, <2>1, <2>2
<1>4. CASE ReadOk \/ ReadClosed \/ ReadErr \/ ReadAbort
  BY <1>4 DEF ReadOk, ReadClosed, ReadErr, ReadAbort
<1>5. CASE CloseSend \/ CloseAck \/ CloseAbort
  BY <1>5 DEF CloseSend, CloseAck, CloseAbort
<1> QED BY <1>1, <1>2, <1>3, <1>4, <1>5 DEF NetStep, Abandon

LEMMA TypeStep == TypeOK /\ [Next]_vars => TypeOK'
<1>1. TypeOK /\ UNCHANGED vars => TypeOK'
  BY DEF TypeOK, vars, setupVars, writeVars, closeVars, history
<1> QED BY <1>1, TypeApp, TypeIo, TypeNet DEF Next

\* Every variable of a session keeps its type, whatever the application, the
\* io thread and the peer do.
THEOREM TypeCorrect == Spec => []TypeOK
BY TypeInit, TypeStep, PTL DEF Spec

-----------------------------------------------------------------------------
(* The strand.                                                             *)

\* A lambda on the strand is about a write that is posted, and about no other's.
StrandPosted ==
    \A i \in 1..Len(strand) : strand[i] \in Messages =>
        /\ wr[strand[i]] = "posted"
        /\ \A j \in 1..Len(strand) : strand[j] = strand[i] => j = i

\* A step that leaves the strand and the posted writes alone.
LEMMA PostedFrame ==
    ASSUME StrandPosted, strand' = strand,
           \A n \in Messages : wr[n] = "posted" => wr'[n] = "posted"
    PROVE  StrandPosted'
BY DEF StrandPosted

\* A lambda is dispatched: close()'s, or that of a write not posted before.
LEMMA PostedAppend ==
    ASSUME TypeOK, StrandPosted, NEW e \in Messages \cup {CloseOp},
           strand' = Append(strand, e),
           e \in Messages => wr[e] # "posted" /\ wr' = [wr EXCEPT ![e] = "posted"],
           e \notin Messages => wr' = wr
    PROVE  StrandPosted'
<1>1. /\ strand \in Seq(Messages \cup {CloseOp})
      /\ wr \in [Messages -> {"idle", "posted", "writing", "ok", "failed", "over"}]
  BY DEF TypeOK
<1>2. /\ Len(strand') = Len(strand) + 1 /\ Len(strand) \in Nat
      /\ strand'[Len(strand) + 1] = e
      /\ \A i \in 1..Len(strand) : strand'[i] = strand[i]
  BY <1>1
<1>3. \A i \in 1..Len(strand') : i \in 1..Len(strand) \/ i = Len(strand) + 1
  BY <1>2
<1>4. \A i \in 1..Len(strand) : strand[i] \in Messages => strand[i] # e
  BY DEF StrandPosted
<1> SUFFICES ASSUME NEW i \in 1..Len(strand'), strand'[i] \in Messages
             PROVE  /\ wr'[strand'[i]] = "posted"
                    /\ \A j \in 1..Len(strand') : strand'[j] = strand'[i] => j = i
  BY DEF StrandPosted
<1>5. wr'[strand'[i]] = "posted"
  BY <1>1, <1>2, <1>3 DEF StrandPosted
<1>6. ASSUME NEW j \in 1..Len(strand'), strand'[j] = strand'[i] PROVE j = i
  <2>1. CASE i \in 1..Len(strand)
    <3>1. j \in 1..Len(strand)
      BY <1>2, <1>3, <1>4, <1>6, <2>1
    <3> QED BY <2>1, <3>1, <1>2, <1>6 DEF StrandPosted
  <2>2. CASE i = Len(strand) + 1
    <3>1. j \notin 1..Len(strand)
      BY <1>2, <1>4, <1>6, <2>2
    <3> QED BY <2>2, <3>1, <1>3
  <2> QED BY <2>1, <2>2, <1>3
<1> QED BY <1>5, <1>6

\* The first lambda runs: if it is about a write, that write was posted.
LEMMA PostedRun ==
    ASSUME TypeOK, StrandPosted, RunStrand
    PROVE  /\ StrandPosted'
           /\ \A n \in Messages : InFlight(n)' <=> InFlight(n)
<1>1. /\ strand \in Seq(Messages \cup {CloseOp}) /\ strand # <<>>
      /\ wr \in [Messages -> {"idle", "posted", "writing", "ok", "failed", "over"}]
      /\ strand' = Tail(strand)
  BY DEF TypeOK, RunStrand
<1>2. /\ Len(strand) \in Nat /\ Len(strand) > 0 /\ Len(strand') = Len(strand) - 1
      /\ Head(strand) = strand[1]
      /\ \A i \in 1..Len(strand') : strand'[i] = strand[i + 1]
  BY <1>1
<1>3. 1 \in 1..Len(strand) /\ \A i \in 1..Len(strand') : i + 1 \in 1..Len(strand) /\ i + 1 # 1
  BY <1>2
<1>4. \/ wr' = wr
      \/ /\ strand[1] \in Messages /\ wr[strand[1]] = "posted"
         /\ wr' = [wr EXCEPT ![strand[1]] = StartWrite(strand[1])]
  BY <1>2, <1>3 DEF RunStrand, StrandPosted
<1>5. \A n \in Messages : n # strand[1] => wr'[n] = wr[n]
  BY <1>1, <1>4
<1>6. \A n \in Messages : InFlight(n)' <=> InFlight(n)
  BY <1>1, <1>4 DEF InFlight, StartWrite
<1>7. StrandPosted'
  <2> SUFFICES ASSUME NEW i \in 1..Len(strand'), strand'[i] \in Messages
               PROVE  /\ wr'[strand'[i]] = "posted"
                      /\ \A j \in 1..Len(strand') : strand'[j] = strand'[i] => j = i
    BY DEF StrandPosted
  <2>1. strand'[i] = strand[i + 1] /\ strand[i + 1] # strand[1]
    BY <1>2, <1>3 DEF StrandPosted
  <2>2. wr'[strand'[i]] = "posted"
    BY <2>1, <1>3, <1>5 DEF StrandPosted
  <2>3. ASSUME NEW j \in 1..Len(strand'), strand'[j] = strand'[i] PROVE j = i
    <3>1. j + 1 = i + 1
      BY <1>2, <1>3, <2>3 DEF StrandPosted
    <3> QED BY <3>1, <1>2
  <2> QED BY <2>2, <2>3
<1> QED BY <1>6, <1>7

-----------------------------------------------------------------------------
(* The write queue.  OneWriteInFlight and HandedInOrder are inductive once *)
(* the lambdas on the strand are known to be about posted writes.          *)

Serial == \A m \in Messages : InFlight(m) <=> queue # <<>> /\ m = Head(queue)

QueueInv == Serial /\ accepted = handed \o queue /\ StrandPosted

\* the inductive invariant
IInv == TypeOK /\ (stale = {} => QueueInv)

LEMMA QueueInit == Init => QueueInv
BY DEF Init, QueueInv, Serial, StrandPosted, InFlight

LEMMA QueueFrame ==
    ASSUME QueueInv, UNCHANGED <<queue, wr, strand, accepted, handed>>
    PROVE  QueueInv'
BY DEF QueueInv, Serial, StrandPosted, InFlight

\* A message that was never accepted has no write and no lambda.
LEMMA FreshIsIdle ==
    ASSUME TypeOK, QueueInv, NEW m \in Messages, m \notin ToSet(accepted)
    PROVE  /\ ~InFlight(m)
           /\ \A i \in 1..Len(strand) : strand[i] # m
<1>1. ASSUME queue # <<>> PROVE Head(queue) \in ToSet(accepted)
  <2>1. handed \in Seq(Messages) /\ queue \in Seq(Messages)
    BY DEF TypeOK
  <2>2. /\ Len(handed \o queue) = Len(handed) + Len(queue)
        /\ \A i \in 1..Len(queue) : (handed \o queue)[Len(handed) + i] = queue[i]
    BY <2>1, ConcatProperties
  <2>3. Len(handed) \in Nat /\ Len(queue) \in Nat /\ Len(queue) > 0
    BY <1>1, <2>1
  <2>4. Head(queue) = queue[1]
    BY <1>1, <2>1
  <2>5. Len(handed) + 1 \in 1..Len(accepted) /\ accepted[Len(handed) + 1] = Head(queue)
    BY <2>2, <2>3, <2>4 DEF QueueInv
  <2> QED BY <2>5 DEF ToSet
<1>2. ~InFlight(m)
  BY <1>1 DEF QueueInv, Serial
<1> QED BY <1>2 DEF QueueInv, StrandPosted, InFlight

LEMMA QueueWrite ==
    ASSUME TypeOK, QueueInv, NEW m \in Messages, NEW b \in BOOLEAN, Write(m, b)
    PROVE  QueueInv'
<1> USE DEF TypeOK
<1>1. /\ ~InFlight(m)
      /\ \A i \in 1..Len(strand) : strand[i] # m
  BY FreshIsIdle DEF Write
<1>2. /\ queue' = Append(queue, m) /\ accepted' = Append(accepted, m)
      /\ handed' = handed
  BY DEF Write
<1>3. accepted' = handed' \o queue'
  <2>1. Append(handed \o queue, m) = handed \o Append(queue, m)
    <3>1. handed \in Seq(Messages) /\ queue \in Seq(Messages)
      OBVIOUS
    <3> HIDE DEF TypeOK
    <3> QED BY <3>1, AppendToConcat
  <2> QED BY <1>2, <2>1 DEF QueueInv
<1>4. CASE queue = <<>>
  <2>1. Head(queue') = m /\ queue' # <<>> /\ Len(queue') = 1
    BY <1>2, <1>4
  <2>2. \A n \in Messages : ~InFlight(n)
    BY <1>4 DEF QueueInv, Serial
  <2>3. \/ wr' = [wr EXCEPT ![m] = "posted"] /\ strand' = Append(strand, m)
        \/ wr' = [wr EXCEPT ![m] = StartWrite(m)] /\ strand' = strand
    BY <2>1 DEF Write, SlotFree
  <2>4. \A n \in Messages : InFlight(n)' <=> n = m
    BY <2>2, <2>3 DEF InFlight, StartWrite
  <2>5. StrandPosted'
    <3>1. CASE strand' = strand
      BY <2>2, <3>1 DEF QueueInv, StrandPosted, InFlight
    <3>2. CASE wr' = [wr EXCEPT ![m] = "posted"] /\ strand' = Append(strand, m)
      <4> HIDE DEF TypeOK
      <4> QED BY <2>2, <3>2, PostedAppend DEF QueueInv, InFlight
    <3> QED BY <2>3, <3>1, <3>2
  <2> QED BY <1>3, <2>1, <2>4, <2>5 DEF QueueInv, Serial
<1>5. CASE queue # <<>>
  <2>1. Head(queue') = Head(queue) /\ queue' # <<>> /\ Len(queue') >= 2
    <3>1. Len(queue) \in Nat /\ Len(queue) >= 1
      BY <1>5
    <3>2. Len(queue') = Len(queue) + 1 /\ queue' # <<>>
      BY <1>2, AppendProperties
    <3>3. Head(queue') = Head(queue)
      BY <1>2, <1>5, HeadTailAppend
    <3> QED BY <3>1, <3>2, <3>3
  <2>2. UNCHANGED <<wr, strand>>
    BY <2>1 DEF Write, SlotFree
  <2> QED BY <1>3, <1>5, <2>1, <2>2 DEF QueueInv, Serial, StrandPosted, InFlight
<1> QED BY <1>4, <1>5

\* close() appends a lambda that is about no message.
LEMMA QueueClose ==
    ASSUME TypeOK, QueueInv, Close
    PROVE  QueueInv'
<1>1. UNCHANGED <<queue, wr, accepted, handed>>
  BY DEF Close, history
<1>2. CASE strand' = strand
  BY <1>1, <1>2, QueueFrame
<1>3. CASE strand' = Append(strand, CloseOp)
  <2>1. StrandPosted'
    BY <1>1, <1>3, SessionAssumption, PostedAppend DEF QueueInv
  <2> QED BY <1>1, <2>1 DEF QueueInv, Serial, InFlight
<1> QED BY <1>2, <1>3 DEF Close

LEMMA QueueRunStrand ==
    ASSUME TypeOK, QueueInv, RunStrand
    PROVE  QueueInv'
<1>1. UNCHANGED <<queue, accepted, handed>>
  BY DEF RunStrand, history
<1>2. StrandPosted' /\ \A n \in Messages : InFlight(n)' <=> InFlight(n)
  BY PostedRun DEF QueueInv
<1> QED BY <1>1, <1>2 DEF QueueInv, Serial

LEMMA QueueComplete ==
    ASSUME TypeOK, QueueInv, NEW m \in Messages, WriteCompleteHandler(m)
    PROVE  QueueInv'
<1> USE DEF TypeOK
<1>1. /\ queue # <<>> /\ m = Head(queue)
      /\ \A n \in Messages \ {m} : ~InFlight(n)
      /\ wr[m] # "posted"
  BY DEF WriteCompleteHandler, QueueInv, Serial, InFlight
<1>2. /\ UNCHANGED <<strand, accepted>>
      /\ Tail(queue) \in Seq(Messages)
      /\ queue = <<m>> \o Tail(queue)
  BY <1>1 DEF WriteCompleteHandler
<1>3. Append(handed, m) \o Tail(queue) = handed \o queue
  <2>1. <<m>> \in Seq(Messages) /\ Append(handed, m) = handed \o <<m>>
    BY AppendIsConcat
  <2>2. (handed \o <<m>>) \o Tail(queue) = handed \o (<<m>> \o Tail(queue))
    BY <2>1, <1>2, ConcatAssociative
  <2> QED BY <2>1, <2>2, <1>2, Zenon
<1>4. \A i \in 1..Len(strand) : strand[i] \notin Messages
  BY <1>1 DEF QueueInv, StrandPosted, InFlight
<1>5. StrandPosted'
  BY <1>2, <1>4 DEF StrandPosted
<1>6. CASE Tail(queue) # <<>> /\ IsOpen
  <2> DEFINE n == Head(Tail(queue))
  <2>1. n \in Messages
    BY <1>2, <1>6
  <2>2. /\ queue' = Tail(queue)
        /\ handed' = Append(handed, m)
        /\ wr' = [[wr EXCEPT ![m] = "over"] EXCEPT ![n] = StartWrite(n)]
    BY <1>1, <1>6 DEF WriteCompleteHandler, NextWrite
  <2>3. \A p \in Messages : InFlight(p)' <=> p = n
    BY <1>1, <2>1, <2>2 DEF InFlight, StartWrite
  <2>4. accepted' = handed' \o queue'
    BY <1>2, <1>3, <2>2 DEF QueueInv
  <2> QED BY <1>5, <1>6, <2>2, <2>3, <2>4 DEF QueueInv, Serial
<1>7. CASE ~(Tail(queue) # <<>> /\ IsOpen)
  <2>1. /\ queue' = <<>>
        /\ handed' = Append(handed, m) \o Tail(queue)
        /\ wr' = [wr EXCEPT ![m] = "over"]
    BY <1>1, <1>7 DEF WriteCompleteHandler, HandBackAll
  <2>2. \A p \in Messages : ~InFlight(p)'
    BY <1>1, <2>1 DEF InFlight
  <2>3. accepted' = handed' \o queue'
    <3>1. handed \o queue \in Seq(Messages)
      BY ConcatProperties
    <3> QED BY <1>2, <1>3, <2>1, <3>1, ConcatEmptySeq DEF QueueInv
  <2> QED BY <1>5, <2>1, <2>2, <2>3 DEF QueueInv, Serial
<1> QED BY <1>6, <1>7

\* A flush that leaves no write behind found the queue empty.
LEMMA QueueReadErr ==
    ASSUME TypeOK, QueueInv, ReadHandlerErr, stale' = {}
    PROVE  QueueInv'
<1> USE DEF TypeOK
<1>1. UNCHANGED <<wr, strand, accepted>>
  BY DEF ReadHandlerErr
<1>2. CASE UNCHANGED <<queue, handed>>
  BY <1>1, <1>2, QueueFrame
<1>3. CASE queue' = <<>> /\ handed' = handed \o queue
           /\ stale' = stale \cup {m \in ToSet(queue) : InFlight(m)}
  <2>1. queue = <<>>
    <3>1. SUFFICES ASSUME queue # <<>> PROVE FALSE
      OBVIOUS
    <3>2. Head(queue) \in Messages /\ InFlight(Head(queue))
      BY <3>1 DEF QueueInv, Serial
    <3>3. 1 \in 1..Len(queue) /\ queue[1] = Head(queue)
      BY <3>1
    <3>4. Head(queue) \in ToSet(queue)
      BY <3>3 DEF ToSet
    <3> QED BY <3>2, <3>4, <1>3
  <2>2. handed \o queue = handed
    BY <2>1, ConcatEmptySeq
  <2> QED BY <1>1, <1>3, <2>1, <2>2, QueueFrame
<1> QED BY <1>2, <1>3 DEF ReadHandlerErr, Flushed

LEMMA QueueNet ==
    ASSUME TypeOK, QueueInv, NetStep
    PROVE  QueueInv'
<1> USE DEF TypeOK, setupVars, writeVars, closeVars, history
<1>1. CASE PeerReset \/ SetupOk \/ SetupDeclined \/ SetupFail \/ ReadOk
           \/ ReadClosed \/ ReadErr \/ ReadAbort \/ CloseSend \/ CloseAck \/ CloseAbort
  <2>1. UNCHANGED <<queue, wr, strand, accepted, handed>>
    BY <1>1 DEF PeerReset, SetupOk, SetupDeclined, SetupFail, ReadOk, ReadClosed,
                ReadErr, ReadAbort, CloseSend, CloseAck, CloseAbort
  <2> QED BY <2>1, QueueFrame
<1>2. ASSUME NEW m \in Messages, WriteOk(m) \/ WriteFail(m) PROVE QueueInv'
  <2>1. /\ UNCHANGED <<queue, strand, accepted, handed>>
        /\ wr[m] = "writing"
        /\ wr' = [wr EXCEPT ![m] = "ok"] \/ wr' = [wr EXCEPT ![m] = "failed"]
    BY <1>2 DEF WriteOk, WriteFail
  <2>2. \A n \in Messages : InFlight(n)' <=> InFlight(n)
    BY <2>1 DEF InFlight
  <2>3. \A n \in Messages : wr[n] = "posted" => wr'[n] = "posted"
    BY <2>1
  <2> QED BY <2>1, <2>2, <2>3 DEF QueueInv, Serial, StrandPosted
<1> QED BY <1>1, <1>2 DEF NetStep, Abandon

LEMMA QueueApp ==
    ASSUME TypeOK, QueueInv, AppStep
    PROVE  QueueInv'
<1>1. CASE (\E r \in BOOLEAN : Connect(r)) \/ Accept
  <2>1. UNCHANGED <<queue, wr, strand, accepted, handed>>
    BY <1>1 DEF Connect, Accept, writeVars, history
  <2> QED BY <2>1, QueueFrame
<1> QED BY <1>1, QueueClose, QueueWrite DEF AppStep

LEMMA QueueIo ==
    ASSUME TypeOK, QueueInv, IoStep, stale' = {}
    PROVE  QueueInv'
<1>1. CASE ConnectHandler \/ ReadyHandler("handshake") \/ ReadyHandler("accept")
           \/ ReadHandlerOk \/ CloseHandler \/ TimerExpire \/ TimerHandler
  <2>1. UNCHANGED <<queue, wr, strand, accepted, handed>>
    BY <1>1 DEF ConnectHandler, ReadyHandler, ReadHandlerOk, CloseHandler,
                TimerExpire, TimerHandler, writeVars, history
  <2> QED BY <2>1, QueueFrame
<1> QED BY <1>1, QueueRunStrand, QueueComplete, QueueReadErr DEF IoStep

\* No step forgets that a flush left a write behind.
LEMMA StaleGrows == [Next]_vars => stale \subseteq stale'
<1>1. UNCHANGED vars => stale' = stale
  BY DEF vars, history
<1>2. AppStep => stale' = stale
  BY DEF AppStep, Connect, Accept, Close, Write, history
<1>3. IoStep => stale \subseteq stale'
  BY DEF IoStep, ConnectHandler, ReadyHandler, RunStrand, WriteCompleteHandler,
         ReadHandlerOk, ReadHandlerErr, CloseHandler, TimerExpire, TimerHandler, history
<1>4. NetStep => stale' = stale
  BY DEF NetStep, Abandon, PeerReset, SetupOk, SetupDeclined, SetupFail, WriteOk,
         WriteFail, ReadOk, ReadClosed, ReadErr, ReadAbort, CloseSend, CloseAck,
         CloseAbort, history
<1> QED BY <1>1, <1>2, <1>3, <1>4 DEF Next

LEMMA IInvStep == IInv /\ [Next]_vars => IInv'
<1> SUFFICES ASSUME IInv, [Next]_vars, stale' = {} PROVE QueueInv'
  BY TypeStep DEF IInv
<1>1. QueueInv /\ TypeOK
  BY StaleGrows DEF IInv
<1>2. CASE UNCHANGED vars
  BY <1>1, <1>2, QueueFrame DEF vars, writeVars, history
<1> QED BY <1>1, <1>2, QueueApp, QueueIo, QueueNet DEF Next

LEMMA IInvHolds == Spec => []IInv
<1>1. Init => IInv
  BY TypeInit, QueueInit DEF IInv
<1> QED BY <1>1, IInvStep, PTL DEF Spec

\* Beast never sees two asynchronous writes of one session at once, whoever
\* calls write() and whatever becomes of the connection.
THEOREM WritesAreSerial == Spec => []OneWriteInFlight
<1>1. IInv => OneWriteInFlight
  BY DEF IInv, QueueInv, Serial, OneWriteInFlight
<1> QED BY <1>1, IInvHolds, PTL

\* Messages come back once each, in the order in which they were accepted.
THEOREM MessagesComeBackInOrder == Spec => []HandedInOrder
<1>1. IInv => HandedInOrder
  BY DEF IInv, QueueInv, HandedInOrder
<1> QED BY <1>1, IInvHolds, PTL

-----------------------------------------------------------------------------
(* A queue that is not empty has a write under way, also after a flush.    *)

LEMMA WriterFrame ==
    ASSUME QueueHasWriter, UNCHANGED <<queue, wr>>
    PROVE  QueueHasWriter'
BY DEF QueueHasWriter, InFlight

LEMMA WriterApp ==
    ASSUME TypeOK, QueueHasWriter, AppStep
    PROVE  QueueHasWriter'
<1>1. CASE (\E r \in BOOLEAN : Connect(r)) \/ Accept \/ Close
  <2>1. UNCHANGED <<queue, wr>>
    BY <1>1 DEF Connect, Accept, Close, writeVars
  <2> QED BY <2>1, WriterFrame
<1>2. ASSUME NEW m \in Messages, NEW b \in BOOLEAN, Write(m, b)
      PROVE  QueueHasWriter'
  <2>1. queue \in Seq(Messages) /\ queue' = Append(queue, m)
    BY <1>2 DEF TypeOK, Write
  <2>2. CASE SlotFree(queue')
    <3>1. wr' = [wr EXCEPT ![m] = StartWrite(m)] \/ wr' = [wr EXCEPT ![m] = "posted"]
      BY <1>2, <2>2 DEF Write
    <3>2. InFlight(m)'
      BY <3>1 DEF TypeOK, InFlight, StartWrite
    <3> QED BY <3>2 DEF QueueHasWriter
  <2>3. CASE ~SlotFree(queue')
    <3>1. queue # <<>>
      <4> SUFFICES ASSUME queue = <<>> PROVE FALSE
        OBVIOUS
      <4>1. Len(queue') = Len(queue) + 1 /\ Len(queue) = 0
        BY <2>1, AppendProperties
      <4> QED BY <4>1, <2>3 DEF SlotFree
    <3>2. wr' = wr
      BY <1>2, <2>3 DEF Write
    <3> QED BY <3>1, <3>2 DEF QueueHasWriter, InFlight
  <2> QED BY <2>2, <2>3
<1> QED BY <1>1, <1>2 DEF AppStep

LEMMA WriterIo ==
    ASSUME TypeOK, QueueHasWriter, IoStep
    PROVE  QueueHasWriter'
<1>1. CASE ConnectHandler \/ ReadyHandler("handshake") \/ ReadyHandler("accept")
           \/ ReadHandlerOk \/ CloseHandler \/ TimerExpire \/ TimerHandler
  <2>1. UNCHANGED <<queue, wr>>
    BY <1>1 DEF ConnectHandler, ReadyHandler, ReadHandlerOk, CloseHandler,
                TimerExpire, TimerHandler, writeVars
  <2> QED BY <2>1, WriterFrame
<1>2. CASE RunStrand
  <2>1. queue' = queue
    BY <1>2 DEF RunStrand
  <2>2. \A m \in Messages : InFlight(m) => InFlight(m)'
    BY <1>2 DEF RunStrand, InFlight, StartWrite, TypeOK
  <2> QED BY <2>1, <2>2 DEF QueueHasWriter
<1>3. ASSUME NEW m \in Messages, WriteCompleteHandler(m), queue' # <<>>
      PROVE  QueueHasWriter'
  <2>1. /\ queue # <<>> /\ Tail(queue) # <<>>
        /\ wr' = [[wr EXCEPT ![m] = "over"]
                   EXCEPT ![Head(Tail(queue))] = StartWrite(Head(Tail(queue)))]
    BY <1>3 DEF WriteCompleteHandler, NextWrite
  <2>2. PICK n \in Messages : n = Head(Tail(queue))
    <3>1. Tail(queue) \in Seq(Messages)
      BY <2>1 DEF TypeOK
    <3> QED BY <3>1, <2>1
  <2>3. InFlight(n)'
    BY <2>1, <2>2 DEF TypeOK, InFlight, StartWrite
  <2> QED BY <2>2, <2>3 DEF QueueHasWriter
<1>4. CASE ReadHandlerErr
  <2>1. wr' = wr /\ (queue' = <<>> \/ queue' = queue)
    BY <1>4 DEF ReadHandlerErr
  <2> QED BY <2>1 DEF QueueHasWriter, InFlight
<1> QED BY <1>1, <1>2, <1>3, <1>4 DEF IoStep, QueueHasWriter

LEMMA WriterNet ==
    ASSUME TypeOK, QueueHasWriter, NetStep
    PROVE  QueueHasWriter'
<1>1. queue' = queue
  BY DEF NetStep, Abandon, PeerReset, SetupOk, SetupDeclined, SetupFail, WriteOk,
         WriteFail, ReadOk, ReadClosed, ReadErr, ReadAbort, CloseSend, CloseAck,
         CloseAbort, writeVars
<1>2. \A m \in Messages : InFlight(m) => InFlight(m)'
  <2>1. \/ wr' = wr
        \/ \E n \in Messages : \/ wr' = [wr EXCEPT ![n] = "ok"]
                               \/ wr' = [wr EXCEPT ![n] = "failed"]
    BY DEF NetStep, Abandon, PeerReset, SetupOk, SetupDeclined, SetupFail, WriteOk,
           WriteFail, ReadOk, ReadClosed, ReadErr, ReadAbort, CloseSend, CloseAck,
           CloseAbort, writeVars
  <2> QED BY <2>1 DEF InFlight, TypeOK
<1> QED BY <1>1, <1>2 DEF QueueHasWriter

LEMMA WriterStep == TypeOK /\ QueueHasWriter /\ [Next]_vars => QueueHasWriter'
<1>1. CASE UNCHANGED vars
  BY <1>1, WriterFrame DEF vars, writeVars
<1> QED BY <1>1, WriterApp, WriterIo, WriterNet DEF Next

\* A message in the queue is never abandoned: the handler of some outstanding
\* write holds the session and will take the queue further, so that ~session()
\* finds it empty; with or without on_write_done, whatever was flushed.
THEOREM QueueIsDriven == Spec => []QueueHasWriter
<1>1. Init => QueueHasWriter
  BY DEF Init, QueueHasWriter
<1> QED BY <1>1, WriterStep, TypeCorrect, PTL DEF Spec

-----------------------------------------------------------------------------
(* As many messages come back as leave the queue, whichever they are.      *)

LEMMA BalanceFrame ==
    ASSUME HandBackBalance, UNCHANGED <<queue, accepted, handed>>
    PROVE  HandBackBalance'
BY DEF HandBackBalance

LEMMA BalanceWrite ==
    ASSUME TypeOK, HandBackBalance, NEW m \in Messages, NEW b \in BOOLEAN, Write(m, b)
    PROVE  HandBackBalance'
<1>1. /\ queue \in Seq(Messages) /\ accepted \in Seq(Messages) /\ handed \in Seq(Messages)
      /\ queue' = Append(queue, m) /\ accepted' = Append(accepted, m) /\ handed' = handed
  BY DEF TypeOK, Write
<1>2. Len(queue') = Len(queue) + 1 /\ Len(accepted') = Len(accepted) + 1
  BY <1>1, AppendProperties
<1>3. Len(queue) \in Nat /\ Len(accepted) \in Nat /\ Len(handed) \in Nat /\ Len(handed') = Len(handed)
  BY <1>1
<1> QED BY <1>2, <1>3 DEF HandBackBalance

LEMMA BalanceComplete ==
    ASSUME TypeOK, HandBackBalance, NEW m \in Messages, WriteCompleteHandler(m)
    PROVE  HandBackBalance'
<1>1. /\ queue \in Seq(Messages) /\ accepted \in Seq(Messages) /\ handed \in Seq(Messages)
      /\ accepted' = accepted
  BY DEF TypeOK, WriteCompleteHandler
<1>2. Len(queue) \in Nat /\ Len(accepted) \in Nat /\ Len(handed) \in Nat
  BY <1>1
<1>3. CASE queue = <<>>
  <2>1. UNCHANGED <<queue, accepted, handed>>
    BY <1>3 DEF WriteCompleteHandler
  <2> QED BY <2>1, BalanceFrame
<1>4. CASE queue # <<>>
  <2>1. Tail(queue) \in Seq(Messages) /\ Len(Tail(queue)) = Len(queue) - 1
    BY <1>1, <1>4, HeadTailProperties
  <2>2. Append(handed, m) \in Seq(Messages) /\ Len(Append(handed, m)) = Len(handed) + 1
    BY <1>1, AppendProperties
  <2>3. Len(Append(handed, m) \o Tail(queue)) = Len(handed) + 1 + (Len(queue) - 1)
    BY <2>1, <2>2, ConcatProperties
  <2>4. \/ queue' = Tail(queue) /\ handed' = Append(handed, m)
        \/ queue' = <<>> /\ handed' = Append(handed, m) \o Tail(queue)
    BY <1>4 DEF WriteCompleteHandler, HandBackAll
  <2>5. \/ Len(queue') = Len(queue) - 1 /\ Len(handed') = Len(handed) + 1
        \/ Len(queue') = 0 /\ Len(handed') = Len(handed) + 1 + (Len(queue) - 1)
    <3>1. CASE queue' = Tail(queue) /\ handed' = Append(handed, m)
      BY <2>1, <2>2, <3>1, Zenon
    <3>2. CASE queue' = <<>> /\ handed' = Append(handed, m) \o Tail(queue)
      <4>1. Len(queue') = 0
        BY <3>2
      <4>2. Len(handed') = Len(Append(handed, m) \o Tail(queue))
        BY <3>2, Zenon
      <4> QED BY <4>1, <4>2, <2>3, Zenon
    <3> QED BY <2>4, <3>1, <3>2
  <2>6. Len(accepted') = Len(accepted)
    BY <1>1
  <2> QED BY <1>2, <2>5, <2>6 DEF HandBackBalance
<1> QED BY <1>3, <1>4

LEMMA BalanceReadErr ==
    ASSUME TypeOK, HandBackBalance, ReadHandlerErr
    PROVE  HandBackBalance'
<1>1. /\ queue \in Seq(Messages) /\ handed \in Seq(Messages) /\ accepted \in Seq(Messages)
      /\ accepted' = accepted
  BY DEF TypeOK, ReadHandlerErr
<1>2. CASE UNCHANGED <<queue, handed>>
  BY <1>1, <1>2, BalanceFrame
<1>3. CASE queue' = <<>> /\ handed' = handed \o queue
  <2>1. Len(handed') = Len(handed) + Len(queue)
    BY <1>1, <1>3, ConcatProperties
  <2>2. Len(queue') = 0 /\ Len(accepted') = Len(accepted)
    BY <1>1, <1>3
  <2>3. Len(handed) \in Nat /\ Len(queue) \in Nat
    BY <1>1
  <2> QED BY <2>1, <2>2, <2>3 DEF HandBackBalance
<1> QED BY <1>2, <1>3 DEF ReadHandlerErr, Flushed

\* Whatever was flushed while a write was in flight, the number of messages
\* handed back is the number that left the queue.
THEOREM HandBackIsBalanced == Spec => []HandBackBalance
<1>1. Init => HandBackBalance
  BY DEF Init, HandBackBalance
<1>2. TypeOK /\ HandBackBalance /\ [Next]_vars => HandBackBalance'
  <2> SUFFICES ASSUME TypeOK, HandBackBalance, [Next]_vars PROVE HandBackBalance'
    OBVIOUS
  <2>1. CASE UNCHANGED vars
    BY <2>1, BalanceFrame DEF vars, writeVars, history
  <2>2. CASE AppStep
    <3>1. CASE (\E r \in BOOLEAN : Connect(r)) \/ Accept \/ Close
      <4>1. UNCHANGED <<queue, accepted, handed>>
        BY <3>1 DEF Connect, Accept, Close, writeVars, history
      <4> QED BY <4>1, BalanceFrame
    <3> QED BY <2>2, <3>1, BalanceWrite DEF AppStep
  <2>3. CASE IoStep
    <3>1. CASE ConnectHandler \/ ReadyHandler("handshake") \/ ReadyHandler("accept")
               \/ RunStrand \/ ReadHandlerOk \/ CloseHandler \/ TimerExpire \/ TimerHandler
      <4>1. UNCHANGED <<queue, accepted, handed>>
        BY <3>1 DEF ConnectHandler, ReadyHandler, RunStrand, ReadHandlerOk,
                    CloseHandler, TimerExpire, TimerHandler, writeVars, history
      <4> QED BY <4>1, BalanceFrame
    <3> QED BY <2>3, <3>1, BalanceComplete, BalanceReadErr DEF IoStep
  <2>4. CASE NetStep
    <3>1. UNCHANGED <<queue, accepted, handed>>
      BY <2>4 DEF NetStep, Abandon, PeerReset, SetupOk, SetupDeclined, SetupFail, WriteOk,
                  WriteFail, ReadOk, ReadClosed, ReadErr, ReadAbort, CloseSend, CloseAck,
                  CloseAbort, writeVars, history
    <3> QED BY <3>1, BalanceFrame
  <2> QED BY <2>1, <2>2, <2>3, <2>4 DEF Next
<1> QED BY <1>1, <1>2, TypeCorrect, PTL DEF Spec

\* An ONLINE session always reads, so that it learns that the peer has gone.
THEOREM OnlineReads == Spec => []OnlineIsReading
<1>1. Init => OnlineIsReading
  BY DEF Init, OnlineIsReading
<1>2. OnlineIsReading /\ [Next]_vars => OnlineIsReading'
  <2> SUFFICES ASSUME OnlineIsReading, [Next]_vars PROVE OnlineIsReading'
    OBVIOUS
  <2>1. CASE UNCHANGED vars
    BY <2>1 DEF vars, OnlineIsReading
  <2>2. CASE AppStep
    BY <2>2 DEF AppStep, Connect, Accept, Close, Write, OnlineIsReading
  <2>3. CASE IoStep
    BY <2>3 DEF IoStep, ConnectHandler, ReadyHandler, StartRead, RunStrand,
                WriteCompleteHandler, ReadHandlerOk, Reread, ReadHandlerErr,
                CloseHandler, TimerExpire, TimerHandler, OnlineIsReading
  <2>4. CASE NetStep
    BY <2>4 DEF NetStep, Abandon, PeerReset, SetupOk, SetupDeclined, SetupFail, WriteOk,
                WriteFail, ReadOk, ReadClosed, ReadErr, ReadAbort, CloseSend, CloseAck,
                CloseAbort, OnlineIsReading
  <2> QED BY <2>1, <2>2, <2>3, <2>4 DEF Next
<1> QED BY <1>1, <1>2, PTL DEF Spec

-----------------------------------------------------------------------------
(* Which messages can come back twice.  A write that a flush left behind    *)
(* may share the stream with the write of a newer message, and its handler *)
(* pops that one: what stays true of every state is below.                 *)

\* Each message is in one place, unless it is stale.
Places ==
    /\ RepeatsOnly(handed, stale) /\ RepeatsOnly(queue, {})
    /\ ToSet(queue) \cap ToSet(handed) = {}
    /\ ToSet(queue) \cup ToSet(handed) \subseteq ToSet(accepted)

\* A write is of a message that was accepted; if the message is still in the
\* queue it is the front, and if it was handed back already it is stale.
WritesAreDue ==
    \A m \in Messages : InFlight(m) =>
        /\ m \in ToSet(accepted)
        /\ m \in ToSet(queue) => m = Head(queue)
        /\ m \in ToSet(handed) => m \in stale

StaleInv == Places /\ WritesAreDue /\ StrandPosted

LEMMA PlacesFrame ==
    ASSUME Places, WritesAreDue, UNCHANGED <<queue, accepted, handed, stale>>,
           \A n \in Messages : InFlight(n)' => InFlight(n)
    PROVE  Places' /\ WritesAreDue'
<1>1. Places'
  BY DEF Places
<1>2. WritesAreDue'
  BY DEF WritesAreDue
<1> QED BY <1>1, <1>2

LEMMA StaleFrame ==
    ASSUME StaleInv, UNCHANGED <<queue, accepted, handed, stale, strand>>,
           \A n \in Messages : InFlight(n)' => InFlight(n),
           \A n \in Messages : wr[n] = "posted" => wr'[n] = "posted"
    PROVE  StaleInv'
<1>1. StrandPosted'
  BY PostedFrame DEF StaleInv
<1>2. Places' /\ WritesAreDue'
  BY PlacesFrame DEF StaleInv
<1> QED BY <1>1, <1>2 DEF StaleInv

LEMMA StaleWrite ==
    ASSUME TypeOK, StaleInv, NEW m \in Messages, NEW b \in BOOLEAN, Write(m, b)
    PROVE  StaleInv'
<1>1. /\ queue \in Seq(Messages) /\ accepted \in Seq(Messages) /\ handed \in Seq(Messages)
      /\ wr \in [Messages -> {"idle", "posted", "writing", "ok", "failed", "over"}]
  BY DEF TypeOK
<1>2. /\ m \notin ToSet(accepted) /\ m \notin ToSet(queue) /\ m \notin ToSet(handed)
      /\ ~InFlight(m)
  BY DEF Write, StaleInv, Places, WritesAreDue
<1>3. /\ queue' = Append(queue, m) /\ accepted' = Append(accepted, m)
      /\ handed' = handed /\ stale' = stale
  BY DEF Write
<1>4. /\ ToSet(queue') = ToSet(queue) \cup {m}
      /\ ToSet(accepted') = ToSet(accepted) \cup {m}
      /\ ToSet(handed') = ToSet(handed)
  BY <1>1, <1>3, ToSetAppend
<1>5. Places'
  <2>1. RepeatsOnly(queue', {})
    BY <1>1, <1>2, <1>3, RepeatsAppend DEF StaleInv, Places
  <2>2. RepeatsOnly(handed', stale')
    BY <1>3 DEF StaleInv, Places
  <2> QED BY <1>2, <1>4, <2>1, <2>2 DEF StaleInv, Places
<1>6. CASE SlotFree(queue')
  <2>1. queue = <<>>
    <3>1. Len(queue') = Len(queue) + 1 /\ Len(queue) \in Nat
      BY <1>1, <1>3, AppendProperties
    <3> QED BY <1>1, <1>6, <3>1, EmptySeq DEF SlotFree
  <2>2. Head(queue') = m
    BY <1>3, <2>1
  <2>3. \/ wr' = [wr EXCEPT ![m] = "posted"] /\ strand' = Append(strand, m)
        \/ wr' = [wr EXCEPT ![m] = StartWrite(m)] /\ strand' = strand
    BY <1>6 DEF Write
  <2>4. \A n \in Messages : InFlight(n)' => InFlight(n) \/ n = m
    BY <1>1, <2>3 DEF InFlight
  <2>5. WritesAreDue'
    <3>1. ToSet(queue') = {m}
      BY <1>4, <2>1 DEF ToSet
    <3> QED BY <1>2, <1>3, <1>4, <2>2, <2>4, <3>1 DEF StaleInv, WritesAreDue
  <2>6. StrandPosted'
    <3>1. CASE wr' = [wr EXCEPT ![m] = "posted"] /\ strand' = Append(strand, m)
      BY <1>2, <3>1, PostedAppend DEF StaleInv, InFlight
    <3>2. CASE wr' = [wr EXCEPT ![m] = StartWrite(m)] /\ strand' = strand
      <4>1. \A n \in Messages : wr[n] = "posted" => wr'[n] = "posted"
        BY <1>1, <1>2, <3>2 DEF InFlight
      <4> QED BY <3>2, <4>1, PostedFrame DEF StaleInv
    <3> QED BY <2>3, <3>1, <3>2
  <2> QED BY <1>5, <2>5, <2>6 DEF StaleInv
<1>7. CASE ~SlotFree(queue')
  <2>1. UNCHANGED <<wr, strand>>
    BY <1>7 DEF Write
  <2>2. queue # <<>>
    <3> SUFFICES ASSUME queue = <<>> PROVE FALSE
      OBVIOUS
    <3>1. Len(queue') = Len(queue) + 1 /\ Len(queue) = 0
      BY <1>1, <1>3, AppendProperties
    <3> QED BY <1>7, <3>1 DEF SlotFree
  <2>3. Head(queue') = Head(queue)
    BY <1>1, <1>3, <2>2, HeadTailAppend
  <2>4. WritesAreDue'
    BY <1>2, <1>3, <1>4, <2>1, <2>3 DEF StaleInv, WritesAreDue, InFlight
  <2>5. StrandPosted'
    BY <2>1, PostedFrame DEF StaleInv
  <2> QED BY <1>5, <2>4, <2>5 DEF StaleInv
<1> QED BY <1>6, <1>7

LEMMA StaleComplete ==
    ASSUME TypeOK, StaleInv, NEW m \in Messages, WriteCompleteHandler(m)
    PROVE  StaleInv'
<1>1. /\ queue \in Seq(Messages) /\ accepted \in Seq(Messages) /\ handed \in Seq(Messages)
      /\ wr \in [Messages -> {"idle", "posted", "writing", "ok", "failed", "over"}]
  BY DEF TypeOK
<1>2. UNCHANGED <<accepted, strand, stale>> /\ InFlight(m) /\ wr[m] # "posted"
  BY DEF WriteCompleteHandler, InFlight
<1>3. CASE queue = <<>>
  <2>1. wr' = [wr EXCEPT ![m] = "over"] /\ UNCHANGED <<queue, handed>>
    BY <1>3 DEF WriteCompleteHandler
  <2>2. /\ \A n \in Messages : InFlight(n)' => InFlight(n)
        /\ \A n \in Messages : wr[n] = "posted" => wr'[n] = "posted"
    BY <1>1, <1>2, <2>1 DEF InFlight
  <2> QED BY <1>2, <2>1, <2>2, StaleFrame
<1>4. CASE queue # <<>>
  <2> DEFINE h == Head(queue)
             rest == Tail(queue)
             back == Append(handed, m)
  <2>1. /\ h \in Messages /\ rest \in Seq(Messages)
        /\ ToSet(queue) = {h} \cup ToSet(rest)
        /\ RepeatsOnly(rest, {}) /\ h \notin ToSet(rest)
    BY <1>1, <1>4, HeadAndTail DEF StaleInv, Places
  <2>2. /\ back \in Seq(Messages) /\ ToSet(back) = ToSet(handed) \cup {m}
    BY <1>1, ToSetAppend
  <2>3. m \in ToSet(accepted) /\ (m \in ToSet(queue) => m = h) /\ m \notin ToSet(rest)
        /\ (m \in ToSet(handed) => m \in stale)
    BY <1>2, <2>1 DEF StaleInv, WritesAreDue
  <2>4. RepeatsOnly(back, stale)
    BY <1>1, <2>3, RepeatsAppend DEF StaleInv, Places
  <2>5. ToSet(rest) \cap ToSet(back) = {}
    BY <2>1, <2>2, <2>3 DEF StaleInv, Places
  <2>6. ToSet(rest) \cup ToSet(back) \subseteq ToSet(accepted)
    BY <2>1, <2>2, <2>3 DEF StaleInv, Places
  <2>7. CASE rest # <<>> /\ IsOpen
    <3> DEFINE n == Head(rest)
    <3>1. queue' = rest /\ handed' = back
          /\ wr' = [[wr EXCEPT ![m] = "over"] EXCEPT ![n] = StartWrite(n)]
      BY <1>4, <2>7 DEF WriteCompleteHandler, NextWrite
    <3>2. n \in Messages /\ n \in ToSet(rest)
      <4>1. n \in Messages /\ ToSet(rest) = {n} \cup ToSet(Tail(rest))
        BY <2>1, <2>7, HeadAndTail
      <4> QED BY <4>1
    <3>3. ~InFlight(n)
      BY <2>1, <3>2 DEF StaleInv, WritesAreDue
    <3>4. Places'
      BY <1>2, <2>1, <2>4, <2>5, <2>6, <3>1 DEF Places
    <3>5. \A p \in Messages : InFlight(p)' => p = n \/ (InFlight(p) /\ p # m)
      BY <1>1, <3>1, <3>2 DEF InFlight
    <3>6. WritesAreDue'
      <4> SUFFICES ASSUME NEW p \in Messages, InFlight(p)'
                   PROVE  /\ p \in ToSet(accepted)
                          /\ p \in ToSet(rest) => p = n
                          /\ p \in ToSet(back) => p \in stale
        BY <1>2, <3>1 DEF WritesAreDue
      <4>1. CASE p = n
        BY <2>5, <2>6, <3>2, <4>1
      <4>2. CASE InFlight(p) /\ p # m
        <5>1. p \in ToSet(accepted) /\ (p \in ToSet(queue) => p = h)
              /\ (p \in ToSet(handed) => p \in stale)
          BY <4>2 DEF StaleInv, WritesAreDue
        <5> QED BY <2>1, <2>2, <4>2, <5>1
      <4> QED BY <3>5, <4>1, <4>2
    <3>7. StrandPosted'
      <4>1. \A p \in Messages : wr[p] = "posted" => wr'[p] = "posted"
        BY <1>1, <1>2, <3>1, <3>2, <3>3 DEF InFlight
      <4> QED BY <1>2, <4>1, PostedFrame DEF StaleInv
    <3> QED BY <3>4, <3>6, <3>7 DEF StaleInv
  <2>8. CASE ~(rest # <<>> /\ IsOpen)
    <3>1. queue' = <<>> /\ handed' = back \o rest /\ wr' = [wr EXCEPT ![m] = "over"]
      BY <1>4, <2>8 DEF WriteCompleteHandler, HandBackAll
    <3>2. ToSet(queue') = {} /\ ToSet(handed') = ToSet(back) \cup ToSet(rest)
      <4>1. ToSet(back \o rest) = ToSet(back) \cup ToSet(rest)
        BY <2>1, <2>2, ToSetConcat
      <4>2. ToSet(queue') = {}
        BY <3>1 DEF ToSet
      <4> QED BY <3>1, <4>1, <4>2
    <3>3. RepeatsOnly(queue', {})
      BY <3>1 DEF RepeatsOnly
    <3>4. RepeatsOnly(handed', stale')
      <4>1. RepeatsOnly(rest, stale)
        BY <2>1 DEF RepeatsOnly
      <4>2. RepeatsOnly(back \o rest, stale)
        BY <2>1, <2>2, <2>4, <2>5, <4>1, RepeatsConcat
      <4> QED BY <1>2, <3>1, <4>2
    <3>5. Places'
      BY <1>2, <2>6, <3>2, <3>3, <3>4 DEF Places
    <3>6. /\ \A p \in Messages : InFlight(p)' => InFlight(p) /\ p # m
          /\ \A p \in Messages : wr[p] = "posted" => wr'[p] = "posted"
      BY <1>1, <1>2, <3>1 DEF InFlight
    <3>7. WritesAreDue'
      <4> SUFFICES ASSUME NEW p \in Messages, InFlight(p)'
                   PROVE  /\ p \in ToSet(accepted)
                          /\ p \in ToSet(handed') => p \in stale
        BY <1>2, <3>2 DEF WritesAreDue
      <4>1. InFlight(p) /\ p # m
        BY <3>6
      <4>2. p \in ToSet(accepted) /\ (p \in ToSet(queue) => p = h)
            /\ (p \in ToSet(handed) => p \in stale)
        BY <4>1 DEF StaleInv, WritesAreDue
      <4> QED BY <2>1, <2>2, <3>2, <4>1, <4>2
    <3>8. StrandPosted'
      BY <1>2, <3>6, PostedFrame DEF StaleInv
    <3> QED BY <3>5, <3>7, <3>8 DEF StaleInv
  <2> QED BY <2>7, <2>8
<1> QED BY <1>3, <1>4

LEMMA StaleReadErr ==
    ASSUME TypeOK, StaleInv, ReadHandlerErr
    PROVE  StaleInv'
<1>1. queue \in Seq(Messages) /\ handed \in Seq(Messages)
  BY DEF TypeOK
<1>2. UNCHANGED <<accepted, strand, wr>>
  BY DEF ReadHandlerErr
<1>3. /\ \A n \in Messages : InFlight(n)' <=> InFlight(n)
      /\ \A n \in Messages : wr[n] = "posted" => wr'[n] = "posted"
  BY <1>2 DEF InFlight
<1>4. CASE UNCHANGED <<handed, stale, queue>>
  BY <1>2, <1>3, <1>4, StaleFrame
<1>5. CASE /\ handed' = handed \o queue /\ queue' = <<>>
           /\ stale' = stale \cup {m \in ToSet(queue) : InFlight(m)}
  <2>1. ToSet(queue') = {} /\ ToSet(handed') = ToSet(handed) \cup ToSet(queue)
    <3>1. ToSet(handed \o queue) = ToSet(handed) \cup ToSet(queue)
      BY <1>1, ToSetConcat
    <3>2. ToSet(queue') = {}
      BY <1>5 DEF ToSet
    <3> QED BY <1>5, <3>1, <3>2
  <2>2. RepeatsOnly(queue', {})
    BY <1>5 DEF RepeatsOnly
  <2>3. RepeatsOnly(handed', stale')
    <3>1. RepeatsOnly(handed, stale') /\ RepeatsOnly(queue, stale')
      BY <1>5 DEF StaleInv, Places, RepeatsOnly
    <3>2. RepeatsOnly(handed \o queue, stale')
      BY <1>1, <3>1, RepeatsConcat DEF StaleInv, Places
    <3> QED BY <1>5, <3>2
  <2>4. Places'
    BY <1>2, <2>1, <2>2, <2>3 DEF StaleInv, Places
  <2>5. WritesAreDue'
    <3> SUFFICES ASSUME NEW p \in Messages, InFlight(p)
                 PROVE  /\ p \in ToSet(accepted)
                        /\ p \in ToSet(handed') => p \in stale'
      BY <1>2, <1>3, <2>1 DEF WritesAreDue
    <3>1. p \in ToSet(accepted) /\ (p \in ToSet(handed) => p \in stale)
      BY DEF StaleInv, WritesAreDue
    <3> QED BY <1>5, <2>1, <3>1
  <2>6. StrandPosted'
    BY <1>2, <1>3, PostedFrame DEF StaleInv
  <2> QED BY <2>4, <2>5, <2>6 DEF StaleInv
<1> QED BY <1>4, <1>5 DEF ReadHandlerErr, Flushed

LEMMA StaleStep == TypeOK /\ StaleInv /\ [Next]_vars => StaleInv'
<1> SUFFICES ASSUME TypeOK, StaleInv, [Next]_vars PROVE StaleInv'
  OBVIOUS
<1>1. CASE /\ UNCHANGED <<queue, accepted, handed, stale, strand>>
           /\ \/ wr' = wr
              \/ \E m \in Messages : WriteOk(m) \/ WriteFail(m)
  <2>1. /\ \A n \in Messages : InFlight(n)' => InFlight(n)
        /\ \A n \in Messages : wr[n] = "posted" => wr'[n] = "posted"
    <3>1. CASE wr' = wr
      BY <3>1 DEF InFlight
    <3>2. ASSUME NEW m \in Messages, WriteOk(m) \/ WriteFail(m)
          PROVE  /\ \A n \in Messages : InFlight(n)' => InFlight(n)
                 /\ \A n \in Messages : wr[n] = "posted" => wr'[n] = "posted"
      <4>1. wr[m] = "writing"
            /\ (wr' = [wr EXCEPT ![m] = "ok"] \/ wr' = [wr EXCEPT ![m] = "failed"])
        BY <3>2 DEF WriteOk, WriteFail
      <4> QED BY <4>1 DEF InFlight, TypeOK
    <3> QED BY <1>1, <3>1, <3>2
  <2> QED BY <1>1, <2>1, StaleFrame
<1>2. CASE UNCHANGED vars
  BY <1>1, <1>2 DEF vars, writeVars, history
<1>3. CASE AppStep
  <2>1. CASE (\E r \in BOOLEAN : Connect(r)) \/ Accept
    BY <1>1, <2>1 DEF Connect, Accept, writeVars, history
  <2>2. CASE Close
    <3>1. UNCHANGED <<queue, accepted, handed, stale, wr>>
      BY <2>2 DEF Close, history
    <3>2. CASE strand' = strand
      BY <1>1, <3>1, <3>2
    <3>3. CASE strand' = Append(strand, CloseOp)
      <4>1. StrandPosted'
        BY <3>1, <3>3, SessionAssumption, PostedAppend DEF StaleInv
      <4>2. Places' /\ WritesAreDue'
        BY <3>1, PlacesFrame DEF StaleInv, InFlight
      <4> QED BY <4>1, <4>2 DEF StaleInv
    <3> QED BY <2>2, <3>2, <3>3 DEF Close
  <2> QED BY <1>3, <2>1, <2>2, StaleWrite DEF AppStep
<1>4. CASE IoStep
  <2>1. CASE ConnectHandler \/ ReadyHandler("handshake") \/ ReadyHandler("accept")
             \/ ReadHandlerOk \/ CloseHandler \/ TimerExpire \/ TimerHandler
    BY <1>1, <2>1 DEF ConnectHandler, ReadyHandler, ReadHandlerOk, CloseHandler,
                      TimerExpire, TimerHandler, writeVars, history
  <2>2. CASE RunStrand
    <3>1. UNCHANGED <<queue, accepted, handed, stale>>
      BY <2>2 DEF RunStrand, history
    <3>2. StrandPosted' /\ \A n \in Messages : InFlight(n)' <=> InFlight(n)
      BY <2>2, PostedRun DEF StaleInv
    <3>3. Places' /\ WritesAreDue'
      BY <3>1, <3>2, PlacesFrame DEF StaleInv
    <3> QED BY <3>2, <3>3 DEF StaleInv
  <2> QED BY <1>4, <2>1, <2>2, StaleComplete, StaleReadErr DEF IoStep
<1>5. CASE NetStep
  BY <1>1, <1>5 DEF NetStep, Abandon, PeerReset, SetupOk, SetupDeclined, SetupFail,
         WriteOk, WriteFail, ReadOk, ReadClosed, ReadErr, ReadAbort, CloseSend,
         CloseAck, CloseAbort, writeVars, history
<1> QED BY <1>2, <1>3, <1>4, <1>5 DEF Next

LEMMA StaleInvHolds == Spec => []StaleInv
<1>1. Init => StaleInv
  BY DEF Init, StaleInv, Places, WritesAreDue, RepeatsOnly, StrandPosted, ToSet, InFlight
<1> QED BY <1>1, StaleStep, TypeCorrect, PTL DEF Spec

\* Whatever is flushed while writes are in flight, and whatever the handlers of
\* those writes pop later, a message comes back twice only if its own write was
\* in flight when the queue was flushed.
THEOREM OnlyStaleComeTwice == Spec => []OnlyStaleTwice
<1>1. StaleInv => OnlyStaleTwice
  BY DEF StaleInv, Places, RepeatsOnly, OnlyStaleTwice
<1> QED BY <1>1, StaleInvHolds, PTL

-----------------------------------------------------------------------------
(* Without on_write_done no queue is ever flushed under a write, and the    *)
(* session implements Outbox.                                              *)

\* How far into accepted the frames that went out may reach.
Through == IF queue # <<>> /\ wr[Head(queue)] = "ok" THEN Len(handed) + 1
                                                     ELSE Len(handed)

SentUpTo == \A k \in 1..Len(sent) :
               \E i \in 1..Len(accepted) : i <= Through /\ sent[k] = accepted[i]

\* The stream opens once, when the start-up operation completes.
OpensOnce == IsOpen \/ sent # <<>> =>
                setup \notin {"idle", "connect"} /\ result # "pending"

\* On a stream that is open no write has failed since the first frame went out.
NoGap == IsOpen /\ sent # <<>> =>
            /\ Through > 0 /\ Last(sent) = accepted[Through]
            /\ \A m \in Messages : wr[m] # "failed"

SentInv == SentUpTo /\ OpensOnce /\ NoGap

NeverStale == ~HasWriteDone => stale = {}

\* the inductive invariant of the refinement
OInv == ~HasWriteDone /\ TypeOK /\ QueueInv /\ StaleInv /\ stale = {} /\ SentInv

LEMMA NeverStaleStep == NeverStale /\ [Next]_vars => NeverStale'
<1>1. UNCHANGED vars => stale' = stale
  BY DEF vars, history
<1>2. AppStep => stale' = stale
  BY DEF AppStep, Connect, Accept, Close, Write, history
<1>3. IoStep => stale' = stale \/ HasWriteDone
  BY DEF IoStep, ConnectHandler, ReadyHandler, RunStrand, WriteCompleteHandler,
         ReadHandlerOk, ReadHandlerErr, CloseHandler, TimerExpire, TimerHandler, history
<1>4. NetStep => stale' = stale
  BY DEF NetStep, Abandon, PeerReset, SetupOk, SetupDeclined, SetupFail, WriteOk,
         WriteFail, ReadOk, ReadClosed, ReadErr, ReadAbort, CloseSend, CloseAck,
         CloseAbort, history
<1> QED BY <1>1, <1>2, <1>3, <1>4 DEF Next, NeverStale

LEMMA NeverStaleHolds == Spec => []NeverStale
<1>1. Init => NeverStale
  BY DEF Init, NeverStale
<1> QED BY <1>1, NeverStaleStep, PTL DEF Spec

\* The front of the queue is the oldest message not handed back.
LEMMA FrontIsDue ==
    ASSUME TypeOK, QueueInv
    PROVE  /\ Through \in Nat /\ Through <= Len(accepted)
           /\ Len(handed) \in Nat /\ Len(handed) <= Through
           /\ Len(accepted) = Len(handed) + Len(queue)
           /\ queue # <<>> => /\ Len(handed) + 1 \in 1..Len(accepted)
                              /\ accepted[Len(handed) + 1] = Head(queue)
<1>1. queue \in Seq(Messages) /\ handed \in Seq(Messages)
  BY DEF TypeOK
<1>2. Len(queue) \in Nat /\ Len(handed) \in Nat
  BY <1>1
<1>3. /\ Len(accepted) = Len(handed) + Len(queue)
      /\ \A i \in 1..Len(queue) : accepted[Len(handed) + i] = queue[i]
  BY <1>1, ConcatProperties DEF QueueInv
<1>4. queue # <<>> => Len(queue) > 0 /\ Head(queue) = queue[1]
  BY <1>1
<1>5. queue # <<>> => 1 \in 1..Len(queue) /\ Len(handed) + 1 \in 1..Len(accepted)
  BY <1>2, <1>3, <1>4
<1>6. Through \in Nat /\ Through <= Len(accepted) /\ Len(handed) <= Through
  <2>1. Through = Len(handed) \/ (queue # <<>> /\ Through = Len(handed) + 1)
    BY DEF Through
  <2> QED BY <1>2, <1>3, <1>5, <2>1
<1> QED BY <1>2, <1>3, <1>4, <1>5, <1>6

\* No step but WriteOk puts a frame on the wire.
LEMMA SentKept ==
    ASSUME SentUpTo, NoGap, sent' = sent,
           Through \in Nat, Through <= Len(accepted), Len(accepted) \in Nat,
           \A i \in 1..Len(accepted) : i \in 1..Len(accepted') /\ accepted'[i] = accepted[i],
           Through' \in Nat, Through' >= Through,
           IsOpen' => \/ sent = <<>>
                      \/ /\ IsOpen /\ Through' = Through
                         /\ \A m \in Messages : wr'[m] = "failed" => wr[m] = "failed"
    PROVE  SentUpTo' /\ NoGap'
<1>1. SentUpTo'
  <2> SUFFICES ASSUME NEW k \in 1..Len(sent)
               PROVE  \E i \in 1..Len(accepted') : i <= Through' /\ sent[k] = accepted'[i]
    BY DEF SentUpTo
  <2>1. PICK i \in 1..Len(accepted) : i <= Through /\ sent[k] = accepted[i]
    BY DEF SentUpTo
  <2>2. i \in 1..Len(accepted') /\ i <= Through' /\ sent[k] = accepted'[i]
    BY <2>1
  <2> QED BY <2>2
<1>2. ASSUME IsOpen', sent # <<>>
      PROVE  /\ Through' > 0 /\ Last(sent') = accepted'[Through']
             /\ \A m \in Messages : wr'[m] # "failed"
  <2>1. /\ Through > 0 /\ Last(sent) = accepted[Through]
        /\ \A m \in Messages : wr'[m] # "failed"
        /\ Through' = Through
    BY <1>2 DEF NoGap
  <2>2. Through \in 1..Len(accepted)
    BY <2>1
  <2> QED BY <2>1, <2>2
<1> QED BY <1>1, <1>2 DEF NoGap

LEMMA OpensOnceStep == TypeOK /\ OpensOnce /\ [Next]_vars => OpensOnce'
<1> SUFFICES ASSUME TypeOK, OpensOnce, [Next]_vars PROVE OpensOnce'
  OBVIOUS
<1>1. CASE UNCHANGED vars
  BY <1>1 DEF vars, setupVars, history, OpensOnce, IsOpen
<1>2. CASE AppStep
  BY <1>2 DEF AppStep, Connect, Accept, Close, Write, setupVars, history, OpensOnce, IsOpen
<1>3. CASE IoStep
  BY <1>3 DEF IoStep, ConnectHandler, ReadyHandler, RunStrand, WriteCompleteHandler,
         ReadHandlerOk, ReadHandlerErr, CloseHandler, TimerExpire, TimerHandler,
         setupVars, history, OpensOnce, IsOpen
<1>4. CASE NetStep
  <2>1. CASE SetupOk \/ SetupDeclined \/ SetupFail
    BY <2>1 DEF SetupOk, SetupDeclined, SetupFail, SetupPending, history, OpensOnce, IsOpen
  <2>2. ASSUME NEW m \in Messages, WriteOk(m) \/ WriteFail(m) PROVE OpensOnce'
    BY <2>2 DEF WriteOk, WriteFail, setupVars, history, OpensOnce, IsOpen, Failed, Readable
  <2>3. CASE PeerReset \/ ReadOk \/ ReadClosed \/ ReadErr \/ ReadAbort \/ CloseSend
             \/ CloseAck \/ CloseAbort
    BY <2>3 DEF PeerReset, ReadOk, ReadClosed, ReadErr, ReadAbort, CloseSend, CloseAck,
           CloseAbort, setupVars, history, OpensOnce, IsOpen, Failed, Readable
  <2> QED BY <1>4, <2>1, <2>2, <2>3 DEF NetStep, Abandon
<1> QED BY <1>1, <1>2, <1>3, <1>4 DEF Next

\* Steps that leave the queue, the writes and what went out alone.
LEMMA SentFrame ==
    ASSUME OInv, UNCHANGED <<queue, wr, accepted, handed, sent>>,
           IsOpen' => IsOpen \/ sent = <<>>
    PROVE  SentUpTo' /\ NoGap'
<1>1. Through' = Through
  BY DEF Through
<1>2. /\ Through \in Nat /\ Through <= Len(accepted) /\ Len(accepted) \in Nat
  BY FrontIsDue DEF OInv, TypeOK
<1> QED BY <1>1, <1>2, SentKept DEF OInv, SentInv

LEMMA SentWrite ==
    ASSUME OInv, NEW m \in Messages, NEW b \in BOOLEAN, Write(m, b)
    PROVE  SentUpTo' /\ NoGap'
<1>1. /\ queue \in Seq(Messages) /\ accepted \in Seq(Messages)
      /\ wr \in [Messages -> {"idle", "posted", "writing", "ok", "failed", "over"}]
  BY DEF OInv, TypeOK
<1>2. /\ accepted' = Append(accepted, m) /\ queue' = Append(queue, m)
      /\ handed' = handed /\ sent' = sent /\ ws' = ws
  BY DEF Write
<1>3. /\ Through \in Nat /\ Through <= Len(accepted) /\ Len(accepted) \in Nat
      /\ \A i \in 1..Len(accepted) : i \in 1..Len(accepted') /\ accepted'[i] = accepted[i]
  <2>1. /\ Through \in Nat /\ Through <= Len(accepted)
    BY FrontIsDue DEF OInv
  <2> QED BY <1>1, <1>2, <2>1
<1>4. /\ Through' = Through
      /\ IsOpen => \A n \in Messages : wr'[n] = "failed" => wr[n] = "failed"
  <2>1. CASE queue = <<>>
    <3>1. queue' # <<>> /\ Head(queue') = m
      BY <1>2, <2>1
    <3>2. /\ wr'[m] = "ok" => wr[m] = "ok"
          /\ IsOpen => \A n \in Messages : wr'[n] = "failed" => wr[n] = "failed"
      BY <1>1 DEF Write, StartWrite
    <3>3. wr[m] # "ok"
      BY <2>1 DEF OInv, QueueInv, Serial, InFlight
    <3> QED BY <1>2, <2>1, <3>1, <3>2, <3>3 DEF Through
  <2>2. CASE queue # <<>>
    <3>1. queue' # <<>> /\ Head(queue') = Head(queue)
      BY <1>1, <1>2, <2>2, HeadTailAppend, AppendProperties
    <3>2. wr' = wr
      <4>1. Len(queue') = Len(queue) + 1 /\ Len(queue) \in Nat /\ Len(queue) > 0
        BY <1>1, <1>2, <2>2
      <4>2. ~SlotFree(queue')
        BY <4>1 DEF SlotFree
      <4> QED BY <4>2 DEF Write
    <3> QED BY <1>2, <2>2, <3>1, <3>2 DEF Through
  <2> QED BY <2>1, <2>2
<1>5. IsOpen' <=> IsOpen
  BY <1>2 DEF IsOpen
<1> QED BY <1>2, <1>3, <1>4, <1>5, SentKept DEF OInv, SentInv

LEMMA SentRunStrand ==
    ASSUME OInv, RunStrand
    PROVE  SentUpTo' /\ NoGap'
<1>1. UNCHANGED <<queue, accepted, handed, sent, ws>>
  BY DEF RunStrand, history
<1>2. /\ wr \in [Messages -> {"idle", "posted", "writing", "ok", "failed", "over"}]
      /\ queue # <<>> => Head(queue) \in Messages
      /\ Len(accepted) \in Nat
  BY DEF OInv, TypeOK
<1>3. \/ wr' = wr
      \/ \E m \in Messages : wr[m] = "posted" /\ wr' = [wr EXCEPT ![m] = StartWrite(m)]
  <2>1. strand # <<>> => 1 \in 1..Len(strand) /\ Head(strand) = strand[1]
    BY DEF OInv, TypeOK
  <2> QED BY <2>1 DEF RunStrand, OInv, QueueInv, StrandPosted
<1>4. /\ \A n \in Messages : wr'[n] = "ok" <=> wr[n] = "ok"
      /\ IsOpen => \A n \in Messages : wr'[n] = "failed" => wr[n] = "failed"
  BY <1>2, <1>3 DEF StartWrite
<1>5. Through' = Through
  BY <1>1, <1>2, <1>4 DEF Through
<1>6. IsOpen' <=> IsOpen
  BY <1>1 DEF IsOpen
<1>7. Through \in Nat /\ Through <= Len(accepted)
  BY FrontIsDue DEF OInv
<1> QED BY <1>1, <1>2, <1>4, <1>5, <1>6, <1>7, SentKept DEF OInv, SentInv

\* The completion handler: what it hands back, and how far Through moves.
LEMMA CompleteHandsBack ==
    ASSUME OInv, NEW m \in Messages, WriteCompleteHandler(m)
    PROVE  /\ queue # <<>> /\ m = Head(queue)
           /\ UNCHANGED <<accepted, sent, ws>>
           /\ Len(handed') \in {Len(handed) + 1, Len(accepted)}
           /\ handed' = SubSeq(accepted, 1, Len(handed'))
           /\ Len(handed') >= Len(handed) + 1
           /\ IsOpen => Through' = Len(handed) + 1
           /\ Through' \in Nat /\ Through' >= Len(handed')
<1>1. queue # <<>> /\ m = Head(queue) /\ UNCHANGED <<accepted, sent, ws>>
  BY DEF WriteCompleteHandler, OInv, QueueInv, Serial, InFlight
<1>2. TypeOK' /\ QueueInv'
  <2>1. IoStep
    BY DEF IoStep
  <2>2. TypeOK'
    BY <2>1, TypeIo DEF OInv
  <2>3. QueueInv'
    BY QueueComplete DEF OInv
  <2> QED BY <2>2, <2>3
<1>3. /\ queue \in Seq(Messages) /\ handed \in Seq(Messages) /\ accepted \in Seq(Messages)
      /\ queue' \in Seq(Messages) /\ handed' \in Seq(Messages)
      /\ accepted = handed' \o queue'
      /\ wr \in [Messages -> {"idle", "posted", "writing", "ok", "failed", "over"}]
  BY <1>1, <1>2 DEF OInv, TypeOK, QueueInv
<1>4. handed' = SubSeq(accepted, 1, Len(handed'))
  <2>1. \A s, t \in Seq(Messages) : s = SubSeq(s \o t, 1, Len(s))
    <3> SUFFICES ASSUME NEW s \in Seq(Messages), NEW t \in Seq(Messages)
                 PROVE  s = SubSeq(s \o t, 1, Len(s))
      OBVIOUS
    <3>1. /\ s \o t \in Seq(Messages) /\ Len(s \o t) = Len(s) + Len(t)
          /\ \A i \in 1..Len(s) : (s \o t)[i] = s[i]
          /\ Len(s) \in Nat /\ Len(t) \in Nat
      BY ConcatProperties, LenProperties
    <3>2. CASE s = <<>>
      BY <3>1, <3>2
    <3>3. CASE s # <<>>
      <4>1. Len(s) > 0 /\ Len(s) <= Len(s \o t)
        BY <3>1, <3>3, EmptySeq
      <4>2. /\ SubSeq(s \o t, 1, Len(s)) \in Seq(Messages)
            /\ Len(SubSeq(s \o t, 1, Len(s))) = Len(s)
            /\ \A i \in 1..Len(s) : SubSeq(s \o t, 1, Len(s))[i] = (s \o t)[i]
        BY <3>1, <4>1
      <4> QED BY <3>1, <4>2, SeqEqual
    <3> QED BY <3>2, <3>3
  <2> QED BY <1>3, <2>1
<1>5. Len(accepted) = Len(handed') + Len(queue') /\ Len(accepted) = Len(handed) + Len(queue)
  <2>1. Len(accepted) = Len(handed') + Len(queue')
    BY <1>3, ConcatProperties
  <2>2. Len(accepted) = Len(handed) + Len(queue)
    BY FrontIsDue DEF OInv
  <2> QED BY <2>1, <2>2
<1>6. /\ Len(queue) \in Nat /\ Len(handed) \in Nat /\ Len(queue') \in Nat /\ Len(handed') \in Nat
      /\ Len(queue) > 0 /\ Len(Tail(queue)) = Len(queue) - 1 /\ Tail(queue) \in Seq(Messages)
  BY <1>1, <1>3
<1>7. CASE Tail(queue) # <<>> /\ IsOpen
  <2>1. queue' = Tail(queue) /\ wr' = NextWrite([wr EXCEPT ![m] = "over"], Tail(queue))
    BY <1>1, <1>7 DEF WriteCompleteHandler
  <2>2. Len(handed') = Len(handed) + 1
    BY <1>5, <1>6, <2>1
  <2>3. Head(queue') \in Messages
    BY <1>6, <1>7, <2>1
  <2>4. wr'[Head(queue')] # "ok"
    BY <1>3, <2>1, <2>3 DEF NextWrite, StartWrite
  <2>5. Through' = Len(handed')
    BY <2>4 DEF Through
  <2> QED BY <1>1, <1>4, <1>6, <2>2, <2>5
<1>8. CASE ~(Tail(queue) # <<>> /\ IsOpen)
  <2>1. queue' = <<>>
    BY <1>1, <1>8 DEF WriteCompleteHandler
  <2>2. Len(handed') = Len(accepted)
    BY <1>5, <1>6, <2>1
  <2>3. Through' = Len(handed')
    BY <2>1 DEF Through
  <2>4. IsOpen => Len(handed') = Len(handed) + 1
    <3>1. ASSUME IsOpen PROVE Len(queue) = 1
      <4>1. Tail(queue) = <<>>
        BY <1>8, <3>1, Zenon
      <4>2. Len(<<>>) = 0
        OBVIOUS
      <4>3. Len(Tail(queue)) = 0
        BY <4>1, <4>2, Zenon
      <4>4. \A a, b : a \in Nat /\ b = a - 1 /\ b = 0 => a = 1
        OBVIOUS
      <4> QED BY <1>6, <4>3, <4>4
    <3>2. Len(queue) = 1 => Len(handed') = Len(handed) + 1
      BY <1>5, <1>6, <2>2
    <3> QED BY <3>1, <3>2, Zenon
  <2> QED BY <1>1, <1>4, <1>5, <1>6, <2>2, <2>3, <2>4
<1> QED BY <1>7, <1>8

LEMMA SentComplete ==
    ASSUME OInv, NEW m \in Messages, WriteCompleteHandler(m)
    PROVE  SentUpTo' /\ NoGap'
<1>1. /\ queue # <<>> /\ m = Head(queue)
      /\ UNCHANGED <<accepted, sent, ws>>
      /\ Len(handed') >= Len(handed) + 1
      /\ IsOpen => Through' = Len(handed) + 1
      /\ Through' \in Nat /\ Through' >= Len(handed')
      /\ Len(handed') \in {Len(handed) + 1, Len(accepted)}
  BY CompleteHandsBack
<1>2. /\ Through \in Nat /\ Through <= Len(accepted) /\ Len(accepted) \in Nat
      /\ Len(handed) \in Nat
  BY FrontIsDue DEF OInv, TypeOK
<1>3. /\ Through = Len(handed) + 1 \/ Through = Len(handed)
      /\ wr[m] = "ok" => Through = Len(handed) + 1
  BY <1>1 DEF Through
<1>4. Through' >= Through
  BY <1>1, <1>2, <1>3
<1>5. ASSUME IsOpen', sent # <<>>
      PROVE  /\ IsOpen /\ Through' = Through
             /\ \A n \in Messages : wr'[n] = "failed" => wr[n] = "failed"
  <2>1. IsOpen
    BY <1>1, <1>5 DEF IsOpen
  <2>2. wr[m] = "ok"
    BY <1>5, <2>1 DEF OInv, SentInv, NoGap, WriteCompleteHandler
  <2>3. \A n \in Messages : wr'[n] = "failed" => wr[n] = "failed"
    <3>1. \/ wr' = [wr EXCEPT ![m] = "over"]
          \/ wr' = [[wr EXCEPT ![m] = "over"] EXCEPT ![Head(Tail(queue))] = "writing"]
      BY <2>1 DEF WriteCompleteHandler, NextWrite, StartWrite
    <3> QED BY <3>1 DEF OInv, TypeOK
  <2> QED BY <1>1, <1>3, <2>1, <2>2, <2>3
<1> QED BY <1>1, <1>2, <1>4, <1>5, SentKept DEF OInv, SentInv

\* A frame goes out: that of the oldest message not handed back.
LEMMA SentWriteOk ==
    ASSUME OInv, NEW m \in Messages, WriteOk(m)
    PROVE  /\ queue # <<>> /\ m = Head(queue) /\ Through = Len(handed)
           /\ SentUpTo' /\ NoGap'
<1>1. /\ queue # <<>> /\ m = Head(queue)
      /\ \A n \in Messages : wr[n] # "failed"
      /\ IsOpen /\ UNCHANGED <<accepted, handed, queue, ws>>
      /\ wr' = [wr EXCEPT ![m] = "ok"] /\ sent' = Append(sent, m)
      /\ wr[m] = "writing"
  BY DEF WriteOk, OInv, QueueInv, Serial, InFlight
<1>2. /\ sent \in Seq(Messages) /\ Len(sent) \in Nat
      /\ wr \in [Messages -> {"idle", "posted", "writing", "ok", "failed", "over"}]
  BY DEF OInv, TypeOK
<1>3. Through = Len(handed)
  BY <1>1 DEF Through
<1>4. Through' = Len(handed) + 1
  BY <1>1, <1>2 DEF Through
<1>5. /\ Len(handed) \in Nat /\ Len(handed) + 1 \in 1..Len(accepted)
      /\ accepted[Len(handed) + 1] = m
  BY <1>1, FrontIsDue DEF OInv
<1>6. /\ Len(sent') = Len(sent) + 1 /\ sent'[Len(sent) + 1] = m
      /\ \A k \in 1..Len(sent) : sent'[k] = sent[k]
  BY <1>1, <1>2
<1>7. SentUpTo'
  <2> SUFFICES ASSUME NEW k \in 1..Len(sent')
               PROVE  \E i \in 1..Len(accepted) : i <= Len(handed) + 1 /\ sent'[k] = accepted[i]
    BY <1>1, <1>4 DEF SentUpTo
  <2>1. CASE k \in 1..Len(sent)
    <3>1. PICK i \in 1..Len(accepted) : i <= Through /\ sent[k] = accepted[i]
      BY <2>1 DEF OInv, SentInv, SentUpTo
    <3> QED BY <1>3, <1>5, <1>6, <2>1, <3>1
  <2>2. CASE k = Len(sent) + 1
    BY <1>5, <1>6, <2>2
  <2> QED BY <1>2, <1>6, <2>1, <2>2
<1>8. NoGap'
  <2>1. Through' > 0
    BY <1>4, <1>5
  <2>2. Last(sent') = accepted'[Through']
    BY <1>1, <1>4, <1>5, <1>6 DEF Last
  <2>3. \A n \in Messages : wr'[n] # "failed"
    BY <1>1, <1>2
  <2> QED BY <2>1, <2>2, <2>3 DEF NoGap
<1> QED BY <1>1, <1>3, <1>7, <1>8

LEMMA SentStep == OInv /\ [Next]_vars => SentInv'
<1> SUFFICES ASSUME OInv, [Next]_vars PROVE SentUpTo' /\ NoGap'
  BY OpensOnceStep DEF OInv, SentInv
<1>1. CASE /\ UNCHANGED <<queue, wr, accepted, handed, sent>>
           /\ ws' = ws \/ ws' # "open"
  BY <1>1, SentFrame DEF IsOpen
<1>2. CASE UNCHANGED vars
  BY <1>1, <1>2 DEF vars, writeVars, history
<1>3. CASE AppStep
  <2>1. CASE (\E r \in BOOLEAN : Connect(r)) \/ Accept \/ Close
    BY <1>1, <2>1 DEF Connect, Accept, Close, writeVars, history
  <2> QED BY <1>3, <2>1, SentWrite DEF AppStep
<1>4. CASE IoStep
  <2>1. CASE ConnectHandler \/ ReadyHandler("handshake") \/ ReadyHandler("accept")
             \/ ReadHandlerOk \/ CloseHandler \/ TimerExpire \/ TimerHandler
    BY <1>1, <2>1 DEF ConnectHandler, ReadyHandler, ReadHandlerOk, CloseHandler,
                      TimerExpire, TimerHandler, writeVars, history
  <2>2. CASE ReadHandlerErr
    BY <1>1, <2>2 DEF ReadHandlerErr, OInv
  <2> QED BY <1>4, <2>1, <2>2, SentRunStrand, SentComplete DEF IoStep
<1>5. CASE NetStep
  <2>1. ASSUME NEW m \in Messages, WriteFail(m) PROVE SentUpTo' /\ NoGap'
    <3>1. /\ UNCHANGED <<queue, accepted, handed, sent>>
          /\ wr' = [wr EXCEPT ![m] = "failed"] /\ wr[m] = "writing"
          /\ ws' # "open"
      BY <2>1 DEF WriteFail, Failed, Readable, IsOpen, history
    <3>2. Through' = Through
      BY <3>1 DEF Through, OInv, TypeOK
    <3>3. Through \in Nat /\ Through <= Len(accepted) /\ Len(accepted) \in Nat
      BY FrontIsDue DEF OInv, TypeOK
    <3> QED BY <3>1, <3>2, <3>3, SentKept DEF OInv, SentInv, IsOpen
  <2>2. CASE SetupOk
    <3>1. UNCHANGED <<queue, wr, accepted, handed, sent>>
      BY <2>2 DEF SetupOk, writeVars, history
    <3>2. IsOpen' => IsOpen \/ sent = <<>>
      BY <2>2 DEF SetupOk, SetupPending, OInv, SentInv, OpensOnce, IsOpen
    <3> QED BY <3>1, <3>2, SentFrame
  <2>3. CASE PeerReset \/ SetupDeclined \/ SetupFail \/ ReadOk \/ ReadClosed \/ ReadErr
             \/ ReadAbort \/ CloseSend \/ CloseAck \/ CloseAbort
    <3>1. UNCHANGED <<queue, wr, accepted, handed, sent>>
      BY <2>3 DEF PeerReset, SetupDeclined, SetupFail, ReadOk, ReadClosed, ReadErr,
             ReadAbort, CloseSend, CloseAck, CloseAbort, writeVars, history
    <3>2. ws' = ws \/ ws' # "open"
      BY <2>3 DEF PeerReset, SetupDeclined, SetupFail, ReadOk, ReadClosed, ReadErr,
             ReadAbort, CloseSend, CloseAck, CloseAbort, Failed, Readable
    <3> QED BY <1>1, <3>1, <3>2
  <2> QED BY <1>5, <2>1, <2>2, <2>3, SentWriteOk DEF NetStep, Abandon
<1> QED BY <1>2, <1>3, <1>4, <1>5 DEF Next

\* While nothing is stale the invariants of the queue are about disjoint halves
\* of accepted, in which no message occurs twice.
LEMMA AcceptedOnce ==
    ASSUME OInv
    PROVE  RepeatsOnly(accepted, {})
<1>1. handed \in Seq(Messages) /\ queue \in Seq(Messages)
  BY DEF OInv, TypeOK
<1>2. RepeatsOnly(handed, {}) /\ RepeatsOnly(queue, {}) /\ ToSet(handed) \cap ToSet(queue) = {}
  BY DEF OInv, StaleInv, Places
<1>3. RepeatsOnly(handed \o queue, {})
  BY <1>1, <1>2, RepeatsConcat
<1> QED BY <1>3 DEF OInv, QueueInv

\* Every step of the session is a step of the outbox, or none.
LEMMA OutboxStep == OInv /\ [Next]_vars => [Promise!Next]_Promise!vars
<1> SUFFICES ASSUME OInv, [Next]_vars PROVE [Promise!Next]_Promise!vars
  OBVIOUS
<1>1. CASE UNCHANGED <<accepted, handed, sent>>
  BY <1>1 DEF Promise!vars
<1>2. ASSUME NEW m \in Messages, NEW b \in BOOLEAN, Write(m, b)
      PROVE  Promise!Next
  BY <1>2 DEF Write, Promise!Next, Promise!Take, ToSet, Promise!ToSet
<1>3. ASSUME NEW m \in Messages, WriteOk(m) PROVE Promise!Next
  <2>1. /\ queue # <<>> /\ m = Head(queue) /\ Through = Len(handed)
        /\ Len(handed) + 1 \in 1..Len(accepted) /\ accepted[Len(handed) + 1] = m
        /\ Len(handed) \in Nat /\ Len(accepted) \in Nat
    BY <1>3, SentWriteOk, FrontIsDue DEF OInv, TypeOK
  <2>2. sent' = Append(sent, m) /\ UNCHANGED <<accepted, handed>> /\ IsOpen
    BY <1>3 DEF WriteOk
  <2>3. m \notin ToSet(sent)
    <3> SUFFICES ASSUME m \in ToSet(sent) PROVE FALSE
      OBVIOUS
    <3>0. sent \in Seq(Messages)
      BY DEF OInv, TypeOK
    <3>1. PICK k \in 1..Len(sent) : m = sent[k]
      BY <3>0 DEF ToSet
    <3>2. PICK i \in 1..Len(accepted) : i <= Len(handed) /\ m = accepted[i]
      BY <2>1, <3>1 DEF OInv, SentInv, SentUpTo
    <3>3. i # Len(handed) + 1
      BY <2>1, <3>2
    <3> QED BY <2>1, <3>2, <3>3, AcceptedOnce DEF RepeatsOnly
  <2>4. sent # <<>> => Last(sent) = accepted[Len(handed)]
    BY <2>1, <2>2 DEF OInv, SentInv, NoGap
  <2>5. Promise!Send
    BY <2>1, <2>2, <2>3, <2>4 DEF Promise!Send, Promise!Due, Promise!ToSet, ToSet,
       Promise!Last, Last
  <2> QED BY <2>5 DEF Promise!Next
<1>4. ASSUME NEW m \in Messages, WriteCompleteHandler(m) PROVE Promise!Next
  <2>1. /\ queue # <<>> /\ UNCHANGED <<accepted, sent>>
        /\ Len(handed') \in {Len(handed) + 1, Len(accepted)}
        /\ handed' = SubSeq(accepted, 1, Len(handed'))
    BY <1>4, CompleteHandsBack
  <2>2. Len(handed) < Len(accepted)
    <3>1. /\ Len(handed) \in Nat /\ Len(accepted) = Len(handed) + Len(queue)
          /\ Len(handed) + 1 \in 1..Len(accepted)
      BY <2>1, FrontIsDue DEF OInv
    <3>2. queue \in Seq(Messages)
      BY DEF OInv, TypeOK
    <3> QED BY <3>1, <3>2
  <2>3. Promise!HandBack
    BY <2>1, <2>2 DEF Promise!HandBack
  <2> QED BY <2>3 DEF Promise!Next
<1>5. CASE UNCHANGED vars
  BY <1>1, <1>5 DEF vars, history
<1>6. CASE AppStep
  <2>1. CASE (\E r \in BOOLEAN : Connect(r)) \/ Accept \/ Close
    BY <1>1, <2>1 DEF Connect, Accept, Close, history
  <2> QED BY <1>2, <1>6, <2>1 DEF AppStep
<1>7. CASE IoStep
  <2>1. CASE ConnectHandler \/ ReadyHandler("handshake") \/ ReadyHandler("accept")
             \/ RunStrand \/ ReadHandlerOk \/ CloseHandler \/ TimerExpire \/ TimerHandler
    BY <1>1, <2>1 DEF ConnectHandler, ReadyHandler, RunStrand, ReadHandlerOk,
                      CloseHandler, TimerExpire, TimerHandler, history
  <2>2. CASE ReadHandlerErr
    BY <1>1, <2>2 DEF ReadHandlerErr, OInv
  <2> QED BY <1>4, <1>7, <2>1, <2>2 DEF IoStep
<1>8. CASE NetStep
  <2>1. CASE PeerReset \/ SetupOk \/ SetupDeclined \/ Abandon \/ ReadOk \/ ReadClosed
             \/ CloseSend \/ CloseAck
    BY <1>1, <2>1 DEF PeerReset, SetupOk, SetupDeclined, Abandon, SetupFail, WriteFail,
           ReadOk, ReadClosed, ReadErr, ReadAbort, CloseSend, CloseAck, CloseAbort, history
  <2> QED BY <1>3, <1>8, <2>1 DEF NetStep
<1> QED BY <1>5, <1>6, <1>7, <1>8 DEF Next

\* As the hosts ship it, without on_write_done: a session hands every message
\* back once and in order, and puts a contiguous block of them on the wire,
\* each before it is handed back; for any messages, closes and peers.
THEOREM SessionKeepsPromise == ASSUME ~HasWriteDone PROVE Spec => ImplementsOutbox
<1>1. Init => SentInv /\ Promise!Init
  BY DEF Init, SentInv, SentUpTo, OpensOnce, NoGap, IsOpen, Promise!Init
<1>2. IInv /\ StaleInv /\ NeverStale /\ SentInv <=> OInv
  BY DEF IInv, NeverStale, OInv
<1>3. Spec => []SentInv
  BY <1>1, <1>2, SentStep, IInvHolds, StaleInvHolds, NeverStaleHolds, PTL DEF Spec
<1>4. Spec => []OInv
  BY <1>2, <1>3, IInvHolds, StaleInvHolds, NeverStaleHolds, PTL
<1> QED BY <1>1, <1>4, OutboxStep, PTL DEF Spec, ImplementsOutbox, Promise!Spec

-----------------------------------------------------------------------------
(* The owners of a client session, as they ship: without an on_write_done  *)
(* handler.  A host makes only steps its session allows, so what is proved *)
(* of a session holds under it.                                            *)

\* What the session is known to keep under any owner.
SInv == IInv /\ QueueHasWriter /\ NeverStale

\* A session without on_write_done_ never flushes over a write: no message is
\* stale, and what was accepted is handed back or waiting.
LEMMA ShippedQueue ==
    ASSUME ~HasWriteDone, SInv
    PROVE  /\ TypeOK /\ Serial /\ QueueHasWriter
           /\ accepted = handed \o queue
    BY DEF SInv, IInv, NeverStale, QueueInv

\* Only a write() extends accepted.
LEMMA AcceptedFrame ==
    ASSUME IoStep \/ NetStep
    PROVE  accepted' = accepted
<1>1. CASE IoStep
    BY <1>1 DEF IoStep, ConnectHandler, ReadyHandler, RunStrand, WriteCompleteHandler,
       ReadHandlerOk, ReadHandlerErr, CloseHandler, TimerExpire, TimerHandler, history
<1>2. CASE NetStep
    BY <1>2 DEF NetStep, Abandon, PeerReset, SetupOk, SetupDeclined, SetupFail, WriteOk,
       WriteFail, ReadOk, ReadClosed, ReadErr, ReadAbort, CloseSend, CloseAck,
       CloseAbort, history
<1> QED BY <1>1, <1>2

-----------------------------------------------------------------------------
(* The life of the object.                                                 *)

\* An o::client that looks a name up has its session already, so only one that
\* looks nothing up can crash; a destructor that returned left nothing.
LifeInv ==
    /\ resolved \in BOOLEAN
    /\ host = "new" => lookup = "none"
    /\ early /\ lookup # "none" => made
    /\ host = "crashed" => early /\ ~made /\ lookup = "none"
    /\ host = "gone" => /\ lookup \in {"none", "over"} /\ handed = accepted
                        /\ \A m \in Messages : ~InFlight(m)

\* What an owner does to its session.
LEMMA ConnectToIsNext ==
    ASSUME NEW endpoints \in BOOLEAN, ConnectTo(endpoints)
    PROVE  Next
    BY DEF ConnectTo, Next, AppStep

\* ~session() without on_write_done_ leaves the queue as it is.
LEMMA JoinKeepsSession ==
    ASSUME ~HasWriteDone, JoinReturns
    PROVE  UNCHANGED vars
    BY DEF JoinReturns, DestroySession, vars, setupVars, writeVars, closeVars, history

LEMMA HostStepIsSessionStep ==
    ASSUME ~HasWriteDone, LifeInv, [HostNext]_allVars
    PROVE  [Next]_vars
<1>1. ASSUME NEW address \in {"ip", "name", "none"}, Construct(address)
      PROVE  [Next]_vars
    BY <1>1, ConnectToIsNext DEF Construct
<1>2. CASE LookupDone \/ AssignSession
    BY <1>2 DEF LookupDone, AssignSession
<1>3. CASE ConnectSession
    BY <1>3, ConnectToIsNext DEF ConnectSession, ConnectAnyway, LifeInv
<1>4. CASE Destruct
    BY <1>4 DEF Destruct, CloseIfMade, Next, AppStep
<1>5. CASE JoinReturns
    BY <1>5, JoinKeepsSession
<1>6. ASSUME NEW m \in Messages, Send(m) PROVE [Next]_vars
    BY <1>6 DEF Send, Next, AppStep
<1>7. CASE Beneath(IoStep \/ NetStep)
    BY <1>7 DEF Beneath, Next
<1>8. CASE UNCHANGED allVars
    BY <1>8 DEF allVars
<1> QED BY <1>1, <1>2, <1>3, <1>4, <1>5, <1>6, <1>7, <1>8 DEF HostNext, Owner

\* The io_context has run out of work: no message waits.
LEMMA OutOfWorkIsDrained ==
    ASSUME ~HasWriteDone, SInv, OutOfWork
    PROVE  /\ lookup \in {"none", "over"} /\ queue = <<>> /\ handed = accepted
           /\ \A m \in Messages : ~InFlight(m)
<1>1. lookup \in {"none", "over"} /\ \A m \in Messages : ~InFlight(m)
    BY DEF OutOfWork, Quiet
<1>2. queue = <<>>
    BY <1>1 DEF SInv, QueueHasWriter
<1>3. handed \in Seq(Messages) /\ accepted = handed \o queue
    BY ShippedQueue DEF TypeOK
<1> QED BY <1>1, <1>2, <1>3, ConcatEmptySeq

LEMMA LifeStep ==
    ASSUME ~HasWriteDone, SInv, LifeInv, [HostNext]_allVars
    PROVE  LifeInv'
<1>1. ASSUME NEW address \in {"ip", "name", "none"}, Construct(address)
      PROVE  LifeInv'
    <2>1. host' = "alive" /\ resolved' \in BOOLEAN
        BY <1>1 DEF Construct
    <2>2. early' /\ lookup' # "none" => made'
        BY <1>1 DEF Construct, LifeInv
    <2> QED BY <2>1, <2>2 DEF LifeInv
<1>2. CASE LookupDone
    BY <1>2 DEF LookupDone, LifeInv
<1>3. CASE AssignSession
    BY <1>3 DEF AssignSession, LifeInv
<1>4. CASE ConnectSession
    BY <1>4 DEF ConnectSession, LifeInv
<1>5. CASE Destruct
    BY <1>5 DEF Destruct, LifeInv
<1>6. CASE JoinReturns
    <2>1. /\ lookup \in {"none", "over"} /\ queue = <<>> /\ handed = accepted
          /\ \A m \in Messages : ~InFlight(m)
        BY <1>6, OutOfWorkIsDrained DEF JoinReturns
    <2>2. UNCHANGED vars
        BY <1>6, JoinKeepsSession
    <2>3. host' = "gone" /\ UNCHANGED <<early, made, lookup, resolved>>
        BY <1>6, <2>1 DEF JoinReturns, DestroySession
    <2>4. handed' = handed /\ accepted' = accepted /\ wr' = wr
        BY <2>2 DEF vars, writeVars, history
    <2>5. \A m \in Messages : ~InFlight(m)'
        BY <2>1, <2>4 DEF InFlight
    <2>6. early' /\ lookup' # "none" => made'
        <3>1. early' = early /\ made' = made /\ lookup' = lookup
            BY <2>3
        <3> QED BY <3>1, Zenon DEF LifeInv
    <2> QED BY <2>1, <2>3, <2>4, <2>5, <2>6 DEF LifeInv
<1>7. ASSUME NEW m \in Messages, Send(m) PROVE LifeInv'
    BY <1>7 DEF Send, LifeInv
<1>8. CASE Beneath(IoStep \/ NetStep)
    BY <1>8 DEF Beneath, hostVars, LifeInv
<1>9. CASE UNCHANGED allVars
    BY <1>9 DEF allVars, hostVars, vars, writeVars, history, LifeInv, InFlight
<1> QED BY <1>1, <1>2, <1>3, <1>4, <1>5, <1>6, <1>7, <1>8, <1>9 DEF HostNext, Owner

LEMMA LifeInit == HostInit => LifeInv
    BY DEF HostInit, LifeInv

\* A host drives its session only in ways the session's own specification knows,
\* from the constructor to the return of the destructor.
THEOREM HostRunsSession == ASSUME ~HasWriteDone PROVE HostSpec => Spec
<1> DEFINE I == SInv /\ LifeInv
<1>1. HostInit => Init /\ I
    <2>1. HostInit => Init /\ LifeInv
        BY LifeInit DEF HostInit
    <2>2. Init => IInv
        BY TypeInit, QueueInit DEF IInv
    <2>3. Init => QueueHasWriter /\ NeverStale
        BY DEF Init, QueueHasWriter, NeverStale
    <2> QED BY <2>1, <2>2, <2>3 DEF SInv
<1>2. I /\ [HostNext]_allVars => I' /\ [Next]_vars
    <2> SUFFICES ASSUME I, [HostNext]_allVars PROVE I' /\ [Next]_vars
        OBVIOUS
    <2>1. [Next]_vars
        BY HostStepIsSessionStep
    <2>2. IInv'
        BY <2>1, IInvStep DEF SInv
    <2>3. QueueHasWriter'
        BY <2>1, WriterStep DEF SInv, IInv
    <2>4. NeverStale'
        BY <2>1, NeverStaleStep DEF SInv
    <2> QED BY <2>1, <2>2, <2>3, <2>4, LifeStep DEF SInv
<1> HIDE DEF I
<1> QED BY <1>1, <1>2, PTL DEF HostSpec, Spec

LEMMA SessionKept == ASSUME ~HasWriteDone PROVE HostSpec => []SInv
<1>1. SInv <=> IInv /\ QueueHasWriter /\ NeverStale
    BY DEF SInv
<1> QED BY <1>1, HostRunsSession, IInvHolds, QueueIsDriven, NeverStaleHolds, PTL

\* When the destructor has returned, everything its session accepted has come
\* back, in order, and no write or lambda is left that would use it; and the
\* destructor itself never throws.  For any messages, closes, lookups and peers.
THEOREM HostLeavesNothing == ASSUME ~HasWriteDone PROVE HostSpec => []NothingOutlivesHost
<1>1. SInv /\ LifeInv => NothingOutlivesHost
    <2> SUFFICES ASSUME SInv, LifeInv PROVE NothingOutlivesHost
        OBVIOUS
    <2>1. accepted \in Seq(Messages)
        BY DEF SInv, IInv, TypeOK
    <2>2. ToSet(accepted) \subseteq Messages
        BY <2>1 DEF ToSet
    <2> QED BY <2>2 DEF LifeInv, NothingOutlivesHost
<1>2. SInv /\ LifeInv /\ [HostNext]_allVars => LifeInv'
    BY LifeStep
<1> QED BY <1>1, <1>2, LifeInit, SessionKept, PTL DEF HostSpec

-----------------------------------------------------------------------------
(* The kind of the frames.                                                 *)

\* Only accepted messages leave as text, and before holds all of those once the
\* frames have become binary; a host that never sends has no frames.
FrameInv ==
    /\ text \subseteq ToSet(accepted)
    /\ ~early => accepted = <<>>
    /\ early /\ setup = "over" => binary /\ text \subseteq before

\* A step of the object that sends nothing.
LEMMA FrameKept ==
    ASSUME FrameInv, UNCHANGED <<accepted, early, frameVars>>,
           setup' = setup \/ setup' = "connect"
    PROVE  FrameInv'
    BY DEF FrameInv, frameVars

LEMMA FrameSend ==
    ASSUME TypeOK, FrameInv, NEW m \in Messages, Send(m), UNCHANGED frameVars
    PROVE  FrameInv'
<1>1. CASE UNCHANGED vars
    BY <1>1, FrameKept DEF Send, vars, setupVars, history
<1>2. CASE Write(m, FALSE)
    <2>1. accepted \in Seq(Messages) /\ accepted' = Append(accepted, m)
        BY <1>2 DEF TypeOK, Write
    <2>2. ToSet(accepted') = ToSet(accepted) \cup {m}
        BY <2>1, ToSetAppend
    <2>3. early /\ early' /\ setup' = setup
        BY <1>2 DEF Send, Write, setupVars
    <2> QED BY <2>2, <2>3 DEF FrameInv, frameVars
<1> QED BY <1>1, <1>2 DEF Send

LEMMA FrameBeneath ==
    ASSUME ~HasWriteDone, SInv', FrameInv, Beneath(IoStep \/ NetStep)
    PROVE  FrameInv'
<1>1. accepted' = accepted /\ early' = early /\ OnReady
    BY AcceptedFrame DEF Beneath, hostVars
<1>2. text' \subseteq ToSet(accepted')
    <2>1. ASSUME NEW m \in Messages, wr'[m] = "writing" PROVE m \in ToSet(accepted')
        <3>1. InFlight(m)'
            BY <2>1 DEF InFlight
        <3>2. queue' # <<>> /\ m = Head(queue') /\ accepted' = handed' \o queue'
            BY <3>1 DEF SInv, IInv, NeverStale, QueueInv, Serial
        <3>3. handed' \in Seq(Messages) /\ queue' \in Seq(Messages)
            BY DEF SInv, IInv, TypeOK
        <3>4. m \in ToSet(queue')
            BY <3>2, <3>3, HeadAndTail
        <3> QED BY <3>2, <3>3, <3>4, ToSetConcat
    <2> QED BY <1>1, <2>1 DEF Beneath, FrameInv
<1>3. ASSUME early, setup' = "over" PROVE binary' /\ text' \subseteq before'
    <2>1. CASE setup = "over"
        <3>1. binary' = binary /\ before' = before
            BY <1>1, <2>1 DEF OnReady
        <3>2. binary /\ text \subseteq before
            BY <1>3, <2>1 DEF FrameInv
        <3>3. text' = text
            BY <3>2 DEF Beneath
        <3> QED BY <3>1, <3>2, <3>3
    <2>2. CASE setup # "over"
        BY <1>1, <1>2, <1>3, <2>2 DEF OnReady, SetsBinary
    <2> QED BY <2>1, <2>2
<1> QED BY <1>1, <1>2, <1>3 DEF FrameInv

LEMMA FrameStep ==
    ASSUME ~HasWriteDone, SInv, SInv', FrameInv, [HostNext]_allVars
    PROVE  FrameInv'
<1>1. ASSUME NEW address \in {"ip", "name", "none"}, Owner(Construct(address))
      PROVE  FrameInv'
    <2>1. accepted' = accepted /\ early' = early /\ (setup' = setup \/ setup' = "connect")
        BY <1>1 DEF Owner, Construct, ConnectTo, Connect, vars, setupVars, history
    <2> QED BY <1>1, <2>1, FrameKept DEF Owner
<1>2. CASE Owner(LookupDone) \/ Owner(AssignSession) \/ Owner(ConnectSession)
    <2>1. accepted' = accepted /\ early' = early /\ (setup' = setup \/ setup' = "connect")
        BY <1>2 DEF Owner, LookupDone, AssignSession, ConnectSession, ConnectAnyway,
                    ConnectTo, Connect, vars, setupVars, history
    <2> QED BY <1>2, <2>1, FrameKept DEF Owner
<1>3. CASE Owner(Destruct) \/ Owner(JoinReturns)
    <2>1. accepted' = accepted /\ early' = early /\ setup' = setup
        BY <1>3 DEF Owner, Destruct, CloseIfMade, Close, JoinReturns, vars, setupVars, history
    <2> QED BY <1>3, <2>1, FrameKept DEF Owner
<1>4. ASSUME NEW m \in Messages, Owner(Send(m)) PROVE FrameInv'
    BY <1>4, FrameSend DEF Owner, SInv, IInv
<1>5. CASE Beneath(IoStep \/ NetStep)
    BY <1>5, FrameBeneath
<1>6. CASE UNCHANGED allVars
    BY <1>6, FrameKept DEF allVars, hostVars, vars, setupVars, history
<1> QED BY <1>1, <1>2, <1>3, <1>4, <1>5, <1>6 DEF HostNext

\* What websocketclient_iiwa sends once its session is ready leaves in binary
\* frames; a message that left as text had been sent before.
THEOREM ReadyFramesAreBinary == ASSUME ~HasWriteDone PROVE HostSpec => []ReadySendsBinary
<1>1. HostInit => FrameInv
    BY DEF HostInit, Init, FrameInv
<1>2. SInv /\ SInv' /\ FrameInv /\ [HostNext]_allVars => FrameInv'
    BY FrameStep
<1>3. FrameInv => ReadySendsBinary
    <2>1. accepted = <<>> => ToSet(accepted) = {}
        BY DEF ToSet
    <2> QED BY <2>1 DEF FrameInv, ReadySendsBinary
<1> QED BY <1>1, <1>2, <1>3, SessionKept, PTL DEF HostSpec
=============================================================================
