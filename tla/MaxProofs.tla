----------------------------- MODULE MaxProofs -----------------------------
(***************************************************************************)
(* Theorems about the objects of Max: the port of a websocketserver object *)
(* is a port, for every width of int, every largest port and all numbers   *)
(* Max may set it to; an iiwa_move object that one thread calls sends what *)
(* was set last, for every number of fields and calls; what arrives of a   *)
(* max_message is what was pushed into it, for all atoms and any number.   *)
(***************************************************************************)
EXTENDS MaxAtoms, SequenceTheorems, WellFoundedInduction, TLAPS

-----------------------------------------------------------------------------
(* The port attribute.                                                     *)

\* The remainder, for a divisor that is not a number.
LEMMA Modulo ==
    ASSUME NEW n \in Int, NEW k \in Nat \ {0}
    PROVE  /\ n % k \in 0..(k - 1)
           /\ 0 <= n /\ n < k => n % k = n
OBVIOUS

\* atom::operator int() yields an int, and the number itself if it is one.
LEMMA NarrowIsInt ==
    ASSUME NEW n \in Int
    PROVE  /\ Narrow(n) \in Int /\ IsInt(Narrow(n))
           /\ IsInt(n) => Narrow(n) = n
<1>1. IntHalf \in Nat /\ 2 * IntHalf \in Nat \ {0} /\ n + IntHalf \in Int
    BY IntAssumption
<1> DEFINE r == (n + IntHalf) % (2 * IntHalf)
<1>2. /\ r \in 0..(2 * IntHalf - 1)
      /\ 0 <= n + IntHalf /\ n + IntHalf < 2 * IntHalf => r = n + IntHalf
    BY <1>1, Modulo
<1>3. Narrow(n) = r - IntHalf
    BY DEF Narrow
<1> HIDE DEF r
<1> QED BY <1>1, <1>2, <1>3 DEF IsInt

\* What handle_port_change leaves in the attribute: the handler tests the narrowed
\* number and returns the wide one, which the attribute narrows once more.
LEMMA RestrictedIsPort ==
    ASSUME NEW n \in Int
    PROVE  /\ Narrow(Restricted(n)) \in 1..PortMax
           /\ IsInt(n) => \A p \in 1..PortMax :
                              /\ n <= p => Narrow(Restricted(n)) <= p
                              /\ n >= p => Narrow(Restricted(n)) >= p
<1>1. /\ PortMax \in Nat /\ 1 <= PortMax /\ PortMax < IntHalf /\ IntHalf \in Nat
    BY ServerAssumption, IntAssumption
<1>2. Narrow(PortMax) = PortMax /\ Narrow(1) = 1
    BY <1>1, NarrowIsInt DEF IsInt
<1>3. Narrow(n) \in Int /\ (IsInt(n) => Narrow(n) = n)
    BY NarrowIsInt
<1>4. CASE Narrow(n) > PortMax
    <2>1. Restricted(n) = PortMax
        BY <1>4, <1>1, <1>3 DEF Restricted
    <2>2. Narrow(Restricted(n)) = PortMax
        BY <2>1, <1>2
    <2>3. IsInt(n) => n > PortMax
        BY <1>3, <1>4
    <2> QED BY <2>2, <2>3, <1>1
<1>5. CASE Narrow(n) < 1
    <2>1. Restricted(n) = 1
        BY <1>5, <1>1, <1>3 DEF Restricted
    <2> QED BY <2>1, <1>1, <1>2, <1>3, <1>5
<1>6. CASE ~(Narrow(n) > PortMax) /\ ~(Narrow(n) < 1)
    <2>1. Restricted(n) = n
        BY <1>6 DEF Restricted
    <2> QED BY <2>1, <1>1, <1>3, <1>6
<1> QED BY <1>4, <1>5, <1>6

ServerInv == wanted = <<>> \/ wanted \in {<<n>> : n \in Int}

\* Whatever the port attribute of websocketserver is set to, and however often, it
\* holds a port, and the closest one to a number that is an int.
THEOREM PortStaysPort == ServerSpec => []PortIsPort
<1> DEFINE IInv == ServerInv /\ PortIsPort
<1>1. ServerInit => IInv
    BY DEF ServerInit, ServerInv, PortIsPort
<1>2. IInv /\ [ServerNext]_serverVars => IInv'
    <2> SUFFICES ASSUME IInv, [ServerNext]_serverVars PROVE IInv'
        OBVIOUS
    <2>1. CASE UNCHANGED <<port, wanted>>
        BY <2>1 DEF ServerInv, PortIsPort
    <2>2. ASSUME NEW n \in Int, port' = Narrow(Restricted(n)), wanted' = <<n>>
          PROVE  IInv'
        <3>1. wanted'[1] = n /\ wanted' # <<>>
            BY <2>2
        <3>2. ServerInv'
            BY <2>2 DEF ServerInv
        <3>3. PortIsPort'
            BY <2>2, <3>1, RestrictedIsPort DEF PortIsPort
        <3> QED BY <3>2, <3>3
    <2>3. ASSUME NEW atom \in {Long(n) : n \in Longs} \cup {Symbol(s) : s \in Symbols}
                                  \cup {Other},
                 SetPort(atom)
          PROVE  IInv'
        <3>1. CASE atom.type = "long"
            <4>1. PICK n \in Longs : atom = Long(n)
                BY <2>3, <3>1 DEF Symbol, Other
            <4>2. n \in Int /\ atom.value = n
                BY <4>1, ServerAssumption DEF Long
            <4> QED BY <2>2, <2>3, <3>1, <4>2 DEF SetPort
        <3>2. CASE atom.type # "long"
            BY <2>1, <2>3, <3>2 DEF SetPort
        <3> QED BY <3>1, <3>2
    <2>4. CASE \/ \E atom \in {Long(n) : n \in Longs} \cup {Symbol(s) : s \in Symbols}
                                  \cup {Other} : SetAddress(atom)
               \/ \E args \in 0..2 : Construct(args)
               \/ WorkerEnters \/ WorkerLeaves \/ Destroy \/ Joined
        BY <2>1, <2>4
            DEF SetAddress, Construct, WorkerEnters, WorkerLeaves, Destroy, Joined, attributes
    <2>5. CASE UNCHANGED serverVars
        BY <2>1, <2>5 DEF serverVars, attributes
    <2> QED BY <2>3, <2>4, <2>5 DEF ServerNext
<1>3. IInv => PortIsPort
    OBVIOUS
<1> QED BY <1>1, <1>2, <1>3, PTL DEF ServerSpec

-----------------------------------------------------------------------------
(* What an iiwa_move object sends, if one thread of Max calls it.          *)

\* The groups, once every call has returned.
LastJoints == IF latest.joints = 0 THEN <<>> ELSE Repeated(latest.joints)
LastParams == Repeated(latest.params)
LastFilter == IF latest.filter > latest.params THEN Repeated(latest.filter) ELSE Cleared

Busy(t, op) == running[t].op = op /\ running[t].step > 0

\* How far the running call has come with the fields: those below its step are set.
UpTo(k, c, rest) == [i \in Fields |-> IF i < k THEN c ELSE rest]
Filled(t, rest) == UpTo(running[t].step, running[t].call, rest)

JointsInv(t) ==
    joints = IF Busy(t, "joints")
             THEN [i \in 1..(running[t].step - 1) |-> running[t].call] ELSE LastJoints
FilterInv(t) ==
    filter = IF Busy(t, "filter") THEN Filled(t, 0)
             ELSE IF Busy(t, "params") THEN Cleared ELSE LastFilter
ParamsInv(t) ==
    params = IF Busy(t, "params") THEN Filled(t, latest.params) ELSE LastParams

\* Calls are numbered as they come, and one that cannot be carried out makes no step.
CallInv(t) ==
    /\ \A g \in Groups : latest[g] <= calls
    /\ running[t].op \in Groups =>
           running[t].call <= calls /\ \A g \in Groups : latest[g] < running[t].call
    /\ running[t].op \in Groups /\ ~running[t].enough => running[t].step = 0

\* Nothing changes between the size of the message and its bytes.
SendInv(t) == running[t].op = "send" =>
    running[t].step \in {0, 1} /\ (running[t].step = 1 => running[t].bytes = ByteSize)

ByteSizes == Nat \X (SUBSET Fields) \X (SUBSET Fields)
Runs == [op : Groups \cup {"none", "send"}, step : 0..Size, call : Nat,
         enough : BOOLEAN, bytes : {0} \cup ByteSizes]

MovementType ==
    /\ joints \in Seq(Nat) /\ filter \in [Fields -> Nat] /\ params \in [Fields -> Nat]
    /\ running \in [Threads -> Runs] /\ calls \in Nat /\ latest \in [Groups -> Nat]

MInv(t) == MovementType /\ JointsInv(t) /\ FilterInv(t) /\ ParamsInv(t)
           /\ CallInv(t) /\ SendInv(t)

LEMMA SizeIsNat == Size \in Nat /\ Size > 0 /\ Size \in 0..Size
    BY MovementAssumption

LEMMA IdleRuns == Idle \in Runs
    BY SizeIsNat DEF Idle, Runs

\* What a thread runs, read from its record.
LEMMA RunFields ==
    ASSUME MovementType, NEW t \in Threads
    PROVE  /\ running[t] \in Runs
           /\ running[t].op \in Groups \cup {"none", "send"}
           /\ running[t].step \in 0..Size /\ running[t].call \in Nat
           /\ running[t].enough \in BOOLEAN
    BY DEF MovementType, Runs

\* A protobuf call of a handler: the next follows, or the handler returns.
LEMMA AdvanceMoves ==
    ASSUME MovementType, NEW t \in Threads, running[t].op \in Groups, Advance(t, Size)
    PROVE  /\ running' \in [Threads -> Runs] /\ latest' \in [Groups -> Nat]
           /\ running[t].step # Size =>
                  /\ latest' = latest
                  /\ running'[t].op = running[t].op /\ running'[t].call = running[t].call
                  /\ running'[t].step = running[t].step + 1
                  /\ running'[t].enough = running[t].enough
           /\ running[t].step = Size =>
                  /\ latest' = [latest EXCEPT ![running[t].op] = running[t].call]
                  /\ running'[t] = Idle
<1>1. /\ running \in [Threads -> Runs] /\ latest \in [Groups -> Nat]
      /\ running[t] \in Runs /\ running[t].step \in 0..Size /\ running[t].call \in Nat
    BY RunFields DEF MovementType
<1>2. CASE running[t].step = Size
    <2>1. running' = [running EXCEPT ![t] = Idle]
        BY <1>2 DEF Advance
    <2>2. latest' = [latest EXCEPT ![running[t].op] = running[t].call]
        BY <1>2 DEF Advance
    <2> QED BY <1>1, <1>2, <2>1, <2>2, IdleRuns
<1>3. CASE running[t].step # Size
    <2> DEFINE r == [running[t] EXCEPT !.step = running[t].step + 1]
    <2>1. running' = [running EXCEPT ![t] = r] /\ latest' = latest
        BY <1>3 DEF Advance
    <2>2. running[t].step + 1 \in 0..Size
        BY <1>1, <1>3, SizeIsNat
    <2>3. /\ r \in Runs /\ r.op = running[t].op /\ r.call = running[t].call
          /\ r.step = running[t].step + 1 /\ r.enough = running[t].enough
        BY <1>1, <2>2 DEF Runs
    <2> HIDE DEF r
    <2>4. running'[t] = r /\ running' \in [Threads -> Runs]
        BY <1>1, <2>1, <2>3
    <2> QED BY <1>1, <1>3, <2>1, <2>3, <2>4
<1> QED BY <1>2, <1>3

\* The numbers of the calls, after a protobuf call of a handler.
LEMMA AdvanceNumbers ==
    ASSUME MovementType, NEW t \in Threads, CallInv(t), running[t].op \in Groups,
           running[t].enough, Advance(t, Size), calls' = calls
    PROVE  CallInv(t)' /\ SendInv(t)'
<1>1. /\ running[t].step \in 0..Size /\ running[t].call \in Nat /\ calls \in Nat
      /\ latest \in [Groups -> Nat]
    BY RunFields DEF MovementType
<1>2. CASE running[t].step = Size
    <2>1. /\ latest' = [latest EXCEPT ![running[t].op] = running[t].call]
          /\ running'[t] = Idle
        BY <1>2, AdvanceMoves
    <2>2. \A g \in Groups : latest'[g] <= calls'
        BY <1>1, <2>1 DEF CallInv
    <2> QED BY <2>1, <2>2 DEF CallInv, SendInv, Idle, Groups
<1>3. CASE running[t].step # Size
    <2>1. /\ latest' = latest /\ running'[t].op = running[t].op
          /\ running'[t].call = running[t].call
          /\ running'[t].enough = running[t].enough
        BY <1>3, AdvanceMoves
    <2>2. running'[t].op # "send"
        BY <2>1 DEF Groups
    <2> QED BY <2>1, <2>2 DEF CallInv, SendInv
<1> QED BY <1>2, <1>3

\* A repeated field with one more element.
LEMMA AppendRepeated ==
    ASSUME NEW k \in Nat, NEW c \in Nat
    PROVE  Append([i \in 1..k |-> c], c) = [i \in 1..(k + 1) |-> c]
<1> DEFINE s == [i \in 1..k |-> c]
           u == [i \in 1..(k + 1) |-> c]
<1>1. s \in Seq(Nat) /\ Len(s) = k /\ u \in Seq(Nat) /\ Len(u) = k + 1
    OBVIOUS
<1>2. (\A i \in 1..k : s[i] = c) /\ \A i \in 1..(k + 1) : u[i] = c
    OBVIOUS
<1> HIDE DEF s, u
<1>3. /\ Append(s, c) \in Seq(Nat) /\ Len(Append(s, c)) = k + 1
      /\ \A i \in 1..k : Append(s, c)[i] = s[i]
      /\ Append(s, c)[k + 1] = c
    BY <1>1, AppendProperties
<1>4. \A i \in 1..(k + 1) : i \in 1..k \/ i = k + 1
    OBVIOUS
<1>5. \A i \in 1..(k + 1) : Append(s, c)[i] = u[i]
    BY <1>2, <1>3, <1>4
<1>6. Append(s, c) = u
    BY <1>1, <1>3, <1>5, SeqEqual
<1> QED BY <1>6 DEF s, u

LEMMA NothingRepeated == ASSUME NEW c PROVE [i \in 1..0 |-> c] = <<>>
    OBVIOUS

LEMMA JointsStep ==
    ASSUME NEW t \in Threads, MInv(t), SetJoints(t)
    PROVE  MInv(t)'
<1>1. /\ running[t].op = "joints" /\ running[t].enough /\ Advance(t, Size)
      /\ UNCHANGED <<filter, params, calls>>
      /\ joints' = IF running[t].step = 0 THEN <<>> ELSE Append(joints, running[t].call)
    BY DEF SetJoints, ClearJoints
<1>2. PICK k \in 0..Size, c \in Nat : k = running[t].step /\ c = running[t].call
    BY RunFields DEF MInv
<1>3. "joints" \in Groups /\ "filter" \in Groups /\ "params" \in Groups
    BY DEF Groups
<1>4. /\ running' \in [Threads -> Runs] /\ latest' \in [Groups -> Nat]
      /\ CallInv(t)' /\ SendInv(t)'
    BY <1>1, <1>3, AdvanceMoves, AdvanceNumbers DEF MInv
<1>5. joints' \in Seq(Nat)
    BY <1>1, <1>2 DEF MInv, MovementType
<1>6. MovementType'
    BY <1>1, <1>4, <1>5 DEF MInv, MovementType
<1>7. latest \in [Groups -> Nat] /\ c > latest.joints
    BY <1>1, <1>2, <1>3 DEF MInv, MovementType, CallInv
<1>8. k > 0 => joints' = [i \in 1..k |-> c]
    <2> SUFFICES ASSUME k > 0 PROVE joints' = [i \in 1..k |-> c]
        OBVIOUS
    <2>1. joints = [i \in 1..(k - 1) |-> c]
        BY <1>1, <1>2 DEF MInv, JointsInv, Busy
    <2>2. k - 1 \in Nat /\ (k - 1) + 1 = k
        BY <1>2
    <2> QED BY <1>1, <1>2, <2>1, <2>2, AppendRepeated
<1>9. JointsInv(t)' /\ FilterInv(t)' /\ ParamsInv(t)'
    <2>1. CASE k = Size
        <3>1. /\ running'[t] = Idle /\ latest' = [latest EXCEPT !["joints"] = c]
            BY <1>1, <1>2, <1>3, <2>1, AdvanceMoves DEF MInv
        <3>2. \A op : ~Busy(t, op)'
            BY <3>1 DEF Busy, Idle
        <3>3. /\ latest'.joints = c /\ c # 0
              /\ latest'.filter = latest.filter /\ latest'.params = latest.params
            BY <1>2, <1>3, <1>7, <3>1
        <3>4. joints' = LastJoints'
            BY <1>8, <2>1, <3>3, SizeIsNat DEF LastJoints, Repeated, Fields
        <3>5. filter = LastFilter /\ params = LastParams
            BY <1>1 DEF MInv, FilterInv, ParamsInv, Busy
        <3>6. filter' = LastFilter' /\ params' = LastParams'
            BY <1>1, <3>3, <3>5 DEF LastFilter, LastParams
        <3> QED BY <3>2, <3>4, <3>6 DEF JointsInv, FilterInv, ParamsInv
    <2>2. CASE k # Size
        <3>1. /\ running'[t].op = "joints" /\ running'[t].call = c
              /\ running'[t].step = k + 1 /\ latest' = latest
            BY <1>1, <1>2, <1>3, <2>2, AdvanceMoves DEF MInv
        <3>2. joints' = [i \in 1..k |-> c]
            BY <1>1, <1>2, <1>8, NothingRepeated
        <3>3. k + 1 > 0 /\ (k + 1) - 1 = k
            BY <1>2
        <3>4. JointsInv(t)'
            BY <3>1, <3>2, <3>3 DEF JointsInv, Busy
        <3>5. filter = LastFilter /\ params = LastParams
            BY <1>1 DEF MInv, FilterInv, ParamsInv, Busy
        <3> QED BY <1>1, <3>1, <3>4, <3>5
                DEF FilterInv, ParamsInv, Busy, LastFilter, LastParams
    <2> QED BY <2>1, <2>2
<1> QED BY <1>4, <1>6, <1>9 DEF MInv

\* One more field of a group.
LEMMA FillOne ==
    ASSUME NEW k \in 1..Size, NEW c \in Nat, NEW rest \in Nat
    PROVE  [UpTo(k, c, rest) EXCEPT ![k] = c] = UpTo(k + 1, c, rest)
<1>1. \A i \in Fields : i < k + 1 <=> i < k \/ i = k
    BY SizeIsNat DEF Fields
<1> QED BY <1>1 DEF Fields, UpTo

LEMMA FillAll ==
    ASSUME NEW c \in Nat, NEW rest \in Nat
    PROVE  /\ UpTo(Size + 1, c, rest) = Repeated(c)
           /\ UpTo(1, c, rest) = Repeated(rest)
    BY SizeIsNat DEF Fields, Repeated, UpTo

LEMMA FilterStep ==
    ASSUME NEW t \in Threads, MInv(t), SetFilter(t)
    PROVE  MInv(t)'
<1>1. /\ running[t].op = "filter" /\ running[t].enough /\ Advance(t, Size)
      /\ UNCHANGED <<joints, params, calls>>
      /\ filter' = IF running[t].step = 0 THEN Cleared
                   ELSE [filter EXCEPT ![running[t].step] = running[t].call]
    BY DEF SetFilter
<1>2. PICK k \in 0..Size, c \in Nat : k = running[t].step /\ c = running[t].call
    BY RunFields DEF MInv
<1>3. "joints" \in Groups /\ "filter" \in Groups /\ "params" \in Groups
    BY DEF Groups
<1>4. /\ running' \in [Threads -> Runs] /\ latest' \in [Groups -> Nat]
      /\ CallInv(t)' /\ SendInv(t)'
    BY <1>1, <1>3, AdvanceMoves, AdvanceNumbers DEF MInv
<1>5. filter' \in [Fields -> Nat]
    BY <1>1, <1>2 DEF MInv, MovementType, Cleared
<1>6. MovementType'
    BY <1>1, <1>4, <1>5 DEF MInv, MovementType
<1>7. latest \in [Groups -> Nat] /\ c > latest.params
    BY <1>1, <1>2, <1>3 DEF MInv, MovementType, CallInv
<1>8. filter' = UpTo(k + 1, c, 0)
    <2>1. CASE k = 0
        BY <1>1, <1>2, <2>1, FillAll DEF Cleared, Repeated
    <2>2. CASE k # 0
        <3>1. filter = UpTo(k, c, 0)
            BY <1>1, <1>2, <2>2 DEF MInv, FilterInv, Busy, Filled
        <3>2. k \in 1..Size
            BY <2>2
        <3>3. [UpTo(k, c, 0) EXCEPT ![k] = c] = UpTo(k + 1, c, 0)
            BY <1>2, <3>2, FillOne
        <3>4. filter' = [filter EXCEPT ![k] = c]
            BY <1>1, <1>2, <2>2
        <3> QED BY <3>1, <3>3, <3>4, Zenon
    <2> QED BY <2>1, <2>2
<1>9. JointsInv(t)' /\ FilterInv(t)' /\ ParamsInv(t)'
    <2>1. CASE k = Size
        <3>1. /\ running'[t] = Idle /\ latest' = [latest EXCEPT !["filter"] = c]
            BY <1>1, <1>2, <1>3, <2>1, AdvanceMoves DEF MInv
        <3>2. \A op : ~Busy(t, op)'
            BY <3>1 DEF Busy, Idle
        <3>3. /\ latest'.filter = c /\ c > latest'.params
              /\ latest'.joints = latest.joints /\ latest'.params = latest.params
            BY <1>2, <1>3, <1>7, <3>1
        <3>4. filter' = LastFilter'
            BY <1>8, <2>1, <3>3, FillAll DEF LastFilter, Repeated, Fields
        <3>5. joints = LastJoints /\ params = LastParams
            BY <1>1 DEF MInv, JointsInv, ParamsInv, Busy
        <3>6. joints' = LastJoints' /\ params' = LastParams'
            BY <1>1, <3>3, <3>5 DEF LastJoints, LastParams
        <3> QED BY <3>2, <3>4, <3>6 DEF JointsInv, FilterInv, ParamsInv
    <2>2. CASE k # Size
        <3>1. /\ running'[t].op = "filter" /\ running'[t].call = c
              /\ running'[t].step = k + 1 /\ latest' = latest
            BY <1>1, <1>2, <1>3, <2>2, AdvanceMoves DEF MInv
        <3>2. k + 1 > 0
            BY <1>2
        <3>3. FilterInv(t)'
            BY <1>8, <3>1, <3>2 DEF FilterInv, Busy, Filled
        <3>4. joints = LastJoints /\ params = LastParams
            BY <1>1 DEF MInv, JointsInv, ParamsInv, Busy
        <3> QED BY <1>1, <3>1, <3>3, <3>4
                DEF JointsInv, ParamsInv, Busy, LastJoints, LastParams
    <2> QED BY <2>1, <2>2
<1> QED BY <1>4, <1>6, <1>9 DEF MInv

LEMMA ParamsStep ==
    ASSUME NEW t \in Threads, MInv(t), SetParams(t)
    PROVE  MInv(t)'
<1>1. /\ running[t].op = "params" /\ running[t].enough /\ Advance(t, Size)
      /\ UNCHANGED <<joints, calls>>
      /\ running[t].step = 0 => filter' = Cleared /\ params' = params
      /\ running[t].step # 0 =>
             filter' = filter /\ params' = [params EXCEPT ![running[t].step] = running[t].call]
    BY DEF SetParams
<1>2. PICK k \in 0..Size, c \in Nat : k = running[t].step /\ c = running[t].call
    BY RunFields DEF MInv
<1>3. "joints" \in Groups /\ "filter" \in Groups /\ "params" \in Groups
    BY DEF Groups
<1>4. /\ running' \in [Threads -> Runs] /\ latest' \in [Groups -> Nat]
      /\ CallInv(t)' /\ SendInv(t)'
    BY <1>1, <1>3, AdvanceMoves, AdvanceNumbers DEF MInv
<1>5. params' \in [Fields -> Nat]
    BY <1>1, <1>2 DEF MInv, MovementType
<1>6. filter' = Cleared
    BY <1>1, <1>2 DEF MInv, FilterInv, Busy
<1>7. MovementType'
    <2>1. Cleared \in [Fields -> Nat]
        BY DEF Cleared
    <2> QED BY <1>1, <1>4, <1>5, <1>6, <2>1 DEF MInv, MovementType
<1>8. /\ latest \in [Groups -> Nat] /\ latest.params \in Nat /\ latest.filter \in Nat
      /\ c > latest.filter
    BY <1>1, <1>2, <1>3 DEF MInv, MovementType, CallInv
<1>9. params' = UpTo(k + 1, c, latest.params)
    <2>1. CASE k = 0
        <3>1. params' = Repeated(latest.params)
            BY <1>1, <1>2, <2>1 DEF MInv, ParamsInv, Busy, LastParams
        <3> QED BY <1>2, <1>8, <2>1, <3>1, FillAll
    <2>2. CASE k # 0
        <3>1. params = UpTo(k, c, latest.params)
            BY <1>1, <1>2, <2>2 DEF MInv, ParamsInv, Busy, Filled
        <3>2. k \in 1..Size
            BY <2>2
        <3>3. [UpTo(k, c, latest.params) EXCEPT ![k] = c] = UpTo(k + 1, c, latest.params)
            BY <1>2, <1>8, <3>2, FillOne
        <3>4. params' = [params EXCEPT ![k] = c]
            BY <1>1, <1>2, <2>2
        <3> QED BY <3>1, <3>3, <3>4, Zenon
    <2> QED BY <2>1, <2>2
<1>10. JointsInv(t)' /\ FilterInv(t)' /\ ParamsInv(t)'
    <2>1. CASE k = Size
        <3>1. /\ running'[t] = Idle /\ latest' = [latest EXCEPT !["params"] = c]
            BY <1>1, <1>2, <1>3, <2>1, AdvanceMoves DEF MInv
        <3>2. \A op : ~Busy(t, op)'
            BY <3>1 DEF Busy, Idle
        <3>3. /\ latest'.params = c /\ ~(latest'.filter > c)
              /\ latest'.joints = latest.joints
            BY <1>2, <1>3, <1>8, <3>1
        <3>4. filter' = LastFilter' /\ params' = LastParams'
            BY <1>2, <1>6, <1>8, <1>9, <2>1, <3>3, FillAll DEF LastFilter, LastParams
        <3>5. joints' = LastJoints'
            BY <1>1, <3>3 DEF MInv, JointsInv, Busy, LastJoints
        <3> QED BY <3>2, <3>4, <3>5 DEF JointsInv, FilterInv, ParamsInv
    <2>2. CASE k # Size
        <3>1. /\ running'[t].op = "params" /\ running'[t].call = c
              /\ running'[t].step = k + 1 /\ latest' = latest
            BY <1>1, <1>2, <1>3, <2>2, AdvanceMoves DEF MInv
        <3>2. k + 1 > 0
            BY <1>2
        <3>3. FilterInv(t)' /\ ParamsInv(t)'
            BY <1>6, <1>9, <3>1, <3>2 DEF FilterInv, ParamsInv, Busy, Filled
        <3>4. JointsInv(t)'
            BY <1>1, <3>1 DEF MInv, JointsInv, Busy, LastJoints
        <3> QED BY <3>3, <3>4
    <2> QED BY <2>1, <2>2
<1> QED BY <1>4, <1>7, <1>10 DEF MInv

\* A call begins, or fails for want of arguments: no group is changed.
LEMMA CallStep ==
    ASSUME NEW t \in Threads, MInv(t), NEW op \in Groups \cup {"send"},
           NEW enough \in BOOLEAN, Call(t, op, enough)
    PROVE  MInv(t)'
<1> DEFINE r == [Idle EXCEPT !.op = op, !.call = calls + 1, !.enough = enough]
<1>1. /\ running[t] = Idle /\ calls' = calls + 1 /\ running' = [running EXCEPT ![t] = r]
      /\ UNCHANGED <<joints, filter, params, latest>>
    BY DEF Call
<1>2. calls \in Nat /\ running \in [Threads -> Runs] /\ latest \in [Groups -> Nat]
    BY DEF MInv, MovementType
<1>3. /\ r \in Runs /\ r.op = op /\ r.step = 0 /\ r.call = calls + 1 /\ r.enough = enough
    <2>1. calls + 1 \in Nat
        BY <1>2
    <2>2. Idle \in Runs /\ Idle.step = 0
        BY IdleRuns DEF Idle
    <2>3. r \in Runs
        BY <2>1, <2>2 DEF Runs
    <2> QED BY <2>2, <2>3 DEF Runs
<1> HIDE DEF r
<1>4. running'[t] = r /\ running' \in [Threads -> Runs]
    BY <1>1, <1>2, <1>3
<1>5. MovementType'
    BY <1>1, <1>2, <1>4 DEF MInv, MovementType
<1>6. (\A o : ~Busy(t, o)) /\ \A o : ~Busy(t, o)'
    BY <1>1, <1>3, <1>4 DEF Busy, Idle
<1>7. JointsInv(t)' /\ FilterInv(t)' /\ ParamsInv(t)'
    BY <1>1, <1>6 DEF MInv, JointsInv, FilterInv, ParamsInv, LastJoints, LastFilter, LastParams
<1>8. CallInv(t)' /\ SendInv(t)'
    <2>1. \A g \in Groups : latest'[g] < calls + 1 /\ latest'[g] <= calls'
        BY <1>1, <1>2 DEF MInv, CallInv
    <2> QED BY <1>1, <1>2, <1>3, <1>4, <2>1 DEF CallInv, SendInv
<1> QED BY <1>5, <1>7, <1>8 DEF MInv

LEMMA NotEnoughStep ==
    ASSUME NEW t \in Threads, MInv(t), NotEnough(t)
    PROVE  MInv(t)'
<1>1. /\ running[t].op \in Groups /\ ~running[t].enough
      /\ running' = [running EXCEPT ![t] = Idle]
      /\ UNCHANGED <<joints, filter, params, calls, latest>>
    BY DEF NotEnough, KeepsGroups
<1>2. running \in [Threads -> Runs] /\ running[t].step = 0
    BY <1>1 DEF MInv, MovementType, CallInv
<1>3. running'[t] = Idle /\ running' \in [Threads -> Runs]
    BY <1>1, <1>2, IdleRuns
<1>4. (\A o : ~Busy(t, o)) /\ \A o : ~Busy(t, o)'
    BY <1>2, <1>3 DEF Busy, Idle
<1>5. JointsInv(t)' /\ FilterInv(t)' /\ ParamsInv(t)'
    BY <1>1, <1>4 DEF MInv, JointsInv, FilterInv, ParamsInv, LastJoints, LastFilter, LastParams
<1>6. MovementType' /\ CallInv(t)' /\ SendInv(t)'
    BY <1>1, <1>3 DEF MInv, MovementType, CallInv, SendInv, Idle, Groups
<1> QED BY <1>5, <1>6 DEF MInv

\* send_msg asks for the size, then writes the bytes of the same message.
LEMMA SendStep ==
    ASSUME NEW t \in Threads, MInv(t), SentIsLatest, SendMsg(t)
    PROVE  MInv(t)' /\ SentIsLatest'
<1>1. /\ running[t].op = "send"
      /\ UNCHANGED <<joints, filter, params, calls, latest>>
    BY DEF SendMsg
<1>2. /\ running \in [Threads -> Runs] /\ running[t] \in Runs
      /\ joints \in Seq(Nat) /\ filter \in [Fields -> Nat] /\ params \in [Fields -> Nat]
    BY DEF MInv, MovementType
<1>3. ByteSize \in ByteSizes
    BY <1>2 DEF ByteSize, ByteSizes, NonZero
<1>4. ByteSize' = ByteSize
    BY <1>1 DEF ByteSize, NonZero
<1>5. \A o \in Groups : ~Busy(t, o)
    BY <1>1 DEF Busy, Groups
<1>6. ASSUME running'[t].op \in {"send", "none"}
      PROVE  JointsInv(t)' /\ FilterInv(t)' /\ ParamsInv(t)'
    <2>1. \A o \in Groups : ~Busy(t, o)'
        BY <1>6 DEF Busy, Groups
    <2> QED BY <1>1, <1>5, <2>1
            DEF MInv, JointsInv, FilterInv, ParamsInv, LastJoints, LastFilter, LastParams, Groups
<1>7. CASE running[t].step = 0
    <2> DEFINE r == [running[t] EXCEPT !.step = 1, !.bytes = ByteSize]
    <2>1. running' = [running EXCEPT ![t] = r] /\ sent' = sent
        BY <1>7 DEF SendMsg
    <2>2. 1 \in 0..Size
        BY SizeIsNat
    <2>3. /\ r \in Runs /\ r.op = "send" /\ r.step = 1 /\ r.bytes = ByteSize
          /\ r.enough = running[t].enough /\ r.call = running[t].call
        BY <1>1, <1>2, <1>3, <2>2 DEF Runs
    <2> HIDE DEF r
    <2>4. running'[t] = r /\ running' \in [Threads -> Runs]
        BY <1>2, <2>1, <2>3
    <2>5. MovementType'
        BY <1>1, <2>4 DEF MInv, MovementType
    <2>7. CallInv(t)' /\ SendInv(t)'
        BY <1>1, <1>4, <2>3, <2>4 DEF MInv, CallInv, SendInv, Groups
    <2>8. SentIsLatest'
        BY <2>1 DEF SentIsLatest, Message
    <2> QED BY <1>6, <2>3, <2>4, <2>5, <2>7, <2>8 DEF MInv
<1>8. CASE running[t].step = 1
    <2>1. running' = [running EXCEPT ![t] = Idle]
        BY <1>8 DEF SendMsg
    <2>2. running'[t] = Idle /\ running' \in [Threads -> Runs]
        BY <1>2, <2>1, IdleRuns
    <2>3. MovementType' /\ CallInv(t)' /\ SendInv(t)'
        BY <1>1, <2>2 DEF MInv, MovementType, CallInv, SendInv, Idle, Groups
    <2>4. JointsInv(t)' /\ FilterInv(t)' /\ ParamsInv(t)'
        BY <1>6, <2>2 DEF Idle
    <2>5. running[t].bytes = ByteSize
        BY <1>1, <1>8 DEF MInv, SendInv
    <2>6. joints = LastJoints /\ filter = LastFilter /\ params = LastParams
        BY <1>5 DEF MInv, JointsInv, FilterInv, ParamsInv, Groups
    <2>7. sent' = <<[readable |-> running[t].bytes = ByteSize, after |-> latest, type |-> movetype,
                     joints |-> joints, filter |-> filter, params |-> params]>>
        BY <1>8 DEF SendMsg
    <2>8. /\ Message'.readable /\ Message'.after = latest
          /\ Message'.joints = joints /\ Message'.filter = filter /\ Message'.params = params
        BY <2>5, <2>7 DEF Message
    <2>9. SentIsLatest'
        BY <2>6, <2>8 DEF SentIsLatest, LastJoints, LastFilter, LastParams
    <2> QED BY <2>3, <2>4, <2>9 DEF MInv
<1> QED BY <1>7, <1>8 DEF SendMsg

LEMMA MovementStep ==
    ASSUME NEW t, Threads = {t}, MInv(t), SentIsLatest, [MovementNext]_movementVars
    PROVE  MInv(t)' /\ SentIsLatest'
<1>0. t \in Threads
    OBVIOUS
<1>1. CASE UNCHANGED movementVars
    BY <1>1 DEF movementVars, MInv, MovementType, JointsInv, FilterInv, ParamsInv, CallInv,
       SendInv, Busy, Filled, LastJoints, LastFilter, LastParams, ByteSize, NonZero,
       SentIsLatest, Message
<1>2. CASE SendMsg(t)
    BY <1>0, <1>2, SendStep
<1>3. ASSUME sent' = sent, MInv(t)' PROVE MInv(t)' /\ SentIsLatest'
    BY <1>3 DEF SentIsLatest, Message
<1>4. ASSUME NEW op \in Groups \cup {"send"}, NEW enough \in BOOLEAN, Call(t, op, enough)
      PROVE  MInv(t)' /\ SentIsLatest'
    <2>1. sent' = sent
        BY <1>4 DEF Call
    <2> QED BY <1>0, <1>3, <1>4, <2>1, CallStep
<1>5. CASE NotEnough(t) \/ SetJoints(t) \/ SetFilter(t) \/ SetParams(t)
    <2>1. sent' = sent
        BY <1>5 DEF NotEnough, SetJoints, SetFilter, SetParams
    <2> QED BY <1>0, <1>3, <1>5, <2>1, NotEnoughStep, JointsStep, FilterStep, ParamsStep
<1>6. CASE Call(t, "send", TRUE)
    BY <1>4, <1>6
<1> QED BY <1>1, <1>2, <1>4, <1>5, <1>6 DEF MovementNext

\* Called by one thread only, an iiwa_move object sends what was set last, for any
\* number of fields and calls: JointParams clears the filter parameters set before.
THEOREM OneThreadSendsLatest ==
    ASSUME NEW t, Threads = {t} PROVE MovementSpec => []SentIsLatest
<1>1. MovementInit => MInv(t) /\ SentIsLatest
    <2> SUFFICES ASSUME MovementInit PROVE MInv(t) /\ SentIsLatest
        OBVIOUS
    <2>1. /\ joints = <<>> /\ filter = Cleared /\ params = Cleared /\ calls = 0
          /\ running = [u \in Threads |-> Idle] /\ latest = [g \in Groups |-> 0]
          /\ sent = <<>>
        BY DEF MovementInit
    <2>2. MovementType
        BY <2>1, IdleRuns DEF MovementType, Cleared
    <2>3. running[t] = Idle /\ t \in Threads
        BY <2>1
    <2>4. \A g \in Groups : latest[g] = 0
        BY <2>1
    <2>5. "joints" \in Groups /\ "filter" \in Groups /\ "params" \in Groups
        BY DEF Groups
    <2>6. JointsInv(t) /\ FilterInv(t) /\ ParamsInv(t)
        BY <2>1, <2>3, <2>4, <2>5 DEF JointsInv, FilterInv, ParamsInv, Busy, Idle,
           LastJoints, LastFilter, LastParams, Cleared, Repeated
    <2>7. CallInv(t) /\ SendInv(t)
        BY <2>1, <2>3, <2>4 DEF CallInv, SendInv, Idle, Groups
    <2> QED BY <2>1, <2>2, <2>6, <2>7 DEF MInv, SentIsLatest
<1>2. MInv(t) /\ SentIsLatest /\ [MovementNext]_movementVars
          => MInv(t)' /\ SentIsLatest'
    BY MovementStep
<1> QED BY <1>1, <1>2, PTL DEF MovementSpec

-----------------------------------------------------------------------------
(* Induction, in a form the provers can use: with a set for the predicate. *)

Less == {ss \in Nat \X Nat : ss[1] < ss[2]}

LEMMA LessWellFounded == IsWellFoundedOn(Less, Nat)
<1>1. Less = OpToRel(<, Nat)
    BY Zenon DEF Less, OpToRel
<1> QED BY <1>1, NatLessThanWellFounded, Zenon

\* Induction, for a set of numbers.
LEMMA Induction ==
    ASSUME NEW S, 0 \in S, \A n \in Nat : n \in S => n + 1 \in S
    PROVE  Nat \subseteq S
<1> SUFFICES ASSUME Nat \ S # {} PROVE FALSE
    OBVIOUS
<1>1. PICK x \in Nat \ S : \A y \in Nat \ S : <<y, x>> \notin Less
    BY LessWellFounded, WFMin
<1>2. x # 0 /\ x - 1 \in Nat /\ x - 1 < x
    BY <1>1
<1>3. x - 1 \in S
    BY <1>1, <1>2 DEF Less
<1> QED BY <1>1, <1>2, <1>3

-----------------------------------------------------------------------------
(* FlattenSeq, one sequence more at a time.                                *)

Cat(r, s) == r \o s

\* f[i] is what the first i sequences of s make together, up to n.
Joins(s, n, f) ==
    f = [i \in 1..n |-> IF i = 1 THEN s[i] ELSE Cat(f[i - 1], s[i])]

LEMMA JoinsMeans ==
    ASSUME NEW s, NEW n \in Nat, NEW f, Joins(s, n, f)
    PROVE  DOMAIN f = 1..n /\ \A i \in 1..n : f[i] = IF i = 1 THEN s[i] ELSE Cat(f[i - 1], s[i])
BY DEF Joins

\* One more.
LEMMA JoinsOneMore ==
    ASSUME NEW s, NEW n \in Nat, NEW f, Joins(s, n, f)
    PROVE  \E g : Joins(s, n + 1, g)
<1> DEFINE g == [i \in 1..(n + 1) |-> IF i <= n THEN f[i]
                                     ELSE IF i = 1 THEN s[i] ELSE Cat(f[n], s[i])]
<1>1. ASSUME NEW i \in 1..(n + 1)
      PROVE  g[i] = IF i = 1 THEN s[i] ELSE Cat(g[i - 1], s[i])
    <2>1. CASE i <= n
        <3>1. g[i] = f[i] /\ f[i] = IF i = 1 THEN s[i] ELSE Cat(f[i - 1], s[i])
            BY <2>1, JoinsMeans
        <3>2. i # 1 => g[i - 1] = f[i - 1]
            BY <2>1
        <3> QED BY <3>1, <3>2
    <2>2. CASE ~(i <= n)
        <3>1. i = n + 1 /\ g[i] = IF i = 1 THEN s[i] ELSE Cat(f[n], s[i])
            BY <2>2
        <3>2. i # 1 => g[n] = f[n]
            BY <3>1
        <3> QED BY <3>1, <3>2
    <2> QED BY <2>1, <2>2
<1>2. g = [i \in 1..(n + 1) |-> g[i]]
    OBVIOUS
<1> HIDE DEF g
<1>3. g = [i \in 1..(n + 1) |-> IF i = 1 THEN s[i] ELSE Cat(g[i - 1], s[i])]
    BY <1>1, <1>2
<1> QED BY <1>3 DEF Joins

\* There is one for every n.
LEMMA JoinsExists ==
    ASSUME NEW s, NEW n \in Nat
    PROVE  \E f : Joins(s, n, f)
<1> DEFINE S == {k \in Nat : \E f : Joins(s, k, f)}
<1>1. 0 \in S
    <2> DEFINE f == [i \in 1..0 |-> 0]
    <2>1. Joins(s, 0, f)
        BY DEF Joins
    <2> QED BY <2>1
<1>2. \A k \in Nat : k \in S => k + 1 \in S
    BY JoinsOneMore
<1> HIDE DEF S
<1>3. n \in S
    BY <1>1, <1>2, Induction
<1> QED BY <1>3 DEF S

Agree(r, s, n) == \A i \in 1..n : r[i] = s[i]

\* It is one function, and the same one for the sequences that are there already.
LEMMA JoinsAgree ==
    ASSUME NEW r, NEW s, NEW m \in Nat, NEW n \in Nat, m <= n, NEW f, NEW g,
           Joins(r, m, f), Joins(s, n, g), Agree(r, s, m)
    PROVE  Agree(f, g, m)
<1> DEFINE S == {k \in Nat : k \in 1..m => f[k] = g[k]}
<1>1. 0 \in S
    OBVIOUS
<1>2. ASSUME NEW k \in Nat, k \in S PROVE k + 1 \in S
    <2>1. CASE k + 1 \in 1..m
        <3>1. f[k + 1] = IF k + 1 = 1 THEN r[k + 1] ELSE Cat(f[k], r[k + 1])
            BY <2>1, JoinsMeans
        <3>2. g[k + 1] = IF k + 1 = 1 THEN s[k + 1] ELSE Cat(g[k], s[k + 1])
            BY <2>1, JoinsMeans
        <3>3. k + 1 # 1 => f[k] = g[k]
            BY <1>2, <2>1
        <3>4. r[k + 1] = s[k + 1]
            BY <2>1 DEF Agree
        <3> QED BY <2>1, <3>1, <3>2, <3>3, <3>4
    <2>2. CASE k + 1 \notin 1..m
        BY <2>2
    <2> QED BY <2>1, <2>2
<1> HIDE DEF S
<1>3. Nat \subseteq S
    BY <1>1, <1>2, Induction
<1> QED BY <1>3 DEF S, Agree

\* What FlattenSeq chooses is that function.
LEMMA FlattenIs ==
    ASSUME NEW s, NEW n \in Nat \ {0}, Len(s) = n, NEW f, Joins(s, n, f)
    PROVE  FlattenSeq(s) = f[n]
<1> DEFINE c == CHOOSE g : g = [i \in 1..n |-> IF i = 1 THEN s[i] ELSE g[i - 1] \o s[i]]
<1>1. FlattenSeq(s) = c[n]
    BY DEF FlattenSeq
<1>2. c = [i \in 1..n |-> IF i = 1 THEN s[i] ELSE c[i - 1] \o s[i]]
    <2>1. f = [i \in 1..n |-> IF i = 1 THEN s[i] ELSE f[i - 1] \o s[i]]
        BY DEF Joins, Cat
    <2> QED BY <2>1
<1> HIDE DEF c
<1>3. Joins(s, n, c)
    BY <1>2 DEF Joins, Cat
<1>4. Agree(c, f, n)
    BY <1>3, JoinsAgree DEF Agree
<1> QED BY <1>1, <1>4 DEF Agree

\* One sequence more is put at the end.
LEMMA FlattenAppend ==
    ASSUME NEW S, NEW s \in Seq(Seq(S)), NEW e \in Seq(S)
    PROVE  FlattenSeq(Append(s, e)) = IF s = <<>> THEN e ELSE FlattenSeq(s) \o e
<1> DEFINE n == Len(s)
           r == Append(s, e)
<1>1. /\ n = Len(s) /\ n \in Nat /\ Len(r) = n + 1 /\ r[n + 1] = e
      /\ Agree(s, r, n)
    BY AppendProperties, LenProperties DEF Agree
<1> HIDE DEF n, r
<1>2. PICK g : Joins(r, n + 1, g)
    <2>1. n + 1 \in Nat
        BY <1>1
    <2> QED BY <2>1, JoinsExists
<1>3. FlattenSeq(r) = g[n + 1] /\ g[n + 1] = IF n + 1 = 1 THEN e ELSE Cat(g[n], e)
    <2>1. n + 1 \in Nat \ {0}
        BY <1>1
    <2>2. FlattenSeq(r) = g[n + 1]
        BY <1>1, <1>2, <2>1, FlattenIs
    <2>3. n + 1 \in 1..(n + 1)
        BY <1>1
    <2>4. g[n + 1] = IF n + 1 = 1 THEN r[n + 1] ELSE Cat(g[n + 1 - 1], r[n + 1])
        BY <1>1, <1>2, <2>1, <2>3, JoinsMeans
    <2> QED BY <1>1, <2>2, <2>4
<1>4. CASE n = 0
    <2>1. s = <<>>
        BY <1>1, <1>4, EmptySeq
    <2> QED BY <1>3, <1>4, <2>1 DEF r
<1>5. CASE n # 0
    <2>1. PICK f : Joins(s, n, f)
        BY <1>1, JoinsExists
    <2>2. FlattenSeq(s) = f[n]
        BY <1>1, <1>5, <2>1, FlattenIs
    <2>3. Agree(f, g, n)
        <3>1. n + 1 \in Nat /\ n <= n + 1
            BY <1>1
        <3> QED BY <1>1, <1>2, <2>1, <3>1, JoinsAgree
    <2>4. n + 1 # 1 /\ n \in 1..n /\ s # <<>>
        BY <1>1, <1>5
    <2>5. f[n] = g[n]
        BY <2>3, <2>4 DEF Agree
    <2> QED BY <1>3, <2>2, <2>4, <2>5 DEF Cat, r
<1> QED BY <1>4, <1>5

-----------------------------------------------------------------------------
(* What get_atoms yields.                                                  *)

Values == Int \cup {atom.value : atom \in AtomsIn}
AtomTs == [type : {"A_LONG", "A_FLOAT", "A_SYMBOL", "A_ARR_LONG", "A_ARR_FLOAT"},
           data : Seq(Values)]
Gotten == [type : {"long", "float", "sym"}, value : Values]

\* What get_atoms yields for one atom_t.
AtomsOf(atom_t) ==
    [j \in DOMAIN atom_t.data |-> [type |-> TypeOf(atom_t.type), value |-> atom_t.data[j]]]
Parts(parsed) == [i \in DOMAIN parsed |-> AtomsOf(parsed[i])]

LEMMA AtomsOfType ==
    ASSUME NEW atom_t \in AtomTs
    PROVE  /\ AtomsOf(atom_t) \in Seq(Gotten) /\ Len(AtomsOf(atom_t)) = Len(atom_t.data)
           /\ Len(atom_t.data) \in Nat
           /\ \A j \in 1..Len(atom_t.data) :
                  AtomsOf(atom_t)[j] = [type |-> TypeOf(atom_t.type), value |-> atom_t.data[j]]
<1>1. /\ atom_t.data \in Seq(Values) /\ TypeOf(atom_t.type) \in {"long", "float", "sym"}
    BY DEF AtomTs, TypeOf
<1>2. /\ DOMAIN atom_t.data = 1..Len(atom_t.data) /\ Len(atom_t.data) \in Nat
      /\ \A j \in 1..Len(atom_t.data) : atom_t.data[j] \in Values
    BY <1>1, LenProperties, ElementOfSeq
<1>3. AtomsOf(atom_t) \in [1..Len(atom_t.data) -> Gotten]
    BY <1>1, <1>2 DEF AtomsOf, Gotten
<1>4. AtomsOf(atom_t) \in Seq(Gotten) /\ Len(AtomsOf(atom_t)) = Len(atom_t.data)
    BY <1>2, <1>3, SeqDef, LenProperties
<1> QED BY <1>2, <1>4 DEF AtomsOf

LEMMA PartsType ==
    ASSUME NEW parsed \in Seq(AtomTs)
    PROVE  /\ Parts(parsed) \in Seq(Seq(Gotten)) /\ Len(Parts(parsed)) = Len(parsed)
           /\ Len(parsed) \in Nat
           /\ \A i \in 1..Len(parsed) : Parts(parsed)[i] = AtomsOf(parsed[i])
<1>1. /\ DOMAIN parsed = 1..Len(parsed) /\ Len(parsed) \in Nat
      /\ \A i \in 1..Len(parsed) : parsed[i] \in AtomTs
    BY LenProperties, ElementOfSeq
<1>2. \A i \in 1..Len(parsed) : AtomsOf(parsed[i]) \in Seq(Gotten)
    BY <1>1, AtomsOfType
<1>3. Parts(parsed) \in [1..Len(parsed) -> Seq(Gotten)]
    BY <1>1, <1>2 DEF Parts
<1>4. Parts(parsed) \in Seq(Seq(Gotten)) /\ Len(Parts(parsed)) = Len(parsed)
    BY <1>1, <1>3, SeqDef, LenProperties
<1> QED BY <1>1, <1>4 DEF Parts

\* Of nothing, get_atoms yields nothing.
LEMMA GetAtomsDone == GetAtoms(<<>>) = <<>>
<1>1. Parts(<<>>) = <<>> /\ Len(<<>>) = 0
    BY DEF Parts
<1>2. GetAtoms(<<>>) = FlattenSeq(Parts(<<>>))
    BY DEF GetAtoms, Parts, AtomsOf
<1> QED BY <1>1, <1>2 DEF FlattenSeq

\* One atom_t more.
LEMMA GetAtomsAppend ==
    ASSUME NEW parsed \in Seq(AtomTs), NEW atom_t \in AtomTs
    PROVE  GetAtoms(Append(parsed, atom_t)) = Cat(GetAtoms(parsed), AtomsOf(atom_t))
<1> DEFINE more == Append(parsed, atom_t)
<1>1. \A r : GetAtoms(r) = FlattenSeq(Parts(r))
    BY DEF GetAtoms, Parts, AtomsOf
<1>2. /\ more \in Seq(AtomTs) /\ Len(more) = Len(parsed) + 1 /\ more[Len(parsed) + 1] = atom_t
      /\ \A i \in 1..Len(parsed) : more[i] = parsed[i]
    BY AppendProperties
<1>3. AtomsOf(atom_t) \in Seq(Gotten) /\ Parts(parsed) \in Seq(Seq(Gotten))
      /\ Len(Parts(parsed)) = Len(parsed) /\ Len(parsed) \in Nat
    BY AtomsOfType, PartsType
<1> HIDE DEF more
<1>4. Parts(more) = Append(Parts(parsed), AtomsOf(atom_t))
    <2> DEFINE a == Append(Parts(parsed), AtomsOf(atom_t))
    <2>1. /\ a \in Seq(Seq(Gotten)) /\ Len(a) = Len(parsed) + 1
          /\ a[Len(parsed) + 1] = AtomsOf(atom_t)
          /\ \A i \in 1..Len(parsed) : a[i] = Parts(parsed)[i]
        BY <1>3, AppendProperties
    <2>2. /\ Parts(more) \in Seq(Seq(Gotten)) /\ Len(Parts(more)) = Len(parsed) + 1
          /\ \A i \in 1..(Len(parsed) + 1) : Parts(more)[i] = AtomsOf(more[i])
        BY <1>2, PartsType
    <2>3. \A i \in 1..Len(parsed) : Parts(parsed)[i] = AtomsOf(parsed[i])
        BY PartsType
    <2> HIDE DEF a
    <2>4. \A i \in 1..(Len(parsed) + 1) : Parts(more)[i] = a[i]
        <3>1. ASSUME NEW i \in 1..Len(parsed) PROVE Parts(more)[i] = a[i]
            <4>1. i \in 1..(Len(parsed) + 1)
                BY <1>3
            <4> QED BY <1>2, <2>1, <2>2, <2>3, <4>1
        <3>2. Parts(more)[Len(parsed) + 1] = a[Len(parsed) + 1]
            <4>1. Len(parsed) + 1 \in 1..(Len(parsed) + 1)
                BY <1>3
            <4> QED BY <1>2, <2>1, <2>2, <4>1
        <3> QED BY <1>3, <3>1, <3>2
    <2> QED BY <2>1, <2>2, <2>4, SeqEqual DEF a
<1>5. CASE Parts(parsed) = <<>>
    <2>1. parsed = <<>>
        BY <1>3, <1>5, EmptySeq
    <2>2. GetAtoms(more) = AtomsOf(atom_t) /\ GetAtoms(parsed) = <<>>
        BY <1>1, <1>3, <1>4, <1>5, <2>1, FlattenAppend, GetAtomsDone
    <2>3. <<>> \o AtomsOf(atom_t) = AtomsOf(atom_t)
        BY <1>3, ConcatEmptySeq
    <2> QED BY <2>2, <2>3 DEF Cat, more
<1>6. CASE Parts(parsed) # <<>>
    BY <1>1, <1>3, <1>4, <1>6, FlattenAppend DEF Cat, more
<1> QED BY <1>5, <1>6

\* The first n of parsed.
FirstOf(parsed, n) == SubSeq(parsed, 1, n)

LEMMA FrontIs ==
    ASSUME NEW S, NEW s \in Seq(S), NEW n \in 0..Len(s)
    PROVE  /\ FirstOf(s, n) \in Seq(S) /\ Len(FirstOf(s, n)) = n
           /\ \A i \in 1..n : FirstOf(s, n)[i] = s[i]
           /\ n = Len(s) => FirstOf(s, n) = s
<1>1. Len(s) \in Nat /\ \A i \in 1..n : s[i] \in S
    BY LenProperties, ElementOfSeq
<1>2. /\ FirstOf(s, n) \in Seq(S) /\ Len(FirstOf(s, n)) = n
      /\ \A i \in 1..n : FirstOf(s, n)[i] = s[i]
    BY <1>1, SubSeqProperties DEF FirstOf
<1> QED BY <1>2, SubSeqFull DEF FirstOf

LEMMA FrontAppend ==
    ASSUME NEW S, NEW s \in Seq(S), NEW e \in S, NEW n \in 0..Len(s)
    PROVE  FirstOf(Append(s, e), n) = FirstOf(s, n)
<1> DEFINE r == Append(s, e)
<1>1. /\ r \in Seq(S) /\ Len(r) = Len(s) + 1 /\ Len(s) \in Nat
      /\ \A i \in 1..Len(s) : r[i] = s[i]
    BY AppendProperties, LenProperties
<1> HIDE DEF r
<1>2. n \in 0..Len(r)
    BY <1>1
<1>3. /\ FirstOf(r, n) \in Seq(S) /\ Len(FirstOf(r, n)) = n
      /\ \A i \in 1..n : FirstOf(r, n)[i] = r[i]
    BY <1>1, <1>2, FrontIs
<1>4. /\ FirstOf(s, n) \in Seq(S) /\ Len(FirstOf(s, n)) = n
      /\ \A i \in 1..n : FirstOf(s, n)[i] = s[i]
    BY FrontIs
<1>5. \A i \in 1..n : FirstOf(r, n)[i] = FirstOf(s, n)[i]
    BY <1>1, <1>3, <1>4
<1>6. FirstOf(r, n) = FirstOf(s, n)
    BY <1>3, <1>4, <1>5, SeqEqual
<1> QED BY <1>6 DEF r

LEMMA FrontOneMore ==
    ASSUME NEW S, NEW s \in Seq(S), NEW n \in 0..(Len(s) - 1)
    PROVE  FirstOf(s, n + 1) = Append(FirstOf(s, n), s[n + 1])
<1>1. Len(s) \in Nat /\ n + 1 \in 0..Len(s) /\ n \in 0..Len(s) /\ n + 1 \in 1..Len(s)
    BY LenProperties
<1>2. s[n + 1] \in S
    BY <1>1, ElementOfSeq
<1>3. /\ FirstOf(s, n) \in Seq(S) /\ Len(FirstOf(s, n)) = n /\ \A i \in 1..n : FirstOf(s, n)[i] = s[i]
    BY <1>1, FrontIs
<1>4. /\ FirstOf(s, n + 1) \in Seq(S) /\ Len(FirstOf(s, n + 1)) = n + 1
      /\ \A i \in 1..(n + 1) : FirstOf(s, n + 1)[i] = s[i]
    BY <1>1, FrontIs
<1> DEFINE a == Append(FirstOf(s, n), s[n + 1])
<1>5. /\ a \in Seq(S) /\ Len(a) = n + 1 /\ a[n + 1] = s[n + 1] /\ \A i \in 1..n : a[i] = s[i]
    BY <1>2, <1>3, AppendProperties
<1> HIDE DEF a
<1>6. \A i \in 1..(n + 1) : a[i] = FirstOf(s, n + 1)[i]
    BY <1>4, <1>5
<1>7. a = FirstOf(s, n + 1)
    BY <1>4, <1>5, <1>6, SeqEqual
<1> QED BY <1>7 DEF a

\* What get_atoms yields is a sequence of atoms.
LEMMA GetAtomsType ==
    ASSUME NEW parsed \in Seq(AtomTs)
    PROVE  GetAtoms(parsed) \in Seq(Gotten)
<1> DEFINE S == {n \in Nat : n <= Len(parsed) => GetAtoms(FirstOf(parsed, n)) \in Seq(Gotten)}
<1>0. Len(parsed) \in Nat
    BY LenProperties
<1>1. 0 \in S
    <2>1. FirstOf(parsed, 0) = <<>>
        BY SubSeqEmpty DEF FirstOf
    <2> QED BY <2>1, GetAtomsDone, EmptySeq
<1>2. ASSUME NEW n \in Nat, n \in S PROVE n + 1 \in S
    <2>1. CASE n + 1 <= Len(parsed)
        <3>1. n \in 0..(Len(parsed) - 1) /\ n + 1 \in 1..Len(parsed) /\ n \in 0..Len(parsed)
            BY <1>0, <2>1
        <3>2. FirstOf(parsed, n + 1) = Append(FirstOf(parsed, n), parsed[n + 1])
            BY <3>1, FrontOneMore
        <3>3. parsed[n + 1] \in AtomTs /\ FirstOf(parsed, n) \in Seq(AtomTs)
            BY <3>1, ElementOfSeq, FrontIs
        <3>4. GetAtoms(FirstOf(parsed, n + 1)) = Cat(GetAtoms(FirstOf(parsed, n)), AtomsOf(parsed[n + 1]))
            BY <3>2, <3>3, GetAtomsAppend
        <3>5. GetAtoms(FirstOf(parsed, n)) \in Seq(Gotten) /\ AtomsOf(parsed[n + 1]) \in Seq(Gotten)
            BY <1>0, <1>2, <2>1, <3>3, AtomsOfType
        <3>6. GetAtoms(FirstOf(parsed, n + 1)) \in Seq(Gotten)
            BY <3>4, <3>5, ConcatProperties DEF Cat
        <3> QED BY <3>6
    <2>2. CASE ~(n + 1 <= Len(parsed))
        BY <2>2
    <2> QED BY <2>1, <2>2
<1> HIDE DEF S
<1>3. Len(parsed) \in S
    BY <1>0, <1>1, <1>2, Induction
<1>4. FirstOf(parsed, Len(parsed)) = parsed
    BY <1>0, FrontIs
<1> QED BY <1>0, <1>3, <1>4 DEF S

-----------------------------------------------------------------------------
(* What arrives is what was pushed.                                        *)

Inputs == [atom : AtomsIn \cup UNION {ToSet(atoms) : atoms \in ArraysIn}, array : BOOLEAN]

\* got is the beginning of what is to arrive for in.
Fits(in, got) == Len(got) <= Len(in) /\ \A i \in 1..Len(got) : ArrivesAs(in[i], got[i])

\* The atom_t's of p are what was pushed as in: each of their beginnings fits.
Tells(p, in) ==
    /\ p \in Seq(AtomTs) /\ in \in Seq(Inputs) /\ Len(GetAtoms(p)) = Len(in)
    /\ \A n \in 0..Len(p) : Fits(in, GetAtoms(FirstOf(p, n)))

MessageInv == Tells(proto, pushed) /\ Tells(data_, snapshot) /\ EmittedIsPushed

\* t is r and then s.
Joining(r, s, t) ==
    /\ Len(t) = Len(r) + Len(s)
    /\ \A i \in 1..(Len(r) + Len(s)) : t[i] = IF i <= Len(r) THEN r[i] ELSE s[i - Len(r)]

LEMMA CatIs ==
    ASSUME NEW r \in Seq(Gotten), NEW s \in Seq(Gotten), NEW t, t = Cat(r, s)
    PROVE  t \in Seq(Gotten) /\ Joining(r, s, t)
BY ConcatProperties DEF Cat, Joining

\* One atom_t more, and what was pushed for it.
LEMMA TellsMore ==
    ASSUME NEW p, NEW in, Tells(p, in), NEW atom_t \in AtomTs, NEW new \in Seq(Inputs),
           Len(new) = Len(atom_t.data),
           \A j \in 1..Len(new) : ArrivesAs(new[j], AtomsOf(atom_t)[j])
    PROVE  Tells(Append(p, atom_t), in \o new)
<1> DEFINE q == Append(p, atom_t)
           all == in \o new
           g == GetAtoms(p)
           h == GetAtoms(q)
           a == AtomsOf(atom_t)
<1>1. /\ p \in Seq(AtomTs) /\ in \in Seq(Inputs) /\ Len(g) = Len(in)
      /\ g \in Seq(Gotten) /\ a \in Seq(Gotten) /\ Len(a) = Len(new)
      /\ Len(in) \in Nat /\ Len(new) \in Nat /\ Len(p) \in Nat
    BY GetAtomsType, AtomsOfType, LenProperties DEF Tells
<1>2. /\ all \in Seq(Inputs) /\ Len(all) = Len(in) + Len(new)
      /\ \A i \in 1..(Len(in) + Len(new)) : all[i] = IF i <= Len(in) THEN in[i] ELSE new[i - Len(in)]
    BY <1>1, ConcatProperties
<1>3. /\ h \in Seq(Gotten) /\ Len(h) = Len(in) + Len(new)
      /\ \A i \in 1..(Len(in) + Len(new)) : h[i] = IF i <= Len(in) THEN g[i] ELSE a[i - Len(in)]
    <2>1. h = Cat(g, a)
        BY <1>1, GetAtomsAppend
    <2> HIDE DEF h, g, a
    <2>2. h \in Seq(Gotten) /\ Joining(g, a, h)
        BY <1>1, <2>1, CatIs
    <2> QED BY <1>1, <2>2 DEF Joining
<1>4. q \in Seq(AtomTs) /\ Len(q) = Len(p) + 1
    BY <1>1, AppendProperties
<1>5. \A i \in 1..Len(in) : ArrivesAs(in[i], g[i])
    <2>1. FirstOf(p, Len(p)) = p /\ Len(p) \in 0..Len(p)
        BY <1>1, FrontIs
    <2>2. Fits(in, g)
        BY <2>1 DEF Tells
    <2> QED BY <1>1, <2>2 DEF Fits
<1> HIDE DEF q, all, g, h, a
<1>6. ASSUME NEW i \in 1..(Len(in) + Len(new)) PROVE ArrivesAs(all[i], h[i])
    <2>1. CASE i <= Len(in)
        <3>1. i \in 1..Len(in) /\ all[i] = in[i] /\ h[i] = g[i]
            BY <1>1, <1>2, <1>3, <2>1
        <3> QED BY <1>5, <3>1
    <2>2. CASE ~(i <= Len(in))
        <3>1. i - Len(in) \in 1..Len(new) /\ all[i] = new[i - Len(in)] /\ h[i] = a[i - Len(in)]
            BY <1>1, <1>2, <1>3, <2>2
        <3> QED BY <3>1 DEF a
    <2> QED BY <2>1, <2>2
<1>7. ASSUME NEW n \in 0..Len(q) PROVE Fits(all, GetAtoms(FirstOf(q, n)))
    <2>1. CASE n = Len(p) + 1
        <3>1. FirstOf(q, n) = q
            BY <1>4, <2>1, FrontIs
        <3>2. Fits(all, h)
            BY <1>1, <1>2, <1>3, <1>6 DEF Fits
        <3> QED BY <3>1, <3>2 DEF h
    <2>2. CASE n # Len(p) + 1
        <3>1. n \in 0..Len(p)
            BY <1>1, <1>4, <2>2
        <3>2. FirstOf(q, n) = FirstOf(p, n)
            BY <1>1, <3>1, FrontAppend DEF q
        <3> DEFINE k == GetAtoms(FirstOf(p, n))
        <3>3. Fits(in, k) /\ k \in Seq(Gotten) /\ Len(k) \in Nat
            <4>1. FirstOf(p, n) \in Seq(AtomTs)
                BY <1>1, <3>1, FrontIs
            <4> QED BY <3>1, <4>1, GetAtomsType, LenProperties DEF Tells
        <3> HIDE DEF k
        <3>4. \A i \in 1..Len(k) : all[i] = in[i]
            <4>1. Len(k) <= Len(in)
                BY <3>3 DEF Fits
            <4>2. ASSUME NEW i \in 1..Len(k)
                  PROVE  i \in 1..(Len(in) + Len(new)) /\ i <= Len(in)
                BY <1>1, <3>3, <4>1
            <4> QED BY <1>2, <4>2
        <3>5. Fits(all, k)
            <4>1. Len(k) <= Len(all) /\ \A i \in 1..Len(k) : ArrivesAs(in[i], k[i])
                BY <1>1, <1>2, <3>3 DEF Fits
            <4> QED BY <3>4, <4>1 DEF Fits
        <3> QED BY <3>2, <3>5 DEF k
    <2> QED BY <2>1, <2>2
<1>8. Len(GetAtoms(q)) = Len(all)
    BY <1>2, <1>3 DEF h
<1> QED BY <1>2, <1>4, <1>7, <1>8 DEF Tells, q, all

\* An empty message tells that nothing was pushed.
LEMMA TellsNothing == Tells(<<>>, <<>>)
<1>1. <<>> \in Seq(AtomTs) /\ <<>> \in Seq(Inputs) /\ Len(<<>>) = 0
    BY EmptySeq
<1>2. GetAtoms(<<>>) = <<>>
    BY GetAtomsDone
<1>3. FirstOf(<<>>, 0) = <<>>
    BY SubSeqEmpty DEF FirstOf
<1>4. Fits(<<>>, <<>>)
    BY <1>1 DEF Fits
<1>5. \A n \in 0..Len(<<>>) : n = 0
    BY <1>1
<1>6. \A n \in 0..Len(<<>>) : Fits(<<>>, GetAtoms(FirstOf(<<>>, n)))
    BY <1>2, <1>3, <1>4, <1>5
<1> QED BY <1>1, <1>2, <1>6 DEF Tells

\* push_atom and push_atomarray.
LEMMA PushTells ==
    ASSUME MessageInv, NEW encoded \in AtomTs, NEW atoms, NEW array \in BOOLEAN,
           \E S \in SUBSET (AtomsIn \cup UNION {ToSet(arr) : arr \in ArraysIn}) : atoms \in Seq(S),
           Len(encoded.data) = Len(atoms),
           \A j \in 1..Len(atoms) :
               ArrivesAs([atom |-> atoms[j], array |-> array], AtomsOf(encoded)[j]),
           Push(encoded, atoms, array)
    PROVE  MessageInv'
<1> DEFINE new == [i \in DOMAIN atoms |-> [atom |-> atoms[i], array |-> array]]
<1>1. PICK S \in SUBSET (AtomsIn \cup UNION {ToSet(arr) : arr \in ArraysIn}) : atoms \in Seq(S)
    OBVIOUS
<1>2. /\ DOMAIN atoms = 1..Len(atoms) /\ Len(atoms) \in Nat
      /\ \A i \in 1..Len(atoms) : atoms[i] \in S
    BY <1>1, LenProperties, ElementOfSeq
<1>3. new \in [1..Len(atoms) -> Inputs]
    BY <1>1, <1>2 DEF Inputs
<1>4. /\ new \in Seq(Inputs) /\ Len(new) = Len(atoms)
      /\ \A j \in 1..Len(atoms) : new[j] = [atom |-> atoms[j], array |-> array]
    BY <1>2, <1>3, SeqDef, LenProperties
<1>5. /\ proto' = Append(proto, encoded) /\ pushed' = pushed \o new
      /\ data_' = data_ /\ snapshot' = snapshot /\ out' = out
    BY DEF Push
<1> HIDE DEF new
<1>6. PICK p, in : p = proto /\ in = pushed
    OBVIOUS
<1>7. Tells(Append(p, encoded), in \o new)
    BY <1>4, <1>6, TellsMore DEF MessageInv
<1>8. Tells(proto, pushed)'
    BY <1>5, <1>6, <1>7
<1>9. Tells(data_, snapshot)' /\ EmittedIsPushed'
    BY <1>5 DEF MessageInv, EmittedIsPushed
<1> QED BY <1>8, <1>9 DEF MessageInv
LEMMA SingleIsInt ==
    ASSUME NEW x \in Int
    PROVE  Single(x) \in Int /\ (IsSingle(x) => Single(x) = x)
BY DEF Single, IsSingle

\* What push_atom makes of an atom arrives as the atom.
LEMMA EncodedArrives ==
    ASSUME NEW atom \in AtomsIn
    PROVE  /\ Encoded(atom) \in AtomTs /\ Len(Encoded(atom).data) = 1
           /\ ArrivesAs([atom |-> atom, array |-> FALSE], AtomsOf(Encoded(atom))[1])
<1> DEFINE e == Encoded(atom)
           got == [type |-> TypeOf(e.type), value |-> e.data[1]]
           in == [atom |-> atom, array |-> FALSE]
<1>1. IsAtom(atom) /\ atom.value \in Values
    BY MessageAssumption DEF Values
<1>2. ASSUME NEW v \in Values
      PROVE  <<v>> \in Seq(Values) /\ Len(<<v>>) = 1 /\ <<v>>[1] = v
    OBVIOUS
<1>3. ASSUME e \in AtomTs, Len(e.data) = 1 PROVE AtomsOf(e)[1] = got
    <2> HIDE DEF e
    <2> QED BY <1>3, AtomsOfType
<1>4. in.atom = atom /\ in.array = FALSE
    OBVIOUS
<1>5. CASE atom.type = "long"
    <2>1. atom.value \in Int /\ atom = [type |-> "long", value |-> atom.value]
        BY <1>1, <1>5 DEF IsAtom
    <2>2. /\ Narrow(atom.value) \in Values
          /\ IsInt(atom.value) => Narrow(atom.value) = atom.value
        BY <2>1, NarrowIsInt DEF Values
    <2>3. e = [type |-> "A_LONG", data |-> <<Narrow(atom.value)>>]
        BY <1>5 DEF Encoded
    <2>4. e \in AtomTs /\ Len(e.data) = 1 /\ got = [type |-> "long", value |-> Narrow(atom.value)]
        BY <1>2, <2>2, <2>3 DEF AtomTs, TypeOf
    <2> HIDE DEF e, got, in
    <2>5. ArrivesAs(in, got)
        BY <1>4, <1>5, <2>1, <2>2, <2>4 DEF ArrivesAs
    <2> QED BY <1>3, <2>4, <2>5 DEF e, in
<1>6. CASE atom.type = "float"
    <2>1. atom.value \in Int /\ atom = [type |-> "float", value |-> atom.value]
        BY <1>1, <1>6 DEF IsAtom
    <2>2. /\ Single(atom.value) \in Values
          /\ IsSingle(atom.value) => Single(atom.value) = atom.value
        BY <2>1, SingleIsInt DEF Values
    <2>3. e = [type |-> "A_FLOAT", data |-> <<Single(atom.value)>>]
        BY <1>6 DEF Encoded
    <2>4. e \in AtomTs /\ Len(e.data) = 1 /\ got = [type |-> "float", value |-> Single(atom.value)]
        BY <1>2, <2>2, <2>3 DEF AtomTs, TypeOf
    <2> HIDE DEF e, got, in
    <2>5. ArrivesAs(in, got)
        BY <1>4, <1>6, <2>1, <2>2, <2>4 DEF ArrivesAs
    <2> QED BY <1>3, <2>4, <2>5 DEF e, in
<1>7. CASE atom.type = "sym"
    <2>1. atom = [type |-> "sym", value |-> atom.value]
        BY <1>1, <1>7 DEF IsAtom
    <2>2. e = [type |-> "A_SYMBOL", data |-> <<atom.value>>]
        BY <1>7 DEF Encoded
    <2>3. e \in AtomTs /\ Len(e.data) = 1 /\ got = [type |-> "sym", value |-> atom.value]
        BY <1>1, <1>2, <2>2 DEF AtomTs, TypeOf
    <2> HIDE DEF e, got, in
    <2>4. ArrivesAs(in, got)
        BY <1>4, <1>7, <2>1, <2>3 DEF ArrivesAs
    <2> QED BY <1>3, <2>3, <2>4 DEF e, in
<1>8. CASE atom.type = "other"
    <2>1. e = [type |-> "A_LONG", data |-> <<0>>]
        BY <1>8 DEF Encoded
    <2>2. 0 \in Values
        BY DEF Values
    <2>3. e \in AtomTs /\ Len(e.data) = 1 /\ got = [type |-> "long", value |-> 0]
        BY <1>2, <2>1, <2>2 DEF AtomTs, TypeOf
    <2> HIDE DEF e, got, in
    <2>4. ArrivesAs(in, got)
        BY <1>4, <1>8, <2>3 DEF ArrivesAs, Long
    <2> QED BY <1>3, <2>3, <2>4 DEF e, in
<1> QED BY <1>1, <1>5, <1>6, <1>7, <1>8 DEF IsAtom

\* What push_atomarray makes of an array arrives as its atoms.
LEMMA EncodedArrayArrives ==
    ASSUME NEW atoms \in ArraysIn, NEW type \in {"long", "float"},
           \A i \in DOMAIN atoms : atoms[i].type = type
    PROVE  /\ EncodedArray(atoms, type) \in AtomTs
           /\ Len(EncodedArray(atoms, type).data) = Len(atoms)
           /\ \A j \in 1..Len(atoms) :
                  ArrivesAs([atom |-> atoms[j], array |-> TRUE], AtomsOf(EncodedArray(atoms, type))[j])
<1> DEFINE e == EncodedArray(atoms, type)
<1>1. /\ DOMAIN atoms = 1..Len(atoms) /\ Len(atoms) \in Nat
      /\ \A i \in 1..Len(atoms) : IsAtom(atoms[i]) /\ atoms[i].type = type
    BY MessageAssumption, LenProperties
<1>2. \A i \in 1..Len(atoms) : /\ atoms[i].value \in Int
                               /\ atoms[i] = [type |-> type, value |-> atoms[i].value]
    BY <1>1 DEF IsAtom
<1>3. ASSUME NEW d \in [1..Len(atoms) -> Int]
      PROVE  d \in Seq(Values) /\ Len(d) = Len(atoms)
    <2>1. d \in Seq(Int) /\ d \in [1..Len(atoms) -> Values]
        BY <1>1, SeqDef DEF Values
    <2> QED BY <1>1, <2>1, SeqDef, LenProperties
<1>4. ASSUME e \in AtomTs, Len(e.data) = Len(atoms), NEW j \in 1..Len(atoms)
      PROVE  AtomsOf(e)[j] = [type |-> TypeOf(e.type), value |-> e.data[j]]
    <2> HIDE DEF e
    <2> QED BY <1>4, AtomsOfType
<1>5. CASE type = "long"
    <2> DEFINE d == [i \in 1..Len(atoms) |-> atoms[i].value]
    <2>1. d \in [1..Len(atoms) -> Int] /\ \A j \in 1..Len(atoms) : d[j] = atoms[j].value
        BY <1>2
    <2>2. e = [type |-> "A_ARR_LONG", data |-> d]
        BY <1>1, <1>5 DEF EncodedArray
    <2> HIDE DEF d
    <2>3. e \in AtomTs /\ Len(e.data) = Len(atoms) /\ TypeOf(e.type) = "long" /\ e.data = d
        BY <1>3, <2>1, <2>2 DEF AtomTs, TypeOf
    <2> HIDE DEF e
    <2>4. ASSUME NEW j \in 1..Len(atoms)
          PROVE  ArrivesAs([atom |-> atoms[j], array |-> TRUE], AtomsOf(e)[j])
        <3>1. AtomsOf(e)[j] = atoms[j] /\ atoms[j].type = "long"
            BY <1>1, <1>2, <1>4, <1>5, <2>1, <2>3
        <3> QED BY <3>1 DEF ArrivesAs
    <2> QED BY <2>3, <2>4 DEF e
<1>6. CASE type = "float"
    <2> DEFINE d == [i \in 1..Len(atoms) |-> Single(atoms[i].value)]
    <2>1. d \in [1..Len(atoms) -> Int] /\ \A j \in 1..Len(atoms) : d[j] = Single(atoms[j].value)
        BY <1>2, SingleIsInt
    <2>2. e = [type |-> "A_ARR_FLOAT", data |-> d]
        BY <1>1, <1>6 DEF EncodedArray
    <2> HIDE DEF d
    <2>3. e \in AtomTs /\ Len(e.data) = Len(atoms) /\ TypeOf(e.type) = "float" /\ e.data = d
        BY <1>3, <2>1, <2>2 DEF AtomTs, TypeOf
    <2> HIDE DEF e
    <2>4. ASSUME NEW j \in 1..Len(atoms)
          PROVE  ArrivesAs([atom |-> atoms[j], array |-> TRUE], AtomsOf(e)[j])
        <3>1. /\ AtomsOf(e)[j] = [type |-> "float", value |-> Single(atoms[j].value)]
              /\ atoms[j].type = "float" /\ atoms[j].value \in Int
              /\ atoms[j] = [type |-> "float", value |-> atoms[j].value]
            BY <1>1, <1>2, <1>4, <1>6, <2>1, <2>3
        <3>2. IsSingle(atoms[j].value) => Single(atoms[j].value) = atoms[j].value
            BY <3>1, SingleIsInt
        <3> QED BY <3>1, <3>2 DEF ArrivesAs
    <2> QED BY <2>3, <2>4 DEF e
<1> QED BY <1>5, <1>6
-----------------------------------------------------------------------------
(* What is read from a frame.                                              *)

\* What was parsed of a frame that was cut yields the beginning of what is to
\* arrive, and one atom more at most.
BeginsLike(in, got) == \A i \in 1..(Len(got) - 1) : i <= Len(in) /\ ArrivesAs(in[i], got[i])

\* What is left of an atom_t has one value, or the first values of an array.
LEMMA PartialIs ==
    ASSUME NEW atom_t \in AtomTs, NEW symbol \in Values, NEW part \in Partial(atom_t, symbol)
    PROVE  /\ part \in AtomTs
           /\ \/ Len(part.data) = 1
              \/ /\ part.type = atom_t.type /\ Len(part.data) <= Len(atom_t.data)
                 /\ \A j \in 1..Len(part.data) : part.data[j] = atom_t.data[j]
<1>0. atom_t = [type |-> atom_t.type, data |-> atom_t.data] /\ atom_t.data \in Seq(Values)
      /\ Len(atom_t.data) \in Nat
    BY LenProperties DEF AtomTs
<1>1. ASSUME NEW v \in Values, NEW k \in {"A_LONG", "A_FLOAT", "A_SYMBOL", "A_ARR_LONG", "A_ARR_FLOAT"},
             part = [type |-> k, data |-> <<v>>]
      PROVE  part \in AtomTs /\ Len(part.data) = 1
    BY <1>1 DEF AtomTs
<1>2. atom_t.type \in {"A_LONG", "A_FLOAT", "A_SYMBOL", "A_ARR_LONG", "A_ARR_FLOAT"} /\ 0 \in Values
    BY DEF AtomTs, Values
<1>3. CASE part = [type |-> "A_LONG", data |-> <<0>>]
    BY <1>1, <1>2, <1>3
<1>4. CASE part = [atom_t EXCEPT !.data = <<symbol>>] \/ part = [atom_t EXCEPT !.data = <<0>>]
    <2>1. PICK v \in Values : part = [atom_t EXCEPT !.data = <<v>>]
        BY <1>2, <1>4
    <2>2. part = [type |-> atom_t.type, data |-> <<v>>]
        BY <1>0, <2>1
    <2> QED BY <1>1, <1>2, <2>2
<1>5. CASE part \in {[atom_t EXCEPT !.data = SubSeq(@, 1, n)] : n \in 0..Len(atom_t.data)}
    <2>1. PICK n \in 0..Len(atom_t.data) : part = [atom_t EXCEPT !.data = SubSeq(atom_t.data, 1, n)]
        BY <1>5
    <2>2. part = [type |-> atom_t.type, data |-> FirstOf(atom_t.data, n)]
        BY <1>0, <2>1 DEF FirstOf
    <2>3. /\ FirstOf(atom_t.data, n) \in Seq(Values) /\ Len(FirstOf(atom_t.data, n)) = n
          /\ \A i \in 1..n : FirstOf(atom_t.data, n)[i] = atom_t.data[i]
        BY <1>0, FrontIs
    <2> QED BY <1>0, <1>2, <2>2, <2>3 DEF AtomTs
<1> QED BY <1>3, <1>4, <1>5 DEF Partial

LEMMA CutBegins ==
    ASSUME NEW p, NEW in, Tells(p, in), NEW k \in 0..(Len(p) - 1), NEW symbol \in Values,
           NEW parsed,
           parsed = FirstOf(p, k) \/ \E part \in Partial(p[k + 1], symbol) : parsed = Append(FirstOf(p, k), part)
    PROVE  BeginsLike(in, GetAtoms(parsed))
<1> DEFINE g == GetAtoms(FirstOf(p, k))
           h == GetAtoms(FirstOf(p, k + 1))
           got == GetAtoms(parsed)
<1>1. /\ Len(p) \in Nat /\ k \in 0..Len(p) /\ k + 1 \in 0..Len(p) /\ k + 1 \in 1..Len(p)
      /\ p \in Seq(AtomTs) /\ in \in Seq(Inputs) /\ Len(in) \in Nat
    BY LenProperties DEF Tells
<1>2. FirstOf(p, k) \in Seq(AtomTs) /\ FirstOf(p, k + 1) \in Seq(AtomTs) /\ p[k + 1] \in AtomTs
    BY <1>1, FrontIs, ElementOfSeq
<1>3. /\ g \in Seq(Gotten) /\ h \in Seq(Gotten) /\ Len(g) \in Nat /\ Len(h) \in Nat
      /\ Fits(in, g) /\ Fits(in, h)
    BY <1>1, <1>2, GetAtomsType, LenProperties DEF Tells
<1>4. CASE parsed = FirstOf(p, k)
    <2>1. \A i \in 1..(Len(g) - 1) : i \in 1..Len(g) /\ (Len(g) <= Len(in) => i <= Len(in))
        BY <1>1, <1>3
    <2>2. Len(g) <= Len(in) /\ \A i \in 1..Len(g) : ArrivesAs(in[i], g[i])
        BY <1>3 DEF Fits
    <2> HIDE DEF g
    <2>3. BeginsLike(in, g)
        BY <2>1, <2>2 DEF BeginsLike
    <2> QED BY <1>4, <2>3 DEF g
<1>5. ASSUME NEW part \in Partial(p[k + 1], symbol), parsed = Append(FirstOf(p, k), part)
      PROVE  BeginsLike(in, got)
    <2> DEFINE a == AtomsOf(part)
               b == AtomsOf(p[k + 1])
    <2>1. /\ part \in AtomTs
          /\ \/ Len(part.data) = 1
             \/ /\ part.type = p[k + 1].type /\ Len(part.data) <= Len(p[k + 1].data)
                /\ \A j \in 1..Len(part.data) : part.data[j] = p[k + 1].data[j]
        BY <1>2, PartialIs
    <2>2. /\ a \in Seq(Gotten) /\ Len(a) = Len(part.data) /\ Len(a) \in Nat
          /\ \A j \in 1..Len(a) : a[j] = [type |-> TypeOf(part.type), value |-> part.data[j]]
          /\ b \in Seq(Gotten) /\ Len(b) = Len(p[k + 1].data) /\ Len(b) \in Nat
          /\ \A j \in 1..Len(b) : b[j] = [type |-> TypeOf(p[k + 1].type), value |-> p[k + 1].data[j]]
        BY <1>2, <2>1, AtomsOfType
    <2>3. got = Cat(g, a) /\ h = Cat(g, b)
        <3>1. FirstOf(p, k + 1) = Append(FirstOf(p, k), p[k + 1])
            BY <1>1, FrontOneMore
        <3>2. h = Cat(g, b)
            BY <1>2, <3>1, GetAtomsAppend
        <3> QED BY <1>2, <1>5, <2>1, <3>2, GetAtomsAppend
    <2> HIDE DEF g, h, got, a, b
    <2>4. /\ Len(got) = Len(g) + Len(a)
          /\ \A i \in 1..(Len(g) + Len(a)) : got[i] = IF i <= Len(g) THEN g[i] ELSE a[i - Len(g)]
          /\ Len(h) = Len(g) + Len(b)
          /\ \A i \in 1..(Len(g) + Len(b)) : h[i] = IF i <= Len(g) THEN g[i] ELSE b[i - Len(g)]
        <3>1. Joining(g, a, got) /\ Joining(g, b, h)
            BY <1>3, <2>2, <2>3, CatIs
        <3> QED BY <3>1 DEF Joining
    <2>5. CASE Len(part.data) = 1
        <3> SUFFICES ASSUME NEW i \in 1..(Len(got) - 1)
                     PROVE  i <= Len(in) /\ ArrivesAs(in[i], got[i])
            BY DEF BeginsLike
        <3>1. i \in 1..Len(g) /\ i \in 1..(Len(g) + Len(a))
            BY <1>3, <2>2, <2>4, <2>5
        <3>2. got[i] = g[i]
            BY <2>4, <3>1
        <3>3. Len(g) <= Len(in) /\ ArrivesAs(in[i], g[i])
            BY <1>3, <3>1 DEF Fits
        <3> QED BY <1>1, <1>3, <3>1, <3>2, <3>3
    <2>6. CASE /\ part.type = p[k + 1].type /\ Len(part.data) <= Len(p[k + 1].data)
               /\ \A j \in 1..Len(part.data) : part.data[j] = p[k + 1].data[j]
        <3> SUFFICES ASSUME NEW i \in 1..(Len(got) - 1)
                     PROVE  i <= Len(in) /\ ArrivesAs(in[i], got[i])
            BY DEF BeginsLike
        <3>1. i \in 1..(Len(g) + Len(a)) /\ i \in 1..(Len(g) + Len(b)) /\ i \in 1..Len(h)
              /\ (~(i <= Len(g)) => i - Len(g) \in 1..Len(a) /\ i - Len(g) \in 1..Len(b))
            BY <1>3, <2>2, <2>4, <2>6
        <3>2. \A j \in 1..Len(a) : j \in 1..Len(b) => a[j] = b[j]
            BY <2>2, <2>6
        <3>3. got[i] = h[i]
            BY <2>4, <3>1, <3>2
        <3>4. Len(h) <= Len(in) /\ ArrivesAs(in[i], h[i])
            BY <1>3, <3>1 DEF Fits
        <3> QED BY <1>1, <1>3, <3>1, <3>3, <3>4
    <2> QED BY <2>1, <2>5, <2>6
<1> QED BY <1>4, <1>5

\* on_read emits what was pushed.
LEMMA ReadTells ==
    ASSUME MessageInv, NEW frame \in {"whole", "cut", "text"}, Read(frame)
    PROVE  MessageInv'
<1>1. PICK parsed \in Received(frame) : Emit(frame, parsed)
    BY DEF Read
<1>2. /\ proto' = proto /\ data_' = data_ /\ pushed' = pushed /\ snapshot' = snapshot
      /\ out' = <<[frame |-> frame, of |-> snapshot, atoms |-> GetAtoms(parsed)]>>
    BY <1>1 DEF Read, Emit
<1>3. Tells(data_, snapshot) /\ Len(data_) \in Nat /\ Len(snapshot) \in Nat
    BY LenProperties DEF MessageInv, Tells
<1> DEFINE got == GetAtoms(parsed)
<1>4. frame = "whole" => /\ Len(got) = Len(snapshot)
                         /\ \A i \in DOMAIN snapshot : ArrivesAs(snapshot[i], got[i])
    <2> SUFFICES ASSUME frame = "whole"
                 PROVE  /\ Len(got) = Len(snapshot)
                        /\ \A i \in DOMAIN snapshot : ArrivesAs(snapshot[i], got[i])
        OBVIOUS
    <2>1. parsed = data_
        BY DEF Received
    <2>2. Len(got) = Len(snapshot) /\ DOMAIN snapshot = 1..Len(snapshot)
        BY <1>3, <2>1, LenProperties DEF Tells
    <2>3. FirstOf(data_, Len(data_)) = data_ /\ Len(data_) \in 0..Len(data_)
        BY <1>3, FrontIs DEF Tells
    <2>4. Fits(snapshot, got)
        BY <1>3, <2>1, <2>3 DEF Tells
    <2> QED BY <2>2, <2>4 DEF Fits
<1>5. frame = "cut" => BeginsLike(snapshot, got)
    <2> SUFFICES ASSUME frame = "cut" PROVE BeginsLike(snapshot, got)
        OBVIOUS
    <2>1. PICK symbol \in Values : parsed \in Cut(symbol)
        <3>1. Received(frame) = UNION {Cut(a.value) : a \in {b \in AtomsIn : b.type = "sym"}}
            BY DEF Received
        <3>2. PICK a \in AtomsIn : parsed \in Cut(a.value)
            BY <3>1
        <3> QED BY <3>2 DEF Values
    <2>2. PICK k \in 0..(Len(data_) - 1) :
              parsed \in {SubSeq(data_, 1, k)} \cup
                         {Append(SubSeq(data_, 1, k), part) : part \in Partial(data_[k + 1], symbol)}
        BY <2>1 DEF Cut
    <2>3. parsed = FirstOf(data_, k) \/ \E part \in Partial(data_[k + 1], symbol) :
                                          parsed = Append(FirstOf(data_, k), part)
        BY <2>2 DEF FirstOf
    <2> QED BY <1>3, <2>3, CutBegins
<1>6. frame = "text" => got = <<>>
    BY <1>1, GetAtomsDone DEF Received
<1> HIDE DEF got
<1>7. EmittedIsPushed'
    <2>1. out'[1] = [frame |-> frame, of |-> snapshot, atoms |-> got]
        BY <1>2 DEF got
    <2>2. out'[1].frame = frame /\ out'[1].of = snapshot /\ out'[1].atoms = got
        BY <2>1
    <2> QED BY <1>4, <1>5, <1>6, <2>2 DEF EmittedIsPushed, BeginsLike
<1> QED BY <1>2, <1>7 DEF MessageInv

LEMMA MessageInvStep == MessageInv /\ [MessageNext]_messageVars => MessageInv'
<1> SUFFICES ASSUME MessageInv, [MessageNext]_messageVars PROVE MessageInv'
    OBVIOUS
<1> DEFINE All == AtomsIn \cup UNION {ToSet(arr) : arr \in ArraysIn}
<1>1. ASSUME NEW atom \in AtomsIn, PushAtom(atom) PROVE MessageInv'
    <2>1. <<atom>> \in Seq(AtomsIn) /\ Len(<<atom>>) = 1 /\ <<atom>>[1] = atom
        OBVIOUS
    <2>2. \E S \in SUBSET All : <<atom>> \in Seq(S)
        BY <2>1
    <2>3. /\ Encoded(atom) \in AtomTs /\ Len(Encoded(atom).data) = Len(<<atom>>)
          /\ \A j \in 1..Len(<<atom>>) :
                 ArrivesAs([atom |-> <<atom>>[j], array |-> FALSE], AtomsOf(Encoded(atom))[j])
        <3>1. /\ Encoded(atom) \in AtomTs /\ Len(Encoded(atom).data) = 1
              /\ ArrivesAs([atom |-> atom, array |-> FALSE], AtomsOf(Encoded(atom))[1])
            BY EncodedArrives
        <3>2. \A j \in 1..Len(<<atom>>) : j = 1
            BY <2>1
        <3>3. \A j \in 1..Len(<<atom>>) :
                  ArrivesAs([atom |-> <<atom>>[j], array |-> FALSE], AtomsOf(Encoded(atom))[j])
            BY <2>1, <3>1, <3>2
        <3> QED BY <2>1, <3>1, <3>3
    <2> QED BY <1>1, <2>2, <2>3, PushTells DEF PushAtom
<1>2. ASSUME NEW atoms \in ArraysIn, NEW type \in {"long", "float"}, PushAtomArray(atoms, type)
      PROVE  MessageInv'
    <2>1. \E S \in SUBSET All : atoms \in Seq(S)
        BY MessageAssumption
    <2>2. /\ EncodedArray(atoms, type) \in AtomTs
          /\ Len(EncodedArray(atoms, type).data) = Len(atoms)
          /\ \A j \in 1..Len(atoms) :
                 ArrivesAs([atom |-> atoms[j], array |-> TRUE], AtomsOf(EncodedArray(atoms, type))[j])
        BY <1>2, EncodedArrayArrives DEF PushAtomArray
    <2> QED BY <1>2, <2>1, <2>2, PushTells DEF PushAtomArray
<1>3. CASE Serialize
    BY <1>3 DEF Serialize, MessageInv, EmittedIsPushed, Tells
<1>4. CASE UNCHANGED messageVars
    BY <1>4 DEF messageVars, MessageInv, EmittedIsPushed, Tells
<1> QED BY <1>1, <1>2, <1>3, <1>4, ReadTells DEF MessageNext

\* Whatever atoms and arrays push_atom and push_atomarray put into a message, and
\* however many: get_atoms yields them in order and number from a whole frame, each
\* as far as its field can hold it, and of a frame that was cut it makes up at most
\* the last atom.
THEOREM MessagesArriveAsPushed == MessageSpec => []EmittedIsPushed
<1>1. MessageInit => MessageInv
    BY TellsNothing DEF MessageInit, MessageInv, EmittedIsPushed
<1>2. MessageInv => EmittedIsPushed
    BY DEF MessageInv
<1> QED BY <1>1, <1>2, MessageInvStep, PTL DEF MessageSpec
=============================================================================
