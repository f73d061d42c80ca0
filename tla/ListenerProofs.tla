--------------------------- MODULE ListenerProofs ---------------------------
(***************************************************************************)
(* Theorems about the accept loop: exclusive use of the socket, an io      *)
(* thread that never waits for the mutex, and each connection and each end *)
(* of the loop handed to the handler once.                                 *)
(***************************************************************************)
EXTENDS Listener, SequenceTheorems, TLAPS

Items == Handlers \cup Lambdas

\* The mutex is locked exactly from a handler to the lambda it posted.
LockSpans == ~overlap => (mutex <=> RunsLambda)

LInv == TypeOK /\ OneSocketUser /\ LockSpans

LEMMA HandlerIsItem ==
    ASSUME NEW c \in Connections \cup {None}
    PROVE  Handler(c) \in Items /\ Handler(c).what = "accept_handler"
    BY DEF Handler, Items, Handlers

LEMMA LambdaIsItem ==
    ASSUME NEW ok \in BOOLEAN
    PROVE  Lambda(ok) \in Items /\ Lambda(ok).what = "lambda"
    BY DEF Lambda, Items, Lambdas

\* The handlers of aborted operations, behind a queue.
LEMMA AbortedItems ==
    ASSUME NEW n \in Nat, NEW q \in Seq(Items)
    PROVE  /\ q \o Aborted(n) \in Seq(Items)
           /\ Len(q \o Aborted(n)) = Len(q) + n
           /\ n = 0 => q \o Aborted(n) = q
           /\ q # <<>> => Head(q \o Aborted(n)) = Head(q)
           /\ q = <<>> /\ n > 0 => Head(q \o Aborted(n)) = Handler(None)
<1>1. Aborted(n) \in Seq(Items) /\ Len(Aborted(n)) = n
    BY HandlerIsItem DEF Aborted
<1>2. n = 0 => Aborted(n) = <<>>
    BY <1>1, EmptySeq
<1>3. n > 0 => Aborted(n)[1] = Handler(None)
    BY DEF Aborted
<1> HIDE DEF Aborted
<1>4. q \o Aborted(n) \in Seq(Items) /\ Len(q \o Aborted(n)) = Len(q) + n
    BY <1>1, ConcatProperties
<1>5. n = 0 => q \o Aborted(n) = q
    BY <1>2, ConcatEmptySeq
<1>6. q # <<>> => Head(q \o Aborted(n)) = Head(q)
    BY <1>1, <1>4, ConcatProperties, EmptySeq
<1>7. q = <<>> /\ n > 0 => Head(q \o Aborted(n)) = Handler(None)
    BY <1>1, <1>3, ConcatEmptySeq
<1> QED BY <1>4, <1>5, <1>6, <1>7

\* A queue of one element that is run and posts at most one.
LEMMA ShortQueue ==
    ASSUME NEW q \in Seq(Items), q # <<>>, Len(q) <= 1
    PROVE  Tail(q) = <<>> /\ Len(q) = 1
<1>1. Len(q) \in Nat /\ Len(q) # 0
    BY EmptySeq
<1>2. Len(q) = 1
    <2> DEFINE n == Len(q)
    <2>1. n \in Nat /\ n # 0 /\ n <= 1
        BY <1>1
    <2> HIDE DEF n
    <2>2. n = 1
        BY <2>1
    <2> QED BY <2>2 DEF n
<1>3. Tail(q) \in Seq(Items) /\ Len(Tail(q)) = 0
    BY <1>2, HeadTailProperties
<1> QED BY <1>2, <1>3, EmptySeq

LEMMA AppendItem ==
    ASSUME NEW q \in Seq(Items), NEW e \in Items
    PROVE  /\ Append(q, e) \in Seq(Items) /\ Append(q, e) # <<>>
           /\ Len(Append(q, e)) = Len(q) + 1
           /\ q = <<>> => Head(Append(q, e)) = e
    BY AppendProperties, EmptySeq

-----------------------------------------------------------------------------

LEMMA LInvInit == Init => LInv
<1> SUFFICES ASSUME Init PROVE LInv
    OBVIOUS
<1>1. mutex = FALSE /\ overlap = FALSE /\ failed = FALSE
    BY DEF Init
<1>2. TypeOK
    <2>1. mutex \in BOOLEAN /\ overlap \in BOOLEAN /\ failed \in BOOLEAN
        BY <1>1
    <2>2. /\ status_ = "CLOSED" /\ acceptor_ = "none" /\ accepting = 0
          /\ socket_ = None /\ starts = 0 /\ opened = 0 /\ ends = 0
          /\ io = <<>> /\ taken = <<>> /\ delivered = <<>>
        BY DEF Init
    <2>3. /\ io \in Seq(Handlers \cup Lambdas) /\ taken \in Seq(Connections)
          /\ delivered \in Seq(Connections)
        BY <2>2
    <2> QED BY <2>1, <2>2, <2>3, ListenerAssumption DEF TypeOK
<1>3. OneSocketUser /\ LockSpans
    BY <1>1 DEF Init, OneSocketUser, LockSpans, RunsLambda
<1> QED BY <1>2, <1>3 DEF LInv

\* async_accept() keeps the types, and adds one accept or one handler.
LEMMA AsyncAcceptAdds ==
    ASSUME NEW acc, NEW sock, NEW pending \in Nat, NEW q \in Seq(Items),
           AsyncAccept(acc, sock, pending, q)
    PROVE  /\ accepting' \in Nat /\ io' \in Seq(Items)
           /\ accepting' + Len(io') = pending + Len(q) + 1
           /\ q = <<>> => io' = <<>> \/ Head(io').what = "accept_handler"
<1>1. Handler(None) \in Items /\ Handler(None).what = "accept_handler"
    BY HandlerIsItem
<1>2. CASE acc = "open" /\ sock = None
    BY <1>2 DEF AsyncAccept
<1>3. CASE ~(acc = "open" /\ sock = None)
    BY <1>1, <1>3, AppendItem DEF AsyncAccept
<1> QED BY <1>2, <1>3

LEMMA StartListenStep == LInv /\ StartListen => LInv'
<1> SUFFICES ASSUME LInv, StartListen PROVE LInv'
    OBVIOUS
<1>1. accepting \in Nat /\ io \in Seq(Items)
    BY DEF LInv, TypeOK, Items
<1> DEFINE q == io \o Aborted(accepting)
<1>2. q \in Seq(Items) /\ Len(q) = Len(io) + accepting
    BY <1>1, AbortedItems
<1>3. /\ accepting' \in Nat /\ io' \in Seq(Items)
      /\ accepting' + Len(io') <= Len(q) + 1
      /\ q = <<>> => io' = <<>> \/ Head(io').what = "accept_handler"
    <2>1. CASE io' = q /\ accepting' = 0
        BY <2>1, <1>2
    <2>2. CASE AsyncAccept("open", socket_, 0, q)
        <3> HIDE DEF q
        <3> QED BY <2>2, <1>2, AsyncAcceptAdds
    <2> QED BY <2>1, <2>2 DEF StartListen
<1>4. TypeOK'
    <2>1. /\ status_' \in {"OPEN", "CLOSED"} /\ acceptor_' \in {"open", "closed"}
          /\ opened' \in Nat /\ starts' \in 0..MaxStarts
        BY ListenerAssumption DEF StartListen, LInv, TypeOK
    <2>2. overlap' \in BOOLEAN
        BY DEF StartListen
    <2>3. UNCHANGED <<socket_, mutex, taken, delivered, ends, failed>>
        BY DEF StartListen
    <2> QED BY <1>3, <2>1, <2>2, <2>3 DEF LInv, TypeOK, Items
<1>5. ASSUME ~overlap' PROVE q = <<>> /\ Len(q) = 0 /\ ~overlap /\ io = <<>>
    <2>1. ~overlap /\ accepting = 0 /\ io = <<>>
        BY <1>5 DEF StartListen, Idle
    <2> QED BY <2>1, <1>1, <1>2, AbortedItems
<1>6. ASSUME ~overlap' PROVE socket_' = None /\ ~mutex'
    BY <1>5, <1>6 DEF StartListen, LInv, OneSocketUser, LockSpans, RunsLambda
<1>7. OneSocketUser' /\ LockSpans'
    <2> HIDE DEF q
    <2> QED BY <1>3, <1>5, <1>6 DEF OneSocketUser, LockSpans, RunsLambda
<1> QED BY <1>4, <1>7 DEF LInv

LEMMA StopListenStep == LInv /\ StopListen => LInv'
<1> SUFFICES ASSUME LInv, StopListen PROVE LInv'
    OBVIOUS
<1>1. accepting \in Nat /\ io \in Seq(Items)
    BY DEF LInv, TypeOK, Items
<1>2. /\ accepting' = 0 /\ io' = io \o Aborted(accepting)
      /\ UNCHANGED <<socket_, mutex, overlap>>
    BY DEF StopListen, AbortPending, history
<1>3. io' \in Seq(Items) /\ Len(io') = Len(io) + accepting
    BY <1>1, <1>2, AbortedItems
<1>4. TypeOK'
    BY <1>2, <1>3 DEF StopListen, history, LInv, TypeOK, Items
<1>5. RunsLambda' <=> RunsLambda
    <2>1. CASE io # <<>>
        <3>1. Head(io') = Head(io) /\ io' # <<>>
            BY <2>1, <1>1, <1>2, <1>3, AbortedItems, EmptySeq
        <3> QED BY <2>1, <3>1 DEF RunsLambda
    <2>2. CASE io = <<>> /\ accepting = 0
        BY <2>2, <1>1, <1>2, AbortedItems DEF RunsLambda
    <2>3. CASE io = <<>> /\ accepting > 0
        BY <2>3, <1>1, <1>2, AbortedItems, HandlerIsItem DEF RunsLambda
    <2> QED BY <1>1, <2>1, <2>2, <2>3
<1>6. OneSocketUser' /\ LockSpans'
    BY <1>1, <1>2, <1>3, <1>5 DEF LInv, OneSocketUser, LockSpans
<1> QED BY <1>4, <1>6 DEF LInv

LEMMA AcceptHandlerStep == LInv /\ AcceptHandler => LInv'
<1> SUFFICES ASSUME LInv, AcceptHandler PROVE LInv'
    OBVIOUS
<1>1. accepting \in Nat /\ io \in Seq(Items) /\ io # <<>>
    BY DEF LInv, TypeOK, Items, AcceptHandler
<1>2. Head(io).conn \in Connections \cup {None}
    <2>1. Head(io) \in Handlers \cup Lambdas
        BY <1>1, HeadTailProperties DEF Items
    <2> QED BY <2>1 DEF AcceptHandler, Handlers, Lambdas
<1>3. PICK ok \in BOOLEAN : io' = Append(Tail(io), Lambda(ok))
    BY DEF AcceptHandler, PostLambda
<1>4. Tail(io) \in Seq(Items) /\ Len(Tail(io)) = Len(io) - 1
    BY <1>1, HeadTailProperties, EmptySeq
<1>5. io' \in Seq(Items) /\ Len(io') = Len(io) /\ io' # <<>>
    BY <1>1, <1>3, <1>4, AppendItem, LambdaIsItem
<1>6. accepting' = accepting /\ mutex' = TRUE /\ overlap' = overlap
    BY DEF AcceptHandler, PostLambda, history
<1>7. TypeOK'
    BY <1>2, <1>5, <1>6 DEF AcceptHandler, history, LInv, TypeOK, Items
<1>8. ASSUME ~overlap PROVE RunsLambda'
    <2>1. Tail(io) = <<>>
        BY <1>1, <1>8, ShortQueue DEF LInv, OneSocketUser
    <2>2. Head(io') = Lambda(ok)
        BY <2>1, <1>3, <1>4, AppendItem, LambdaIsItem
    <2> QED BY <2>2, <1>5, LambdaIsItem DEF RunsLambda
<1>9. OneSocketUser' /\ LockSpans'
    BY <1>1, <1>5, <1>6, <1>8 DEF LInv, OneSocketUser, LockSpans
<1> QED BY <1>7, <1>9 DEF LInv

LEMMA RunLambdaStep == LInv /\ RunLambda => LInv'
<1> SUFFICES ASSUME LInv, RunLambda PROVE LInv'
    OBVIOUS
<1>1. accepting \in Nat /\ io \in Seq(Items) /\ io # <<>>
    BY DEF LInv, TypeOK, Items, RunLambda
<1>2. Tail(io) \in Seq(Items) /\ Len(Tail(io)) = Len(io) - 1 /\ Len(io) \in Nat
    BY <1>1, HeadTailProperties, EmptySeq
<1>3. /\ accepting' \in Nat /\ io' \in Seq(Items)
      /\ accepting' + Len(io') <= accepting + Len(io)
      /\ Tail(io) = <<>> => io' = <<>> \/ Head(io').what = "accept_handler"
    <2>1. CASE AsyncAccept(acceptor_, None, accepting, Tail(io))
        <3>1. /\ accepting' \in Nat /\ io' \in Seq(Items)
              /\ accepting' + Len(io') = accepting + Len(Tail(io)) + 1
              /\ Tail(io) = <<>> => io' = <<>> \/ Head(io').what = "accept_handler"
            BY <2>1, <1>1, <1>2, AsyncAcceptAdds
        <3> QED BY <3>1, <1>1, <1>2
    <2>2. CASE accepting' = accepting /\ io' = Tail(io)
        BY <2>2, <1>1, <1>2
    <2> QED BY <2>1, <2>2 DEF RunLambda, AcceptAgain
<1>4. mutex' = FALSE /\ overlap' = overlap /\ socket_' = None
    BY DEF RunLambda, Unlock
<1>5. delivered' \in Seq(Connections) /\ ends' \in Nat
    <2>1. /\ delivered \in Seq(Connections) /\ ends \in Nat
          /\ socket_ # None => socket_ \in Connections
        BY DEF LInv, TypeOK
    <2>2. CASE socket_ # None /\ delivered' = Append(delivered, socket_) /\ ends' = ends
        BY <2>1, <2>2, AppendProperties
    <2>3. CASE delivered' = delivered /\ ends' = ends + 1
        BY <2>1, <2>3
    <2> QED BY <2>2, <2>3 DEF RunLambda, Deliver
<1>6. TypeOK'
    BY <1>3, <1>4, <1>5 DEF RunLambda, LInv, TypeOK, Items
<1>7. ASSUME ~overlap PROVE ~RunsLambda'
    <2>1. Tail(io) = <<>>
        BY <1>1, <1>7, ShortQueue DEF LInv, OneSocketUser
    <2> QED BY <2>1, <1>3 DEF RunsLambda
<1>8. OneSocketUser' /\ LockSpans'
    BY <1>1, <1>2, <1>3, <1>4, <1>7 DEF LInv, OneSocketUser, LockSpans
<1> QED BY <1>6, <1>8 DEF LInv

\* A pending accept completes, with a connection or an error.
LEMMA CompletionStep ==
    ASSUME LInv, NEW c \in Connections \cup {None}, accepting > 0,
           accepting' = accepting - 1, io' = Append(io, Handler(c)),
           UNCHANGED <<socket_, mutex, overlap>>
    PROVE  /\ accepting' \in Nat /\ io' \in Seq(Items)
           /\ OneSocketUser' /\ LockSpans'
<1>1. accepting \in Nat /\ io \in Seq(Items) /\ Len(io) \in Nat
    BY DEF LInv, TypeOK, Items
<1>2. io' \in Seq(Items) /\ Len(io') = Len(io) + 1
    BY <1>1, AppendItem, HandlerIsItem
<1>3. ASSUME ~overlap PROVE ~RunsLambda /\ ~RunsLambda'
    <2>1. io = <<>>
        BY <1>1, <1>3, EmptySeq DEF LInv, OneSocketUser
    <2> QED BY <2>1, <1>1, AppendItem, HandlerIsItem DEF RunsLambda
<1> QED BY <1>1, <1>2, <1>3 DEF LInv, OneSocketUser, LockSpans

LEMMA LInvStep == LInv /\ [Next]_vars => LInv'
<1> SUFFICES ASSUME LInv, [Next]_vars PROVE LInv'
    OBVIOUS
<1>1. CASE StartListen
    BY <1>1, StartListenStep
<1>2. CASE StopListen
    BY <1>2, StopListenStep
<1>3. CASE AcceptHandler
    BY <1>3, AcceptHandlerStep
<1>4. CASE RunLambda
    BY <1>4, RunLambdaStep
<1>5. ASSUME NEW c \in Connections, Arrive(c) PROVE LInv'
    <2>1. accepting' \in Nat /\ io' \in Seq(Items) /\ OneSocketUser' /\ LockSpans'
        BY <1>5, CompletionStep DEF Arrive
    <2>2. taken' \in Seq(Connections)
        BY <1>5, AppendProperties DEF Arrive, LInv, TypeOK
    <2> QED BY <2>1, <2>2, <1>5 DEF Arrive, LInv, TypeOK, Items
<1>6. CASE AcceptFails
    <2>1. accepting' \in Nat /\ io' \in Seq(Items) /\ OneSocketUser' /\ LockSpans'
        BY <1>6, CompletionStep DEF AcceptFails
    <2> QED BY <2>1, <1>6 DEF AcceptFails, LInv, TypeOK, Items
<1>7. CASE UNCHANGED vars
    BY <1>7 DEF vars, ioVars, history, LInv, TypeOK, OneSocketUser, LockSpans,
                RunsLambda
<1> QED BY <1>1, <1>2, <1>3, <1>4, <1>5, <1>6, <1>7 DEF Next

-----------------------------------------------------------------------------
(* A listener that is OPEN and has had no failure goes round its loop.     *)

\* What the io thread has to run next is no error.
GoesOn ==
    /\ acceptor_ = "open" /\ ~Idle
    /\ io # <<>> => IF Head(io).what = "lambda" THEN Head(io).ok ELSE Head(io).conn # None

OpenInv == ~overlap /\ ~failed /\ status_ = "OPEN" => GoesOn

\* async_accept() on an open acceptor with a free socket.
LEMMA AcceptGoesOn ==
    ASSUME NEW pending \in Nat, AsyncAccept("open", None, pending, <<>>)
    PROVE  accepting' # 0 /\ io' = <<>>
    BY DEF AsyncAccept

LEMMA OpenInvStep == LInv /\ OpenInv /\ [Next]_vars => OpenInv'
<1> SUFFICES ASSUME LInv, OpenInv, [Next]_vars,
                    ~overlap', ~failed', status_' = "OPEN"
             PROVE  GoesOn'
    BY DEF OpenInv
<1>0. accepting \in Nat /\ io \in Seq(Items)
    BY DEF LInv, TypeOK, Items
<1>1. CASE StartListen
    <2>1. ~overlap /\ accepting = 0 /\ io = <<>>
        BY <1>1 DEF StartListen, Idle
    <2>2. socket_ = None /\ io \o Aborted(accepting) = <<>>
        <3>1. socket_ = None
            BY <2>1 DEF LInv, OneSocketUser, RunsLambda
        <3>2. io \o Aborted(accepting) = io
            BY <1>0, <2>1, AbortedItems
        <3> QED BY <3>1, <3>2, <2>1
    <2>3. acceptor_' = "open" /\ AsyncAccept("open", None, 0, <<>>)
        BY <1>1, <2>2 DEF StartListen
    <2> QED BY <2>3, AcceptGoesOn DEF GoesOn, Idle
<1>2. CASE StopListen
    BY <1>2 DEF StopListen
<1>3. CASE AcceptHandler
    <2>1. /\ ~overlap /\ ~failed /\ status_ = "OPEN" /\ acceptor_' = acceptor_
          /\ io # <<>> /\ Head(io).what = "accept_handler"
        BY <1>3 DEF AcceptHandler, history
    <2>2. acceptor_ = "open" /\ Head(io).conn # None
        BY <2>1 DEF OpenInv, GoesOn
    <2>3. socket_ = None
        BY <2>1 DEF LInv, OneSocketUser, RunsLambda
    <2>4. io' = Append(Tail(io), Lambda(TRUE))
        BY <1>3, <2>2, <2>3 DEF AcceptHandler, PostLambda
    <2>5. Tail(io) = <<>> /\ Tail(io) \in Seq(Items)
        BY <1>0, <2>1, ShortQueue, HeadTailProperties DEF LInv, OneSocketUser
    <2>6. io' # <<>> /\ Head(io') = Lambda(TRUE)
        BY <2>4, <2>5, AppendItem, LambdaIsItem
    <2>7. Lambda(TRUE).what = "lambda" /\ Lambda(TRUE).ok
        BY DEF Lambda
    <2> QED BY <2>1, <2>2, <2>6, <2>7 DEF GoesOn, Idle
<1>4. CASE RunLambda
    <2>1. /\ ~overlap /\ ~failed /\ status_ = "OPEN" /\ acceptor_' = acceptor_
          /\ io # <<>> /\ Head(io).what = "lambda"
        BY <1>4 DEF RunLambda
    <2>2. acceptor_ = "open" /\ Head(io).ok
        BY <2>1 DEF OpenInv, GoesOn
    <2>3. Tail(io) = <<>>
        BY <1>0, <2>1, ShortQueue DEF LInv, OneSocketUser
    <2>4. AsyncAccept("open", None, accepting, <<>>)
        BY <1>4, <2>2, <2>3 DEF RunLambda, AcceptAgain
    <2> QED BY <1>0, <2>1, <2>2, <2>4, AcceptGoesOn DEF GoesOn, Idle
<1>5. ASSUME NEW c \in Connections, Arrive(c) PROVE GoesOn'
    <2>1. /\ ~overlap /\ ~failed /\ status_ = "OPEN" /\ acceptor_' = acceptor_
          /\ accepting > 0 /\ io' = Append(io, Handler(c))
        BY <1>5 DEF Arrive
    <2>2. io = <<>>
        BY <1>0, <2>1, EmptySeq DEF LInv, OneSocketUser
    <2>3. io' # <<>> /\ Head(io') = Handler(c) /\ c # None
        BY <1>0, <2>1, <2>2, AppendItem, HandlerIsItem, ListenerAssumption
    <2> QED BY <2>1, <2>3 DEF OpenInv, GoesOn, Idle, Handler
<1>6. CASE AcceptFails
    BY <1>6 DEF AcceptFails
<1>7. CASE UNCHANGED vars
    BY <1>7 DEF vars, ioVars, history, OpenInv, GoesOn, Idle
<1> QED BY <1>1, <1>2, <1>3, <1>4, <1>5, <1>6, <1>7 DEF Next

-----------------------------------------------------------------------------
(* Every connection comes out once, and every loop ends with one error.    *)

\* The lambda was posted with a connection exactly when socket_ holds one.
LambdaKnows == RunsLambda => (Head(io).ok <=> socket_ # None)

DInv == ~overlap =>
    /\ taken = delivered \o Coming
    /\ ends = IF Idle THEN opened ELSE opened - 1
    /\ LambdaKnows

\* What is under way is nothing, one pending accept, or one handler.
LEMMA OneAtATime ==
    ASSUME LInv, ~overlap
    PROVE  /\ accepting \in Nat /\ io \in Seq(Items)
           /\ io = <<>> \/ (accepting = 0 /\ Tail(io) = <<>>)
           /\ accepting = 0 \/ (accepting = 1 /\ io = <<>>)
           /\ ~RunsLambda => socket_ = None
<1>1. accepting \in Nat /\ io \in Seq(Items) /\ accepting + Len(io) <= 1
    BY DEF LInv, TypeOK, Items, OneSocketUser
<1>2. ASSUME io # <<>> PROVE accepting = 0 /\ Tail(io) = <<>>
    <2>1. Len(io) \in Nat /\ Len(io) # 0 /\ Len(io) <= 1
        BY <1>1, <1>2, EmptySeq
    <2> QED BY <1>1, <1>2, <2>1, ShortQueue
<1>3. ASSUME io = <<>> PROVE accepting = 0 \/ accepting = 1
    BY <1>1, <1>3
<1>4. ~RunsLambda => socket_ = None
    BY DEF LInv, OneSocketUser
<1> QED BY <1>1, <1>2, <1>3, <1>4

\* Nothing is coming while nothing is queued.
LEMMA NothingComing ==
    ASSUME LInv, ~overlap, io = <<>>
    PROVE  socket_ = None /\ Coming = <<>>
    BY OneAtATime DEF RunsLambda, Coming

\* Without a queue, or with an error at its head, there is nothing to deliver.
LEMMA ErrorComing ==
    ASSUME socket_' = None, io' = <<>> \/ Head(io') = Handler(None)
    PROVE  Coming' = <<>> /\ ~RunsLambda'
    BY HandlerIsItem DEF Coming, Handler, RunsLambda

LEMMA StartDelivers == LInv /\ DInv /\ StartListen => DInv'
<1> SUFFICES ASSUME LInv, DInv, StartListen, ~overlap' PROVE DInv'
    BY DEF DInv
<1>1. ~overlap /\ accepting = 0 /\ io = <<>>
    BY DEF StartListen, Idle
<1>2. io \o Aborted(accepting) = <<>>
    BY <1>1, OneAtATime, AbortedItems
<1>3. socket_ = None /\ Coming = <<>> /\ ends = opened
    BY <1>1, NothingComing DEF DInv, Idle
<1>4. UNCHANGED <<socket_, taken, delivered, ends>>
    BY DEF StartListen
<1>5. opened \in Nat
    BY DEF LInv, TypeOK
<1>6. CASE accepting' = 0 /\ io' = <<>> /\ opened' = opened
    BY <1>1, <1>3, <1>4, <1>6, ErrorComing DEF DInv, LambdaKnows, Idle
<1>7. CASE AsyncAccept("open", None, 0, <<>>) /\ opened' = opened + 1
    <2>1. accepting' = 1 /\ io' = <<>>
        BY <1>7 DEF AsyncAccept
    <2>2. Coming' = <<>> /\ ~RunsLambda'
        BY <2>1, <1>3, <1>4, ErrorComing
    <2>3. ends' = opened' - 1 /\ ~Idle'
        BY <2>1, <1>3, <1>4, <1>5, <1>7 DEF Idle
    <2> QED BY <1>1, <1>3, <1>4, <2>2, <2>3 DEF DInv, LambdaKnows
<1> QED BY <1>2, <1>3, <1>6, <1>7 DEF StartListen

LEMMA StopDelivers == LInv /\ DInv /\ StopListen => DInv'
<1> SUFFICES ASSUME LInv, DInv, StopListen, ~overlap PROVE DInv'
    BY DEF DInv, StopListen, history
<1>1. /\ accepting' = 0 /\ io' = io \o Aborted(accepting)
      /\ UNCHANGED <<socket_, taken, delivered, ends, opened, overlap>>
    BY DEF StopListen, AbortPending, history
<1>2. CASE accepting = 0
    <2>1. UNCHANGED <<accepting, io>>
        BY <1>1, <1>2, OneAtATime, AbortedItems
    <2> QED BY <1>1, <2>1 DEF DInv, Coming, Idle, LambdaKnows, RunsLambda
<1>3. CASE accepting = 1 /\ io = <<>>
    <2>0. io \in Seq(Items) /\ accepting \in Nat /\ Len(io) = 0
        BY <1>3, OneAtATime, EmptySeq
    <2>1. io' \in Seq(Items) /\ Len(io') = 1 /\ Head(io') = Handler(None)
        <3>1. /\ io' \in Seq(Items) /\ Len(io') = Len(io) + accepting
              /\ Head(io') = Handler(None)
            <4> DEFINE n == accepting
            <4>1. n \in Nat /\ n > 0
                BY <1>3, <2>0
            <4> HIDE DEF n
            <4>2. /\ io \o Aborted(n) \in Seq(Items)
                  /\ Len(io \o Aborted(n)) = Len(io) + n
                  /\ Head(io \o Aborted(n)) = Handler(None)
                BY <1>3, <2>0, <4>1, AbortedItems
            <4> QED BY <1>1, <4>2 DEF n
        <3> QED BY <1>3, <2>0, <3>1
    <2>2. ~Idle /\ ~Idle'
        <3>1. io' # <<>>
            BY <2>1, EmptySeq
        <3> QED BY <1>3, <3>1 DEF Idle
    <2>3. socket_ = None /\ Coming = <<>>
        BY <1>3, NothingComing
    <2>4. Coming' = <<>> /\ ~RunsLambda'
        BY <1>1, <2>1, <2>3, ErrorComing
    <2> QED BY <1>1, <2>2, <2>3, <2>4 DEF DInv, LambdaKnows
<1> QED BY <1>2, <1>3, OneAtATime

LEMMA HandlerDelivers == LInv /\ DInv /\ AcceptHandler => DInv'
<1> SUFFICES ASSUME LInv, DInv, AcceptHandler, ~overlap PROVE DInv'
    BY DEF DInv, AcceptHandler, history
<1> DEFINE ok == Head(io).conn # None
<1>1. io # <<>> /\ Head(io).what = "accept_handler" /\ ~RunsLambda
    BY DEF AcceptHandler, RunsLambda
<1>2. Tail(io) = <<>> /\ socket_ = None
    BY <1>1, OneAtATime
<1>3. /\ socket_' = (IF ok THEN Head(io).conn ELSE None)
      /\ io' = Append(<<>>, Lambda(ok)) /\ UNCHANGED accepting
    BY <1>2 DEF AcceptHandler, PostLambda
<1>4. Coming = IF ok THEN <<Head(io).conn>> ELSE <<>>
    BY <1>1, <1>2 DEF Coming
<1>5. io' # <<>> /\ Head(io') = Lambda(ok)
    BY <1>3
<1>6. RunsLambda' /\ (Head(io').ok <=> ok)
    <2>1. Lambda(ok).what = "lambda" /\ (Lambda(ok).ok <=> ok)
        BY DEF Lambda
    <2> QED BY <1>5, <2>1 DEF RunsLambda
<1>7. socket_' # None <=> ok
    BY <1>3
<1>8. Coming' = Coming
    BY <1>3, <1>4, <1>6 DEF Coming, RunsLambda
<1>9. ~Idle /\ ~Idle'
    BY <1>1, <1>5 DEF Idle
<1>10. UNCHANGED <<taken, delivered, ends, opened, overlap>>
    BY DEF AcceptHandler, history
<1> QED BY <1>6, <1>7, <1>8, <1>9, <1>10 DEF DInv, LambdaKnows

LEMMA LambdaDelivers == LInv /\ DInv /\ RunLambda => DInv'
<1> SUFFICES ASSUME LInv, DInv, RunLambda, ~overlap PROVE DInv'
    BY DEF DInv, RunLambda
<1>1. /\ io # <<>> /\ RunsLambda /\ ~Idle
      /\ socket_' = None /\ UNCHANGED <<taken, opened, overlap>>
    BY DEF RunLambda, RunsLambda, Idle
<1>2. Tail(io) = <<>> /\ accepting = 0
    BY <1>1, OneAtATime
<1>3. Head(io).ok <=> socket_ # None
    BY <1>1 DEF DInv, LambdaKnows
<1>4. ends = opened - 1 /\ taken = delivered \o Coming
    BY <1>1 DEF DInv
<1>5. delivered \in Seq(Connections) /\ opened \in Nat
    BY DEF LInv, TypeOK
<1>6. CASE socket_ # None
    <2>1. delivered' = Append(delivered, socket_) /\ ends' = ends
        BY <1>6 DEF RunLambda, Deliver
    <2>2. AsyncAccept(acceptor_, None, 0, <<>>)
        BY <1>2, <1>3, <1>6 DEF RunLambda, AcceptAgain
    <2>3. /\ io' = <<>> \/ io' = Append(<<>>, Handler(None))
          /\ accepting' # 0 \/ io' # <<>>
        BY <2>2 DEF AsyncAccept
    <2>4. Coming' = <<>> /\ ~RunsLambda' /\ ~Idle'
        BY <1>1, <2>3, ErrorComing DEF Idle
    <2>5. taken = delivered \o <<socket_>>
        BY <1>4, <1>6 DEF Coming
    <2>6. taken' = delivered' \o Coming'
        BY <1>1, <1>5, <1>6, <2>1, <2>4, <2>5
    <2> QED BY <1>1, <1>4, <2>1, <2>4, <2>6 DEF DInv, LambdaKnows
<1>7. CASE socket_ = None
    <2>1. delivered' = delivered /\ ends' = ends + 1
        BY <1>7 DEF RunLambda, Deliver
    <2>2. accepting' = 0 /\ io' = <<>>
        BY <1>2, <1>3, <1>7 DEF RunLambda, AcceptAgain
    <2>3. Coming' = <<>> /\ ~RunsLambda' /\ Idle'
        BY <1>1, <2>2, ErrorComing DEF Idle
    <2>4. Coming = <<>>
        BY <1>1, <1>7 DEF Coming, RunsLambda
    <2>5. ends' = opened'
        BY <1>1, <1>4, <1>5, <2>1
    <2> QED BY <1>1, <1>4, <2>1, <2>3, <2>4, <2>5 DEF DInv, LambdaKnows
<1> QED BY <1>6, <1>7

LEMMA ArriveDelivers ==
    ASSUME LInv, DInv, NEW c \in Connections, Arrive(c)
    PROVE  DInv'
<1> SUFFICES ASSUME ~overlap PROVE DInv'
    BY DEF DInv, Arrive
<1>1. io = <<>> /\ accepting # 0
    BY OneAtATime DEF Arrive
<1>2. socket_ = None /\ Coming = <<>>
    BY <1>1, NothingComing
<1>3. taken \in Seq(Connections) /\ delivered \in Seq(Connections)
    BY DEF LInv, TypeOK
<1>4. io' = Append(<<>>, Handler(c)) /\ taken' = Append(taken, c)
    BY <1>1 DEF Arrive
<1>5. UNCHANGED <<socket_, delivered, ends, opened, overlap>>
    BY DEF Arrive
<1>6. io' # <<>> /\ Head(io') = Handler(c) /\ c # None
    BY <1>4, ListenerAssumption
<1>7. Coming' = <<c>> /\ ~RunsLambda'
    BY <1>2, <1>5, <1>6 DEF Coming, RunsLambda, Handler
<1>8. ~Idle /\ ~Idle'
    BY <1>1, <1>6 DEF Idle
<1>9. taken' = delivered' \o Coming'
    <2>1. taken = delivered
        BY <1>2, <1>3 DEF DInv
    <2> QED BY <2>1, <1>3, <1>4, <1>5, <1>7
<1> QED BY <1>5, <1>7, <1>8, <1>9 DEF DInv, LambdaKnows

LEMMA FailureDelivers == LInv /\ DInv /\ AcceptFails => DInv'
<1> SUFFICES ASSUME LInv, DInv, AcceptFails, ~overlap PROVE DInv'
    BY DEF DInv, AcceptFails
<1>1. io = <<>> /\ accepting # 0
    BY OneAtATime DEF AcceptFails
<1>2. socket_ = None /\ Coming = <<>>
    BY <1>1, NothingComing
<1>3. io' = Append(<<>>, Handler(None))
    BY <1>1 DEF AcceptFails
<1>4. UNCHANGED <<socket_, taken, delivered, ends, opened, overlap>>
    BY DEF AcceptFails
<1>5. io' # <<>> /\ Head(io') = Handler(None)
    BY <1>3
<1>6. Coming' = <<>> /\ ~RunsLambda' /\ ~Idle /\ ~Idle'
    BY <1>1, <1>2, <1>4, <1>5, ErrorComing DEF Idle
<1> QED BY <1>2, <1>4, <1>6 DEF DInv, LambdaKnows

LEMMA DInvStep == LInv /\ DInv /\ [Next]_vars => DInv'
<1> SUFFICES ASSUME LInv, DInv, [Next]_vars PROVE DInv'
    OBVIOUS
<1>1. CASE UNCHANGED vars
    BY <1>1 DEF vars, ioVars, history, DInv, Coming, Idle, LambdaKnows, RunsLambda
<1> QED BY <1>1, StartDelivers, StopDelivers, HandlerDelivers, LambdaDelivers,
           ArriveDelivers, FailureDelivers DEF Next

LEMMA DInvInit == Init => DInv
<1> SUFFICES ASSUME Init PROVE DInv
    OBVIOUS
<1>1. /\ taken = <<>> /\ delivered = <<>> /\ socket_ = None /\ io = <<>>
      /\ ends = 0 /\ opened = 0 /\ accepting = 0
    BY DEF Init
<1>2. Coming = <<>> /\ Idle /\ ~RunsLambda
    BY <1>1 DEF Coming, Idle, RunsLambda
<1> QED BY <1>1, <1>2 DEF DInv, LambdaKnows

-----------------------------------------------------------------------------

\* Every variable keeps its type, for any number of starts and connections.
THEOREM ListenerTypes == Spec => []TypeOK
<1>1. LInv => TypeOK BY DEF LInv
<1> QED BY LInvInit, LInvStep, <1>1, PTL DEF Spec

\* The socket has one user at a time, as long as each start_listen() finds the
\* loop before it ended.
THEOREM SocketIsExclusive == Spec => []OneSocketUser
<1>1. LInv => OneSocketUser BY DEF LInv
<1> QED BY LInvInit, LInvStep, <1>1, PTL DEF Spec

\* A listener that says it is OPEN is accepting, as long as no accept has failed by
\* itself and each start_listen() found the loop before it ended.
THEOREM OpenListenerAccepts == Spec => []OpenAccepts
<1>1. Init => OpenInv
    BY DEF Init, OpenInv
<1>2. OpenInv => OpenAccepts
    BY DEF OpenInv, GoesOn, OpenAccepts
<1> QED BY LInvInit, LInvStep, OpenInvStep, <1>1, <1>2, PTL DEF Spec

\* The io thread never waits for the mutex it holds itself.
THEOREM ListenerNeverBlocks == Spec => []NeverBlocked
<1>1. LInv => NeverBlocked
    BY DEF LInv, LockSpans, RunsLambda, NeverBlocked
<1> QED BY LInvInit, LInvStep, <1>1, PTL DEF Spec

\* Each connection accepted is handed to the handler once, in the order of arrival,
\* and at most the one on its way to it is missing: also across stop_listen().
THEOREM ConnectionsComeOutOnce == Spec => []DeliveredOnce
<1>1. DInv => DeliveredOnce BY DEF DInv, DeliveredOnce
<1> QED BY LInvInit, LInvStep, DInvInit, DInvStep, <1>1, PTL DEF Spec

\* The handler hears of the end of each loop once, as an error, and of no end before.
THEOREM EndsAreReported == Spec => []EndReported
<1>1. DInv => EndReported BY DEF DInv, EndReported
<1> QED BY LInvInit, LInvStep, DInvInit, DInvStep, <1>1, PTL DEF Spec
=============================================================================
