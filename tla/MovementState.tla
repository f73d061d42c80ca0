---------------------------- MODULE MovementState ----------------------------
(***************************************************************************)
(* The one Movement message of an iiwa_move object: three handlers that    *)
(* set a group of its fields each, and "bang", whose receiver              *)
(* (websocketclient_iiwa.cpp) asks for the message's size and then         *)
(* serializes it.  All are declared threadsafe, which lets Max call them   *)
(* on any of its threads, and none takes a lock; a step is one protobuf    *)
(* call.  With too few arguments array_from_atoms throws; what leaves a    *)
(* handler that does not catch it is up to the caller, and not modelled.   *)
(***************************************************************************)
EXTENDS Naturals, Sequences, SequencesExt

CONSTANTS
    Threads,    \* the threads of Max that call handlers
    Types,      \* the symbols that name a type of movement
    Size,       \* fields of a group; 7, 3 and 4 in the code
    MaxCalls    \* bound on the number of calls

ASSUME MovementAssumption == "JOINT" \in Types /\ Size \in Nat \ {0} /\ MaxCalls \in Nat

VARIABLES
    joints,     \* jointpositions: the repeated field
    filter,     \* filterparameter
    params,     \* jointparameter
    movetype,   \* set by the constructor
    running,    \* of each thread: the handler it runs and how far it has come
    calls,      \* number of calls so far; a call sets its own number as value
    latest,     \* history: the last call of each handler that has returned
    sent        \* what has been sent; <<>> or the last serialized message

movementVars == <<joints, filter, params, movetype, running, calls, latest, sent>>

Groups == {"joints", "filter", "params"}
Fields == 1..Size

\* A group that is not there reads as zeros.
Cleared == [i \in Fields |-> 0]

Idle == [op |-> "none", step |-> 0, call |-> 0, enough |-> TRUE, bytes |-> 0]

\* move_type_from_sym
MoveTypeFromSym(sym) ==
    [success |-> sym \in Types, type |-> IF sym \in Types THEN sym ELSE "JOINT"]

\* set_move_type on a new message, which is of type JOINT
SetMoveType(sym) == IF MoveTypeFromSym(sym).success THEN MoveTypeFromSym(sym).type ELSE "JOINT"

\* The constructor, with the symbol of its argument or none.
MovementInit ==
    /\ movetype \in {SetMoveType(sym) : sym \in Types \cup {"none"}}
    /\ joints = <<>> /\ filter = Cleared /\ params = Cleared
    /\ running = [t \in Threads |-> Idle]
    /\ calls = 0
    /\ latest = [g \in Groups |-> 0]
    /\ sent = <<>>

\* Fields with the value zero take no bytes.
NonZero(group) == {i \in Fields : group[i] # 0}
ByteSize == <<Len(joints), NonZero(filter), NonZero(params)>>

-----------------------------------------------------------------------------

\* A message arrives at an idle thread, with enough arguments or not.
Call(t, op, enough) ==
    /\ running[t] = Idle /\ calls < MaxCalls
    /\ calls' = calls + 1
    /\ running' = [running EXCEPT ![t] =
                       [Idle EXCEPT !.op = op, !.call = calls', !.enough = enough]]
    /\ UNCHANGED <<joints, filter, params, latest, sent>>

ClearsFirst(op) ==  \* mutant: the group is cleared before the arguments are read
    /\ joints' = IF op = "joints" THEN <<>> ELSE joints
    /\ UNCHANGED <<filter, params>>
KeepsGroups(op) == UNCHANGED <<joints, filter, params>>

\* array_from_atoms throws: nothing has been changed yet.
NotEnough(t) ==
    /\ running[t].op \in Groups /\ ~running[t].enough
    /\ running' = [running EXCEPT ![t] = Idle]
    /\ KeepsGroups(running[t].op)
    /\ UNCHANGED <<calls, latest, sent>>

\* The next protobuf call of the handler is made; after the last it returns.
Advance(t, last) ==
    LET r == running[t]
    IN /\ running' = [running EXCEPT ![t] =
                          IF r.step = last THEN Idle ELSE [r EXCEPT !.step = r.step + 1]]
       /\ latest' = IF r.step = last /\ r.op \in Groups
                    THEN [latest EXCEPT ![r.op] = r.call] ELSE latest

ClearJoints == joints' = <<>>

\* handle_joints_message
SetJoints(t) ==
    LET r == running[t]
    IN /\ r.op = "joints" /\ r.enough
       /\ IF r.step = 0 THEN ClearJoints ELSE joints' = Append(joints, r.call)
       /\ Advance(t, Size)
       /\ UNCHANGED <<filter, params, calls, sent>>

\* handle_filter_params
SetFilter(t) ==
    LET r == running[t]
    IN /\ r.op = "filter" /\ r.enough
       /\ filter' = IF r.step = 0 THEN Cleared ELSE [filter EXCEPT ![r.step] = r.call]
       /\ Advance(t, Size)
       /\ UNCHANGED <<joints, params, calls, sent>>

\* handle_joint_params clears the filter parameters, and not the joint parameters.
SetParams(t) ==
    LET r == running[t]
    IN /\ r.op = "params" /\ r.enough
       /\ IF r.step = 0 THEN filter' = Cleared /\ UNCHANGED params
          ELSE params' = [params EXCEPT ![r.step] = r.call] /\ UNCHANGED filter
       /\ Advance(t, Size)
       /\ UNCHANGED <<joints, calls, sent>>

\* send_msg, and new_mv_msg of the receiver: storage().resize( ByteSizeLong() )
\* and SerializeToArray(), whose result nobody looks at.  If the message has grown
\* it fails and leaves zeros, if it has shrunk zeros follow: a peer reads neither.
SendMsg(t) ==
    LET r == running[t]
    IN /\ r.op = "send"
       /\ \/ /\ r.step = 0
             /\ running' = [running EXCEPT ![t] = [r EXCEPT !.step = 1, !.bytes = ByteSize]]
             /\ UNCHANGED sent
          \/ /\ r.step = 1
             /\ running' = [running EXCEPT ![t] = Idle]
             /\ sent' = <<[readable |-> r.bytes = ByteSize, after |-> latest, type |-> movetype,
                            joints |-> joints, filter |-> filter, params |-> params]>>
       /\ UNCHANGED <<joints, filter, params, calls, latest>>

MovementNext ==
    /\ \E t \in Threads :
           \/ \E op \in Groups, enough \in BOOLEAN : Call(t, op, enough)
           \/ Call(t, "send", TRUE) \/ NotEnough(t)
           \/ SetJoints(t) \/ SetFilter(t) \/ SetParams(t) \/ SendMsg(t)
    /\ UNCHANGED movetype

MovementSpec == MovementInit /\ [][MovementNext]_movementVars
-----------------------------------------------------------------------------
(* Properties.                                                             *)

Message == sent[1]
Repeated(c) == [i \in Fields |-> c]

\* With one thread a peer gets what was set last: all joints of the last Joints
\* message and no others, the last parameters, and the filter parameters unless
\* JointParams, which clears them (iiwa_move.cpp:100), came after them.  A message
\* with too few arguments leaves what was set.
SentIsLatest ==
    sent # <<>> =>
        LET after == Message.after
        IN /\ Message.readable
           /\ Message.joints = IF after.joints = 0 THEN <<>> ELSE Repeated(after.joints)
           /\ Message.params = Repeated(after.params)
           /\ Message.filter = IF after.filter > after.params
                               THEN Repeated(after.filter) ELSE Cleared

\* message< threadsafe::yes >, iiwa_move.cpp:189-206: whatever threads call, what
\* is sent can be read, and each of its groups is of one call.
SentIsWhole ==
    sent # <<>> =>
        /\ Message.readable
        /\ Message.joints = <<>> \/ \E c \in 1..calls : Message.joints = Repeated(c)
        /\ \E c \in 0..calls : Message.filter = Repeated(c)
        /\ \E c \in 0..calls : Message.params = Repeated(c)
=============================================================================
