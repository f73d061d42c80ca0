----------------------------- MODULE MaxMessage -----------------------------
(***************************************************************************)
(* A max_message on its way: atoms are pushed (generic_max_message.h),     *)
(* serialize() turns them into bytes (proto_message_base.h), and the       *)
(* client object that gets the bytes in a frame sends the atoms it reads   *)
(* from them to its outlet (websocketclient.cpp).  What sends the frame,   *)
(* as text or not and whole or not, is the peer.                           *)
(***************************************************************************)
EXTENDS Atoms, Sequences, SequencesExt

CONSTANTS
    AtomsIn,    \* atoms that are pushed one by one
    ArraysIn,   \* sequences of atoms of one type that are pushed as an array
    MaxPushes   \* bound on what is pushed into the message

ASSUME MessageAssumption ==
    /\ MaxPushes \in Nat
    /\ \A atom \in AtomsIn : IsAtom(atom)
    /\ \A atoms \in ArraysIn :
           atoms \in Seq(ToSet(atoms)) /\ \A i \in DOMAIN atoms : IsAtom(atoms[i])

VARIABLES
    proto,      \* mess_: sequence of atom_t, each with a type and its data
    data_,      \* the bytes, as the atom_t's that are serialized in them
    pushed,     \* history: what was pushed into proto
    snapshot,   \* history: what data_ is to tell
    out         \* history: what went to the outlet last, and of which frame

messageVars == <<proto, data_, pushed, snapshot, out>>

MessageInit ==
    proto = <<>> /\ data_ = <<>> /\ pushed = <<>> /\ snapshot = <<>> /\ out = <<>>

-----------------------------------------------------------------------------

\* push_atom: the field of a long is a sint32, and an unknown atom sets no field.
Encoded(atom) ==
    CASE atom.type = "long" -> [type |-> "A_LONG", data |-> <<Narrow(atom.value)>>]
      [] atom.type = "float" -> [type |-> "A_FLOAT", data |-> <<Single(atom.value)>>]
      [] atom.type = "sym" -> [type |-> "A_SYMBOL", data |-> <<atom.value>>]
      [] OTHER -> [type |-> "A_LONG", data |-> <<0>>]

NarrowArray(atoms, type) ==     \* mutant: the array has values of 32 bits
    IF type = "long"
    THEN [type |-> "A_ARR_LONG", data |-> [i \in DOMAIN atoms |-> Narrow(atoms[i].value)]]
    ELSE [type |-> "A_ARR_FLOAT", data |-> [i \in DOMAIN atoms |-> Single(atoms[i].value)]]

\* push_atomarray: the values of an array of longs have 64 bits.
EncodedArray(atoms, type) ==
    IF type = "long"
    THEN [type |-> "A_ARR_LONG", data |-> [i \in DOMAIN atoms |-> atoms[i].value]]
    ELSE [type |-> "A_ARR_FLOAT", data |-> [i \in DOMAIN atoms |-> Single(atoms[i].value)]]

Push(encoded, atoms, array) ==
    /\ Len(proto) < MaxPushes
    /\ proto' = Append(proto, encoded)
    /\ pushed' = pushed \o [i \in DOMAIN atoms |-> [atom |-> atoms[i], array |-> array]]
    /\ UNCHANGED <<data_, snapshot, out>>

PushAtom(atom) == Push(Encoded(atom), <<atom>>, FALSE)
PushAtomArray(atoms, type) ==
    /\ \A i \in DOMAIN atoms : atoms[i].type = type
    /\ Push(EncodedArray(atoms, type), atoms, TRUE)

Serialize ==
    /\ data_' = proto /\ snapshot' = pushed
    /\ UNCHANGED <<proto, pushed, out>>

\* What parsing leaves of an atom_t whose bytes end too soon: the type comes first,
\* a field that was not read is zero or empty, and an array has what was read of it.
Partial(atom_t, symbol) ==
    {[type |-> "A_LONG", data |-> <<0>>]} \cup
        CASE atom_t.type = "A_SYMBOL" -> {[atom_t EXCEPT !.data = <<symbol>>]}
          [] atom_t.type \in {"A_ARR_LONG", "A_ARR_FLOAT"} ->
                 {[atom_t EXCEPT !.data = SubSeq(@, 1, n)] : n \in 0..Len(atom_t.data)}
          [] OTHER -> {[atom_t EXCEPT !.data = <<0>>]}

\* What a frame that ends too soon is parsed to.
Cut(symbol) ==
    UNION {{SubSeq(data_, 1, k)} \cup
               {Append(SubSeq(data_, 1, k), p) : p \in Partial(data_[k + 1], symbol)} :
               k \in 0..(Len(data_) - 1)}

\* get_atoms
TypeOf(type) ==
    CASE type \in {"A_LONG", "A_ARR_LONG"} -> "long"
      [] type \in {"A_FLOAT", "A_ARR_FLOAT"} -> "float"
      [] OTHER -> "sym"

GetAtoms(parsed) ==
    FlattenSeq([i \in DOMAIN parsed |->
        [j \in DOMAIN parsed[i].data |->
            [type |-> TypeOf(parsed[i].type), value |-> parsed[i].data[j]]]])

\* from_const_buffers copies nothing of a text frame.
Received(frame) ==
    CASE frame = "whole" -> {data_}
      [] frame = "cut" -> UNION {Cut(a.value) : a \in {b \in AtomsIn : b.type = "sym"}}
      [] OTHER -> {<<>>}

\* outlet_output_adapter::write
Emit(frame, parsed) ==
    out' = <<[frame |-> frame, of |-> snapshot, atoms |-> GetAtoms(parsed)]>>

\* on_read: what deserialize() could parse goes out, also when it fails.
Read(frame) ==
    /\ \E parsed \in Received(frame) : Emit(frame, parsed)
    /\ UNCHANGED <<proto, data_, pushed, snapshot>>

MessageNext ==
    \/ \E atom \in AtomsIn : PushAtom(atom)
    \/ \E atoms \in ArraysIn, type \in {"long", "float"} : PushAtomArray(atoms, type)
    \/ Serialize
    \/ \E frame \in {"whole", "cut", "text"} : Read(frame)

MessageSpec == MessageInit /\ [][MessageNext]_messageVars

-----------------------------------------------------------------------------
(* Properties.                                                             *)

\* What arrives for an atom: the atom, if its field can hold it; a number of its type
\* if not; and the number 0 if Max has more types than the message knows.
ArrivesAs(in, got) ==
    IF in.atom.type = "other" THEN got = Long(0)
    ELSE /\ got.type = in.atom.type
         /\ CASE got.type = "long" -> in.array \/ IsInt(in.atom.value) => got = in.atom
              [] got.type = "float" -> IsSingle(in.atom.value) => got = in.atom
              [] OTHER -> got = in.atom

\* push_atom to get_atoms: a whole frame yields what was pushed when the message was
\* serialized, in order and number, each atom as far as its field can hold it; a
\* frame that ends too soon may make up its last atom and no other; text says nothing.
EmittedIsPushed ==
    out # <<>> =>
        LET in == out[1].of
            got == out[1].atoms
        IN CASE out[1].frame = "whole" ->
                    /\ Len(got) = Len(in)
                    /\ \A i \in DOMAIN in : ArrivesAs(in[i], got[i])
             [] out[1].frame = "cut" ->
                    \A i \in 1..(Len(got) - 1) : i <= Len(in) /\ ArrivesAs(in[i], got[i])
             [] OTHER -> got = <<>>
=============================================================================
