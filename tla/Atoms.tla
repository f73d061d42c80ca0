-------------------------------- MODULE Atoms --------------------------------
(***************************************************************************)
(* The atoms of Max, as far as the objects tell them apart: a long has 64  *)
(* bits, a float is a double, and reading one as int or float narrows it.  *)
(***************************************************************************)
EXTENDS Integers

CONSTANT IntHalf    \* 2^31

ASSUME IntAssumption == IntHalf \in Nat \ {0}

IsInt(n) == -IntHalf <= n /\ n < IntHalf

\* atom::operator int()
Narrow(n) == ((n + IntHalf) % (2 * IntHalf)) - IntHalf

\* Doubles are counted in steps of which single precision has every other one.
IsSingle(x) == x % 2 = 0
Single(x) == x - (x % 2)

Long(n)   == [type |-> "long", value |-> n]
Float(x)  == [type |-> "float", value |-> x]
Symbol(s) == [type |-> "sym", value |-> s]
Other     == [type |-> "other", value |-> 0]

IsAtom(a) ==
    /\ a = [type |-> a.type, value |-> a.value]
    /\ a.type \in {"long", "float", "sym", "other"}
    /\ a.type \in {"long", "float"} => a.value \in Int
=============================================================================
