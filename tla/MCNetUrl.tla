------------------------------ MODULE MCNetUrl ------------------------------
(* Ports on both sides of each limit: of short, of a port, and of int.     *)
EXTENDS NetUrl

MCSymbolPorts == {Absent, EmptyText, Junk, TooLong, 32767, 32768, 65535, 65536}

\* Of the last two, which fit no int, one is left as a port and one as a negative.
MCLongArgs == {-1, 0, 40000, 65536, 2 * IntHalf + 8080, IntHalf}
=============================================================================
