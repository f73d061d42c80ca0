\* Numbers on both sides of the ends of a port and of an int; all messages of two
\* pushes; every sequence of five messages of iiwa_move on one thread.
SPECIFICATION FairSpec
CONSTANTS
    IntHalf = 4
    PortMax = 2
    Longs <- SomeLongs
    Symbols = {ip, other_ip, name}
    Addresses = {ip, other_ip}
    AtomsIn <- SomeAtoms
    ArraysIn <- SomeArrays
    MaxPushes = 2
    Threads = {main}
    Types = {"JOINT", "LIN"}
    Size = 2
    MaxCalls = 5
INVARIANTS
    SentIsLatest
    PortIsPort
    EmittedIsPushed
PROPERTY ObjectEnds
\* the number of calls is bounded, and the object is destroyed in the end
CHECK_DEADLOCK FALSE
