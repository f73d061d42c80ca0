\* Statistics an application switches on and off while the session ends.
SPECIFICATION FairSpec
CONSTANTS
    Apps = {a1, a2}
    IoThread = IoThread
    Owner = Owner
    MaxCalls = 4
    MaxMessages = 3
INVARIANTS
    OneChain
    NothingCountedTwice
PROPERTY ChainLetsGo
\* the host is gone in the end
CHECK_DEADLOCK FALSE
