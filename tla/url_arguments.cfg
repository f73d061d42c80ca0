\* Up to three arguments of every kind.
SPECIFICATION Spec
CONSTANTS
    Ips = {ip}
    Names = {name}
    NoHost = NoHost
    SymbolPorts <- MCSymbolPorts
    LongArgs <- MCLongArgs
    IntHalf = 131072
    MaxArgs = 3
INVARIANTS
    EndpointIsUrl
    FirstPortWins
    AddressIsEnough
\* the constructor ends
CHECK_DEADLOCK FALSE
