------------------------------- MODULE NetUrl -------------------------------
(***************************************************************************)
(* How a client object makes a url of its arguments: net_url.h, and the    *)
(* loops over the arguments in websocketclient.cpp and min_utils.h.  An    *)
(* argument is a symbol, which net_url parses, or a number, taken as port  *)
(* if the url has none; exceptions of std::stoi and of                     *)
(* address::from_string leave the constructor, so that no object is made.  *)
(*                                                                         *)
(* The text of a port is abstracted to its value, with four values for     *)
(* texts that have none.  A symbol is abstracted to its first token after  *)
(* the optional "ws:" prefix, its host and, with a colon, its port, and to *)
(* whether tokens of a path follow.                                        *)
(***************************************************************************)
EXTENDS Integers, Sequences, FiniteSetsExt

CONSTANTS
    Ips, Names,     \* hosts: addresses, and names that have to be looked up
    NoHost,         \* the empty string
    SymbolPorts,    \* what a symbol may have after its host
    LongArgs,       \* integer arguments, of 64 bits
    IntHalf,        \* 2^31
    MaxArgs         \* bound on the number of arguments

Atom == INSTANCE Atoms

\* Texts of a port: absent, not a number, and a number no int can hold.
Absent  == -1
Junk    == -2
TooLong == -3
EmptyText == -4     \* a colon with nothing behind it

StdPort == 80
PortMax == 65535

ASSUME UrlAssumption ==
    /\ NoHost \notin Ips \cup Names /\ Ips \cap Names = {}
    /\ IntHalf \in Nat \ {0} /\ PortMax < IntHalf
    /\ SymbolPorts \subseteq 0..(IntHalf - 1) \cup {Absent, Junk, TooLong, EmptyText}
    /\ LongArgs \subseteq Int
    /\ MaxArgs \in Nat

VARIABLES
    url,        \* the url made of the arguments so far
    fromUtils,  \* the loop is that of min_utils.h, not of websocketclient.cpp
    outcome,    \* the constructor: "running", "done", or "threw" an exception
    seen        \* history: the arguments so far

vars == <<url, fromUtils, outcome, seen>>

-----------------------------------------------------------------------------
(* net_url                                                                 *)

NoUrl == [host |-> NoHost, port |-> Absent, path |-> "none", endpoints |-> {}]

IsNumber(text) == text \in Nat \cup {TooLong}
Valid(u) == u.host # NoHost /\ (u.port = Absent \/ IsNumber(u.port))

\* std::stoi( port_ ) in has_port(), port() and port_int()
StoiThrows(u) == u.port = TooLong
HasPort(u) == u.port \in 0..PortMax

\* port_int() returns short, basic_endpoint takes an unsigned short.
Short(n) == ((n + 32768) % 65536) - 32768
Unsigned(n) == n % 65536

PortInt(u) == Short(IF HasPort(u) THEN u.port ELSE StdPort)

\* is_ip()
IsIp(host) == host \in Ips

\* endpoint_seq_from_string( host(), port_int() )
Endpoints(u) == {<<u.host, Unsigned(PortInt(u))>>}

\* net_url( url, ec ): not a port leaves what was parsed so far
KeepsHost(sym) ==
    [host |-> sym.host, path |-> "none", endpoints |-> {},
     port |-> IF sym.port = EmptyText THEN Absent ELSE sym.port]

ParseFails(sym) == (sym.host = NoHost /\ sym.port = Absent)
                   \/ sym.port \in {Junk, EmptyText}
ParseThrows(sym) == ~ParseFails(sym) /\ IsIp(sym.host) /\ StoiThrows(sym)

PathOf(sym) == IF sym.path = "none" THEN "root" ELSE sym.path

\* The path is taken over, and an address has its endpoint at once.
KeepsAll(sym) ==
    [KeepsHost(sym) EXCEPT
        !.path = PathOf(sym),
        !.endpoints = IF IsIp(sym.host) THEN Endpoints(KeepsHost(sym)) ELSE {}]

Parse(sym) == IF ParseFails(sym) THEN KeepsHost(sym) ELSE KeepsAll(sym)

PortOnly(u, n) == [u EXCEPT !.port = n]  \* mutant: keeps the old endpoints
WithPort(u, n) == [u EXCEPT !.port = n, !.endpoints = Endpoints([u EXCEPT !.port = n])]

-----------------------------------------------------------------------------
(* The loop over the arguments.                                            *)

Init ==
    /\ url = NoUrl /\ outcome = "running" /\ seen = <<>>
    /\ fromUtils \in BOOLEAN

More == outcome = "running" /\ Len(seen) < MaxArgs

Throw == outcome' = "threw" /\ UNCHANGED url
Set(u) == url' = u /\ UNCHANGED outcome

\* The warning about two ports evaluates has_port() of both urls; min_utils.h
\* evaluates it only after a failure.
WarningThrows(sym) ==
    /\ fromUtils => ParseFails(sym)
    /\ StoiThrows(url) \/ (HasPort(url) /\ StoiThrows(sym))

AlwaysTakes == TRUE  \* mutant: a later symbol replaces the url
TakesSymbol == ~Valid(url)

\* case A_SYM: the url is taken over even if it could not be decoded.
Symbol(sym) ==
    /\ More /\ seen' = Append(seen, [sym |-> sym])
    /\ \/ TakesSymbol /\ (ParseThrows(sym) \/ WarningThrows(sym)) /\ Throw
       \/ TakesSymbol /\ ~(ParseThrows(sym) \/ WarningThrows(sym)) /\ Set(Parse(sym))
       \/ ~TakesSymbol /\ UNCHANGED <<url, outcome>>
    /\ UNCHANGED fromUtils

LaterPortWins == TRUE  \* mutant: the port of the url is overwritten
TakesPort == ~HasPort(url)

\* case A_LONG: set_port() with the atom read as int, which needs the host to be an
\* address
Long(arg) == LET n == Atom!Narrow(arg) IN
    /\ More /\ seen' = Append(seen, [long |-> arg])
    /\ \/ StoiThrows(url) /\ Throw
       \/ ~StoiThrows(url) /\ TakesPort /\ n >= 0 /\ url.host \notin Ips /\ Throw
       \/ ~StoiThrows(url) /\ TakesPort /\ n >= 0 /\ url.host \in Ips
          /\ Set(WithPort(url, n))
       \/ ~StoiThrows(url) /\ ~(TakesPort /\ n >= 0) /\ UNCHANGED <<url, outcome>>
    /\ UNCHANGED fromUtils

\* the end of the loop: url.port() is printed
Finish ==
    /\ outcome = "running" /\ seen # <<>>
    /\ outcome' = IF StoiThrows(url) THEN "threw" ELSE "done"
    /\ UNCHANGED <<url, fromUtils, seen>>

\* There is no path behind no token.
Symbols ==
    {sym \in [host : Ips \cup Names \cup {NoHost}, port : SymbolPorts, path : {"none", "given"}] :
        sym.host = NoHost /\ sym.port = Absent => sym.path = "none"}

Next == \/ \E sym \in Symbols : Symbol(sym)
        \/ \E arg \in LongArgs : Long(arg)
        \/ Finish

Spec == Init /\ [][Next]_vars

-----------------------------------------------------------------------------
(* Properties.                                                             *)

\* port() of a url whose text can be converted
Port(u) == IF HasPort(u) THEN u.port ELSE StdPort

\* The endpoint a url carries is its own host and port, at every step of the
\* loop: set_port() leaves none of an earlier port, and the way of the port
\* through a signed short gives the same 16 bits back.
EndpointIsUrl ==
    url.endpoints # {} => url.endpoints = {<<url.host, Port(url)>>}

IsSymbol(i) == "sym" \in DOMAIN seen[i]
PortArg(i) == IF IsSymbol(i) THEN seen[i].sym.port ELSE Atom!Narrow(seen[i].long)

\* A number behind an address whose port was not one mends the url, if no other
\* symbol comes between.
Mended(i) ==
    /\ seen[i].sym.host \in Ips
    /\ \E j \in (i + 1)..Len(seen) : /\ ~IsSymbol(j) /\ PortArg(j) >= 0
                                    /\ \A k \in (i + 1)..j : ~IsSymbol(k)

Usable(i) == IsSymbol(i) /\ (Valid(Parse(seen[i].sym)) \/ Mended(i))

\* What the arguments mean: the first symbol that makes a valid url, or is mended,
\* is the host; its port or else the first number behind it that can be a port is
\* the port; and its path, or the root, is asked for, but no path at all, which
\* is no request target, when its port was none.  A number means what is left of it
\* in an int: one that fits none may be a port all the same, and then is another.
FirstPortWins ==
    outcome = "done" /\ Valid(url) =>
        \E i \in 1..Len(seen) :
            /\ Usable(i) /\ \A j \in 1..(i - 1) : ~Usable(j)
            /\ url.host = seen[i].sym.host
            /\ url.path = IF seen[i].sym.port \in {Junk, EmptyText} THEN "none"
                          ELSE IF seen[i].sym.path = "none" THEN "root"
                          ELSE seen[i].sym.path
            /\ LET given == {j \in i..Len(seen) :
                                 (j = i \/ ~IsSymbol(j)) /\ PortArg(j) \in 0..PortMax}
               IN Port(url) = IF given = {} THEN StdPort ELSE PortArg(Min(given))

\* An object whose first argument is an address, with a port that fits into an
\* int or none, is constructed, whatever arguments follow.
AddressIsEnough ==
    (/\ seen # <<>> /\ IsSymbol(1)
     /\ seen[1].sym.host \in Ips /\ seen[1].sym.port \notin {Junk, TooLong})
        => outcome # "threw"
=============================================================================
