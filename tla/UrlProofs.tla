------------------------------ MODULE UrlProofs ------------------------------
(***************************************************************************)
(* The endpoint of a url is its host and port, for every list of arguments. *)
(***************************************************************************)
EXTENDS NetUrl, TLAPS

\* A number Max hands over, read as int, is a number.
LEMMA NarrowIsInt ==
    ASSUME NEW arg \in LongArgs
    PROVE  Atom!Narrow(arg) \in Int
<1>1. arg \in Int /\ IntHalf \in Nat /\ 2 * IntHalf \in Nat \ {0}
    BY UrlAssumption
<1>2. \A m \in Int, k \in Nat \ {0} : m % k \in Int
    OBVIOUS
<1>3. (arg + IntHalf) % (2 * IntHalf) \in Int
    BY <1>1, <1>2
<1> QED BY <1>1, <1>3 DEF Atom!Narrow

\* The remainder by 2^16 within one period on either side.
LEMMA Remainder ==
    ASSUME NEW n \in Int
    PROVE  /\ 0 <= n /\ n < 65536 => n % 65536 = n
           /\ 65536 <= n /\ n < 131072 => n % 65536 = n - 65536
           /\ -65536 <= n /\ n < 0 => n % 65536 = n + 65536
<1>1. ASSUME 0 <= n, n < 65536 PROVE n % 65536 = n
    BY <1>1
<1>2. ASSUME 65536 <= n, n < 131072 PROVE n % 65536 = n - 65536
    BY <1>2
<1>3. ASSUME -65536 <= n, n < 0 PROVE n % 65536 = n + 65536
    BY <1>3
<1> QED BY <1>1, <1>2, <1>3

\* A port goes through a signed short of 16 bits without change.
LEMMA ShortKeepsPort ==
    ASSUME NEW n \in 0..PortMax
    PROVE  Unsigned(Short(n)) = n
<1>0. n \in Int /\ 0 <= n /\ n < 65536
    BY DEF PortMax
<1>1. CASE n < 32768
    <2>1. (n + 32768) % 65536 = n + 32768
        BY <1>0, <1>1, Remainder
    <2>2. Short(n) = n
        BY <2>1, <1>0 DEF Short
    <2>3. n % 65536 = n
        BY <1>0, Remainder
    <2> QED BY <2>2, <2>3 DEF Unsigned
<1>2. CASE n >= 32768
    <2>1. (n + 32768) % 65536 = n - 32768
        <3>1. n + 32768 \in Int /\ 65536 <= n + 32768 /\ n + 32768 < 131072
            BY <1>0, <1>2
        <3>2. (n + 32768) % 65536 = n + 32768 - 65536
            BY <3>1, Remainder
        <3> QED BY <3>2, <1>0
    <2>2. Short(n) = n - 65536
        BY <2>1, <1>0 DEF Short
    <2>3. (n - 65536) % 65536 = n
        <3>1. n - 65536 \in Int /\ -65536 <= n - 65536 /\ n - 65536 < 0
            BY <1>0, <1>2
        <3>2. (n - 65536) % 65536 = n - 65536 + 65536
            BY <3>1, Remainder
        <3> QED BY <3>2, <1>0
    <2> QED BY <2>2, <2>3 DEF Unsigned
<1> QED BY <1>0, <1>1, <1>2

\* What endpoint_seq_from_string() makes is the url's host and port().
LEMMA EndpointsAreUrl ==
    ASSUME NEW u
    PROVE  Endpoints(u) = {<<u.host, Port(u)>>}
<1>1. Port(u) \in 0..PortMax
    <2>1. CASE HasPort(u)
        BY <2>1 DEF Port, HasPort
    <2>2. CASE ~HasPort(u)
        BY <2>2 DEF Port, StdPort, PortMax
    <2> QED BY <2>1, <2>2
<1>2. PortInt(u) = Short(Port(u))
    BY DEF PortInt, Port
<1> QED BY <1>1, <1>2, ShortKeepsPort DEF Endpoints

UrlRecords == [host : Ips \cup Names \cup {NoHost}, port : Int, path : {"none", "root", "given"},
               endpoints : SUBSET ((Ips \cup Names \cup {NoHost}) \X Int)]

UInv == url \in UrlRecords /\ EndpointIsUrl

LEMMA PortIsInt ==
    ASSUME NEW u \in UrlRecords
    PROVE  Port(u) \in Int
<1>1. CASE HasPort(u)
    BY <1>1 DEF Port, UrlRecords
<1>2. CASE ~HasPort(u)
    BY <1>2 DEF Port, StdPort
<1> QED BY <1>1, <1>2

\* A port that is replaced with set_port(), which makes new endpoints.
LEMMA WithPortEndpoints ==
    ASSUME NEW u \in UrlRecords, NEW n \in Int
    PROVE  /\ WithPort(u, n) \in UrlRecords
           /\ WithPort(u, n).endpoints = {<<WithPort(u, n).host, Port(WithPort(u, n))>>}
<1> DEFINE v == [u EXCEPT !.port = n]
<1>1. WithPort(u, n) = [v EXCEPT !.endpoints = Endpoints(v)]
    BY DEF WithPort, UrlRecords
<1>2. v \in UrlRecords /\ Endpoints(v) = {<<v.host, Port(v)>>} /\ Port(v) \in Int
    <2>1. v \in UrlRecords
        BY DEF UrlRecords
    <2> HIDE DEF v
    <2> QED BY <2>1, EndpointsAreUrl, PortIsInt
<1> HIDE DEF v
<1>3. /\ WithPort(u, n).host = v.host /\ WithPort(u, n).port = v.port
      /\ WithPort(u, n).endpoints = Endpoints(v)
      /\ WithPort(u, n) \in UrlRecords
    BY <1>1, <1>2 DEF UrlRecords
<1> QED BY <1>2, <1>3 DEF Port, HasPort

\* What the constructor of net_url leaves, decoded or not.
LEMMA ParseEndpoints ==
    ASSUME NEW sym \in Symbols
    PROVE  /\ Parse(sym) \in UrlRecords
           /\ Parse(sym).endpoints # {} =>
                  Parse(sym).endpoints = {<<Parse(sym).host, Port(Parse(sym))>>}
<1> DEFINE v == KeepsHost(sym)
<1>1. sym.host \in Ips \cup Names \cup {NoHost} /\ sym.port \in Int
    <2>1. SymbolPorts \subseteq Int
        BY UrlAssumption DEF Absent, Junk, TooLong, EmptyText
    <2> QED BY <2>1 DEF Symbols
<1>2. v \in UrlRecords /\ v.endpoints = {}
    <2> DEFINE port == IF sym.port = EmptyText THEN Absent ELSE sym.port
    <2>1. port \in Int
        BY <1>1 DEF Absent
    <2> HIDE DEF port
    <2>2. v = [host |-> sym.host, path |-> "none", port |-> port, endpoints |-> {}]
        BY DEF KeepsHost, port
    <2> QED BY <2>1, <2>2, <1>1 DEF UrlRecords
<1> HIDE DEF v
<1>3. Endpoints(v) = {<<v.host, Port(v)>>} /\ Port(v) \in Int
    BY <1>2, EndpointsAreUrl, PortIsInt
<1>4. CASE Parse(sym) = v
    BY <1>2, <1>4
<1>5. CASE Parse(sym) = KeepsAll(sym)
    <2> DEFINE path == PathOf(sym)
               es == IF IsIp(sym.host) THEN Endpoints(v) ELSE {}
    <2>1. path \in {"none", "root", "given"}
        BY DEF PathOf, Symbols
    <2>2. es = {} \/ es = Endpoints(v)
        OBVIOUS
    <2>3. Parse(sym) = [v EXCEPT !.path = path, !.endpoints = es]
        BY <1>5 DEF KeepsAll, v
    <2> HIDE DEF path, es
    <2>4. /\ Parse(sym).host = v.host /\ Parse(sym).port = v.port
          /\ Parse(sym).endpoints = es
        BY <1>2, <2>3 DEF UrlRecords
    <2>5. es \subseteq (Ips \cup Names \cup {NoHost}) \X Int
        BY <1>2, <1>3, <2>2 DEF UrlRecords
    <2>6. Parse(sym) \in UrlRecords
        BY <1>2, <2>1, <2>3, <2>5 DEF UrlRecords
    <2> QED BY <2>2, <2>4, <2>6, <1>3 DEF Port, HasPort
<1> QED BY <1>4, <1>5 DEF Parse, v

-----------------------------------------------------------------------------

\* A url that carries an endpoint carries its own, after any list of arguments.
THEOREM EndpointFollowsUrl == Spec => []EndpointIsUrl
<1>1. Init => UInv
    BY DEF Init, UInv, EndpointIsUrl, NoUrl, UrlRecords, Absent
<1>2. UInv /\ [Next]_vars => UInv'
    <2> SUFFICES ASSUME UInv, [Next]_vars PROVE UInv'
        OBVIOUS
    <2>1. ASSUME NEW sym \in Symbols, url' = Parse(sym) PROVE UInv'
        BY <2>1, ParseEndpoints DEF UInv, EndpointIsUrl, Port, HasPort
    <2>2. ASSUME NEW arg \in LongArgs, url' = WithPort(url, Atom!Narrow(arg)) PROVE UInv'
        <3>1. Atom!Narrow(arg) \in Int
            BY NarrowIsInt
        <3> QED BY <2>2, <3>1, WithPortEndpoints
                DEF UInv, EndpointIsUrl, Port, HasPort
    <2>3. CASE UNCHANGED url
        BY <2>3 DEF UInv, EndpointIsUrl, Port, HasPort
    <2>4. ASSUME NEW sym \in Symbols, Symbol(sym) PROVE UInv'
        BY <2>1, <2>3, <2>4 DEF Symbol, Throw, Set
    <2>5. ASSUME NEW arg \in LongArgs, Long(arg) PROVE UInv'
        BY <2>2, <2>3, <2>5 DEF Long, Throw, Set
    <2> QED BY <2>3, <2>4, <2>5 DEF Next, Finish, vars
<1>3. UInv => EndpointIsUrl
    BY DEF UInv
<1> QED BY <1>1, <1>2, <1>3, PTL DEF Spec

-----------------------------------------------------------------------------
(* The arguments so far.                                                   *)

Args == {[sym |-> sym] : sym \in Symbols} \cup {[long |-> arg] : arg \in LongArgs}

NoSymbol(from) == \A j \in from..Len(seen) : ~IsSymbol(j)

ArgsInv == seen \in Seq(Args) /\ url \in UrlRecords /\ outcome \in {"running", "done", "threw"}

\* An argument is a symbol or a number, and the port it may give is a number.
LEMMA ArgKinds ==
    ASSUME seen \in Seq(Args), NEW i \in 1..Len(seen)
    PROVE  /\ IsSymbol(i) => seen[i].sym \in Symbols
           /\ PortArg(i) \in Int
<1>1. seen[i] \in Args
    OBVIOUS
<1>2. ASSUME NEW sym \in Symbols, seen[i] = [sym |-> sym]
      PROVE  IsSymbol(i) /\ seen[i].sym = sym /\ PortArg(i) \in Int
    <2>1. sym.port \in Int
        <3>1. SymbolPorts \subseteq Int
            BY UrlAssumption DEF Absent, Junk, TooLong, EmptyText
        <3> QED BY <3>1 DEF Symbols
    <2> QED BY <1>2, <2>1 DEF IsSymbol, PortArg
<1>3. ASSUME NEW arg \in LongArgs, seen[i] = [long |-> arg]
      PROVE  ~IsSymbol(i) /\ PortArg(i) \in Int
    BY <1>3, NarrowIsInt DEF IsSymbol, PortArg
<1> QED BY <1>1, <1>2, <1>3 DEF Args

\* One more argument leaves the others as they are.
LEMMA OneMore ==
    ASSUME seen \in Seq(Args), NEW e \in Args, seen' = Append(seen, e)
    PROVE  /\ seen' \in Seq(Args) /\ Len(seen) \in Nat /\ Len(seen') = Len(seen) + 1
           /\ \A j \in 1..Len(seen) : /\ seen'[j] = seen[j]
                                      /\ IsSymbol(j)' <=> IsSymbol(j)
                                      /\ PortArg(j)' = PortArg(j)
           /\ seen'[Len(seen) + 1] = e
<1>1. /\ seen' \in Seq(Args) /\ Len(seen) \in Nat /\ Len(seen') = Len(seen) + 1
      /\ seen'[Len(seen) + 1] = e
    OBVIOUS
<1>2. ASSUME NEW j \in 1..Len(seen)
      PROVE  seen'[j] = seen[j] /\ (IsSymbol(j)' <=> IsSymbol(j)) /\ PortArg(j)' = PortArg(j)
    <2>1. seen'[j] = seen[j]
        OBVIOUS
    <2> QED BY <2>1 DEF IsSymbol, PortArg
<1> QED BY <1>1, <1>2

LEMMA SymbolMore ==
    ASSUME seen \in Seq(Args), NEW sym \in Symbols, seen' = Append(seen, [sym |-> sym])
    PROVE  /\ IsSymbol(Len(seen))' /\ PortArg(Len(seen))' = sym.port
           /\ seen'[Len(seen')].sym = sym
<1>1. [sym |-> sym] \in Args
    BY DEF Args
<1>2. seen'[Len(seen')] = [sym |-> sym]
    BY <1>1, OneMore
<1> QED BY <1>2 DEF IsSymbol, PortArg

LEMMA LongMore ==
    ASSUME seen \in Seq(Args), NEW arg \in LongArgs, seen' = Append(seen, [long |-> arg])
    PROVE  ~IsSymbol(Len(seen))' /\ PortArg(Len(seen))' = Atom!Narrow(arg)
<1>1. [long |-> arg] \in Args
    BY DEF Args
<1>2. seen'[Len(seen')] = [long |-> arg]
    BY <1>1, OneMore
<1> QED BY <1>2 DEF IsSymbol, PortArg

\* A usable symbol stays usable.
LEMMA UsableStays ==
    ASSUME seen \in Seq(Args), NEW e \in Args, seen' = Append(seen, e),
           NEW i \in 1..Len(seen), Usable(i)
    PROVE  Usable(i)'
<1>1. seen'[i] = seen[i] /\ IsSymbol(i)'
    BY OneMore DEF Usable
<1>2. CASE Valid(Parse(seen[i].sym))
    BY <1>1, <1>2 DEF Usable, Valid, IsNumber
<1>3. CASE Mended(i)
    <2>1. PICK j \in (i + 1)..Len(seen) : /\ ~IsSymbol(j) /\ PortArg(j) >= 0
                                          /\ \A k \in (i + 1)..j : ~IsSymbol(k)
        BY <1>3 DEF Mended
    <2>2. /\ j \in (i + 1)..Len(seen') /\ ~IsSymbol(j)' /\ PortArg(j)' >= 0
          /\ \A k \in (i + 1)..j : ~IsSymbol(k)'
        BY <2>1, OneMore
    <2>3. Mended(i)'
        BY <2>2, <1>1, <1>3 DEF Mended
    <2> QED BY <1>1, <2>3 DEF Usable
<1> QED BY <1>2, <1>3 DEF Usable

\* A symbol becomes usable only by a number, if no symbol stands between.
LEMMA BecomesUsable ==
    ASSUME seen \in Seq(Args), NEW e \in Args, seen' = Append(seen, e),
           NEW i \in 1..Len(seen), Usable(i)', ~Usable(i)
    PROVE  /\ IsSymbol(i) /\ NoSymbol(i + 1) /\ ~IsSymbol(Len(seen))'
           /\ PortArg(Len(seen))' >= 0 /\ seen[i].sym.host \in Ips
<1>1. seen'[i] = seen[i] /\ IsSymbol(i)
    BY OneMore DEF Usable
<1>2. ~Valid(Parse(seen[i].sym)) /\ Mended(i)' /\ ~Mended(i)
    BY <1>1 DEF Usable, Valid, IsNumber
<1>3. PICK j \in (i + 1)..Len(seen') : /\ ~IsSymbol(j)' /\ PortArg(j)' >= 0
                                       /\ \A k \in (i + 1)..j : ~IsSymbol(k)'
    BY <1>2 DEF Mended
<1>4. seen[i].sym.host \in Ips
    BY <1>1, <1>2 DEF Mended
<1>5. j = Len(seen) + 1
    <2>1. j \in (i + 1)..Len(seen) \/ j = Len(seen) + 1
        <3>1. Len(seen) \in Nat /\ Len(seen') = Len(seen) + 1
            BY OneMore
        <3> QED BY <3>1
    <2>2. ASSUME j \in (i + 1)..Len(seen) PROVE FALSE
        <3>1. ~IsSymbol(j) /\ PortArg(j) >= 0 /\ \A k \in (i + 1)..j : ~IsSymbol(k)
            BY <1>3, <2>2, OneMore
        <3> QED BY <3>1, <2>2, <1>2, <1>4 DEF Mended
    <2> QED BY <2>1, <2>2
<1>6. NoSymbol(i + 1)
    BY <1>3, <1>5, OneMore DEF NoSymbol
<1>7. j = Len(seen')
    BY <1>5, OneMore
<1> QED BY <1>1, <1>3, <1>4, <1>6, <1>7

\* The invariant of the loop's variables themselves.
LoopInv == ArgsInv /\ (seen = <<>> => url = NoUrl /\ outcome = "running")

LEMMA LoopInvInit == Init => LoopInv
BY DEF Init, LoopInv, ArgsInv, NoUrl, UrlRecords, Absent

LEMMA LoopInvStep == LoopInv /\ [Next]_vars => LoopInv'
<1> SUFFICES ASSUME LoopInv, [Next]_vars PROVE LoopInv'
    OBVIOUS
<1>1. ASSUME NEW sym \in Symbols, Symbol(sym) PROVE LoopInv'
    <2>1. [sym |-> sym] \in Args /\ seen' = Append(seen, [sym |-> sym])
        BY <1>1 DEF Args, Symbol
    <2>2. seen' \in Seq(Args) /\ seen' # <<>>
        BY <2>1 DEF LoopInv, ArgsInv
    <2>3. Parse(sym) \in UrlRecords
        BY ParseEndpoints
    <2>4. url' \in UrlRecords /\ outcome' \in {"running", "done", "threw"}
        BY <1>1, <2>3 DEF Symbol, Throw, Set, LoopInv, ArgsInv
    <2> QED BY <2>2, <2>4 DEF LoopInv, ArgsInv
<1>2. ASSUME NEW arg \in LongArgs, Long(arg) PROVE LoopInv'
    <2>1. [long |-> arg] \in Args /\ seen' = Append(seen, [long |-> arg])
        BY <1>2 DEF Args, Long
    <2>2. seen' \in Seq(Args) /\ seen' # <<>>
        BY <2>1 DEF LoopInv, ArgsInv
    <2>3. Atom!Narrow(arg) \in Int
        BY NarrowIsInt
    <2>4. WithPort(url, Atom!Narrow(arg)) \in UrlRecords
        BY <2>3, WithPortEndpoints DEF LoopInv, ArgsInv
    <2>5. url' \in UrlRecords /\ outcome' \in {"running", "done", "threw"}
        BY <1>2, <2>4 DEF Long, Throw, Set, LoopInv, ArgsInv
    <2> QED BY <2>2, <2>5 DEF LoopInv, ArgsInv
<1>3. CASE Finish
    BY <1>3 DEF Finish, LoopInv, ArgsInv
<1>4. CASE UNCHANGED vars
    BY <1>4 DEF vars, LoopInv, ArgsInv
<1> QED BY <1>1, <1>2, <1>3, <1>4 DEF Next

\* What the fields of a parsed url are.
LEMMA ParseFields ==
    ASSUME NEW sym \in Symbols
    PROVE  /\ Parse(sym).host = sym.host
           /\ Parse(sym).port = IF sym.port = EmptyText THEN Absent ELSE sym.port
           /\ Parse(sym).path = IF ParseFails(sym) THEN "none" ELSE PathOf(sym)
BY DEF Parse, KeepsHost, KeepsAll

\* set_port() leaves the host and the path.
LEMMA WithPortFields ==
    ASSUME NEW u \in UrlRecords, NEW n \in Int
    PROVE  /\ WithPort(u, n).host = u.host /\ WithPort(u, n).port = n
           /\ WithPort(u, n).path = u.path
BY DEF WithPort, UrlRecords

-----------------------------------------------------------------------------

\* The first argument is an address, with a port that fits into an int or none.
AddressFirst ==
    /\ seen # <<>> /\ IsSymbol(1)
    /\ seen[1].sym.host \in Ips /\ seen[1].sym.port \notin {Junk, TooLong}

EnoughInv ==
    AddressFirst => outcome # "threw" /\ url.host \in Ips /\ url.port \in Nat \cup {Absent}

LEMMA EnoughInvStep == LoopInv /\ EnoughInv /\ [Next]_vars => EnoughInv'
<1> SUFFICES ASSUME LoopInv, EnoughInv, [Next]_vars, AddressFirst'
             PROVE  outcome' # "threw" /\ url'.host \in Ips /\ url'.port \in Nat \cup {Absent}
    BY DEF EnoughInv
<1>1. ASSUME NEW e \in Args, seen' = Append(seen, e), seen # <<>> PROVE AddressFirst
    <2>1. 1 \in 1..Len(seen)
        BY <1>1 DEF LoopInv, ArgsInv
    <2> QED BY <1>1, <2>1, OneMore DEF AddressFirst, LoopInv, ArgsInv
<1>2. ASSUME AddressFirst
      PROVE  /\ Valid(url) /\ ~StoiThrows(url) /\ outcome # "threw"
             /\ url.host \in Ips /\ url.port \in Nat \cup {Absent}
    BY <1>2, UrlAssumption
       DEF EnoughInv, Valid, IsNumber, StoiThrows, TooLong, Absent
<1>3. ASSUME NEW sym \in Symbols, Symbol(sym)
      PROVE  outcome' # "threw" /\ url'.host \in Ips /\ url'.port \in Nat \cup {Absent}
    <2>1. [sym |-> sym] \in Args /\ seen' = Append(seen, [sym |-> sym])
        BY <1>3 DEF Args, Symbol
    <2>2. CASE seen # <<>>
        BY <1>1, <1>2, <1>3, <2>1, <2>2 DEF Symbol, TakesSymbol
    <2>3. CASE seen = <<>>
        <3>1. url = NoUrl /\ outcome = "running"
            BY <2>3 DEF LoopInv
        <3>2. seen'[1] = [sym |-> sym]
            BY <2>1, <2>3
        <3>3. sym.host \in Ips /\ sym.port \notin {Junk, TooLong}
            BY <3>2 DEF AddressFirst
        <3>4. ~ParseThrows(sym) /\ ~WarningThrows(sym)
            BY <3>1, <3>3 DEF ParseThrows, StoiThrows, WarningThrows, NoUrl, HasPort,
                              Absent, TooLong
        <3>5. url' = Parse(sym) /\ outcome' = outcome
            BY <1>3, <3>1, <3>4 DEF Symbol, TakesSymbol, Set, NoUrl, Valid
        <3>6. sym.port \in Nat \cup {Absent, EmptyText}
            <4>1. 0..(IntHalf - 1) \subseteq Nat
                BY UrlAssumption
            <4>2. sym.port \in SymbolPorts
                BY DEF Symbols
            <4>3. sym.port \in 0..(IntHalf - 1) \cup {Absent, Junk, TooLong, EmptyText}
                BY <4>2, UrlAssumption
            <4> QED BY <3>3, <4>1, <4>3
        <3>7. Parse(sym).host \in Ips /\ Parse(sym).port \in Nat \cup {Absent}
            BY <3>3, <3>6, ParseFields
        <3> QED BY <3>1, <3>5, <3>7
    <2> QED BY <2>2, <2>3
<1>4. ASSUME NEW arg \in LongArgs, Long(arg)
      PROVE  outcome' # "threw" /\ url'.host \in Ips /\ url'.port \in Nat \cup {Absent}
    <2> DEFINE n == Atom!Narrow(arg)
    <2>1. [long |-> arg] \in Args /\ seen' = Append(seen, [long |-> arg]) /\ n \in Int
        BY <1>4, NarrowIsInt DEF Args, Long
    <2>2. seen # <<>>
        <3> SUFFICES ASSUME seen = <<>> PROVE FALSE
            OBVIOUS
        <3>1. seen'[1] = [long |-> arg]
            BY <2>1
        <3> QED BY <3>1 DEF AddressFirst, IsSymbol
    <2>3. AddressFirst
        BY <1>1, <2>1, <2>2
    <2>4. CASE UNCHANGED <<url, outcome>>
        BY <1>2, <2>3, <2>4
    <2>5. CASE url' = WithPort(url, n) /\ n >= 0 /\ outcome' = outcome
        <3>1. url.host \in Ips /\ outcome # "threw" /\ url \in UrlRecords
            BY <1>2, <2>3 DEF LoopInv, ArgsInv
        <3>2. WithPort(url, n).host = url.host /\ WithPort(url, n).port = n
            BY <2>1, <3>1, WithPortFields
        <3> QED BY <2>1, <2>5, <3>1, <3>2
    <2> QED BY <1>2, <1>4, <2>3, <2>4, <2>5 DEF Long, Set
<1>5. ASSUME url' = url, seen' = seen, outcome' \in {outcome, "done"} \/ StoiThrows(url)
      PROVE  outcome' # "threw" /\ url'.host \in Ips /\ url'.port \in Nat \cup {Absent}
    <2>1. AddressFirst
        BY <1>5 DEF AddressFirst, IsSymbol
    <2> QED BY <1>2, <1>5, <2>1
<1>6. CASE Finish
    BY <1>5, <1>6 DEF Finish
<1>7. CASE UNCHANGED vars
    <2>1. url' = url /\ seen' = seen /\ outcome' = outcome
        BY <1>7 DEF vars
    <2> QED BY <1>5, <2>1
<1> QED BY <1>3, <1>4, <1>6, <1>7 DEF Next

\* No list of arguments makes the constructor throw behind an address with a
\* port that fits into an int, or none.
THEOREM AnAddressIsEnough == Spec => []AddressIsEnough
<1>1. Init => LoopInv /\ EnoughInv
    <2>1. Init => EnoughInv
        BY DEF Init, EnoughInv, AddressFirst
    <2> QED BY <2>1, LoopInvInit
<1>2. LoopInv /\ EnoughInv /\ [Next]_vars => (LoopInv /\ EnoughInv)'
    BY LoopInvStep, EnoughInvStep
<1>3. EnoughInv => AddressIsEnough
    BY DEF EnoughInv, AddressFirst, AddressIsEnough
<1> QED BY <1>1, <1>2, <1>3, PTL DEF Spec

-----------------------------------------------------------------------------
(* Which argument the url is of.                                           *)

Given(i) == {j \in i..Len(seen) : (j = i \/ ~IsSymbol(j)) /\ PortArg(j) \in 0..PortMax}

\* The host and the path are those of the i-th argument.
OfSymbol(i) ==
    /\ IsSymbol(i) /\ url.host = seen[i].sym.host
    /\ url.host # NoHost =>
           url.path = IF seen[i].sym.port \in {Junk, EmptyText} THEN "none"
                      ELSE IF seen[i].sym.path = "none" THEN "root"
                      ELSE seen[i].sym.path

NoneBefore(i) == \A j \in 1..(i - 1) : ~Usable(j)

\* The port is the first that the arguments from the i-th on can give.
FirstPort(i) ==
    IF HasPort(url) THEN \E k \in Given(i) : url.port = PortArg(k) /\ \A j \in Given(i) : k <= j
                    ELSE Given(i) = {}

\* A url that is not valid is as its symbol made it; behind it came only
\* numbers, none of which mended it.
NotMended(i) ==
    /\ NoSymbol(i + 1) /\ url.port = Parse(seen[i].sym).port
    /\ url.host \in Ips => \A j \in (i + 1)..Len(seen) : PortArg(j) < 0

Source(i) ==
    /\ OfSymbol(i) /\ NoneBefore(i) /\ FirstPort(i)
    /\ IF Valid(url) THEN Usable(i) ELSE NotMended(i)

SourceInv ==
    outcome # "threw" => \/ url = NoUrl /\ NoSymbol(1)
                         \/ \E i \in 1..Len(seen) : Source(i)

\* One more argument gives a port if it is a number that can be one.
LEMMA GivenMore ==
    ASSUME seen \in Seq(Args), NEW e \in Args, seen' = Append(seen, e),
           NEW i \in 1..Len(seen)
    PROVE  Given(i)' = Given(i) \cup
               {j \in {Len(seen')} : ~IsSymbol(Len(seen))' /\ PortArg(Len(seen))' \in 0..PortMax}
<1>1. Len(seen) \in Nat /\ Len(seen') = Len(seen) + 1
    BY OneMore
<1>2. Given(i)' = {j \in i..Len(seen') : (j = i \/ ~IsSymbol(j)') /\ PortArg(j)' \in 0..PortMax}
    BY DEF Given
<1>3. i..Len(seen') = (i..Len(seen)) \cup {Len(seen')} /\ i # Len(seen')
    BY <1>1
<1>4. \A j \in i..Len(seen) : (IsSymbol(j)' <=> IsSymbol(j)) /\ PortArg(j)' = PortArg(j)
    BY OneMore
<1>5. \A j : j \in Given(i)' <=>
          \/ j \in Given(i)
          \/ j = Len(seen') /\ ~IsSymbol(Len(seen))' /\ PortArg(Len(seen))' \in 0..PortMax
    BY <1>2, <1>3, <1>4 DEF Given
<1> QED BY <1>5

\* What stands before a symbol is not made usable by what comes after it.
LEMMA NoneBeforeStays ==
    ASSUME seen \in Seq(Args), NEW e \in Args, seen' = Append(seen, e),
           NEW i \in 1..Len(seen), IsSymbol(i), NoneBefore(i)
    PROVE  NoneBefore(i)'
<1> SUFFICES ASSUME NEW j \in 1..(i - 1), Usable(j)' PROVE FALSE
    BY DEF NoneBefore
<1>1. j \in 1..Len(seen) /\ i \in (j + 1)..Len(seen) /\ ~Usable(j)
    BY DEF NoneBefore
<1>2. NoSymbol(j + 1)
    BY <1>1, BecomesUsable
<1> QED BY <1>1, <1>2 DEF NoSymbol

LEMMA OfSymbolStays ==
    ASSUME seen \in Seq(Args), NEW e \in Args, seen' = Append(seen, e),
           NEW i \in 1..Len(seen), OfSymbol(i),
           url'.host = url.host, url'.path = url.path
    PROVE  OfSymbol(i)'
<1>1. seen'[i] = seen[i] /\ IsSymbol(i)'
    BY OneMore DEF OfSymbol
<1> QED BY <1>1 DEF OfSymbol

\* A number that is not taken, or a symbol behind a valid url, changes nothing.
LEMMA SourceStays ==
    ASSUME LoopInv, NEW e \in Args, seen' = Append(seen, e), url' = url,
           NEW i \in 1..Len(seen), Source(i),
           \/ Valid(url) /\ IsSymbol(Len(seen))'
           \/ ~IsSymbol(Len(seen))' /\ (HasPort(url) \/ PortArg(Len(seen))' < 0)
    PROVE  Source(i)'
<1>0. seen \in Seq(Args) /\ i \in 1..Len(seen') /\ Len(seen) \in Nat /\ Len(seen') = Len(seen) + 1
    BY OneMore DEF LoopInv, ArgsInv
<1>1. seen'[i] = seen[i] /\ IsSymbol(i)
    BY <1>0, OneMore DEF Source, OfSymbol
<1>2. OfSymbol(i)' /\ NoneBefore(i)'
    BY <1>0, <1>1, OfSymbolStays, NoneBeforeStays DEF Source
<1>3. Given(i)' = Given(i) \cup
          {j \in {Len(seen')} : ~IsSymbol(Len(seen))' /\ PortArg(Len(seen))' \in 0..PortMax}
    BY <1>0, GivenMore
<1>4. FirstPort(i)'
    <2>1. CASE HasPort(url)
        <3>1. PICK k \in Given(i) : url.port = PortArg(k) /\ \A j \in Given(i) : k <= j
            BY <2>1 DEF Source, FirstPort
        <3>2. k \in 1..Len(seen) /\ k <= Len(seen')
            BY <1>0 DEF Given
        <3>3. url'.port = PortArg(k)' /\ k \in Given(i)' /\ \A j \in Given(i)' : k <= j
            BY <1>0, <1>3, <3>1, <3>2, OneMore
        <3> QED BY <2>1, <3>3 DEF FirstPort, HasPort
    <2>2. CASE ~HasPort(url)
        <3>1. Given(i) = {}
            BY <2>2 DEF Source, FirstPort
        <3>2. Given(i)' = {}
            BY <1>3, <2>2, <3>1
        <3> QED BY <2>2, <3>2 DEF FirstPort, HasPort
    <2> QED BY <2>1, <2>2
<1>5. ASSUME Valid(url) PROVE Usable(i)'
    BY <1>0, <1>5, UsableStays DEF Source
<1>6. ASSUME ~Valid(url) PROVE NotMended(i)'
    <2>1. NotMended(i) /\ ~IsSymbol(Len(seen))'
        BY <1>6 DEF Source
    <2>2. NoSymbol(i + 1)'
        BY <1>0, <2>1, OneMore DEF NotMended, NoSymbol
    <2>3. url'.port = Parse(seen'[i].sym).port
        BY <1>1, <2>1 DEF NotMended
    <2>4. ASSUME url.host \in Ips PROVE \A j \in (i + 1)..Len(seen') : PortArg(j)' < 0
        <3>1. ~HasPort(url)
            BY <1>6, <2>4, UrlAssumption DEF Valid, HasPort, IsNumber
        <3>2. PortArg(Len(seen))' < 0
            BY <2>1, <3>1
        <3> QED BY <1>0, <2>1, <2>4, <3>2, OneMore DEF NotMended
    <2> QED BY <2>2, <2>3, <2>4 DEF NotMended
<1>7. Valid(url)' <=> Valid(url)
    BY DEF Valid
<1> QED BY <1>2, <1>4, <1>5, <1>6, <1>7 DEF Source

\* A symbol whose url was not valid, and not mended, is not usable.
LEMMA NothingUsable ==
    ASSUME LoopInv, NEW sym \in Symbols, seen' = Append(seen, [sym |-> sym]), ~Valid(url),
           \/ url = NoUrl /\ NoSymbol(1)
           \/ \E i \in 1..Len(seen) : Source(i)
    PROVE  \A j \in 1..Len(seen) : ~Usable(j)'
<1>0. seen \in Seq(Args) /\ [sym |-> sym] \in Args /\ Len(seen) \in Nat
    BY OneMore DEF LoopInv, ArgsInv, Args
<1>1. IsSymbol(Len(seen))'
    BY <1>0, SymbolMore
<1> SUFFICES ASSUME NEW j \in 1..Len(seen), Usable(j)' PROVE FALSE
    OBVIOUS
<1>2. Usable(j)
    BY <1>0, <1>1, BecomesUsable
<1>3. PICK i \in 1..Len(seen) : Source(i)
    BY <1>2 DEF NoSymbol, Usable
<1>4. j = i
    <2>1. ~(j \in 1..(i - 1))
        BY <1>2, <1>3 DEF Source, NoneBefore
    <2>2. ~(j \in (i + 1)..Len(seen))
        BY <1>2, <1>3 DEF Source, NotMended, NoSymbol, Usable
    <2> QED BY <1>0, <2>1, <2>2
<1>5. seen[i].sym \in Symbols /\ url.host = seen[i].sym.host /\ NotMended(i)
    BY <1>0, <1>3, ArgKinds DEF Source, OfSymbol
<1>6. ~Valid(Parse(seen[i].sym))
    <2>1. Parse(seen[i].sym).host = url.host /\ Parse(seen[i].sym).port = url.port
        BY <1>5, ParseFields DEF NotMended
    <2> QED BY <2>1 DEF Valid
<1>7. ~Mended(i)
    <2> SUFFICES ASSUME Mended(i) PROVE FALSE
        OBVIOUS
    <2>1. PICK k \in (i + 1)..Len(seen) : PortArg(k) >= 0
        BY DEF Mended
    <2>2. PortArg(k) < 0
        BY <1>5, <2>1 DEF Mended, NotMended
    <2>3. PortArg(k) \in Int
        BY <1>0, <2>1, ArgKinds
    <2> QED BY <2>1, <2>2, <2>3
<1> QED BY <1>2, <1>4, <1>6, <1>7 DEF Usable

\* A symbol that is taken over is what the url is of from then on.
LEMMA NewSource ==
    ASSUME LoopInv, NEW sym \in Symbols, seen' = Append(seen, [sym |-> sym]), ~Valid(url),
           url' = Parse(sym),
           \/ url = NoUrl /\ NoSymbol(1)
           \/ \E i \in 1..Len(seen) : Source(i)
    PROVE  \E i \in 1..Len(seen') : Source(i)'
<1> DEFINE n == Len(seen')
<1>0. /\ seen \in Seq(Args) /\ [sym |-> sym] \in Args /\ Len(seen) \in Nat
      /\ n = Len(seen) + 1 /\ n \in 1..n
    <2>1. seen \in Seq(Args) /\ [sym |-> sym] \in Args
        BY DEF LoopInv, ArgsInv, Args
    <2> QED BY <2>1, OneMore
<1>1. IsSymbol(Len(seen))' /\ PortArg(Len(seen))' = sym.port /\ seen'[n].sym = sym
    BY <1>0, SymbolMore
<1> PICK i \in {n} : TRUE
    OBVIOUS
<1>i. i = n
    OBVIOUS
<1> HIDE DEF n
<1>2. IsSymbol(i)' /\ PortArg(i)' = sym.port /\ seen'[i].sym = sym
    BY <1>1, <1>i DEF IsSymbol, PortArg, n
<1>3. OfSymbol(i)'
    <2>1. url'.host = sym.host /\ url'.path = IF ParseFails(sym) THEN "none" ELSE PathOf(sym)
        BY ParseFields
    <2>2. ASSUME sym.host # NoHost
          PROVE  url'.path = IF sym.port \in {Junk, EmptyText} THEN "none"
                             ELSE IF sym.path = "none" THEN "root" ELSE sym.path
        BY <2>1, <2>2 DEF ParseFails, PathOf
    <2> QED BY <1>2, <2>1, <2>2 DEF OfSymbol
<1>4. NoneBefore(i)'
    BY <1>0, <1>i, NothingUsable DEF NoneBefore
<1>5. FirstPort(i)'
    <2>1. url'.port = IF sym.port = EmptyText THEN Absent ELSE sym.port
        BY ParseFields
    <2>2. HasPort(url)' <=> sym.port \in 0..PortMax
        BY <2>1 DEF HasPort, EmptyText, Absent
    <2>3. Given(i)' = {j \in {i} : sym.port \in 0..PortMax}
        <3>1. i..Len(seen') = {i}
            BY <1>0, <1>i DEF n
        <3> QED BY <1>2, <3>1 DEF Given
    <2>4. CASE sym.port \in 0..PortMax
        <3>1. i \in Given(i)' /\ url'.port = PortArg(i)' /\ \A j \in Given(i)' : i <= j
            BY <1>0, <1>2, <1>i, <2>1, <2>3, <2>4 DEF EmptyText
        <3> QED BY <2>2, <2>4, <3>1 DEF FirstPort
    <2>5. CASE sym.port \notin 0..PortMax
        BY <2>2, <2>3, <2>5 DEF FirstPort
    <2> QED BY <2>4, <2>5
<1>6. ASSUME Valid(url)' PROVE Usable(i)'
    BY <1>2, <1>6 DEF Usable, Valid, IsNumber
<1>7. NotMended(i)'
    <2>1. (i + 1)..Len(seen') = {}
        BY <1>0, <1>i DEF n
    <2> QED BY <1>2, <2>1 DEF NotMended, NoSymbol
<1>8. Source(i)'
    BY <1>3, <1>4, <1>5, <1>6, <1>7 DEF Source
<1> QED BY <1>0, <1>8, <1>i DEF n

\* A number that is taken as the port, behind an address.
LEMMA NumberTaken ==
    ASSUME LoopInv, NEW arg \in LongArgs, seen' = Append(seen, [long |-> arg]),
           NEW n, n = Atom!Narrow(arg), n >= 0, url.host \in Ips, ~HasPort(url),
           url' = WithPort(url, n),
           NEW i \in 1..Len(seen), Source(i)
    PROVE  Source(i)'
<1>0. /\ seen \in Seq(Args) /\ [long |-> arg] \in Args /\ n \in Int /\ url \in UrlRecords
      /\ Len(seen) \in Nat /\ Len(seen') = Len(seen) + 1
    <2>1. seen \in Seq(Args) /\ [long |-> arg] \in Args /\ n \in Int /\ url \in UrlRecords
        BY NarrowIsInt DEF LoopInv, ArgsInv, Args
    <2> QED BY <2>1, OneMore
<1>1. url'.host = url.host /\ url'.port = n /\ url'.path = url.path
    BY <1>0, WithPortFields
<1>2. ~IsSymbol(Len(seen))' /\ PortArg(Len(seen))' = n
    BY <1>0, LongMore
<1>3. seen'[i] = seen[i] /\ IsSymbol(i) /\ IsSymbol(i)'
    BY <1>0, OneMore DEF Source, OfSymbol
<1>4. OfSymbol(i)' /\ NoneBefore(i)'
    BY <1>0, <1>1, <1>3, OfSymbolStays, NoneBeforeStays DEF Source
<1>5. Given(i)' = {j \in {Len(seen')} : n \in 0..PortMax}
    <2>1. Given(i) = {}
        BY DEF Source, FirstPort
    <2>2. Given(i)' = Given(i) \cup
              {j \in {Len(seen')} : ~IsSymbol(Len(seen))' /\ PortArg(Len(seen))' \in 0..PortMax}
        BY <1>0, GivenMore
    <2> QED BY <1>2, <2>1, <2>2
<1>6. FirstPort(i)'
    <2>1. PortArg(Len(seen))' = n /\ Len(seen') <= Len(seen')
        BY <1>0, <1>2
    <2>2. HasPort(url)' <=> n \in 0..PortMax
        BY <1>1 DEF HasPort
    <2>3. CASE n \in 0..PortMax
        <3> PICK k \in {Len(seen')} : TRUE
            OBVIOUS
        <3>1. k = Len(seen') /\ Given(i)' = {k}
            BY <1>5, <2>3
        <3>2. PortArg(k)' = n
            BY <2>1, <3>1 DEF PortArg, IsSymbol
        <3>3. k <= k
            BY <2>1, <3>1
        <3> QED BY <1>1, <2>2, <2>3, <3>1, <3>2, <3>3 DEF FirstPort
    <2>4. CASE n \notin 0..PortMax
        BY <1>5, <2>2, <2>4 DEF FirstPort
    <2> QED BY <2>3, <2>4
<1>7. Valid(url)'
    BY <1>0, <1>1, UrlAssumption DEF Valid, IsNumber
<1>8. Usable(i)'
    <2>1. CASE Valid(url)
        BY <1>0, <2>1, UsableStays DEF Source
    <2>2. CASE ~Valid(url)
        <3> PICK k \in {Len(seen')} : TRUE
            OBVIOUS
        <3>1. k = Len(seen') /\ ~IsSymbol(k)' /\ PortArg(k)' >= 0
            BY <1>2 DEF PortArg, IsSymbol
        <3>2. k \in (i + 1)..Len(seen')
            BY <1>0, <3>1
        <3>3. NoSymbol(i + 1)
            BY <2>2 DEF Source, NotMended
        <3>4. \A j \in (i + 1)..k : ~IsSymbol(j)'
            <4> SUFFICES ASSUME NEW j \in (i + 1)..k PROVE ~IsSymbol(j)'
                OBVIOUS
            <4>1. j \in (i + 1)..Len(seen) \/ j = k
                BY <1>0, <3>1
            <4> QED BY <1>0, <3>1, <3>3, <4>1, OneMore DEF NoSymbol
        <3>5. seen'[i].sym.host \in Ips
            BY <1>3 DEF Source, OfSymbol
        <3>6. Mended(i)'
            BY <3>1, <3>2, <3>4, <3>5 DEF Mended
        <3> QED BY <1>3, <3>6 DEF Usable
    <2> QED BY <2>1, <2>2
<1> QED BY <1>4, <1>6, <1>7, <1>8 DEF Source

LEMMA SourceInvStep == LoopInv /\ SourceInv /\ [Next]_vars => SourceInv'
<1> DEFINE Found == \/ url = NoUrl /\ NoSymbol(1)
                    \/ \E i \in 1..Len(seen) : Source(i)
<1> SUFFICES ASSUME LoopInv, SourceInv, [Next]_vars, outcome' # "threw" PROVE Found'
    BY DEF SourceInv
<1>0. seen \in Seq(Args)
    BY DEF LoopInv, ArgsInv
<1>1. ASSUME url' = url, seen' = seen, Found PROVE Found'
    <2>1. CASE url = NoUrl /\ NoSymbol(1)
        BY <1>1, <2>1 DEF NoSymbol, IsSymbol
    <2>2. ASSUME NEW i \in 1..Len(seen), Source(i) PROVE Found'
        <3>1. Source(i)'
            BY <1>1, <2>2 DEF Source, OfSymbol, NoneBefore, Usable, Mended, FirstPort, Given,
                              NotMended, NoSymbol, Valid, IsNumber, HasPort, IsSymbol, PortArg
        <3> QED BY <1>1, <3>1
    <2> QED BY <1>1, <2>1, <2>2
<1>2. ASSUME NEW sym \in Symbols, Symbol(sym) PROVE Found'
    <2>1. /\ [sym |-> sym] \in Args /\ seen' = Append(seen, [sym |-> sym])
          /\ outcome = "running" /\ Found
        BY <1>2 DEF Args, Symbol, More, SourceInv
    <2>2. CASE ~Valid(url) /\ url' = Parse(sym)
        BY <2>1, <2>2, NewSource
    <2>3. CASE Valid(url) /\ url' = url
        <3>1. PICK i \in 1..Len(seen) : Source(i)
            BY <2>1, <2>3 DEF NoUrl, Valid
        <3>2. IsSymbol(Len(seen))'
            BY <1>0, <2>1, SymbolMore
        <3>3. Source(i)'
            BY <2>1, <2>3, <3>1, <3>2, SourceStays
        <3>4. i \in 1..Len(seen')
            BY <1>0, <2>1, OneMore
        <3> QED BY <3>3, <3>4
    <2> QED BY <1>2, <2>2, <2>3 DEF Symbol, Throw, Set, TakesSymbol
<1>3. ASSUME NEW arg \in LongArgs, Long(arg) PROVE Found'
    <2> DEFINE n == Atom!Narrow(arg)
    <2>1. /\ [long |-> arg] \in Args /\ seen' = Append(seen, [long |-> arg])
          /\ outcome = "running" /\ Found /\ n \in Int
        BY <1>3, NarrowIsInt DEF Args, Long, More, SourceInv
    <2>2. ~IsSymbol(Len(seen))' /\ PortArg(Len(seen))' = n
        BY <1>0, <2>1, LongMore
    <2>3. \A i \in 1..Len(seen) : i \in 1..Len(seen')
        BY <1>0, <2>1, OneMore
    <2>4. CASE url' = WithPort(url, n) /\ n >= 0 /\ url.host \in Ips /\ ~HasPort(url)
        <3>1. PICK i \in 1..Len(seen) : Source(i)
            BY <2>1, <2>4, UrlAssumption DEF NoUrl
        <3>2. Source(i)'
            BY <2>1, <2>4, <3>1, NumberTaken
        <3> QED BY <2>3, <3>1, <3>2
    <2>5. CASE url' = url /\ ~(~HasPort(url) /\ n >= 0)
        <3>1. CASE url = NoUrl /\ NoSymbol(1)
            <4>1. NoSymbol(1)'
                <5> SUFFICES ASSUME NEW j \in 1..Len(seen') PROVE ~IsSymbol(j)'
                    BY DEF NoSymbol
                <5>1. j \in 1..Len(seen) \/ j = Len(seen')
                    BY <1>0, <2>1, OneMore
                <5>2. CASE j = Len(seen')
                    BY <2>2, <5>2 DEF IsSymbol
                <5> QED BY <1>0, <2>1, <3>1, <5>1, <5>2, OneMore DEF NoSymbol
            <4> QED BY <2>5, <3>1, <4>1
        <3>2. ASSUME NEW i \in 1..Len(seen), Source(i) PROVE Found'
            <4>1. HasPort(url) \/ PortArg(Len(seen))' < 0
                BY <2>1, <2>2, <2>5
            <4>2. Source(i)'
                BY <2>1, <2>2, <2>5, <3>2, <4>1, SourceStays
            <4> QED BY <2>3, <4>2
        <3> QED BY <2>1, <3>1, <3>2
    <2> QED BY <1>3, <2>4, <2>5 DEF Long, Throw, Set, TakesPort
<1>4. CASE Finish
    <2>1. url' = url /\ seen' = seen /\ Found
        BY <1>4 DEF Finish, SourceInv
    <2> QED BY <1>1, <2>1
<1>5. CASE UNCHANGED vars
    <2>1. url' = url /\ seen' = seen /\ Found
        BY <1>5 DEF vars, SourceInv
    <2> QED BY <1>1, <2>1
<1> QED BY <1>2, <1>3, <1>4, <1>5 DEF Next

LEMMA SourceIsMeant == LoopInv /\ SourceInv => FirstPortWins
<1> SUFFICES ASSUME LoopInv, SourceInv, outcome = "done", Valid(url)
             PROVE  \E i \in 1..Len(seen) :
                        /\ Usable(i) /\ \A j \in 1..(i - 1) : ~Usable(j)
                        /\ url.host = seen[i].sym.host
                        /\ url.path = IF seen[i].sym.port \in {Junk, EmptyText} THEN "none"
                                      ELSE IF seen[i].sym.path = "none" THEN "root"
                                      ELSE seen[i].sym.path
                        /\ Port(url) = IF Given(i) = {} THEN StdPort ELSE PortArg(Min(Given(i)))
    BY DEF FirstPortWins, Given
<1>1. PICK i \in 1..Len(seen) : Source(i)
    BY DEF SourceInv, NoUrl, Valid
<1>2. Usable(i) /\ OfSymbol(i) /\ NoneBefore(i) /\ FirstPort(i) /\ url.host # NoHost
    BY <1>1 DEF Source, Valid
<1>3. Port(url) = IF Given(i) = {} THEN StdPort ELSE PortArg(Min(Given(i)))
    <2>1. CASE HasPort(url)
        <3>1. PICK k \in Given(i) : url.port = PortArg(k) /\ \A j \in Given(i) : k <= j
            BY <1>2, <2>1 DEF FirstPort
        <3>2. \A j \in Given(i) : j \in Int
            BY DEF Given
        <3>3. Min(Given(i)) = k
            BY <3>1, <3>2 DEF Min
        <3> QED BY <2>1, <3>1, <3>3 DEF Port
    <2>2. CASE ~HasPort(url)
        BY <1>2, <2>2 DEF FirstPort, Port
    <2> QED BY <2>1, <2>2
<1> QED BY <1>2, <1>3 DEF OfSymbol, NoneBefore

\* A url that is valid at the end of the arguments is what they mean: the host and
\* the path of the first symbol that makes a valid url or is mended, and the
\* first port from there on, however many arguments there are.
THEOREM ArgumentsMeanUrl == Spec => []FirstPortWins
<1>1. Init => LoopInv /\ SourceInv
    <2>1. Init => SourceInv
        BY DEF Init, SourceInv, NoSymbol
    <2> QED BY <2>1, LoopInvInit
<1>2. LoopInv /\ SourceInv /\ [Next]_vars => (LoopInv /\ SourceInv)'
    BY LoopInvStep, SourceInvStep
<1> QED BY <1>1, <1>2, SourceIsMeant, PTL DEF Spec
=============================================================================
