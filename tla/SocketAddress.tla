--------------------------- MODULE SocketAddress ----------------------------
(***************************************************************************)
(* SocketAddress::parse: the address that a connection string of the       *)
(* configuration, or of an SDK user, stands for.                           *)
(*                                                                         *)
(* A string is a sequence of tokens: the three prefixes, the characters    *)
(* that parsing looks for, two digits, the signs, the blank and the "x"    *)
(* that strtoull knows (elsewhere "x" is like any other character), "nul"  *)
(* for a null character, and "ip4" for an IPv4 address to which no digit   *)
(* can be added before or behind to make another, such as 127.0.0.255.     *)
(*                                                                         *)
(* The state is the string; a step makes it longer. What sends messages to *)
(* the address is in Executor and Daemonize.                               *)
(***************************************************************************)
EXTENDS Integers, Sequences, SequencesExt

CONSTANTS
    MaxLength,     \* bound: tokens after the prefix tcp://
    PathCapacity,  \* sizeof(sun_path) (108)
    MaxPort,       \* largest port (65535)
    MaxULL,        \* ULLONG_MAX, the largest number strtoull gives
    PortHint       \* port where the string has none

ASSUME AddressAssumption ==
    /\ {MaxLength, PathCapacity, MaxPort, MaxULL, PortHint} \subseteq Nat
    /\ PathCapacity > 2 /\ PortHint <= MaxPort /\ MaxPort <= MaxULL

Schemes    == {"unix:", "unix-abstract:", "tcp://"}
Digits     == {"0", "7"}
Characters == Digits \cup {"[", "]", ":", "*", "+", "-", "blank", "x", "nul", "ip4"}

VARIABLE conn_str

Starts(s, prefix) == s # << >> /\ Head(s) = prefix

\* Unix paths need not grow beyond sun_path.
LongestOf(s) == IF Starts(s, "tcp://") THEN MaxLength ELSE PathCapacity

AddressInit == conn_str = << >>

AddressNext ==
    \/ /\ conn_str = << >>
       /\ \E t \in Schemes \cup {"x"} : conn_str' = << t >>
    \/ /\ conn_str # << >> /\ Len(conn_str) <= LongestOf(conn_str)
       /\ \E t \in Characters : conn_str' = Append(conn_str, t)

AddressSpec == AddressInit /\ [][AddressNext]_conn_str

-----------------------------------------------------------------------------
NotMine == [ is |-> "not mine" ]
Invalid == [ is |-> "InvalidArgument" ]

\* c_str() of a string ends at its first null character.
CString(s) ==
    LET nuls == { i \in DOMAIN s : s[i] = "nul" }
    IN  IF nuls = {} THEN s ELSE SubSeq(s, 1, (CHOOSE i \in nuls : \A j \in nuls : i <= j) - 1)

Zeros(n) == [ i \in 1 .. n |-> "nul" ]

\* bytes: sun_path up to addr_len_. written: how far the copy went.
UnixAddress(bytes, written) == [ is |-> "unix", bytes |-> bytes, written |-> written ]

InetAddress(family, host, port) == [ is |-> family, host |-> host, port |-> port ]

\* strncpy fills the rest of sun_path with zeros.
tryParseAsUnixDomain(s) ==
    LET path == Tail(s)
        text == CString(path) IN
    IF ~Starts(s, "unix:") THEN NotMine
    ELSE IF Len(path) + 1 > PathCapacity THEN Invalid
    ELSE UnixAddress(text \o Zeros(Len(path) + 1 - Len(text)), PathCapacity)

(* Slip: the null byte in front is forgotten. *)
FitsAsPath(path) == Len(path) + 1 <= PathCapacity

FitsAsAbstract(path) == Len(path) + 1 <= PathCapacity - 1

\* memcpy to sun_path[1], the terminator of the string included.
tryParseAsAbstractUnixDomain(s) ==
    LET path == Tail(s) IN
    IF ~Starts(s, "unix-abstract:") THEN NotMine
    ELSE IF ~FitsAsAbstract(path) THEN Invalid
    ELSE UnixAddress(<< "nul" >> \o path, 1 + Len(path) + 1)

Positions(s, c) == { i \in DOMAIN s : s[i] = c }

FirstOf(set) == CHOOSE i \in set : \A j \in set : i <= j
LastOf(set)  == CHOOSE i \in set : \A j \in set : i >= j

From(s, i) == SubSeq(s, i, Len(s))

(* strtoull with base 0 skips blanks and takes a sign, then digits: hexadecimal *)
(* behind 0x, octal behind 0, else decimal.                                     *)
Unblanked(s) ==
    LET ink == { i \in DOMAIN s : s[i] # "blank" }
    IN  IF ink = {} THEN << >> ELSE From(s, FirstOf(ink))

Unsigned(s) == IF Starts(s, "+") \/ Starts(s, "-") THEN Tail(s) ELSE s

Base(u) == IF Len(u) < 2 \/ u[1] # "0" THEN 10 ELSE IF u[2] = "x" THEN 16 ELSE 8

Numeral(u) == IF Base(u) = 16 THEN From(u, 3) ELSE u

\* The conversion stops at the end of the text.
IsNumber(s) ==
    LET numeral == Numeral(Unsigned(Unblanked(s)))
    IN  s = << >> \/ (numeral # << >> /\ ToSet(numeral) \subseteq Digits)

\* Beyond the limit it is the limit; a minus sign negates modulo the width. Nothing is 0.
Number(s) ==
    LET u     == Unsigned(Unblanked(s))
        value == [ d \in Digits |-> IF d = "7" THEN 7 ELSE 0 ]
        n     == FoldLeft(LAMBDA m, d : m * Base(u) + value[d], 0, Numeral(u))
    IN  IF n > MaxULL THEN MaxULL
        ELSE IF Starts(Unblanked(s), "-") THEN (MaxULL + 1 - n) % (MaxULL + 1)
        ELSE n

NoHost == [ family |-> "unspec", host |-> << >>, port |-> 0 ]

(* Slip: the number is cut to the width of a port. *)
WithCutPort(family, host, part) ==
    LET text == CString(part) IN
    IF part = << >> THEN [ family |-> family, host |-> host, port |-> PortHint ]
    ELSE IF ~IsNumber(text) THEN NoHost
    ELSE [ family |-> family, host |-> host, port |-> Number(text) % (MaxPort + 1) ]

\* The port part, if any; otherwise the hint.
WithPort(family, host, part) ==
    LET text == CString(part) IN
    IF part = << >> THEN [ family |-> family, host |-> host, port |-> PortHint ]
    ELSE IF ~IsNumber(text) \/ Number(text) > MaxPort THEN NoHost
    ELSE [ family |-> family, host |-> host, port |-> Number(text) ]

\* Two colons: there is no port.
ColonsAreInHost(s) == \E i, j \in Positions(s, ":") : i # j

extractFamilyHostAndPort(s) ==
    IF Starts(s, "[")
    THEN LET end == LastOf(Positions(s, "]")) IN
         IF Positions(s, "]") = {} THEN NoHost
         ELSE IF Len(s) > end /\ s[end + 1] # ":" THEN NoHost
         ELSE WithPort("inet6", SubSeq(s, 2, end - 1), From(s, end + 2))
    ELSE IF ColonsAreInHost(s) THEN WithPort("inet6", s, << >>)
    ELSE IF Positions(s, ":") # {}
         THEN LET colon == FirstOf(Positions(s, ":"))
              IN  WithPort("inet", SubSeq(s, 1, colon - 1), From(s, colon + 1))
    ELSE WithPort("inet", s, << >>)

tryParseAsWildcard(host, port) ==
    IF host = << "*" >> THEN InetAddress("wildcard", host, port) ELSE NotMine

\* IPv6 text: groups of up to four digits with colons between them, eight or,
\* with one "::", fewer; an IPv4 address stands for the last two.
IsIp6(t) ==
    LET colons == Positions(t, ":")
        inner  == DOMAIN t \ colons
        gaps   == { i \in colons : i + 1 \in colons }
        groups == { i \in inner : i - 1 \notin inner }
        width  == Cardinality(groups) + Cardinality(Positions(t, "ip4"))
    IN  /\ ToSet(t) \subseteq Digits \cup {":", "ip4"}
        /\ Positions(t, "ip4") \subseteq groups \cap {Len(t)}
        /\ \A i \in groups : ~(i .. i + 4 \subseteq inner)
        /\ 1 \in colons => 1 \in gaps
        /\ Len(t) \in colons => Len(t) - 1 \in gaps
        /\ IF gaps = {} THEN width = 8 ELSE Cardinality(gaps) = 1 /\ width < 8

inet_pton(family, text) == IF family = "inet" THEN text = << "ip4" >> ELSE IsIp6(text)

tryParseHost(x) ==
    IF x.family = "unspec" THEN Invalid
    ELSE IF tryParseAsWildcard(x.host, x.port) # NotMine THEN tryParseAsWildcard(x.host, x.port)
    ELSE IF inet_pton(x.family, CString(x.host)) THEN InetAddress(x.family, CString(x.host), x.port)
    ELSE Invalid

tryParseAsTcpAddress(s) ==
    IF Starts(s, "tcp://") THEN tryParseHost(extractFamilyHostAndPort(Tail(s))) ELSE NotMine

\* The next attempt is made when a prefix is not the string's.
OrElse(result, next) == IF result # NotMine THEN result ELSE next

parse(s) ==
    OrElse(tryParseAsUnixDomain(s),
        OrElse(tryParseAsAbstractUnixDomain(s), OrElse(tryParseAsTcpAddress(s), Invalid)))

-----------------------------------------------------------------------------
(* What a text can mean: a reference that tries every cut.                 *)

\* Places where a host may end: the end of the text, or before a colon.
Cuts(y) == { k \in 0 .. Len(y) : Len(y) > k => y[k + 1] = ":" }

Reading(family, host, part) == [ family |-> family, host |-> host, part |-> part ]

\* A bare host and a port, a host in brackets and a port, or an IPv6 host alone.
Readings(y) ==
    { Reading("inet", SubSeq(y, 1, k), From(y, k + 2)) : k \in Cuts(y) }
    \cup { Reading("inet6", SubSeq(y, 2, k - 1), From(y, k + 2)) :
              k \in { c \in Cuts(y) : Starts(y, "[") /\ y[c] = "]" } }
    \cup { Reading("inet6", y, << >>) }

MakesSense(r) ==
    /\ r.host = << "*" >> \/ inet_pton(r.family, r.host)
    /\ r.part = << >> \/ (IsNumber(r.part) /\ ~(Number(r.part) > MaxPort))

AddressOf(r) ==
    InetAddress(IF r.host = << "*" >> THEN "wildcard" ELSE r.family, r.host,
                IF r.part = << >> THEN PortHint ELSE Number(r.part))

\* extractFamilyHostAndPort finds the one address that makes sense, if there is one.
CutsAsWritten(y, address) ==
    LET meant == { AddressOf(r) : r \in { q \in Readings(y) : MakesSense(q) } }
    IN  {address} = IF meant = {} THEN {Invalid} ELSE meant

\* How a port is printed, with the digits of the model.
DigitOf(d) == CASE d = 0 -> "0" [] d = 7 -> "7" [] OTHER -> "another digit"

Decimal[n \in 0 .. MaxPort] ==
    IF n < 10 THEN << DigitOf(n) >> ELSE Append(Decimal[n \div 10], DigitOf(n % 10))

\* The forms the configuration names: tcp://*:<port>, tcp://<ip4>:<port>, tcp://[<ip6>]:<port>.
DocumentedAsWritten(y, address) ==
    \A k \in { c \in Cuts(y) : c < Len(y) } :
        \A port \in { n \in 0 .. MaxPort : Decimal[n] = From(y, k + 2) } :
            LET host == SubSeq(y, 2, k - 1) IN
            /\ k = 1 /\ y[1] = "*" => address = InetAddress("wildcard", << "*" >>, port)
            /\ k = 1 /\ y[1] = "ip4" => address = InetAddress("inet", << "ip4" >>, port)
            /\ y[1] = "[" /\ y[k] = "]" /\ inet_pton("inet6", host) => address = InetAddress("inet6", host, port)

(***************************************************************************)
(* A tcp string without null characters that has one of the forms of       *)
(* init.d/ocvsmd.toml:43-45 gives the host and the port it spells. Any     *)
(* other is accepted just if some cut leaves a host that inet_pton takes   *)
(* (or "*") and nothing, or a number up to 65535, behind a colon: no part  *)
(* is dropped, no port is taken for a part of the host or cut to 16 bits.  *)
(* Among the other strings accepted are "[*]", a host with a colon and no  *)
(* port, and every number strtoull takes: octal, hexadecimal, with blanks, *)
(* signed, a negative one modulo 2^64.                                     *)
(***************************************************************************)
ReadsAsWritten ==
    Starts(conn_str, "tcp://") /\ "nul" \notin ToSet(conn_str) =>
        /\ CutsAsWritten(Tail(conn_str), parse(conn_str))
        /\ DocumentedAsWritten(Tail(conn_str), parse(conn_str))

\* What is to be said of the address a that s gives, if it is a Unix one.
FitsAndIsWhole(s, a) ==
    /\ a.written <= PathCapacity /\ Len(a.bytes) <= PathCapacity
    /\ Starts(s, "unix-abstract:") => Tail(a.bytes) = Tail(s)
    /\ Starts(s, "unix:") => CString(a.bytes) = CString(Tail(s)) /\ a.bytes[Len(a.bytes)] = "nul"

(***************************************************************************)
(* Unix addresses: a copy stays within sun_path; the name of an abstract   *)
(* address is the whole path, its null characters included; that of a file *)
(* is terminated within its length.                                        *)
(***************************************************************************)
FitsInSunPath ==
    parse(conn_str).is = "unix" => FitsAndIsWhole(conn_str, parse(conn_str))
=============================================================================
