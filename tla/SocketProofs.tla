---------------------------- MODULE SocketProofs ----------------------------
(***************************************************************************)
(* Proofs about the sockets below the IPC.                                 *)
(*                                                                         *)
(* The framing of messages on a stream socket, for any number of messages, *)
(* any capacity of the socket's buffer, any limit on payloads and any      *)
(* lengths of fragments: however the kernel cuts the stream, and wherever  *)
(* send() forgets the rest of a fragment.                                  *)
(*                                                                         *)
(* The parsing of connection strings, for any capacity of sun_path, any    *)
(* largest port, any port hint and strings of any length.                  *)
(***************************************************************************)
EXTENDS SocketFraming, SocketAddress, FiniteSetTheorems, SequenceTheorems, TLAPS

-----------------------------------------------------------------------------
(***************************************************************************)
(* What is under way between the writer and the reader. The predicates     *)
(* are about a sequence s of bytes when c messages were begun, whose       *)
(* fragments have the lengths ls, when the messages t are torn and the     *)
(* next byte of message c that the writer writes is the one at place nx.   *)
(***************************************************************************)
Byte == [ msg : Nat, at : Nat ]

\* The place of the last byte of a message.
LastAt(ls, m) == HeaderSize + ls[m][1] + ls[m][2]

Ranged(s, c, ls) ==
    \A i \in 1 .. Len(s) : s[i].msg \in 1 .. c /\ s[i].at \in 1 .. LastAt(ls, s[i].msg)

Before(x, y) == x.msg < y.msg \/ (x.msg = y.msg /\ x.at < y.at)

Rising(s) == \A i, j \in 1 .. Len(s) : i < j => Before(s[i], s[j])

\* A message that is not torn goes on, byte by byte, up to its last one.
Runs(s, ls, t) ==
    \A i, j \in 1 .. Len(s) :
        i <= j /\ s[i].msg \notin t /\ s[i].at + (j - i) <= LastAt(ls, s[i].msg)
            => s[j].msg = s[i].msg /\ s[j].at = s[i].at + (j - i)

Written(s, c, nx) ==
    \A i \in 1 .. Len(s) : s[i].msg < c \/ (s[i].msg = c /\ s[i].at < nx)

\* ... and was written up to its last byte, or up to the next one to be written.
Reached(s, c, ls, t, nx) ==
    \A i \in 1 .. Len(s) :
        s[i].msg \notin t =>
            /\ s[i].msg = c => s[i].at + (Len(s) - i) + 1 = nx
            /\ s[i].msg < c => s[i].at + (Len(s) - i) >= LastAt(ls, s[i].msg)

\* If no message is torn, each is followed by the next one ...
Gapless(s, ls, t) ==
    t = {} =>
        \A i \in 1 .. Len(s) : i + 1 \in 1 .. Len(s) /\ s[i].at = LastAt(ls, s[i].msg)
            => s[i + 1].msg = s[i].msg + 1 /\ s[i + 1].at = Sig

\* ... up to the byte before the next one to be written.
UpToDate(s, c, ls, t, nx) ==
    t = {} /\ Len(s) > 0 =>
        /\ nx > 1 => s[Len(s)].msg = c /\ s[Len(s)].at = nx - 1
        /\ nx = 1 => s[Len(s)].msg = c - 1 /\ s[Len(s)].at = LastAt(ls, c - 1)

Flow(s, c, ls, t, nx) ==
    /\ Ranged(s, c, ls) /\ Rising(s) /\ Runs(s, ls, t) /\ Written(s, c, nx)
    /\ Reached(s, c, ls, t, nx) /\ Gapless(s, ls, t) /\ UpToDate(s, c, ls, t, nx)

-----------------------------------------------------------------------------
(***************************************************************************)
(* The inductive invariant.                                                *)
(***************************************************************************)
FramingTypes ==
    /\ count \in 0 .. MaxMsgs /\ lens \in [ Msgs -> Nat \X Nat ]
    /\ \A m \in 1 .. count : lens[m][1] > 0 /\ lens[m][2] > 0
    /\ torn \subseteq 1 .. count
    /\ buf \in Seq(Byte) /\ got \in Seq(Byte) /\ want \in Nat /\ from \in 0 .. count
    /\ delivered \in Seq([ from : Nat, payload : Seq(Byte) ])

Fragment(c, ls, k) ==
    IF k = 1 THEN Bytes(c, 1, HeaderSize)
    ELSE IF k = 2 THEN Bytes(c, HeaderSize + 1, HeaderSize + ls[c][1])
    ELSE Bytes(c, HeaderSize + ls[c][1] + 1, HeaderSize + ls[c][1] + ls[c][2])

\* The fragments that send() has yet to write are the last ones of the last message.
LastFragments(o, c, ls) ==
    \/ o = << >>
    \/ /\ c > 0
       /\ \/ o = << Fragment(c, ls, 1), Fragment(c, ls, 2), Fragment(c, ls, 3) >>
          \/ o = << Fragment(c, ls, 2), Fragment(c, ls, 3) >>
          \/ o = << Fragment(c, ls, 3) >>

Outgoing == LastFragments(out, count, lens)

\* The place of the next byte to be written.
PlaceOf(o, c, ls) ==
    IF Len(o) = 3 THEN 1
    ELSE IF Len(o) = 2 THEN HeaderSize + 1
    ELSE IF Len(o) = 1 THEN HeaderSize + ls[c][1] + 1
    ELSE LastAt(ls, c) + 1

NextAt == PlaceOf(out, count, lens)

(***************************************************************************)
(* What the reader has of the current part and what is still in the        *)
(* socket; in front of a payload, the size that its header ended with.     *)
(***************************************************************************)
Joined(p, f, g, b) ==
    (IF p = "payload" THEN << [ msg |-> f, at |-> Size ] >> ELSE << >>) \o (g \o b)

Stream == Joined(part, from, got, buf)

\* The bytes to come are later than the signature that was read last.
Ahead ==
    /\ part # "closed" => \A i \in 1 .. Len(Stream) :
                             Before([ msg |-> from, at |-> Sig ], Stream[i])
    /\ from > 0 /\ from = count => NextAt > 1
    /\ part = "payload" => from > 0 /\ (from \notin torn => want = PayloadSize(from))

Deliveries ==
    \A i \in DOMAIN delivered :
        /\ delivered[i].from \in 1 .. from
        /\ part = "payload" => delivered[i].from < from
        /\ delivered[i].from \notin torn => delivered[i].payload = Payload(delivered[i].from)
        /\ \A j \in DOMAIN delivered : i < j => delivered[i].from < delivered[j].from

\* As long as no message is torn, the reader is in step with the writer.
InStep ==
    torn = {} =>
        /\ \A i \in DOMAIN delivered : delivered[i].from = i
        /\ part = "payload" => from = Len(delivered) + 1
        /\ part = "header" =>
              /\ from = Len(delivered)
              /\ Len(Stream) > 0 => Stream[1].msg = from + 1 /\ Stream[1].at = Sig
              /\ Len(Stream) = 0 => IF out = << >> THEN count = from
                                    ELSE NextAt = 1 /\ count = from + 1

FramingInv ==
    /\ FramingTypes /\ TypeOK /\ Outgoing
    /\ part # "closed" => Flow(Stream, count, lens, torn, NextAt)
    /\ Ahead /\ Deliveries /\ InStep

-----------------------------------------------------------------------------
(***************************************************************************)
(* How the flow changes.                                                   *)
(***************************************************************************)
\* A byte is two numbers.
LEMMA ByteFacts ==
    ASSUME NEW s \in Seq(Byte)
    PROVE  /\ Len(s) \in Nat
           /\ \A i \in 1 .. Len(s) : s[i].msg \in Nat /\ s[i].at \in Nat
<1>1. \A i \in 1 .. Len(s) : s[i] \in Byte
    BY ElementOfSeq
<1> QED
    BY <1>1, LenProperties DEF Byte

LEMMA ByteEqual ==
    ASSUME NEW x \in Byte, NEW y \in Byte, x.msg = y.msg, x.at = y.at
    PROVE  x = y
<1>1. x = [ msg |-> x.msg, at |-> x.at ] /\ y = [ msg |-> y.msg, at |-> y.at ]
    BY DEF Byte
<1> QED
    BY <1>1

\* Arithmetic on places in a message and in a sequence.
LEMMA Distances ==
    ASSUME NEW a \in Int, NEW b \in Int, NEW l \in Int, NEW i \in Int, NEW z \in Int
    PROVE  a = z + (i - l) - 1 => a + ((l + b) - i) + 1 = z + b
OBVIOUS

\* What is left of a flow after its first d bytes were read is a flow.
LEMMA FlowDrops ==
    ASSUME NEW s \in Seq(Byte), NEW r \in Seq(Byte), NEW d \in Nat,
           Len(s) = d + Len(r), \A k \in 1 .. Len(r) : r[k] = s[d + k],
           NEW c \in Nat, NEW ls, NEW t, NEW nx,
           Flow(s, c, ls, t, nx)
    PROVE  Flow(r, c, ls, t, nx)
<1>1. /\ Len(s) \in Nat /\ Len(r) \in Nat
      /\ \A k \in 1 .. Len(r) : d + k \in 1 .. Len(s) /\ r[k] = s[d + k]
  <2>1. Len(s) \in Nat /\ Len(r) \in Nat
    BY ByteFacts
  <2> QED
    BY <2>1
<1>b. \A i \in 1 .. Len(s) : s[i].msg \in Nat /\ s[i].at \in Nat
    BY ByteFacts
<1>2. Ranged(r, c, ls)
    BY <1>1 DEF Flow, Ranged
<1>3. Rising(r)
    BY <1>1 DEF Flow, Rising
<1>4. Runs(r, ls, t)
  <2> SUFFICES ASSUME NEW i \in 1 .. Len(r), NEW j \in 1 .. Len(r),
                      i <= j, r[i].msg \notin t, r[i].at + (j - i) <= LastAt(ls, r[i].msg)
               PROVE  r[j].msg = r[i].msg /\ r[j].at = r[i].at + (j - i)
    BY DEF Runs
  <2>1. (d + j) - (d + i) = j - i /\ d + i <= d + j
    BY <1>1
  <2>2. r[i] = s[d + i] /\ r[j] = s[d + j] /\ d + i \in 1 .. Len(s) /\ d + j \in 1 .. Len(s)
    BY <1>1
  <2>3. s[d + i].at + ((d + j) - (d + i)) <= LastAt(ls, s[d + i].msg)
    BY <2>1, <2>2
  <2>4. s[d + j].msg = s[d + i].msg /\ s[d + j].at = s[d + i].at + ((d + j) - (d + i))
    BY <2>1, <2>2, <2>3 DEF Flow, Runs
  <2> QED
    BY <2>1, <2>2, <2>4
<1>5. Written(r, c, nx)
    BY <1>1 DEF Flow, Written
<1>6. Reached(r, c, ls, t, nx)
  <2> SUFFICES ASSUME NEW i \in 1 .. Len(r), r[i].msg \notin t
               PROVE  /\ r[i].msg = c => r[i].at + (Len(r) - i) + 1 = nx
                      /\ r[i].msg < c => r[i].at + (Len(r) - i) >= LastAt(ls, r[i].msg)
    BY DEF Reached
  <2>1. Len(s) - (d + i) = Len(r) - i
    BY <1>1
  <2> QED
    BY <1>1, <2>1 DEF Flow, Reached
<1>7. Gapless(r, ls, t)
  <2> SUFFICES ASSUME t = {}, NEW i \in 1 .. Len(r), i + 1 \in 1 .. Len(r),
                      r[i].at = LastAt(ls, r[i].msg)
               PROVE  r[i + 1].msg = r[i].msg + 1 /\ r[i + 1].at = Sig
    BY DEF Gapless
  <2>1. (d + i) + 1 = d + (i + 1) /\ d + i \in 1 .. Len(s) /\ (d + i) + 1 \in 1 .. Len(s)
    BY <1>1
  <2>2. r[i] = s[d + i] /\ r[i + 1] = s[(d + i) + 1]
    BY <1>1, <2>1
  <2> QED
    BY <2>1, <2>2 DEF Flow, Gapless
<1>8. UpToDate(r, c, ls, t, nx)
    BY <1>1 DEF Flow, UpToDate
<1> QED
    BY <1>2, <1>3, <1>4, <1>5, <1>6, <1>7, <1>8 DEF Flow

(***************************************************************************)
(* The writer adds n bytes of message c: all up to the next one to be      *)
(* written, unless the message is torn by it.                              *)
(***************************************************************************)
LEMMA FlowGrows ==
    ASSUME NEW s \in Seq(Byte), NEW r \in Seq(Byte), NEW n \in Nat,
           NEW c \in Nat, NEW ls, NEW t, NEW u, NEW nx \in Nat, NEW ny \in Nat,
           c > 0, \A m \in 1 .. c : LastAt(ls, m) \in Nat,
           Flow(s, c, ls, t, nx),
           Len(r) = Len(s) + n, \A k \in 1 .. Len(s) : r[k] = s[k],
           \A k \in 1 .. n : r[Len(s) + k].msg = c /\ r[Len(s) + k].at = nx + k - 1,
           nx >= 1, nx <= LastAt(ls, c), nx + n <= ny, ny <= LastAt(ls, c) + 1,
           t \subseteq u, u \subseteq t \cup {c}, c \notin u => ny = nx + n,
           c \notin u => n > 0
    PROVE  Flow(r, c, ls, u, ny)
<1>1. Len(s) \in Nat /\ Len(r) \in Nat /\ LastAt(ls, c) \in Nat
    BY ByteFacts
<1>2. \A k \in 1 .. Len(s) : k \in 1 .. Len(r) /\ r[k] = s[k] /\ s[k].msg \in Nat /\ s[k].at \in Nat
    BY <1>1, ByteFacts
<1>3. \A k \in 1 .. Len(r) : k \notin 1 .. Len(s) =>
          r[k].msg = c /\ r[k].at = nx + (k - Len(s)) - 1 /\ k > Len(s) /\ k - Len(s) <= n
  <2> SUFFICES ASSUME NEW k \in 1 .. Len(r), k \notin 1 .. Len(s)
               PROVE  r[k].msg = c /\ r[k].at = nx + (k - Len(s)) - 1 /\ k > Len(s) /\ k - Len(s) <= n
    OBVIOUS
  <2>1. k - Len(s) \in 1 .. n /\ Len(s) + (k - Len(s)) = k
    BY <1>1
  <2>2. r[Len(s) + (k - Len(s))].msg = c /\ r[Len(s) + (k - Len(s))].at = nx + (k - Len(s)) - 1
    BY <2>1
  <2> QED
    BY <2>1, <2>2, <1>1
<1>4. Ranged(r, c, ls)
  <2> SUFFICES ASSUME NEW k \in 1 .. Len(r)
               PROVE  r[k].msg \in 1 .. c /\ r[k].at \in 1 .. LastAt(ls, r[k].msg)
    BY DEF Ranged
  <2>1. CASE k \in 1 .. Len(s)
    BY <2>1, <1>2 DEF Flow, Ranged
  <2>2. CASE k \notin 1 .. Len(s)
    <3>1. nx + (k - Len(s)) - 1 \in 1 .. LastAt(ls, c)
        BY <1>1, <2>2, <1>3
    <3> QED
        BY <3>1, <2>2, <1>3
  <2> QED
    BY <2>1, <2>2
<1>5. Rising(r)
  <2> SUFFICES ASSUME NEW i \in 1 .. Len(r), NEW j \in 1 .. Len(r), i < j
               PROVE  Before(r[i], r[j])
    BY DEF Rising
  <2>1. CASE j \in 1 .. Len(s)
    <3>1. i \in 1 .. Len(s)
        BY <2>1, <1>1
    <3> QED
        BY <2>1, <3>1, <1>2 DEF Flow, Rising
  <2>2. CASE j \notin 1 .. Len(s) /\ i \in 1 .. Len(s)
    <3>1. s[i].msg < c \/ (s[i].msg = c /\ s[i].at < nx)
        BY <2>2 DEF Flow, Written
    <3>2. r[j].msg = c /\ r[j].at >= nx
        BY <2>2, <1>1, <1>3
    <3> QED
        BY <2>2, <3>1, <3>2, <1>1, <1>2, <1>3 DEF Before
  <2>3. CASE j \notin 1 .. Len(s) /\ i \notin 1 .. Len(s)
    BY <2>3, <1>1, <1>3 DEF Before
  <2> QED
    BY <2>1, <2>2, <2>3
<1>6. Runs(r, ls, u)
  <2> SUFFICES ASSUME NEW i \in 1 .. Len(r), NEW j \in 1 .. Len(r),
                      i <= j, r[i].msg \notin u, r[i].at + (j - i) <= LastAt(ls, r[i].msg)
               PROVE  r[j].msg = r[i].msg /\ r[j].at = r[i].at + (j - i)
    BY DEF Runs
  <2>1. CASE j \in 1 .. Len(s)
    <3>1. i \in 1 .. Len(s)
        BY <2>1, <1>1
    <3>2. r[i] = s[i] /\ r[j] = s[j] /\ s[i].msg \notin t
        BY <2>1, <3>1, <1>2
    <3>3. s[i].at + (j - i) <= LastAt(ls, s[i].msg)
        BY <3>2
    <3>4. Runs(s, ls, t) /\ i <= j
        BY DEF Flow
    <3>5. s[j].msg = s[i].msg /\ s[j].at = s[i].at + (j - i)
        BY ONLY <2>1, <3>1, <3>2, <3>3, <3>4 DEF Runs
    <3> QED
        BY <3>2, <3>5
  <2>2. CASE j \notin 1 .. Len(s) /\ i \in 1 .. Len(s)
    <3>1. /\ r[i] = s[i] /\ s[i].msg \notin t /\ s[i].msg \in 1 .. c
          /\ s[i].msg \in Nat /\ s[i].at \in Nat
        BY <2>2, <1>2 DEF Flow, Ranged
    <3>2. j > Len(s)
        BY <2>2, <1>3
    <3>3. CASE s[i].msg < c
      <4>1. s[i].at + (Len(s) - i) >= LastAt(ls, s[i].msg) /\ LastAt(ls, s[i].msg) \in Nat
        BY <3>1, <3>3, <2>2 DEF Flow, Reached
      <4>2. ~(s[i].at + (j - i) <= LastAt(ls, s[i].msg))
        <5>1. PICK a \in Nat : a = s[i].at
            BY <3>1
        <5>2. PICK l \in Nat : l = Len(s)
            BY <1>1
        <5>3. PICK z \in Nat : z = LastAt(ls, s[i].msg)
            BY <4>1
        <5>4. a \in Int /\ l \in Int /\ z \in Int /\ i \in Int /\ j \in Int
            BY <1>1
        <5>5. a + (l - i) >= z /\ j > l
            BY <4>1, <3>2, <5>1, <5>2, <5>3
        <5>6. ~(a + (j - i) <= z)
            BY ONLY <5>4, <5>5
        <5> QED
            BY <5>1, <5>3, <5>6
      <4> QED
        BY <4>2, <3>1
    <3>4. CASE s[i].msg = c
      <4>1. s[i].at + (Len(s) - i) + 1 = nx
        BY <3>1, <3>4, <2>2 DEF Flow, Reached
      <4>2. r[j].msg = c /\ r[j].at = nx + (j - Len(s)) - 1
        BY <2>2, <1>3
      <4>3. PICK a \in Nat : a = s[i].at
        BY <3>1
      <4>4. PICK l \in Nat : l = Len(s)
        BY <1>1
      <4>5. a + (l - i) + 1 = nx
        BY <4>1, <4>3, <4>4
      <4>6. nx + (j - l) - 1 = a + (j - i)
        BY <4>5, <1>1
      <4> QED
        BY <4>2, <4>3, <4>4, <4>6, <3>1, <3>4
    <3>5. s[i].msg < c \/ s[i].msg = c
        BY <2>2 DEF Flow, Written
    <3> QED
        BY <3>3, <3>4, <3>5
  <2>3. CASE j \notin 1 .. Len(s) /\ i \notin 1 .. Len(s)
    <3>1. /\ r[i].msg = c /\ r[i].at = nx + (i - Len(s)) - 1
          /\ r[j].msg = c /\ r[j].at = nx + (j - Len(s)) - 1
      BY ONLY <2>3, <1>3, i \in 1 .. Len(r), j \in 1 .. Len(r), Zenon
    <3>2. \A l \in Nat : nx + (j - l) - 1 = (nx + (i - l) - 1) + (j - i)
      BY <1>1
    <3> QED
      BY ONLY <1>1, <3>1, <3>2, Zenon
  <2> QED
    BY <2>1, <2>2, <2>3
<1>7. Written(r, c, ny)
  <2> SUFFICES ASSUME NEW k \in 1 .. Len(r)
               PROVE  r[k].msg < c \/ (r[k].msg = c /\ r[k].at < ny)
    BY DEF Written
  <2>1. CASE k \in 1 .. Len(s)
    <3>1. s[k].msg < c \/ (s[k].msg = c /\ s[k].at < nx)
        BY <2>1 DEF Flow, Written
    <3> QED
        BY <2>1, <3>1, <1>2
  <2>2. CASE k \notin 1 .. Len(s)
    BY <2>2, <1>1, <1>3
  <2> QED
    BY <2>1, <2>2
<1>8. Reached(r, c, ls, u, ny)
  <2> SUFFICES ASSUME NEW i \in 1 .. Len(r), r[i].msg \notin u
               PROVE  /\ r[i].msg = c => r[i].at + (Len(r) - i) + 1 = ny
                      /\ r[i].msg < c => r[i].at + (Len(r) - i) >= LastAt(ls, r[i].msg)
    BY DEF Reached
  <2>1. CASE i \in 1 .. Len(s)
    <3>1. /\ r[i] = s[i] /\ s[i].msg \notin t /\ s[i].msg \in 1 .. c
          /\ s[i].msg \in Nat /\ s[i].at \in Nat
        BY <2>1, <1>2 DEF Flow, Ranged
    <3>2. /\ s[i].msg = c => s[i].at + (Len(s) - i) + 1 = nx
          /\ s[i].msg < c => s[i].at + (Len(s) - i) >= LastAt(ls, s[i].msg)
        BY <3>1, <2>1 DEF Flow, Reached
    <3>3. LastAt(ls, s[i].msg) \in Nat
        BY <3>1
    <3>4. CASE s[i].msg = c
      <4>1. PICK a \in Nat : a = s[i].at
        BY <3>1
      <4>2. PICK l \in Nat : l = Len(s)
        BY <1>1
      <4>3. a + (l - i) + 1 = nx
        BY <4>1, <4>2, <3>2, <3>4
      <4>4. a \in Int /\ l \in Int /\ i \in Int /\ n \in Int /\ nx \in Int
        BY <1>1
      <4>5. a + ((l + n) - i) + 1 = nx + n
        BY ONLY <4>3, <4>4
      <4> QED
        BY <4>1, <4>2, <4>5, <3>1, <3>4
    <3>5. CASE s[i].msg < c
      <4>1. PICK a \in Nat, l \in Nat, z \in Nat :
                a = s[i].at /\ l = Len(s) /\ z = LastAt(ls, s[i].msg)
        BY <1>1, <3>1, <3>3
      <4>2. a + (l - i) >= z
        BY <4>1, <3>2, <3>5
      <4>3. a \in Int /\ l \in Int /\ i \in Int /\ n \in Nat /\ z \in Int
        BY <1>1
      <4>4. a + ((l + n) - i) >= z
        BY ONLY <4>2, <4>3
      <4> QED
        BY <4>1, <4>4, <3>1, <3>5
    <3> QED
        BY <3>1, <3>4, <3>5
  <2>2. CASE i \notin 1 .. Len(s)
    <3>1. r[i].msg = c /\ r[i].at = nx + (i - Len(s)) - 1
        BY <2>2, <1>3
    <3>2. ASSUME NEW a \in Int, a = nx + (i - Len(s)) - 1
          PROVE  a + ((Len(s) + n) - i) + 1 = nx + n
        BY <3>2, <1>1, Distances
    <3>3. nx + (i - Len(s)) - 1 \in Int
        BY <1>1
    <3> QED
        BY <3>1, <3>2, <3>3
  <2> QED
    BY <2>1, <2>2
<1>9. Gapless(r, ls, u)
  <2> SUFFICES ASSUME u = {}, NEW i \in 1 .. Len(r), i + 1 \in 1 .. Len(r),
                      r[i].at = LastAt(ls, r[i].msg)
               PROVE  r[i + 1].msg = r[i].msg + 1 /\ r[i + 1].at = Sig
    BY DEF Gapless
  <2>0. t = {} /\ c \notin u
    OBVIOUS
  <2>1. CASE i + 1 \in 1 .. Len(s)
    <3>1. i \in 1 .. Len(s)
        BY <2>1, <1>1
    <3> QED
        BY <2>0, <2>1, <3>1, <1>2 DEF Flow, Gapless
  <2>2. CASE i + 1 \notin 1 .. Len(s) /\ i \in 1 .. Len(s)
    <3>1. i = Len(s) /\ Len(s) > 0
        BY <2>2, <1>1
    <3>2. /\ nx > 1 => s[i].msg = c /\ s[i].at = nx - 1
          /\ nx = 1 => s[i].msg = c - 1 /\ s[i].at = LastAt(ls, c - 1)
        BY <3>1, <2>0 DEF Flow, UpToDate
    <3>3. r[i + 1].msg = c /\ r[i + 1].at = nx
        BY <3>1, <2>2, <1>1, <1>3
    <3> QED
        BY <3>1, <3>2, <3>3, <2>2, <1>1, <1>2 DEF Sig
  <2>3. CASE i + 1 \notin 1 .. Len(s) /\ i \notin 1 .. Len(s)
    BY <2>3, <1>1, <1>3
  <2> QED
    BY <2>1, <2>2, <2>3
<1>10. UpToDate(r, c, ls, u, ny)
  <2> SUFFICES ASSUME u = {}, Len(r) > 0
               PROVE  ny > 1 /\ r[Len(r)].msg = c /\ r[Len(r)].at = ny - 1
    BY DEF UpToDate
  <2>1. n > 0 /\ ny = nx + n
    OBVIOUS
  <2>2. Len(r) \in 1 .. Len(r) /\ Len(r) \notin 1 .. Len(s)
    BY <2>1, <1>1
  <2>3. r[Len(r)].msg = c /\ r[Len(r)].at = nx + (Len(r) - Len(s)) - 1
    BY <2>2, <1>3
  <2> QED
    BY <2>1, <2>2, <2>3, <1>1
<1> QED
    BY <1>4, <1>5, <1>6, <1>7, <1>8, <1>9, <1>10 DEF Flow

\* The writer has written message c, and begins the next one.
LEMMA FlowBegins ==
    ASSUME NEW s \in Seq(Byte), NEW c \in Nat, NEW ls, NEW t, NEW nx, NEW ms,
           \A m \in 1 .. c : LastAt(ls, m) \in Nat \ {0} /\ LastAt(ms, m) = LastAt(ls, m),
           nx = LastAt(ls, c) + 1, Flow(s, c, ls, t, nx)
    PROVE  Flow(s, c + 1, ms, t, 1)
<1>1. Len(s) \in Nat
    BY ByteFacts
<1>2. \A i \in 1 .. Len(s) :
          /\ s[i].msg \in 1 .. c /\ s[i].at \in 1 .. LastAt(ls, s[i].msg)
          /\ s[i].msg \in Nat /\ s[i].at \in Nat
          /\ LastAt(ls, s[i].msg) \in Nat /\ LastAt(ms, s[i].msg) = LastAt(ls, s[i].msg)
    BY ByteFacts DEF Flow, Ranged
<1>3. Ranged(s, c + 1, ms)
    BY <1>2 DEF Ranged
<1>4. Rising(s)
    BY DEF Flow
<1>5. Runs(s, ms, t)
    BY <1>2 DEF Flow, Runs
<1>6. Written(s, c + 1, 1)
    BY <1>2 DEF Written
<1>7. Reached(s, c + 1, ms, t, 1)
  <2> SUFFICES ASSUME NEW i \in 1 .. Len(s), s[i].msg \notin t
               PROVE  /\ s[i].msg # c + 1
                      /\ s[i].at + (Len(s) - i) >= LastAt(ms, s[i].msg)
    BY DEF Reached
  <2>1. s[i].msg # c + 1
    BY <1>2
  <2>2. CASE s[i].msg < c
    <3>1. s[i].at + (Len(s) - i) >= LastAt(ls, s[i].msg)
        BY <2>2 DEF Flow, Reached
    <3> QED
        BY <2>1, <3>1, <1>2
  <2>3. CASE s[i].msg = c
    <3>1. s[i].at + (Len(s) - i) + 1 = LastAt(ls, c) + 1
        BY <2>3 DEF Flow, Reached
    <3>2. PICK a \in Nat : a = s[i].at
        BY <1>2
    <3>3. PICK l \in Nat : l = Len(s)
        BY <1>1
    <3>4. PICK z \in Nat : z = LastAt(ls, c) /\ z = LastAt(ms, c)
        BY <1>2, <2>3
    <3>5. a + (l - i) + 1 = z + 1
        BY <3>1, <3>2, <3>3, <3>4
    <3>6. a + (l - i) >= z
        BY <3>5
    <3> QED
        BY <2>1, <2>3, <3>2, <3>3, <3>4, <3>6
  <2> QED
    BY <1>2, <2>2, <2>3
<1>8. Gapless(s, ms, t)
    BY <1>2 DEF Flow, Gapless
<1>9. UpToDate(s, c + 1, ms, t, 1)
  <2> SUFFICES ASSUME t = {}, Len(s) > 0
               PROVE  s[Len(s)].msg = (c + 1) - 1 /\ s[Len(s)].at = LastAt(ms, (c + 1) - 1)
    BY DEF UpToDate
  <2>1. c > 0 /\ c \in 1 .. c /\ (c + 1) - 1 = c
    BY <1>1, <1>2
  <2>2. PICK z \in Nat \ {0} : z = LastAt(ls, c) /\ z = LastAt(ms, c)
    BY <2>1
  <2>3. s[Len(s)].msg = c /\ s[Len(s)].at = nx - 1
    BY <2>2 DEF Flow, UpToDate
  <2> QED
    BY <2>1, <2>2, <2>3
<1> QED
    BY <1>3, <1>4, <1>5, <1>6, <1>7, <1>8, <1>9 DEF Flow

(***************************************************************************)
(* The reader accepts a header. Of a whole message, the second byte is its *)
(* size; that of a torn one may be any later byte.                         *)
(***************************************************************************)
LEMMA FlowTurns ==
    ASSUME NEW s \in Seq(Byte), NEW r \in Seq(Byte),
           NEW c \in Nat, NEW ls, NEW t, NEW nx \in Nat,
           \A m \in 1 .. c : LastAt(ls, m) \in Nat /\ LastAt(ls, m) >= 2,
           Flow(s, c, ls, t, nx),
           Len(s) >= 2, s[1].at = 1, Len(s) = 1 + Len(r),
           r[1].msg = s[1].msg, r[1].at = 2, \A k \in 2 .. Len(r) : r[k] = s[1 + k]
    PROVE  /\ Flow(r, c, ls, t, nx)
           /\ s[1].msg \notin t => s[2].msg = s[1].msg /\ s[2].at = 2
<1>1. /\ Len(s) \in Nat /\ Len(r) \in Nat /\ Len(r) >= 1
      /\ \A k \in 1 .. Len(s) : s[k].msg \in Nat /\ s[k].at \in Nat
      /\ \A k \in 1 .. Len(r) : r[k].msg \in Nat /\ r[k].at \in Nat
  <2>1. /\ Len(s) \in Nat /\ \A k \in 1 .. Len(s) : s[k].msg \in Nat /\ s[k].at \in Nat
    BY ByteFacts
  <2>2. /\ Len(r) \in Nat /\ \A k \in 1 .. Len(r) : r[k].msg \in Nat /\ r[k].at \in Nat
    BY ByteFacts
  <2>3. Len(r) >= 1
    BY <2>1, <2>2
  <2> QED
    BY ONLY <2>1, <2>2, <2>3
<1>2. 1 \in 1 .. Len(s) /\ 2 \in 1 .. Len(s) /\ 1 \in 1 .. Len(r)
    BY <1>1
<1>3. s[1].msg \in 1 .. c /\ LastAt(ls, s[1].msg) \in Nat /\ LastAt(ls, s[1].msg) >= 2
    BY <1>2 DEF Flow, Ranged
<1>4. s[1].msg \notin t => s[2].msg = s[1].msg /\ s[2].at = 2
  <2>1. s[1].at + (2 - 1) = 2
    BY <1>1
  <2> QED
    BY <1>2, <1>3, <2>1 DEF Flow, Runs
<1>5. CASE s[1].msg \notin t
  <2>1. r[1] = s[2]
    <3>1. r[1] \in Byte /\ s[2] \in Byte
        BY <1>2, ElementOfSeq
    <3> QED
        BY <3>1, <1>4, <1>5, ByteEqual
  <2>2. \A k \in 1 .. Len(r) : r[k] = s[1 + k]
    <3> SUFFICES ASSUME NEW k \in 1 .. Len(r) PROVE r[k] = s[1 + k]
        OBVIOUS
    <3>1. k = 1 \/ k \in 2 .. Len(r)
        BY <1>1
    <3> QED
        BY <3>1, <2>1
  <2> QED
    BY <1>4, <2>2, FlowDrops
<1>6. CASE s[1].msg \in t
  <2>1. \A k \in 2 .. Len(r) :
            /\ 1 + k \in 1 .. Len(s) /\ r[k] = s[1 + k] /\ k \in 1 .. Len(r)
            /\ Before(r[1], r[k])
    <3> SUFFICES ASSUME NEW k \in 2 .. Len(r)
                 PROVE  /\ 1 + k \in 1 .. Len(s) /\ r[k] = s[1 + k] /\ k \in 1 .. Len(r)
                        /\ Before(r[1], r[k])
        OBVIOUS
    <3>1. 1 + k \in 1 .. Len(s) /\ r[k] = s[1 + k] /\ k \in 1 .. Len(r) /\ 2 < 1 + k
        BY <1>1
    <3>2. Before(s[1], s[2]) /\ Before(s[2], s[1 + k])
        BY <1>2, <3>1 DEF Flow, Rising
    <3>3. /\ s[1].msg \in Nat /\ s[2].msg \in Nat /\ s[2].at \in Nat
          /\ s[1 + k].msg \in Nat /\ s[1 + k].at \in Nat
        BY <1>1, <1>2, <3>1
    <3>4. /\ s[1].msg < s[2].msg \/ (s[1].msg = s[2].msg /\ 1 < s[2].at)
          /\ s[2].msg < s[1 + k].msg \/ (s[2].msg = s[1 + k].msg /\ s[2].at < s[1 + k].at)
        BY <3>2 DEF Before
    <3>5. s[1].msg < s[1 + k].msg \/ (s[1].msg = s[1 + k].msg /\ 2 < s[1 + k].at)
        BY ONLY <3>3, <3>4
    <3> QED
        BY <3>1, <3>5 DEF Before
  <2>2. \A k \in 1 .. Len(r) : k = 1 \/ k \in 2 .. Len(r)
    BY <1>1
  <2>3. Ranged(r, c, ls)
    <3>1. \A k \in 2 .. Len(r) : r[k].msg \in 1 .. c /\ r[k].at \in 1 .. LastAt(ls, r[k].msg)
        BY <2>1 DEF Flow, Ranged
    <3>2. r[1].msg \in 1 .. c /\ r[1].at \in 1 .. LastAt(ls, r[1].msg)
        BY <1>3
    <3> QED
        BY <2>2, <3>1, <3>2 DEF Ranged
  <2>4. Rising(r)
    <3> SUFFICES ASSUME NEW i \in 1 .. Len(r), NEW j \in 1 .. Len(r), i < j
                 PROVE  Before(r[i], r[j])
        BY DEF Rising
    <3>1. j \in 2 .. Len(r)
        BY <1>1
    <3>2. CASE i = 1
        BY <2>1, <3>1, <3>2
    <3>3. CASE i \in 2 .. Len(r)
      <4>1. /\ 1 + i \in 1 .. Len(s) /\ 1 + j \in 1 .. Len(s) /\ 1 + i < 1 + j
            /\ r[i] = s[1 + i] /\ r[j] = s[1 + j]
        BY <2>1, <3>1, <3>3
      <4> QED
        BY <4>1 DEF Flow, Rising
    <3> QED
        BY <2>2, <3>2, <3>3
  <2>5. Runs(r, ls, t)
    <3> SUFFICES ASSUME NEW i \in 1 .. Len(r), NEW j \in 1 .. Len(r),
                        i <= j, r[i].msg \notin t, r[i].at + (j - i) <= LastAt(ls, r[i].msg)
                 PROVE  r[j].msg = r[i].msg /\ r[j].at = r[i].at + (j - i)
        BY DEF Runs
    <3>1. i \in 2 .. Len(r)
        BY <1>6, <2>2
    <3>2. j \in 2 .. Len(r)
        BY <3>1, <1>1
    <3>3. (1 + j) - (1 + i) = j - i /\ 1 + i <= 1 + j
        BY <1>1
    <3>4. r[i] = s[1 + i] /\ r[j] = s[1 + j] /\ 1 + i \in 1 .. Len(s) /\ 1 + j \in 1 .. Len(s)
        BY <2>1, <3>1, <3>2
    <3>5. s[1 + i].at + ((1 + j) - (1 + i)) <= LastAt(ls, s[1 + i].msg)
        BY <3>3, <3>4
    <3>6. s[1 + j].msg = s[1 + i].msg /\ s[1 + j].at = s[1 + i].at + ((1 + j) - (1 + i))
        BY <3>3, <3>4, <3>5 DEF Flow, Runs
    <3> QED
        BY <3>3, <3>4, <3>6
  <2>6. Written(r, c, nx)
    <3>1. \A k \in 2 .. Len(r) : r[k].msg < c \/ (r[k].msg = c /\ r[k].at < nx)
        BY <2>1 DEF Flow, Written
    <3>2. Before(s[1], s[2]) /\ (s[2].msg < c \/ (s[2].msg = c /\ s[2].at < nx))
        BY <1>2 DEF Flow, Written, Rising
    <3>3. r[1].msg < c \/ (r[1].msg = c /\ r[1].at < nx)
        BY <3>2, <1>1, <1>2, <1>3 DEF Before
    <3> QED
        BY <2>2, <3>1, <3>3 DEF Written
  <2>7. Reached(r, c, ls, t, nx)
    <3> SUFFICES ASSUME NEW i \in 1 .. Len(r), r[i].msg \notin t
                 PROVE  /\ r[i].msg = c => r[i].at + (Len(r) - i) + 1 = nx
                        /\ r[i].msg < c => r[i].at + (Len(r) - i) >= LastAt(ls, r[i].msg)
        BY DEF Reached
    <3>1. i \in 2 .. Len(r)
        BY <1>6, <2>2
    <3>2. Len(s) - (1 + i) = Len(r) - i
        BY <1>1
    <3> QED
        BY <2>1, <3>1, <3>2 DEF Flow, Reached
  <2>8. Gapless(r, ls, t) /\ UpToDate(r, c, ls, t, nx)
    BY <1>6 DEF Gapless, UpToDate
  <2> QED
    BY <1>4, <2>3, <2>4, <2>5, <2>6, <2>7, <2>8 DEF Flow
<1> QED
    BY <1>5, <1>6

-----------------------------------------------------------------------------
(***************************************************************************)
(* Sequences of bytes.                                                     *)
(***************************************************************************)
Piece(m, a, l) == [ k \in 1 .. l |-> [ msg |-> m, at |-> a + k - 1 ] ]

LEMMA PieceFacts ==
    ASSUME NEW m \in Nat, NEW a \in Nat, NEW l \in Nat
    PROVE  Piece(m, a, l) \in Seq(Byte) /\ Len(Piece(m, a, l)) = l
<1>1. \A k \in 1 .. l : [ msg |-> m, at |-> a + k - 1 ] \in Byte
    BY DEF Byte
<1>2. Piece(m, a, l) \in [ 1 .. l -> Byte ]
    BY <1>1 DEF Piece
<1>3. Piece(m, a, l) \in Seq(Byte)
    BY <1>2, SeqDef
<1> QED
    BY <1>2, <1>3, LenProperties

\* A payload is known by its bytes.
LEMMA PieceEqual ==
    ASSUME NEW m \in Nat, NEW a \in Nat, NEW s \in Seq(Byte),
           \A k \in 1 .. Len(s) : s[k].msg = m /\ s[k].at = a + k - 1
    PROVE  s = Piece(m, a, Len(s))
<1>1. Len(s) \in Nat
    BY LenProperties
<1>2. Piece(m, a, Len(s)) \in Seq(Byte) /\ Len(Piece(m, a, Len(s))) = Len(s)
    BY <1>1, PieceFacts
<1>3. ASSUME NEW k \in 1 .. Len(s) PROVE s[k] = Piece(m, a, Len(s))[k]
  <2>1. s[k] \in Byte /\ s[k].msg = m /\ s[k].at = a + k - 1
    BY ElementOfSeq
  <2>2. Piece(m, a, Len(s))[k] = [ msg |-> m, at |-> a + k - 1 ]
    BY DEF Piece
  <2>3. s[k] = [ msg |-> s[k].msg, at |-> s[k].at ]
    BY <2>1 DEF Byte
  <2> QED
    BY <2>1, <2>2, <2>3
<1> QED
    BY <1>2, <1>3, SeqEqual

Lead(p) == IF p = "payload" THEN 1 ELSE 0

MadeOf(s, p, f, g, b) ==
    /\ s \in Seq(Byte) /\ Len(s) = Lead(p) + Len(g) + Len(b)
    /\ p = "payload" => s[1] = [ msg |-> f, at |-> Size ]
    /\ \A k \in 1 .. Len(g) : s[Lead(p) + k] = g[k]
    /\ \A k \in 1 .. Len(b) : s[Lead(p) + Len(g) + k] = b[k]

LEMMA JoinedFacts ==
    ASSUME NEW p, NEW f \in Nat, NEW g \in Seq(Byte), NEW b \in Seq(Byte)
    PROVE  MadeOf(Joined(p, f, g, b), p, f, g, b)
<1> DEFINE q == g \o b
           h == IF p = "payload" THEN << [ msg |-> f, at |-> Size ] >> ELSE << >>
           J == h \o q
<1>1. /\ q \in Seq(Byte) /\ Len(q) = Len(g) + Len(b)
      /\ \A k \in 1 .. Len(g) + Len(b) : q[k] = IF k <= Len(g) THEN g[k] ELSE b[k - Len(g)]
    BY ConcatProperties
<1>2. h \in Seq(Byte) /\ Len(h) = Lead(p) /\ (p = "payload" => h[1] = [ msg |-> f, at |-> Size ])
  <2>1. CASE p = "payload"
    <3>1. [ msg |-> f, at |-> Size ] \in Byte
        BY DEF Byte, Size
    <3>2. h = << [ msg |-> f, at |-> Size ] >>
        BY <2>1
    <3> QED
        BY <2>1, <3>1, <3>2 DEF Lead
  <2>2. CASE p # "payload"
    <3>1. h = << >>
        BY <2>2
    <3> QED
        BY <2>2, <3>1, EmptySeq DEF Lead
  <2> QED
    BY <2>1, <2>2
<1>3. /\ J \in Seq(Byte) /\ Len(J) = Len(h) + Len(q)
      /\ \A k \in 1 .. Len(h) + Len(q) : J[k] = IF k <= Len(h) THEN h[k] ELSE q[k - Len(h)]
    BY <1>1, <1>2, ConcatProperties
<1>4. Joined(p, f, g, b) = J
    BY DEF Joined
<1>5. Len(g) \in Nat /\ Len(b) \in Nat /\ Lead(p) \in Nat
    BY LenProperties DEF Lead
<1> HIDE DEF q, h, J
<1>6. Len(J) = Lead(p) + Len(g) + Len(b)
    BY <1>1, <1>2, <1>3, <1>5
<1>7. p = "payload" => J[1] = [ msg |-> f, at |-> Size ]
  <2> SUFFICES ASSUME p = "payload" PROVE J[1] = [ msg |-> f, at |-> Size ]
    OBVIOUS
  <2>1. Lead(p) = 1
    BY DEF Lead
  <2>2. 1 \in 1 .. Len(h) + Len(q) /\ 1 <= Len(h)
    BY <2>1, <1>1, <1>2, <1>5
  <2> QED
    BY <2>2, <1>2, <1>3
<1>8. ASSUME NEW k \in 1 .. Len(g) PROVE J[Lead(p) + k] = g[k]
  <2>1. /\ Lead(p) + k \in 1 .. Len(h) + Len(q) /\ ~(Lead(p) + k <= Len(h))
        /\ (Lead(p) + k) - Len(h) = k /\ k \in 1 .. Len(g) + Len(b) /\ k <= Len(g)
    BY <1>1, <1>2, <1>5
  <2>2. J[Lead(p) + k] = q[(Lead(p) + k) - Len(h)]
    BY <2>1, <1>3
  <2> QED
    BY <2>1, <2>2, <1>1
<1>9. ASSUME NEW k \in 1 .. Len(b) PROVE J[Lead(p) + Len(g) + k] = b[k]
  <2> DEFINE i == Lead(p) + Len(g) + k
  <2>1. /\ i \in 1 .. Len(h) + Len(q) /\ ~(i <= Len(h))
        /\ i - Len(h) = Len(g) + k /\ Len(g) + k \in 1 .. Len(g) + Len(b)
        /\ ~(Len(g) + k <= Len(g)) /\ (Len(g) + k) - Len(g) = k
    BY <1>1, <1>2, <1>5
  <2>2. J[i] = q[i - Len(h)]
    BY <2>1, <1>3
  <2>3. q[Len(g) + k] = b[(Len(g) + k) - Len(g)]
    BY <2>1, <1>1
  <2> QED
    BY <2>1, <2>2, <2>3
<1> QED
    BY <1>3, <1>4, <1>6, <1>7, <1>8, <1>9 DEF MadeOf

\* ::recv moves bytes from the socket to the reader: together they stay what they are.
LEMMA MovedFacts ==
    ASSUME NEW g \in Seq(Byte), NEW b \in Seq(Byte), NEW n \in 1 .. Len(b)
    PROVE  LET all  == g \o SubSeq(b, 1, n)
               rest == SubSeq(b, n + 1, Len(b))
           IN  /\ all \in Seq(Byte) /\ Len(all) = Len(g) + n
               /\ rest \in Seq(Byte) /\ Len(rest) = Len(b) - n
               /\ all \o rest = g \o b
<1> DEFINE all == g \o SubSeq(b, 1, n)
           rest == SubSeq(b, n + 1, Len(b))
           x == SubSeq(b, 1, n)
<1>1. Len(g) \in Nat /\ Len(b) \in Nat
    BY LenProperties
<1>2. \A i \in 1 .. Len(b) : b[i] \in Byte
    BY ElementOfSeq
<1>3. x \in Seq(Byte) /\ Len(x) = n /\ \A i \in 1 .. n : x[i] = b[i]
  <2>1. \A i \in 1 .. n : b[i] \in Byte
    BY <1>1, <1>2
  <2>2. /\ x \in Seq(Byte) /\ Len(x) = (IF 1 <= n THEN n - 1 + 1 ELSE 0)
        /\ \A i \in 1 .. n - 1 + 1 : x[i] = b[1 + i - 1]
    BY <2>1, <1>1, SubSeqProperties
  <2>3. n \in Nat /\ n >= 1 /\ n - 1 + 1 = n /\ \A i \in 1 .. n : 1 + i - 1 = i
    BY <1>1
  <2> QED
    BY <2>2, <2>3
<1>4. /\ rest \in Seq(Byte) /\ Len(rest) = Len(b) - n
      /\ \A i \in 1 .. Len(b) - n : rest[i] = b[n + i]
  <2>1. \A i \in n + 1 .. Len(b) : b[i] \in Byte
    BY <1>1, <1>2
  <2>2. /\ rest \in Seq(Byte) /\ Len(rest) = (IF n + 1 <= Len(b) THEN Len(b) - (n + 1) + 1 ELSE 0)
        /\ \A i \in 1 .. Len(b) - (n + 1) + 1 : rest[i] = b[(n + 1) + i - 1]
    BY <2>1, <1>1, SubSeqProperties
  <2>3. /\ Len(b) - (n + 1) + 1 = Len(b) - n /\ (~(n + 1 <= Len(b)) => Len(b) - n = 0)
        /\ \A i \in 1 .. Len(b) - n : (n + 1) + i - 1 = n + i
    BY <1>1
  <2> QED
    BY <2>2, <2>3
<1> HIDE DEF x, rest
<1>5. all = g \o x
    BY DEF x
<1>6. x \o rest = b
  <2>1. /\ x \o rest \in Seq(Byte) /\ Len(x \o rest) = Len(x) + Len(rest)
        /\ \A i \in 1 .. Len(x) + Len(rest) : (x \o rest)[i] =
                IF i <= Len(x) THEN x[i] ELSE rest[i - Len(x)]
    BY <1>3, <1>4, ConcatProperties
  <2>2. Len(x \o rest) = Len(b)
    BY <2>1, <1>1, <1>3, <1>4
  <2>3. ASSUME NEW i \in 1 .. Len(b) PROVE (x \o rest)[i] = b[i]
    <3>1. (x \o rest)[i] = IF i <= n THEN x[i] ELSE rest[i - n]
        BY <2>1, <2>2, <1>3
    <3>2. CASE i <= n
        BY <3>1, <3>2, <1>1, <1>3
    <3>3. CASE ~(i <= n)
      <4>1. i - n \in 1 .. Len(b) - n /\ n + (i - n) = i
        BY <3>3, <1>1
      <4> QED
        BY <4>1, <3>1, <3>3, <1>4
    <3> QED
        BY <3>2, <3>3
  <2> QED
    BY <2>1, <2>2, <2>3, SeqEqual
<1>7. /\ all \in Seq(Byte) /\ Len(all) = Len(g) + n
    BY <1>3, <1>5, ConcatProperties
<1>8. all \o rest = g \o b
  <2>1. g \in Seq(Byte) /\ x \in Seq(Byte) /\ rest \in Seq(Byte)
    BY <1>3, <1>4
  <2>2. (g \o x) \o rest = g \o (x \o rest)
    BY <2>1, ConcatAssociative, SMTT(60)
  <2>3. all \o rest = (g \o x) \o rest
    BY ONLY <1>5, Zenon
  <2> QED
    BY ONLY <2>2, <2>3, <1>6, Zenon
<1> QED
    BY <1>4, <1>7, <1>8 DEF rest

\* ::send puts the first n bytes of a fragment behind those in the socket.
LEMMA PutFacts ==
    ASSUME NEW b \in Seq(Byte), NEW y \in Seq(Byte), NEW n \in 0 .. Len(y)
    PROVE  LET r == b \o SubSeq(y, 1, n)
           IN  /\ r \in Seq(Byte) /\ Len(r) = Len(b) + n
               /\ \A k \in 1 .. Len(b) : r[k] = b[k]
               /\ \A k \in 1 .. n : r[Len(b) + k] = y[k]
<1> DEFINE x == SubSeq(y, 1, n)
<1>1. Len(y) \in Nat /\ Len(b) \in Nat
    BY LenProperties
<1>2. x \in Seq(Byte) /\ Len(x) = n /\ \A i \in 1 .. n : x[i] = y[i]
  <2>1. \A i \in 1 .. n : y[i] \in Byte
    BY <1>1, ElementOfSeq
  <2>2. /\ x \in Seq(Byte) /\ Len(x) = (IF 1 <= n THEN n - 1 + 1 ELSE 0)
        /\ \A i \in 1 .. n - 1 + 1 : x[i] = y[1 + i - 1]
    BY <2>1, <1>1, SubSeqProperties
  <2>3. n \in Nat /\ (~(1 <= n) => n = 0) /\ n - 1 + 1 = n /\ \A i \in 1 .. n : 1 + i - 1 = i
    BY <1>1
  <2> QED
    BY <2>2, <2>3
<1> HIDE DEF x
<1>3. /\ b \o x \in Seq(Byte) /\ Len(b \o x) = Len(b) + Len(x)
      /\ \A i \in 1 .. Len(b) + Len(x) : (b \o x)[i] = IF i <= Len(b) THEN b[i] ELSE x[i - Len(b)]
    BY <1>2, ConcatProperties
<1>4. ASSUME NEW k \in 1 .. Len(b) PROVE (b \o x)[k] = b[k]
  <2>1. k \in 1 .. Len(b) + Len(x) /\ k <= Len(b)
    BY <1>1, <1>2
  <2> QED
    BY <2>1, <1>3
<1>5. ASSUME NEW k \in 1 .. n PROVE (b \o x)[Len(b) + k] = y[k]
  <2>1. /\ Len(b) + k \in 1 .. Len(b) + Len(x) /\ ~(Len(b) + k <= Len(b))
        /\ (Len(b) + k) - Len(b) = k
    BY <1>1, <1>2
  <2> QED
    BY <2>1, <1>2, <1>3
<1> QED
    BY <1>2, <1>3, <1>4, <1>5 DEF x

-----------------------------------------------------------------------------
(***************************************************************************)
(* The messages begun, and the fragments yet to be written.                *)
(***************************************************************************)
LEMMA LensFacts ==
    ASSUME FramingTypes
    PROVE  /\ count \in Nat /\ MaxMsgs \in Nat
           /\ \A m \in 1 .. count :
                /\ m \in Msgs /\ lens[m][1] \in Nat \ {0} /\ lens[m][2] \in Nat \ {0}
                /\ PayloadSize(m) \in Nat /\ PayloadSize(m) >= 2
                /\ LastAt(lens, m) = HeaderSize + PayloadSize(m)
                /\ LastAt(lens, m) \in Nat /\ LastAt(lens, m) >= 4
<1>1. count \in Nat /\ MaxMsgs \in Nat /\ count <= MaxMsgs
    BY FramingAssumption DEF FramingTypes
<1>2. ASSUME NEW m \in 1 .. count
      PROVE  /\ m \in Msgs /\ lens[m][1] \in Nat \ {0} /\ lens[m][2] \in Nat \ {0}
             /\ PayloadSize(m) \in Nat /\ PayloadSize(m) >= 2
             /\ LastAt(lens, m) = HeaderSize + PayloadSize(m)
             /\ LastAt(lens, m) \in Nat /\ LastAt(lens, m) >= 4
  <2>1. m \in Msgs
    BY <1>1 DEF Msgs
  <2>2. lens[m] \in Nat \X Nat /\ lens[m][1] > 0 /\ lens[m][2] > 0
    BY <2>1 DEF FramingTypes
  <2>3. lens[m][1] \in Nat \ {0} /\ lens[m][2] \in Nat \ {0}
    BY <2>2
  <2>4. PICK a \in Nat \ {0}, b \in Nat \ {0} : a = lens[m][1] /\ b = lens[m][2]
    BY <2>3
  <2> QED
    BY <2>1, <2>3, <2>4 DEF PayloadSize, LastAt, HeaderSize
<1> QED
    BY <1>1, <1>2

LEMMA FragmentFacts ==
    ASSUME NEW c \in Nat, NEW ls, ls[c][1] \in Nat, ls[c][2] \in Nat
    PROVE  /\ Fragment(c, ls, 1) = Piece(c, 1, 2)
           /\ Fragment(c, ls, 2) = Piece(c, 3, ls[c][1])
           /\ Fragment(c, ls, 3) = Piece(c, 3 + ls[c][1], ls[c][2])
<1>1. PICK a \in Nat, b \in Nat : a = ls[c][1] /\ b = ls[c][2]
    OBVIOUS
<1>2. /\ Fragment(c, ls, 1) = Bytes(c, 1, 2) /\ Fragment(c, ls, 2) = Bytes(c, 3, 2 + a)
      /\ Fragment(c, ls, 3) = Bytes(c, 3 + a, 2 + a + b)
  <2>1. 2 + 1 = 3 /\ (2 + a) + 1 = 3 + a /\ 1 # 2 /\ 1 # 3 /\ 2 # 3
    OBVIOUS
  <2> QED
    BY <1>1, <2>1 DEF Fragment, HeaderSize
<1>3. Bytes(c, 1, 2) = Piece(c, 1, 2)
    BY DEF Bytes, Piece
<1>4. Bytes(c, 3, 2 + a) = Piece(c, 3, a)
    BY DEF Bytes, Piece
<1>5. Bytes(c, 3 + a, 2 + a + b) = Piece(c, 3 + a, b)
    BY DEF Bytes, Piece
<1> QED
    BY <1>1, <1>2, <1>3, <1>4, <1>5

\* After the last fragment, or when send() gave up, the message is at its end.
LEMMA IdleFacts ==
    ASSUME NEW c, NEW ls
    PROVE  LastFragments(<< >>, c, ls) /\ PlaceOf(<< >>, c, ls) = LastAt(ls, c) + 1
BY DEF LastFragments, PlaceOf

\* The next fragment begins with the next byte.
LEMMA OutFacts ==
    ASSUME NEW o, NEW c \in Nat, NEW ls, ls[c][1] \in Nat \ {0}, ls[c][2] \in Nat \ {0},
           LastFragments(o, c, ls), o # << >>
    PROVE  /\ c > 0 /\ o[1] \in Seq(Byte) /\ Len(o[1]) \in Nat \ {0}
           /\ PlaceOf(o, c, ls) \in Nat \ {0}
           /\ PlaceOf(o, c, ls) + Len(o[1]) <= LastAt(ls, c) + 1
           /\ o[1] = Piece(c, PlaceOf(o, c, ls), Len(o[1]))
           /\ LastFragments(Tail(o), c, ls)
           /\ PlaceOf(Tail(o), c, ls) = PlaceOf(o, c, ls) + Len(o[1])
<1>1. c > 0
    BY DEF LastFragments
<1>2. PICK a \in Nat \ {0}, b \in Nat \ {0} : a = ls[c][1] /\ b = ls[c][2]
    OBVIOUS
<1>3. LastAt(ls, c) = 2 + a + b
    BY <1>2 DEF LastAt, HeaderSize
<1>4. /\ Fragment(c, ls, 1) = Piece(c, 1, 2) /\ Fragment(c, ls, 2) = Piece(c, 3, a)
      /\ Fragment(c, ls, 3) = Piece(c, 3 + a, b)
    BY <1>2, FragmentFacts
<1>5. ASSUME NEW x \in Nat \ {0}, NEW l \in Nat \ {0}, o[1] = Piece(c, x, l),
             PlaceOf(o, c, ls) = x, PlaceOf(Tail(o), c, ls) = x + l, x + l <= 2 + a + b + 1,
             LastFragments(Tail(o), c, ls)
      PROVE  /\ c > 0 /\ o[1] \in Seq(Byte) /\ Len(o[1]) \in Nat \ {0}
             /\ PlaceOf(o, c, ls) \in Nat \ {0}
             /\ PlaceOf(o, c, ls) + Len(o[1]) <= LastAt(ls, c) + 1
             /\ o[1] = Piece(c, PlaceOf(o, c, ls), Len(o[1]))
             /\ LastFragments(Tail(o), c, ls)
             /\ PlaceOf(Tail(o), c, ls) = PlaceOf(o, c, ls) + Len(o[1])
  <2>1. o[1] \in Seq(Byte) /\ Len(o[1]) = l
    BY <1>5, PieceFacts
  <2> QED
    BY <1>1, <1>2, <1>3, <1>5, <2>1
<1>6. CASE o = << Fragment(c, ls, 1), Fragment(c, ls, 2), Fragment(c, ls, 3) >>
  <2>1. /\ o[1] = Fragment(c, ls, 1) /\ Len(o) = 3
        /\ Tail(o) = << Fragment(c, ls, 2), Fragment(c, ls, 3) >> /\ Len(Tail(o)) = 2
    BY <1>6
  <2>2. PlaceOf(o, c, ls) = 1 /\ PlaceOf(Tail(o), c, ls) = 1 + 2
    BY <2>1 DEF PlaceOf, HeaderSize
  <2>3. LastFragments(Tail(o), c, ls)
    BY <1>1, <2>1 DEF LastFragments
  <2>4. 1 + 2 <= 2 + a + b + 1 /\ 1 \in Nat \ {0} /\ 2 \in Nat \ {0} /\ o[1] = Piece(c, 1, 2)
    BY <1>2, <1>4, <2>1
  <2> QED
    BY <1>5, <2>2, <2>3, <2>4
<1>7. CASE o = << Fragment(c, ls, 2), Fragment(c, ls, 3) >>
  <2>1. /\ o[1] = Fragment(c, ls, 2) /\ Len(o) = 2
        /\ Tail(o) = << Fragment(c, ls, 3) >> /\ Len(Tail(o)) = 1
    BY <1>7
  <2>2. PlaceOf(o, c, ls) = 3 /\ PlaceOf(Tail(o), c, ls) = 2 + a + 1
    BY <1>2, <2>1 DEF PlaceOf, HeaderSize
  <2>3. LastFragments(Tail(o), c, ls)
    BY <1>1, <2>1 DEF LastFragments
  <2>4. /\ 3 + a <= 2 + a + b + 1 /\ 2 + a + 1 = 3 + a /\ 3 \in Nat \ {0}
        /\ o[1] = Piece(c, 3, a)
    BY <1>2, <1>4, <2>1
  <2> QED
    BY <1>5, <2>2, <2>3, <2>4
<1>8. CASE o = << Fragment(c, ls, 3) >>
  <2>1. o[1] = Fragment(c, ls, 3) /\ Len(o) = 1 /\ Tail(o) = << >> /\ Len(Tail(o)) = 0
    BY <1>8
  <2>2. PICK x \in Nat \ {0} : x = 3 + a
    OBVIOUS
  <2>3. PlaceOf(o, c, ls) = 2 + a + 1
    BY <1>2, <2>1 DEF PlaceOf, HeaderSize
  <2>4. PlaceOf(Tail(o), c, ls) = LastAt(ls, c) + 1
    <3>1. Tail(o) = << >>
        BY <2>1
    <3> QED
        BY ONLY <3>1, IdleFacts
  <2>5. LastFragments(Tail(o), c, ls)
    BY <2>1 DEF LastFragments
  <2>6. /\ x + b <= 2 + a + b + 1 /\ PlaceOf(o, c, ls) = x /\ PlaceOf(Tail(o), c, ls) = x + b
        /\ o[1] = Piece(c, x, b)
    <3>1. x + b <= 2 + a + b + 1 /\ 2 + a + 1 = x /\ (2 + a + b) + 1 = x + b
        BY <2>2
    <3>2. o[1] = Piece(c, x, b)
        BY <1>4, <2>1, <2>2
    <3> QED
        BY <1>3, <2>3, <2>4, <3>1, <3>2
  <2> QED
    BY <1>5, <2>5, <2>6
<1> QED
    BY <1>6, <1>7, <1>8 DEF LastFragments

-----------------------------------------------------------------------------
(***************************************************************************)
(* The writer's steps. Whatever part of a fragment is written, and whether *)
(* send() goes on or gives up after it, the invariant is kept.             *)
(***************************************************************************)
LEMMA WritingKeeps ==
    ASSUME FramingInv, out # << >>, NEW n \in 0 .. Len(out[1]),
           buf' = buf \o SubSeq(out[1], 1, n), Len(buf) + n <= Capacity,
           UNCHANGED << count, lens, part, got, want, from, delivered >>,
           torn \subseteq torn', torn' \subseteq torn \cup {count},
           out' = Tail(out) \/ (out' = << >> /\ count \in torn'),
           count \notin torn' => n = Len(out[1])
    PROVE  FramingInv'
<1> USE DEF FramingInv
<1>1. /\ count \in Nat /\ count \in 1 .. count /\ count > 0
      /\ lens[count][1] \in Nat \ {0} /\ lens[count][2] \in Nat \ {0}
      /\ \A m \in 1 .. count : LastAt(lens, m) \in Nat
      /\ LastAt(lens, count) \in Nat
  <2>1. count > 0
    BY DEF Outgoing, LastFragments
  <2>2. count \in Nat /\ count \in 1 .. count
    BY <2>1, LensFacts
  <2> QED
    BY <2>1, <2>2, LensFacts
<1>2. /\ out[1] \in Seq(Byte) /\ Len(out[1]) \in Nat \ {0} /\ NextAt \in Nat \ {0}
      /\ NextAt + Len(out[1]) <= LastAt(lens, count) + 1
      /\ out[1] = Piece(count, NextAt, Len(out[1]))
      /\ LastFragments(Tail(out), count, lens)
      /\ PlaceOf(Tail(out), count, lens) = NextAt + Len(out[1])
    BY <1>1, OutFacts DEF Outgoing, NextAt
<1>3. Outgoing' /\ NextAt' \in Nat /\ NextAt + n <= NextAt' /\ NextAt' <= LastAt(lens, count) + 1
      /\ (count \notin torn' => NextAt' = NextAt + n /\ n > 0) /\ n \in Nat
  <2>0. n \in Nat /\ n <= Len(out[1])
    BY <1>2
  <2>1. CASE out' = Tail(out)
    <3>1. NextAt' = NextAt + Len(out[1]) /\ Outgoing'
        BY <1>2, <2>1 DEF NextAt, Outgoing
    <3>2. PICK l \in Nat \ {0}, x \in Nat, z \in Nat :
              l = Len(out[1]) /\ x = NextAt /\ z = LastAt(lens, count)
        BY <1>1, <1>2
    <3>3. n \in Nat /\ n <= l /\ x + l <= z + 1
        BY <1>2, <2>0, <3>2
    <3>4. x + l \in Nat /\ x + n <= x + l /\ x + l <= z + 1 /\ (n = l => x + l = x + n /\ n > 0)
      <4> HIDE DEF FramingInv
      <4> QED
        BY <3>3
    <3> QED
        BY <2>0, <3>1, <3>2, <3>4
  <2>2. CASE out' = << >> /\ count \in torn'
    <3>1. NextAt' = LastAt(lens, count) + 1 /\ Outgoing'
      <4>1. NextAt' = PlaceOf(<< >>, count, lens) /\ Outgoing' = LastFragments(<< >>, count, lens)
        BY <2>2 DEF NextAt, Outgoing
      <4> QED
        BY <4>1, IdleFacts
    <3> QED
        BY <1>1, <1>2, <2>0, <2>2, <3>1
  <2> QED
    BY <2>1, <2>2
<1>t. buf \in Seq(Byte) /\ got \in Seq(Byte) /\ from \in Nat /\ Len(buf) \in Nat /\ Len(got) \in Nat
  <2>1. buf \in Seq(Byte) /\ got \in Seq(Byte) /\ from \in Nat
    BY <1>1 DEF FramingTypes
  <2> QED
    BY <2>1, LenProperties
<1>4. /\ buf' \in Seq(Byte) /\ Len(buf') = Len(buf) + n
      /\ \A k \in 1 .. Len(buf) : buf'[k] = buf[k]
      /\ \A k \in 1 .. n : buf'[Len(buf) + k] = out[1][k]
    BY <1>2, <1>t, PutFacts
<1>5. FramingTypes' /\ TypeOK'
    BY <1>1, <1>4 DEF FramingTypes, TypeOK
<1>6. /\ Stream \in Seq(Byte) /\ Stream' \in Seq(Byte) /\ Len(Stream) \in Nat
      /\ Len(Stream') = Len(Stream) + n /\ \A k \in 1 .. Len(Stream) : Stream'[k] = Stream[k]
      /\ \A k \in 1 .. n : Stream'[Len(Stream) + k] = out[1][k]
  <2> DEFINE d == Lead(part)
  <2>1. /\ Stream \in Seq(Byte) /\ Len(Stream) = d + Len(got) + Len(buf)
        /\ part = "payload" => Stream[1] = [ msg |-> from, at |-> Size ]
        /\ \A k \in 1 .. Len(got) : Stream[d + k] = got[k]
        /\ \A k \in 1 .. Len(buf) : Stream[d + Len(got) + k] = buf[k]
    <3>1. MadeOf(Stream, part, from, got, buf)
        BY <1>t, JoinedFacts DEF Stream
    <3> QED
        BY <3>1 DEF MadeOf
  <2>2. /\ Stream' \in Seq(Byte) /\ Len(Stream') = d + Len(got) + Len(buf')
        /\ part = "payload" => Stream'[1] = [ msg |-> from, at |-> Size ]
        /\ \A k \in 1 .. Len(got) : Stream'[d + k] = got[k]
        /\ \A k \in 1 .. Len(buf') : Stream'[d + Len(got) + k] = buf'[k]
    <3>1. Stream' = Joined(part, from, got, buf')
        BY DEF Stream
    <3>2. MadeOf(Stream', part, from, got, buf')
        BY <1>t, <1>4, <3>1, JoinedFacts
    <3> QED
        BY <3>2 DEF MadeOf
  <2>3. d \in {0, 1} /\ (d = 1 <=> part = "payload")
    BY DEF Lead
  <2> HIDE DEF d
  <2>4. Len(Stream) \in Nat /\ Len(Stream') = Len(Stream) + n
    BY <1>t, <1>3, <1>4, <2>1, <2>2, <2>3
  <2>5. ASSUME NEW k \in 1 .. Len(Stream) PROVE Stream'[k] = Stream[k]
    <3>1. CASE k <= d
      <4>1. k = 1 /\ part = "payload"
        BY <3>1, <2>3, <2>4
      <4> QED
        BY <4>1, <2>1, <2>2
    <3>2. CASE k > d /\ k <= d + Len(got)
      <4>1. k - d \in 1 .. Len(got) /\ d + (k - d) = k
        BY <3>2, <1>t, <2>3, <2>4
      <4>2. Stream'[d + (k - d)] = Stream[d + (k - d)]
        BY <4>1, <2>1, <2>2
      <4> QED
        BY <4>1, <4>2
    <3>3. CASE k > d + Len(got)
      <4> DEFINE i == k - (d + Len(got))
      <4>1. i \in 1 .. Len(buf) /\ i \in 1 .. Len(buf') /\ d + Len(got) + i = k
        BY <3>3, <1>t, <1>3, <1>4, <2>1, <2>3, <2>4
      <4> HIDE DEF i
      <4>2. Stream'[d + Len(got) + i] = buf'[i] /\ Stream[d + Len(got) + i] = buf[i]
        BY <4>1, <2>1, <2>2
      <4> QED
        BY <4>1, <4>2, <1>4
    <3> QED
        BY <3>1, <3>2, <3>3, <1>t, <2>3, <2>4
  <2>6. ASSUME NEW k \in 1 .. n PROVE Stream'[Len(Stream) + k] = out[1][k]
    <3>1. Len(buf) + k \in 1 .. Len(buf') /\ d + Len(got) + (Len(buf) + k) = Len(Stream) + k
        BY <1>t, <1>3, <1>4, <2>1, <2>3
    <3>2. Stream'[d + Len(got) + (Len(buf) + k)] = buf'[Len(buf) + k]
        BY <3>1, <2>2
    <3> QED
        BY <3>1, <3>2, <1>4
  <2> QED
    BY <2>1, <2>2, <2>4, <2>5, <2>6
<1>7. ASSUME NEW k \in 1 .. n
      PROVE  Stream'[Len(Stream) + k].msg = count /\ Stream'[Len(Stream) + k].at = NextAt + k - 1
  <2>1. k \in 1 .. Len(out[1])
    BY <1>2, <1>3
  <2>2. out[1][k] = [ msg |-> count, at |-> NextAt + k - 1 ]
    BY <1>2, <2>1 DEF Piece
  <2>3. Stream'[Len(Stream) + k] = out[1][k]
    BY <1>6
  <2> QED
    BY <2>2, <2>3
<1>8. (part # "closed" => Flow(Stream, count, lens, torn, NextAt))'
  <2> SUFFICES ASSUME part # "closed"
               PROVE  Flow(Stream', count, lens, torn', NextAt')
    OBVIOUS
  <2>1. Flow(Stream, count, lens, torn, NextAt) /\ NextAt \in Nat /\ NextAt >= 1
        /\ NextAt <= LastAt(lens, count)
    BY <1>1, <1>2
  <2> QED
    BY <1>1, <1>3, <1>6, <1>7, <2>1, FlowGrows
<1>9. Ahead'
  <2>1. ASSUME part # "closed", NEW i \in 1 .. Len(Stream')
        PROVE  Before([ msg |-> from, at |-> Sig ], Stream'[i])
    <3>1. CASE i \in 1 .. Len(Stream)
        BY <2>1, <3>1, <1>6 DEF Ahead
    <3>2. CASE i \notin 1 .. Len(Stream)
      <4>1. PICK k \in 1 .. n : i = Len(Stream) + k
        <5>1. i - Len(Stream) \in 1 .. n /\ i = Len(Stream) + (i - Len(Stream))
            BY <3>2, <1>3, <1>6
        <5> QED
            BY <5>1
      <4>2. Stream'[i].msg = count /\ Stream'[i].at = NextAt + k - 1
        BY <4>1, <1>7
      <4>3. from \in 0 .. count /\ (from > 0 /\ from = count => NextAt > 1)
        BY DEF Ahead, FramingTypes
      <4>4. NextAt > 1 => NextAt + k - 1 > 1
        BY <1>2, <1>3
      <4> QED
        BY <4>2, <4>3, <4>4, <1>1 DEF Before, Sig
    <3> QED
        BY <3>1, <3>2
  <2>2. from > 0 /\ from = count => NextAt' > 1
    BY <1>2, <1>3 DEF Ahead
  <2>3. part = "payload" => from > 0 /\ (from \notin torn' => want = PayloadSize(from))
    BY DEF Ahead
  <2> QED
    BY <2>1, <2>2, <2>3 DEF Ahead, PayloadSize
<1>10. Deliveries'
    BY DEF Deliveries, Payload, PayloadSize
<1>11. InStep'
  <2> SUFFICES ASSUME torn' = {} PROVE InStep'
    BY DEF InStep
  <2>1. torn = {} /\ count \notin torn' /\ n > 0
    BY <1>3
  <2>2. ASSUME part = "header"
        PROVE  /\ from = Len(delivered) /\ Len(Stream') # 0
               /\ Stream'[1].msg = from + 1 /\ Stream'[1].at = Sig
    <3>1. from = Len(delivered)
        BY <2>1, <2>2 DEF InStep
    <3>2. CASE Len(Stream) > 0
      <4>1. Stream[1].msg = from + 1 /\ Stream[1].at = Sig
        BY <2>1, <2>2, <3>2 DEF InStep
      <4>2. Stream'[1] = Stream[1] /\ Len(Stream') # 0
        BY <3>2, <1>3, <1>6
      <4> QED
        BY <3>1, <4>1, <4>2
    <3>3. CASE Len(Stream) = 0
      <4>1. NextAt = 1 /\ count = from + 1
        BY <2>1, <2>2, <3>3 DEF InStep
      <4>2. 1 \in 1 .. n /\ Len(Stream) + 1 = 1
        BY <2>1, <3>3, <1>3
      <4>3. Stream'[1].msg = count /\ Stream'[1].at = NextAt + 1 - 1
        BY <4>2, <1>7
      <4>4. Len(Stream') # 0
        BY <2>1, <3>3, <1>3, <1>6
      <4> QED
        BY <3>1, <4>1, <4>3, <4>4 DEF Sig
    <3> QED
        BY <3>2, <3>3, <1>6
  <2>3. /\ \A i \in DOMAIN delivered : delivered[i].from = i
        /\ part = "payload" => from = Len(delivered) + 1
    BY <2>1 DEF InStep
  <2> QED
    BY <2>2, <2>3 DEF InStep
<1> QED
    BY <1>3, <1>5, <1>8, <1>9, <1>10, <1>11

LEMMA WriteFragmentKeeps ==
    ASSUME FramingInv, WriteFragment
    PROVE  FramingInv'
<1> DEFINE free == IF part = "closed" THEN 0 ELSE Capacity - Len(buf)
           n    == IF free < Len(out[1]) THEN free ELSE Len(out[1])
<1>1. count \in Nat /\ count > 0 /\ count \in 1 .. count
    BY LensFacts DEF FramingInv, Outgoing, LastFragments, WriteFragment
<1>2. Len(out[1]) \in Nat \ {0}
    BY <1>1, LensFacts, OutFacts DEF FramingInv, Outgoing, WriteFragment
<1>3. Len(buf) \in Nat /\ Capacity \in Nat /\ Len(buf) <= Capacity
    BY FramingAssumption, LenProperties DEF FramingInv, FramingTypes, TypeOK
<1>4. /\ n \in 0 .. Len(out[1]) /\ Len(buf) + n <= Capacity
      /\ n < Len(out[1]) \/ n = Len(out[1])
      /\ free = 0 => n < Len(out[1])
    BY <1>2, <1>3
<1>5. /\ buf' = buf \o SubSeq(out[1], 1, n)
      /\ out' = IF free = 0 THEN << >> ELSE Tail(out)
      /\ torn' = IF n < Len(out[1]) THEN torn \cup {count} ELSE torn
      /\ out # << >> /\ UNCHANGED << count, lens, part, got, want, from, delivered >>
    BY DEF WriteFragment
<1> HIDE DEF free, n
<1>6. /\ torn \subseteq torn' /\ torn' \subseteq torn \cup {count}
      /\ out' = Tail(out) \/ (out' = << >> /\ count \in torn')
      /\ count \notin torn' => n = Len(out[1])
    BY <1>4, <1>5
<1> QED
    BY <1>4, <1>5, <1>6, WritingKeeps

LEMMA WriterClosesKeeps ==
    ASSUME FramingInv, WriterCloses
    PROVE  FramingInv'
<1>1. CASE out = << >>
    BY <1>1 DEF WriterCloses, FramingInv, FramingTypes, TypeOK, Outgoing, Ahead, Deliveries, InStep,
                Stream, NextAt, PayloadSize, Payload
<1>2. CASE out # << >>
  <2>1. count \in Nat /\ count > 0 /\ count \in 1 .. count
    BY <1>2, LensFacts DEF FramingInv, Outgoing, LastFragments
  <2>2. out[1] \in Seq(Byte) /\ Len(out[1]) \in Nat
    BY <1>2, <2>1, LensFacts, OutFacts DEF FramingInv, Outgoing
  <2>3. buf \in Seq(Byte) /\ Len(buf) \in Nat /\ Len(buf) + 0 <= Capacity
    BY LenProperties DEF FramingInv, FramingTypes, TypeOK
  <2>4. buf' = buf \o SubSeq(out[1], 1, 0)
    <3>1. SubSeq(out[1], 1, 0) = << >>
        BY SubSeqEmpty
    <3>2. buf \o << >> = buf
        BY <2>3, ConcatEmptySeq
    <3> QED
        BY <3>1, <3>2 DEF WriterCloses
  <2>5. /\ UNCHANGED << count, lens, part, got, want, from, delivered >>
        /\ out' = << >> /\ torn' = torn \cup {count}
    BY <1>2 DEF WriterCloses
  <2>6. 0 \in 0 .. Len(out[1])
    BY <2>2
  <2> QED
    BY <1>2, <2>3, <2>4, <2>5, <2>6, WritingKeeps
<1> QED
    BY <1>1, <1>2

LEMMA SendKeeps ==
    ASSUME FramingInv, NEW a \in FragLens, NEW b \in FragLens, Send(a, b)
    PROVE  FramingInv'
<1> USE DEF FramingInv
<1>1. /\ a \in Nat \ {0} /\ b \in Nat \ {0} /\ count \in Nat /\ MaxMsgs \in Nat
      /\ count' = count + 1 /\ count + 1 \in Msgs /\ count + 1 <= MaxMsgs
      /\ out = << >> /\ lens' = [ lens EXCEPT ![count + 1] = << a, b >> ]
      /\ UNCHANGED << torn, buf, part, got, want, from, delivered >>
      /\ from \in 0 .. count
    BY FramingAssumption, LensFacts DEF Send, Msgs, FramingTypes
<1>2. /\ lens' \in [ Msgs -> Nat \X Nat ] /\ lens'[count + 1] = << a, b >>
      /\ \A m \in 1 .. count : lens'[m] = lens[m] /\ m \in Msgs
  <2>1. lens \in [ Msgs -> Nat \X Nat ] /\ << a, b >> \in Nat \X Nat
    BY <1>1 DEF FramingTypes
  <2>2. \A m \in 1 .. count : m \in Msgs /\ m # count + 1
    BY <1>1, LensFacts
  <2> QED
    BY <1>1, <2>1, <2>2
<1>3. FramingTypes' /\ TypeOK'
  <2>1. ASSUME NEW m \in 1 .. count + 1 PROVE lens'[m][1] > 0 /\ lens'[m][2] > 0
    <3>1. CASE m = count + 1
        BY <3>1, <1>1, <1>2
    <3>2. CASE m \in 1 .. count
        BY <3>2, <1>2 DEF FramingTypes
    <3> QED
        BY <3>1, <3>2, <1>1
  <2>2. count' \in 0 .. MaxMsgs /\ torn' \subseteq 1 .. count' /\ from' \in 0 .. count'
    <3>1. torn \subseteq 1 .. count
        BY DEF FramingTypes
    <3>2. 1 .. count \subseteq 1 .. count + 1 /\ from \in 0 .. count + 1 /\ count + 1 \in 0 .. MaxMsgs
        BY <1>1
    <3> QED
        BY <1>1, <3>1, <3>2
  <2> QED
    BY <1>1, <1>2, <2>1, <2>2 DEF FramingTypes, TypeOK
<1>4. /\ out' = << Fragment(count', lens', 1), Fragment(count', lens', 2), Fragment(count', lens', 3) >>
      /\ Len(out') = 3 /\ out' # << >>
  <2>1. lens'[count'][1] = a /\ lens'[count'][2] = b
    BY <1>1, <1>2
  <2>2. 1 # 2 /\ 1 # 3 /\ 2 # 3
    OBVIOUS
  <2>3. out' = << Bytes(count + 1, 1, HeaderSize), Bytes(count + 1, HeaderSize + 1, HeaderSize + a),
                  Bytes(count + 1, HeaderSize + a + 1, HeaderSize + a + b) >>
    BY DEF Send
  <2> QED
    BY <1>1, <2>1, <2>2, <2>3 DEF Fragment
<1>5. Outgoing' /\ NextAt' = 1
    BY <1>1, <1>4 DEF Outgoing, LastFragments, NextAt, PlaceOf
<1>6. Stream' = Stream
    BY <1>1 DEF Stream
<1>7. ASSUME NEW m \in 1 .. count
      PROVE  /\ LastAt(lens, m) \in Nat \ {0} /\ LastAt(lens', m) = LastAt(lens, m)
             /\ PayloadSize(m)' = PayloadSize(m) /\ Payload(m)' = Payload(m)
  <2>1. lens'[m] = lens[m]
    BY <1>2
  <2> QED
    BY <2>1, LensFacts DEF LastAt, PayloadSize, Payload
<1>8. (part # "closed" => Flow(Stream, count, lens, torn, NextAt))'
  <2> SUFFICES ASSUME part # "closed"
               PROVE  Flow(Stream, count + 1, lens', torn, 1)
    BY <1>1, <1>5, <1>6
  <2>1. Stream \in Seq(Byte)
    <3>1. MadeOf(Stream, part, from, got, buf)
        BY <1>1, JoinedFacts DEF Stream, FramingTypes
    <3> QED
        BY <3>1 DEF MadeOf
  <2>2. NextAt = LastAt(lens, count) + 1
    BY <1>1, IdleFacts DEF NextAt
  <2> QED
    BY <1>1, <1>7, <2>1, <2>2, FlowBegins
<1>9. Ahead'
  <2>1. from # count'
    BY <1>1
  <2>2. part = "payload" => from > 0 /\ (from \notin torn => want = PayloadSize(from)')
    <3> SUFFICES ASSUME part = "payload"
                 PROVE  from > 0 /\ (from \notin torn => want = PayloadSize(from)')
        OBVIOUS
    <3>1. from \in 1 .. count
        BY <1>1 DEF Ahead
    <3> QED
        BY <3>1, <1>1, <1>7 DEF Ahead
  <2> QED
    BY <1>1, <1>6, <2>1, <2>2 DEF Ahead
<1>10. Deliveries'
  <2> SUFFICES ASSUME NEW i \in DOMAIN delivered
               PROVE  /\ delivered[i].from \in 1 .. from
                      /\ part = "payload" => delivered[i].from < from
                      /\ delivered[i].from \notin torn =>
                            delivered[i].payload = Payload(delivered[i].from)'
                      /\ \A j \in DOMAIN delivered : i < j => delivered[i].from < delivered[j].from
    BY <1>1 DEF Deliveries
  <2>1. delivered[i].from \in 1 .. count
    BY <1>1 DEF Deliveries
  <2>2. Payload(delivered[i].from)' = Payload(delivered[i].from)
    BY <1>1, <1>7, <2>1
  <2> QED
    BY <2>2 DEF Deliveries
<1>11. InStep'
    BY <1>1, <1>4, <1>5, <1>6 DEF InStep
<1> QED
    BY <1>3, <1>5, <1>8, <1>9, <1>10, <1>11

-----------------------------------------------------------------------------
(***************************************************************************)
(* The reader's steps.                                                     *)
(***************************************************************************)
\* The reader closes the stream: what it delivered stays.
LEMMA ClosingKeeps ==
    ASSUME FramingInv, part' = "closed", got' = << >>, buf' \in Seq(Byte), Len(buf') <= Capacity,
           UNCHANGED << count, lens, out, torn, want, from, delivered >>
    PROVE  FramingInv'
<1>1. FramingTypes' /\ TypeOK'
    BY EmptySeq DEF FramingInv, FramingTypes, TypeOK
<1>2. Outgoing' /\ Ahead'
    BY DEF FramingInv, Outgoing, Ahead, NextAt
<1>3. Deliveries' /\ InStep'
    BY DEF FramingInv, Deliveries, InStep, Payload, PayloadSize
<1> QED
    BY <1>1, <1>2, <1>3 DEF FramingInv

\* Bytes of a part that is not complete yet are kept.
LEMMA KeepingKeeps ==
    ASSUME FramingInv, NEW all \in Seq(Byte), NEW rest \in Seq(Byte),
           all \o rest = got \o buf, Len(rest) <= Len(buf),
           part = "header" => Len(all) < HeaderSize, part = "payload" => Len(all) < want,
           got' = all, buf' = rest,
           UNCHANGED << count, lens, out, torn, part, want, from, delivered >>
    PROVE  FramingInv'
<1>1. Stream' = Stream /\ NextAt' = NextAt
    BY DEF Stream, Joined, NextAt
<1>2. Len(buf') <= Capacity
  <2>1. Len(rest) \in Nat /\ Len(buf) \in Nat /\ Capacity \in Nat
    BY FramingAssumption, LenProperties DEF FramingInv, FramingTypes
  <2> QED
    BY <2>1 DEF FramingInv, TypeOK
<1>3. FramingTypes' /\ TypeOK'
    BY <1>2 DEF FramingInv, FramingTypes, TypeOK
<1>4. Outgoing' /\ Ahead' /\ (part # "closed" => Flow(Stream, count, lens, torn, NextAt))'
    BY <1>1 DEF FramingInv, Outgoing, Ahead, PayloadSize
<1>5. Deliveries' /\ InStep'
    BY <1>1 DEF FramingInv, Deliveries, InStep, Payload, PayloadSize
<1> QED
    BY <1>3, <1>4, <1>5 DEF FramingInv

\* A header is accepted: its payload is waited for.
LEMMA HeaderKeeps ==
    ASSUME FramingInv, part = "header", NEW all \in Seq(Byte), NEW rest \in Seq(Byte),
           all \o rest = got \o buf, Len(rest) <= Len(buf), Len(all) = HeaderSize,
           NEW size \in Announced(all), ValidHeader(all, size),
           part' = "payload", got' = << >>, buf' = rest, want' = size, from' = all[1].msg,
           UNCHANGED << count, lens, out, torn, delivered >>
    PROVE  FramingInv'
<1> USE DEF FramingInv
<1> DEFINE f == all[1].msg
<1>1. /\ count \in Nat /\ from \in 0 .. count /\ Capacity \in Nat /\ MaxPayload \in Nat
      /\ Len(rest) \in Nat /\ Len(buf) \in Nat /\ Len(rest) <= Capacity
      /\ \A m \in 1 .. count : LastAt(lens, m) \in Nat /\ LastAt(lens, m) >= 2
  <2>1. count \in Nat /\ \A m \in 1 .. count : LastAt(lens, m) \in Nat /\ LastAt(lens, m) >= 2
    BY LensFacts
  <2>2. Len(rest) \in Nat /\ Len(buf) \in Nat /\ Capacity \in Nat /\ MaxPayload \in Nat
    BY FramingAssumption, LenProperties DEF FramingTypes
  <2> QED
    BY <2>1, <2>2 DEF TypeOK, FramingTypes
<1>0. MadeOf(Stream, part, from, all, rest)
  <2>1. from \in Nat
    BY <1>1
  <2>2. Stream = Joined(part, from, all, rest)
    BY DEF Stream, Joined
  <2> QED
    BY <2>1, <2>2, JoinedFacts
<1>2. all[1] \in Byte /\ all[2] \in Byte /\ all[1].at = 1 /\ size \in 1 .. MaxPayload
  <2>1. 1 \in 1 .. Len(all) /\ 2 \in 1 .. Len(all)
    BY DEF HeaderSize
  <2>2. all[1] \in Byte /\ all[2] \in Byte
    BY <2>1, ElementOfSeq
  <2>3. size \in Nat
    <3>1. CASE all[2].at = Size
      <4>1. size = PayloadSize(all[2].msg)
        BY <3>1 DEF Announced
      <4>2. all[2].msg \in 1 .. count
        <5>1. MadeOf(Stream, part, from, all, rest)
            BY <1>0
        <5>2. Lead(part) = 0
            BY DEF Lead
        <5>3. /\ \A k \in 1 .. Len(all) : Stream[0 + k] = all[k]
              /\ Len(Stream) = 0 + 2 + Len(rest)
            BY <5>1, <5>2 DEF MadeOf, HeaderSize
        <5>4. Stream[0 + 2] = all[2] /\ 0 + 2 = 2 /\ 2 \in 1 .. Len(Stream)
            BY <1>1, <2>1, <5>3
        <5> QED
            BY <5>4 DEF Flow, Ranged
      <4> QED
        BY <4>1, <4>2, LensFacts
    <3>2. CASE all[2].at # Size
        BY <3>2, <1>1 DEF Announced
    <3> QED
        BY <3>1, <3>2
  <2> QED
    BY <1>1, <2>2, <2>3 DEF ValidHeader, Sig
<1>3. /\ Stream \in Seq(Byte) /\ Len(Stream) = 2 + Len(rest)
      /\ Stream[1] = all[1] /\ Stream[2] = all[2]
      /\ \A k \in 1 .. Len(rest) : Stream[2 + k] = rest[k]
  <2>1. MadeOf(Stream, part, from, all, rest)
    BY <1>0
  <2>2. Lead(part) = 0 /\ Len(all) = 2
    BY DEF Lead, HeaderSize
  <2>3. /\ Stream \in Seq(Byte) /\ Len(Stream) = 0 + 2 + Len(rest)
        /\ \A k \in 1 .. 2 : Stream[0 + k] = all[k]
        /\ \A k \in 1 .. Len(rest) : Stream[0 + 2 + k] = rest[k]
    BY <2>1, <2>2 DEF MadeOf
  <2>4. Stream[0 + 1] = all[1] /\ Stream[0 + 2] = all[2]
    BY <2>3
  <2>5. ASSUME NEW k \in 1 .. Len(rest) PROVE Stream[2 + k] = rest[k]
    <3>1. Stream[0 + 2 + k] = rest[k] /\ 0 + 2 + k = 2 + k
        BY <1>1, <2>3
    <3> QED
        BY <3>1
  <2> QED
    BY <1>1, <2>3, <2>4, <2>5
<1>4. /\ Stream' \in Seq(Byte) /\ Len(Stream') = 1 + Len(rest)
      /\ Stream'[1] = [ msg |-> f, at |-> 2 ]
      /\ \A k \in 1 .. Len(rest) : Stream'[1 + k] = rest[k]
  <2>1. << >> \in Seq(Byte) /\ Len(<< >>) = 0 /\ f \in Nat
    BY <1>2, EmptySeq DEF Byte
  <2>2. Stream' = Joined("payload", f, << >>, rest)
    BY DEF Stream
  <2>3. MadeOf(Stream', "payload", f, << >>, rest)
    BY <2>1, <2>2, JoinedFacts
  <2>4. Lead("payload") = 1
    BY DEF Lead
  <2>5. /\ Stream' \in Seq(Byte) /\ Len(Stream') = 1 + 0 + Len(rest)
        /\ Stream'[1] = [ msg |-> f, at |-> 2 ]
        /\ \A k \in 1 .. Len(rest) : Stream'[1 + 0 + k] = rest[k]
    BY <2>1, <2>3, <2>4 DEF MadeOf, Size
  <2>6. ASSUME NEW k \in 1 .. Len(rest) PROVE Stream'[1 + k] = rest[k]
    <3>1. Stream'[1 + 0 + k] = rest[k] /\ 1 + 0 + k = 1 + k
        BY <1>1, <2>5
    <3> QED
        BY <3>1
  <2> QED
    BY <1>1, <2>5, <2>6
<1>5. Flow(Stream, count, lens, torn, NextAt) /\ 1 \in 1 .. Len(Stream)
    BY <1>1, <1>3
<1>6. f \in 1 .. count /\ (f = count => NextAt > 1)
  <2>1. Stream[1].msg \in 1 .. count
    BY <1>5 DEF Flow, Ranged
  <2>2. Stream[1].msg < count \/ (Stream[1].msg = count /\ Stream[1].at < NextAt)
    BY <1>5 DEF Flow, Written
  <2> QED
    BY <1>1, <1>2, <1>3, <2>1, <2>2
<1>7. /\ Flow(Stream', count, lens, torn, NextAt)
      /\ f \notin torn => all[2].msg = f /\ all[2].at = 2
  <2>1. NextAt \in Nat
    <3>1. count \in 1 .. count
        BY <1>1, <1>6
    <3>2. CASE out = << >>
        BY <1>1, <3>1, <3>2, IdleFacts DEF NextAt
    <3>3. CASE out # << >>
        BY <1>1, <3>1, <3>3, LensFacts, OutFacts DEF NextAt, Outgoing
    <3> QED
        BY <3>2, <3>3
  <2>2. /\ Len(Stream) >= 2 /\ Stream[1].at = 1 /\ Len(Stream) = 1 + Len(Stream')
        /\ Stream'[1].msg = Stream[1].msg /\ Stream'[1].at = 2
    BY <1>1, <1>2, <1>3, <1>4
  <2>3. ASSUME NEW k \in 2 .. Len(Stream') PROVE Stream'[k] = Stream[1 + k]
    <3>1. k - 1 \in 1 .. Len(rest) /\ 1 + (k - 1) = k /\ 2 + (k - 1) = 1 + k
        BY <1>1, <1>4
    <3>2. Stream'[1 + (k - 1)] = rest[k - 1] /\ Stream[2 + (k - 1)] = rest[k - 1]
        BY <3>1, <1>3, <1>4
    <3> QED
        BY <3>1, <3>2
  <2>4. Stream \in Seq(Byte) /\ Stream' \in Seq(Byte) /\ count \in Nat
    BY <1>1, <1>3, <1>4
  <2>5. \A m \in 1 .. count : LastAt(lens, m) \in Nat /\ LastAt(lens, m) >= 2
    BY <1>1
  <2>6. /\ Flow(Stream', count, lens, torn, NextAt)
        /\ Stream[1].msg \notin torn => Stream[2].msg = Stream[1].msg /\ Stream[2].at = 2
    BY ONLY <1>5, <2>1, <2>2, <2>3, <2>4, <2>5, FlowTurns
  <2> QED
    BY <1>3, <2>2, <2>6
<1>8. from < f
  <2>1. Before([ msg |-> from, at |-> Sig ], Stream[1])
    BY <1>5 DEF Ahead
  <2> QED
    BY <1>1, <1>2, <1>3, <1>6, <2>1 DEF Before, Sig
<1>9. FramingTypes' /\ TypeOK'
  <2>1. << >> \in Seq(Byte) /\ Len(<< >>) = 0
    BY EmptySeq
  <2>2. size \in Nat /\ 0 < size /\ f \in 0 .. count /\ Len(rest) <= Capacity
    BY <1>1, <1>2, <1>6
  <2>3. FramingTypes'
    BY <2>1, <2>2 DEF FramingTypes
  <2>4. TypeOK'
    BY <1>2, <2>1, <2>2 DEF TypeOK
  <2> QED
    BY <2>3, <2>4
<1>10. Outgoing' /\ NextAt' = NextAt
    BY DEF Outgoing, NextAt
<1>11. Ahead'
  <2>1. ASSUME NEW i \in 1 .. Len(Stream')
        PROVE  Before([ msg |-> f, at |-> Sig ], Stream'[i])
    <3>1. CASE i = 1
        BY <3>1, <1>4 DEF Before, Sig
    <3>2. CASE i # 1
      <4>1. 1 \in 1 .. Len(Stream') /\ 1 < i
        BY <3>2, <1>1, <1>4
      <4>2. Before(Stream'[1], Stream'[i])
        BY <4>1, <1>7 DEF Flow, Rising
      <4>3. Stream'[i].msg \in Nat /\ Stream'[i].at \in Nat
        BY <1>4, ByteFacts
      <4> QED
        BY <1>4, <4>2, <4>3 DEF Before, Sig
    <3> QED
        BY <3>1, <3>2
  <2>2. f \notin torn => size = PayloadSize(f)
    <3> SUFFICES ASSUME f \notin torn PROVE size = PayloadSize(f)
        OBVIOUS
    <3>1. all[2].at = Size /\ all[2].msg = f
        BY <1>7 DEF Size
    <3> QED
        BY <3>1 DEF Announced
  <2>3. PayloadSize(f)' = PayloadSize(f) /\ f > 0
    BY <1>6 DEF PayloadSize
  <2> QED
    BY <1>6, <1>10, <2>1, <2>2, <2>3 DEF Ahead, PayloadSize
<1>12. Deliveries'
  <2> SUFFICES ASSUME NEW i \in DOMAIN delivered
               PROVE  /\ delivered[i].from \in 1 .. f /\ delivered[i].from < f
                      /\ delivered[i].from \notin torn =>
                            delivered[i].payload = Payload(delivered[i].from)
                      /\ \A j \in DOMAIN delivered : i < j => delivered[i].from < delivered[j].from
    BY DEF Deliveries, Payload, PayloadSize
  <2>1. delivered[i].from \in 1 .. from
    BY DEF Deliveries
  <2>2. delivered[i].from \in 1 .. f /\ delivered[i].from < f
    <3>1. PICK x \in 1 .. from : x = delivered[i].from
        BY <2>1
    <3>2. from \in Int /\ f \in Int /\ from < f
        BY <1>1, <1>6, <1>8
    <3>3. x \in 1 .. f /\ x < f
        BY ONLY <3>2, x \in 1 .. from
    <3> QED
        BY <3>1, <3>3
  <2> QED
    BY <2>2 DEF Deliveries
<1>13. InStep'
  <2> SUFFICES ASSUME torn = {} PROVE InStep'
    BY DEF InStep
  <2>1. from = Len(delivered) /\ Stream[1].msg = from + 1
    BY <1>1, <1>3 DEF InStep
  <2> QED
    BY <1>3, <2>1 DEF InStep
<1> QED
    BY <1>7, <1>9, <1>10, <1>11, <1>12, <1>13

\* A payload is complete: it is delivered under the signature that was read last.
LEMMA PayloadKeeps ==
    ASSUME FramingInv, part = "payload", NEW all \in Seq(Byte), NEW rest \in Seq(Byte),
           all \o rest = got \o buf, Len(rest) <= Len(buf), Len(all) = want,
           part' = "header", got' = << >>, buf' = rest,
           delivered' = Append(delivered, [ from |-> from, payload |-> all ]),
           UNCHANGED << count, lens, out, torn, want, from >>
    PROVE  FramingInv'
<1> USE DEF FramingInv
<1>1. /\ count \in Nat /\ from \in 1 .. count /\ from \in Nat /\ Capacity \in Nat
      /\ Len(rest) \in Nat /\ Len(rest) <= Capacity /\ want \in Nat \ {0} /\ want <= MaxPayload
      /\ MaxPayload \in Nat
  <2>1. count \in Nat /\ from \in 0 .. count /\ from > 0
    BY LensFacts DEF FramingTypes, Ahead
  <2>2. Len(rest) \in Nat /\ Len(buf) \in Nat /\ Capacity \in Nat /\ MaxPayload \in Nat
    BY FramingAssumption, LenProperties DEF FramingTypes
  <2>3. want \in 1 .. MaxPayload /\ Len(buf) <= Capacity
    BY DEF TypeOK
  <2> QED
    BY <2>1, <2>2, <2>3
<1>2. /\ PayloadSize(from) \in Nat /\ LastAt(lens, from) = 2 + PayloadSize(from)
      /\ LastAt(lens, from) \in Nat /\ from \in Msgs
    BY <1>1, LensFacts DEF HeaderSize
<1>3. /\ Stream \in Seq(Byte) /\ Len(Stream) = 1 + want + Len(rest)
      /\ Stream[1] = [ msg |-> from, at |-> 2 ]
      /\ \A k \in 1 .. want : Stream[1 + k] = all[k]
      /\ \A k \in 1 .. Len(rest) : Stream[1 + want + k] = rest[k]
  <2>1. Stream = Joined(part, from, all, rest)
    BY DEF Stream, Joined
  <2>2. MadeOf(Stream, part, from, all, rest)
    BY <1>1, <2>1, JoinedFacts
  <2>3. Lead(part) = 1
    BY DEF Lead
  <2> QED
    BY <2>2, <2>3 DEF MadeOf, Size
<1>4. /\ Stream' \in Seq(Byte) /\ Len(Stream') = Len(rest)
      /\ \A k \in 1 .. Len(rest) : Stream'[k] = rest[k]
  <2>1. << >> \in Seq(Byte) /\ Len(<< >>) = 0
    BY EmptySeq
  <2>2. Stream' = Joined("header", from, << >>, rest)
    BY DEF Stream
  <2>3. MadeOf(Stream', "header", from, << >>, rest)
    BY <1>1, <2>1, <2>2, JoinedFacts
  <2>4. Lead("header") = 0
    BY DEF Lead
  <2>5. /\ Stream' \in Seq(Byte) /\ Len(Stream') = 0 + 0 + Len(rest)
        /\ \A k \in 1 .. Len(rest) : Stream'[0 + 0 + k] = rest[k]
    BY <2>1, <2>3, <2>4 DEF MadeOf
  <2>6. ASSUME NEW k \in 1 .. Len(rest) PROVE Stream'[k] = rest[k]
    <3>0. 0 + 0 + k = k
        BY <1>1
    <3>1. Stream'[0 + 0 + k] = rest[k] /\ 0 + 0 + k = k
        BY <2>5, <3>0
    <3> QED
        BY <3>1
  <2> QED
    BY <1>1, <2>5, <2>6
<1>5. Flow(Stream, count, lens, torn, NextAt) /\ 1 \in 1 .. Len(Stream)
    BY <1>1, <1>3
<1>6. /\ 1 + want \in Nat /\ Len(Stream) = (1 + want) + Len(Stream')
      /\ \A k \in 1 .. Len(Stream') : Stream'[k] = Stream[(1 + want) + k]
    BY <1>1, <1>3, <1>4
<1>7. Flow(Stream', count, lens, torn, NextAt)
    BY <1>1, <1>3, <1>4, <1>5, <1>6, FlowDrops
<1>8. ASSUME from \notin torn, NEW k \in 1 .. want
      PROVE  /\ Stream[1 + k].msg = from /\ Stream[1 + k].at = 2 + k
             /\ want = PayloadSize(from)
  <2>1. want = PayloadSize(from)
    BY <1>8 DEF Ahead
  <2>2. 1 + k \in 1 .. Len(Stream) /\ 1 <= 1 + k /\ (1 + k) - 1 = k
    BY <1>1, <1>3
  <2>3. Stream[1].msg = from /\ Stream[1].at = 2
    BY <1>3
  <2>4. Stream[1].at + ((1 + k) - 1) <= LastAt(lens, Stream[1].msg)
    BY <1>1, <1>2, <2>1, <2>2, <2>3
  <2>5. /\ Stream[1 + k].msg = Stream[1].msg
        /\ Stream[1 + k].at = Stream[1].at + ((1 + k) - 1)
    BY <1>5, <1>8, <2>2, <2>3, <2>4 DEF Flow, Runs
  <2> QED
    BY <2>1, <2>2, <2>3, <2>5
<1>9. ASSUME from \notin torn PROVE all = Payload(from)
  <2>1. want = PayloadSize(from)
    BY <1>9 DEF Ahead
  <2>2. ASSUME NEW k \in 1 .. Len(all) PROVE all[k].msg = from /\ all[k].at = 3 + k - 1
    <3>1. k \in 1 .. want /\ 2 + k = 3 + k - 1
        BY <1>1
    <3>2. Stream[1 + k].msg = from /\ Stream[1 + k].at = 2 + k
        BY <1>8, <1>9, <3>1
    <3>3. Stream[1 + k] = all[k]
        BY <1>3, <3>1
    <3> QED
        BY <3>1, <3>2, <3>3
  <2>3. all = Piece(from, 3, Len(all))
    BY <1>1, <2>2, PieceEqual
  <2>4. Payload(from) = Bytes(from, 3, 2 + want)
    BY <2>1 DEF Payload, HeaderSize
  <2>5. Bytes(from, 3, 2 + want) = Piece(from, 3, want)
    BY <1>1 DEF Bytes, Piece
  <2> QED
    BY <2>3, <2>4, <2>5
<1>10. /\ delivered \in Seq([ from : Nat, payload : Seq(Byte) ]) /\ Len(delivered) \in Nat
       /\ DOMAIN delivered = 1 .. Len(delivered)
       /\ delivered' \in Seq([ from : Nat, payload : Seq(Byte) ])
       /\ Len(delivered') = Len(delivered) + 1 /\ DOMAIN delivered' = 1 .. Len(delivered) + 1
       /\ \A i \in 1 .. Len(delivered) : delivered'[i] = delivered[i]
       /\ delivered'[Len(delivered) + 1] = [ from |-> from, payload |-> all ]
  <2>1. delivered \in Seq([ from : Nat, payload : Seq(Byte) ])
    BY DEF FramingTypes
  <2>2. [ from |-> from, payload |-> all ] \in [ from : Nat, payload : Seq(Byte) ]
    BY <1>1
  <2>3. Len(delivered) \in Nat /\ DOMAIN delivered = 1 .. Len(delivered)
    BY <2>1, LenProperties
  <2>4. /\ delivered' \in Seq([ from : Nat, payload : Seq(Byte) ])
        /\ Len(delivered') = Len(delivered) + 1
        /\ \A i \in 1 .. Len(delivered) : delivered'[i] = delivered[i]
        /\ delivered'[Len(delivered) + 1] = [ from |-> from, payload |-> all ]
    BY <2>1, <2>2, AppendProperties
  <2>5. DOMAIN delivered' = 1 .. Len(delivered')
    BY <2>4, LenProperties
  <2> QED
    BY <2>1, <2>3, <2>4, <2>5
<1>11. FramingTypes' /\ TypeOK'
  <2>1. << >> \in Seq(Byte) /\ Len(<< >>) = 0
    BY EmptySeq
  <2> QED
    BY <1>1, <1>10, <2>1 DEF FramingTypes, TypeOK, HeaderSize
<1>12. Outgoing' /\ NextAt' = NextAt
    BY DEF Outgoing, NextAt
<1>13. Ahead'
  <2>1. ASSUME NEW k \in 1 .. Len(Stream')
        PROVE  Before([ msg |-> from, at |-> Sig ], Stream'[k])
    <3>1. (1 + want) + k \in 1 .. Len(Stream) /\ Stream'[k] = Stream[(1 + want) + k]
        BY <1>1, <1>3, <1>4, <1>6
    <3> QED
        BY <3>1 DEF Ahead
  <2> QED
    BY <1>12, <2>1 DEF Ahead
<1>14. Deliveries'
  <2>1. ASSUME NEW i \in 1 .. Len(delivered)
        PROVE  /\ delivered'[i].from \in 1 .. from /\ delivered'[i].from < from
               /\ delivered'[i].from \notin torn =>
                     delivered'[i].payload = Payload(delivered'[i].from)
               /\ \A j \in 1 .. Len(delivered) : i < j => delivered'[i].from < delivered'[j].from
    BY <1>10 DEF Deliveries
  <2>2. ASSUME NEW i \in 1 .. Len(delivered) + 1
        PROVE  /\ delivered'[i].from \in 1 .. from
               /\ delivered'[i].from \notin torn =>
                     delivered'[i].payload = Payload(delivered'[i].from)
               /\ \A j \in 1 .. Len(delivered) + 1 :
                     i < j => delivered'[i].from < delivered'[j].from
    <3>1. CASE i = Len(delivered) + 1
      <4>1. delivered'[i].from = from /\ delivered'[i].payload = all
        BY <3>1, <1>10
      <4>2. from \in 1 .. from
        BY <1>1
      <4> QED
        BY <3>1, <4>1, <4>2, <1>9, <1>10
    <3>2. CASE i \in 1 .. Len(delivered)
      <4>1. ASSUME NEW j \in 1 .. Len(delivered) + 1, i < j
            PROVE  delivered'[i].from < delivered'[j].from
        <5>1. CASE j = Len(delivered) + 1
            BY <5>1, <3>2, <2>1, <1>10
        <5>2. CASE j \in 1 .. Len(delivered)
            BY <5>2, <4>1, <3>2, <2>1
        <5> QED
            BY <5>1, <5>2, <1>10
      <4> QED
        BY <3>2, <4>1, <2>1
    <3>3. i = Len(delivered) + 1 \/ i \in 1 .. Len(delivered)
      <4>1. Len(delivered) \in Nat
        BY <1>10
      <4> QED
        BY <4>1
    <3> QED
        BY <3>1, <3>2, <3>3
  <2> QED
    BY <2>2, <1>10 DEF Deliveries, Payload, PayloadSize
<1>15. InStep'
  <2> SUFFICES ASSUME torn = {}
               PROVE  /\ \A i \in 1 .. Len(delivered) + 1 : delivered'[i].from = i
                      /\ from = Len(delivered')
                      /\ Len(Stream') > 0 => Stream'[1].msg = from + 1 /\ Stream'[1].at = Sig
                      /\ Len(Stream') = 0 => IF out = << >> THEN count = from
                                             ELSE NextAt = 1 /\ count = from + 1
    BY <1>10, <1>12 DEF InStep
  <2>1. from = Len(delivered) + 1 /\ \A i \in 1 .. Len(delivered) : delivered[i].from = i
    BY <1>10 DEF InStep
  <2>2. ASSUME NEW i \in 1 .. Len(delivered) + 1 PROVE delivered'[i].from = i
    <3>1. CASE i = Len(delivered) + 1
        BY <3>1, <2>1, <1>10
    <3>2. CASE i \in 1 .. Len(delivered)
        BY <3>2, <2>1, <1>10
    <3> QED
        BY <3>1, <3>2, <1>10
  <2>3. /\ Stream[1 + want].msg = from /\ Stream[1 + want].at = LastAt(lens, from)
        /\ 1 + want \in 1 .. Len(Stream)
    <3>1. want \in 1 .. want /\ from \notin torn
        BY <1>1
    <3>2. Stream[1 + want].msg = from /\ Stream[1 + want].at = 2 + want /\ want = PayloadSize(from)
        BY ONLY <1>8, <3>1
    <3>3. 1 + want \in 1 .. Len(Stream)
        BY ONLY <1>1, <1>3
    <3> QED
        BY ONLY <1>2, <3>2, <3>3
  <2>4. Len(Stream') > 0 => Stream'[1].msg = from + 1 /\ Stream'[1].at = Sig
    <3> SUFFICES ASSUME Len(Stream') > 0
                 PROVE  Stream'[1].msg = from + 1 /\ Stream'[1].at = Sig
        OBVIOUS
    <3>1. (1 + want) + 1 \in 1 .. Len(Stream) /\ 1 \in 1 .. Len(Stream')
        BY <1>1, <1>3, <1>4
    <3>2. Stream'[1] = Stream[(1 + want) + 1]
        BY <3>1, <1>6
    <3> QED
        BY <3>1, <3>2, <2>3, <1>5 DEF Flow, Gapless
  <2>5. ASSUME Len(Stream') = 0
        PROVE  IF out = << >> THEN count = from ELSE NextAt = 1 /\ count = from + 1
    <3>1. Len(Stream) = 1 + want /\ Len(Stream) > 0
        BY <2>5, <1>1, <1>3, <1>4
    <3>2. /\ NextAt > 1 => from = count /\ LastAt(lens, from) = NextAt - 1
          /\ NextAt = 1 => from = count - 1
        BY <1>5, <2>3, <3>1 DEF Flow, UpToDate
    <3>3. count \in 1 .. count /\ LastAt(lens, count) \in Nat /\ LastAt(lens, count) >= 4
        BY <1>1, LensFacts
    <3>4. CASE out = << >>
      <4>1. NextAt = LastAt(lens, count) + 1
        BY <3>4, IdleFacts DEF NextAt
      <4> QED
        BY <3>2, <3>3, <3>4, <4>1
    <3>5. CASE out # << >>
      <4>1. /\ NextAt \in Nat \ {0} /\ Len(out[1]) \in Nat \ {0}
            /\ NextAt + Len(out[1]) <= LastAt(lens, count) + 1
        BY <1>1, <3>3, <3>5, LensFacts, OutFacts DEF NextAt, Outgoing
      <4>2. NextAt <= LastAt(lens, count)
        BY <3>3, <4>1
      <4>3. ~(NextAt > 1)
        <5> SUFFICES ASSUME NextAt > 1 PROVE FALSE
            OBVIOUS
        <5>1. LastAt(lens, count) = NextAt - 1
            BY <3>2
        <5> QED
            BY <3>3, <4>1, <4>2, <5>1
      <4>4. NextAt = 1
        BY <4>1, <4>3
      <4>5. from = count - 1
        BY <3>2, <4>4
      <4> QED
        BY <1>1, <3>5, <4>4, <4>5
    <3> QED
        BY <3>4, <3>5
  <2> QED
    BY <1>10, <2>1, <2>2, <2>4, <2>5
<1> QED
    BY <1>7, <1>11, <1>12, <1>13, <1>14, <1>15

LEMMA ReceiveKeeps ==
    ASSUME FramingInv, Receive
    PROVE  FramingInv'
<1>1. /\ buf \in Seq(Byte) /\ got \in Seq(Byte) /\ want \in Nat
      /\ Len(buf) \in Nat /\ Len(got) \in Nat /\ Len(buf) <= Capacity /\ Capacity \in Nat
      /\ part \in {"header", "payload"}
  <2>1. buf \in Seq(Byte) /\ got \in Seq(Byte) /\ want \in Nat
    BY DEF FramingInv, FramingTypes
  <2> QED
    BY <2>1, LenProperties, FramingAssumption DEF FramingInv, TypeOK, Receive
<1>2. Missing \in Nat
    BY <1>1 DEF Missing, HeaderSize, FramingInv, TypeOK
<1>3. PICK n \in 1 .. IF Missing < Len(buf) THEN Missing ELSE Len(buf) :
        LET all == got \o SubSeq(buf, 1, n)
        IN  /\ buf' = SubSeq(buf, n + 1, Len(buf))
            /\ \/ n < Missing /\ got' = all /\ UNCHANGED << part, want, from, delivered >>
               \/ n = Missing /\ part = "header" /\ HeaderRead(all)
               \/ n = Missing /\ part = "payload" /\ PayloadRead(all)
    BY DEF Receive
<1> DEFINE all == got \o SubSeq(buf, 1, n)
           rest == SubSeq(buf, n + 1, Len(buf))
<1>4. n \in 1 .. Len(buf) /\ n <= Missing /\ n \in Nat
    BY <1>1, <1>2
<1>5. /\ all \in Seq(Byte) /\ Len(all) = Len(got) + n
      /\ rest \in Seq(Byte) /\ Len(rest) = Len(buf) - n /\ all \o rest = got \o buf
    BY <1>1, <1>4, MovedFacts
<1>6. /\ buf' = rest
      /\ \/ n < Missing /\ got' = all /\ UNCHANGED << part, want, from, delivered >>
         \/ n = Missing /\ part = "header" /\ HeaderRead(all)
         \/ n = Missing /\ part = "payload" /\ PayloadRead(all)
    BY <1>3
<1> HIDE DEF all, rest
<1>7. Len(rest) <= Len(buf) /\ Len(rest) <= Capacity
    BY <1>1, <1>4, <1>5
<1>8. UNCHANGED << count, lens, out, torn >>
    BY DEF Receive
<1>9. CASE n < Missing /\ got' = all /\ UNCHANGED << part, want, from, delivered >>
  <2>1. part = "header" => Len(all) < HeaderSize
    BY <1>1, <1>4, <1>5, <1>9 DEF Missing, HeaderSize
  <2>2. part = "payload" => Len(all) < want
    BY <1>1, <1>4, <1>5, <1>9 DEF Missing
  <2> QED
    BY <1>5, <1>6, <1>7, <1>8, <1>9, <2>1, <2>2, KeepingKeeps
<1>10. CASE n = Missing /\ part = "header" /\ HeaderRead(all)
  <2>1. Len(all) = HeaderSize
    BY <1>1, <1>4, <1>5, <1>10 DEF Missing, HeaderSize
  <2>2. PICK size \in Announced(all) :
          IF ValidHeader(all, size)
          THEN /\ part' = "payload" /\ got' = << >>
               /\ want' = size /\ from' = all[1].msg
               /\ UNCHANGED delivered
          ELSE /\ part' = "closed" /\ got' = << >>
               /\ UNCHANGED << want, from, delivered >>
    BY <1>10 DEF HeaderRead
  <2>3. CASE ValidHeader(all, size)
    BY <1>5, <1>6, <1>7, <1>8, <1>10, <2>1, <2>2, <2>3, HeaderKeeps
  <2>4. CASE ~ValidHeader(all, size)
    BY <1>5, <1>6, <1>7, <1>8, <2>2, <2>4, ClosingKeeps
  <2> QED
    BY <2>3, <2>4
<1>11. CASE n = Missing /\ part = "payload" /\ PayloadRead(all)
  <2>1. Len(all) = want
    BY <1>1, <1>4, <1>5, <1>11 DEF Missing
  <2>2. /\ part' = "header" /\ got' = << >> /\ UNCHANGED << want, from >>
        /\ delivered' = Append(delivered, [ from |-> from, payload |-> all ])
    BY <1>11 DEF PayloadRead, AfterPayload
  <2> QED
    BY <1>5, <1>6, <1>7, <1>8, <1>11, <2>1, <2>2, PayloadKeeps
<1> QED
    BY <1>6, <1>9, <1>10, <1>11

LEMMA EndOfStreamKeeps ==
    ASSUME FramingInv, EndOfStream
    PROVE  FramingInv'
<1>1. /\ part' = "closed" /\ got' = << >> /\ buf' = << >>
      /\ UNCHANGED << count, lens, out, torn, want, from, delivered >>
    BY DEF EndOfStream, Closes
<1>2. buf' \in Seq(Byte) /\ Len(buf') <= Capacity
    BY <1>1, EmptySeq, FramingAssumption
<1> QED
    BY <1>1, <1>2, ClosingKeeps

-----------------------------------------------------------------------------
(***************************************************************************)
(* The theorems.                                                           *)
(***************************************************************************)
\* At first nothing is under way.
LEMMA FramingBegins ==
    ASSUME Init
    PROVE  FramingInv
<1>1. << >> \in Seq(Byte) /\ << >> \in Seq([ from : Nat, payload : Seq(Byte) ]) /\ Len(<< >>) = 0
    BY EmptySeq
<1>2. FramingTypes /\ TypeOK
    BY <1>1, FramingAssumption DEF Init, FramingTypes, TypeOK, HeaderSize
<1>3. Outgoing
    BY DEF Init, Outgoing, LastFragments
<1>4. Stream \in Seq(Byte) /\ Len(Stream) = 0
  <2>1. Stream = Joined("header", 0, << >>, << >>)
    BY DEF Init, Stream
  <2>2. MadeOf(Stream, "header", 0, << >>, << >>)
    BY <1>1, <2>1, JoinedFacts
  <2>3. Lead("header") = 0
    BY DEF Lead
  <2> QED
    BY <1>1, <2>2, <2>3 DEF MadeOf
<1>5. Flow(Stream, count, lens, torn, NextAt)
    BY <1>4 DEF Flow, Ranged, Rising, Runs, Written, Reached, Gapless, UpToDate
<1>6. Ahead
    BY <1>4 DEF Init, Ahead
<1>7. Deliveries /\ InStep
    BY <1>1, <1>4 DEF Init, Deliveries, InStep
<1> QED
    BY <1>2, <1>3, <1>5, <1>6, <1>7 DEF FramingInv

(***************************************************************************)
(* The invariant of the stream: what is on its way from SocketBase::send   *)
(* to SocketBase::receiveData, and where in it the two of them are.        *)
(***************************************************************************)
THEOREM FramingInvariant == Spec => []FramingInv
<1>1. Init => FramingInv
    BY FramingBegins
<1>2. FramingInv /\ [Next]_vars => FramingInv'
  <2> SUFFICES ASSUME FramingInv, [Next]_vars PROVE FramingInv'
    OBVIOUS
  <2>1. CASE UNCHANGED vars
    BY <2>1 DEF vars, FramingInv, FramingTypes, TypeOK, Outgoing, Ahead, Deliveries, InStep,
                Stream, NextAt, PayloadSize, Payload
  <2>2. ASSUME NEW a \in FragLens, NEW b \in FragLens, Send(a, b) PROVE FramingInv'
    BY <2>2, SendKeeps
  <2>3. CASE WriteFragment
    BY <2>3, WriteFragmentKeeps
  <2>4. CASE WriterCloses
    BY <2>4, WriterClosesKeeps
  <2>5. CASE Receive
    BY <2>5, ReceiveKeeps
  <2>6. CASE EndOfStream
    BY <2>6, EndOfStreamKeeps
  <2> QED
    BY <2>1, <2>2, <2>3, <2>4, <2>5, <2>6 DEF Next
<1> QED
    BY <1>1, <1>2, PTL DEF Spec

(***************************************************************************)
(* However the kernel cuts the stream, receiveData delivers the payloads   *)
(* that were sent, from the first on and in order, as long as send() wrote *)
(* every message whole.                                                    *)
(***************************************************************************)
THEOREM PayloadsAsSent == Spec => []DeliversWhatWasSent
<1>1. FramingInv => DeliversWhatWasSent
  <2> SUFFICES ASSUME FramingInv, torn = {}, NEW i \in DOMAIN delivered
               PROVE  delivered[i] = [ from |-> i, payload |-> Payload(i) ]
    BY DEF DeliversWhatWasSent
  <2>1. delivered[i].from = i
    BY DEF FramingInv, InStep
  <2>2. delivered[i].payload = Payload(delivered[i].from)
    BY DEF FramingInv, Deliveries
  <2>3. delivered[i] \in [ from : Nat, payload : Seq(Byte) ]
    <3>1. delivered \in Seq([ from : Nat, payload : Seq(Byte) ])
        BY DEF FramingInv, FramingTypes
    <3>2. i \in 1 .. Len(delivered)
        BY <3>1, LenProperties
    <3> QED
        BY <3>1, <3>2, ElementOfSeq
  <2>4. delivered[i] = [ from |-> delivered[i].from, payload |-> delivered[i].payload ]
    BY <2>3
  <2> QED
    BY <2>1, <2>2, <2>4
<1> QED
    BY <1>1, FramingInvariant, PTL

(***************************************************************************)
(* A message that send() tore spoils at most the payload under its own     *)
(* signature: under the header of a whole message receiveData delivers the *)
(* whole payload of that message, never one message twice nor an older one *)
(* after a newer, and never reads beyond the part it waits for.            *)
(***************************************************************************)
THEOREM TearsAreContained == Spec => []TearIsContained
<1>1. FramingInv => TearIsContained
    BY DEF FramingInv, Deliveries, TearIsContained
<1> QED
    BY <1>1, FramingInvariant, PTL

-----------------------------------------------------------------------------
(* Connection strings.                                                     *)

Tokens == Schemes \cup Characters

StringInv == conn_str \in Seq(Tokens)

\* A set of places that is not empty has a first and a last one.
LEMMA FirstPlace ==
    ASSUME NEW S, S \subseteq Nat, S # {}
    PROVE  \E x \in S : \A y \in S : x <= y
<1> DEFINE R == { ss \in Nat \X Nat : ss[1] < ss[2] }
<1>1. IsWellFoundedOn(R, Nat)
    BY NatLessThanWellFounded, Zenon DEF OpToRel
<1>2. \E x \in S : \A y \in S : ~(<< y, x >> \in R)
  <2> HIDE DEF R
  <2> QED
    BY <1>1, WFMin
<1>3. \A x \in S : \A y \in S : ~(<< y, x >> \in R) => x <= y
    OBVIOUS
<1> QED
    BY <1>2, <1>3

\* And a last one, when it is bounded.
LEMMA LastPlace ==
    ASSUME NEW l \in Nat, NEW S, S \subseteq 1 .. l, S # {}
    PROVE  \E x \in S : \A y \in S : x >= y
<1> DEFINE T == { l - x : x \in S }
<1>1. T \subseteq Nat /\ T # {}
  <2>1. \A x \in S : l - x \in Nat
    OBVIOUS
  <2>2. T # {}
    OBVIOUS
  <2> QED
    BY <2>1, <2>2
<1>2. PICK t \in T : \A u \in T : t <= u
    BY <1>1, FirstPlace
<1>3. PICK x \in S : t = l - x
    OBVIOUS
<1>4. \A y \in S : l - x <= l - y
    BY <1>2, <1>3
<1> QED
    BY <1>4

\* c_str() cuts a string before its first null character, if it has one.
LEMMA CStringFacts ==
    ASSUME NEW S, NEW s \in Seq(S)
    PROVE  /\ CString(s) \in Seq(S) /\ Len(CString(s)) \in Nat /\ Len(CString(s)) <= Len(s)
           /\ \A i \in 1 .. Len(CString(s)) : CString(s)[i] = s[i] /\ s[i] # "nul"
           /\ "nul" \notin ToSet(s) => CString(s) = s
           /\ Len(CString(s)) < Len(s) => s[Len(CString(s)) + 1] = "nul"
<1> DEFINE nuls == { i \in DOMAIN s : s[i] = "nul" }
<1>1. Len(s) \in Nat /\ DOMAIN s = 1 .. Len(s) /\ s \in Seq(S)
    OBVIOUS
<1>2. CASE nuls = {}
  <2>1. CString(s) = s
    BY <1>2 DEF CString
  <2> QED
    BY <1>1, <1>2, <2>1
<1>3. CASE nuls # {}
  <2>1. nuls \subseteq Nat
    BY <1>1
  <2>2. \E i \in nuls : \A j \in nuls : i <= j
    BY <1>3, <2>1, FirstPlace
  <2>3. PICK k : k = (CHOOSE i \in nuls : \A j \in nuls : i <= j)
    OBVIOUS
  <2>4. k \in nuls /\ \A j \in nuls : k <= j
    BY <2>2, <2>3
  <2>5. CString(s) = SubSeq(s, 1, k - 1)
    BY <1>3, <2>3 DEF CString
  <2>6. k \in 1 .. Len(s) /\ s[k] = "nul"
    BY <1>1, <2>4
  <2>7. /\ SubSeq(s, 1, k - 1) \in Seq(S) /\ Len(SubSeq(s, 1, k - 1)) = k - 1
        /\ \A i \in 1 .. k - 1 : SubSeq(s, 1, k - 1)[i] = s[i]
    BY <1>1, <2>6
  <2>8. \A i \in 1 .. k - 1 : i \in DOMAIN s /\ ~(k <= i)
    BY <1>1, <2>6
  <2>9. \A i \in 1 .. k - 1 : s[i] # "nul"
    BY <2>4, <2>8
  <2>10. "nul" \in ToSet(s)
    BY <1>1, <2>6 DEF ToSet
  <2> DEFINE c == CString(s)
  <2> HIDE DEF c
  <2>11. c \in Seq(S) /\ Len(c) = k - 1 /\ \A i \in 1 .. k - 1 : c[i] = s[i]
    BY <2>5, <2>7 DEF c
  <2>12. Len(c) \in Nat /\ Len(c) <= Len(s) /\ Len(c) + 1 = k
    BY <1>1, <2>6, <2>11
  <2>13. /\ c \in Seq(S) /\ Len(c) \in Nat /\ Len(c) <= Len(s)
         /\ \A i \in 1 .. Len(c) : c[i] = s[i] /\ s[i] # "nul"
         /\ "nul" \notin ToSet(s) => c = s
         /\ Len(c) < Len(s) => s[Len(c) + 1] = "nul"
    BY <2>6, <2>9, <2>10, <2>11, <2>12
  <2> QED
    BY <2>13 DEF c
<1> QED
    BY <1>2, <1>3

\* A text without null characters, and a null character behind it.
LEMMA CStringOf ==
    ASSUME NEW S, NEW t \in Seq(S), NEW s \in Seq(S), Len(t) < Len(s), s[Len(t) + 1] = "nul",
           \A i \in 1 .. Len(t) : s[i] = t[i] /\ t[i] # "nul"
    PROVE  CString(s) = t
<1>1. PICK c : c = CString(s) /\ c \in Seq(S) /\ Len(c) \in Nat /\ Len(c) <= Len(s)
            /\ (\A i \in 1 .. Len(c) : c[i] = s[i] /\ s[i] # "nul")
            /\ (Len(c) < Len(s) => s[Len(c) + 1] = "nul")
    BY CStringFacts
<1>2. Len(s) \in Nat /\ Len(t) \in Nat
    OBVIOUS
<1>3. ~(Len(c) < Len(t))
  <2>1. Len(c) < Len(t) => Len(c) + 1 \in 1 .. Len(t) /\ Len(c) < Len(s)
    BY <1>1, <1>2
  <2> QED
    BY <1>1, <2>1
<1>4. ~(Len(t) < Len(c))
  <2>1. Len(t) < Len(c) => Len(t) + 1 \in 1 .. Len(c)
    BY <1>1, <1>2
  <2> QED
    BY <1>1, <2>1
<1>5. Len(c) = Len(t)
    BY <1>1, <1>2, <1>3, <1>4
<1>6. \A i \in 1 .. Len(t) : c[i] = t[i]
    BY <1>1, <1>5
<1>7. c = t
    BY <1>1, <1>5, <1>6, SeqEqual
<1> QED
    BY <1>1, <1>7

\* The three results of a parser are different.
LEMMA ResultFacts ==
    /\ NotMine.is = "not mine" /\ Invalid.is = "InvalidArgument"
    /\ \A b, w : /\ UnixAddress(b, w).is = "unix" /\ UnixAddress(b, w).bytes = b
                 /\ UnixAddress(b, w).written = w
    /\ \A f, h, p : /\ InetAddress(f, h, p).is = f /\ InetAddress(f, h, p).host = h
                    /\ InetAddress(f, h, p).port = p
BY DEF NotMine, Invalid, UnixAddress, InetAddress

\* A host that was found has one of two families.
LEMMA FamilyFacts ==
    ASSUME NEW s
    PROVE  extractFamilyHostAndPort(s).family \in {"inet", "inet6", "unspec"}
<1>1. \A f, h, p : WithPort(f, h, p).family \in {f, "unspec"}
    BY DEF WithPort, NoHost
<1>2. NoHost.family = "unspec"
    BY DEF NoHost
<1> QED
    BY <1>1, <1>2 DEF extractFamilyHostAndPort

\* Which of the parsers an address is from.
LEMMA ParseFacts ==
    ASSUME NEW s
    PROVE  /\ Starts(s, "unix:") => parse(s) = tryParseAsUnixDomain(s)
           /\ Starts(s, "unix-abstract:") => parse(s) = tryParseAsAbstractUnixDomain(s)
           /\ Starts(s, "tcp://") => parse(s) = tryParseAsTcpAddress(s)
           /\ parse(s).is = "unix" => Starts(s, "unix:") \/ Starts(s, "unix-abstract:")
<1>0. Invalid # NotMine /\ \A b, w : UnixAddress(b, w) # NotMine
    BY DEF Invalid, NotMine, UnixAddress
<1>1. /\ ~(Starts(s, "unix:") /\ Starts(s, "unix-abstract:"))
      /\ ~(Starts(s, "unix:") /\ Starts(s, "tcp://"))
      /\ ~(Starts(s, "unix-abstract:") /\ Starts(s, "tcp://"))
    BY DEF Starts
<1>2. /\ ~Starts(s, "unix:") => tryParseAsUnixDomain(s) = NotMine
      /\ Starts(s, "unix:") => tryParseAsUnixDomain(s) # NotMine
    BY ONLY <1>0, Zenon DEF tryParseAsUnixDomain
<1>3. /\ ~Starts(s, "unix-abstract:") => tryParseAsAbstractUnixDomain(s) = NotMine
      /\ Starts(s, "unix-abstract:") => tryParseAsAbstractUnixDomain(s) # NotMine
    BY ONLY <1>0, Zenon DEF tryParseAsAbstractUnixDomain
<1>4. /\ ~Starts(s, "tcp://") => tryParseAsTcpAddress(s) = NotMine
      /\ Starts(s, "tcp://") => /\ tryParseAsTcpAddress(s) # NotMine
                                /\ tryParseAsTcpAddress(s).is # "unix"
  <2>1. ~Starts(s, "tcp://") => tryParseAsTcpAddress(s) = NotMine
    BY DEF tryParseAsTcpAddress
  <2>2. ASSUME Starts(s, "tcp://")
        PROVE  tryParseAsTcpAddress(s).is \in {"InvalidArgument", "wildcard", "inet", "inet6"}
    <3> DEFINE x == extractFamilyHostAndPort(Tail(s))
               wildcard == tryParseAsWildcard(x.host, x.port)
    <3>1. x.family \in {"inet", "inet6", "unspec"}
      BY FamilyFacts
    <3>2. wildcard # NotMine => wildcard.is = "wildcard"
      BY DEF tryParseAsWildcard, InetAddress
    <3>3. tryParseAsTcpAddress(s) =
            IF x.family = "unspec" THEN Invalid
            ELSE IF wildcard # NotMine THEN wildcard
            ELSE IF inet_pton(x.family, CString(x.host)) THEN InetAddress(x.family, CString(x.host), x.port)
            ELSE Invalid
      BY <2>2 DEF tryParseAsTcpAddress, tryParseHost
    <3> HIDE DEF x, wildcard
    <3>4. InetAddress(x.family, CString(x.host), x.port).is = x.family
      BY DEF InetAddress
    <3> QED
      BY <3>1, <3>2, <3>3, <3>4, ResultFacts
  <2> QED
    BY <2>1, <2>2, ResultFacts
<1> QED
    BY <1>1, <1>2, <1>3, <1>4, ResultFacts DEF parse, OrElse

\* The path behind the prefix.
LEMMA PathFacts ==
    ASSUME NEW s \in Seq(Tokens), s # << >>
    PROVE  /\ Tail(s) \in Seq(Tokens) /\ Len(Tail(s)) \in Nat /\ Len(Tail(s)) = Len(s) - 1
           /\ Head(s) = s[1]
OBVIOUS

\* The address of a file.
LEMMA FilePath ==
    ASSUME NEW s \in Seq(Tokens), Starts(s, "unix:"), parse(s).is = "unix"
    PROVE  /\ parse(s).written <= PathCapacity /\ Len(parse(s).bytes) <= PathCapacity
           /\ CString(parse(s).bytes) = CString(Tail(s)) /\ parse(s).bytes[Len(parse(s).bytes)] = "nul"
<1>1. PathCapacity \in Nat
    BY AddressAssumption
<1>2. PICK path : path = Tail(s) /\ path \in Seq(Tokens) /\ Len(path) \in Nat
    BY PathFacts DEF Starts
<1>3. PICK text : text = CString(path) /\ text \in Seq(Tokens) /\ Len(text) \in Nat
            /\ Len(text) <= Len(path) /\ \A i \in 1 .. Len(text) : text[i] = path[i] /\ path[i] # "nul"
    BY <1>2, CStringFacts
<1>4. PICK z : z = Len(path) + 1 - Len(text) /\ z \in Nat /\ z > 0
    BY <1>2, <1>3
<1>5. Zeros(z) \in Seq(Tokens) /\ Len(Zeros(z)) = z /\ \A i \in 1 .. z : Zeros(z)[i] = "nul"
  <2>1. "nul" \in Tokens
    BY DEF Tokens, Characters
  <2> QED
    BY <1>4, <2>1 DEF Zeros
<1>6. PICK bytes : bytes = text \o Zeros(z)
    OBVIOUS
<1>7. parse(s) = UnixAddress(bytes, PathCapacity) /\ Len(path) + 1 <= PathCapacity
  <2>1. parse(s) = tryParseAsUnixDomain(s)
    BY ParseFacts
  <2>2. tryParseAsUnixDomain(s) =
            IF Len(path) + 1 > PathCapacity THEN Invalid
            ELSE UnixAddress(text \o Zeros(Len(path) + 1 - Len(text)), PathCapacity)
    BY <1>2, <1>3 DEF tryParseAsUnixDomain
  <2>3. ~(Len(path) + 1 > PathCapacity)
    BY <2>1, <2>2, ResultFacts
  <2> QED
    BY <1>1, <1>2, <1>4, <1>6, <2>1, <2>2, <2>3
<1>8. /\ bytes \in Seq(Tokens) /\ Len(bytes) = Len(text) + z
      /\ \A i \in 1 .. Len(text) : bytes[i] = text[i]
      /\ \A i \in 1 .. z : bytes[Len(text) + i] = Zeros(z)[i]
  <2> DEFINE zeros == Zeros(z)
  <2> HIDE DEF zeros
  <2>1. zeros \in Seq(Tokens) /\ Len(zeros) = z /\ bytes = text \o zeros
    BY <1>5, <1>6 DEF zeros
  <2>2. /\ bytes \in Seq(Tokens) /\ Len(bytes) = Len(text) + z
        /\ \A i \in 1 .. Len(text) : bytes[i] = text[i]
        /\ \A i \in 1 .. z : bytes[Len(text) + i] = zeros[i]
    BY <1>3, <2>1
  <2> QED
    BY <2>2 DEF zeros
<1>9. Len(bytes) = Len(path) + 1 /\ bytes[Len(text) + 1] = "nul" /\ bytes[Len(bytes)] = "nul"
  <2>1. 1 \in 1 .. z /\ z \in 1 .. z
    BY <1>4
  <2>2. Len(bytes) = Len(path) + 1
    BY <1>2, <1>3, <1>4, <1>8
  <2> QED
    BY <1>5, <1>8, <2>1, <2>2
<1>10. CString(bytes) = text
  <2>1. Len(text) < Len(bytes)
    BY <1>2, <1>3, <1>9
  <2>2. \A i \in 1 .. Len(text) : bytes[i] = text[i] /\ text[i] # "nul"
    BY <1>3, <1>8
  <2> QED
    BY <1>3, <1>8, <1>9, <2>1, <2>2, CStringOf
<1>11. parse(s).written = PathCapacity /\ parse(s).bytes = bytes
    BY <1>7 DEF UnixAddress
<1> QED
    BY <1>1, <1>2, <1>3, <1>7, <1>9, <1>10, <1>11

\* The name of an abstract address.
LEMMA AbstractName ==
    ASSUME NEW s \in Seq(Tokens), Starts(s, "unix-abstract:"), parse(s).is = "unix"
    PROVE  /\ parse(s).written <= PathCapacity /\ Len(parse(s).bytes) <= PathCapacity
           /\ Tail(parse(s).bytes) = Tail(s)
<1>1. PathCapacity \in Nat
    BY AddressAssumption
<1>2. PICK path : path = Tail(s) /\ path \in Seq(Tokens) /\ Len(path) \in Nat
    BY PathFacts DEF Starts
<1>3. PICK bytes : bytes = << "nul" >> \o path
    OBVIOUS
<1>4. parse(s) = UnixAddress(bytes, 1 + Len(path) + 1) /\ Len(path) + 1 <= PathCapacity - 1
  <2>1. parse(s) = tryParseAsAbstractUnixDomain(s)
    BY ParseFacts
  <2>2. tryParseAsAbstractUnixDomain(s) =
            IF ~FitsAsAbstract(path) THEN Invalid ELSE UnixAddress(<< "nul" >> \o path, 1 + Len(path) + 1)
    BY <1>2 DEF tryParseAsAbstractUnixDomain
  <2>3. FitsAsAbstract(path)
    BY <2>1, <2>2, ResultFacts
  <2> QED
    BY <1>3, <2>1, <2>2, <2>3 DEF FitsAsAbstract
<1>5. Len(bytes) = Len(path) + 1 /\ Tail(bytes) = path
  <2>1. "nul" \in Tokens
    BY DEF Tokens, Characters
  <2>2. ASSUME NEW p \in Seq(Tokens), NEW x \in Tokens
        PROVE  Len(<< x >> \o p) = Len(p) + 1 /\ Tail(<< x >> \o p) = p
    OBVIOUS
  <2> QED
    BY <1>2, <1>3, <2>1, <2>2
<1>6. parse(s).written = 1 + Len(path) + 1 /\ parse(s).bytes = bytes
    BY <1>4 DEF UnixAddress
<1> QED
    BY <1>1, <1>2, <1>4, <1>5, <1>6

\* The configuration's strings are made of tokens.
LEMMA StringsHold == AddressSpec => []StringInv
<1>1. AddressInit => StringInv
    BY DEF AddressInit, StringInv
<1>2. StringInv /\ [AddressNext]_conn_str => StringInv'
  <2> SUFFICES ASSUME StringInv, [AddressNext]_conn_str PROVE StringInv'
    OBVIOUS
  <2>1. CASE \E t \in Schemes \cup {"x"} : conn_str' = << t >>
    <3>1. PICK t \in Tokens : conn_str' = << t >>
      BY <2>1 DEF Tokens, Characters
    <3> QED
      BY <3>1 DEF StringInv
  <2>2. CASE \E t \in Characters : conn_str' = Append(conn_str, t)
    <3>1. PICK t \in Tokens : conn_str' = Append(conn_str, t)
      BY <2>2 DEF Tokens
    <3> QED
      BY <3>1 DEF StringInv
  <2>3. CASE conn_str' = conn_str
    BY <2>3 DEF StringInv
  <2> QED
    BY <2>1, <2>2, <2>3 DEF AddressNext
<1> QED
    BY <1>1, <1>2, PTL DEF AddressSpec

(***************************************************************************)
(* Whatever the path of a unix address and whatever the size of sun_path,  *)
(* tryParseAsUnixDomain and tryParseAsAbstractUnixDomain copy within it;   *)
(* the address names the whole abstract path, its null characters          *)
(* included, or the file, terminated within the length of the address.     *)
(***************************************************************************)
THEOREM AddressesFit == AddressSpec => []FitsInSunPath
<1>1. ASSUME StringInv PROVE FitsInSunPath
  <2>1. conn_str \in Seq(Tokens)
    BY <1>1 DEF StringInv
  <2>2. SUFFICES ASSUME parse(conn_str).is = "unix"
                 PROVE  /\ parse(conn_str).written <= PathCapacity /\ Len(parse(conn_str).bytes) <= PathCapacity
                        /\ Starts(conn_str, "unix-abstract:") => Tail(parse(conn_str).bytes) = Tail(conn_str)
                        /\ Starts(conn_str, "unix:") =>
                            /\ CString(parse(conn_str).bytes) = CString(Tail(conn_str))
                            /\ parse(conn_str).bytes[Len(parse(conn_str).bytes)] = "nul"
    BY DEF FitsInSunPath, FitsAndIsWhole
  <2>3. ~(Starts(conn_str, "unix-abstract:") /\ Starts(conn_str, "unix:"))
    BY DEF Starts
  <2>4. Starts(conn_str, "unix-abstract:") \/ Starts(conn_str, "unix:")
    BY <2>2, ParseFacts
  <2> QED
    BY <2>1, <2>2, <2>3, <2>4, FilePath, AbstractName
<1> QED
    BY <1>1, StringsHold, PTL

-----------------------------------------------------------------------------
\* Texts without null characters: c_str() is the whole of them.
Plain == Tokens \ {"nul"}

LEMMA PlainFacts ==
    ASSUME NEW q \in Seq(Plain)
    PROVE  CString(q) = q /\ q \in Seq(Tokens) /\ Len(q) \in Nat /\ DOMAIN q = 1 .. Len(q)
<1>1. Len(q) \in Nat /\ DOMAIN q = 1 .. Len(q) /\ \A i \in 1 .. Len(q) : q[i] \in Plain
    OBVIOUS
<1>2. q \in Seq(Tokens)
    BY <1>1 DEF Plain
<1>3. "nul" \notin ToSet(q)
    BY <1>1 DEF Plain, ToSet
<1> QED
    BY <1>1, <1>2, <1>3, CStringFacts

\* A part of a plain text.
LEMMA PartFacts ==
    ASSUME NEW q \in Seq(Plain), NEW i \in Nat, i > 0, NEW j \in Int, j <= Len(q)
    PROVE  /\ SubSeq(q, i, j) \in Seq(Plain)
           /\ Len(SubSeq(q, i, j)) = IF i <= j THEN j - i + 1 ELSE 0
           /\ \A k \in 1 .. Len(SubSeq(q, i, j)) : SubSeq(q, i, j)[k] = q[i + k - 1]
<1>1. Len(q) \in Nat
    OBVIOUS
<1>2. CASE i <= j
  <2>1. j \in 1 .. Len(q) /\ i \in 1 .. j
    BY <1>1, <1>2
  <2> QED
    BY <1>2, <2>1
<1>3. CASE ~(i <= j)
  <2>1. SubSeq(q, i, j) = << >>
    BY <1>3
  <2> QED
    BY <1>3, <2>1
<1> QED
    BY <1>2, <1>3

LEMMA ReadingFacts ==
    \A f, h, q : Reading(f, h, q).family = f /\ Reading(f, h, q).host = h /\ Reading(f, h, q).part = q
BY DEF Reading

\* What is taken from a host and the text of a port: nothing if they make no sense.
Takes(f, h, q) == MakesSense(Reading(f, h, q))

Makes(f, h, q) == IF Takes(f, h, q) THEN AddressOf(Reading(f, h, q)) ELSE Invalid

\* What tryParseAsTcpAddress makes of a host and the text of a port.
LEMMA TcpFacts ==
    ASSUME NEW s, Starts(s, "tcp://")
    PROVE  /\ extractFamilyHostAndPort(Tail(s)) = NoHost => parse(s) = Invalid
           /\ \A f \in {"inet", "inet6"}, h \in Seq(Plain), q \in Seq(Plain) :
                extractFamilyHostAndPort(Tail(s)) = WithPort(f, h, q) => parse(s) = Makes(f, h, q)
<1>1. PICK x : x = extractFamilyHostAndPort(Tail(s))
    OBVIOUS
<1>2. parse(s) =
            IF x.family = "unspec" THEN Invalid
            ELSE IF tryParseAsWildcard(x.host, x.port) # NotMine THEN tryParseAsWildcard(x.host, x.port)
            ELSE IF inet_pton(x.family, CString(x.host)) THEN InetAddress(x.family, CString(x.host), x.port)
            ELSE Invalid
    BY <1>1, ParseFacts DEF tryParseAsTcpAddress, tryParseHost
<1>3. x = NoHost => parse(s) = Invalid
    BY <1>2 DEF NoHost
<1>4. ASSUME NEW f \in {"inet", "inet6"}, NEW h \in Seq(Plain), NEW q \in Seq(Plain),
             x = WithPort(f, h, q)
      PROVE  parse(s) = Makes(f, h, q)
  <2>1. CString(h) = h /\ CString(q) = q /\ f # "unspec"
    BY PlainFacts
  <2>0. PICK r : r = Reading(f, h, q)
    OBVIOUS
  <2>2. r = Reading(f, h, q) /\ r.family = f /\ r.host = h /\ r.part = q
    BY ONLY <2>0 DEF Reading
  <2>3. CASE q # << >> /\ (~IsNumber(q) \/ Number(q) > MaxPort)
    <3>1. x = NoHost
      BY <1>4, <2>1, <2>3 DEF WithPort
    <3>2. ~MakesSense(r)
      BY ONLY <2>2, <2>3, Zenon DEF MakesSense
    <3> QED
      BY <1>3, <2>2, <3>1, <3>2 DEF Makes, Takes
  <2>4. CASE ~(q # << >> /\ (~IsNumber(q) \/ Number(q) > MaxPort))
    <3>1. PICK port : port = IF q = << >> THEN PortHint ELSE Number(q)
      OBVIOUS
    <3>2. x = [ family |-> f, host |-> h, port |-> port ]
      BY <1>4, <2>1, <2>4, <3>1 DEF WithPort
    <3>3. x.family = f /\ x.host = h /\ x.port = port
      BY ONLY <3>2
    <3>4. MakesSense(r) <=> h = << "*" >> \/ inet_pton(f, h)
      BY ONLY <2>2, <2>4, Zenon DEF MakesSense
    <3>5. AddressOf(r) = InetAddress(IF h = << "*" >> THEN "wildcard" ELSE f, h, port)
      BY ONLY <2>2, <3>1, Zenon DEF AddressOf
    <3>6. Makes(f, h, q) = IF MakesSense(r) THEN AddressOf(r) ELSE Invalid
      BY ONLY <2>2, Zenon DEF Makes, Takes
    <3>7. CASE h = << "*" >>
      <4>1. tryParseAsWildcard(h, port) = InetAddress("wildcard", h, port)
        BY <3>7 DEF tryParseAsWildcard
      <4>2. InetAddress("wildcard", h, port) # NotMine
        BY DEF InetAddress, NotMine
      <4> QED
        BY ONLY <1>2, <2>1, <3>3, <3>4, <3>5, <3>6, <3>7, <4>1, <4>2, Zenon
    <3>8. CASE h # << "*" >>
      <4>1. tryParseAsWildcard(h, port) = NotMine
        BY <3>8 DEF tryParseAsWildcard
      <4> QED
        BY ONLY <1>2, <2>1, <3>3, <3>4, <3>5, <3>6, <3>8, <4>1, Zenon
    <3> QED
      BY <3>7, <3>8
  <2> QED
    BY <2>3, <2>4
<1> QED
    BY <1>1, <1>3, <1>4

\* An address that makes sense is not the error.
LEMMA SenseIsValid ==
    ASSUME NEW f \in {"inet", "inet6"}, NEW h, NEW q
    PROVE  AddressOf(Reading(f, h, q)) # Invalid
<1>0. PICK r : r = Reading(f, h, q)
    OBVIOUS
<1>1. r = Reading(f, h, q) /\ r.family = f
    BY ONLY <1>0, ReadingFacts, Zenon
<1> QED
    BY <1>1 DEF AddressOf, InetAddress, Invalid

-----------------------------------------------------------------------------
\* Characters that a number cannot have.
LEMMA NumberFacts ==
    ASSUME NEW q \in Seq(Plain), IsNumber(q), NEW i \in 1 .. Len(q)
    PROVE  q[i] # ":" /\ q[i] # "]"
<1>1. Len(q) \in Nat /\ DOMAIN q = 1 .. Len(q) /\ q # << >>
    OBVIOUS
<1>2. SUFFICES ASSUME q[i] \in {":", "]"} PROVE FALSE
    OBVIOUS
<1>3. PICK u : u = Unblanked(q)
    OBVIOUS
<1>4. u \in Seq(Plain) /\ \E j \in 1 .. Len(u) : u[j] = q[i]
  <2>1. PICK ink : ink = { k \in DOMAIN q : q[k] # "blank" }
    OBVIOUS
  <2>2. ink \subseteq Nat /\ i \in ink
    <3>1. q[i] # "blank" /\ i \in DOMAIN q
      BY <1>1, <1>2
    <3> QED
      BY <1>1, <2>1, <3>1
  <2>3. \E x \in ink : \A y \in ink : x <= y
    BY <2>2, FirstPlace
  <2>4. PICK first : first = FirstOf(ink)
    OBVIOUS
  <2>5. first \in ink /\ first <= i
    BY <2>2, <2>3, <2>4 DEF FirstOf
  <2>6. first \in 1 .. Len(q)
    BY <1>1, <2>1, <2>5
  <2>7. u = SubSeq(q, first, Len(q))
    BY <1>3, <2>1, <2>2, <2>4 DEF Unblanked, From
  <2>8. first \in Nat /\ first > 0 /\ Len(q) \in Int /\ Len(q) <= Len(q)
    BY <1>1, <2>6
  <2>9. /\ SubSeq(q, first, Len(q)) \in Seq(Plain)
        /\ Len(SubSeq(q, first, Len(q))) = IF first <= Len(q) THEN Len(q) - first + 1 ELSE 0
        /\ \A k \in 1 .. Len(SubSeq(q, first, Len(q))) : SubSeq(q, first, Len(q))[k] = q[first + k - 1]
    BY ONLY <2>8, q \in Seq(Plain), PartFacts, Zenon
  <2>10. u \in Seq(Plain) /\ Len(u) = Len(q) - first + 1 /\ \A k \in 1 .. Len(u) : u[k] = q[first + k - 1]
    BY ONLY <2>6, <2>7, <2>9
  <2>11. i - first + 1 \in 1 .. Len(u) /\ first + (i - first + 1) - 1 = i
    BY <1>1, <2>5, <2>6, <2>10
  <2> QED
    BY ONLY <2>10, <2>11
<1>5. PICK v : v = Unsigned(u)
    OBVIOUS
<1>6. v \in Seq(Plain) /\ \E j \in 1 .. Len(v) : v[j] = q[i]
  <2>1. PICK j \in 1 .. Len(u) : u[j] = q[i]
    BY <1>4
  <2>2. CASE Starts(u, "+") \/ Starts(u, "-")
    <3>1. u # << >> /\ v = Tail(u) /\ u[1] \in {"+", "-"}
      BY <1>4, <1>5, <2>2 DEF Unsigned, Starts
    <3>2. j # 1
      BY <1>2, <2>1, <3>1
    <3>3. v \in Seq(Plain) /\ Len(v) = Len(u) - 1 /\ \A k \in 1 .. Len(v) : v[k] = u[k + 1]
      BY ONLY <1>4, <3>1
    <3>4. j - 1 \in 1 .. Len(v) /\ (j - 1) + 1 = j
      BY <1>4, <3>2, <3>3
    <3> QED
      BY ONLY <2>1, <3>3, <3>4
  <2>3. CASE ~(Starts(u, "+") \/ Starts(u, "-"))
    BY <1>4, <1>5, <2>3 DEF Unsigned
  <2> QED
    BY <2>2, <2>3
<1>7. PICK w : w = Numeral(v)
    OBVIOUS
<1>8. \E j \in DOMAIN w : w[j] = q[i]
  <2>1. PICK j \in 1 .. Len(v) : v[j] = q[i]
    BY <1>6
  <2>2. CASE Base(v) = 16
    <3>1. Len(v) >= 2 /\ v[1] = "0" /\ v[2] = "x"
      BY <1>6, <2>2 DEF Base
    <3>2. j > 2
      <4>1. j # 1 /\ j # 2
        BY <1>2, <2>1, <3>1
      <4> QED
        BY <1>6, <4>1
    <3>3. w = SubSeq(v, 3, Len(v))
      BY <1>7, <2>2 DEF Numeral, From
    <3>4. 3 \in Nat /\ 3 > 0 /\ Len(v) \in Int /\ Len(v) <= Len(v)
      BY <1>6
    <3>5. /\ SubSeq(v, 3, Len(v)) \in Seq(Plain)
          /\ Len(SubSeq(v, 3, Len(v))) = IF 3 <= Len(v) THEN Len(v) - 3 + 1 ELSE 0
          /\ \A k \in 1 .. Len(SubSeq(v, 3, Len(v))) : SubSeq(v, 3, Len(v))[k] = v[3 + k - 1]
      BY ONLY <1>6, <3>4, PartFacts, Zenon
    <3>6. w \in Seq(Plain) /\ Len(w) = Len(v) - 2 /\ \A k \in 1 .. Len(w) : w[k] = v[3 + k - 1]
      <4>1. 3 <= Len(v) /\ Len(v) \in Nat
        BY <1>6, <2>1, <3>2
      <4> QED
        BY ONLY <3>3, <3>5, <4>1
    <3>7. j - 2 \in 1 .. Len(w) /\ 3 + (j - 2) - 1 = j /\ DOMAIN w = 1 .. Len(w)
      BY <1>6, <3>2, <3>6
    <3> QED
      BY ONLY <2>1, <3>6, <3>7
  <2>3. CASE Base(v) # 16
    <3>1. w = v /\ DOMAIN v = 1 .. Len(v)
      BY <1>6, <1>7, <2>3 DEF Numeral
    <3> QED
      BY <2>1, <3>1
  <2> QED
    BY <2>2, <2>3
<1>9. ToSet(w) \subseteq Digits
    BY <1>1, <1>3, <1>5, <1>7 DEF IsNumber
<1> QED
    BY <1>2, <1>8, <1>9 DEF ToSet, Digits

\* The members of the reference, one by one.
LEMMA ReadingsFacts ==
    ASSUME NEW y \in Seq(Plain)
    PROVE  /\ \A k \in Cuts(y) : Reading("inet", SubSeq(y, 1, k), From(y, k + 2)) \in Readings(y)
           /\ \A k \in Cuts(y) : Starts(y, "[") /\ y[k] = "]" =>
                    Reading("inet6", SubSeq(y, 2, k - 1), From(y, k + 2)) \in Readings(y)
           /\ Reading("inet6", y, << >>) \in Readings(y)
           /\ \A r \in Readings(y) :
                \/ \E k \in Cuts(y) : r = Reading("inet", SubSeq(y, 1, k), From(y, k + 2))
                \/ \E k \in Cuts(y) : /\ Starts(y, "[") /\ y[k] = "]"
                                      /\ r = Reading("inet6", SubSeq(y, 2, k - 1), From(y, k + 2))
                \/ r = Reading("inet6", y, << >>)
BY ONLY Zenon DEF Readings

\* A part of a plain text is plain.
LEMMA PlainParts ==
    ASSUME NEW y \in Seq(Plain), NEW k \in 0 .. Len(y)
    PROVE  /\ SubSeq(y, 1, k) \in Seq(Plain) /\ SubSeq(y, 2, k - 1) \in Seq(Plain)
           /\ From(y, k + 2) \in Seq(Plain)
           /\ Len(SubSeq(y, 1, k)) = k
           /\ Len(From(y, k + 2)) = IF k + 2 <= Len(y) THEN Len(y) - k - 1 ELSE 0
           /\ \A i \in 1 .. Len(From(y, k + 2)) : From(y, k + 2)[i] = y[k + 1 + i]
<1>1. Len(y) \in Nat /\ k \in Nat
    OBVIOUS
<1>2. 1 \in Nat /\ 1 > 0 /\ k \in Int /\ k <= Len(y)
    BY <1>1
<1>3. /\ SubSeq(y, 1, k) \in Seq(Plain)
      /\ Len(SubSeq(y, 1, k)) = IF 1 <= k THEN k - 1 + 1 ELSE 0
    BY ONLY <1>2, y \in Seq(Plain), PartFacts, Zenon
<1>4. Len(SubSeq(y, 1, k)) = k
    BY ONLY <1>1, <1>3
<1>5. 2 \in Nat /\ 2 > 0 /\ k - 1 \in Int /\ k - 1 <= Len(y)
    BY <1>1
<1>6. SubSeq(y, 2, k - 1) \in Seq(Plain)
    BY ONLY <1>5, y \in Seq(Plain), PartFacts, Zenon
<1>7. k + 2 \in Nat /\ k + 2 > 0 /\ Len(y) \in Int /\ Len(y) <= Len(y)
    BY <1>1
<1>8. /\ SubSeq(y, k + 2, Len(y)) \in Seq(Plain)
      /\ Len(SubSeq(y, k + 2, Len(y))) = IF k + 2 <= Len(y) THEN Len(y) - (k + 2) + 1 ELSE 0
      /\ \A i \in 1 .. Len(SubSeq(y, k + 2, Len(y))) : SubSeq(y, k + 2, Len(y))[i] = y[k + 2 + i - 1]
    BY ONLY <1>7, y \in Seq(Plain), PartFacts, Zenon
<1>9. PICK q : q = From(y, k + 2) /\ q = SubSeq(y, k + 2, Len(y))
    BY DEF From
<1>10. /\ q \in Seq(Plain) /\ Len(q) = (IF k + 2 <= Len(y) THEN Len(y) - (k + 2) + 1 ELSE 0)
       /\ \A i \in 1 .. Len(q) : q[i] = y[k + 2 + i - 1]
    BY ONLY <1>8, <1>9, Zenon
<1>11. Len(q) = IF k + 2 <= Len(y) THEN Len(y) - k - 1 ELSE 0
    BY ONLY <1>1, <1>10
<1>12. \A i \in 1 .. Len(q) : k + 2 + i - 1 = k + 1 + i
    BY ONLY <1>1
<1>13. \A i \in 1 .. Len(q) : q[i] = y[k + 1 + i]
    BY ONLY <1>10, <1>12, Zenon
<1> QED
    BY ONLY <1>3, <1>4, <1>6, <1>9, <1>10, <1>11, <1>13, Zenon

\* A text is read as host h of family f and the text q of a port.
ReadAs(y, f, h, q) ==
    /\ f \in {"inet", "inet6"} /\ h \in Seq(Plain) /\ q \in Seq(Plain)
    /\ extractFamilyHostAndPort(y) = WithPort(f, h, q)

\* What is read is one of the readings.
LEMMA ReadsAReading ==
    ASSUME NEW y \in Seq(Plain)
    PROVE  \/ extractFamilyHostAndPort(y) = NoHost
           \/ \E f, h, q : ReadAs(y, f, h, q) /\ Reading(f, h, q) \in Readings(y)
<1>1. Len(y) \in Nat /\ DOMAIN y = 1 .. Len(y)
    OBVIOUS
<1>2. CASE Starts(y, "[") /\ Positions(y, "]") = {}
    BY <1>2 DEF extractFamilyHostAndPort
<1>3. CASE Starts(y, "[") /\ Positions(y, "]") # {}
  <2>1. Positions(y, "]") \subseteq 1 .. Len(y)
    BY <1>1 DEF Positions
  <2>2. \E x \in Positions(y, "]") : \A z \in Positions(y, "]") : x >= z
    BY <1>1, <1>3, <2>1, LastPlace
  <2>3. PICK end : end = LastOf(Positions(y, "]"))
    OBVIOUS
  <2>4. end \in Positions(y, "]")
    BY <2>2, <2>3 DEF LastOf
  <2>5. end \in 0 .. Len(y) /\ y[end] = "]"
    BY <1>1, <2>1, <2>4 DEF Positions
  <2>6. CASE Len(y) > end /\ y[end + 1] # ":"
    BY <1>3, <2>3, <2>6 DEF extractFamilyHostAndPort
  <2>7. CASE ~(Len(y) > end /\ y[end + 1] # ":")
    <3>1. extractFamilyHostAndPort(y) = WithPort("inet6", SubSeq(y, 2, end - 1), From(y, end + 2))
      BY <1>3, <2>3, <2>7 DEF extractFamilyHostAndPort
    <3>2. end \in Cuts(y)
      BY <2>5, <2>7 DEF Cuts
    <3>3. Reading("inet6", SubSeq(y, 2, end - 1), From(y, end + 2)) \in Readings(y)
      BY ONLY <1>3, <2>5, <3>2, y \in Seq(Plain), ReadingsFacts, Zenon
    <3>4. SubSeq(y, 2, end - 1) \in Seq(Plain) /\ From(y, end + 2) \in Seq(Plain)
      BY ONLY <2>5, y \in Seq(Plain), PlainParts, Zenon
    <3> QED
      BY ONLY <3>1, <3>3, <3>4, Zenon DEF ReadAs
  <2> QED
    BY <2>6, <2>7
<1>4. CASE ~Starts(y, "[") /\ ColonsAreInHost(y)
  <2>1. extractFamilyHostAndPort(y) = WithPort("inet6", y, << >>)
    BY <1>4 DEF extractFamilyHostAndPort
  <2>2. << >> \in Seq(Plain)
    OBVIOUS
  <2>3. Reading("inet6", y, << >>) \in Readings(y)
    BY ONLY y \in Seq(Plain), ReadingsFacts, Zenon
  <2> QED
    BY ONLY <2>1, <2>2, <2>3, y \in Seq(Plain), Zenon DEF ReadAs
<1>5. CASE ~Starts(y, "[") /\ ~ColonsAreInHost(y) /\ Positions(y, ":") # {}
  <2>1. Positions(y, ":") \subseteq Nat
    BY <1>1 DEF Positions
  <2>2. \E x \in Positions(y, ":") : \A z \in Positions(y, ":") : x <= z
    BY <1>5, <2>1, FirstPlace
  <2>3. PICK colon : colon = FirstOf(Positions(y, ":"))
    OBVIOUS
  <2>4. colon \in Positions(y, ":")
    BY <2>2, <2>3 DEF FirstOf
  <2>5. colon \in 1 .. Len(y) /\ y[colon] = ":"
    BY <1>1, <2>4 DEF Positions
  <2>6. PICK k : k = colon - 1
    OBVIOUS
  <2>7. k \in 0 .. Len(y) /\ k + 1 = colon /\ colon + 1 = k + 2 /\ colon - 1 = k
    BY <1>1, <2>5, <2>6
  <2>8. extractFamilyHostAndPort(y) = WithPort("inet", SubSeq(y, 1, k), From(y, k + 2))
    <3>1. extractFamilyHostAndPort(y) = WithPort("inet", SubSeq(y, 1, colon - 1), From(y, colon + 1))
      BY <1>5, <2>3 DEF extractFamilyHostAndPort
    <3> QED
      BY ONLY <2>7, <3>1, Zenon
  <2>9. k \in Cuts(y)
    BY <2>5, <2>7 DEF Cuts
  <2>10. Reading("inet", SubSeq(y, 1, k), From(y, k + 2)) \in Readings(y)
    BY ONLY <2>9, y \in Seq(Plain), ReadingsFacts, Zenon
  <2>11. SubSeq(y, 1, k) \in Seq(Plain) /\ From(y, k + 2) \in Seq(Plain)
    BY ONLY <2>7, y \in Seq(Plain), PlainParts, Zenon
  <2> QED
    BY ONLY <2>8, <2>10, <2>11, Zenon DEF ReadAs
<1>6. CASE ~Starts(y, "[") /\ ~ColonsAreInHost(y) /\ Positions(y, ":") = {}
  <2>1. extractFamilyHostAndPort(y) = WithPort("inet", y, << >>)
    BY <1>6 DEF extractFamilyHostAndPort
  <2>2. Len(y) \in Cuts(y)
    BY <1>1 DEF Cuts
  <2>3. SubSeq(y, 1, Len(y)) = y /\ From(y, Len(y) + 2) = << >>
    BY <1>1 DEF From
  <2>4. Reading("inet", SubSeq(y, 1, Len(y)), From(y, Len(y) + 2)) \in Readings(y)
    BY ONLY <2>2, y \in Seq(Plain), ReadingsFacts, Zenon
  <2>5. << >> \in Seq(Plain)
    OBVIOUS
  <2> QED
    BY ONLY <2>1, <2>3, <2>4, <2>5, y \in Seq(Plain), Zenon DEF ReadAs
<1> QED
    BY <1>2, <1>3, <1>4, <1>5, <1>6

-----------------------------------------------------------------------------
\* A set of two places at most.
LEMMA PairSize ==
    ASSUME NEW a, NEW b, NEW S, S \subseteq {a, b}
    PROVE  Cardinality(S) \in Nat /\ Cardinality(S) <= 2
<1>1. IsFiniteSet({a}) /\ Cardinality({a}) = 1
    BY FS_Singleton
<1>2. IsFiniteSet({a} \cup {b}) /\ Cardinality({a} \cup {b}) <= 2
  <2>1. CASE b \in {a}
    <3>1. {a} \cup {b} = {a}
      BY <2>1
    <3> QED
      BY <1>1, <3>1
  <2>2. CASE b \notin {a}
    BY <1>1, <2>2, FS_AddElement
  <2> QED
    BY <2>1, <2>2
<1>3. {a, b} = {a} \cup {b}
    OBVIOUS
<1>4. IsFiniteSet({a, b}) /\ Cardinality({a, b}) <= 2
    BY ONLY <1>2, <1>3, Zenon
<1>5. IsFiniteSet(S) /\ Cardinality(S) <= Cardinality({a, b})
    BY <1>4, FS_Subset
<1>6. Cardinality(S) \in Nat /\ Cardinality({a, b}) \in Nat
    BY <1>4, <1>5, FS_CardinalityType
<1> QED
    BY <1>4, <1>5, <1>6

\* The text of an IPv6 address has two colons, and no bracket.
LEMMA Ip6Facts ==
    ASSUME NEW t \in Seq(Plain), IsIp6(t)
    PROVE  ColonsAreInHost(t) /\ ~Starts(t, "[") /\ t # << "*" >>
<1>1. Len(t) \in Nat /\ DOMAIN t = 1 .. Len(t)
    OBVIOUS
<1>2. PICK colons : colons = Positions(t, ":")
    OBVIOUS
<1>3. PICK inner : inner = DOMAIN t \ colons
    OBVIOUS
<1>4. PICK gaps : gaps = { i \in colons : i + 1 \in colons }
    OBVIOUS
<1>5. PICK groups : groups = { i \in inner : i - 1 \notin inner }
    OBVIOUS
<1>6. /\ ToSet(t) \subseteq Digits \cup {":", "ip4"}
      /\ Positions(t, "ip4") \subseteq groups \cap {Len(t)}
      /\ gaps = {} => Cardinality(groups) + Cardinality(Positions(t, "ip4")) = 8
    BY ONLY <1>2, <1>3, <1>4, <1>5, IsIp6(t), Zenon DEF IsIp6
<1>7. colons \subseteq 1 .. Len(t)
    BY <1>1, <1>2 DEF Positions
<1>8. ColonsAreInHost(t)
  <2>1. SUFFICES ASSUME ~ColonsAreInHost(t) PROVE FALSE
    OBVIOUS
  <2>2. \A i, j \in colons : i = j
    BY <1>2, <2>1 DEF ColonsAreInHost
  <2>3. gaps = {}
    <3>1. \A i \in 1 .. Len(t) : i # i + 1
      BY <1>1
    <3> QED
      BY ONLY <1>4, <1>7, <2>2, <3>1, Zenon
  <2>4. PICK c : colons \subseteq {c}
    <3>1. CASE colons = {}
      BY <3>1
    <3>2. CASE colons # {}
      <4>1. PICK c \in colons : TRUE
        BY <3>2
      <4>2. colons \subseteq {c}
        BY <2>2, <4>1
      <4> QED
        BY <4>2
    <3> QED
      BY <3>1, <3>2
  <2>5. groups \subseteq {1, c + 1}
    <3>1. ASSUME NEW i \in groups, i # 1 PROVE i = c + 1
      <4>1. i \in 1 .. Len(t) /\ i - 1 \notin inner
        BY <1>1, <1>3, <1>5
      <4>2. i - 1 \in 1 .. Len(t)
        BY <1>1, <3>1, <4>1
      <4>3. i - 1 \in colons
        BY <1>1, <1>3, <4>1, <4>2
      <4>4. i - 1 = c
        BY <2>4, <4>3
      <4> QED
        BY <4>1, <4>4
    <3> QED
      BY <3>1
  <2>6. Cardinality(groups) \in Nat /\ Cardinality(groups) <= 2
    BY ONLY <2>5, PairSize, Zenon
  <2>7. Cardinality(Positions(t, "ip4")) \in Nat /\ Cardinality(Positions(t, "ip4")) <= 2
    <3>1. Positions(t, "ip4") \subseteq {Len(t), Len(t)}
      BY <1>6
    <3> QED
      BY ONLY <3>1, PairSize, Zenon
  <2>8. Cardinality(groups) + Cardinality(Positions(t, "ip4")) = 8
    BY ONLY <1>6, <2>3, Zenon
  <2> QED
    BY ONLY <2>6, <2>7, <2>8
<1>9. ~Starts(t, "[")
  <2>1. SUFFICES ASSUME Starts(t, "[") PROVE FALSE
    OBVIOUS
  <2>2. 1 \in DOMAIN t /\ t[1] = "["
    BY <2>1 DEF Starts
  <2>3. "[" \in ToSet(t)
    BY <2>2 DEF ToSet
  <2> QED
    BY <1>6, <2>3 DEF Digits
<1>10. t # << "*" >>
  <2>1. SUFFICES ASSUME t = << "*" >> PROVE FALSE
    OBVIOUS
  <2>2. 1 \in DOMAIN t /\ t[1] = "*"
    BY <2>1
  <2>3. "*" \in ToSet(t)
    BY <2>2 DEF ToSet
  <2> QED
    BY <1>6, <2>3 DEF Digits
<1> QED
    BY <1>8, <1>9, <1>10

\* The text of a port behind place k + 1, if it makes sense, has no colon and no bracket.
LEMMA PortText ==
    ASSUME NEW y \in Seq(Plain), NEW k \in Cuts(y),
           From(y, k + 2) = << >> \/ IsNumber(From(y, k + 2)),
           NEW i \in 1 .. Len(y), i > k
    PROVE  y[i] # "]" /\ (y[i] = ":" => i = k + 1)
<1>1. Len(y) \in Nat /\ k \in 0 .. Len(y) /\ (Len(y) > k => y[k + 1] = ":") /\ i \in Nat /\ k \in Nat
    BY DEF Cuts
<1>2. CASE i = k + 1
    BY <1>1, <1>2
<1>3. CASE i # k + 1
  <2>1. PICK q : q = From(y, k + 2)
    OBVIOUS
  <2>2. /\ q \in Seq(Plain) /\ Len(q) = (IF k + 2 <= Len(y) THEN Len(y) - k - 1 ELSE 0)
        /\ \A j \in 1 .. Len(q) : q[j] = y[k + 1 + j]
    BY ONLY <1>1, <2>1, y \in Seq(Plain), PlainParts, Zenon
  <2>3. k + 2 <= Len(y)
    BY <1>1, <1>3
  <2>4. i - k - 1 \in 1 .. Len(q) /\ k + 1 + (i - k - 1) = i
    BY <1>1, <1>3, <2>2, <2>3
  <2>5. q # << >>
    BY <2>2, <2>4
  <2>6. IsNumber(q)
    BY <2>1, <2>5
  <2>7. q[i - k - 1] # ":" /\ q[i - k - 1] # "]"
    BY ONLY <2>2, <2>4, <2>6, NumberFacts, Zenon
  <2> QED
    BY ONLY <2>2, <2>4, <2>7
<1> QED
    BY <1>2, <1>3

\* A bare host with a port that make sense are read as they are cut.
LEMMA BareIsRead ==
    ASSUME NEW y \in Seq(Plain), NEW k \in Cuts(y),
           Takes("inet", SubSeq(y, 1, k), From(y, k + 2))
    PROVE  ReadAs(y, "inet", SubSeq(y, 1, k), From(y, k + 2))
<1>1. Len(y) \in Nat /\ k \in 0 .. Len(y) /\ (Len(y) > k => y[k + 1] = ":") /\ DOMAIN y = 1 .. Len(y)
    BY DEF Cuts
<1>2. PICK h : h = SubSeq(y, 1, k)
    OBVIOUS
<1>3. PICK q : q = From(y, k + 2)
    OBVIOUS
<1>4. /\ h \in Seq(Plain) /\ q \in Seq(Plain) /\ Len(h) = k
      /\ Len(q) = IF k + 2 <= Len(y) THEN Len(y) - k - 1 ELSE 0
    BY ONLY <1>1, <1>2, <1>3, y \in Seq(Plain), PlainParts, Zenon
<1>5. /\ h = << "*" >> \/ inet_pton("inet", h)
      /\ q = << >> \/ (IsNumber(q) /\ ~(Number(q) > MaxPort))
  <2>1. MakesSense(Reading("inet", h, q))
    BY ONLY <1>2, <1>3, Takes("inet", SubSeq(y, 1, k), From(y, k + 2)), Zenon DEF Takes
  <2>2. PICK r : r = Reading("inet", h, q)
    OBVIOUS
  <2>3. r.family = "inet" /\ r.host = h /\ r.part = q
    BY ONLY <2>2 DEF Reading
  <2> QED
    BY ONLY <2>1, <2>2, <2>3, Zenon DEF MakesSense
<1>6. h = << "*" >> \/ h = << "ip4" >>
    BY <1>5 DEF inet_pton
<1>7. k = 1 /\ Len(h) = 1 /\ h[1] \in {"*", "ip4"}
    BY ONLY <1>4, <1>6
<1>8. y[1] = h[1] /\ Len(y) >= 1
  <2>1. 1 \in Nat /\ 1 > 0 /\ k \in Int /\ k <= Len(y)
    BY <1>1
  <2>2. \A i \in 1 .. Len(SubSeq(y, 1, k)) : SubSeq(y, 1, k)[i] = y[1 + i - 1]
    BY ONLY <2>1, y \in Seq(Plain), PartFacts, Zenon
  <2>3. 1 \in 1 .. Len(h)
    BY ONLY <1>7
  <2>4. h[1] = y[1 + 1 - 1]
    BY ONLY <1>2, <2>2, <2>3, Zenon
  <2> QED
    BY ONLY <1>1, <1>7, <2>4
<1>9. \A i \in 1 .. Len(y) : y[i] = ":" => i = 2
  <2>1. ASSUME NEW i \in 1 .. Len(y), y[i] = ":" PROVE i = 2
    <3>1. i # 1
      BY <1>7, <1>8, <2>1
    <3>2. i > k
      BY <1>1, <1>7, <3>1
    <3>3. q = << >> \/ IsNumber(q)
      BY ONLY <1>5
    <3>4. y[i] = ":" => i = k + 1
      BY ONLY <1>3, <3>2, <3>3, y \in Seq(Plain), k \in Cuts(y), i \in 1 .. Len(y), PortText, Zenon
    <3> QED
      BY <1>7, <2>1, <3>4
  <2> QED
    BY <2>1
<1>10. ~Starts(y, "[")
  <2>1. Starts(y, "[") => y[1] = "["
    BY <1>8 DEF Starts
  <2> QED
    BY <1>7, <1>8, <2>1
<1>11. ~ColonsAreInHost(y)
    BY <1>1, <1>9 DEF ColonsAreInHost, Positions
<1>12. CASE Len(y) = 1
  <2>1. Positions(y, ":") = {}
    <3>1. \A i \in 1 .. Len(y) : i # 2
      BY <1>12
    <3> QED
      BY ONLY <1>1, <1>9, <3>1, Zenon DEF Positions
  <2>2. extractFamilyHostAndPort(y) = WithPort("inet", y, << >>)
    BY ONLY <1>10, <1>11, <2>1, Zenon DEF extractFamilyHostAndPort
  <2>3. h = y
    <3>1. \A i \in 1 .. Len(y) : i = 1
      BY <1>12
    <3>2. \A i \in 1 .. Len(y) : h[i] = y[i]
      BY ONLY <1>8, <3>1, Zenon
    <3> QED
      BY <1>4, <1>7, <1>12, <3>2, SeqEqual
  <2>4. q = << >>
    <3>1. Len(q) = 0
      BY ONLY <1>4, <1>7, <1>12
    <3> QED
      BY <1>4, <3>1
  <2> QED
    BY ONLY <1>2, <1>3, <1>4, <2>2, <2>3, <2>4, Zenon DEF ReadAs
<1>13. CASE Len(y) # 1
  <2>1. 2 \in 1 .. Len(y) /\ y[2] = ":"
    <3>1. Len(y) > 1
      BY <1>1, <1>8, <1>13
    <3> QED
      BY <1>1, <1>7, <3>1
  <2>2. Positions(y, ":") = {2}
    BY <1>1, <1>9, <2>1 DEF Positions
  <2>3. FirstOf(Positions(y, ":")) = 2
    <3>1. FirstOf({2}) = 2
      BY DEF FirstOf
    <3> QED
      BY ONLY <2>2, <3>1, Zenon
  <2>4. Positions(y, ":") # {}
    BY <2>2
  <2>5. extractFamilyHostAndPort(y) = WithPort("inet", SubSeq(y, 1, 2 - 1), From(y, 2 + 1))
    BY ONLY <1>10, <1>11, <2>3, <2>4, Zenon DEF extractFamilyHostAndPort
  <2>6. 2 - 1 = k /\ 2 + 1 = k + 2
    BY ONLY <1>7
  <2>7. extractFamilyHostAndPort(y) = WithPort("inet", h, q)
    BY ONLY <1>2, <1>3, <2>5, <2>6, Zenon
  <2> QED
    BY ONLY <1>2, <1>3, <1>4, <2>7, Zenon DEF ReadAs
<1> QED
    BY <1>12, <1>13

\* So are a host in brackets and a port.
LEMMA BracketIsRead ==
    ASSUME NEW y \in Seq(Plain), NEW k \in Cuts(y), Starts(y, "["), y[k] = "]",
           Takes("inet6", SubSeq(y, 2, k - 1), From(y, k + 2))
    PROVE  ReadAs(y, "inet6", SubSeq(y, 2, k - 1), From(y, k + 2))
<1>1. Len(y) \in Nat /\ k \in 0 .. Len(y) /\ (Len(y) > k => y[k + 1] = ":") /\ DOMAIN y = 1 .. Len(y)
    BY DEF Cuts
<1>2. y[1] = "[" /\ Len(y) >= 1
    BY DEF Starts
<1>3. k # 0
  <2>1. k = 0 => y[1] = ":"
    BY <1>1, <1>2
  <2> QED
    BY <1>2, <2>1
<1>4. From(y, k + 2) = << >> \/ IsNumber(From(y, k + 2))
  <2>1. MakesSense(Reading("inet6", SubSeq(y, 2, k - 1), From(y, k + 2)))
    BY ONLY Takes("inet6", SubSeq(y, 2, k - 1), From(y, k + 2)), Zenon DEF Takes
  <2>2. PICK q : q = From(y, k + 2)
    OBVIOUS
  <2>3. PICK r : r = Reading("inet6", SubSeq(y, 2, k - 1), q)
    OBVIOUS
  <2>4. r.part = q
    BY ONLY <2>3 DEF Reading
  <2> QED
    BY ONLY <2>1, <2>2, <2>3, <2>4, Zenon DEF MakesSense
<1>5. k \in Positions(y, "]") /\ \A i \in Positions(y, "]") : i <= k
  <2>1. k \in Positions(y, "]")
    BY <1>1, <1>3 DEF Positions
  <2>2. ASSUME NEW i \in Positions(y, "]") PROVE i <= k
    <3>1. i \in 1 .. Len(y) /\ y[i] = "]"
      BY <1>1 DEF Positions
    <3>2. i > k => y[i] # "]"
      BY ONLY <1>4, <3>1, y \in Seq(Plain), k \in Cuts(y), PortText, Zenon
    <3> QED
      BY <1>1, <3>1, <3>2
  <2> QED
    BY <2>1, <2>2
<1>6. LastOf(Positions(y, "]")) = k
  <2>1. PICK end : end = LastOf(Positions(y, "]"))
    OBVIOUS
  <2>2. \A i \in Positions(y, "]") : k >= i
    BY <1>1, <1>5 DEF Positions
  <2>3. end \in Positions(y, "]") /\ \A i \in Positions(y, "]") : end >= i
    BY <1>5, <2>1, <2>2 DEF LastOf
  <2>4. end \in Nat /\ end <= k /\ end >= k
    BY <1>1, <1>5, <2>3 DEF Positions
  <2> QED
    BY <1>1, <2>1, <2>4
<1>7. Positions(y, "]") # {} /\ ~(Len(y) > k /\ y[k + 1] # ":")
    BY <1>1, <1>5
<1>8. extractFamilyHostAndPort(y) = WithPort("inet6", SubSeq(y, 2, k - 1), From(y, k + 2))
    BY ONLY <1>6, <1>7, Starts(y, "["), Zenon DEF extractFamilyHostAndPort
<1>9. SubSeq(y, 2, k - 1) \in Seq(Plain) /\ From(y, k + 2) \in Seq(Plain)
    BY ONLY <1>1, y \in Seq(Plain), PlainParts, Zenon
<1> QED
    BY ONLY <1>8, <1>9, Zenon DEF ReadAs

\* A reading that makes sense is the address that the string is parsed to.
LEMMA SenseIsRead ==
    ASSUME NEW s, Starts(s, "tcp://"), NEW y \in Seq(Plain), y = Tail(s),
           NEW r \in Readings(y), MakesSense(r)
    PROVE  parse(s) = AddressOf(r)
<1>1. \A f, h, q : ReadAs(y, f, h, q) /\ r = Reading(f, h, q) => parse(s) = AddressOf(r)
  <2>1. ASSUME NEW f, NEW h, NEW q, ReadAs(y, f, h, q), r = Reading(f, h, q) PROVE parse(s) = AddressOf(r)
    <3>1. f \in {"inet", "inet6"} /\ h \in Seq(Plain) /\ q \in Seq(Plain)
          /\ extractFamilyHostAndPort(y) = WithPort(f, h, q)
      BY ONLY <2>1, Zenon DEF ReadAs
    <3>2. parse(s) = Makes(f, h, q)
      BY <3>1, TcpFacts
    <3>3. Takes(f, h, q)
      BY ONLY <2>1, MakesSense(r), Zenon DEF Takes
    <3> QED
      BY ONLY <2>1, <3>2, <3>3, Zenon DEF Makes
  <2> QED
    BY <2>1
<1>2. CASE \E k \in Cuts(y) : r = Reading("inet", SubSeq(y, 1, k), From(y, k + 2))
  <2>1. PICK k \in Cuts(y) : r = Reading("inet", SubSeq(y, 1, k), From(y, k + 2))
    BY <1>2
  <2>2. Takes("inet", SubSeq(y, 1, k), From(y, k + 2))
    BY ONLY <2>1, MakesSense(r), Zenon DEF Takes
  <2>3. ReadAs(y, "inet", SubSeq(y, 1, k), From(y, k + 2))
    BY ONLY <2>1, <2>2, y \in Seq(Plain), BareIsRead, Zenon
  <2> QED
    BY ONLY <1>1, <2>1, <2>3, Zenon
<1>3. CASE \E k \in Cuts(y) : /\ Starts(y, "[") /\ y[k] = "]"
                              /\ r = Reading("inet6", SubSeq(y, 2, k - 1), From(y, k + 2))
  <2>1. PICK k \in Cuts(y) : /\ Starts(y, "[") /\ y[k] = "]"
                             /\ r = Reading("inet6", SubSeq(y, 2, k - 1), From(y, k + 2))
    BY <1>3
  <2>2. Takes("inet6", SubSeq(y, 2, k - 1), From(y, k + 2))
    BY ONLY <2>1, MakesSense(r), Zenon DEF Takes
  <2>3. ReadAs(y, "inet6", SubSeq(y, 2, k - 1), From(y, k + 2))
    BY ONLY <2>1, <2>2, y \in Seq(Plain), BracketIsRead, Zenon
  <2> QED
    BY ONLY <1>1, <2>1, <2>3, Zenon
<1>4. CASE r = Reading("inet6", y, << >>)
  <2>1. r.family = "inet6" /\ r.host = y /\ r.part = << >>
    BY ONLY <1>4 DEF Reading
  <2>2. y = << "*" >> \/ inet_pton("inet6", y)
    BY ONLY <2>1, MakesSense(r), Zenon DEF MakesSense
  <2>3. CASE y # << "*" >>
    <3>1. IsIp6(y)
      BY <2>2, <2>3 DEF inet_pton
    <3>2. ColonsAreInHost(y) /\ ~Starts(y, "[")
      BY ONLY <3>1, y \in Seq(Plain), Ip6Facts, Zenon
    <3>3. extractFamilyHostAndPort(y) = WithPort("inet6", y, << >>)
      BY ONLY <3>2, Zenon DEF extractFamilyHostAndPort
    <3>4. << >> \in Seq(Plain)
      OBVIOUS
    <3>5. ReadAs(y, "inet6", y, << >>)
      BY ONLY <3>3, <3>4, y \in Seq(Plain), Zenon DEF ReadAs
    <3> QED
      BY ONLY <1>1, <1>4, <3>5, Zenon
  <2>4. CASE y = << "*" >>
    <3>1. Len(y) = 1 /\ y[1] = "*"
      BY ONLY <2>4
    <3>2. 1 \in Cuts(y)
      BY ONLY <3>1 DEF Cuts
    <3>3. SubSeq(y, 1, 1) = y /\ From(y, 1 + 2) = << >>
      <4>1. \A z \in Seq(Plain) : Len(z) = 1 => SubSeq(z, 1, 1) = z /\ SubSeq(z, 1 + 2, Len(z)) = << >>
        OBVIOUS
      <4> QED
        BY ONLY <3>1, <4>1, y \in Seq(Plain), Zenon DEF From
    <3>4. PICK z : z = Reading("inet", y, << >>)
      OBVIOUS
    <3>5. z.family = "inet" /\ z.host = y /\ z.part = << >>
      BY ONLY <3>4 DEF Reading
    <3>6. MakesSense(z)
      BY ONLY <2>4, <3>5, Zenon DEF MakesSense
    <3>7. AddressOf(z) = AddressOf(r)
      BY ONLY <2>1, <2>4, <3>5, Zenon DEF AddressOf
    <3>8. Takes("inet", SubSeq(y, 1, 1), From(y, 1 + 2))
      BY ONLY <3>3, <3>4, <3>6, Zenon DEF Takes
    <3>9. ReadAs(y, "inet", SubSeq(y, 1, 1), From(y, 1 + 2))
      BY ONLY <3>2, <3>8, y \in Seq(Plain), BareIsRead, Zenon
    <3>10. /\ extractFamilyHostAndPort(y) = WithPort("inet", y, << >>) /\ << >> \in Seq(Plain)
           /\ "inet" \in {"inet", "inet6"}
      BY ONLY <3>3, <3>9, Zenon DEF ReadAs
    <3>11. parse(s) = Makes("inet", y, << >>)
      BY <3>10, TcpFacts
    <3>12. parse(s) = AddressOf(z)
      BY ONLY <3>4, <3>6, <3>11, Zenon DEF Makes, Takes
    <3> QED
      BY ONLY <3>7, <3>12, Zenon
  <2> QED
    BY <2>3, <2>4
<1> QED
    BY ONLY <1>2, <1>3, <1>4, r \in Readings(y), y \in Seq(Plain), ReadingsFacts, Zenon

\* The address of an accepted string is that of a reading that makes sense.
LEMMA AcceptedMakesSense ==
    ASSUME NEW s, Starts(s, "tcp://"), NEW y \in Seq(Plain), y = Tail(s), parse(s) # Invalid
    PROVE  \E r \in Readings(y) : MakesSense(r) /\ parse(s) = AddressOf(r)
<1>1. extractFamilyHostAndPort(y) # NoHost
    BY TcpFacts
<1>2. PICK f, h, q : ReadAs(y, f, h, q) /\ Reading(f, h, q) \in Readings(y)
    BY ONLY <1>1, y \in Seq(Plain), ReadsAReading, Zenon
<1>3. f \in {"inet", "inet6"} /\ h \in Seq(Plain) /\ q \in Seq(Plain)
      /\ extractFamilyHostAndPort(y) = WithPort(f, h, q)
    BY ONLY <1>2, Zenon DEF ReadAs
<1>4. parse(s) = Makes(f, h, q)
    BY <1>3, TcpFacts
<1> QED
    BY ONLY <1>2, <1>4, parse(s) # Invalid, Zenon DEF Makes, Takes

\* Readings are of the two families.
LEMMA ReadingFamily ==
    ASSUME NEW y \in Seq(Plain), NEW r \in Readings(y)
    PROVE  AddressOf(r) # Invalid
<1>1. PICK f \in {"inet", "inet6"} : \E h, q : r = Reading(f, h, q)
  <2>1. "inet" \in {"inet", "inet6"} /\ "inet6" \in {"inet", "inet6"}
    OBVIOUS
  <2>2. \/ \E k \in Cuts(y) : r = Reading("inet", SubSeq(y, 1, k), From(y, k + 2))
        \/ \E k \in Cuts(y) : /\ Starts(y, "[") /\ y[k] = "]"
                              /\ r = Reading("inet6", SubSeq(y, 2, k - 1), From(y, k + 2))
        \/ r = Reading("inet6", y, << >>)
    BY ONLY r \in Readings(y), y \in Seq(Plain), ReadingsFacts, Zenon
  <2>3. (\E h, q : r = Reading("inet", h, q)) \/ (\E h, q : r = Reading("inet6", h, q))
    BY ONLY <2>2, Zenon
  <2> QED
    BY ONLY <2>1, <2>3, Zenon
<1> QED
    BY ONLY <1>1, SenseIsValid, Zenon

\* A tcp string without null characters is read as the one way to cut it that makes sense.
TcpStringsAreCut ==
    Starts(conn_str, "tcp://") /\ "nul" \notin ToSet(conn_str) =>
        CutsAsWritten(Tail(conn_str), parse(conn_str))

(***************************************************************************)
(* parse accepts a tcp string without null characters, however long, just  *)
(* if it can be cut into a host that inet_pton takes (an IPv6 one bare or  *)
(* in brackets), or "*", and nothing, a colon, or a colon and a number as  *)
(* strtoull reads it, up to 65535; all cuts that make sense agree, and     *)
(* extractFamilyHostAndPort finds that host and that port.                 *)
(***************************************************************************)
THEOREM TcpStringsAreCutAsWritten == AddressSpec => []TcpStringsAreCut
<1>1. ASSUME StringInv PROVE TcpStringsAreCut
  <2>1. SUFFICES ASSUME Starts(conn_str, "tcp://"), "nul" \notin ToSet(conn_str)
                 PROVE  CutsAsWritten(Tail(conn_str), parse(conn_str))
    BY DEF TcpStringsAreCut
  <2>2. conn_str \in Seq(Tokens) /\ conn_str # << >>
    BY <1>1, <2>1 DEF StringInv, Starts
  <2>3. PICK y : y = Tail(conn_str)
    OBVIOUS
  <2>4. /\ y \in Seq(Tokens) /\ Len(y) \in Nat /\ Len(y) = Len(conn_str) - 1
        /\ \A i \in 1 .. Len(y) : y[i] = conn_str[i + 1]
    BY <2>2, <2>3
  <2>5. y \in Seq(Plain)
    <3>1. \A i \in 1 .. Len(y) : i + 1 \in DOMAIN conn_str
      BY <2>2, <2>4
    <3>2. \A i \in 1 .. Len(y) : y[i] # "nul"
      BY <2>1, <2>4, <3>1 DEF ToSet
    <3>3. \A i \in 1 .. Len(y) : y[i] \in Plain
      BY <2>4, <3>2 DEF Plain
    <3> QED
      BY <2>4, <3>3
  <2>6. PICK a : a = parse(conn_str)
    OBVIOUS
  <2>7. PICK meant : meant = { AddressOf(r) : r \in { q \in Readings(y) : MakesSense(q) } }
    OBVIOUS
  <2>8. \A r \in Readings(y) : MakesSense(r) => a = AddressOf(r) /\ a # Invalid
    BY ONLY <2>1, <2>3, <2>5, <2>6, SenseIsRead, ReadingFamily, Zenon
  <2>9. a # Invalid => \E r \in Readings(y) : MakesSense(r) /\ a = AddressOf(r)
    BY ONLY <2>1, <2>3, <2>5, <2>6, AcceptedMakesSense, Zenon
  <2>10. {a} = IF meant = {} THEN {Invalid} ELSE meant
    <3>1. CASE a = Invalid
      <4>1. meant = {}
        BY ONLY <2>7, <2>8, <3>1, Zenon
      <4> QED
        BY <3>1, <4>1
    <3>2. CASE a # Invalid
      <4>1. PICK r \in Readings(y) : MakesSense(r) /\ a = AddressOf(r)
        BY ONLY <2>9, <3>2, Zenon
      <4>2. a \in meant
        BY ONLY <2>7, <4>1, Zenon
      <4>3. \A b \in meant : b = a
        BY ONLY <2>7, <2>8, Zenon
      <4>4. meant = {a} /\ meant # {}
        BY ONLY <4>2, <4>3
      <4> QED
        BY ONLY <4>4
    <3> QED
      BY <3>1, <3>2
  <2> QED
    BY ONLY <2>3, <2>6, <2>7, <2>10, Zenon DEF CutsAsWritten
<1> QED
    BY <1>1, StringsHold, PTL
=============================================================================
