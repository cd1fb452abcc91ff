------------------------- MODULE NodeRequestsProofs -------------------------
(***************************************************************************)
(* Proofs that a request to a set of nodes reports on all of them, for     *)
(* every set of nodes, every span of node ids and every number of          *)
(* registers, however the span is split, wherever answers are delayed and  *)
(* whichever calls fail.                                                   *)
(***************************************************************************)
EXTENDS NodeRequests, FiniteSetTheorems, SequenceTheorems, TLAPS

\* The messages of either direction, and what the client makes of them.
Up ==
    [ kind : {"scope"}, ids : SUBSET Nodes ] \cup [ kind : {"register"} ]
    \cup [ kind : {"end"}, keep_alive : BOOLEAN, error : {"none"} ]

Answers == [ kind : {"answer"}, node : Nodes, reg : 0 .. NoKey, ok : BOOLEAN ]

Down == Answers \cup [ kind : {"end"}, keep_alive : {FALSE}, error : {"none"} ]

Items == [ reg : 0 .. MaxRegs, ok : BOOLEAN ]

Entries == {NoEntry, FailedEntry} \cup [ is : {"answered"}, items : Seq(Items) \ {<< >>} ]

Reports ==
    [ ok : BOOLEAN, map : [ Nodes -> Entries ] \cup {<< >>},
      error : {"none", "Other", "InvalidArgument", "Disconnected"} ]

RequestTypes ==
    /\ service \in Services
    /\ node_ids \in Seq(Nodes)
    /\ asked_regs \in 0 .. MaxRegs /\ (service # "access" => asked_regs = 0)
    /\ node_regs \in [ Nodes -> 0 .. MaxRegs ]

StateTypes ==
    /\ sender \in {"made", "submitted", "dropped"} /\ copen \in BOOLEAN
    /\ collected \in [ Nodes -> Entries ] /\ results \in Seq(Reports)
    /\ cup \in BOOLEAN /\ sup \in BOOLEAN
    /\ c2s \in Seq(Up) /\ s2c \in Seq(Down)
    /\ fsm \in {"none", "collecting", "processing", "released"}
    /\ cnxt \subseteq Nodes /\ todo \in Seq(Nodes)
    /\ reg_index \in [ Nodes -> 0 .. MaxRegs ] /\ registers \in 0 .. asked_regs
    /\ failed \subseteq Nodes /\ write_lost \in BOOLEAN

-----------------------------------------------------------------------------
\* How many of the client's messages the Fsm has read, and what it has from them.
Messages == Len(Chunks(node_ids)) + asked_regs

ScopeOf(p) == UNION { Chunks(node_ids)[i] : i \in { j \in DOMAIN Chunks(node_ids) : j <= p } }

RegistersOf(p) == IF p <= Len(Chunks(node_ids)) THEN 0 ELSE p - Len(Chunks(node_ids))

(***************************************************************************)
(* Of what the client writes when it is connected, the Fsm has read p      *)
(* messages; the next q are under way, and what is behind them can only    *)
(* be the end that drops the channel.                                      *)
(***************************************************************************)
UnderWay(p, q) ==
    /\ p + q <= Messages + 1 /\ q <= Len(c2s)
    /\ \A j \in 1 .. q : c2s[j] = ConnectedWrites[p + j]
    /\ \A j \in q + 1 .. Len(c2s) : c2s[j] = End(FALSE, "none")
    /\ q > 0 => Messages > 0 /\ fsm \in {"none", "collecting"}
    /\ fsm = "none" => p = 0
    /\ fsm \in {"none", "collecting"} =>
        p <= Messages /\ cnxt = ScopeOf(p) /\ registers = RegistersOf(p)
    /\ sender = "made" => p = 0 /\ q = 0 /\ c2s = << >> /\ fsm = "none"

Requesting == \E p, q \in 0 .. Messages + 1 : UnderWay(p, q)

-----------------------------------------------------------------------------
\* How far the answers of a node may go.
Limit(n) ==
    CASE service = "exec" -> 0 [] service = "list" -> node_regs[n] [] service = "access" -> asked_regs

\* Every context is left in the loop or has a promise, and not both.
Contexts ==
    /\ pending \cup ToSet(todo) = (IF fsm = "processing" THEN cnxt ELSE {})
    /\ pending \cap ToSet(todo) = {} /\ IsInjective(todo)
    /\ fsm = "processing" => cnxt # {} /\ cnxt \subseteq Requested /\ registers = asked_regs
    /\ fsm = "processing" /\ service = "access" => registers > 0
    /\ fsm = "released" => cnxt = {}
    /\ \A n \in Nodes : reg_index[n] <= Limit(n)
    /\ \A n \in ToSet(todo) : reg_index[n] = 0
    /\ \A n \in pending : service = "access" => reg_index[n] < registers

Ended == \E j \in DOMAIN s2c : s2c[j].kind = "end"

\* The end comes last, and from a Fsm that is gone; nothing comes before the work starts.
Replies ==
    /\ \A j \in DOMAIN s2c : s2c[j].kind = "end" => j = Len(s2c)
    /\ Ended => fsm = "released"
    /\ fsm \in {"none", "collecting"} =>
        /\ s2c = << >> /\ collected = [ n \in Nodes |-> NoEntry ]
        /\ reg_index = [ n \in Nodes |-> 0 ] /\ failed = {}
    /\ \A j \in DOMAIN s2c : s2c[j].kind = "answer" =>
        /\ s2c[j].ok => s2c[j].reg <= MaxRegs
        /\ service = "exec" /\ s2c[j].ok => s2c[j].reg = 0
    /\ results # << >> => sender # "made"

-----------------------------------------------------------------------------
\* Answers that tell of a register (or the outcome of a command), not of the node's failure.
IsItem(m) == m.ok \/ (service = "access" /\ m.reg # NoKey)

\* The answers about a node that the client has not read yet.
Unread(n) == { j \in DOMAIN s2c : s2c[j].kind = "answer" /\ s2c[j].node = n }

UnreadItems(n) == { j \in Unread(n) : IsItem(s2c[j]) }

\* Nothing more will come from the daemon about this node.
Done(n) == n \in Requested /\ (Ended \/ n \notin cnxt)

\* What the client has of a node is a report of its registers, from the first one on.
FromTheFirst(e) == \A k \in DOMAIN e.items : e.items[k].reg = k - 1

\* Unread answers about a node are in the order of its registers, its failure behind them.
InOrder(n) ==
    /\ \A i, j \in Unread(n) : i < j =>
        IsItem(s2c[i]) /\ (IsItem(s2c[j]) => s2c[i].reg < s2c[j].reg)
    /\ collected[n] = FailedEntry => Unread(n) = {}

(***************************************************************************)
(* Node n has answered for its first a registers: the client has read the  *)
(* first of these answers and the others are under way.                    *)
(***************************************************************************)
Accounted(n, a) ==
    /\ Len(collected[n].items) <= a
    /\ { s2c[j].reg : j \in UnreadItems(n) } = Len(collected[n].items) .. a - 1
    /\ Done(n) => a = Expected(n) \/ n \in failed
    /\ n \in failed /\ a = 0 => Done(n) /\ (collected[n] = FailedEntry \/ Unread(n) # {})
    /\ n \notin failed => collected[n] # FailedEntry /\ Unread(n) = UnreadItems(n)
    /\ ~Done(n) => a = reg_index[n] /\ collected[n] # FailedEntry /\ Unread(n) = UnreadItems(n)

Booked(n) ==
    /\ FromTheFirst(collected[n]) /\ InOrder(n)
    /\ \E a \in Nat : Accounted(n, a)
    /\ n \notin Requested => collected[n] = NoEntry /\ Unread(n) = {}

Working == fsm = "processing" \/ Ended

\* As long as the client can get a result and no write has failed.
Books == copen /\ cup /\ ~write_lost /\ Working => \A n \in Nodes : Booked(n)

\* What a success reports, apart from the nodes with failed calls.
Whole(map) ==
    \A n \in Nodes :
        /\ n \notin Requested => map[n] = NoEntry
        /\ map[n] = NoEntry => n \notin Requested \/ Expected(n) = 0
        /\ n \in Requested \ failed =>
            /\ Len(map[n].items) = Expected(n) /\ map[n] # FailedEntry
            /\ Expected(n) = 0 => map[n] = NoEntry
        /\ FromTheFirst(map[n])

WholeReports ==
    \A i \in DOMAIN results : results[i].ok /\ ~write_lost => Whole(results[i].map)

RequestInv ==
    RequestTypes /\ StateTypes /\ Requesting /\ Contexts /\ Replies /\ Books /\ WholeReports

\* The kinds of service.
LEMMA Constants ==
    /\ MaxRegs \in Nat /\ NoKey \in Nat /\ NoKey = MaxRegs + 1 /\ ChunkSize \in Nat /\ ChunkSize > 0
    /\ Services \subseteq {"exec", "list", "access"} /\ SendMayFail \in BOOLEAN
BY NodeAssumption DEF NoKey

-----------------------------------------------------------------------------
(***************************************************************************)
(* What the client writes.                                                 *)
(***************************************************************************)

\* Rounding up: every place of a span of l is in one of the pieces of c places.
LEMMA Pieces ==
    ASSUME NEW l \in Nat, NEW c \in Nat, c > 0
    PROVE  /\ (l + c - 1) \div c \in Nat
           /\ \A k \in 1 .. l : \E i \in 1 .. (l + c - 1) \div c :
                (i - 1) * c + 1 <= k /\ k <= i * c
<1> DEFINE top == (l + c - 1) \div c
<1>1. /\ top \in Int /\ c * top <= l + c - 1 /\ l + c - 1 < c * top + c
    OBVIOUS
<1>2. top \in Nat
  <2>1. \A t \in Int : t < 0 => c * t + c <= 0
    OBVIOUS
  <2> HIDE DEF top
  <2> QED
    BY <1>1, <2>1
<1>3. ASSUME NEW k \in 1 .. l PROVE \E i \in 1 .. top : (i - 1) * c + 1 <= k /\ k <= i * c
  <2> DEFINE j == (k - 1) \div c
  <2>1. /\ j \in Int /\ c * j <= k - 1 /\ k - 1 < c * j + c
    OBVIOUS
  <2>2. j >= 0
    <3>1. \A t \in Int : t < 0 => c * t + c <= 0
      OBVIOUS
    <3> HIDE DEF j
    <3> QED
      BY <2>1, <3>1
  <2>3. j + 1 <= top
    <3>1. \A t, u \in Int : t <= u => c * t <= c * u
      OBVIOUS
    <3>2. c * j + c <= l + c - 1
      <4> HIDE DEF j
      <4> QED
        BY <2>1
    <3>3. ASSUME j >= top PROVE FALSE
      <4>1. c * top <= c * j
        <5> HIDE DEF j, top
        <5> QED
          BY <1>1, <2>1, <3>1, <3>3
      <4> HIDE DEF j, top
      <4> QED
        BY <1>1, <2>1, <3>2, <4>1
    <3> HIDE DEF j, top
    <3> QED
      BY <1>1, <2>1, <3>3
  <2>4. ((j + 1) - 1) * c + 1 <= k /\ k <= (j + 1) * c
    <3> HIDE DEF j
    <3> QED
      BY <2>1
  <2>5. j + 1 \in 1 .. top
    <3> HIDE DEF j, top
    <3> QED
      BY <1>1, <2>1, <2>2, <2>3
  <2> HIDE DEF j, top
  <2> QED
    BY <2>4, <2>5
<1> QED
    BY <1>2, <1>3

\* The span is split without losing or inventing a node.
LEMMA ChunkFacts ==
    ASSUME NEW S, NEW ids \in Seq(S)
    PROVE  /\ Chunks(ids) \in Seq(SUBSET S)
           /\ Len(Chunks(ids)) \in Nat /\ DOMAIN Chunks(ids) = 1 .. Len(Chunks(ids))
           /\ UNION { Chunks(ids)[i] : i \in DOMAIN Chunks(ids) } = ToSet(ids)
<1> DEFINE top == (Len(ids) + ChunkSize - 1) \div ChunkSize
           first(i) == (i - 1) * ChunkSize + 1
           last(i) == IF i * ChunkSize < Len(ids) THEN i * ChunkSize ELSE Len(ids)
           piece(i) == SubSeq(ids, first(i), last(i))
           chunks == [ i \in 1 .. top |-> ToSet(piece(i)) ]
<1>1. Len(ids) \in Nat /\ DOMAIN ids = 1 .. Len(ids) /\ \A k \in 1 .. Len(ids) : ids[k] \in S
    OBVIOUS
<1>2. /\ top \in Nat
      /\ \A k \in 1 .. Len(ids) : \E i \in 1 .. top : first(i) <= k /\ k <= i * ChunkSize
    BY <1>1, Constants, Pieces
<1>3. ASSUME NEW i \in 1 .. top
      PROVE  /\ first(i) \in Nat /\ first(i) >= 1 /\ last(i) \in Nat /\ last(i) <= Len(ids)
             /\ ToSet(piece(i)) = { ids[k] : k \in first(i) .. last(i) }
  <2>1. \A j \in Nat, c \in Nat : j * c \in Nat
    OBVIOUS
  <2>2. i - 1 \in Nat /\ i \in Nat
    BY <1>2
  <2>3. first(i) \in Nat /\ first(i) >= 1 /\ last(i) \in Nat /\ last(i) <= Len(ids)
    BY <1>1, <2>1, <2>2, Constants
  <2> HIDE DEF first, last
  <2>4. ASSUME NEW f \in Nat, f >= 1, NEW t \in Nat, t <= Len(ids)
        PROVE  ToSet(SubSeq(ids, f, t)) = { ids[k] : k \in f .. t }
    <3>1. /\ DOMAIN SubSeq(ids, f, t) = 1 .. (t - f + 1)
          /\ \A j \in 1 .. (t - f + 1) : SubSeq(ids, f, t)[j] = ids[f + j - 1]
      BY <1>1, <2>4
    <3>2. ASSUME NEW j \in 1 .. (t - f + 1) PROVE f + j - 1 \in f .. t
      OBVIOUS
    <3>3. ASSUME NEW k \in f .. t PROVE k - f + 1 \in 1 .. (t - f + 1) /\ f + (k - f + 1) - 1 = k
      OBVIOUS
    <3> DEFINE cut == SubSeq(ids, f, t)
    <3> HIDE DEF cut
    <3>4. ASSUME NEW j \in DOMAIN cut PROVE \E k \in f .. t : cut[j] = ids[k]
      BY <3>1, <3>2 DEF cut
    <3>5. ASSUME NEW k \in f .. t PROVE \E j \in DOMAIN cut : cut[j] = ids[k]
      <4>1. PICK j \in 1 .. (t - f + 1) : f + j - 1 = k
        BY <3>3
      <4> QED
        BY <3>1, <4>1 DEF cut
    <3>6. ToSet(cut) = { ids[k] : k \in f .. t }
      BY <3>4, <3>5 DEF ToSet
    <3> QED
      BY <3>6 DEF cut
  <2> QED
    BY <2>3, <2>4
<1>4. ASSUME NEW i \in 1 .. top PROVE ToSet(piece(i)) \in SUBSET S
  <2> HIDE DEF first, last
  <2> QED
    BY <1>1, <1>3
<1>5. chunks \in Seq(SUBSET S) /\ Len(chunks) = top /\ DOMAIN chunks = 1 .. top
  <2> HIDE DEF piece, top
  <2>1. chunks \in [ 1 .. top -> SUBSET S ]
    BY <1>4
  <2> QED
    BY <1>2, <2>1
<1>6. ASSUME NEW x \in ToSet(ids) PROVE \E i \in 1 .. top : x \in chunks[i]
  <2>1. PICK k \in 1 .. Len(ids) : x = ids[k]
    BY <1>1 DEF ToSet
  <2>2. PICK i \in 1 .. top : first(i) <= k /\ k <= i * ChunkSize
    BY <1>2
  <2>3. k \in first(i) .. last(i)
    BY <1>1, <1>3, <2>2
  <2> HIDE DEF first, last, piece
  <2> QED
    BY <1>3, <2>1, <2>3
<1>7. ASSUME NEW i \in 1 .. top, NEW x \in chunks[i] PROVE x \in ToSet(ids)
  <2> HIDE DEF first, last
  <2>1. PICK k \in first(i) .. last(i) : x = ids[k]
    BY <1>3, <1>7
  <2>2. k \in 1 .. Len(ids)
    BY <1>1, <1>3
  <2> QED
    BY <1>1, <2>1, <2>2 DEF ToSet
<1>8. Chunks(ids) = chunks
    BY DEF Chunks
<1> HIDE DEF chunks, top
<1> QED
    BY <1>2, <1>5, <1>6, <1>7, <1>8

\* What the client writes, message by message.
LEMMA WritesFacts ==
    ASSUME RequestTypes
    PROVE  /\ Len(Chunks(node_ids)) \in Nat /\ Messages \in Nat /\ asked_regs \in Nat
           /\ ConnectedWrites \in Seq(Up) /\ Len(ConnectedWrites) = Messages + 1
           /\ \A j \in 1 .. Len(Chunks(node_ids)) : ConnectedWrites[j] = Scope(Chunks(node_ids)[j])
           /\ \A j \in Len(Chunks(node_ids)) + 1 .. Messages : ConnectedWrites[j] = Register
           /\ ConnectedWrites[Messages + 1] = End(TRUE, "none")
           /\ (buildRequests = << >>) <=> (Messages = 0)
<1> DEFINE chunks == Chunks(node_ids)
           scopes == [ i \in 1 .. Len(chunks) |-> Scope(chunks[i]) ]
           regs == [ i \in 1 .. asked_regs |-> Register ]
<1>1. chunks \in Seq(SUBSET Nodes) /\ Len(chunks) \in Nat /\ asked_regs \in Nat
    BY ChunkFacts, Constants DEF RequestTypes
<1> HIDE DEF chunks
<1>2. scopes \in Seq(Up) /\ Len(scopes) = Len(chunks) /\ DOMAIN scopes = 1 .. Len(chunks)
  <2>1. \A i \in 1 .. Len(chunks) : Scope(chunks[i]) \in Up
    BY <1>1 DEF Scope, Up
  <2> QED
    BY <1>1, <2>1
<1>3. regs \in Seq(Up) /\ Len(regs) = asked_regs
  <2>1. Register \in Up
    BY DEF Register, Up
  <2> QED
    BY <1>1, <2>1
<1>4. End(TRUE, "none") \in Up
    BY DEF End, Up
<1>5. buildRequests = scopes \o regs
    BY DEF buildRequests, chunks, Chunks
<1>6. /\ buildRequests \in Seq(Up) /\ Len(buildRequests) = Messages
      /\ \A j \in 1 .. Len(chunks) : buildRequests[j] = Scope(chunks[j])
      /\ \A j \in Len(chunks) + 1 .. Messages : buildRequests[j] = Register
  <2>1. Messages = Len(chunks) + asked_regs
    BY DEF Messages, chunks
  <2>2. /\ \A j \in 1 .. Len(chunks) : scopes[j] = Scope(chunks[j])
        /\ \A j \in 1 .. asked_regs : regs[j] = Register
    OBVIOUS
  <2> HIDE DEF scopes, regs
  <2> QED
    BY <1>1, <1>2, <1>3, <1>5, <2>1, <2>2
<1>7. Messages \in Nat
    BY <1>1 DEF Messages, chunks
<1>8. (buildRequests = << >>) <=> (Messages = 0)
    BY <1>6, <1>7
<1>9. ASSUME NEW b \in Seq(Up), NEW e \in Up
      PROVE  /\ Append(b, e) \in Seq(Up) /\ Len(Append(b, e)) = Len(b) + 1
             /\ Append(b, e)[Len(b) + 1] = e /\ \A j \in 1 .. Len(b) : Append(b, e)[j] = b[j]
    OBVIOUS
<1> HIDE DEF scopes, regs
<1>10. /\ ConnectedWrites \in Seq(Up) /\ Len(ConnectedWrites) = Messages + 1
       /\ ConnectedWrites[Messages + 1] = End(TRUE, "none")
       /\ \A j \in 1 .. Messages : ConnectedWrites[j] = buildRequests[j]
    BY <1>4, <1>6, <1>9 DEF ConnectedWrites
<1>11. /\ \A j \in 1 .. Len(chunks) : j \in 1 .. Messages
       /\ \A j \in Len(chunks) + 1 .. Messages : j \in 1 .. Messages
    BY <1>1 DEF Messages, chunks
<1> QED
    BY <1>1, <1>6, <1>7, <1>8, <1>10, <1>11 DEF chunks

IsKept(out, answers, kept) ==
    /\ \A k \in DOMAIN out : \E i \in DOMAIN answers : out[k] = answers[i]
    /\ kept = [ k \in 1 .. Len(answers) |-> k ] => out = answers

\* The answers that are kept are some of the answers; without a loss they are all of them.
LEMMA KeptFacts ==
    ASSUME NEW S, NEW answers \in Seq(S), NEW kept \in Kept(answers), NEW out,
           out = [ k \in DOMAIN kept |-> answers[kept[k]] ]
    PROVE  out \in Seq(S) /\ IsKept(out, answers, kept)
<1>1. PICK l \in 0 .. Len(answers) : kept \in [ 1 .. l -> 1 .. Len(answers) ]
    BY DEF Kept
<1>2. l \in Nat /\ DOMAIN answers = 1 .. Len(answers) /\ DOMAIN kept = 1 .. l
    BY <1>1
<1>3. \A k \in 1 .. l : kept[k] \in DOMAIN answers /\ answers[kept[k]] \in S
    BY <1>1, <1>2
<1>4. kept = [ k \in 1 .. Len(answers) |-> k ] =>
        [ k \in DOMAIN kept |-> answers[kept[k]] ] = answers
    BY <1>2
<1>5. out \in [ 1 .. l -> S ] /\ \A k \in 1 .. l : out[k] = answers[kept[k]]
    BY <1>2, <1>3
<1>6. out \in Seq(S) /\ DOMAIN out = 1 .. l
    BY <1>2, <1>5
<1> QED
    BY <1>2, <1>3, <1>4, <1>5, <1>6 DEF IsKept

-----------------------------------------------------------------------------
(***************************************************************************)
(* What a piece of work on a node comes to: answers for the registers from *)
(* i on, one after the other, and maybe the failure of the node. Either    *)
(* the work goes on from the next register, or the node has answered for   *)
(* all of them, or a call has failed and an answer says so.                *)
(***************************************************************************)
Tells(n, i, k, m) ==
    /\ m \in Answers /\ m.node = n
    /\ m.ok => m.reg <= MaxRegs
    /\ service = "exec" /\ m.ok => m.reg = 0
    /\ IsItem(m) => m.reg = i + k - 1

Good(n, i, o) ==
    /\ o.answers \in Seq(Answers) /\ o.last \in BOOLEAN /\ o.fails \in BOOLEAN
    /\ o.index \in Nat /\ o.index <= Limit(n)
    /\ \A k \in DOMAIN o.answers :
        /\ Tells(n, i, k, o.answers[k])
        /\ ~IsItem(o.answers[k]) => k = Len(o.answers) /\ o.last /\ o.fails
    /\ ~o.last => o.index = i + Len(o.answers) /\ (service = "access" => o.index < registers)
    /\ o.last /\ ~o.fails => i + Len(o.answers) = Expected(n)
    /\ o.fails => o.answers # << >>

\* Sequences of one element, with one more in front, and given by their elements.
LEMMA OneFacts ==
    ASSUME NEW S, NEW m \in S
    PROVE  /\ << m >> \in Seq(S) /\ Len(<< m >>) = 1 /\ << m >>[1] = m
           /\ \A k \in DOMAIN << m >> : k = 1
OBVIOUS

IsAppended(a, s, x) ==
    /\ Len(s) \in Nat /\ Len(a) = Len(s) + 1
    /\ a[Len(s) + 1] = x /\ \A j \in 1 .. Len(s) : a[j] = s[j]
    /\ DOMAIN s = 1 .. Len(s) /\ DOMAIN a = 1 .. Len(s) + 1

LEMMA AppendFacts ==
    ASSUME NEW S, NEW s \in Seq(S), NEW x \in S
    PROVE  Append(s, x) \in Seq(S) /\ IsAppended(Append(s, x), s, x)
BY DEF IsAppended

LEMMA PrefixFacts ==
    ASSUME NEW S, NEW s \in Seq(S), NEW k \in 0 .. Len(s)
    PROVE  /\ SubSeq(s, 1, k) \in Seq(S) /\ Len(SubSeq(s, 1, k)) = k
           /\ \A j \in 1 .. k : SubSeq(s, 1, k)[j] = s[j] /\ j \in 1 .. Len(s)
           /\ << >> \o SubSeq(s, 1, k) = SubSeq(s, 1, k)
<1>1. /\ SubSeq(s, 1, k) \in Seq(S) /\ Len(SubSeq(s, 1, k)) = k
      /\ \A j \in 1 .. k : SubSeq(s, 1, k)[j] = s[j] /\ j \in 1 .. Len(s)
    OBVIOUS
<1> QED
    BY <1>1, ConcatEmptySeq

IsInFront(a, m, s) ==
    /\ Len(s) \in Nat /\ Len(a) = Len(s) + 1 /\ a # << >> /\ a[1] = m
    /\ \A k \in DOMAIN a : k # 1 =>
        \E j \in DOMAIN s : k = j + 1 /\ a[k] = s[j] /\ j \in Nat /\ (j = Len(s) => k = Len(a))

LEMMA InFrontFacts ==
    ASSUME NEW S, NEW m \in S, NEW s \in Seq(S)
    PROVE  << m >> \o s \in Seq(S) /\ IsInFront(<< m >> \o s, m, s)
<1> DEFINE a == << m >> \o s
<1>1. /\ a \in Seq(S) /\ Len(s) \in Nat /\ Len(a) = Len(s) + 1 /\ a[1] = m
      /\ DOMAIN a = 1 .. Len(s) + 1 /\ DOMAIN s = 1 .. Len(s)
      /\ \A k \in 1 .. Len(s) : a[k + 1] = s[k]
    OBVIOUS
<1> HIDE DEF a
<1>2. \A l \in Nat : \A k \in 1 .. l + 1 : k # 1 => k - 1 \in 1 .. l /\ k = (k - 1) + 1
    OBVIOUS
<1>3. ASSUME NEW k \in DOMAIN a, k # 1
      PROVE  \E j \in DOMAIN s : k = j + 1 /\ a[k] = s[j] /\ j \in Nat /\ (j = Len(s) => k = Len(a))
  <2>1. PICK j \in 1 .. Len(s) : k = j + 1
    BY ONLY <1>1, <1>2, <1>3
  <2>2. j \in Nat
    BY ONLY <1>1, j \in 1 .. Len(s)
  <2>3. j \in DOMAIN s /\ a[k] = s[j] /\ (j = Len(s) => k = Len(a))
    BY ONLY <1>1, <2>1, Zenon
  <2> QED
    BY ONLY <2>1, <2>2, <2>3, Zenon
<1>4. a # << >>
    BY <1>1
<1>5. a \in Seq(S) /\ IsInFront(a, m, s)
    BY <1>1, <1>3, <1>4 DEF IsInFront
<1> QED
    BY <1>5 DEF a

LEMMA MadeFacts ==
    ASSUME NEW S, NEW f \in Nat, NEW a \in [ 1 .. f -> S ]
    PROVE  a \in Seq(S) /\ Len(a) = f /\ DOMAIN a = 1 .. f /\ (f > 0 => a # << >>)
<1>1. a \in Seq(S) /\ Len(a) = f /\ DOMAIN a = 1 .. f
    OBVIOUS
<1> QED
    BY <1>1

\* Limits are numbers of registers.
LEMMA LimitFacts ==
    ASSUME RequestTypes, NEW n \in Nodes
    PROVE  /\ Limit(n) \in Nat /\ Limit(n) <= MaxRegs
           /\ service = "exec" => Limit(n) = 0 /\ Expected(n) = 1
           /\ service = "list" => Limit(n) = node_regs[n] /\ Expected(n) = node_regs[n]
           /\ service = "access" => Limit(n) = asked_regs /\ Expected(n) = asked_regs
           /\ service \in {"exec", "list", "access"} /\ Expected(n) \in Nat
<1>1. service \in {"exec", "list", "access"}
    BY Constants DEF RequestTypes
<1>2. asked_regs \in Nat /\ asked_regs <= MaxRegs /\ node_regs[n] \in Nat /\ node_regs[n] <= MaxRegs
    BY Constants DEF RequestTypes
<1>3. CASE service = "exec"
    BY <1>3, Constants DEF Limit, Expected
<1>4. CASE service = "list"
    BY <1>4, <1>2, Constants DEF Limit, Expected
<1>5. CASE service = "access"
    BY <1>5, <1>2, Constants DEF Limit, Expected
<1> QED
    BY <1>1, <1>3, <1>4, <1>5

\* The failure of a node, without an answer for a register.
LEMMA GoodFailure ==
    ASSUME RequestTypes, NEW n \in Nodes, NEW i \in Nat, NEW j \in Nat, j <= Limit(n)
    PROVE  Good(n, i, Outcome(<< Answer(n, NoKey, FALSE) >>, TRUE, j, TRUE))
<1> DEFINE m == Answer(n, NoKey, FALSE)
<1>1. m \in Answers /\ m.node = n /\ m.ok = FALSE /\ m.reg = NoKey
    BY Constants DEF Answer, Answers
<1>2. ~IsItem(m)
    BY <1>1 DEF IsItem
<1>3. /\ << m >> \in Seq(Answers) /\ Len(<< m >>) = 1 /\ << m >>[1] = m
      /\ \A k \in DOMAIN << m >> : k = 1
    BY <1>1, OneFacts
<1> HIDE DEF m
<1>4. Tells(n, i, 1, m)
    BY <1>1, <1>2 DEF Tells
<1>5. Good(n, i, Outcome(<< m >>, TRUE, j, TRUE))
    BY <1>2, <1>3, <1>4 DEF Good, Outcome
<1> QED
    BY <1>5 DEF m

\* A call has started: nothing to tell yet.
LEMMA GoodStart ==
    ASSUME RequestTypes, NEW n \in Nodes, NEW i \in Nat, i <= Limit(n), service # "access"
    PROVE  Good(n, i, Outcome(<< >>, FALSE, i, FALSE))
BY DEF Good, Outcome

\* Calls for registers fail to start, until one starts or none is left.
LEMMA GoodAccess ==
    ASSUME RequestTypes, registers = asked_regs, NEW n \in Nodes, NEW i \in Nat, i <= asked_regs,
           service = "access", NEW o \in AccessCall(n, i)
    PROVE  Good(n, i, o)
<1>1. PICK f \in 0 .. registers - i :
        o = Outcome([ k \in 1 .. f |-> Answer(n, i + k - 1, FALSE) ], i + f = registers, i + f, f > 0)
    BY DEF AccessCall
<1> DEFINE a == [ k \in 1 .. f |-> Answer(n, i + k - 1, FALSE) ]
<1>2. /\ registers \in Nat /\ registers <= MaxRegs /\ f \in Nat /\ i + f <= registers
      /\ Limit(n) = registers /\ Expected(n) = registers
    BY LimitFacts, Constants DEF RequestTypes
<1>3. ASSUME NEW k \in 1 .. f
      PROVE  Tells(n, i, k, Answer(n, i + k - 1, FALSE)) /\ IsItem(Answer(n, i + k - 1, FALSE))
  <2>1. i + k - 1 \in 0 .. NoKey /\ i + k - 1 # NoKey
    BY <1>2, Constants
  <2> QED
    BY <2>1 DEF Tells, IsItem, Answer, Answers
<1>4. a \in Seq(Answers) /\ Len(a) = f /\ DOMAIN a = 1 .. f /\ (f > 0 => a # << >>)
  <2>1. a \in [ 1 .. f -> Answers ]
    BY <1>3 DEF Tells
  <2> HIDE DEF a
  <2> QED
    BY ONLY <1>2, <2>1, MadeFacts
<1>5. \A k \in DOMAIN a : Tells(n, i, k, a[k]) /\ IsItem(a[k])
    BY <1>3, <1>4
<1>6. o.answers = a /\ o.last = (i + f = registers) /\ o.index = i + f /\ o.fails = (f > 0)
    BY <1>1 DEF Outcome
<1> HIDE DEF a
<1>10. Len(o.answers) = f /\ (o.last <=> i + f = registers) /\ (o.fails <=> f > 0)
    BY ONLY <1>4, <1>6, Zenon
<1>11. i + f < registers \/ i + f = registers
    BY ONLY <1>2, i \in Nat
<1>7. o.last \in BOOLEAN /\ o.fails \in BOOLEAN /\ o.index \in Nat /\ o.index <= Limit(n)
    BY <1>2, <1>6
<1>8. ~o.last => o.index = i + Len(o.answers) /\ o.index < registers
    BY ONLY <1>6, <1>10, <1>11, Zenon
<1>9. /\ o.last /\ ~o.fails => i + Len(o.answers) = Expected(n)
      /\ o.last /\ o.fails => o.answers # << >>
    BY ONLY <1>2, <1>4, <1>6, i \in Nat
<1> QED
    BY <1>4, <1>5, <1>6, <1>7, <1>8, <1>9 DEF Good

\* An answer for register i, then more work from the next one.
LEMMA GoodThen ==
    ASSUME RequestTypes, NEW n \in Nodes, NEW i \in Nat, NEW m, NEW fails \in BOOLEAN, NEW next,
           Tells(n, i, 1, m), IsItem(m), \A x \in next : Good(n, i + 1, x),
           NEW o \in Then(m, fails, next)
    PROVE  Good(n, i, o)
<1>1. PICK x \in next : o = Outcome(<< m >> \o x.answers, x.last, x.index, fails \/ x.fails)
    BY DEF Then
<1>2. Good(n, i + 1, x)
    OBVIOUS
<1> DEFINE a == << m >> \o x.answers
<1>3. x.answers \in Seq(Answers) /\ m \in Answers
    BY <1>2 DEF Good, Tells
<1>4. a \in Seq(Answers) /\ IsInFront(a, m, x.answers)
    BY <1>3, InFrontFacts
<1>5. o.answers = a /\ o.last = x.last /\ o.index = x.index /\ o.fails = (fails \/ x.fails)
    BY <1>1 DEF Outcome
<1> HIDE DEF a
<1>6. ASSUME NEW k \in DOMAIN a
      PROVE  /\ Tells(n, i, k, a[k])
             /\ ~IsItem(a[k]) => k = Len(a) /\ x.last /\ x.fails
  <2>1. CASE k = 1
    BY <1>4, <2>1 DEF IsInFront
  <2>2. CASE k # 1
    <3>1. PICK j \in DOMAIN x.answers :
            k = j + 1 /\ a[k] = x.answers[j] /\ j \in Nat /\ (j = Len(x.answers) => k = Len(a))
      BY ONLY <1>4, <2>2, k \in DOMAIN a DEF IsInFront
    <3>2. /\ Tells(n, i + 1, j, x.answers[j])
          /\ ~IsItem(a[k]) => j = Len(x.answers) /\ x.last /\ x.fails
      BY <1>2, <3>1 DEF Good
    <3>3. (i + 1) + j - 1 = i + k - 1
      BY ONLY <3>1, i \in Nat
    <3> QED
      BY <3>1, <3>2, <3>3 DEF Tells
  <2> QED
    BY <2>1, <2>2
<1>7. i + Len(a) = (i + 1) + Len(x.answers) /\ a # << >>
  <2>1. \A l \in Nat : i + (l + 1) = (i + 1) + l
    OBVIOUS
  <2> QED
    BY ONLY <1>4, <2>1, Zenon DEF IsInFront
<1> QED
    BY <1>2, <1>4, <1>5, <1>6, <1>7 DEF Good

\* The work for a new context, and that for one that waits for its call.
LEMMA GoodCall ==
    ASSUME RequestTypes, registers = asked_regs, NEW n \in Nodes, NEW i \in Nat, i <= Limit(n),
           NEW o \in Call(n, i)
    PROVE  Good(n, i, o)
<1>1. service \in {"exec", "list", "access"}
    BY LimitFacts
<1>2. CASE service = "exec"
  <2>1. i = 0
    BY <1>2, LimitFacts
  <2>2. o \in ExecCall(n)
    BY <1>2 DEF Call
  <2> QED
    BY <1>2, <2>1, <2>2, GoodStart, GoodFailure DEF ExecCall
<1>3. CASE service = "list"
  <2>1. o \in ListCall(n, i)
    BY <1>3 DEF Call
  <2> QED
    BY <1>3, <2>1, GoodStart, GoodFailure DEF ListCall
<1>4. CASE service = "access"
  <2>1. o \in AccessCall(n, i)
    BY <1>4 DEF Call
  <2> QED
    BY <1>4, <2>1, GoodAccess, LimitFacts
<1> QED
    BY <1>1, <1>2, <1>3, <1>4

LEMMA GoodResponse ==
    ASSUME RequestTypes, registers = asked_regs, NEW n \in Nodes, NEW i \in Nat, i <= Limit(n),
           service = "access" => i < registers, NEW ok \in BOOLEAN, NEW o \in Response(n, i, ok)
    PROVE  Good(n, i, o)
<1>1. service \in {"exec", "list", "access"}
    BY LimitFacts
<1>2. CASE service = "exec"
  <2>1. i = 0 /\ Limit(n) = 0 /\ Expected(n) = 1
    BY <1>2, LimitFacts
  <2>2. o = Outcome(<< Answer(n, 0, ok) >>, TRUE, 0, ~ok)
    BY <1>2 DEF Response, ExecResponse
  <2> DEFINE m == Answer(n, 0, ok)
  <2>3. m \in Answers /\ m.node = n /\ m.ok = ok /\ m.reg = 0
    BY Constants DEF Answer, Answers
  <2>4. /\ << m >> \in Seq(Answers) /\ Len(<< m >>) = 1 /\ << m >>[1] = m /\ << m >> # << >>
        /\ \A k \in DOMAIN << m >> : k = 1
    BY <2>3, OneFacts
  <2> HIDE DEF m
  <2>5. IsItem(m) <=> ok
    BY <1>2, <2>3 DEF IsItem
  <2>6. Tells(n, 0, 1, m)
    BY <2>3, Constants DEF Tells
  <2>7. o = Outcome(<< m >>, TRUE, 0, ~ok)
    BY <2>2 DEF m
  <2>8. o.answers = << m >> /\ o.last = TRUE /\ o.index = 0 /\ o.fails = ~ok
    BY <2>7 DEF Outcome
  <2> DEFINE a == << m >>
  <2> HIDE DEF a
  <2>9. \A k \in DOMAIN a : Tells(n, i, k, a[k]) /\ (~IsItem(a[k]) => k = Len(a) /\ ~ok)
    BY <2>1, <2>4, <2>5, <2>6 DEF a
  <2>10. a \in Seq(Answers) /\ a # << >> /\ i + Len(a) = Expected(n) /\ o.answers = a
    BY <2>1, <2>4, <2>8 DEF a
  <2>11. o.index \in Nat /\ o.index <= Limit(n) /\ o.last /\ (o.fails <=> ~ok) /\ o.fails \in BOOLEAN
    BY <2>1, <2>8
  <2> QED
    BY <2>9, <2>10, <2>11 DEF Good
<1>3. CASE service = "list"
  <2>1. o \in ListResponse(n, i, ok) /\ Limit(n) = node_regs[n] /\ Expected(n) = node_regs[n]
    BY <1>3, LimitFacts DEF Response
  <2>2. CASE ~ok
    BY <2>1, <2>2, GoodFailure DEF ListResponse
  <2>3. CASE ok /\ i < node_regs[n]
    <3>1. o \in Then(Answer(n, i, TRUE), FALSE, ListCall(n, i + 1))
      BY <2>1, <2>3 DEF ListResponse
    <3>2. i + 1 \in Nat /\ i + 1 <= Limit(n)
      BY <2>1, <2>3, LimitFacts
    <3>3. \A x \in ListCall(n, i + 1) : Good(n, i + 1, x)
      BY <1>3, <3>2, GoodStart, GoodFailure DEF ListCall
    <3>4. Tells(n, i, 1, Answer(n, i, TRUE)) /\ IsItem(Answer(n, i, TRUE))
      <4>1. i \in 0 .. NoKey /\ i <= MaxRegs /\ i + 1 - 1 = i
        BY <2>1, LimitFacts, Constants
      <4> QED
        BY <1>3, <4>1 DEF Tells, IsItem, Answer, Answers
    <3> QED
      BY <3>1, <3>3, <3>4, GoodThen
  <2>4. CASE ok /\ ~(i < node_regs[n])
    <3>1. o = Outcome(<< >>, TRUE, i, FALSE)
      BY <2>1, <2>4 DEF ListResponse
    <3>2. i = Expected(n) /\ i \in Nat /\ i <= Limit(n)
      BY <2>1, <2>4, LimitFacts
    <3> QED
      BY <3>1, <3>2 DEF Good, Outcome
  <2> QED
    BY <2>2, <2>3, <2>4
<1>4. CASE service = "access"
  <2>1. o \in Then(Answer(n, i, ok), ~ok, AccessCall(n, i + 1))
    BY <1>4 DEF Response, AccessResponse
  <2>2. i + 1 \in Nat /\ i + 1 <= asked_regs /\ i <= MaxRegs
    BY <1>4, LimitFacts, Constants DEF RequestTypes
  <2>3. \A x \in AccessCall(n, i + 1) : Good(n, i + 1, x)
    BY <1>4, <2>2, GoodAccess
  <2>4. Tells(n, i, 1, Answer(n, i, ok)) /\ IsItem(Answer(n, i, ok))
    <3>1. i \in 0 .. NoKey /\ i # NoKey /\ i + 1 - 1 = i
      BY <2>2, Constants
    <3> QED
      BY <1>4, <2>2, <3>1 DEF Tells, IsItem, Answer, Answers
  <2> QED
    BY <2>1, <2>3, <2>4, GoodThen
<1> QED
    BY <1>1, <1>2, <1>3, <1>4

-----------------------------------------------------------------------------
(***************************************************************************)
(* What a step leaves alone.                                               *)
(***************************************************************************)

\* The request stays what it is.
LEMMA SameRequest ==
    ASSUME UNCHANGED requestVars
    PROVE  /\ Requested' = Requested /\ Messages' = Messages /\ ConnectedWrites' = ConnectedWrites
           /\ Chunks(node_ids)' = Chunks(node_ids)
           /\ \A p : ScopeOf(p)' = ScopeOf(p) /\ RegistersOf(p)' = RegistersOf(p)
           /\ \A n : Expected(n)' = Expected(n) /\ Limit(n)' = Limit(n)
           /\ \A m : IsItem(m)' = IsItem(m)
           /\ RequestTypes => RequestTypes'
           /\ service' = service /\ asked_regs' = asked_regs
BY DEF requestVars, Requested, Messages, ConnectedWrites, buildRequests, Chunks, ScopeOf, RegistersOf,
       Expected, Limit, IsItem, RequestTypes

LEMMA SameRequesting ==
    ASSUME Requesting, UNCHANGED << requestVars, c2s, fsm, cnxt, registers >>,
           sender' = "made" => sender = "made"
    PROVE  Requesting'
<1>1. PICK p, q \in 0 .. Messages + 1 : UnderWay(p, q)
    BY DEF Requesting
<1>2. UNCHANGED requestVars
    OBVIOUS
<1>3. UnderWay(p, q)'
    BY <1>1, <1>2, SameRequest DEF UnderWay
<1> QED
    BY <1>2, <1>3, SameRequest DEF Requesting

LEMMA SameContexts ==
    ASSUME Contexts, UNCHANGED << requestVars, fsm, cnxt, pending, todo, registers, reg_index >>
    PROVE  Contexts'
<1>1. UNCHANGED requestVars
    OBVIOUS
<1> QED
    BY <1>1, SameRequest DEF Contexts

LEMMA SameReplies ==
    ASSUME Replies, UNCHANGED << requestVars, s2c, fsm, collected, reg_index, failed >>,
           results' # << >> => sender' # "made"
    PROVE  Replies'
<1>1. UNCHANGED requestVars
    OBVIOUS
<1> QED
    BY <1>1, SameRequest DEF Replies, Ended

LEMMA SameUnread ==
    ASSUME UNCHANGED << requestVars, s2c >>
    PROVE  /\ Ended' = Ended
           /\ \A n : Unread(n)' = Unread(n) /\ UnreadItems(n)' = UnreadItems(n)
<1>1. UNCHANGED requestVars
    OBVIOUS
<1> QED
    BY <1>1, SameRequest DEF Unread, UnreadItems, Ended

LEMMA SameBooked ==
    ASSUME UNCHANGED << requestVars, s2c, collected >>, NEW n \in Nodes, Booked(n),
           Done(n)' <=> Done(n), n \in failed' <=> n \in failed, ~Done(n) => reg_index'[n] = reg_index[n]
    PROVE  Booked(n)'
<1>1. UNCHANGED requestVars /\ UNCHANGED << requestVars, s2c >>
    OBVIOUS
<1>2. PICK a \in Nat : Accounted(n, a)
    BY DEF Booked
<1>3. Accounted(n, a)'
    BY <1>1, <1>2, SameRequest, SameUnread DEF Accounted
<1>4. InOrder(n)' /\ FromTheFirst(collected[n])'
    BY <1>1, SameRequest, SameUnread DEF Booked, InOrder, FromTheFirst
<1> QED
    BY <1>1, <1>3, <1>4, SameRequest, SameUnread DEF Booked

LEMMA SameBooks ==
    ASSUME Books, UNCHANGED << requestVars, s2c, collected, copen, cup, fsm, cnxt, reg_index, failed >>,
           write_lost => write_lost'
    PROVE  Books'
<1>1. /\ UNCHANGED requestVars /\ UNCHANGED << requestVars, s2c >>
      /\ UNCHANGED << requestVars, s2c, collected >>
    OBVIOUS
<1>2. (Working' <=> Working) /\ \A n : Done(n)' <=> Done(n)
    BY <1>1, SameRequest, SameUnread DEF Working, Done
<1>3. ASSUME NEW n \in Nodes, Booked(n) PROVE Booked(n)'
    BY <1>1, <1>2, <1>3, SameBooked
<1> QED
    BY <1>2, <1>3 DEF Books

-----------------------------------------------------------------------------
(***************************************************************************)
(* Results.                                                                *)
(***************************************************************************)
LEMMA ReportFacts ==
    WholeReports <=> \A i \in DOMAIN results : results[i].ok /\ ~write_lost => Whole(results[i].map)
BY DEF WholeReports

LEMMA WholeStays ==
    ASSUME UNCHANGED requestVars, failed \subseteq failed', NEW map, Whole(map)
    PROVE  Whole(map)'
BY SameRequest DEF Whole, FromTheFirst

LEMMA SameReports ==
    ASSUME WholeReports, UNCHANGED requestVars, failed \subseteq failed', write_lost => write_lost',
           results' = results
    PROVE  WholeReports'
<1>1. \A i \in DOMAIN results : results[i].ok /\ ~write_lost => Whole(results[i].map)
    BY ReportFacts
<1>2. \A i \in DOMAIN results : results[i].ok /\ ~write_lost' => Whole(results[i].map)'
    BY <1>1, WholeStays
<1>3. (\A i \in DOMAIN results : results[i].ok /\ ~write_lost => Whole(results[i].map))'
    BY <1>2
<1> QED
    BY <1>3, ReportFacts, PTL

LEMMA OneMoreReport ==
    ASSUME WholeReports, StateTypes, UNCHANGED << requestVars, failed, write_lost >>,
           NEW r \in Reports, results' = Append(results, r),
           r.ok /\ ~write_lost => Whole(r.map)
    PROVE  WholeReports'
<1>1. \A i \in DOMAIN results : results[i].ok /\ ~write_lost => Whole(results[i].map)
    BY ReportFacts
<1>2. results \in Seq(Reports)
    BY DEF StateTypes
<1>3. ASSUME NEW i \in DOMAIN results', results'[i].ok, ~write_lost'
      PROVE  \E x : x = results'[i].map /\ Whole(x)
  <2>1. (i \in DOMAIN results /\ results'[i] = results[i]) \/ results'[i] = r
    BY <1>2
  <2> QED
    BY <1>1, <1>3, <2>1
<1>4. UNCHANGED requestVars /\ failed \subseteq failed'
    OBVIOUS
<1>5. (\A i \in DOMAIN results : results[i].ok /\ ~write_lost => Whole(results[i].map))'
  <2> SUFFICES ASSUME NEW i \in DOMAIN results', results'[i].ok, ~write_lost'
               PROVE  (Whole(results[i].map))'
    OBVIOUS
  <2>1. PICK x : x = results'[i].map /\ Whole(x)
    BY <1>3
  <2>2. Whole(x)'
    BY <1>4, <2>1, WholeStays
  <2> QED
    BY <2>1, <2>2 DEF Whole
<1> QED
    BY <1>5, ReportFacts, PTL

-----------------------------------------------------------------------------
(***************************************************************************)
(* The steps of the client.                                                *)
(***************************************************************************)

\* A failure is a report, and so is the success with what was collected.
LEMMA ResultTypes ==
    ASSUME StateTypes
    PROVE  /\ \A e \in {"Other", "InvalidArgument", "Disconnected"} :
                Failure(e) \in Reports /\ ~Failure(e).ok
           /\ Success \in Reports /\ Success.ok /\ Success.map = collected
BY DEF StateTypes, Failure, Success, Reports

LEMMA SubmitKeeps ==
    ASSUME RequestInv, Submit
    PROVE  RequestInv'
<1> USE DEF RequestInv
<1>0. /\ UNCHANGED requestVars /\ UNCHANGED << copen, collected, cup, sup, s2c, fsm, cnxt, reg_index,
            pending, registers, todo, write_lost, failed >>
      /\ sender = "made" /\ sender' = "submitted"
    BY DEF Submit, pipeVars, fsmVars
<1> DEFINE all == IF buildRequests = << >> THEN << >> ELSE ConnectedWrites
<1>1. PICK k \in 0 .. Len(all) :
        /\ c2s' = IF sup THEN c2s \o SubSeq(all, 1, k) ELSE c2s
        /\ results' = IF k < Len(all) THEN << Failure("Other") >> ELSE << >>
    BY DEF Submit
<1>2. PICK p, q \in 0 .. Messages + 1 : UnderWay(p, q)
    BY DEF Requesting
<1>3. p = 0 /\ c2s = << >> /\ fsm = "none" /\ cnxt = ScopeOf(0) /\ registers = RegistersOf(0)
    BY <1>0, <1>2 DEF UnderWay
<1>4. /\ all \in Seq(Up) /\ Len(all) \in Nat /\ Len(all) <= Messages + 1
      /\ \A j \in 1 .. Len(all) : all[j] = ConnectedWrites[j]
      /\ Len(all) > 0 => Messages > 0
      /\ Messages \in Nat
  <2>1. CASE buildRequests = << >>
    BY <2>1, WritesFacts
  <2>2. CASE buildRequests # << >>
    BY <2>2, WritesFacts
  <2> QED
    BY <2>1, <2>2
<1> HIDE DEF all
<1>5. PICK l \in 0 .. Messages + 1 :
        /\ c2s' \in Seq(Up) /\ Len(c2s') = l /\ \A j \in 1 .. l : c2s'[j] = ConnectedWrites[j]
        /\ l > 0 => Messages > 0
  <2>1. CASE sup
    <3>1. /\ SubSeq(all, 1, k) \in Seq(Up) /\ Len(SubSeq(all, 1, k)) = k
          /\ \A j \in 1 .. k : SubSeq(all, 1, k)[j] = all[j] /\ j \in 1 .. Len(all)
          /\ << >> \o SubSeq(all, 1, k) = SubSeq(all, 1, k)
      BY <1>4, PrefixFacts
    <3>2. c2s' = SubSeq(all, 1, k)
      BY ONLY <1>1, <1>3, <2>1, <3>1, Zenon
    <3>3. k \in 0 .. Messages + 1 /\ (k > 0 => Len(all) > 0)
      BY <1>4
    <3>4. \A j \in 1 .. k : c2s'[j] = ConnectedWrites[j]
      BY ONLY <1>4, <3>1, <3>2, Zenon
    <3>5. c2s' \in Seq(Up) /\ Len(c2s') = k /\ (k > 0 => Messages > 0)
      BY <1>4, <3>1, <3>2, <3>3
    <3> QED
      BY ONLY <3>3, <3>4, <3>5, Zenon
  <2>2. CASE ~sup
    <3>1. c2s' = << >>
      BY <1>1, <1>3, <2>2
    <3>2. c2s' \in Seq(Up) /\ Len(c2s') = 0 /\ 0 \in 0 .. Messages + 1 /\ \A j \in 1 .. 0 : FALSE
      BY <1>4, <3>1
    <3>3. ~(0 > 0)
      OBVIOUS
    <3> QED
      BY ONLY <3>2, <3>3, Zenon
  <2> QED
    BY <2>1, <2>2
<1>6. RequestTypes'
    BY <1>0, SameRequest
<1>7. StateTypes'
  <2>1. results' \in Seq(Reports)
    BY <1>1, ResultTypes
  <2> QED
    BY <1>0, <1>5, <2>1, SameRequest DEF StateTypes
<1>8. Requesting'
  <2>1. /\ 0 + l <= Messages + 1 /\ l <= Len(c2s') /\ 0 <= Messages
        /\ \A j \in 1 .. l : c2s'[j] = ConnectedWrites[0 + j]
        /\ \A j \in l + 1 .. Len(c2s') : FALSE
    BY <1>4, <1>5
  <2>2. UnderWay(0, l)'
    BY <1>0, <1>3, <1>5, <2>1, SameRequest DEF UnderWay
  <2>3. 0 \in 0 .. Messages + 1
    BY <1>4
  <2> QED
    BY <1>0, <2>2, <2>3, SameRequest DEF Requesting
<1>9. Contexts'
    BY <1>0, SameContexts
<1>10. Replies'
    BY <1>0, SameReplies
<1>11. Books'
    BY <1>0, SameBooks
<1>12. WholeReports'
    BY <1>1, ResultTypes DEF WholeReports
<1> QED
    BY <1>6, <1>7, <1>8, <1>9, <1>10, <1>11, <1>12

LEMMA RefuseKeeps ==
    ASSUME RequestInv, RefuseLongKey
    PROVE  RequestInv'
<1> USE DEF RequestInv
<1>0. /\ UNCHANGED requestVars /\ UNCHANGED << collected, cup, sup, c2s, s2c, fsm, cnxt, reg_index,
            pending, registers, todo, write_lost, failed >>
      /\ sender = "made" /\ sender' = "submitted" /\ copen' = FALSE
      /\ results' = << Failure("InvalidArgument") >>
    BY DEF RefuseLongKey, pipeVars, fsmVars
<1>1. RequestTypes'
    BY <1>0, SameRequest
<1>2. StateTypes'
  <2>1. results' \in Seq(Reports)
    BY <1>0, ResultTypes
  <2> QED
    BY <1>0, <2>1, SameRequest DEF StateTypes
<1>3. Requesting'
    BY <1>0, SameRequesting
<1>4. Contexts'
    BY <1>0, SameContexts
<1>5. Replies'
    BY <1>0, SameReplies
<1>6. Books'
    BY <1>0 DEF Books
<1>7. WholeReports'
    BY <1>0, ResultTypes DEF WholeReports
<1> QED
    BY <1>1, <1>2, <1>3, <1>4, <1>5, <1>6, <1>7

\* What is behind the client's requests can only be the end that drops the channel.
LEMMA DropKeeps ==
    ASSUME RequestInv, Drop
    PROVE  RequestInv'
<1> USE DEF RequestInv
<1>0. /\ UNCHANGED requestVars /\ UNCHANGED << collected, results, cup, sup, s2c, fsm, cnxt, reg_index,
            pending, registers, todo, failed >>
      /\ sender' = "dropped" /\ copen' = FALSE
      /\ write_lost' \in BOOLEAN /\ (write_lost => write_lost')
      /\ c2s' = c2s \/ c2s' = Append(c2s, End(FALSE, "none"))
    BY DEF Drop, pipeVars, StateTypes
<1>1. RequestTypes'
    BY <1>0, SameRequest
<1>2. StateTypes'
  <2>1. End(FALSE, "none") \in Up
    BY DEF End, Up
  <2>2. c2s \in Seq(Up)
    BY DEF StateTypes
  <2>3. c2s' \in Seq(Up)
    BY ONLY <1>0, <2>1, <2>2, AppendFacts, Zenon
  <2> QED
    BY <1>0, <2>3, SameRequest DEF StateTypes
<1>3. Requesting'
  <2>1. CASE c2s' = c2s
    BY <1>0, <2>1, SameRequesting
  <2>2. CASE c2s' = Append(c2s, End(FALSE, "none"))
    <3>1. PICK p, q \in 0 .. Messages + 1 : UnderWay(p, q)
      BY DEF Requesting
    <3>2. c2s \in Seq(Up) /\ End(FALSE, "none") \in Up
      BY DEF StateTypes, End, Up
    <3>3. /\ Len(c2s) \in Nat /\ Len(c2s') = Len(c2s) + 1 /\ c2s'[Len(c2s) + 1] = End(FALSE, "none")
          /\ \A j \in 1 .. Len(c2s) : c2s'[j] = c2s[j]
      <4>1. IsAppended(c2s', c2s, End(FALSE, "none"))
        BY ONLY <2>2, <3>2, AppendFacts, Zenon
      <4> QED
        BY <4>1 DEF IsAppended
    <3>4. q <= Len(c2s) /\ q \in Nat
      BY <3>1, WritesFacts DEF UnderWay
    <3>5. \A j \in 1 .. q : j \in 1 .. Len(c2s)
      BY <3>3, <3>4
    <3>6. \A j \in q + 1 .. Len(c2s) + 1 :
            j = Len(c2s) + 1 \/ (j \in q + 1 .. Len(c2s) /\ j \in 1 .. Len(c2s))
      BY <3>3, <3>4
    <3>7. q <= Len(c2s')
      BY <3>3, <3>4
    <3>8. UnderWay(p, q)'
      BY <1>0, <3>1, <3>3, <3>5, <3>6, <3>7, SameRequest DEF UnderWay
    <3> QED
      BY <1>0, <3>8, SameRequest DEF Requesting
  <2> QED
    BY <1>0, <2>1, <2>2
<1>4. Contexts'
    BY <1>0, SameContexts
<1>5. Replies'
    BY <1>0, SameReplies
<1>6. Books'
    BY <1>0 DEF Books
<1>7. WholeReports'
    BY <1>0, SameReports
<1> QED
    BY <1>1, <1>2, <1>3, <1>4, <1>5, <1>6, <1>7

\* The client goes on: the Fsm and what is under way to it stay as they are.
LEMMA ClientOnly ==
    ASSUME RequestInv, UNCHANGED << requestVars, sup, c2s, sender, fsmVars >>
    PROVE  /\ RequestTypes' /\ Requesting' /\ Contexts'
           /\ UNCHANGED requestVars /\ UNCHANGED << failed, write_lost, fsm, cnxt, reg_index, sender >>
<1> USE DEF RequestInv
<1>1. /\ UNCHANGED requestVars /\ UNCHANGED << sender, c2s, fsm, cnxt, reg_index,
            pending, registers, todo, write_lost, failed >>
    BY DEF fsmVars
<1> QED
    BY <1>1, SameRequest, SameRequesting, SameContexts

\* The rest of what is under way to the client.
LEMMA TailReplies ==
    ASSUME StateTypes, s2c # << >>
    PROVE  /\ s2c \in Seq(Down) /\ Len(s2c) \in Nat /\ Len(s2c) > 0 /\ Head(s2c) = s2c[1]
           /\ Tail(s2c) \in Seq(Down) /\ Len(Tail(s2c)) = Len(s2c) - 1
           /\ DOMAIN s2c = 1 .. Len(s2c) /\ DOMAIN Tail(s2c) = 1 .. Len(s2c) - 1
           /\ \A j \in 1 .. Len(s2c) - 1 : Tail(s2c)[j] = s2c[j + 1] /\ j + 1 \in DOMAIN s2c
BY DEF StateTypes

\* What is left in the client's pipe are the replies from the next one on.
LEMMA TailKeepsReplies ==
    ASSUME StateTypes, Replies, UNCHANGED requestVars, UNCHANGED << fsm, reg_index, sender >>,
           s2c # << >>, s2c' = Tail(s2c), results' # << >> => sender # "made"
    PROVE  Replies' /\ (Ended' => Ended)
<1>1. ASSUME NEW j \in DOMAIN s2c' PROVE j + 1 \in DOMAIN s2c /\ s2c'[j] = s2c[j + 1] /\ (j + 1 = Len(s2c) => j = Len(s2c'))
    BY TailReplies
<1>2. Ended' => Ended
    BY <1>1 DEF Ended
<1>3. ~(fsm \in {"none", "collecting"})
    BY DEF Replies
<1> QED
    BY <1>1, <1>2, <1>3, SameRequest DEF Replies

\* A success is reported when everything that was sent has been read.
LEMMA SuccessIsWhole ==
    ASSUME RequestInv, cup, copen, ~write_lost, s2c # << >>, Head(s2c).kind = "end"
    PROVE  /\ Whole(collected) /\ Ended
           /\ \A n \in Requested \cap failed : n \in Nodes => collected[n] # NoEntry
<1> USE DEF RequestInv
<1>1. Ended /\ \A n : Unread(n) = {} /\ UnreadItems(n) = {}
  <2>1. Len(s2c) = 1 /\ 1 \in DOMAIN s2c /\ s2c[1].kind = "end"
    BY TailReplies DEF Replies
  <2>2. \A j \in DOMAIN s2c : j = 1
    BY <2>1, TailReplies
  <2> QED
    BY <2>1, <2>2 DEF Ended, Unread, UnreadItems
<1>2. \A n \in Nodes : Booked(n)
    BY <1>1 DEF Books, Working
<1>3. ASSUME NEW n \in Nodes
      PROVE  /\ n \notin Requested => collected[n] = NoEntry
             /\ collected[n] = NoEntry => n \notin Requested \/ Expected(n) = 0
             /\ collected[n] = NoEntry => n \notin Requested \cap failed
             /\ n \in Requested \ failed =>
                 /\ Len(collected[n].items) = Expected(n) /\ collected[n] # FailedEntry
                 /\ Expected(n) = 0 => collected[n] = NoEntry
             /\ FromTheFirst(collected[n])
  <2>1. PICK a \in Nat : Accounted(n, a)
    BY <1>2 DEF Booked
  <2>2. collected[n] \in Entries
    BY DEF StateTypes
  <2>3. Len(collected[n].items) \in Nat
    BY <2>2 DEF Entries, NoEntry, FailedEntry
  <2>4. {} = Len(collected[n].items) .. a - 1 /\ Len(collected[n].items) <= a
    BY <1>1, <2>1 DEF Accounted
  <2>5. a = Len(collected[n].items)
    <3>1. \A l, b \in Nat : l <= b => l = b \/ l \in l .. b - 1
      OBVIOUS
    <3> QED
      BY <2>3, <2>4, <3>1, Zenon
  <2>6. n \in Requested => Done(n)
    BY <1>1 DEF Done
  <2>14. /\ Done(n) => a = Expected(n) \/ n \in failed
         /\ n \in failed /\ a = 0 => collected[n] = FailedEntry \/ Unread(n) # {}
         /\ n \notin failed => collected[n] # FailedEntry
    BY <2>1 DEF Accounted
  <2>7. /\ n \in Requested => a = Expected(n) \/ n \in failed
        /\ n \in failed /\ a = 0 => collected[n] = FailedEntry
        /\ n \notin failed => collected[n] # FailedEntry
    BY ONLY <1>1, <2>6, <2>14
  <2>8. a = 0 => collected[n] \in {NoEntry, FailedEntry}
    <3>1. \A items \in Seq(Items) : Len(items) = 0 => items = << >>
      OBVIOUS
    <3> QED
      BY <2>2, <2>5, <3>1 DEF Entries
  <2>9. NoEntry # FailedEntry /\ Len(NoEntry.items) = 0
    BY DEF NoEntry, FailedEntry
  <2>10. collected[n] = NoEntry => a = 0
    BY <2>5, <2>9
  <2>11. collected[n] = NoEntry => n \notin Requested \cap failed
    BY <2>7, <2>9, <2>10
  <2>12. collected[n] = NoEntry => n \notin Requested \/ Expected(n) = 0
    BY <2>7, <2>10, <2>11
  <2>13. n \in Requested \ failed =>
                 /\ Len(collected[n].items) = Expected(n) /\ collected[n] # FailedEntry
                 /\ Expected(n) = 0 => collected[n] = NoEntry
    BY <2>5, <2>7, <2>8
  <2> QED
    BY <1>2, <2>11, <2>12, <2>13 DEF Booked
<1> QED
    BY <1>1, <1>3 DEF Whole

LEMMA ClientEndKeeps ==
    ASSUME RequestInv, ClientEnd
    PROVE  RequestInv'
<1> USE DEF RequestInv
<1>0. /\ cup /\ s2c # << >> /\ s2c' = Tail(s2c) /\ Head(s2c).kind = "end"
      /\ UNCHANGED << requestVars, sup, c2s, sender, fsmVars >> /\ UNCHANGED << collected, cup >>
      /\ copen' = FALSE
      /\ results' = IF copen /\ sender = "submitted"
                    THEN Append(results, IF Head(s2c).error = "none" THEN Success ELSE Failure(Head(s2c).error))
                    ELSE results
    BY DEF ClientEnd, ClientReads, ClientCompleted, pipeVars
<1>1. /\ RequestTypes' /\ Requesting' /\ Contexts'
      /\ UNCHANGED requestVars /\ UNCHANGED << failed, write_lost, fsm, cnxt, reg_index, sender >>
    BY <1>0, ClientOnly
<1>2. Head(s2c).error = "none"
  <2>1. Head(s2c) \in Down
    BY <1>0, TailReplies
  <2> QED
    BY <1>0, <2>1 DEF Down, Answers
<1>3. CASE copen /\ sender = "submitted"
  <2>1. results' = Append(results, Success)
    BY <1>0, <1>2, <1>3
  <2>2. Success \in Reports /\ Success.ok /\ Success.map = collected /\ results \in Seq(Reports)
    BY ResultTypes DEF StateTypes
  <2>3. PICK r \in Reports : r = Success
    BY <2>2
  <2>4. results' \in Seq(Reports)
    BY ONLY <2>1, <2>2, AppendFacts, Zenon
  <2>5. ~write_lost => Whole(collected)
    BY <1>0, <1>3, SuccessIsWhole
  <2>6. WholeReports'
    BY <1>1, <2>1, <2>2, <2>3, <2>5, OneMoreReport
  <2>7. StateTypes'
    BY <1>0, <1>1, <2>4, TailReplies, SameRequest DEF StateTypes, fsmVars
  <2>8. Replies'
    BY <1>0, <1>1, <1>3, TailKeepsReplies
  <2>9. Books'
    BY <1>0 DEF Books
  <2> QED
    BY <1>1, <2>6, <2>7, <2>8, <2>9
<1>4. CASE ~(copen /\ sender = "submitted")
  <2>1. results' = results
    BY <1>0, <1>4
  <2>2. WholeReports'
    BY <1>1, <2>1, SameReports
  <2>3. StateTypes'
    BY <1>0, <1>1, <2>1, TailReplies, SameRequest DEF StateTypes, fsmVars
  <2>4. results' # << >> => sender # "made"
    BY <2>1 DEF Replies
  <2>5. Replies'
    BY <1>0, <1>1, <2>4, TailKeepsReplies
  <2>6. Books'
    BY <1>0 DEF Books
  <2> QED
    BY <1>1, <2>2, <2>3, <2>5, <2>6
<1> QED
    BY <1>3, <1>4

LEMMA ClientDisconnectedKeeps ==
    ASSUME RequestInv, ClientDisconnected
    PROVE  RequestInv'
<1> USE DEF RequestInv
<1>0. /\ UNCHANGED << requestVars, sup, c2s, sender, fsmVars >> /\ UNCHANGED collected
      /\ copen' = FALSE /\ cup' = FALSE /\ s2c' = << >>
      /\ results' = IF copen /\ sender = "submitted"
                    THEN Append(results, Failure("Disconnected")) ELSE results
    BY DEF ClientDisconnected, ClientCompleted
<1>1. /\ RequestTypes' /\ Requesting' /\ Contexts'
      /\ UNCHANGED requestVars /\ UNCHANGED << failed, write_lost, fsm, cnxt, reg_index, sender >>
    BY <1>0, ClientOnly
<1>2. PICK r \in Reports : r = Failure("Disconnected") /\ ~r.ok
    BY ResultTypes
<1>3. results \in Seq(Reports)
    BY DEF StateTypes
<1>4. results' = results \/ (sender = "submitted" /\ results' = Append(results, r))
    BY <1>0, <1>2
<1>5. results' \in Seq(Reports)
    BY ONLY <1>3, <1>4, AppendFacts, r \in Reports, Zenon
<1>6. StateTypes'
  <2>1. s2c' \in Seq(Down)
    BY <1>0
  <2> QED
    BY <1>0, <1>1, <1>5, <2>1, SameRequest DEF StateTypes, fsmVars
<1>7. Replies'
  <2>1. results' # << >> => sender' # "made"
    BY <1>1, <1>4 DEF Replies
  <2>2. DOMAIN s2c' = {} /\ ~Ended'
    BY <1>0 DEF Ended
  <2> QED
    BY <1>0, <1>1, <2>1, <2>2 DEF Replies
<1>8. Books'
    BY <1>0 DEF Books
<1>9. WholeReports'
    BY <1>1, <1>2, <1>4, OneMoreReport, SameReports
<1> QED
    BY <1>1, <1>6, <1>7, <1>8, <1>9

-----------------------------------------------------------------------------
(***************************************************************************)
(* An answer is read. The invariant makes it the next one of its node.     *)
(***************************************************************************)
NewEntry(m) ==
    CASE service = "exec" -> ExecInput(m) [] service = "list" -> ListInput(m)
      [] service = "access" -> AccessInput(m)

LEMMA EntryFacts ==
    ASSUME NEW e \in Entries
    PROVE  /\ e.items \in Seq(Items) /\ Len(e.items) \in Nat
           /\ e.items = << >> => e \in {NoEntry, FailedEntry}
           /\ e \in {NoEntry, FailedEntry} => e.items = << >>
<1>1. NoEntry.items = << >> /\ FailedEntry.items = << >>
    BY DEF NoEntry, FailedEntry
<1>2. e \notin {NoEntry, FailedEntry} => e.items \in Seq(Items) \ {<< >>}
    BY DEF Entries
<1>3. << >> \in Seq(Items)
    OBVIOUS
<1>4. e.items \in Seq(Items)
    BY <1>1, <1>2, <1>3
<1> QED
    BY <1>1, <1>2, <1>4

LEMMA NewEntryFacts ==
    ASSUME RequestTypes, StateTypes, NEW m \in Answers, m.ok => m.reg <= MaxRegs
    PROVE  LET e == collected[m.node] IN
           /\ NewEntry(m) \in Entries
           /\ ~IsItem(m) => NewEntry(m) = IF e = NoEntry THEN FailedEntry ELSE e
           /\ IsItem(m) /\ e # FailedEntry /\ (service = "exec" => e = NoEntry) =>
                NewEntry(m) = Answered(Append(e.items, [ reg |-> m.reg, ok |-> m.ok ]))
<1> DEFINE e == collected[m.node]
           item == [ reg |-> m.reg, ok |-> m.ok ]
<1>1. /\ m.node \in Nodes /\ m.ok \in BOOLEAN /\ m.reg \in 0 .. NoKey
      /\ service \in {"exec", "list", "access"} /\ e \in Entries
    BY LimitFacts DEF Answers, StateTypes
<1>2. IsItem(m) => item \in Items
  <2>1. IsItem(m) => m.reg \in 0 .. MaxRegs
    BY <1>1, Constants DEF IsItem
  <2> QED
    BY <1>1, <2>1 DEF Items
<1>3. e.items \in Seq(Items)
    BY <1>1, EntryFacts
<1>4. item = [ reg |-> m.reg, ok |-> TRUE ] \/ ~m.ok
    BY <1>1
<1>5. Append(NoEntry.items, item) = << item >>
    BY DEF NoEntry
<1> HIDE DEF e, item
<1>6. ASSUME NEW s, s \in Seq(Items), IsItem(m) PROVE Answered(Append(s, item)) \in Entries
  <2>1. ASSUME NEW u \in Seq(Items), NEW x \in Items
        PROVE  Append(u, x) \in Seq(Items) /\ Append(u, x) # << >>
    <3>1. PICK a : a = Append(u, x) /\ a \in Seq(Items) /\ IsAppended(a, u, x)
      BY ONLY u \in Seq(Items), x \in Items, AppendFacts, Zenon
    <3>2. a # << >>
      BY ONLY <3>1 DEF IsAppended
    <3> QED
      BY ONLY <3>1, <3>2, Zenon
  <2>2. Append(s, item) \in Seq(Items) /\ Append(s, item) # << >>
    BY ONLY <1>2, <1>6, <2>1, Zenon
  <2> QED
    BY <2>2 DEF Answered, Entries
<1>7. NoEntry \in Entries /\ FailedEntry \in Entries
    BY DEF Entries
<1>8. Answered(Append(e.items, item)) \in Entries \/ ~IsItem(m)
    BY <1>3, <1>6
<1>9. Answered(Append(NoEntry.items, item)) \in Entries \/ ~IsItem(m)
    BY <1>1, <1>6, EntryFacts, <1>7
<1>10. CASE service = "exec"
  <2>1. NewEntry(m) = IF e = NoEntry THEN (IF m.ok THEN Answered(<< [ reg |-> m.reg, ok |-> TRUE ] >>) ELSE FailedEntry) ELSE e
    BY <1>10 DEF NewEntry, ExecInput, Emplace, e
  <2>2. IsItem(m) <=> m.ok
    BY <1>10 DEF IsItem
  <2>3. NewEntry(m) = IF e = NoEntry THEN (IF m.ok THEN Answered(Append(e.items, item)) ELSE FailedEntry) ELSE e
    BY <1>4, <1>5, <2>1
  <2> HIDE DEF NewEntry
  <2> QED
    BY <1>1, <1>7, <1>8, <1>10, <2>2, <2>3 DEF e, item
<1>11. CASE service = "list"
  <2>1. NewEntry(m) = IF ~m.ok THEN (IF e = NoEntry THEN FailedEntry ELSE e)
                      ELSE IF e = FailedEntry THEN FailedEntry
                      ELSE Answered(Append(e.items, [ reg |-> m.reg, ok |-> TRUE ]))
    BY <1>11 DEF NewEntry, ListInput, Emplace, AppendItem, e
  <2>2. IsItem(m) <=> m.ok
    BY <1>11 DEF IsItem
  <2>3. NewEntry(m) = IF ~m.ok THEN (IF e = NoEntry THEN FailedEntry ELSE e)
                      ELSE IF e = FailedEntry THEN FailedEntry ELSE Answered(Append(e.items, item))
    BY <1>4, <2>1
  <2> QED
    BY <1>1, <1>7, <1>8, <1>11, <2>2, <2>3 DEF e, item
<1>12. CASE service = "access"
  <2>1. NewEntry(m) = IF ~m.ok /\ m.reg = NoKey THEN (IF e = NoEntry THEN FailedEntry ELSE e)
                      ELSE IF e = FailedEntry THEN FailedEntry ELSE Answered(Append(e.items, item))
    BY <1>12 DEF NewEntry, AccessInput, Emplace, AppendItem, e, item
  <2>2. IsItem(m) <=> ~(~m.ok /\ m.reg = NoKey)
    BY <1>1, <1>12, Constants DEF IsItem
  <2> QED
    BY <1>1, <1>7, <1>8, <1>12, <2>1, <2>2 DEF e, item
<1> QED
    BY <1>1, <1>10, <1>11, <1>12

\* Reading an answer shifts those behind it.
LEMMA ReadShifts ==
    ASSUME RequestTypes, StateTypes, UNCHANGED requestVars, s2c # << >>, s2c' = Tail(s2c),
           Head(s2c).kind = "answer", NEW n \in Nodes
    PROVE  /\ Head(s2c) = s2c[1] /\ s2c[1] \in Answers
           /\ Ended' <=> Ended
           /\ 1 \in Unread(n) <=> s2c[1].node = n
           /\ 1 \in UnreadItems(n) <=> s2c[1].node = n /\ IsItem(s2c[1])
           /\ \A j \in Unread(n)' : j + 1 \in Unread(n) /\ s2c'[j] = s2c[j + 1] /\ j \in Nat /\ j >= 1
           /\ \A j \in UnreadItems(n)' : j + 1 \in UnreadItems(n) /\ s2c'[j] = s2c[j + 1] /\ j \in Nat /\ j >= 1
           /\ \A j \in Unread(n) : j = 1 \/ (j - 1 \in Unread(n)' /\ s2c'[j - 1] = s2c[j] /\ j > 1)
           /\ \A j \in UnreadItems(n) : j = 1 \/ (j - 1 \in UnreadItems(n)' /\ s2c'[j - 1] = s2c[j] /\ j > 1)
<1>1. /\ s2c \in Seq(Down) /\ Len(s2c) \in Nat /\ Len(s2c) > 0 /\ Head(s2c) = s2c[1]
      /\ DOMAIN s2c = 1 .. Len(s2c) /\ DOMAIN s2c' = 1 .. Len(s2c) - 1
      /\ \A j \in 1 .. Len(s2c) - 1 : s2c'[j] = s2c[j + 1] /\ j + 1 \in DOMAIN s2c
    BY TailReplies
<1>2. 1 \in DOMAIN s2c /\ s2c[1] \in Down
    BY <1>1
<1>3. s2c[1] \in Answers
    BY <1>1, <1>2 DEF Down
<1>4. \A m : IsItem(m)' <=> IsItem(m)
    BY SameRequest
<1>5. \A j \in DOMAIN s2c' : j + 1 \in DOMAIN s2c /\ s2c'[j] = s2c[j + 1] /\ j \in Nat /\ j >= 1
    BY <1>1
<1>6. \A j \in DOMAIN s2c : j = 1 \/ (j - 1 \in DOMAIN s2c' /\ s2c'[j - 1] = s2c[j] /\ j > 1)
  <2>1. \A l \in Nat : \A j \in 1 .. l : j = 1 \/ (j - 1 \in 1 .. l - 1 /\ j > 1 /\ (j - 1) + 1 = j)
    OBVIOUS
  <2> QED
    BY ONLY <1>1, <2>1, Zenon
<1>7. /\ \A j \in Unread(n)' : j + 1 \in Unread(n) /\ s2c'[j] = s2c[j + 1] /\ j \in Nat /\ j >= 1
      /\ \A j \in Unread(n) : j = 1 \/ (j - 1 \in Unread(n)' /\ s2c'[j - 1] = s2c[j] /\ j > 1)
    BY ONLY <1>5, <1>6, Zenon DEF Unread
<1>8. ASSUME NEW j \in UnreadItems(n)'
      PROVE  j + 1 \in UnreadItems(n) /\ s2c'[j] = s2c[j + 1] /\ j \in Nat /\ j >= 1
  <2>1. j \in Unread(n)' /\ IsItem(s2c[j])'
    BY ONLY <1>8, Zenon DEF UnreadItems
  <2>2. j + 1 \in Unread(n) /\ s2c'[j] = s2c[j + 1] /\ j \in Nat /\ j >= 1
    BY ONLY <1>7, <2>1, Zenon
  <2>3. IsItem(s2c[j + 1])
    BY <2>1, <2>2, UNCHANGED requestVars DEF IsItem, requestVars, NoKey
  <2> QED
    BY ONLY <2>2, <2>3, Zenon DEF UnreadItems
<1>9. ASSUME NEW j \in UnreadItems(n)
      PROVE  j = 1 \/ (j - 1 \in UnreadItems(n)' /\ s2c'[j - 1] = s2c[j] /\ j > 1)
  <2>1. j \in Unread(n) /\ IsItem(s2c[j])
    BY ONLY <1>9, Zenon DEF UnreadItems
  <2>2. j = 1 \/ (j - 1 \in Unread(n)' /\ s2c'[j - 1] = s2c[j] /\ j > 1)
    BY ONLY <1>7, <2>1, Zenon
  <2>3. s2c'[j - 1] = s2c[j] => IsItem(s2c[j - 1])'
    BY <2>1, UNCHANGED requestVars DEF IsItem, requestVars, NoKey
  <2> QED
    BY ONLY <2>2, <2>3, Zenon DEF UnreadItems
<1>10. /\ 1 \in Unread(n) <=> s2c[1].node = n
       /\ 1 \in UnreadItems(n) <=> s2c[1].node = n /\ IsItem(s2c[1])
    BY <1>1, <1>2 DEF Unread, UnreadItems
<1>11. Ended' <=> Ended
  <2>1. Ended' => Ended
    BY ONLY <1>5, Zenon DEF Ended
  <2>2. ASSUME Ended PROVE Ended'
    <3>1. PICK j \in DOMAIN s2c : s2c[j].kind = "end"
      BY <2>2 DEF Ended
    <3>2. j # 1
      BY <1>1, <3>1
    <3> QED
      BY ONLY <1>6, <3>1, <3>2, Zenon DEF Ended
  <2> QED
    BY <2>1, <2>2
<1> QED
    BY <1>1, <1>3, <1>7, <1>8, <1>9, <1>10, <1>11

\* The unread answers of a node are in order after one was read.
LEMMA ReadKeepsOrder ==
    ASSUME RequestTypes, StateTypes, UNCHANGED requestVars, s2c # << >>, s2c' = Tail(s2c),
           Head(s2c).kind = "answer", NEW n \in Nodes, InOrder(n),
           collected'[n] = FailedEntry => Unread(n)' = {}
    PROVE  InOrder(n)'
<1>1. ASSUME NEW i \in Unread(n)', NEW j \in Unread(n)', i < j
      PROVE  IsItem(s2c[i])' /\ (IsItem(s2c[j])' => s2c'[i].reg < s2c'[j].reg)
  <2>1. /\ i + 1 \in Unread(n) /\ s2c'[i] = s2c[i + 1] /\ i \in Nat
        /\ j + 1 \in Unread(n) /\ s2c'[j] = s2c[j + 1] /\ j \in Nat
    BY ReadShifts
  <2>2. i + 1 < j + 1
    BY <1>1, <2>1
  <2>3. IsItem(s2c[i + 1]) /\ (IsItem(s2c[j + 1]) => s2c[i + 1].reg < s2c[j + 1].reg)
    BY <2>1, <2>2 DEF InOrder
  <2>4. (IsItem(s2c[i])' <=> IsItem(s2c[i + 1])) /\ (IsItem(s2c[j])' <=> IsItem(s2c[j + 1]))
    BY <2>1, UNCHANGED requestVars DEF IsItem, requestVars, NoKey
  <2> QED
    BY ONLY <2>1, <2>3, <2>4, Zenon
<1> QED
    BY <1>1 DEF InOrder

\* An answer about another node.
LEMMA ReadOfAnother ==
    ASSUME RequestInv, UNCHANGED requestVars, UNCHANGED << cnxt, reg_index, failed >>, s2c # << >>,
           s2c' = Tail(s2c), Head(s2c).kind = "answer", NEW n \in Nodes, s2c[1].node # n,
           collected'[n] = collected[n], Booked(n)
    PROVE  Booked(n)'
<1> USE DEF RequestInv
<1>1. /\ Ended' <=> Ended
      /\ 1 \notin Unread(n)
      /\ \A j \in Unread(n)' : j + 1 \in Unread(n) /\ s2c'[j] = s2c[j + 1] /\ j \in Nat /\ j >= 1
      /\ \A j \in UnreadItems(n)' : j + 1 \in UnreadItems(n) /\ s2c'[j] = s2c[j + 1] /\ j \in Nat /\ j >= 1
      /\ \A j \in Unread(n) : j = 1 \/ (j - 1 \in Unread(n)' /\ s2c'[j - 1] = s2c[j] /\ j > 1)
      /\ \A j \in UnreadItems(n) : j = 1 \/ (j - 1 \in UnreadItems(n)' /\ s2c'[j - 1] = s2c[j] /\ j > 1)
    BY ReadShifts
<1>2. \A j \in UnreadItems(n) : j # 1
    BY <1>1 DEF UnreadItems
<1>3. (Unread(n)' = {} <=> Unread(n) = {}) /\ (Unread(n) = UnreadItems(n) => Unread(n)' = UnreadItems(n)')
  <2>1. Unread(n)' = {} <=> Unread(n) = {}
    BY <1>1
  <2>2. ASSUME Unread(n) = UnreadItems(n), NEW j \in Unread(n)' PROVE j \in UnreadItems(n)'
    <3>1. j + 1 \in UnreadItems(n) /\ j \in Nat
      BY <1>1, <2>2
    <3>2. (j + 1) - 1 \in UnreadItems(n)'
      BY <1>1, <1>2, <3>1
    <3>3. (j + 1) - 1 = j
      BY <3>1
    <3> QED
      BY <3>2, <3>3
  <2>3. UnreadItems(n)' \subseteq Unread(n)'
    BY DEF UnreadItems
  <2> QED
    BY <2>1, <2>2, <2>3
<1>4. { s2c'[j].reg : j \in UnreadItems(n)' } = { s2c[j].reg : j \in UnreadItems(n) }
  <2>1. ASSUME NEW j \in UnreadItems(n)' PROVE \E k \in UnreadItems(n) : s2c'[j].reg = s2c[k].reg
    BY ONLY <1>1, <2>1, Zenon
  <2>2. ASSUME NEW j \in UnreadItems(n) PROVE \E k \in UnreadItems(n)' : s2c'[k].reg = s2c[j].reg
    BY ONLY <1>1, <1>2, <2>2, Zenon
  <2> QED
    BY ONLY <2>1, <2>2
<1>5. Done(n)' <=> Done(n)
    BY <1>1, SameRequest DEF Done
<1>6. PICK a \in Nat : Accounted(n, a)
    BY DEF Booked
<1>7. Accounted(n, a)'
    BY <1>3, <1>4, <1>5, <1>6, SameRequest DEF Accounted
<1>8. InOrder(n)'
    BY <1>3, ReadKeepsOrder DEF Booked, InOrder
<1> QED
    BY <1>3, <1>7, <1>8, SameRequest DEF Booked, FromTheFirst

\* An answer that tells of a register: it is the next one that the client has not got.
LEMMA ReadOfItem ==
    ASSUME RequestInv, UNCHANGED requestVars, UNCHANGED << cnxt, reg_index, failed >>, s2c # << >>,
           s2c' = Tail(s2c), Head(s2c).kind = "answer", NEW n \in Nodes, s2c[1].node = n,
           IsItem(s2c[1]), collected'[n] = NewEntry(s2c[1]), Booked(n)
    PROVE  Booked(n)'
<1> USE DEF RequestInv
<1>1. /\ Ended' <=> Ended
      /\ s2c[1] \in Answers /\ 1 \in Unread(n) /\ 1 \in UnreadItems(n)
      /\ \A j \in UnreadItems(n)' : j + 1 \in UnreadItems(n) /\ s2c'[j] = s2c[j + 1] /\ j \in Nat /\ j >= 1
      /\ \A j \in Unread(n)' : j + 1 \in Unread(n) /\ s2c'[j] = s2c[j + 1] /\ j \in Nat /\ j >= 1
      /\ \A j \in UnreadItems(n) : j = 1 \/ (j - 1 \in UnreadItems(n)' /\ s2c'[j - 1] = s2c[j] /\ j > 1)
    BY ReadShifts
<1>2. /\ collected[n] \in Entries /\ collected[n] # FailedEntry
      /\ \A i, j \in Unread(n) : i < j => (IsItem(s2c[j]) => s2c[i].reg < s2c[j].reg)
      /\ FromTheFirst(collected[n])
    BY <1>1 DEF Booked, InOrder, StateTypes
<1>3. PICK a \in Nat : Accounted(n, a)
    BY DEF Booked
<1>4. PICK l \in Nat : l = Len(collected[n].items) /\ collected[n].items \in Seq(Items)
    BY <1>2, EntryFacts
<1>5. l <= a /\ { s2c[j].reg : j \in UnreadItems(n) } = l .. a - 1
    BY <1>3, <1>4 DEF Accounted
<1>6. \A j \in UnreadItems(n) : j # 1 => s2c[1].reg < s2c[j].reg
  <2>1. ASSUME NEW j \in UnreadItems(n), j # 1 PROVE s2c[1].reg < s2c[j].reg
    <3>1. j > 1 /\ j \in Unread(n) /\ IsItem(s2c[j])
      BY <1>1, <2>1 DEF UnreadItems
    <3>2. 1 < j
      <4>1. j \in Nat
        BY <3>1, TailReplies DEF Unread
      <4> QED
        BY <3>1, <4>1
    <3> QED
      BY <1>1, <1>2, <3>1, <3>2
  <2> QED
    BY <2>1
<1>7. s2c[1].reg = l /\ l < a
  <2>1. s2c[1].reg \in l .. a - 1
    BY <1>1, <1>5
  <2>2. l \in l .. a - 1 /\ s2c[1].reg \in Nat /\ s2c[1].reg >= l /\ l < a
    BY <2>1
  <2>3. PICK j \in UnreadItems(n) : s2c[j].reg = l
    BY <1>5, <2>2
  <2>4. CASE j = 1
    BY <2>2, <2>3, <2>4
  <2>5. CASE j # 1
    <3>1. s2c[1].reg < l
      BY <1>6, <2>3, <2>5
    <3> QED
      BY <2>2, <3>1
  <2> QED
    BY <2>4, <2>5
<1>8. { s2c'[j].reg : j \in UnreadItems(n)' } = l + 1 .. a - 1
  <2>1. ASSUME NEW j \in UnreadItems(n)' PROVE s2c'[j].reg \in l + 1 .. a - 1
    <3>1. j + 1 \in UnreadItems(n) /\ s2c'[j] = s2c[j + 1] /\ j \in Nat /\ j >= 1
      BY <1>1
    <3>2. j + 1 # 1
      BY <3>1
    <3>3. l < s2c[j + 1].reg /\ s2c[j + 1].reg \in l .. a - 1
      BY <1>5, <1>6, <1>7, <3>1, <3>2
    <3>4. s2c[j + 1].reg \in l + 1 .. a - 1
      BY <3>3
    <3> QED
      BY <3>1, <3>4
  <2>2. ASSUME NEW r \in l + 1 .. a - 1 PROVE \E j \in UnreadItems(n)' : s2c'[j].reg = r
    <3>1. r \in l .. a - 1 /\ r # l
      OBVIOUS
    <3>2. PICK k \in UnreadItems(n) : s2c[k].reg = r
      BY <1>5, <3>1
    <3>3. k # 1
      BY <1>7, <3>1, <3>2
    <3> QED
      BY ONLY <1>1, <3>2, <3>3, Zenon
  <2> QED
    BY <2>1, <2>2
<1>9. service = "exec" => collected[n] = NoEntry
  <2>1. ASSUME service = "exec" PROVE l = 0
    <3>1. s2c[1].kind = "answer" /\ 1 \in DOMAIN s2c
      BY <1>1 DEF Unread
    <3>2. s2c[1].ok
      BY <2>1 DEF IsItem
    <3>3. s2c[1].reg = 0
      BY <2>1, <3>1, <3>2 DEF Replies
    <3> QED
      BY <1>7, <3>3
  <2>2. l = 0 => collected[n].items = << >>
    <3>1. \A s \in Seq(Items) : Len(s) = 0 => s = << >>
      OBVIOUS
    <3> QED
      BY ONLY <1>4, <3>1, Zenon
  <2> QED
    BY <1>2, <2>1, <2>2, EntryFacts
<1> DEFINE item == [ reg |-> s2c[1].reg, ok |-> s2c[1].ok ]
<1>10. collected'[n] = Answered(Append(collected[n].items, item)) /\ item \in Items
  <2>1. s2c[1].ok => s2c[1].reg <= MaxRegs
    BY <1>1 DEF Replies, Unread
  <2>2. collected'[n] = Answered(Append(collected[n].items, item))
    BY <1>1, <1>2, <1>9, <2>1, NewEntryFacts
  <2>3. s2c[1].reg \in 0 .. MaxRegs /\ s2c[1].ok \in BOOLEAN
    BY <1>1, <2>1, Constants DEF IsItem, Answers
  <2> QED
    BY <2>2, <2>3 DEF Items
<1>11. /\ collected'[n].items = Append(collected[n].items, item) /\ collected'[n] # FailedEntry
       /\ item.reg = l
  <2>1. collected'[n].is = "answered" /\ collected'[n].items = Append(collected[n].items, item)
    BY <1>10 DEF Answered
  <2> QED
    BY <1>7, <2>1 DEF FailedEntry
<1> HIDE DEF item
<1>12. IsAppended(collected'[n].items, collected[n].items, item)
    BY ONLY <1>4, <1>10, <1>11, AppendFacts, Zenon
<1>13. Len(collected'[n].items) = l + 1 /\ FromTheFirst(collected'[n])
  <2>1. /\ Len(collected'[n].items) = l + 1 /\ DOMAIN collected[n].items = 1 .. l
        /\ DOMAIN collected'[n].items = 1 .. l + 1
        /\ collected'[n].items[l + 1] = item
        /\ \A k \in 1 .. l : collected'[n].items[k] = collected[n].items[k]
    BY ONLY <1>4, <1>12, Zenon DEF IsAppended
  <2>2. \A k \in 1 .. l : collected[n].items[k].reg = k - 1
    BY <1>2, <2>1 DEF FromTheFirst
  <2>3. \A k \in 1 .. l + 1 : k \in 1 .. l \/ (k = l + 1 /\ k - 1 = l)
    OBVIOUS
  <2>4. \A k \in 1 .. l + 1 : collected'[n].items[k].reg = k - 1
    BY ONLY <1>11, <2>1, <2>2, <2>3, Zenon
  <2> QED
    BY <2>1, <2>4 DEF FromTheFirst
<1>14. Done(n)' <=> Done(n)
    BY <1>1, SameRequest DEF Done
<1>15. ~Done(n) \/ n \notin failed => Unread(n)' = UnreadItems(n)'
  <2>1. ASSUME ~Done(n) \/ n \notin failed, NEW j \in Unread(n)' PROVE j \in UnreadItems(n)'
    <3>1. j + 1 \in UnreadItems(n) /\ j \in Nat /\ j >= 1
      BY <1>1, <1>3, <2>1 DEF Accounted
    <3>2. j + 1 # 1 /\ (j + 1) - 1 = j
      BY <3>1
    <3> QED
      BY <1>1, <3>1, <3>2
  <2>2. UnreadItems(n)' \subseteq Unread(n)'
    BY DEF UnreadItems
  <2> QED
    BY <2>1, <2>2
<1>16. Accounted(n, a)'
  <2>1. l + 1 <= a /\ a # 0
    BY <1>7
  <2> QED
    BY <1>3, <1>8, <1>11, <1>13, <1>14, <1>15, <2>1, SameRequest DEF Accounted
<1>17. InOrder(n)'
    BY <1>11, ReadKeepsOrder DEF Booked
<1>18. n \in Requested
    BY <1>1 DEF Booked
<1> QED
    BY <1>13, <1>16, <1>17, <1>18, SameRequest DEF Booked, FromTheFirst

\* An answer that tells of a node's failure is the last one of the node.
LEMMA ReadOfFailure ==
    ASSUME RequestInv, UNCHANGED requestVars, UNCHANGED << cnxt, reg_index, failed >>, s2c # << >>,
           s2c' = Tail(s2c), Head(s2c).kind = "answer", NEW n \in Nodes, s2c[1].node = n,
           ~IsItem(s2c[1]), collected'[n] = NewEntry(s2c[1]), Booked(n)
    PROVE  Booked(n)'
<1> USE DEF RequestInv
<1>1. /\ Ended' <=> Ended
      /\ s2c[1] \in Answers /\ 1 \in Unread(n) /\ 1 \notin UnreadItems(n)
      /\ \A j \in UnreadItems(n)' : j + 1 \in UnreadItems(n)
      /\ \A j \in Unread(n)' : j + 1 \in Unread(n) /\ j \in Nat /\ j >= 1
    BY ReadShifts
<1>2. \A j \in Unread(n) : ~(1 < j)
    BY <1>1 DEF Booked, InOrder
<1>3. Unread(n)' = {} /\ UnreadItems(n)' = {}
  <2>1. ASSUME NEW j \in Unread(n)' PROVE FALSE
    <3>1. j + 1 \in Unread(n) /\ 1 < j + 1
      BY <1>1
    <3> QED
      BY <1>2, <3>1
  <2> QED
    BY <2>1 DEF UnreadItems
<1>4. UnreadItems(n) = {}
  <2>1. ASSUME NEW j \in UnreadItems(n) PROVE FALSE
    <3>1. j \in Unread(n) /\ j # 1 /\ j \in Nat /\ j >= 1
      BY <1>1, TailReplies DEF UnreadItems, Unread
    <3> QED
      BY <1>2, <3>1
  <2> QED
    BY <2>1
<1>5. PICK a \in Nat : Accounted(n, a)
    BY DEF Booked
<1>6. Done(n) /\ (Done(n)' <=> Done(n))
  <2>1. Done(n)
    BY <1>1, <1>4, <1>5 DEF Accounted
  <2> QED
    BY <1>1, <2>1, SameRequest DEF Done
<1>7. collected[n] \in Entries
    BY DEF StateTypes
<1>8. collected'[n] = IF collected[n] = NoEntry THEN FailedEntry ELSE collected[n]
  <2>1. s2c[1].ok => s2c[1].reg <= MaxRegs
    BY <1>1 DEF Replies, Unread
  <2> QED
    BY <1>1, <2>1, NewEntryFacts
<1>9. collected'[n].items = collected[n].items
    BY <1>8 DEF NoEntry, FailedEntry
<1>10. a = 0 => collected'[n] = FailedEntry
  <2>1. a = 0 => Len(collected[n].items) = 0
    BY <1>5, <1>7, EntryFacts DEF Accounted
  <2>2. a = 0 => collected[n].items = << >>
    BY <1>7, <2>1, EntryFacts
  <2> QED
    BY <1>7, <1>8, <2>2, EntryFacts
<1>14. n \in failed
    BY <1>1, <1>5 DEF Accounted
<1>11. Accounted(n, a)'
    BY <1>3, <1>4, <1>5, <1>6, <1>9, <1>10, <1>14, SameRequest DEF Accounted
<1>12. InOrder(n)'
    BY <1>3 DEF InOrder
<1>13. n \in Requested
    BY <1>6 DEF Done
<1> QED
    BY <1>9, <1>11, <1>12, <1>13, SameRequest DEF Booked, FromTheFirst

LEMMA ClientInputKeeps ==
    ASSUME RequestInv, ClientInput
    PROVE  RequestInv'
<1> USE DEF RequestInv
<1>0. /\ cup /\ s2c # << >> /\ s2c' = Tail(s2c) /\ Head(s2c).kind = "answer"
      /\ UNCHANGED << requestVars, sup, c2s, sender, fsmVars >> /\ UNCHANGED << copen, results, cup >>
      /\ collected' = IF ~copen THEN collected
                      ELSE [ collected EXCEPT ![Head(s2c).node] = NewEntry(Head(s2c)) ]
    BY DEF ClientInput, ClientReads, pipeVars, NewEntry
<1>1. /\ RequestTypes' /\ Requesting' /\ Contexts'
      /\ UNCHANGED requestVars /\ UNCHANGED << failed, write_lost, fsm, cnxt, reg_index, sender >>
    BY <1>0, ClientOnly
<1>2. Head(s2c) = s2c[1] /\ s2c[1] \in Answers /\ 1 \in DOMAIN s2c
  <2>1. Head(s2c) = s2c[1] /\ Head(s2c) \in Down /\ 1 \in DOMAIN s2c
    BY <1>0, TailReplies
  <2> QED
    BY <1>0, <2>1 DEF Down
<1>3. s2c[1].node \in Nodes /\ (s2c[1].ok => s2c[1].reg <= MaxRegs)
    BY <1>0, <1>2 DEF Answers, Replies
<1>4. collected' \in [ Nodes -> Entries ]
  <2>1. NewEntry(s2c[1]) \in Entries
    BY <1>2, <1>3, NewEntryFacts
  <2> QED
    BY <1>0, <1>2, <2>1 DEF StateTypes
<1>5. StateTypes'
    BY <1>0, <1>1, <1>4, TailReplies, SameRequest DEF StateTypes, fsmVars
<1>6. Replies' /\ (Ended' => Ended)
  <2>1. results' # << >> => sender # "made"
    BY <1>0 DEF Replies
  <2> QED
    BY <1>0, <1>1, <2>1, TailKeepsReplies
<1>7. Books'
  <2> SUFFICES ASSUME copen, ~write_lost, Working, NEW n \in Nodes
               PROVE  Booked(n)'
    BY <1>0, <1>1, <1>6 DEF Books, Working
  <2>1. Booked(n)
    BY <1>0 DEF Books
  <2>2. /\ s2c[1].node # n => collected'[n] = collected[n]
        /\ s2c[1].node = n => collected'[n] = NewEntry(s2c[1])
    BY <1>0, <1>2, <1>3 DEF StateTypes
  <2>3. UNCHANGED << cnxt, reg_index, failed >>
    BY <1>1
  <2> QED
    BY <1>0, <1>1, <2>1, <2>2, <2>3, ReadOfAnother, ReadOfItem, ReadOfFailure
<1>8. WholeReports'
    BY <1>0, <1>1, SameReports
<1> QED
    BY <1>1, <1>5, <1>6, <1>7, <1>8

-----------------------------------------------------------------------------
(***************************************************************************)
(* The steps of the Fsm that only read what the client wrote.              *)
(***************************************************************************)

\* The next message of the client, and what is left behind it.
LEMMA TailRequests ==
    ASSUME StateTypes, RequestTypes, c2s # << >>, c2s' = Tail(c2s), NEW p \in 0 .. Messages + 1,
           NEW q \in 0 .. Messages + 1, UnderWay(p, q)
    PROVE  /\ p \in Nat /\ q \in Nat /\ Messages \in Nat
           /\ c2s' \in Seq(Up) /\ Len(c2s') = Len(c2s) - 1 /\ Len(c2s) \in Nat /\ Len(c2s) > 0
           /\ Head(c2s) = c2s[1]
           /\ \A j \in 1 .. Len(c2s') : c2s'[j] = c2s[j + 1]
           /\ q > 0 => Head(c2s) = ConnectedWrites[p + 1]
           /\ q = 0 => Head(c2s) = End(FALSE, "none")
<1>1. p \in Nat /\ q \in Nat /\ Messages \in Nat
    BY WritesFacts
<1>2. c2s \in Seq(Up)
    BY DEF StateTypes
<1>3. /\ c2s' \in Seq(Up) /\ Len(c2s') = Len(c2s) - 1 /\ Len(c2s) \in Nat /\ Len(c2s) > 0
      /\ Head(c2s) = c2s[1] /\ \A j \in 1 .. Len(c2s') : c2s'[j] = c2s[j + 1]
    BY <1>2
<1>4. q > 0 => c2s[1] = ConnectedWrites[p + 1]
  <2>1. q > 0 => 1 \in 1 .. q
    BY <1>1
  <2> QED
    BY <2>1 DEF UnderWay
<1>5. q = 0 => c2s[1] = End(FALSE, "none")
  <2>1. q = 0 => 1 \in q + 1 .. Len(c2s)
    BY <1>3
  <2> QED
    BY <2>1 DEF UnderWay
<1> QED
    BY <1>1, <1>3, <1>4, <1>5

\* One of the requests was read: those behind it are still under way.
LEMMA ReadOneRequest ==
    ASSUME StateTypes, RequestTypes, UNCHANGED requestVars, c2s # << >>, c2s' = Tail(c2s), NEW p \in 0 .. Messages + 1,
           NEW q \in 0 .. Messages + 1, UnderWay(p, q), q > 0
    PROVE  /\ p + 1 \in 0 .. Messages + 1 /\ q - 1 \in 0 .. Messages + 1
           /\ (p + 1) + (q - 1) <= Messages + 1 /\ q - 1 <= Len(c2s')
           /\ \A j \in 1 .. q - 1 : c2s'[j] = ConnectedWrites[(p + 1) + j]
           /\ \A j \in (q - 1) + 1 .. Len(c2s') : c2s'[j] = End(FALSE, "none")
<1>1. /\ p \in Nat /\ q \in Nat /\ Messages \in Nat
      /\ Len(c2s') = Len(c2s) - 1 /\ Len(c2s) \in Nat /\ Len(c2s) > 0
      /\ \A j \in 1 .. Len(c2s') : c2s'[j] = c2s[j + 1]
    BY TailRequests
<1>2. /\ p + q <= Messages + 1 /\ q <= Len(c2s)
      /\ \A j \in 1 .. q : c2s[j] = ConnectedWrites[p + j]
      /\ \A j \in q + 1 .. Len(c2s) : c2s[j] = End(FALSE, "none")
    BY DEF UnderWay
<1>3. /\ p + 1 \in 0 .. Messages + 1 /\ q - 1 \in 0 .. Messages + 1
      /\ (p + 1) + (q - 1) <= Messages + 1 /\ q - 1 <= Len(c2s')
    BY <1>1, <1>2
<1>4. ASSUME NEW j \in 1 .. q - 1 PROVE c2s'[j] = ConnectedWrites[(p + 1) + j]
  <2>1. j + 1 \in 1 .. q /\ p + (j + 1) = (p + 1) + j /\ j \in 1 .. Len(c2s')
    BY <1>1, <1>2
  <2> QED
    BY ONLY <1>1, <1>2, <2>1, Zenon
<1>5. ASSUME NEW j \in (q - 1) + 1 .. Len(c2s') PROVE c2s'[j] = End(FALSE, "none")
  <2>1. j + 1 \in q + 1 .. Len(c2s) /\ j \in 1 .. Len(c2s')
    BY <1>1, <1>2
  <2> QED
    BY ONLY <1>1, <1>2, <2>1, Zenon
<1> QED
    BY <1>3, <1>4, <1>5

\* What the Fsm has after one more request.
LEMMA OneMoreRequest ==
    ASSUME RequestTypes, NEW p \in Nat, p < Messages
    PROVE  LET m == ConnectedWrites[p + 1] IN
           /\ m.kind \in {"scope", "register"}
           /\ ScopeOf(p + 1) = IF m.kind = "scope" THEN ScopeOf(p) \cup m.ids ELSE ScopeOf(p)
           /\ RegistersOf(p + 1) = IF m.kind = "register" THEN RegistersOf(p) + 1 ELSE RegistersOf(p)
<1> DEFINE chunks == Chunks(node_ids)
           m == ConnectedWrites[p + 1]
<1>1. /\ Len(chunks) \in Nat /\ Messages \in Nat
      /\ DOMAIN chunks = 1 .. Len(chunks)
      /\ \A j \in 1 .. Len(chunks) : ConnectedWrites[j] = Scope(chunks[j])
      /\ \A j \in Len(chunks) + 1 .. Messages : ConnectedWrites[j] = Register
    BY WritesFacts, ChunkFacts DEF RequestTypes
<1> HIDE DEF chunks
<1>2. \A x : ScopeOf(x) = UNION { chunks[i] : i \in { j \in DOMAIN chunks : j <= x } }
    BY DEF ScopeOf, chunks
<1>3. \A x : RegistersOf(x) = IF x <= Len(chunks) THEN 0 ELSE x - Len(chunks)
    BY DEF RegistersOf, chunks
<1>4. CASE p < Len(chunks)
  <2>1. p + 1 \in 1 .. Len(chunks) /\ p + 1 <= Len(chunks) /\ p <= Len(chunks)
    BY <1>1, <1>4
  <2>2. m.kind = "scope" /\ m.ids = chunks[p + 1]
    <3>1. m = Scope(chunks[p + 1])
      BY ONLY <1>1, <2>1, Zenon
    <3> QED
      BY ONLY <3>1 DEF Scope
  <2>3. { j \in DOMAIN chunks : j <= p + 1 } = { j \in DOMAIN chunks : j <= p } \cup {p + 1}
    BY <1>1, <2>1
  <2>4. ScopeOf(p + 1) = ScopeOf(p) \cup m.ids
    BY <1>2, <2>2, <2>3
  <2>5. RegistersOf(p + 1) = RegistersOf(p)
    BY <1>3, <2>1
  <2> QED
    BY <2>2, <2>4, <2>5
<1>5. CASE p >= Len(chunks)
  <2>1. p + 1 \in Len(chunks) + 1 .. Messages
    BY <1>1, <1>5
  <2>2. m.kind = "register"
    BY <1>1, <2>1 DEF Register
  <2>3. { j \in DOMAIN chunks : j <= p + 1 } = { j \in DOMAIN chunks : j <= p }
    BY <1>1, <1>5
  <2>4. ScopeOf(p + 1) = ScopeOf(p)
    BY <1>2, <2>3
  <2>5. RegistersOf(p + 1) = RegistersOf(p) + 1
    BY <1>1, <1>3, <1>5
  <2> QED
    BY <2>2, <2>4, <2>5
<1> QED
    BY <1>1, <1>4, <1>5

\* All requests: the nodes that were asked for, and the registers.
LEMMA AllRequests ==
    ASSUME RequestTypes
    PROVE  ScopeOf(Messages) = Requested /\ RegistersOf(Messages) = asked_regs
<1>1. /\ Len(Chunks(node_ids)) \in Nat /\ asked_regs \in Nat
      /\ DOMAIN Chunks(node_ids) = 1 .. Len(Chunks(node_ids))
      /\ UNION { Chunks(node_ids)[i] : i \in DOMAIN Chunks(node_ids) } = ToSet(node_ids)
    BY WritesFacts, ChunkFacts DEF RequestTypes
<1>2. { j \in DOMAIN Chunks(node_ids) : j <= Messages } = DOMAIN Chunks(node_ids)
    BY <1>1 DEF Messages
<1>3. ScopeOf(Messages) = Requested
    BY <1>1, <1>2 DEF ScopeOf, Requested
<1>4. RegistersOf(Messages) = asked_regs
    BY <1>1 DEF RegistersOf, Messages
<1> QED
    BY <1>3, <1>4

\* A node that nobody asked, or that has nothing to answer for, has clean books.
LEMMA CleanBooks ==
    ASSUME UNCHANGED requestVars, RequestTypes, NEW n \in Nodes, collected'[n] = NoEntry, Unread(n)' = {},
           Done(n)' => Expected(n) = 0, ~Done(n)' => reg_index'[n] = 0, n \notin failed'
    PROVE  Booked(n)'
<1>1. UnreadItems(n)' = {}
    BY DEF UnreadItems
<1>2. collected'[n].items = << >> /\ Len(collected'[n].items) = 0 /\ DOMAIN collected'[n].items = {}
    BY DEF NoEntry
<1>3. NoEntry # FailedEntry
    BY DEF NoEntry, FailedEntry
<1>4. {} = 0 .. 0 - 1
    OBVIOUS
<1>5. Accounted(n, 0)'
    BY <1>1, <1>2, <1>3, <1>4, SameRequest DEF Accounted
<1>6. FromTheFirst(collected[n])' /\ InOrder(n)'
    BY <1>1, <1>2, <1>3 DEF FromTheFirst, InOrder
<1> QED
    BY <1>5, <1>6, SameRequest DEF Booked

LEMMA ServiceInputKeeps ==
    ASSUME RequestInv, ServiceInput
    PROVE  RequestInv'
<1> USE DEF RequestInv
<1>0. /\ UNCHANGED requestVars
      /\ UNCHANGED << sender, copen, collected, results, cup, sup, s2c, reg_index, pending, todo,
                      write_lost, failed >>
      /\ c2s # << >> /\ c2s' = Tail(c2s) /\ Head(c2s).kind \in {"scope", "register"}
    BY DEF ServiceInput, ServiceReads, clientVars, pipeVars
<1>1. PICK p, q \in 0 .. Messages + 1 : UnderWay(p, q)
    BY DEF Requesting
<1>2. /\ p \in Nat /\ q \in Nat /\ Messages \in Nat /\ c2s' \in Seq(Up)
      /\ q > 0 => Head(c2s) = ConnectedWrites[p + 1]
      /\ q = 0 => Head(c2s) = End(FALSE, "none")
    BY <1>0, <1>1, TailRequests
<1>3. q > 0
  <2>1. End(FALSE, "none").kind = "end"
    BY DEF End
  <2>2. q # 0
    BY <1>0, <1>2, <2>1
  <2> QED
    BY <1>2, <2>2
<1>4. fsm \in {"none", "collecting"} /\ cnxt = ScopeOf(p) /\ registers = RegistersOf(p) /\ Messages > 0
      /\ sender # "made" /\ p + q <= Messages + 1
    BY <1>1, <1>3 DEF UnderWay
<1>5. p < Messages
  <2>1. p # Messages
    <3>1. ConnectedWrites[Messages + 1].kind = "end"
      BY WritesFacts DEF End
    <3> QED
      BY <1>0, <1>2, <1>3, <3>1
  <2> QED
    BY <1>2, <1>3, <1>4, <2>1
<1>6. /\ fsm' = "collecting"
      /\ cnxt' = IF Head(c2s).kind = "scope" THEN cnxt \cup Head(c2s).ids ELSE cnxt
      /\ registers' = IF Head(c2s).kind = "register" THEN registers + 1 ELSE registers
    BY <1>4 DEF ServiceInput
<1>7. cnxt' = ScopeOf(p + 1) /\ registers' = RegistersOf(p + 1)
    BY <1>2, <1>3, <1>4, <1>5, <1>6, OneMoreRequest
<1>8. RequestTypes'
    BY <1>0, SameRequest
<1>9. StateTypes'
  <2>1. cnxt' \subseteq Nodes
    <3>1. Head(c2s) \in Up
      BY <1>0 DEF StateTypes
    <3>2. Head(c2s).kind = "scope" => Head(c2s).ids \subseteq Nodes
      BY <3>1 DEF Up
    <3> QED
      BY <1>6, <3>2 DEF StateTypes
  <2>2. registers' \in 0 .. asked_regs
    <3>1. Len(Chunks(node_ids)) \in Nat /\ asked_regs \in Nat
      BY WritesFacts
    <3> QED
      BY <1>2, <1>5, <1>7, <3>1 DEF RegistersOf, Messages
  <2> QED
    BY <1>0, <1>2, <1>6, <2>1, <2>2, SameRequest DEF StateTypes
<1>10. Requesting'
  <2>1. /\ p + 1 \in 0 .. Messages + 1 /\ q - 1 \in 0 .. Messages + 1
        /\ (p + 1) + (q - 1) <= Messages + 1 /\ q - 1 <= Len(c2s')
        /\ \A j \in 1 .. q - 1 : c2s'[j] = ConnectedWrites[(p + 1) + j]
        /\ \A j \in (q - 1) + 1 .. Len(c2s') : c2s'[j] = End(FALSE, "none")
    BY <1>0, <1>1, <1>3, ReadOneRequest
  <2>2. p + 1 <= Messages
    BY <1>2, <1>5
  <2>3. UnderWay(p + 1, q - 1)'
    BY <1>0, <1>4, <1>6, <1>7, <2>1, <2>2, SameRequest DEF UnderWay
  <2> QED
    BY <1>0, <2>1, <2>3, SameRequest DEF Requesting
<1>11. Contexts'
    BY <1>0, <1>4, <1>6, SameRequest DEF Contexts
<1>12. s2c = << >> /\ ~Ended'
  <2>1. s2c = << >>
    BY <1>4 DEF Replies
  <2> QED
    BY <1>0, <2>1 DEF Ended
<1>13. Replies'
    BY <1>0, <1>4, <1>6, <1>12, SameRequest DEF Replies
<1>14. Books'
    BY <1>6, <1>12 DEF Books, Working
<1>15. WholeReports'
    BY <1>0, SameReports
<1> QED
    BY <1>8, <1>9, <1>10, <1>11, <1>13, <1>14, <1>15

\* A canceled Fsm sends nothing more; one that has sent its end is released already.
LEMMA CancelKeeps ==
    ASSUME RequestInv, Cancel, todo = << >>, UNCHANGED requestVars,
           UNCHANGED << sender, copen, collected, results, cup, s2c, reg_index, registers, todo,
                        write_lost, failed >>
    PROVE  /\ RequestTypes' /\ Contexts' /\ Replies' /\ Books' /\ WholeReports'
           /\ fsm' \in {"none", "released"} /\ (fsm' = "none" <=> fsm = "none") /\ cnxt' = {}
<1> USE DEF RequestInv
<1>1. fsm' \in {"none", "released"} /\ (fsm' = "none" <=> fsm = "none") /\ cnxt' = {} /\ pending' = {}
    BY DEF Cancel
<1>2. Contexts'
  <2>1. ToSet(todo) = {}
    BY DEF ToSet
  <2> QED
    BY <1>1, <2>1, SameRequest DEF Contexts
<1>3. UNCHANGED << requestVars, s2c >> /\ UNCHANGED << requestVars, s2c, collected >>
    OBVIOUS
<1>4. (Ended' <=> Ended) /\ (Ended => fsm = "released")
    BY <1>3, SameUnread DEF Replies
<1>5. Replies'
    BY <1>1, <1>4, SameRequest DEF Replies
<1>6. Books'
  <2> SUFFICES ASSUME copen, cup, ~write_lost, Working', NEW n \in Nodes
               PROVE  Booked(n)'
    BY DEF Books
  <2>1. Ended /\ fsm = "released"
    BY <1>1, <1>4 DEF Working
  <2>2. Done(n)' <=> Done(n)
    BY <1>4, <2>1, SameRequest DEF Done
  <2>3. Booked(n)
    BY <2>1 DEF Books, Working
  <2> QED
    BY <1>3, <2>2, <2>3, SameBooked
<1>7. WholeReports'
    BY SameReports
<1> QED
    BY <1>1, <1>2, <1>5, <1>6, <1>7, SameRequest

LEMMA NothingYet ==
    ASSUME RequestTypes
    PROVE  ScopeOf(0) = {} /\ RegistersOf(0) = 0
<1>1. Len(Chunks(node_ids)) \in Nat /\ DOMAIN Chunks(node_ids) = 1 .. Len(Chunks(node_ids))
    BY ChunkFacts DEF RequestTypes
<1>2. \A j \in DOMAIN Chunks(node_ids) : ~(j <= 0)
    BY <1>1
<1> QED
    BY <1>1, <1>2 DEF ScopeOf, RegistersOf

LEMMA ServiceCanceledKeeps ==
    ASSUME RequestInv, ServiceCanceled
    PROVE  RequestInv'
<1> USE DEF RequestInv
<1>0. /\ UNCHANGED requestVars
      /\ UNCHANGED << sender, copen, collected, results, cup, s2c, reg_index, registers, todo,
                      write_lost, failed >>
      /\ c2s # << >> /\ c2s' = Tail(c2s) /\ Head(c2s).kind = "end" /\ ~Head(c2s).keep_alive
      /\ Cancel /\ todo = << >> /\ sup' = sup
    BY DEF ServiceCanceled, ServiceReads, clientVars, pipeVars
<1>1. /\ RequestTypes' /\ Contexts' /\ Replies' /\ Books' /\ WholeReports'
      /\ fsm' \in {"none", "released"} /\ (fsm' = "none" <=> fsm = "none") /\ cnxt' = {}
    BY <1>0, CancelKeeps
<1>2. PICK p, q \in 0 .. Messages + 1 : UnderWay(p, q)
    BY DEF Requesting
<1>3. /\ p \in Nat /\ q \in Nat /\ Messages \in Nat /\ c2s' \in Seq(Up)
      /\ Len(c2s') = Len(c2s) - 1 /\ Len(c2s) \in Nat /\ Len(c2s) > 0
      /\ \A j \in 1 .. Len(c2s') : c2s'[j] = c2s[j + 1]
      /\ q > 0 => Head(c2s) = ConnectedWrites[p + 1]
    BY <1>0, <1>2, TailRequests
<1>4. q = 0
  <2>1. SUFFICES ASSUME q > 0 PROVE FALSE
    BY <1>3
  <2>2. p <= Messages
    BY <1>2, <1>3, <2>1 DEF UnderWay
  <2>3. CASE p < Messages
    <3>1. ConnectedWrites[p + 1].kind \in {"scope", "register"}
      BY <1>3, <2>3, OneMoreRequest
    <3> QED
      BY <1>0, <1>3, <2>1, <3>1
  <2>4. CASE p = Messages
    <3>1. ConnectedWrites[p + 1].keep_alive = TRUE
      BY <2>4, WritesFacts DEF End
    <3> QED
      BY <1>0, <1>3, <2>1, <3>1
  <2> QED
    BY <1>3, <2>2, <2>3, <2>4
<1>5. StateTypes'
    BY <1>0, <1>1, <1>3, SameRequest DEF StateTypes
<1>6. Requesting'
  <2>1. /\ p + 0 <= Messages + 1 /\ 0 <= Len(c2s') /\ 0 \in 0 .. Messages + 1 /\ ~(0 > 0)
        /\ \A j \in 1 .. 0 : FALSE
    BY <1>3
  <2>2. ASSUME NEW j \in 0 + 1 .. Len(c2s') PROVE c2s'[j] = End(FALSE, "none")
    <3>1. j + 1 \in q + 1 .. Len(c2s) /\ j \in 1 .. Len(c2s')
      BY <1>3, <1>4
    <3> QED
      BY <1>2, <1>3, <3>1 DEF UnderWay
  <2>3. sender # "made"
    BY <1>0, <1>2 DEF UnderWay
  <2>4. fsm' = "none" => p = 0 /\ p <= Messages /\ cnxt' = ScopeOf(p) /\ registers' = RegistersOf(p)
    BY <1>0, <1>1, <1>2, <1>3, NothingYet DEF UnderWay
  <2>5. UnderWay(p, 0)'
    BY <1>0, <1>1, <2>1, <2>2, <2>3, <2>4, SameRequest DEF UnderWay
  <2> QED
    BY <1>0, <2>1, <2>5, SameRequest DEF Requesting
<1> QED
    BY <1>1, <1>5, <1>6

LEMMA ServiceDisconnectedKeeps ==
    ASSUME RequestInv, ServiceDisconnected
    PROVE  RequestInv'
<1> USE DEF RequestInv
<1>0. /\ UNCHANGED requestVars
      /\ UNCHANGED << sender, copen, collected, results, cup, s2c, reg_index, registers, todo,
                      write_lost, failed >>
      /\ c2s' = << >> /\ Cancel /\ todo = << >> /\ sup' = FALSE
    BY DEF ServiceDisconnected, clientVars
<1>1. /\ RequestTypes' /\ Contexts' /\ Replies' /\ Books' /\ WholeReports'
      /\ fsm' \in {"none", "released"} /\ (fsm' = "none" <=> fsm = "none") /\ cnxt' = {}
    BY <1>0, CancelKeeps
<1>2. PICK p, q \in 0 .. Messages + 1 : UnderWay(p, q)
    BY DEF Requesting
<1>3. p \in Nat /\ Messages \in Nat /\ c2s' \in Seq(Up) /\ Len(c2s') = 0
    BY <1>0, WritesFacts
<1>4. StateTypes'
    BY <1>0, <1>1, <1>3, SameRequest DEF StateTypes
<1>5. Requesting'
  <2>1. /\ p + 0 <= Messages + 1 /\ 0 <= Len(c2s') /\ 0 \in 0 .. Messages + 1 /\ ~(0 > 0)
        /\ \A j \in 1 .. 0 : FALSE
        /\ \A j \in 0 + 1 .. Len(c2s') : FALSE
    BY <1>3
  <2>2. fsm' = "none" => p = 0 /\ p <= Messages /\ cnxt' = ScopeOf(p) /\ registers' = RegistersOf(p)
    BY <1>0, <1>1, <1>2, <1>3, NothingYet DEF UnderWay
  <2>3. sender = "made" => p = 0 /\ fsm = "none"
    BY <1>2 DEF UnderWay
  <2>4. UnderWay(p, 0)'
    BY <1>0, <1>1, <2>1, <2>2, <2>3, SameRequest DEF UnderWay
  <2> QED
    BY <1>0, <2>1, <2>4, SameRequest DEF Requesting
<1> QED
    BY <1>1, <1>4, <1>5

-----------------------------------------------------------------------------
(***************************************************************************)
(* The work starts.                                                        *)
(***************************************************************************)

\* A span names finitely many nodes, and a walk through them meets each one once.
LEMMA SpanIsFinite ==
    ASSUME NEW S, NEW s \in Seq(S)
    PROVE  IsFiniteSet(ToSet(s))
<1>1. Len(s) \in Nat /\ DOMAIN s = 1 .. Len(s)
    OBVIOUS
<1>2. s \in [ 1 .. Len(s) -> ToSet(s) ] /\ \A t \in ToSet(s) : \E i \in 1 .. Len(s) : s[i] = t
    BY <1>1 DEF ToSet
<1>3. s \in Surjection(1 .. Len(s), ToSet(s))
    BY <1>2 DEF Surjection
<1>4. IsFiniteSet(1 .. Len(s))
    BY <1>1, FS_Interval
<1> QED
    BY <1>3, <1>4, FS_Surjection

LEMMA WalkOnce ==
    ASSUME NEW C, IsFiniteSet(C), NEW s \in [ 1 .. Cardinality(C) -> C ], ToSet(s) = C
    PROVE  s \in Seq(C) /\ IsInjective(s)
<1>1. Cardinality(C) \in Nat
    BY FS_CardinalityType
<1>2. s \in Surjection(1 .. Cardinality(C), C)
    BY DEF Surjection, ToSet
<1>3. IsFiniteSet(1 .. Cardinality(C)) /\ Cardinality(1 .. Cardinality(C)) = Cardinality(C)
    BY <1>1, FS_Interval
<1>4. s \in Injection(1 .. Cardinality(C), C)
    BY <1>2, <1>3, FS_Surjection
<1>5. IsInjective(s)
    BY <1>4 DEF Injection
<1> QED
    BY <1>1, <1>5

\* What the keep-alive end finds: the requests were all read and nothing was sent.
LEMMA AllIsRead ==
    ASSUME RequestInv, c2s # << >>, Head(c2s).kind = "end", Head(c2s).keep_alive, UNCHANGED requestVars,
           UNCHANGED sender, c2s' = Tail(c2s), registers' = registers,
           fsm = "collecting" => fsm' \in {"processing", "released"}
    PROVE  /\ fsm = "collecting" /\ cnxt = Requested /\ registers = asked_regs /\ sender # "made"
           /\ c2s' \in Seq(Up) /\ Requesting'
<1> USE DEF RequestInv
<1>1. PICK p, q \in 0 .. Messages + 1 : UnderWay(p, q)
    BY DEF Requesting
<1>2. /\ p \in Nat /\ q \in Nat /\ Messages \in Nat /\ c2s' \in Seq(Up)
      /\ q > 0 => Head(c2s) = ConnectedWrites[p + 1]
      /\ q = 0 => Head(c2s) = End(FALSE, "none")
    BY <1>1, TailRequests
<1>3. q > 0
  <2>1. End(FALSE, "none").keep_alive = FALSE
    BY DEF End
  <2>2. q # 0
    BY <1>2, <2>1
  <2> QED
    BY <1>2, <2>2
<1>4. /\ fsm \in {"none", "collecting"} /\ cnxt = ScopeOf(p) /\ registers = RegistersOf(p)
      /\ Messages > 0 /\ p + q <= Messages + 1 /\ (fsm = "none" => p = 0) /\ sender # "made"
    BY <1>1, <1>3 DEF UnderWay
<1>5. p = Messages
  <2>1. ~(p < Messages)
    <3>1. ASSUME p < Messages PROVE ConnectedWrites[p + 1].kind \in {"scope", "register"}
      BY <1>2, <3>1, OneMoreRequest
    <3> QED
      BY <1>2, <1>3, <3>1
  <2> QED
    BY <1>2, <1>3, <1>4, <2>1
<1>6. fsm = "collecting" /\ cnxt = Requested /\ registers = asked_regs
    BY <1>2, <1>4, <1>5, AllRequests
<1>7. Requesting'
  <2>1. /\ p + 1 \in 0 .. Messages + 1 /\ q - 1 \in 0 .. Messages + 1
        /\ (p + 1) + (q - 1) <= Messages + 1 /\ q - 1 <= Len(c2s')
        /\ \A j \in 1 .. q - 1 : c2s'[j] = ConnectedWrites[(p + 1) + j]
        /\ \A j \in (q - 1) + 1 .. Len(c2s') : c2s'[j] = End(FALSE, "none")
    BY <1>1, <1>3, ReadOneRequest
  <2>2. ~(q - 1 > 0)
    BY <1>2, <1>3, <1>4, <1>5
  <2>3. UnderWay(p + 1, q - 1)'
    BY <1>4, <1>6, <2>1, <2>2, SameRequest DEF UnderWay
  <2> QED
    BY <2>1, <2>3, SameRequest DEF Requesting
<1> QED
    BY <1>2, <1>4, <1>6, <1>7

LEMMA ServiceStartsKeeps ==
    ASSUME RequestInv, ServiceStarts
    PROVE  RequestInv'
<1> USE DEF RequestInv
<1>0. /\ UNCHANGED requestVars
      /\ UNCHANGED << sender, copen, collected, results, cup, sup, reg_index, registers, failed >>
      /\ c2s # << >> /\ c2s' = Tail(c2s) /\ Head(c2s).kind = "end" /\ Head(c2s).keep_alive
      /\ todo = << >>
    BY DEF ServiceStarts, ServiceReads, clientVars, pipeVars
<1>1. fsm = "collecting" => fsm' \in {"processing", "released"}
    BY DEF ServiceStarts, Complete
<1>2. fsm = "collecting"
    BY <1>0, <1>1, AllIsRead
<1>3. /\ cnxt = Requested /\ registers = asked_regs /\ sender # "made"
      /\ c2s' \in Seq(Up) /\ Requesting'
    BY <1>0, <1>1, <1>2, AllIsRead
<1>4. /\ s2c = << >> /\ ~Ended /\ collected = [ n \in Nodes |-> NoEntry ]
      /\ reg_index = [ n \in Nodes |-> 0 ] /\ pending = {} /\ ToSet(todo) = {} /\ failed = {}
  <2>1. s2c = << >> /\ collected = [ n \in Nodes |-> NoEntry ] /\ reg_index = [ n \in Nodes |-> 0 ]
        /\ failed = {}
    BY <1>2 DEF Replies
  <2>2. pending = {}
    BY <1>2 DEF Contexts
  <2> QED
    BY <1>0, <2>1, <2>2 DEF Ended, ToSet
<1>5. RequestTypes'
    BY <1>0, SameRequest
<1>6. CASE NothingToDo
  <2>1. /\ fsm' = "released" /\ cnxt' = {} /\ pending' = {} /\ todo' = todo
        /\ write_lost' \in BOOLEAN /\ (write_lost => write_lost')
        /\ s2c' \in { << End(FALSE, "none") >>, << >> }
    <3>1. Complete(<< >>, FALSE) /\ todo' = todo
      BY <1>2, <1>6 DEF ServiceStarts
    <3>2. s2c \o << >> = << >> /\ s2c \o << >> \o << End(FALSE, "none") >> = << End(FALSE, "none") >>
      BY <1>4
    <3> QED
      BY <1>4, <3>1, <3>2 DEF Complete
  <2>2. /\ s2c' \in Seq(Down) /\ \A j \in DOMAIN s2c' : j = Len(s2c') /\ s2c'[j].kind = "end"
    <3>1. End(FALSE, "none") \in Down /\ End(FALSE, "none").kind = "end"
      BY DEF End, Down
    <3>2. CASE s2c' = << >>
      BY <3>2
    <3>3. CASE s2c' = << End(FALSE, "none") >>
      <4>1. ASSUME NEW e \in Down
            PROVE  << e >> \in Seq(Down) /\ \A j \in DOMAIN << e >> : j = Len(<< e >>) /\ << e >>[j] = e
        OBVIOUS
      <4> QED
        BY <3>1, <3>3, <4>1, Zenon
    <3> QED
      BY <2>1, <3>2, <3>3
  <2>3. StateTypes'
    BY <1>0, <1>3, <2>1, <2>2, SameRequest DEF StateTypes
  <2>4. Contexts'
    BY <1>0, <1>4, <2>1, SameRequest DEF Contexts
  <2>5. Replies'
    BY <1>0, <1>3, <2>1, <2>2, SameRequest DEF Replies
  <2>6. Books'
    <3> SUFFICES ASSUME NEW n \in Nodes PROVE Booked(n)'
      BY DEF Books
    <3>1. Unread(n)' = {}
      BY <2>2 DEF Unread
    <3>2. Done(n)' => Expected(n) = 0
      BY <1>0, <1>3, <1>6, SameRequest, LimitFacts DEF Done, NothingToDo
    <3> QED
      BY <1>0, <1>4, <3>1, <3>2, CleanBooks
  <2>7. WholeReports'
    BY <1>0, <2>1, SameReports
  <2> QED
    BY <1>3, <1>5, <2>3, <2>4, <2>5, <2>6, <2>7
<1>7. CASE ~NothingToDo
  <2>1. /\ fsm' = "processing" /\ UNCHANGED << cnxt, pending, s2c, write_lost >>
        /\ todo' \in [ 1 .. Cardinality(cnxt) -> cnxt ] /\ ToSet(todo)' = cnxt
    BY <1>2, <1>7 DEF ServiceStarts
  <2>2. todo' \in Seq(Nodes) /\ IsInjective(todo')
    <3>1. IsFiniteSet(cnxt) /\ cnxt \subseteq Nodes
      BY <1>3, SpanIsFinite DEF RequestTypes, Requested, StateTypes
    <3>2. PICK t : t = todo' /\ t \in [ 1 .. Cardinality(cnxt) -> cnxt ] /\ ToSet(t) = cnxt
      BY <2>1
    <3>3. t \in Seq(cnxt) /\ IsInjective(t)
      BY <3>1, <3>2, WalkOnce
    <3> QED
      BY <3>1, <3>2, <3>3
  <2>3. StateTypes'
    BY <1>0, <1>3, <2>1, <2>2, SameRequest DEF StateTypes
  <2>4. cnxt # {} /\ (service = "access" => registers > 0)
    BY <1>7, Constants DEF NothingToDo, StateTypes, RequestTypes
  <2>5. Contexts'
    <3>1. \A n \in ToSet(todo)' : reg_index'[n] = 0
      BY <1>0, <1>4, <2>1 DEF StateTypes
    <3>2. pending' = {} /\ IsInjective(todo)' /\ ToSet(todo)' = cnxt'
      BY <1>4, <2>1, <2>2
    <3>3. \A n \in Nodes : reg_index'[n] <= Limit(n)'
      BY <1>0, SameRequest DEF Contexts
    <3> QED
      BY <1>0, <1>3, <2>1, <2>4, <3>1, <3>2, <3>3, SameRequest DEF Contexts
  <2>6. Replies'
    BY <1>0, <1>3, <1>4, <2>1, SameRequest DEF Replies, Ended
  <2>7. Books'
    <3> SUFFICES ASSUME NEW n \in Nodes PROVE Booked(n)'
      BY DEF Books
    <3>1. Unread(n)' = {} /\ ~Ended'
      BY <1>4, <2>1 DEF Unread, Ended
    <3>2. ~Done(n)'
      BY <1>0, <1>3, <2>1, <3>1, SameRequest DEF Done
    <3> QED
      BY <1>0, <1>4, <3>1, <3>2, CleanBooks
  <2>8. WholeReports'
    BY <1>0, <2>1, SameReports
  <2> QED
    BY <1>3, <1>5, <2>3, <2>5, <2>6, <2>7, <2>8
<1> QED
    BY <1>6, <1>7

-----------------------------------------------------------------------------
(***************************************************************************)
(* The work on a node.                                                     *)
(***************************************************************************)

\* The client's pipe a holds s, then the answers in out and, if the request ended, its end.
IsExtended(a, s, out, ended) ==
    /\ a \in Seq(Down) /\ Len(s) \in Nat /\ Len(out) \in Nat /\ Len(a) \in Nat
    /\ DOMAIN s = 1 .. Len(s) /\ DOMAIN out = 1 .. Len(out) /\ DOMAIN a = 1 .. Len(a)
    /\ \A j \in 1 .. Len(s) : j \in 1 .. Len(a) /\ a[j] = s[j]
    /\ \A k \in 1 .. Len(out) : Len(s) + k \in 1 .. Len(a) /\ a[Len(s) + k] = out[k]
    /\ ended => Len(a) \notin 1 .. Len(s) /\ Len(a) > 0 /\ a[Len(a)] = End(FALSE, "none")
    /\ \A j \in DOMAIN a : \/ j \in 1 .. Len(s)
                           \/ \E k \in 1 .. Len(out) : j = Len(s) + k
                           \/ ended /\ j = Len(a)

LEMMA ExtendedFacts ==
    ASSUME NEW s \in Seq(Down), NEW out \in Seq(Down)
    PROVE  /\ IsExtended(s \o out, s, out, FALSE)
           /\ IsExtended(s \o out \o << End(FALSE, "none") >>, s, out, TRUE)
<1>1. End(FALSE, "none") \in Down
    BY DEF End, Down
<1>2. \A l, m \in Nat : \A j \in 1 .. l + m : j \in 1 .. l \/ \E k \in 1 .. m : j = l + k
  <2>1. \A l, m \in Nat : \A j \in 1 .. l + m : j \in 1 .. l \/ (j - l \in 1 .. m /\ j = l + (j - l))
    OBVIOUS
  <2> QED
    BY ONLY <2>1
<1>3. \A l, m \in Nat : \A j \in 1 .. l + m + 1 :
            j \in 1 .. l \/ (j - l \in 1 .. m /\ j = l + (j - l)) \/ j = l + m + 1
    OBVIOUS
<1>4. Len(s) \in Nat /\ Len(out) \in Nat /\ DOMAIN s = 1 .. Len(s) /\ DOMAIN out = 1 .. Len(out)
    OBVIOUS
<1>5. IsExtended(s \o out, s, out, FALSE)
  <2>1. /\ s \o out \in Seq(Down) /\ Len(s \o out) = Len(s) + Len(out)
        /\ DOMAIN (s \o out) = 1 .. Len(s) + Len(out)
        /\ \A j \in 1 .. Len(s) : (s \o out)[j] = s[j]
        /\ \A k \in 1 .. Len(out) : (s \o out)[Len(s) + k] = out[k]
    OBVIOUS
  <2> DEFINE a == s \o out
  <2> HIDE DEF a
  <2>2. /\ a \in Seq(Down) /\ Len(a) = Len(s) + Len(out) /\ DOMAIN a = 1 .. Len(s) + Len(out)
        /\ \A j \in 1 .. Len(s) : a[j] = s[j]
        /\ \A k \in 1 .. Len(out) : a[Len(s) + k] = out[k]
    BY <2>1 DEF a
  <2>3. ASSUME NEW j \in DOMAIN a PROVE j \in 1 .. Len(s) \/ \E k \in 1 .. Len(out) : j = Len(s) + k
    <3>1. j \in 1 .. Len(s) + Len(out)
      BY <2>2
    <3> QED
      BY ONLY <1>2, <1>4, <3>1
  <2>4. IsExtended(a, s, out, FALSE)
    BY <1>4, <2>2, <2>3 DEF IsExtended
  <2> QED
    BY <2>4 DEF a
<1>6. IsExtended(s \o out \o << End(FALSE, "none") >>, s, out, TRUE)
  <2> DEFINE e == End(FALSE, "none")
             a == s \o out \o << e >>
  <2> HIDE DEF e
  <2>1. e \in Down
    BY <1>1 DEF e
  <2>2. /\ a \in Seq(Down) /\ Len(a) = Len(s) + Len(out) + 1 /\ DOMAIN a = 1 .. Len(s) + Len(out) + 1
        /\ \A j \in 1 .. Len(s) : a[j] = s[j]
        /\ \A k \in 1 .. Len(out) : a[Len(s) + k] = out[k]
        /\ a[Len(s) + Len(out) + 1] = e
    <3>1. ASSUME NEW t \in Seq(Down), NEW x \in Down
          PROVE  /\ t \o << x >> \in Seq(Down) /\ Len(t \o << x >>) = Len(t) + 1
                 /\ DOMAIN (t \o << x >>) = 1 .. Len(t) + 1
                 /\ \A j \in 1 .. Len(t) : (t \o << x >>)[j] = t[j]
                 /\ (t \o << x >>)[Len(t) + 1] = x
      OBVIOUS
    <3>2. /\ s \o out \in Seq(Down) /\ Len(s \o out) = Len(s) + Len(out)
          /\ \A j \in 1 .. Len(s) : (s \o out)[j] = s[j]
          /\ \A k \in 1 .. Len(out) : (s \o out)[Len(s) + k] = out[k]
      OBVIOUS
    <3> DEFINE t == s \o out
    <3> HIDE DEF t
    <3>3. /\ t \in Seq(Down) /\ Len(t) = Len(s) + Len(out)
          /\ \A j \in 1 .. Len(s) : t[j] = s[j]
          /\ \A k \in 1 .. Len(out) : t[Len(s) + k] = out[k]
      BY <3>2 DEF t
    <3>4. /\ a \in Seq(Down) /\ Len(a) = Len(t) + 1 /\ DOMAIN a = 1 .. Len(t) + 1
          /\ \A j \in 1 .. Len(t) : a[j] = t[j]
          /\ a[Len(t) + 1] = e
      <4>1. a = t \o << e >>
        BY DEF t
      <4>2. t \in Seq(Down)
        BY <3>3
      <4> HIDE DEF a
      <4>3. /\ t \o << e >> \in Seq(Down) /\ Len(t \o << e >>) = Len(t) + 1
            /\ DOMAIN (t \o << e >>) = 1 .. Len(t) + 1
            /\ \A j \in 1 .. Len(t) : (t \o << e >>)[j] = t[j]
            /\ (t \o << e >>)[Len(t) + 1] = e
        BY ONLY <2>1, <3>1, <4>2, Zenon
      <4> QED
        BY ONLY <4>1, <4>3, Zenon
    <3> HIDE DEF a
    <3>5. /\ \A j \in 1 .. Len(s) : j \in 1 .. Len(t)
          /\ \A k \in 1 .. Len(out) : Len(s) + k \in 1 .. Len(t)
      BY <1>4, <3>3
    <3> QED
      BY ONLY <3>3, <3>4, <3>5, Zenon
  <2> HIDE DEF a
  <2>3. ASSUME NEW j \in DOMAIN a
        PROVE  j \in 1 .. Len(s) \/ (\E k \in 1 .. Len(out) : j = Len(s) + k) \/ j = Len(a)
    BY <1>3, <1>4, <2>2, Zenon
  <2>4. IsExtended(a, s, out, TRUE)
    BY <1>4, <2>2, <2>3 DEF IsExtended, e
  <2> QED
    BY <2>4 DEF a, e
<1> QED
    BY <1>5, <1>6

(***************************************************************************)
(* What the work on a node does, the writes taken together: the answers of *)
(* which out is what got through, and the end of the request.              *)
(***************************************************************************)
Effect(n, o, out, ended) ==
    /\ out \in Seq(Answers) /\ \A k \in DOMAIN out : \E i \in DOMAIN o.answers : out[k] = o.answers[i]
    /\ out = o.answers \/ write_lost'
    /\ write_lost' \in BOOLEAN /\ (write_lost => write_lost')
    /\ failed' = IF o.fails THEN failed \cup {n} ELSE failed
    /\ reg_index' = [ reg_index EXCEPT ![n] = o.index ]
    /\ o.last /\ LastRelease(n) => fsm' = "released" /\ cnxt' = {} /\ pending' = {} /\ (ended \/ write_lost')
    /\ ~(o.last /\ LastRelease(n)) =>
        /\ fsm' = fsm /\ ~ended
        /\ cnxt' = IF o.last THEN cnxt \ {n} ELSE cnxt
        /\ pending' = IF o.last THEN pending \ {n} ELSE pending \cup {n}
    /\ cup => IsExtended(s2c', s2c, out, ended)
    /\ ~cup => s2c' = s2c

LEMMA WorkEffect ==
    ASSUME StateTypes, NEW n, NEW i, NEW o, Good(n, i, o), Work(n, o)
    PROVE  \E out, ended : ended \in BOOLEAN /\ Effect(n, o, out, ended)
<1>1. PICK kept \in Kept(o.answers) :
        LET out  == [ k \in DOMAIN kept |-> o.answers[kept[k]] ]
            lost == kept # [ k \in 1 .. Len(o.answers) |-> k ]
        IN  /\ lost => SendMayFail
            /\ failed' = IF o.fails THEN failed \cup {n} ELSE failed
            /\ reg_index' = [ reg_index EXCEPT ![n] = o.index ]
            /\ \/ /\ o.last /\ LastRelease(n)
                  /\ Complete(out, lost)
               \/ /\ ~(o.last /\ LastRelease(n))
                  /\ cnxt' = IF o.last THEN cnxt \ {n} ELSE cnxt
                  /\ pending' = IF o.last THEN pending \ {n} ELSE pending \cup {n}
                  /\ s2c' = IF cup THEN s2c \o out ELSE s2c
                  /\ write_lost' = (write_lost \/ lost)
                  /\ UNCHANGED fsm
    BY Zenon DEF Work
<1> DEFINE out == [ k \in DOMAIN kept |-> o.answers[kept[k]] ]
           lost == kept # [ k \in 1 .. Len(o.answers) |-> k ]
<1>2. o.answers \in Seq(Answers)
    BY DEF Good
<1>3. /\ out \in Seq(Answers) /\ \A k \in DOMAIN out : \E j \in DOMAIN o.answers : out[k] = o.answers[j]
      /\ ~lost => out = o.answers
  <2> HIDE DEF out
  <2>1. PICK ans : ans = o.answers
    OBVIOUS
  <2>2. ans \in Seq(Answers) /\ kept \in Kept(ans) /\ out = [ k \in DOMAIN kept |-> ans[kept[k]] ]
    BY <1>2, <2>1 DEF out
  <2>3. out \in Seq(Answers) /\ IsKept(out, ans, kept)
    BY ONLY <2>2, KeptFacts, Zenon
  <2> QED
    BY ONLY <2>1, <2>3, Zenon DEF lost, IsKept
<1>4. /\ failed' = IF o.fails THEN failed \cup {n} ELSE failed
      /\ reg_index' = [ reg_index EXCEPT ![n] = o.index ]
      /\ \/ o.last /\ LastRelease(n) /\ Complete(out, lost)
         \/ /\ ~(o.last /\ LastRelease(n))
            /\ cnxt' = IF o.last THEN cnxt \ {n} ELSE cnxt
            /\ pending' = IF o.last THEN pending \ {n} ELSE pending \cup {n}
            /\ s2c' = IF cup THEN s2c \o out ELSE s2c
            /\ write_lost' = (write_lost \/ lost)
            /\ fsm' = fsm
    BY <1>1, Zenon
<1>5. lost \in BOOLEAN /\ write_lost \in BOOLEAN
    BY DEF StateTypes
<1> HIDE DEF out, lost
<1>6. IsExtended(s2c \o out, s2c, out, FALSE) /\ IsExtended(s2c \o out \o << End(FALSE, "none") >>, s2c, out, TRUE)
  <2>1. s2c \in Seq(Down) /\ Answers \subseteq Down
    BY DEF StateTypes, Down
  <2>2. out \in Seq(Down)
    BY <1>3, <2>1
  <2> QED
    BY <2>1, <2>2, ExtendedFacts
<1>7. CASE o.last /\ LastRelease(n) /\ Complete(out, lost)
  <2>1. PICK ok \in BOOLEAN :
            /\ write_lost' = (write_lost \/ lost \/ ~ok)
            /\ s2c' = IF ok /\ cup THEN s2c \o out \o << End(FALSE, "none") >>
                      ELSE IF cup THEN s2c \o out ELSE s2c
    BY <1>7, Zenon DEF Complete
  <2>2. fsm' = "released" /\ cnxt' = {} /\ pending' = {}
    BY <1>7 DEF Complete
  <2>3. cup => IsExtended(s2c', s2c, out, ok)
    <3>1. CASE ok
      BY <1>6, <2>1, <3>1
    <3>2. CASE ~ok
      <4>1. ok = FALSE
        BY <3>2
      <4> QED
        BY <1>6, <2>1, <4>1
    <3> QED
      BY <3>1, <3>2
  <2>4. write_lost' \in BOOLEAN /\ (write_lost => write_lost') /\ (lost => write_lost') /\ (ok \/ write_lost')
    BY <1>5, <2>1
  <2>5. ~cup => s2c' = s2c
    BY <2>1
  <2>6. Effect(n, o, out, ok)
    BY <1>3, <1>4, <1>7, <2>2, <2>3, <2>4, <2>5, Zenon DEF Effect
  <2> QED
    BY <2>6
<1>8. CASE ~(o.last /\ LastRelease(n))
  <2>1. write_lost' \in BOOLEAN /\ (write_lost => write_lost') /\ (lost => write_lost')
    BY <1>4, <1>5, <1>8
  <2>2. (cup => IsExtended(s2c', s2c, out, FALSE)) /\ (~cup => s2c' = s2c)
    BY <1>4, <1>6, <1>8
  <2>3. Effect(n, o, out, FALSE)
    BY <1>3, <1>4, <1>8, <2>1, <2>2, Zenon DEF Effect
  <2> QED
    BY <2>3
<1> QED
    BY <1>4, <1>7, <1>8

\* What is under way when answers about node n were sent, and nothing had ended before.
LEMMA SentAnswers ==
    ASSUME ~Ended, NEW n, NEW out \in Seq(Answers), NEW ended \in BOOLEAN,
           IsExtended(s2c', s2c, out, ended), \A k \in DOMAIN out : out[k].node = n
    PROVE  /\ Ended' <=> ended
           /\ \A x : x # n => Unread(x)' = Unread(x)
           /\ \A x : \A j \in Unread(x) : j \in Unread(x)' /\ s2c'[j] = s2c[j] /\ j \in 1 .. Len(s2c)
           /\ \A j \in Unread(n)' : j \in Unread(n) \/ \E k \in 1 .. Len(out) : j = Len(s2c) + k
           /\ \A k \in 1 .. Len(out) : Len(s2c) + k \in Unread(n)' /\ s2c'[Len(s2c) + k] = out[k]
<1>1. /\ DOMAIN s2c = 1 .. Len(s2c) /\ DOMAIN out = 1 .. Len(out) /\ DOMAIN s2c' = 1 .. Len(s2c')
      /\ Len(s2c') \in Nat /\ Len(s2c) \in Nat
      /\ \A j \in 1 .. Len(s2c) : j \in 1 .. Len(s2c') /\ s2c'[j] = s2c[j]
      /\ \A k \in 1 .. Len(out) : Len(s2c) + k \in 1 .. Len(s2c') /\ s2c'[Len(s2c) + k] = out[k]
      /\ ended => Len(s2c') > 0 /\ s2c'[Len(s2c')] = End(FALSE, "none")
      /\ \A j \in DOMAIN s2c' : \/ j \in 1 .. Len(s2c)
                                \/ \E k \in 1 .. Len(out) : j = Len(s2c) + k
                                \/ ended /\ j = Len(s2c')
    BY Zenon DEF IsExtended
<1>2. End(FALSE, "none").kind = "end"
    BY DEF End
<1>3. \A k \in 1 .. Len(out) : out[k].kind = "answer" /\ out[k].node = n
  <2>1. \A k \in 1 .. Len(out) : out[k] \in Answers
    OBVIOUS
  <2>2. \A m \in Answers : m.kind = "answer"
    BY DEF Answers
  <2>3. \A k \in 1 .. Len(out) : out[k].node = n
    BY <1>1, Zenon
  <2> QED
    BY ONLY <2>1, <2>2, <2>3, Zenon
<1>4. Ended' <=> ended
  <2>1. ASSUME ended PROVE Ended'
    <3>1. Len(s2c') \in DOMAIN s2c'
      BY <1>1, <2>1
    <3> QED
      BY <1>1, <1>2, <2>1, <3>1 DEF Ended
  <2>2. ASSUME Ended', ~ended PROVE FALSE
    <3>1. PICK j \in DOMAIN s2c' : s2c'[j].kind = "end"
      BY <2>2 DEF Ended
    <3>2. j \notin 1 .. Len(s2c)
      BY <1>1, <3>1 DEF Ended
    <3>3. PICK k \in 1 .. Len(out) : j = Len(s2c) + k
      BY <1>1, <2>2, <3>2
    <3> QED
      BY <1>1, <1>3, <3>1, <3>3
  <2> QED
    BY <2>1, <2>2
<1>5. ASSUME NEW x, NEW j \in Unread(x)
      PROVE  j \in Unread(x)' /\ s2c'[j] = s2c[j] /\ j \in 1 .. Len(s2c)
  <2>1. j \in 1 .. Len(s2c) /\ s2c[j].kind = "answer" /\ s2c[j].node = x
    BY <1>1, <1>5 DEF Unread
  <2>2. j \in DOMAIN s2c' /\ s2c'[j] = s2c[j]
    BY ONLY <1>1, <2>1, Zenon
  <2> QED
    BY ONLY <2>1, <2>2, Zenon DEF Unread
<1>6. ASSUME NEW x, NEW j \in Unread(x)'
      PROVE  j \in Unread(x) \/ (x = n /\ \E k \in 1 .. Len(out) : j = Len(s2c) + k)
  <2>1. j \in DOMAIN s2c' /\ s2c'[j].kind = "answer" /\ s2c'[j].node = x
    BY ONLY <1>6, Zenon DEF Unread
  <2>2. CASE j \in 1 .. Len(s2c)
    <3>1. j \in DOMAIN s2c /\ s2c'[j] = s2c[j]
      BY ONLY <1>1, <2>2, Zenon
    <3> QED
      BY ONLY <2>1, <3>1, Zenon DEF Unread
  <2>3. CASE \E k \in 1 .. Len(out) : j = Len(s2c) + k
    <3>1. PICK k \in 1 .. Len(out) : j = Len(s2c) + k
      BY <2>3
    <3>2. s2c'[j].node = n
      BY ONLY <1>1, <1>3, <3>1, Zenon
    <3> QED
      BY ONLY <2>1, <3>1, <3>2, Zenon
  <2>4. CASE ended /\ j = Len(s2c')
    <3>1. s2c'[j].kind = "end"
      BY ONLY <1>1, <1>2, <2>4, Zenon
    <3> QED
      BY <2>1, <3>1
  <2> QED
    BY ONLY <1>1, <2>1, <2>2, <2>3, <2>4, Zenon
<1>7. ASSUME NEW k \in 1 .. Len(out)
      PROVE  Len(s2c) + k \in Unread(n)' /\ s2c'[Len(s2c) + k] = out[k]
  <2>1. Len(s2c) + k \in DOMAIN s2c' /\ s2c'[Len(s2c) + k] = out[k]
    BY ONLY <1>1, <1>7, Zenon
  <2>2. out[k].kind = "answer" /\ out[k].node = n
    BY <1>3
  <2> QED
    BY ONLY <2>1, <2>2, Zenon DEF Unread
<1>8. ASSUME NEW x, x # n PROVE Unread(x)' = Unread(x)
    BY <1>5, <1>6, <1>8
<1> QED
    BY <1>4, <1>5, <1>6, <1>7, <1>8

\* Another node's books when answers about node n are sent.
LEMMA WorkForAnother ==
    ASSUME UNCHANGED requestVars, UNCHANGED collected, NEW x \in Nodes, Booked(x), Unread(x)' = Unread(x),
           \A j \in Unread(x) : s2c'[j] = s2c[j], Done(x)' <=> Done(x), x \in failed' <=> x \in failed,
           reg_index'[x] = reg_index[x]
    PROVE  Booked(x)'
<1>1. \A j \in Unread(x) : IsItem(s2c[j])' <=> IsItem(s2c[j])
    BY DEF IsItem, requestVars, NoKey
<1>2. UnreadItems(x)' = UnreadItems(x)
    BY <1>1 DEF UnreadItems
<1>3. { s2c'[j].reg : j \in UnreadItems(x)' } = { s2c[j].reg : j \in UnreadItems(x) }
  <2>1. \A j \in UnreadItems(x) : s2c'[j].reg = s2c[j].reg
    BY DEF UnreadItems
  <2> QED
    BY <1>2, <2>1
<1>4. PICK a \in Nat : Accounted(x, a)
    BY DEF Booked
<1>5. Accounted(x, a)'
    BY <1>2, <1>3, <1>4, SameRequest DEF Accounted
<1>6. InOrder(x)'
    BY <1>1 DEF Booked, InOrder
<1> QED
    BY <1>5, <1>6, SameRequest DEF Booked, FromTheFirst

(***************************************************************************)
(* The books of the node itself: it has answered for its first a registers *)
(* and the work answers for those that follow.                             *)
(***************************************************************************)
LEMMA WorkForNode ==
    ASSUME RequestTypes, UNCHANGED requestVars, UNCHANGED collected, ~Ended, NEW n \in Nodes,
           n \in Requested, n \in cnxt, Booked(n), NEW o, Good(n, reg_index[n], o),
           NEW ended \in BOOLEAN, IsExtended(s2c', s2c, o.answers, ended),
           Len(collected[n].items) \in Nat, reg_index[n] \in Nat, reg_index'[n] = o.index,
           Done(n)' <=> o.last, n \in failed' <=> n \in failed \/ o.fails
    PROVE  Booked(n)'
<1>0. PICK a, ans, l, L, d :
        /\ a = reg_index[n] /\ ans = o.answers /\ l = Len(o.answers) /\ L = Len(s2c)
        /\ d = Len(collected[n].items)
    OBVIOUS
<1>1. /\ ans \in Seq(Answers) /\ l \in Nat /\ DOMAIN ans = 1 .. l /\ L \in Nat
      /\ a \in Nat /\ d \in Nat
    BY <1>0 DEF Good, IsExtended
<1>2. /\ \A k \in 1 .. l : /\ ans[k].node = n /\ (IsItem(ans[k]) => ans[k].reg = a + k - 1)
                           /\ ~IsItem(ans[k]) => k = l /\ o.last /\ o.fails
      /\ ~o.last => o.index = a + l
      /\ o.last /\ ~o.fails => a + l = Expected(n)
      /\ o.fails => ans # << >>
    BY <1>0, <1>1 DEF Good, Tells
<1>3. ~Done(n)
    BY DEF Done
<1>4. PICK b \in Nat : Accounted(n, b)
    BY DEF Booked
<1>5. /\ b = a /\ d <= a /\ { s2c[j].reg : j \in UnreadItems(n) } = d .. a - 1
      /\ collected[n] # FailedEntry /\ Unread(n) = UnreadItems(n) /\ (n \in failed => a # 0)
    BY <1>0, <1>3, <1>4 DEF Accounted
<1>6. /\ \A j \in Unread(n) : j \in Unread(n)' /\ s2c'[j] = s2c[j] /\ j \in 1 .. L
      /\ \A j \in Unread(n)' : j \in Unread(n) \/ \E k \in 1 .. l : j = L + k
      /\ \A k \in 1 .. l : L + k \in Unread(n)' /\ s2c'[L + k] = ans[k]
  <2>1. ans \in Seq(Answers) /\ IsExtended(s2c', s2c, ans, ended) /\ \A k \in DOMAIN ans : ans[k].node = n
    BY <1>0, <1>1, <1>2
  <2>2. Len(ans) = l /\ Len(s2c) = L
    BY <1>0
  <2>3. ~Ended /\ ended \in BOOLEAN
    OBVIOUS
  <2>4. /\ Ended' <=> ended
        /\ \A x : x # n => Unread(x)' = Unread(x)
        /\ \A x : \A j \in Unread(x) : j \in Unread(x)' /\ s2c'[j] = s2c[j] /\ j \in 1 .. Len(s2c)
        /\ \A j \in Unread(n)' : j \in Unread(n) \/ \E k \in 1 .. Len(ans) : j = Len(s2c) + k
        /\ \A k \in 1 .. Len(ans) : Len(s2c) + k \in Unread(n)' /\ s2c'[Len(s2c) + k] = ans[k]
    BY ONLY <2>1, <2>3, SentAnswers, Zenon
  <2> QED
    BY ONLY <2>2, <2>4, Zenon
<1>7. \A m : IsItem(m)' <=> IsItem(m)
    BY SameRequest
<1>8. ASSUME NEW j \in Unread(n)
      PROVE  /\ IsItem(s2c[j]) /\ IsItem(s2c[j])' /\ s2c'[j].reg \in d .. a - 1
             /\ s2c'[j] = s2c[j] /\ j \in Nat /\ j <= L
  <2>1. j \in UnreadItems(n) /\ s2c'[j] = s2c[j] /\ j \in 1 .. L
    BY ONLY <1>5, <1>6, <1>8, Zenon
  <2>2. IsItem(s2c[j])
    BY ONLY <2>1, Zenon DEF UnreadItems
  <2>3. IsItem(s2c[j])'
    BY <2>1, <2>2 DEF IsItem, requestVars, NoKey
  <2>4. s2c[j].reg \in d .. a - 1
    BY <1>5, <2>1
  <2> QED
    BY <1>1, <2>1, <2>2, <2>3, <2>4
<1>9. ASSUME NEW k \in 1 .. l
      PROVE  /\ L + k \in Unread(n)' /\ s2c'[L + k] = ans[k] /\ (IsItem(s2c[L + k])' <=> IsItem(ans[k]))
             /\ L + k \in Nat /\ L + k > L
  <2>1. L + k \in Unread(n)' /\ s2c'[L + k] = ans[k]
    BY ONLY <1>6, <1>9, Zenon
  <2>2. IsItem(s2c[L + k])' <=> IsItem(ans[k])
    BY <2>1 DEF IsItem, requestVars, NoKey
  <2> QED
    BY <1>1, <2>1, <2>2
<1>10. InOrder(n)'
  <2>1. ASSUME NEW i \in Unread(n)', NEW j \in Unread(n)', i < j
        PROVE  IsItem(s2c[i])' /\ (IsItem(s2c[j])' => s2c'[i].reg < s2c'[j].reg)
    <3>1. CASE i \in Unread(n) /\ j \in Unread(n)
      <4>1. IsItem(s2c[i]) /\ (IsItem(s2c[j]) => s2c[i].reg < s2c[j].reg)
        BY <2>1, <3>1 DEF Booked, InOrder
      <4>2. IsItem(s2c[i])' /\ IsItem(s2c[j]) /\ s2c'[i] = s2c[i] /\ s2c'[j] = s2c[j]
        BY ONLY <1>8, <3>1, Zenon
      <4> QED
        BY ONLY <4>1, <4>2, Zenon
    <3>2. CASE i \in Unread(n) /\ j \notin Unread(n)
      <4>1. PICK k \in 1 .. l : j = L + k
        BY <1>6, <3>2
      <4>2. /\ IsItem(s2c[i])' /\ s2c'[i].reg \in d .. a - 1
            /\ IsItem(s2c[j])' => s2c'[j].reg = a + k - 1
        BY ONLY <1>2, <1>8, <1>9, <3>2, <4>1, Zenon
      <4>3. \A x \in d .. a - 1 : x < a + k - 1
        BY <1>1, <4>1
      <4> QED
        BY ONLY <4>2, <4>3, Zenon
    <3>3. CASE i \notin Unread(n) /\ j \in Unread(n)
      <4>1. PICK k \in 1 .. l : i = L + k
        BY <1>6, <3>3
      <4>2. j \in Nat /\ j <= L /\ i > L /\ i \in Nat
        BY <1>8, <1>9, <3>3, <4>1
      <4> QED
        BY <1>1, <2>1, <4>2
    <3>4. CASE i \notin Unread(n) /\ j \notin Unread(n)
      <4>1. PICK k \in 1 .. l : i = L + k
        BY <1>6, <3>4
      <4>2. PICK h \in 1 .. l : j = L + h
        BY <1>6, <3>4
      <4>3. k < h /\ k # l /\ a + k - 1 < a + h - 1
        BY <1>1, <2>1, <4>1, <4>2
      <4>4. IsItem(ans[k]) /\ ans[k].reg = a + k - 1 /\ (IsItem(ans[h]) => ans[h].reg = a + h - 1)
        BY ONLY <1>2, <4>1, <4>2, <4>3, Zenon
      <4> QED
        BY ONLY <1>9, <4>1, <4>2, <4>3, <4>4, Zenon
    <3> QED
      BY <3>1, <3>2, <3>3, <3>4
  <2> QED
    BY <1>5, <2>1 DEF InOrder
<1>11. PICK c \in 0 .. l :
            /\ \A k \in 1 .. l : IsItem(ans[k]) <=> k <= c
            /\ c # l => o.last /\ o.fails
  <2>1. CASE l = 0
    BY <1>1, <2>1
  <2>2. CASE l # 0 /\ IsItem(ans[l])
    <3>1. \A k \in 1 .. l : IsItem(ans[k])
      BY <1>2, <2>2
    <3>2. l \in 0 .. l /\ \A k \in 1 .. l : k <= l
      BY <1>1
    <3> QED
      BY <3>1, <3>2
  <2>3. CASE l # 0 /\ ~IsItem(ans[l])
    <3>1. l - 1 \in 0 .. l /\ l \in 1 .. l /\ \A k \in 1 .. l : k = l \/ k <= l - 1
      BY <1>1, <2>3
    <3>2. ~(l <= l - 1)
      BY <1>1
    <3>3. o.last /\ o.fails /\ \A k \in 1 .. l : k # l => IsItem(ans[k])
      BY <1>2, <2>3, <3>1
    <3>4. \A k \in 1 .. l : IsItem(ans[k]) <=> k <= l - 1
      BY <2>3, <3>1, <3>2, <3>3
    <3> QED
      BY <3>1, <3>3, <3>4
  <2> QED
    BY <2>1, <2>2, <2>3
<1>12. c \in Nat /\ a + c \in Nat /\ d <= a + c
    BY <1>1, <1>5, <1>11
<1>13. \A k \in 1 .. c : k \in 1 .. l /\ IsItem(ans[k]) /\ ans[k].reg = a + k - 1
  <2>1. \A k \in 1 .. c : k \in 1 .. l /\ k <= c
    BY <1>1, <1>11
  <2> QED
    BY ONLY <1>2, <1>11, <2>1, Zenon
<1>14. { s2c'[j].reg : j \in UnreadItems(n)' } = d .. (a + c) - 1
  <2>1. ASSUME NEW j \in UnreadItems(n)' PROVE s2c'[j].reg \in d .. (a + c) - 1
    <3>1. j \in Unread(n)' /\ IsItem(s2c[j])'
      BY ONLY <2>1, Zenon DEF UnreadItems
    <3>2. CASE j \in Unread(n)
      <4>1. s2c'[j].reg \in d .. a - 1
        BY <1>8, <3>2
      <4> QED
        BY <1>1, <1>12, <4>1
    <3>3. CASE j \notin Unread(n)
      <4>1. PICK k \in 1 .. l : j = L + k
        BY <1>6, <3>1, <3>3
      <4>2. IsItem(ans[k]) /\ k <= c /\ s2c'[j].reg = a + k - 1
        BY ONLY <1>2, <1>9, <1>11, <3>1, <4>1, Zenon
      <4> QED
        BY <1>1, <1>5, <1>12, <4>1, <4>2
    <3> QED
      BY <3>2, <3>3
  <2>2. ASSUME NEW r \in d .. (a + c) - 1 PROVE \E j \in UnreadItems(n)' : s2c'[j].reg = r
    <3>1. CASE r <= a - 1
      <4>1. r \in d .. a - 1
        BY <1>1, <1>12, <3>1
      <4>2. PICK j \in UnreadItems(n) : s2c[j].reg = r
        BY <1>5, <4>1
      <4>3. j \in Unread(n)
        BY <4>2 DEF UnreadItems
      <4>4. j \in Unread(n)' /\ IsItem(s2c[j])' /\ s2c'[j] = s2c[j]
        BY ONLY <1>6, <1>8, <4>3, Zenon
      <4> QED
        BY ONLY <4>2, <4>4, Zenon DEF UnreadItems
    <3>2. CASE ~(r <= a - 1)
      <4>1. r - a + 1 \in 1 .. c /\ a + (r - a + 1) - 1 = r
        BY <1>1, <1>12, <3>2
      <4>2. PICK k \in 1 .. c : a + k - 1 = r
        BY <4>1
      <4>3. k \in 1 .. l /\ IsItem(ans[k]) /\ ans[k].reg = r
        BY ONLY <1>13, <4>2, Zenon
      <4>4. L + k \in Unread(n)' /\ IsItem(s2c[L + k])' /\ s2c'[L + k].reg = r
        BY ONLY <1>9, <4>3, Zenon
      <4> QED
        BY ONLY <4>4, Zenon DEF UnreadItems
    <3> QED
      BY <3>1, <3>2
  <2> QED
    BY ONLY <2>1, <2>2
<1>15. ~(o.last /\ o.fails) => (~o.last => a + c = o.index) /\ Unread(n)' = UnreadItems(n)'
  <2> SUFFICES ASSUME ~(o.last /\ o.fails)
               PROVE  (~o.last => a + c = o.index) /\ Unread(n)' = UnreadItems(n)'
    OBVIOUS
  <2>1. c = l
    BY <1>11
  <2>2. ~o.last => a + c = o.index
    BY <1>2, <2>1
  <2>3. ASSUME NEW j \in Unread(n)' PROVE j \in UnreadItems(n)'
    <3>1. CASE j \in Unread(n)
      BY <1>8, <2>3, <3>1 DEF UnreadItems
    <3>2. CASE j \notin Unread(n)
      <4>1. PICK k \in 1 .. l : j = L + k
        BY <1>6, <2>3, <3>2
      <4>2. IsItem(ans[k])
        BY <1>13, <2>1, <4>1
      <4>3. IsItem(s2c[j])'
        BY ONLY <1>9, <4>1, <4>2, Zenon
      <4> QED
        BY ONLY <2>3, <4>3, Zenon DEF UnreadItems
    <3> QED
      BY <3>1, <3>2
  <2>4. UnreadItems(n)' \subseteq Unread(n)'
    BY DEF UnreadItems
  <2> QED
    BY <2>2, <2>3, <2>4
<1>16. o.last /\ ~o.fails => a + c = Expected(n)
    BY <1>2, <1>11
<1>17. o.fails => l # 0 /\ Unread(n)' # {}
  <2>1. ans # << >> => 1 \in 1 .. l
    BY <1>0, <1>1
  <2> QED
    BY <1>2, <1>9, <2>1
<1>18. Expected(n) \in Nat
    BY LimitFacts
<1>19. Accounted(n, a + c)'
  <2>1. Len(collected[n].items)' = d /\ collected'[n] = collected[n]
    BY <1>0
  <2>2. Done(n)' => a + c = Expected(n) \/ n \in failed'
    BY <1>16
  <2>3. n \in failed' /\ a + c = 0 => Done(n)' /\ Unread(n)' # {}
    <3>1. a + c = 0 => a = 0 /\ c = 0
      BY <1>1, <1>12
    <3> QED
      BY <1>5, <1>11, <1>17, <3>1
  <2>5. n \notin failed' => collected'[n] # FailedEntry /\ Unread(n)' = UnreadItems(n)'
    BY <1>5, <1>15, <2>1
  <2>4. ~Done(n)' => /\ a + c = reg_index'[n] /\ collected'[n] # FailedEntry
                     /\ Unread(n)' = UnreadItems(n)'
    BY <1>5, <1>15, <2>1
  <2> QED
    BY <1>12, <1>14, <2>1, <2>2, <2>3, <2>4, <2>5, SameRequest DEF Accounted
<1>20. FromTheFirst(collected[n])'
    BY DEF Booked, FromTheFirst
<1> QED
    BY <1>10, <1>12, <1>19, <1>20, SameRequest DEF Booked

\* While the Fsm works, what it read of the request does not matter any more.
LEMMA WorkingRequesting ==
    ASSUME Requesting, UNCHANGED << requestVars, c2s, sender >>, fsm = "processing",
           fsm' \in {"processing", "released"}
    PROVE  Requesting'
<1>1. PICK p, q \in 0 .. Messages + 1 : UnderWay(p, q)
    BY DEF Requesting
<1>2. UNCHANGED requestVars
    OBVIOUS
<1>3. sender # "made" /\ ~(q > 0)
    BY <1>1 DEF UnderWay
<1>4. UnderWay(p, q)'
    BY <1>1, <1>2, <1>3, SameRequest DEF UnderWay
<1> QED
    BY <1>2, <1>4, SameRequest DEF Requesting

\* The contexts that are left after the work on one of them.
LEMMA WorkContexts ==
    ASSUME RequestInv, UNCHANGED requestVars, UNCHANGED registers, fsm = "processing", NEW n \in cnxt,
           NEW o, Good(n, reg_index[n], o), NEW out, NEW ended \in BOOLEAN, Effect(n, o, out, ended),
           ToSet(todo)' = ToSet(todo) \ {n}, IsInjective(todo)'
    PROVE  Contexts'
<1> USE DEF RequestInv
<1>1. /\ pending \cup ToSet(todo) = cnxt /\ pending \cap ToSet(todo) = {}
      /\ cnxt # {} /\ cnxt \subseteq Requested /\ registers = asked_regs
      /\ service = "access" => registers > 0
      /\ \A x \in Nodes : reg_index[x] <= Limit(x)
      /\ \A x \in ToSet(todo) : reg_index[x] = 0
      /\ \A x \in pending : service = "access" => reg_index[x] < registers
    BY DEF Contexts
<1>2. o.index <= Limit(n) /\ (~o.last /\ service = "access" => o.index < registers)
    BY DEF Good
<1>3. /\ reg_index' = [ reg_index EXCEPT ![n] = o.index ]
      /\ o.last /\ LastRelease(n) => fsm' = "released" /\ cnxt' = {} /\ pending' = {}
      /\ ~(o.last /\ LastRelease(n)) =>
            /\ fsm' = fsm
            /\ cnxt' = IF o.last THEN cnxt \ {n} ELSE cnxt
            /\ pending' = IF o.last THEN pending \ {n} ELSE pending \cup {n}
    BY DEF Effect
<1>4. n \in Nodes /\ DOMAIN reg_index = Nodes
    BY DEF StateTypes
<1>5. reg_index'[n] = o.index /\ \A x \in Nodes : x # n => reg_index'[x] = reg_index[x]
    BY <1>3, <1>4
<1>6. \A x \in Nodes : reg_index'[x] <= Limit(x)'
    BY <1>1, <1>2, <1>5, SameRequest
<1>7. ToSet(todo)' \subseteq Nodes /\ \A x \in ToSet(todo)' : reg_index'[x] = 0
  <2>1. cnxt \subseteq Nodes
    BY DEF StateTypes
  <2>2. ASSUME NEW x \in ToSet(todo)' PROVE x \in Nodes /\ reg_index'[x] = 0
    <3>1. x \in ToSet(todo) /\ x # n
      BY <2>2
    <3> QED
      BY <1>1, <1>5, <2>1, <3>1
  <2> QED
    BY <2>2
<1>8. CASE o.last /\ LastRelease(n)
  <2>1. ToSet(todo)' = {}
    BY <1>1, <1>8 DEF LastRelease
  <2> QED
    BY <1>3, <1>6, <1>8, <2>1, SameRequest DEF Contexts
<1>9. CASE o.last /\ ~LastRelease(n)
  <2>1. fsm' = "processing" /\ cnxt' = cnxt \ {n} /\ pending' = pending \ {n} /\ cnxt' # {}
    BY <1>3, <1>9 DEF LastRelease
  <2>2. pending' \cup ToSet(todo)' = cnxt' /\ pending' \cap ToSet(todo)' = {} /\ cnxt' \subseteq Requested'
    BY <1>1, <2>1, SameRequest
  <2>3. \A x \in pending' : service = "access" => reg_index'[x] < registers
    <3>1. cnxt \subseteq Nodes
      BY DEF StateTypes
    <3> QED
      BY <1>1, <1>5, <2>1, <3>1
  <2> QED
    BY <1>1, <1>6, <1>7, <2>1, <2>2, <2>3, SameRequest DEF Contexts
<1>10. CASE ~o.last
  <2>1. fsm' = "processing" /\ cnxt' = cnxt /\ pending' = pending \cup {n}
    BY <1>3, <1>10
  <2>2. pending' \cup ToSet(todo)' = cnxt' /\ pending' \cap ToSet(todo)' = {} /\ cnxt' \subseteq Requested'
    BY <1>1, <2>1, SameRequest
  <2>3. \A x \in pending' : service = "access" => reg_index'[x] < registers
    <3>1. cnxt \subseteq Nodes
      BY DEF StateTypes
    <3> QED
      BY <1>1, <1>2, <1>5, <1>10, <2>1, <3>1
  <2> QED
    BY <1>1, <1>6, <1>7, <2>1, <2>2, <2>3, SameRequest DEF Contexts
<1> QED
    BY <1>8, <1>9, <1>10

\* What the client will find in its pipe after the work on a node.
LEMMA WorkReplies ==
    ASSUME RequestInv, UNCHANGED requestVars, UNCHANGED << sender, collected, results >>,
           fsm = "processing", NEW n, NEW o, Good(n, reg_index[n], o), NEW out,
           NEW ended \in BOOLEAN, Effect(n, o, out, ended)
    PROVE  /\ Replies' /\ s2c' \in Seq(Down) /\ ~Ended /\ (ended => fsm' = "released")
           /\ fsm' \in {"processing", "released"}
           /\ out \in Seq(Answers) /\ \A k \in DOMAIN out : out[k].node = n
<1> USE DEF RequestInv
<1>1. ~Ended
    BY DEF Replies
<1>2. /\ out \in Seq(Answers) /\ \A k \in DOMAIN out : \E i \in DOMAIN o.answers : out[k] = o.answers[i]
      /\ fsm' \in {"processing", "released"} /\ (ended => fsm' = "released")
      /\ cup => IsExtended(s2c', s2c, out, ended)
      /\ ~cup => s2c' = s2c
    BY DEF Effect
<1>3. \A k \in DOMAIN out : /\ out[k].node = n /\ (out[k].ok => out[k].reg <= MaxRegs)
                            /\ service = "exec" /\ out[k].ok => out[k].reg = 0
  <2>1. \A i \in DOMAIN o.answers : Tells(n, reg_index[n], i, o.answers[i])
    BY DEF Good
  <2>2. ASSUME NEW k \in DOMAIN out
        PROVE  /\ out[k].node = n /\ (out[k].ok => out[k].reg <= MaxRegs)
               /\ service = "exec" /\ out[k].ok => out[k].reg = 0
    <3>1. PICK i \in DOMAIN o.answers : out[k] = o.answers[i]
      BY <1>2
    <3>2. Tells(n, reg_index[n], i, out[k])
      BY ONLY <2>1, <3>1, Zenon
    <3> QED
      BY ONLY <3>2, Zenon DEF Tells
  <2> QED
    BY <2>2
<1>4. results' # << >> => sender' # "made"
    BY DEF Replies
<1>5. CASE cup
  <2>1. IsExtended(s2c', s2c, out, ended)
    BY <1>2, <1>5
  <2>2. /\ s2c' \in Seq(Down) /\ DOMAIN s2c = 1 .. Len(s2c) /\ DOMAIN out = 1 .. Len(out)
        /\ \A j \in 1 .. Len(s2c) : j \in 1 .. Len(s2c') /\ s2c'[j] = s2c[j]
        /\ \A k \in 1 .. Len(out) : Len(s2c) + k \in 1 .. Len(s2c') /\ s2c'[Len(s2c) + k] = out[k]
        /\ ended => s2c'[Len(s2c')] = End(FALSE, "none")
        /\ \A j \in DOMAIN s2c' : \/ j \in 1 .. Len(s2c)
                                  \/ \E k \in 1 .. Len(out) : j = Len(s2c) + k
                                  \/ ended /\ j = Len(s2c')
    BY <2>1, Zenon DEF IsExtended
  <2>3. Ended' <=> ended
    BY ONLY <1>1, <1>2, <1>3, <2>1, ended \in BOOLEAN, SentAnswers
  <2>4. ASSUME NEW j \in DOMAIN s2c'
        PROVE  /\ s2c'[j].kind = "end" => j = Len(s2c')
               /\ s2c'[j].kind = "answer" =>
                    /\ s2c'[j].ok => s2c'[j].reg <= MaxRegs
                    /\ service = "exec" /\ s2c'[j].ok => s2c'[j].reg = 0
    <3>1. CASE j \in 1 .. Len(s2c)
      <4>1. s2c'[j] = s2c[j] /\ j \in DOMAIN s2c
        BY <2>2, <3>1
      <4> QED
        BY <1>1, <4>1 DEF Replies, Ended
    <3>2. CASE \E k \in 1 .. Len(out) : j = Len(s2c) + k
      <4>1. PICK k \in 1 .. Len(out) : j = Len(s2c) + k
        BY <3>2
      <4>2. s2c'[j] = out[k] /\ k \in DOMAIN out
        BY ONLY <2>2, <4>1, Zenon
      <4>3. out[k] \in Answers
        BY <1>2, <4>1
      <4>4. out[k].kind = "answer"
        BY <4>3 DEF Answers
      <4> QED
        BY <1>3, <4>2, <4>4
    <3>3. CASE ended /\ j = Len(s2c')
      <4>1. s2c'[j].kind = "end"
        BY <2>2, <3>3 DEF End
      <4> QED
        BY <3>3, <4>1
    <3> QED
      BY ONLY <2>2, <2>4, <3>1, <3>2, <3>3, Zenon
  <2> QED
    BY <1>1, <1>2, <1>3, <1>4, <2>2, <2>3, <2>4, SameRequest DEF Replies
<1>6. CASE ~cup
  <2>1. s2c' = s2c
    BY <1>2, <1>6
  <2>2. Ended' <=> Ended
    BY <2>1 DEF Ended
  <2> QED
    BY <1>1, <1>2, <1>3, <1>4, <2>1, <2>2, SameRequest DEF Replies, StateTypes
<1> QED
    BY <1>5, <1>6

\* The books after the work on a node, when all its answers were sent.
LEMMA WorkBooks ==
    ASSUME RequestInv, UNCHANGED requestVars, UNCHANGED << sender, collected, results, copen, cup >>,
           fsm = "processing", NEW n \in cnxt, NEW o, Good(n, reg_index[n], o), NEW out,
           NEW ended \in BOOLEAN, Effect(n, o, out, ended)
    PROVE  Books'
<1> USE DEF RequestInv
<1> SUFFICES ASSUME copen, cup, ~write_lost', NEW x \in Nodes PROVE Booked(x)'
    BY DEF Books
<1>1. /\ ~Ended /\ out \in Seq(Answers) /\ \A k \in DOMAIN out : out[k].node = n
    BY WorkReplies
<1>2. /\ out = o.answers /\ ~write_lost
      /\ failed' = IF o.fails THEN failed \cup {n} ELSE failed
      /\ reg_index' = [ reg_index EXCEPT ![n] = o.index ]
      /\ o.last /\ LastRelease(n) => cnxt' = {} /\ ended
      /\ ~(o.last /\ LastRelease(n)) => ~ended /\ cnxt' = IF o.last THEN cnxt \ {n} ELSE cnxt
      /\ IsExtended(s2c', s2c, out, ended)
    BY DEF Effect
<1>3. n \in Nodes /\ n \in Requested /\ DOMAIN reg_index = Nodes /\ reg_index[n] \in Nat
    BY DEF StateTypes, Contexts
<1>4. /\ Ended' <=> ended
      /\ \A y : y # n => Unread(y)' = Unread(y)
      /\ \A y : \A j \in Unread(y) : j \in Unread(y)' /\ s2c'[j] = s2c[j] /\ j \in 1 .. Len(s2c)
      /\ \A j \in Unread(n)' : j \in Unread(n) \/ \E k \in 1 .. Len(out) : j = Len(s2c) + k
      /\ \A k \in 1 .. Len(out) : Len(s2c) + k \in Unread(n)' /\ s2c'[Len(s2c) + k] = out[k]
  <2>1. /\ ~Ended /\ ended \in BOOLEAN /\ out \in Seq(Answers) /\ \A k \in DOMAIN out : out[k].node = n
        /\ IsExtended(s2c', s2c, out, ended)
    BY <1>1, <1>2
  <2> QED
    BY ONLY <2>1, SentAnswers, Zenon
<1>5. Booked(x)
    BY <1>2 DEF Books, Working
<1>6. CASE x # n
  <2>1. Done(x)' <=> Done(x)
    <3>1. CASE o.last /\ LastRelease(n)
      <4>1. x \notin cnxt
        BY <1>6, <3>1 DEF LastRelease
      <4> QED
        BY <1>2, <1>4, <3>1, <4>1, SameRequest DEF Done
    <3>2. CASE ~(o.last /\ LastRelease(n))
      <4>1. x \in cnxt' <=> x \in cnxt
        BY <1>2, <1>6, <3>2
      <4> QED
        BY <1>1, <1>2, <1>4, <3>2, <4>1, SameRequest DEF Done
    <3> QED
      BY <3>1, <3>2
  <2>2. reg_index'[x] = reg_index[x] /\ (x \in failed' <=> x \in failed)
    BY <1>2, <1>3, <1>6
  <2>3. Unread(x)' = Unread(x) /\ \A j \in Unread(x) : s2c'[j] = s2c[j]
    BY ONLY <1>4, <1>6, Zenon
  <2> QED
    BY <1>5, <2>1, <2>2, <2>3, WorkForAnother
<1>7. CASE x = n
  <2>1. Done(n)' <=> o.last
    BY <1>2, <1>3, <1>4, SameRequest DEF Done, Good
  <2>2. reg_index'[n] = o.index /\ (n \in failed' <=> n \in failed \/ o.fails)
    BY <1>2, <1>3
  <2>3. Len(collected[n].items) \in Nat
    <3>1. collected[n] \in Entries
      BY <1>3 DEF StateTypes
    <3> QED
      BY <3>1 DEF Entries, NoEntry, FailedEntry
  <2>4. IsExtended(s2c', s2c, o.answers, ended) /\ Booked(n) /\ RequestTypes
    BY <1>2, <1>5, <1>7
  <2>5. Booked(n)'
    BY <1>1, <1>3, <2>1, <2>2, <2>3, <2>4, WorkForNode
  <2> QED
    BY <1>7, <2>5
<1> QED
    BY <1>6, <1>7

\* The work on a node, for the first time or when its call is answered.
LEMMA WorkKeeps ==
    ASSUME RequestInv, UNCHANGED requestVars,
           UNCHANGED << sender, copen, collected, results, cup, sup, c2s, registers >>,
           fsm = "processing", NEW n \in cnxt, NEW o, Good(n, reg_index[n], o), Work(n, o),
           todo' \in Seq(Nodes), ToSet(todo)' = ToSet(todo) \ {n}, IsInjective(todo)'
    PROVE  RequestInv'
<1> USE DEF RequestInv
<1>1. PICK out, ended : ended \in BOOLEAN /\ Effect(n, o, out, ended)
    BY WorkEffect
<1>2. RequestTypes'
    BY SameRequest
<1>3. /\ Replies' /\ s2c' \in Seq(Down) /\ fsm' \in {"processing", "released"}
    BY <1>1, WorkReplies
<1>4. Contexts'
    BY <1>1, WorkContexts
<1>5. Books'
    BY <1>1, WorkBooks
<1>6. Requesting'
    BY <1>3, WorkingRequesting
<1>7. /\ write_lost' \in BOOLEAN /\ (write_lost => write_lost')
      /\ failed' = IF o.fails THEN failed \cup {n} ELSE failed
      /\ reg_index' = [ reg_index EXCEPT ![n] = o.index ]
      /\ cnxt' \subseteq cnxt
  <2>1. /\ write_lost' \in BOOLEAN /\ (write_lost => write_lost')
        /\ failed' = IF o.fails THEN failed \cup {n} ELSE failed
        /\ reg_index' = [ reg_index EXCEPT ![n] = o.index ]
    BY <1>1 DEF Effect
  <2>2. cnxt' \subseteq cnxt
    BY <1>1 DEF Effect
  <2> QED
    BY <2>1, <2>2
<1>8. StateTypes'
  <2>1. n \in Nodes
    BY DEF StateTypes
  <2>2. o.index \in 0 .. MaxRegs
    BY <2>1, LimitFacts, Constants DEF Good
  <2>3. reg_index' \in [ Nodes -> 0 .. MaxRegs ]
    BY <1>7, <2>1, <2>2 DEF StateTypes
  <2> QED
    BY <1>3, <1>7, <2>1, <2>3, SameRequest DEF StateTypes
<1>9. WholeReports'
    BY <1>7, SameReports
<1> QED
    BY <1>2, <1>3, <1>4, <1>5, <1>6, <1>8, <1>9

\* One turn of the loop takes its node off.
LEMMA TailOnce ==
    ASSUME NEW S, NEW s \in Seq(S), s # << >>, IsInjective(s)
    PROVE  /\ Tail(s) \in Seq(S) /\ Head(s) \in ToSet(s) /\ Head(s) \in S
           /\ ToSet(Tail(s)) = ToSet(s) \ {Head(s)} /\ IsInjective(Tail(s))
<1>1. /\ Len(s) \in Nat /\ Len(s) > 0 /\ Head(s) = s[1] /\ DOMAIN s = 1 .. Len(s)
      /\ Tail(s) \in Seq(S) /\ DOMAIN Tail(s) = 1 .. Len(s) - 1
      /\ \A j \in 1 .. Len(s) - 1 : Tail(s)[j] = s[j + 1]
      /\ s[1] \in S
    OBVIOUS
<1> DEFINE t == Tail(s)
<1> HIDE DEF t
<1>2. DOMAIN t = 1 .. Len(s) - 1 /\ \A j \in 1 .. Len(s) - 1 : t[j] = s[j + 1]
    BY <1>1 DEF t
<1>3. \A j \in DOMAIN t : j + 1 \in DOMAIN s /\ j + 1 # 1 /\ t[j] = s[j + 1] /\ j \in Nat
    BY <1>1, <1>2
<1>4. 1 \in DOMAIN s
    BY <1>1
<1>5. ASSUME NEW x \in ToSet(t) PROVE x \in ToSet(s) \ {s[1]}
  <2>1. PICK j \in DOMAIN t : x = t[j]
    BY <1>5 DEF ToSet
  <2>2. s[j + 1] # s[1]
    BY <1>3, <1>4 DEF IsInjective
  <2> QED
    BY <1>3, <2>1, <2>2 DEF ToSet
<1>6. ASSUME NEW x \in ToSet(s), x # s[1] PROVE x \in ToSet(t)
  <2>1. PICK i \in DOMAIN s : x = s[i]
    BY <1>6 DEF ToSet
  <2>2. i # 1
    BY <1>6, <2>1
  <2>3. i - 1 \in 1 .. Len(s) - 1 /\ (i - 1) + 1 = i
    BY <1>1, <2>2
  <2> QED
    BY <1>2, <2>1, <2>3 DEF ToSet
<1>7. ToSet(t) = ToSet(s) \ {s[1]}
    BY <1>5, <1>6
<1>8. IsInjective(t)
  <2>1. ASSUME NEW i \in DOMAIN t, NEW j \in DOMAIN t, t[i] = t[j] PROVE i = j
    <3>1. i + 1 = j + 1
      BY <1>3, <2>1 DEF IsInjective
    <3> QED
      BY <1>3, <3>1
  <2> QED
    BY <2>1 DEF IsInjective
<1>9. s[1] \in ToSet(s)
    BY <1>4 DEF ToSet
<1> QED
    BY <1>1, <1>7, <1>8, <1>9 DEF t

LEMMA MakeCyRpcClientKeeps ==
    ASSUME RequestInv, MakeCyRpcClient
    PROVE  RequestInv'
<1> USE DEF RequestInv
<1>0. /\ UNCHANGED requestVars
      /\ UNCHANGED << sender, copen, collected, results, cup, sup, c2s, registers >>
      /\ todo # << >> /\ todo' = Tail(todo)
    BY DEF MakeCyRpcClient, clientVars, pipeVars
<1>1. PICK n : n = Head(todo)
    OBVIOUS
<1>2. /\ todo' \in Seq(Nodes) /\ n \in ToSet(todo) /\ n \in Nodes
      /\ ToSet(todo)' = ToSet(todo) \ {n} /\ IsInjective(todo)'
  <2>1. todo \in Seq(Nodes) /\ IsInjective(todo)
    BY DEF StateTypes, Contexts
  <2>2. /\ Tail(todo) \in Seq(Nodes) /\ Head(todo) \in ToSet(todo) /\ Head(todo) \in Nodes
        /\ ToSet(Tail(todo)) = ToSet(todo) \ {Head(todo)} /\ IsInjective(Tail(todo))
    BY ONLY <1>0, <2>1, TailOnce, Zenon
  <2> QED
    BY ONLY <1>0, <1>1, <2>2, Zenon
<1>3. fsm = "processing" /\ n \in cnxt /\ reg_index[n] = 0 /\ registers = asked_regs
    BY <1>2 DEF Contexts
<1>4. PICK o \in {Outcome(<< Answer(n, NoKey, FALSE) >>, TRUE, 0, TRUE)} \cup Call(n, 0) : Work(n, o)
    BY <1>1, <1>3 DEF MakeCyRpcClient
<1>5. 0 <= Limit(n) /\ 0 \in Nat
    BY <1>2, LimitFacts
<1>6. Good(n, 0, o)
    BY <1>2, <1>3, <1>4, <1>5, GoodFailure, GoodCall
<1> QED
    BY <1>0, <1>2, <1>3, <1>4, <1>6, WorkKeeps

LEMMA NodeRespondsKeeps ==
    ASSUME RequestInv, NEW n \in Nodes, NodeResponds(n)
    PROVE  RequestInv'
<1> USE DEF RequestInv
<1>0. /\ UNCHANGED requestVars
      /\ UNCHANGED << sender, copen, collected, results, cup, sup, c2s, registers >>
      /\ todo = << >> /\ todo' = todo /\ n \in pending
    BY DEF NodeResponds, clientVars, pipeVars
<1>1. ToSet(todo) = {} /\ ToSet(todo)' = {} /\ todo' \in Seq(Nodes) /\ IsInjective(todo)'
    BY <1>0 DEF ToSet, IsInjective
<1>2. /\ fsm = "processing" /\ n \in cnxt /\ registers = asked_regs /\ reg_index[n] <= Limit(n)
      /\ service = "access" => reg_index[n] < registers
    BY <1>0 DEF Contexts
<1>3. PICK ok \in BOOLEAN : \E o \in Response(n, reg_index[n], ok) : Work(n, o)
    BY DEF NodeResponds
<1>4. PICK o \in Response(n, reg_index[n], ok) : Work(n, o)
    BY <1>3
<1>5. reg_index[n] \in Nat
    BY DEF StateTypes
<1>6. Good(n, reg_index[n], o)
    BY <1>2, <1>5, GoodResponse
<1> QED
    BY <1>0, <1>1, <1>2, <1>4, <1>6, WorkKeeps

-----------------------------------------------------------------------------
(***************************************************************************)
(* The invariant of the request.                                           *)
(***************************************************************************)
LEMMA InitHolds ==
    ASSUME Init
    PROVE  RequestInv
<1>1. RequestTypes
  <2>1. PICK l \in 0 .. (IF service = "exec" THEN MaxIds ELSE MaxRegIds) : node_ids \in [ 1 .. l -> Nodes ]
    BY DEF Init
  <2>2. l \in Nat
    BY <2>1, NodeAssumption
  <2>3. node_ids \in Seq(Nodes)
    BY <2>1, <2>2
  <2>4. asked_regs \in 0 .. MaxRegs /\ (service # "access" => asked_regs = 0)
    BY Constants DEF Init
  <2>5. node_regs \in [ Nodes -> 0 .. MaxRegs ]
    BY Constants DEF Init
  <2> QED
    BY <2>3, <2>4, <2>5 DEF RequestTypes, Init
<1>2. StateTypes
  <2>1. collected \in [ Nodes -> Entries ] /\ reg_index \in [ Nodes -> 0 .. MaxRegs ]
    BY Constants DEF Init, Entries
  <2>2. registers \in 0 .. asked_regs
    BY <1>1, Constants DEF Init, RequestTypes
  <2>3. c2s \in Seq(Up) /\ s2c \in Seq(Down) /\ results \in Seq(Reports) /\ todo \in Seq(Nodes)
    BY DEF Init
  <2> QED
    BY <2>1, <2>2, <2>3 DEF Init, StateTypes
<1>3. Requesting
  <2>1. Messages \in Nat
    BY <1>1, WritesFacts
  <2>2. /\ 0 \in 0 .. Messages + 1 /\ 0 + 0 <= Messages + 1 /\ 0 <= Messages /\ ~(0 > 0)
        /\ \A j \in 1 .. 0 : FALSE
        /\ c2s = << >> /\ Len(c2s) = 0 /\ 0 <= Len(c2s) /\ \A j \in 0 + 1 .. Len(c2s) : FALSE
    BY <2>1 DEF Init
  <2>3. fsm = "none" /\ cnxt = ScopeOf(0) /\ registers = RegistersOf(0)
    BY <1>1, NothingYet DEF Init
  <2>4. UnderWay(0, 0)
    BY <2>2, <2>3 DEF UnderWay
  <2> QED
    BY <2>2, <2>4 DEF Requesting
<1>4. Contexts
  <2>1. ToSet(todo) = {} /\ IsInjective(todo)
    BY DEF Init, ToSet, IsInjective
  <2>2. \A n \in Nodes : reg_index[n] <= Limit(n)
    BY <1>1, LimitFacts DEF Init
  <2> QED
    BY <2>1, <2>2 DEF Init, Contexts
<1>5. Replies /\ ~Ended
    BY DEF Init, Replies, Ended
<1>6. Books
    BY <1>5 DEF Init, Books, Working
<1>7. WholeReports
    BY DEF Init, WholeReports
<1> QED
    BY <1>1, <1>2, <1>3, <1>4, <1>5, <1>6, <1>7 DEF RequestInv

\* A step that changes nothing.
LEMMA StutterKeeps ==
    ASSUME RequestInv, UNCHANGED vars
    PROVE  RequestInv'
<1> USE DEF RequestInv
<1>1. /\ UNCHANGED requestVars /\ UNCHANGED clientVars /\ UNCHANGED pipeVars /\ UNCHANGED fsmVars
      /\ UNCHANGED << c2s, s2c, wrote >>
    BY DEF vars
<1>2. /\ UNCHANGED << sender, copen, collected, results, cup, sup, c2s, s2c, fsm, cnxt, reg_index,
                      pending, registers, todo, write_lost, failed >>
    BY <1>1 DEF clientVars, pipeVars, fsmVars
<1>3. RequestTypes' /\ StateTypes'
    BY <1>1, <1>2, SameRequest DEF StateTypes
<1>4. Requesting' /\ Contexts' /\ Books'
    BY <1>1, <1>2, SameRequesting, SameContexts, SameBooks
<1>5. Replies'
    BY <1>1, <1>2, SameReplies DEF Replies
<1>6. WholeReports'
    BY <1>1, <1>2, SameReports
<1> QED
    BY <1>3, <1>4, <1>5, <1>6

LEMMA NextKeeps ==
    ASSUME RequestInv, [Next]_vars
    PROVE  RequestInv'
<1>1. CASE Submit
    BY <1>1, SubmitKeeps
<1>2. CASE RefuseLongKey
    BY <1>2, RefuseKeeps
<1>3. CASE Drop
    BY <1>3, DropKeeps
<1>4. CASE ClientReceive
    BY <1>4, ClientInputKeeps, ClientEndKeeps DEF ClientReceive
<1>5. CASE ClientDisconnected
    BY <1>5, ClientDisconnectedKeeps
<1>6. CASE ServiceReceive
    BY <1>6, ServiceInputKeeps, ServiceStartsKeeps, ServiceCanceledKeeps DEF ServiceReceive
<1>7. CASE ServiceDisconnected
    BY <1>7, ServiceDisconnectedKeeps
<1>8. CASE MakeCyRpcClient
    BY <1>8, MakeCyRpcClientKeeps
<1>9. CASE \E n \in Nodes : NodeResponds(n)
    BY <1>9, NodeRespondsKeeps
<1>10. CASE UNCHANGED vars
    BY <1>10, StutterKeeps
<1> QED
    BY <1>1, <1>2, <1>3, <1>4, <1>5, <1>6, <1>7, <1>8, <1>9, <1>10 DEF Next

(***************************************************************************)
(* What the Fsm has read of the request, what it still works on, what is   *)
(* under way to the client and what the client has collected always add up *)
(* for every node.                                                         *)
(***************************************************************************)
THEOREM RequestInvariant == Spec => []RequestInv
<1>1. Init => RequestInv
    BY InitHolds
<1>2. RequestInv /\ [Next]_vars => RequestInv'
    BY NextKeeps
<1> QED
    BY <1>1, <1>2, PTL DEF Spec

-----------------------------------------------------------------------------
(***************************************************************************)
(* The nodes with failed calls: a success comes after the Fsm is gone, so  *)
(* no call fails later, and each of these nodes has an entry.              *)
(***************************************************************************)
FailuresReported ==
    \A i \in DOMAIN results : results[i].ok =>
        /\ fsm = "released"
        /\ ~write_lost => \A n \in Nodes \cap Requested \cap failed : results[i].map[n] # NoEntry

LEMMA FailuresStay ==
    ASSUME FailuresReported, UNCHANGED << requestVars, results >>,
           fsm = "released" => fsm' = "released" /\ failed' = failed, write_lost => write_lost'
    PROVE  FailuresReported'
<1>1. UNCHANGED requestVars
    OBVIOUS
<1> QED
    BY <1>1, SameRequest DEF FailuresReported

LEMMA OneMoreResult ==
    ASSUME RequestInv, FailuresReported, UNCHANGED << requestVars, fsm, failed, write_lost >>,
           NEW r \in Reports, results' = Append(results, r),
           r.ok => /\ fsm = "released"
                   /\ ~write_lost => \A n \in Nodes \cap Requested \cap failed : r.map[n] # NoEntry
    PROVE  FailuresReported'
<1>1. results \in Seq(Reports)
    BY DEF RequestInv, StateTypes
<1>2. \A i \in DOMAIN results' : (i \in DOMAIN results /\ results'[i] = results[i]) \/ results'[i] = r
    BY <1>1
<1>3. UNCHANGED requestVars
    OBVIOUS
<1> QED
    BY <1>2, <1>3, SameRequest DEF FailuresReported

LEMMA FailuresStep ==
    ASSUME RequestInv, FailuresReported, [Next]_vars
    PROVE  FailuresReported'
<1>0. StateTypes /\ \A e \in {"Other", "InvalidArgument", "Disconnected"} :
                        Failure(e) \in Reports /\ ~Failure(e).ok
    BY ResultTypes DEF RequestInv
<1>1. CASE Submit
  <2>1. results' = << Failure("Other") >> \/ results' = << >>
    BY <1>1 DEF Submit
  <2>2. \A i \in DOMAIN results' : ~results'[i].ok
    BY <1>0, <2>1
  <2> QED
    BY <2>2 DEF FailuresReported
<1>2. CASE RefuseLongKey
  <2>1. results' = << Failure("InvalidArgument") >>
    BY <1>2 DEF RefuseLongKey
  <2>2. \A i \in DOMAIN results' : ~results'[i].ok
    BY <1>0, <2>1
  <2> QED
    BY <2>2 DEF FailuresReported
<1>3. CASE Drop
    BY <1>3, FailuresStay DEF Drop
<1>4. CASE ClientInput
    BY <1>4, FailuresStay DEF ClientInput, fsmVars
<1>5. CASE ClientEnd
  <2>1. /\ cup /\ s2c # << >> /\ Head(s2c).kind = "end"
        /\ UNCHANGED requestVars /\ UNCHANGED << requestVars, fsm, failed, write_lost >>
        /\ results' = IF copen /\ sender = "submitted"
                      THEN Append(results, IF Head(s2c).error = "none" THEN Success ELSE Failure(Head(s2c).error))
                      ELSE results
    BY <1>5 DEF ClientEnd, ClientReads, ClientCompleted, fsmVars
  <2>2. Head(s2c).error = "none"
    <3>1. Head(s2c) \in Down
      BY <2>1, TailReplies DEF RequestInv
    <3> QED
      BY <2>1, <3>1 DEF Down, Answers
  <2>3. CASE ~(copen /\ sender = "submitted")
    BY <2>1, <2>3, FailuresStay
  <2>4. CASE copen /\ sender = "submitted"
    <3>1. PICK r \in Reports : r = Success /\ r.map = collected
      BY <1>0, ResultTypes
    <3>2. results' = Append(results, r)
      BY <2>1, <2>2, <2>4, <3>1
    <3>3. ~write_lost => \A n \in Nodes \cap Requested \cap failed : r.map[n] # NoEntry
      BY <2>1, <2>4, <3>1, SuccessIsWhole
    <3>4. fsm = "released"
      <4>1. 1 \in DOMAIN s2c /\ s2c[1] = Head(s2c)
        BY <1>0, <2>1 DEF StateTypes
      <4> QED
        BY <2>1, <4>1 DEF RequestInv, Replies, Ended
    <3> QED
      BY <2>1, <3>2, <3>3, <3>4, OneMoreResult
  <2> QED
    BY <2>3, <2>4
<1>6. CASE ClientDisconnected
  <2>1. /\ UNCHANGED << requestVars, fsm, failed, write_lost >>
        /\ results' = results \/ results' = Append(results, Failure("Disconnected"))
    BY <1>6 DEF ClientDisconnected, ClientCompleted, fsmVars
  <2>2. PICK r \in Reports : r = Failure("Disconnected") /\ ~r.ok
    BY <1>0
  <2>3. CASE results' = results
    BY <2>1, <2>3, FailuresStay
  <2>4. CASE results' = Append(results, r)
    BY <2>1, <2>2, <2>4, OneMoreResult
  <2> QED
    BY <2>1, <2>2, <2>3, <2>4
<1>7. CASE ServiceReceive
  <2>3. UNCHANGED << requestVars, clientVars, failed >>
    BY <1>7 DEF ServiceReceive, ServiceInput, ServiceStarts, ServiceCanceled
  <2>4. write_lost => write_lost'
    BY <1>7 DEF ServiceReceive, ServiceInput, ServiceStarts, ServiceCanceled, Complete
  <2>1. UNCHANGED << requestVars, results, failed >> /\ (write_lost => write_lost')
    BY <2>3, <2>4 DEF clientVars
  <2>2. fsm = "released" => fsm' = "released"
    BY <1>7 DEF ServiceReceive, ServiceInput, ServiceStarts, ServiceCanceled, Cancel
  <2> QED
    BY <2>1, <2>2, FailuresStay
<1>8. CASE ServiceDisconnected
    BY <1>8, FailuresStay DEF ServiceDisconnected, Cancel, clientVars
<1>9. CASE MakeCyRpcClient \/ \E n \in Nodes : NodeResponds(n)
  <2>1. UNCHANGED << requestVars, results >>
    BY <1>9 DEF MakeCyRpcClient, NodeResponds, clientVars
  <2>2. fsm # "released"
    <3>1. todo # << >> \/ pending # {}
      BY <1>9 DEF MakeCyRpcClient, NodeResponds
    <3>2. todo # << >> => ToSet(todo) # {}
      <4>1. todo # << >> => 1 \in DOMAIN todo
        BY <1>0 DEF StateTypes
      <4> QED
        BY <4>1 DEF ToSet
    <3> QED
      BY <3>1, <3>2 DEF RequestInv, Contexts
  <2>3. \A i \in DOMAIN results : ~results[i].ok
    BY <2>2 DEF FailuresReported
  <2> QED
    BY <2>1, <2>3 DEF FailuresReported
<1>10. CASE UNCHANGED vars
    BY <1>10, FailuresStay DEF vars, clientVars, fsmVars
<1> QED
    BY <1>1, <1>2, <1>3, <1>4, <1>5, <1>6, <1>7, <1>8, <1>9, <1>10 DEF Next, ClientReceive

(***************************************************************************)
(* A request that succeeds has an entry for exactly the nodes it was made  *)
(* for that answered for something or had a failed call (a responding node *)
(* without registers has none), with all registers of every node that no   *)
(* call failed for, each of them once and in order: for the three          *)
(* services, any set of nodes, any span of node ids with repetitions, any  *)
(* size of the messages it is split to, as long as the daemon's writes     *)
(* succeed.                                                                *)
(***************************************************************************)
THEOREM ReportsAreComplete == Spec => []ReportIsComplete
<1>1. RequestInv /\ FailuresReported => ReportIsComplete
    BY DEF RequestInv, WholeReports, Whole, FromTheFirst, FailuresReported, ReportIsComplete
<1>2. Init => FailuresReported
    BY DEF Init, FailuresReported
<1>3. RequestInv /\ FailuresReported /\ [Next]_vars => FailuresReported'
    BY FailuresStep
<1> QED
    BY <1>1, <1>2, <1>3, RequestInvariant, PTL DEF Spec

(***************************************************************************)
(* The loop over the contexts in handleEvent(Completed) never turns on a   *)
(* Fsm that an earlier turn released, and finds the context of its node;   *)
(* every variable keeps its type.                                          *)
(***************************************************************************)
THEOREM LoopsOnLiveFsm == Spec => []LoopOnLiveFsm
<1>1. ASSUME RequestInv PROVE LoopOnLiveFsm
  <2> USE <1>1 DEF RequestInv
  <2>1. /\ todo \in Seq(Nodes) /\ pending \cup ToSet(todo) = (IF fsm = "processing" THEN cnxt ELSE {})
        /\ cnxt \subseteq Nodes
    BY DEF StateTypes, Contexts
  <2>2. todo # << >> => ToSet(todo) # {}
    <3>1. todo # << >> => 1 \in DOMAIN todo
      BY <2>1
    <3> QED
      BY <3>1 DEF ToSet
  <2>3. pending \subseteq cnxt /\ ToSet(todo) \subseteq cnxt
    BY <2>1
  <2>4. registers \in 0 .. MaxRegs
    BY Constants DEF StateTypes, RequestTypes
  <2>5. ASSUME NEW n \in Nodes
        PROVE  /\ collected[n].is \in {"absent", "answered", "failed"}
               /\ \A k \in DOMAIN collected[n].items : collected[n].items[k].reg \in 0 .. MaxRegs
    <3>1. collected[n] \in Entries
      BY DEF StateTypes
    <3>2. CASE collected[n] = NoEntry \/ collected[n] = FailedEntry
      BY <3>2 DEF NoEntry, FailedEntry
    <3>3. CASE collected[n] \in [ is : {"answered"}, items : Seq(Items) \ {<< >>} ]
      <4>1. PICK items \in Seq(Items) : collected[n].items = items /\ collected[n].is = "answered"
        BY <3>3
      <4>2. \A k \in DOMAIN items : items[k] \in Items
        OBVIOUS
      <4> QED
        BY <4>1, <4>2 DEF Items
    <3> QED
      BY <3>1, <3>2, <3>3 DEF Entries
  <2>6. TypeOK
    BY <2>1, <2>3, <2>4, <2>5 DEF TypeOK, StateTypes
  <2>7. todo # << >> => fsm = "processing" /\ ToSet(todo) \subseteq cnxt
    BY <2>1, <2>2, <2>3
  <2> QED
    BY <2>6, <2>7 DEF LoopOnLiveFsm
<1> QED
    BY <1>1, RequestInvariant, PTL
=============================================================================
