--------------------------- MODULE ExecutorProofs ---------------------------
(***************************************************************************)
(* Proofs that the executors' bookkeeping is exact and that a callback     *)
(* runs on its own descriptor, for every number of descriptors,            *)
(* connections and events of a poll, and for both executors.               *)
(***************************************************************************)
EXTENDS Executor, FiniteSetTheorems, SequenceTheorems, TLAPS

Live(node) == { h \in Holders : node[h] # NoKey }

Listed(list) == { k \in Keys : list[k] # Nobody }

\* The nodes, the kernel's list and the count belong together.
Agree(node, list, total) ==
    /\ node \in [ Holders -> Keys \cup {NoKey} ] /\ list \in [ Keys -> Holders \cup {Nobody} ]
    /\ total = Cardinality(Live(node))
    /\ \A k \in Keys : list[k] # Nobody => node[list[k]] = k
    /\ \A h \in Holders : node[h] # NoKey => list[node[h]] = h

\* The kernel's turn has every entry once.
Turns(list, turn) ==
    /\ turn \in Seq(Keys) /\ IsInjective(turn)
    /\ ToSet(turn) = Listed(list)

\* The record of an executor.
Has(e, kqueue, node, total, list, turn) ==
    /\ DOMAIN e = {"kqueue", "timer", "node", "total", "list", "turn"}
    /\ e.kqueue = kqueue /\ e.node = node /\ e.total = total /\ e.list = list /\ e.turn = turn

Exact(e) ==
    /\ DOMAIN e = {"kqueue", "timer", "node", "total", "list", "turn"}
    /\ e.kqueue \in BOOLEAN
    /\ Agree(e.node, e.list, e.total)
    /\ Turns(e.list, e.turn)

\* The descriptor that the node of a holder is for, and its filter.
FdOf(h) == IF h = Accept THEN server_fd ELSE IF h = Pipe THEN pipe_fd
           ELSE IF h = Local THEN NoFd ELSE ctx[h]

FilterOf(h) == IF h = Pipe /\ connecting THEN "write" ELSE "read"

States ==
    /\ ex.kqueue \in Platforms
    /\ server_fd \in Fds \cup {NoFd} /\ pipe_fd \in Fds \cup {NoFd}
    /\ ctx \in [ Ids -> Fds \cup {NoFd} ] /\ last_id \in 0 .. MaxId
    /\ connecting \in BOOLEAN
    /\ pending \subseteq Fds /\ backlog \in 0 .. MaxBacklog
    /\ \A i \in Ids : i > last_id => ctx[i] = NoFd

\* No two holders have the same descriptor.
OwnFds == \A g, h \in Holders : FdOf(g) = FdOf(h) => g = h \/ FdOf(g) = NoFd

\* A holder has a node as long as it has a descriptor, and for that one.
Watches == \A h \in Holders :
    ex.node[h] = IF FdOf(h) = NoFd THEN NoKey ELSE Key(ex, FdOf(h), FilterOf(h))

\* What is due has a node and is due once.
DueOnce ==
    /\ scheduled \in Seq(Holders) /\ IsInjective(scheduled)
    /\ \A n \in DOMAIN scheduled : ex.node[scheduled[n]] # NoKey

(***************************************************************************)
(* The inductive invariant. The two properties do not say what makes them  *)
(* true: no two holders share a descriptor, so that closing one and using  *)
(* its number again leaves the nodes of the others alone; a holder has a   *)
(* node exactly while it has a descriptor; the kernel reports only what    *)
(* is in its list, and each entry once, so that a callback that destroys   *)
(* itself is not due a second time.                                        *)
(***************************************************************************)
ExecutorInv == Exact(ex) /\ States /\ OwnFds /\ Watches /\ DueOnce

-----------------------------------------------------------------------------
(***************************************************************************)
(* Sequences without repetition: what taking out one element, appending    *)
(* one and picking some leave.                                             *)
(***************************************************************************)

\* An element is appended that was not there.
LEMMA AppendedFacts ==
    ASSUME NEW S, NEW s \in Seq(S), IsInjective(s), NEW x \in S, x \notin ToSet(s)
    PROVE  /\ Append(s, x) \in Seq(S) /\ IsInjective(Append(s, x))
           /\ ToSet(Append(s, x)) = ToSet(s) \cup {x}
<1> DEFINE r == Append(s, x)
<1>1. /\ r \in Seq(S) /\ Len(s) \in Nat /\ Len(r) = Len(s) + 1 /\ DOMAIN r = 1 .. Len(s) + 1
      /\ DOMAIN s = 1 .. Len(s) /\ r[Len(s) + 1] = x /\ \A i \in 1 .. Len(s) : r[i] = s[i]
    OBVIOUS
<1> HIDE DEF r
<1>2. \A i \in 1 .. Len(s) : r[i] # x
    BY <1>1 DEF ToSet
<1>3. \A i \in DOMAIN r : i = Len(s) + 1 \/ i \in 1 .. Len(s)
    BY <1>1
<1>4. IsInjective(r)
    BY <1>1, <1>2, <1>3 DEF IsInjective
<1>5. ToSet(r) = ToSet(s) \cup {x}
  <2>1. ASSUME NEW i \in DOMAIN r PROVE r[i] \in ToSet(s) \cup {x}
    BY <1>1, <1>3 DEF ToSet
  <2>2. ASSUME NEW i \in DOMAIN s PROVE s[i] \in ToSet(r)
    BY <1>1 DEF ToSet
  <2>3. x \in ToSet(r)
    BY <1>1 DEF ToSet
  <2> QED
    BY <2>1, <2>2, <2>3 DEF ToSet
<1> QED
    BY <1>1, <1>4, <1>5 DEF r

\* An element is taken out.
LEMMA WithoutFacts ==
    ASSUME NEW S, NEW s \in Seq(S), IsInjective(s), NEW x
    PROVE  /\ Without(s, x) \in Seq(S) /\ IsInjective(Without(s, x))
           /\ ToSet(Without(s, x)) = ToSet(s) \ {x}
<1>1. CASE ~ \E i \in DOMAIN s : s[i] = x
    BY <1>1 DEF Without, ToSet
<1>2. CASE \E i \in DOMAIN s : s[i] = x
  <2> DEFINE p == CHOOSE i \in DOMAIN s : s[i] = x
             r == RemoveAt(s, p)
  <2>1. p \in DOMAIN s /\ s[p] = x /\ Without(s, x) = r
    BY <1>2 DEF Without
  <2> HIDE DEF p
  <2>2. Len(s) \in Nat /\ DOMAIN s = 1 .. Len(s) /\ p \in 1 .. Len(s)
    BY <2>1
  <2>3. /\ SubSeq(s, 1, p - 1) \in Seq(S) /\ Len(SubSeq(s, 1, p - 1)) = p - 1
        /\ \A i \in 1 .. p - 1 : SubSeq(s, 1, p - 1)[i] = s[i]
    BY <2>2, SubSeqProperties
  <2>4. /\ SubSeq(s, p + 1, Len(s)) \in Seq(S) /\ Len(SubSeq(s, p + 1, Len(s))) = Len(s) - p
        /\ \A i \in 1 .. Len(s) - p : SubSeq(s, p + 1, Len(s))[i] = s[p + i]
    <3> DEFINE t == SubSeq(s, p + 1, Len(s))
    <3>1. /\ t \in Seq(S)
          /\ Len(t) = IF p + 1 <= Len(s) THEN Len(s) - (p + 1) + 1 ELSE 0
          /\ \A i \in 1 .. Len(s) - (p + 1) + 1 : t[i] = s[(p + 1) + i - 1]
        BY <2>2, SubSeqProperties
    <3> HIDE DEF t
    <3>2. Len(t) = Len(s) - p
      <4>1. \A l \in Nat : \A q \in 1 .. l :
                (IF q + 1 <= l THEN l - (q + 1) + 1 ELSE 0) = l - q
        OBVIOUS
      <4> QED
        BY ONLY <2>2, <3>1, <4>1
    <3>3. ASSUME NEW i \in 1 .. Len(s) - p PROVE t[i] = s[p + i]
      <4>1. i \in 1 .. Len(s) - (p + 1) + 1 /\ (p + 1) + i - 1 = p + i
        BY <2>2
      <4> QED
        BY <3>1, <4>1
    <3> QED
        BY <3>1, <3>2, <3>3 DEF t
  <2>5. /\ r \in Seq(S) /\ Len(r) = Len(s) - 1 /\ DOMAIN r = 1 .. Len(s) - 1
        /\ \A i \in 1 .. Len(s) - 1 : r[i] = IF i < p THEN s[i] ELSE s[i + 1]
    <3> DEFINE a == SubSeq(s, 1, p - 1)
               b == SubSeq(s, p + 1, Len(s))
    <3> HIDE DEF a, b
    <3>1. /\ r = a \o b /\ a \in Seq(S) /\ b \in Seq(S) /\ Len(a) = p - 1 /\ Len(b) = Len(s) - p
          /\ \A i \in 1 .. p - 1 : a[i] = s[i]
          /\ \A i \in 1 .. Len(s) - p : b[i] = s[p + i]
        BY <2>3, <2>4 DEF a, b, RemoveAt
    <3> HIDE DEF r
    <3>2. /\ r \in Seq(S) /\ Len(r) = Len(a) + Len(b)
          /\ \A i \in 1 .. Len(a) + Len(b) : r[i] = IF i <= Len(a) THEN a[i] ELSE b[i - Len(a)]
        BY <3>1, ConcatProperties
    <3>3. Len(r) = Len(s) - 1 /\ DOMAIN r = 1 .. Len(s) - 1
      <4>1. Len(r) = (p - 1) + (Len(s) - p)
        BY ONLY <3>1, <3>2
      <4>2. \A l \in Nat : \A q \in 1 .. l : (q - 1) + (l - q) = l - 1
        OBVIOUS
      <4>3. Len(r) = Len(s) - 1
        BY ONLY <2>2, <4>1, <4>2
      <4>4. DOMAIN r = 1 .. Len(r)
        BY <3>2
      <4> QED
        BY ONLY <4>3, <4>4
    <3>4. ASSUME NEW i \in 1 .. Len(s) - 1 PROVE r[i] = IF i < p THEN s[i] ELSE s[i + 1]
      <4>1. CASE i < p
        BY <4>1, <2>2, <3>1, <3>2
      <4>2. CASE ~(i < p)
        <5>1. /\ i - (p - 1) \in 1 .. Len(s) - p /\ p + (i - (p - 1)) = i + 1
              /\ i \in 1 .. Len(a) + Len(b) /\ ~(i <= Len(a))
          <6>1. \A l \in Nat : \A q \in 1 .. l : \A n \in 1 .. l - 1 :
                    n >= q => /\ n - (q - 1) \in 1 .. l - q /\ q + (n - (q - 1)) = n + 1
                              /\ n \in 1 .. (q - 1) + (l - q) /\ ~(n <= q - 1)
            OBVIOUS
          <6>2. i >= p /\ Len(a) + Len(b) = (p - 1) + (Len(s) - p)
            BY <4>2, <2>2, <3>1
          <6> QED
            BY ONLY <2>2, <3>1, <6>1, <6>2
        <5>2. r[i] = b[i - (p - 1)]
            BY <3>1, <3>2, <5>1
        <5> QED
            BY <4>2, <3>1, <5>1, <5>2
      <4> QED
        BY <4>1, <4>2
    <3> QED
        BY <3>2, <3>3, <3>4
  <2> HIDE DEF r
  <2>6. \A i \in 1 .. Len(s) : s[i] = x => i = p
    BY <2>1, <2>2 DEF IsInjective
  <2>7. \A i \in 1 .. Len(s) - 1 : r[i] \in ToSet(s) \ {x}
    BY <2>2, <2>5, <2>6 DEF ToSet
  <2>8. IsInjective(r)
    <3> SUFFICES ASSUME NEW i \in 1 .. Len(s) - 1, NEW j \in 1 .. Len(s) - 1, r[i] = r[j]
                 PROVE  i = j
        BY <2>5 DEF IsInjective
    <3> DEFINE of(k) == IF k < p THEN k ELSE k + 1
    <3>1. r[i] = s[of(i)] /\ r[j] = s[of(j)] /\ of(i) \in 1 .. Len(s) /\ of(j) \in 1 .. Len(s)
        BY <2>2, <2>5
    <3>2. of(i) = of(j)
      <4> HIDE DEF of
      <4> QED
        BY <2>2, <3>1 DEF IsInjective
    <3> QED
        BY <2>2, <3>2
  <2>9. ASSUME NEW i \in 1 .. Len(s), s[i] # x PROVE s[i] \in ToSet(r)
    <3>1. CASE i < p
        BY <3>1, <2>2, <2>5 DEF ToSet
    <3>2. CASE i > p
      <4>1. i - 1 \in DOMAIN r /\ r[i - 1] = s[i]
        BY <3>2, <2>2, <2>5
      <4> QED
        BY <4>1 DEF ToSet
    <3> QED
        BY <3>1, <3>2, <2>1, <2>2, <2>9
  <2> QED
    BY <2>1, <2>2, <2>5, <2>7, <2>8, <2>9 DEF ToSet
<1> QED
    BY <1>1, <1>2

\* The places in a finite set of numbers have the ranks 1, 2, ... once each.
LEMMA Ranks ==
    ASSUME NEW at, at \subseteq Nat, IsFiniteSet(at), NEW n \in 1 .. Cardinality(at)
    PROVE  \E i \in at : Cardinality({ j \in at : j <= i }) = n
<1> DEFINE upto(i) == { j \in at : j <= i }
           rank == [ i \in at |-> Cardinality(upto(i)) ]
           total == Cardinality(at)
<1>1. total \in Nat
    BY FS_CardinalityType
<1>2. ASSUME NEW i \in at PROVE rank[i] \in 1 .. total
  <2>1. upto(i) \in SUBSET at /\ upto(i) # {}
    OBVIOUS
  <2>2. IsFiniteSet(upto(i)) /\ Cardinality(upto(i)) <= total
    BY <2>1, FS_Subset
  <2>3. Cardinality(upto(i)) \in Nat /\ Cardinality(upto(i)) # 0
    BY <2>1, <2>2, FS_CardinalityType, FS_EmptySet
  <2> QED
    BY <1>1, <2>2, <2>3
<1>3. ASSUME NEW i \in at, NEW k \in at, i < k PROVE rank[i] # rank[k]
  <2>1. upto(i) \in SUBSET upto(k) /\ k \in upto(k) /\ k \notin upto(i)
    <3>1. i \in Nat /\ k \in Nat /\ i < k /\ \A j \in at : j \in Nat
        BY <1>3
    <3>2. \A j \in at : j <= i => j <= k
        BY <3>1
    <3>3. upto(i) \in SUBSET upto(k)
        BY <3>2, Zenon
    <3>4. k <= k /\ ~(k <= i)
        BY <3>1
    <3> QED
        BY <3>3, <3>4, Zenon
  <2>2. IsFiniteSet(upto(k))
    BY FS_Subset
  <2> QED
    BY <2>1, <2>2, FS_Subset
<1>4. rank \in Injection(at, 1 .. total)
  <2>1. rank \in [ at -> 1 .. total ]
    BY <1>2
  <2>2. ASSUME NEW i \in at, NEW k \in at, rank[i] = rank[k] PROVE i = k
    <3>1. i < k \/ k < i \/ i = k
        OBVIOUS
    <3> QED
        BY <1>3, <2>2, <3>1
  <2> QED
    BY <2>1, <2>2 DEF Injection, IsInjective
<1>5. IsFiniteSet(1 .. total) /\ Cardinality(1 .. total) = total
    BY <1>1, FS_Interval
<1>6. rank \in Surjection(at, 1 .. total)
    BY <1>4, <1>5, FS_Injection
<1>7. PICK i \in at : rank[i] = n
    BY <1>6 DEF Surjection
<1> QED
    BY <1>7

\* Some elements are picked, in order.
LEMMA PickedFacts ==
    ASSUME NEW S, NEW s \in Seq(S), IsInjective(s), NEW at \in SUBSET DOMAIN s
    PROVE  /\ Picked(s, at) \in Seq(S) /\ IsInjective(Picked(s, at))
           /\ ToSet(Picked(s, at)) = { s[i] : i \in at }
           /\ Cardinality(at) \in Nat /\ DOMAIN Picked(s, at) = 1 .. Cardinality(at)
<1> DEFINE rank(i) == Cardinality({ j \in at : j <= i })
           place(n) == CHOOSE i \in at : rank(i) = n
           r == Picked(s, at)
<1>1. Len(s) \in Nat /\ DOMAIN s = 1 .. Len(s) /\ at \subseteq Nat
    OBVIOUS
<1>2. IsFiniteSet(at) /\ Cardinality(at) \in Nat
  <2>1. IsFiniteSet(1 .. Len(s))
    BY <1>1, FS_Interval
  <2>2. IsFiniteSet(at)
    BY <1>1, <2>1, FS_Subset
  <2> QED
    BY <2>2, FS_CardinalityType
<1>3. ASSUME NEW n \in 1 .. Cardinality(at) PROVE place(n) \in at /\ rank(place(n)) = n
  <2>1. \E i \in at : rank(i) = n
    BY <1>1, <1>2, Ranks
  <2> HIDE DEF rank
  <2> QED
    BY <2>1
<1>4. r = [ n \in 1 .. Cardinality(at) |-> s[place(n)] ]
    BY DEF Picked
<1>5. ASSUME NEW i \in at PROVE \E n \in 1 .. Cardinality(at) : place(n) = i
  <2> DEFINE upto(k) == { j \in at : j <= k }
  <2>1. upto(i) \in SUBSET at /\ upto(i) # {}
    BY <1>1
  <2>2. IsFiniteSet(upto(i)) /\ rank(i) <= Cardinality(at)
    BY <1>2, <2>1, FS_Subset
  <2>3. rank(i) \in Nat /\ rank(i) # 0
    BY <2>1, <2>2, FS_CardinalityType, FS_EmptySet
  <2>4. rank(i) \in 1 .. Cardinality(at)
    BY <1>2, <2>2, <2>3
  <2>5. place(rank(i)) \in at /\ rank(place(rank(i))) = rank(i)
    BY <1>3, <2>4
  <2>6. ASSUME NEW a \in at, NEW b \in at, a < b PROVE rank(a) # rank(b)
    <3>1. upto(a) \in SUBSET upto(b) /\ b \in upto(b) /\ b \notin upto(a)
        BY <1>1, <2>6
    <3>2. IsFiniteSet(upto(b))
        BY <1>2, FS_Subset
    <3> QED
        BY <3>1, <3>2, FS_Subset
  <2>7. place(rank(i)) = i
    <3>1. \A a, b \in at : a < b \/ b < a \/ a = b
        BY <1>1
    <3> HIDE DEF place, rank
    <3> QED
        BY <2>5, <2>6, <3>1
  <2> QED
    BY <2>4, <2>7
<1> HIDE DEF place, rank, r
<1>6. r \in Seq(S) /\ DOMAIN r = 1 .. Cardinality(at)
  <2>1. \A n \in 1 .. Cardinality(at) : s[place(n)] \in S
    BY <1>1, <1>3
  <2> QED
    BY <1>2, <1>4, <2>1
<1>7. IsInjective(r)
  <2> SUFFICES ASSUME NEW m \in 1 .. Cardinality(at), NEW n \in 1 .. Cardinality(at), r[m] = r[n]
               PROVE  m = n
    BY <1>6 DEF IsInjective
  <2>1. place(m) \in DOMAIN s /\ place(n) \in DOMAIN s /\ s[place(m)] = s[place(n)]
    BY <1>3, <1>4
  <2>2. place(m) = place(n)
    BY <2>1 DEF IsInjective
  <2> QED
    BY <1>3, <2>2
<1>8. ToSet(r) = { s[i] : i \in at }
  <2>1. ASSUME NEW n \in DOMAIN r PROVE \E i \in at : r[n] = s[i]
    BY <1>3, <1>4, <1>6
  <2>2. ASSUME NEW i \in at PROVE \E n \in DOMAIN r : r[n] = s[i]
    BY <1>4, <1>5, <1>6
  <2> QED
    BY <2>1, <2>2 DEF ToSet
<1> QED
    BY <1>2, <1>6, <1>7, <1>8 DEF r

-----------------------------------------------------------------------------
(***************************************************************************)
(* The operations of the executor keep its books exact, and what they do   *)
(* to the nodes.                                                           *)
(***************************************************************************)

\* Holders are not confused with each other or with nobody, nor keys with no key.
LEMMA NameFacts ==
    /\ IsFiniteSet(Holders) /\ Nobody \notin Holders /\ NoKey \notin Keys
    /\ Accept \notin Ids /\ Pipe \notin Ids /\ Local \notin Ids
    /\ Accept # Pipe /\ Accept # Local /\ Pipe # Local
    /\ \A k \in Keys : k[1] \in Fds /\ k[1] # NoFd
    /\ MaxId \in Nat /\ NoFd \notin Fds
<1>1. MaxId \in Nat /\ MaxFd \in Nat
    BY ExecutorAssumption
<1>2. IsFiniteSet(Ids)
    BY <1>1, FS_Interval DEF Ids
<1>3. IsFiniteSet({Accept, Pipe, Local})
  <2>1. IsFiniteSet({}) /\ IsFiniteSet({} \cup {Accept})
    BY FS_EmptySet, FS_AddElement
  <2>2. IsFiniteSet(({} \cup {Accept}) \cup {Pipe})
    BY <2>1, FS_AddElement
  <2>3. IsFiniteSet((({} \cup {Accept}) \cup {Pipe}) \cup {Local})
    BY <2>2, FS_AddElement
  <2>4. (({} \cup {Accept}) \cup {Pipe}) \cup {Local} = {Accept, Pipe, Local}
    OBVIOUS
  <2> QED
    BY <2>3, <2>4
<1>4. IsFiniteSet(Holders)
    BY <1>2, <1>3, FS_Union DEF Holders
<1>5. /\ Nobody \notin Holders
      /\ Accept \notin Ids /\ Pipe \notin Ids /\ Local \notin Ids
      /\ Accept # Pipe /\ Accept # Local /\ Pipe # Local
    BY <1>1 DEF Holders, Nobody, Ids, Accept, Pipe, Local
<1>6. NoFd \notin Fds
    BY <1>1 DEF Fds, NoFd
<1>7. \A k \in Keys : k[1] \in Fds /\ k[1] # NoFd
    BY <1>6 DEF Keys
<1>8. NoKey \notin Keys
    BY <1>7 DEF NoKey
<1> QED
    BY <1>1, <1>4, <1>5, <1>6, <1>7, <1>8

\* A node is added to the nodes and to the list.
LEMMA AgreeAdds ==
    ASSUME NEW node, NEW list, NEW total, Agree(node, list, total),
           NEW h \in Holders, NEW k \in Keys, node[h] = NoKey, list[k] = Nobody
    PROVE  Agree([ node EXCEPT ![h] = k ], [ list EXCEPT ![k] = h ], total + 1)
<1> DEFINE n == [ node EXCEPT ![h] = k ]
           l == [ list EXCEPT ![k] = h ]
<1>1. /\ n \in [ Holders -> Keys \cup {NoKey} ] /\ l \in [ Keys -> Holders \cup {Nobody} ]
      /\ n[h] = k /\ \A g \in Holders \ {h} : n[g] = node[g]
      /\ l[k] = h /\ \A j \in Keys \ {k} : l[j] = list[j]
    BY DEF Agree
<1> HIDE DEF n, l
<1>2. Live(n) = Live(node) \cup {h} /\ h \notin Live(node)
    BY <1>1, NameFacts DEF Live
<1>3. IsFiniteSet(Live(node))
    BY NameFacts, FS_Subset DEF Live
<1>4. Cardinality(Live(n)) = total + 1
    BY <1>2, <1>3, FS_AddElement DEF Agree
<1>5. ASSUME NEW j \in Keys, l[j] # Nobody PROVE n[l[j]] = j
  <2>1. CASE j = k
    BY <2>1, <1>1
  <2>2. CASE j # k
    <3>1. l[j] = list[j] /\ list[j] \in Holders /\ node[list[j]] = j
        BY <2>2, <1>1, <1>5 DEF Agree
    <3>2. list[j] # h
        BY <3>1, NameFacts
    <3> QED
        BY <1>1, <3>1, <3>2
  <2> QED
    BY <2>1, <2>2
<1>6. ASSUME NEW g \in Holders, n[g] # NoKey PROVE l[n[g]] = g
  <2>1. CASE g = h
    BY <2>1, <1>1
  <2>2. CASE g # h
    <3>1. n[g] = node[g] /\ node[g] \in Keys /\ list[node[g]] = g
        BY <2>2, <1>1, <1>6 DEF Agree
    <3>2. node[g] # k
        BY <3>1, NameFacts
    <3> QED
        BY <1>1, <3>1, <3>2
  <2> QED
    BY <2>1, <2>2
<1>7. Agree(n, l, total + 1)
    BY <1>1, <1>4, <1>5, <1>6 DEF Agree
<1> QED
    BY <1>7 DEF n, l

\* A node is taken out of both.
LEMMA AgreeDrops ==
    ASSUME NEW node, NEW list, NEW total, Agree(node, list, total),
           NEW h \in Holders, node[h] # NoKey
    PROVE  Agree([ node EXCEPT ![h] = NoKey ], [ list EXCEPT ![node[h]] = Nobody ], total - 1)
<1> DEFINE k == node[h]
           n == [ node EXCEPT ![h] = NoKey ]
           l == [ list EXCEPT ![k] = Nobody ]
<1>1. /\ n \in [ Holders -> Keys \cup {NoKey} ] /\ l \in [ Keys -> Holders \cup {Nobody} ]
      /\ n[h] = NoKey /\ \A g \in Holders \ {h} : n[g] = node[g]
      /\ l[k] = Nobody /\ \A j \in Keys \ {k} : l[j] = list[j]
      /\ k \in Keys /\ list[k] = h
    BY DEF Agree
<1> HIDE DEF n, l
<1>2. Live(n) = Live(node) \ {h} /\ h \in Live(node)
    BY <1>1, NameFacts DEF Live
<1>3. IsFiniteSet(Live(node))
    BY NameFacts, FS_Subset DEF Live
<1>4. Cardinality(Live(n)) = total - 1
    BY <1>2, <1>3, FS_RemoveElement DEF Agree
<1>5. ASSUME NEW j \in Keys, l[j] # Nobody PROVE n[l[j]] = j
  <2>1. j # k
    BY <1>1, <1>5
  <2>2. l[j] = list[j] /\ list[j] \in Holders /\ node[list[j]] = j
    BY <2>1, <1>1, <1>5 DEF Agree
  <2>3. list[j] # h
    BY <2>1, <2>2
  <2> QED
    BY <1>1, <2>2, <2>3
<1>6. ASSUME NEW g \in Holders, n[g] # NoKey PROVE l[n[g]] = g
  <2>1. g # h
    BY <1>1, <1>6
  <2>2. n[g] = node[g] /\ node[g] \in Keys /\ list[node[g]] = g
    BY <2>1, <1>1, <1>6 DEF Agree
  <2>3. node[g] # k
    BY <1>1, <2>1, <2>2
  <2> QED
    BY <1>1, <2>2, <2>3
<1>7. Agree(n, l, total - 1)
    BY <1>1, <1>4, <1>5, <1>6 DEF Agree
<1> QED
    BY <1>7 DEF n, l

\* An entry goes to the end of the kernel's turn, leaves it, or changes its holder.
LEMMA TurnsFacts ==
    ASSUME NEW list \in [ Keys -> Holders \cup {Nobody} ], NEW turn, Turns(list, turn), NEW k \in Keys
    PROVE  /\ \A h \in Holders : Turns([ list EXCEPT ![k] = h ], Append(Without(turn, k), k))
           /\ \A h \in Holders : list[k] # Nobody => Turns([ list EXCEPT ![k] = h ], turn)
           /\ Turns([ list EXCEPT ![k] = Nobody ], Without(turn, k))
<1>1. /\ Without(turn, k) \in Seq(Keys) /\ IsInjective(Without(turn, k))
      /\ ToSet(Without(turn, k)) = Listed(list) \ {k}
    BY WithoutFacts DEF Turns
<1>2. /\ Append(Without(turn, k), k) \in Seq(Keys) /\ IsInjective(Append(Without(turn, k), k))
      /\ ToSet(Append(Without(turn, k), k)) = Listed(list) \cup {k}
    BY <1>1, AppendedFacts
<1>3. ASSUME NEW h \in Holders PROVE Listed([ list EXCEPT ![k] = h ]) = Listed(list) \cup {k}
    BY NameFacts DEF Listed
<1>4. Listed([ list EXCEPT ![k] = Nobody ]) = Listed(list) \ {k}
    BY DEF Listed
<1>5. list[k] # Nobody => Listed(list) \cup {k} = Listed(list)
    BY DEF Listed
<1> QED
    BY <1>1, <1>2, <1>3, <1>4, <1>5 DEF Turns

\* What an operation comes to: exact books, and the nodes as given.
Becomes(e, f, node) == Exact(f) /\ f.node = node /\ f.kqueue = e.kqueue

\* A record of the executor has these fields.
LEMMA ExactFields ==
    ASSUME NEW kqueue \in BOOLEAN, NEW node, NEW total, NEW list, NEW turn,
           Agree(node, list, total), Turns(list, turn), NEW f,
           Has(f, kqueue, node, total, list, turn)
    PROVE  Exact(f) /\ f.node = node /\ f.kqueue = kqueue
BY DEF Exact, Has

\* A key that no node has is not in the list.
LEMMA Unlisted ==
    ASSUME NEW e, Exact(e), NEW k \in Keys, \A h \in Holders : e.node[h] # k
    PROVE  e.list[k] = Nobody
BY DEF Exact, Agree

\* AwaitableNode::setup
LEMMA SetupFacts ==
    ASSUME NEW e, Exact(e), NEW h \in Holders, NEW k \in Keys,
           e.node[h] = NoKey, e.list[k] = Nobody
    PROVE  Becomes(e, Setup(e, h, k), [ e.node EXCEPT ![h] = k ])
<1> DEFINE g == [ e EXCEPT !.node[h] = k, !.total = @ + 1 ]
           f == Setup(e, h, k)
<1>1. Has(g, e.kqueue, [ e.node EXCEPT ![h] = k ], e.total + 1,
            e.list, e.turn)
    BY DEF Exact, Has
<1> HIDE DEF g
<1>2. Has(f, e.kqueue, [ e.node EXCEPT ![h] = k ], e.total + 1,
            [ e.list EXCEPT ![k] = h ], Append(Without(e.turn, k), k))
  <2>1. f = KernelAdd(g, k, h)
    BY DEF Setup, g
  <2>2. g.list[k] = Nobody
    BY <1>1 DEF Has
  <2>3. f = [ g EXCEPT !.list[k] = h, !.turn = Append(Without(@, k), k) ]
    BY <2>1, <2>2 DEF KernelAdd
  <2> QED
    BY <1>1, <2>3 DEF Has
<1> HIDE DEF f
<1>3. Agree([ e.node EXCEPT ![h] = k ], [ e.list EXCEPT ![k] = h ], e.total + 1)
    BY AgreeAdds DEF Exact
<1>4. Turns([ e.list EXCEPT ![k] = h ], Append(Without(e.turn, k), k))
    BY TurnsFacts DEF Exact, Agree
<1>5. Exact(f) /\ f.node = [ e.node EXCEPT ![h] = k ] /\ f.kqueue = e.kqueue
    BY <1>2, <1>3, <1>4, ExactFields DEF Exact
<1> QED
    BY <1>5 DEF Becomes, f

\* The destructor of AwaitableNode
LEMMA DestroyedFacts ==
    ASSUME NEW e, Exact(e), NEW h \in Holders
    PROVE  Becomes(e, Destroyed(e, h), [ e.node EXCEPT ![h] = NoKey ])
<1>1. CASE e.node[h] = NoKey
  <2>1. [ e.node EXCEPT ![h] = NoKey ] = e.node
    BY <1>1 DEF Exact, Agree
  <2> QED
    BY <1>1, <2>1 DEF Destroyed, Becomes
<1>2. CASE e.node[h] # NoKey
  <2> DEFINE k == e.node[h]
             g == [ e EXCEPT !.node[h] = NoKey, !.total = @ - 1 ]
             f == Destroyed(e, h)
  <2>0. k \in Keys
    BY <1>2 DEF Exact, Agree
  <2>1. Has(g, e.kqueue, [ e.node EXCEPT ![h] = NoKey ], e.total - 1,
            e.list, e.turn)
    BY DEF Exact, Has
  <2>2. f = KernelDelete(g, k)
    BY <1>2 DEF Destroyed
  <2> HIDE DEF g, f
  <2>3. Has(f, e.kqueue, [ e.node EXCEPT ![h] = NoKey ], e.total - 1,
            [ e.list EXCEPT ![k] = Nobody ], Without(e.turn, k))
    BY <2>1, <2>2 DEF KernelDelete, Has
  <2>4. Agree([ e.node EXCEPT ![h] = NoKey ], [ e.list EXCEPT ![k] = Nobody ], e.total - 1)
    BY <1>2, AgreeDrops DEF Exact
  <2>5. Turns([ e.list EXCEPT ![k] = Nobody ], Without(e.turn, k))
    BY <2>0, TurnsFacts DEF Exact, Agree
  <2>6. Exact(f) /\ f.node = [ e.node EXCEPT ![h] = NoKey ] /\ f.kqueue = e.kqueue
    BY <2>3, <2>4, <2>5, ExactFields DEF Exact
  <2> QED
    BY <2>6 DEF Becomes, f
<1> QED
    BY <1>1, <1>2

\* The move constructor of AwaitableNode
LEMMA MovedFacts ==
    ASSUME NEW e, Exact(e), NEW from \in Holders, NEW to \in Holders, from # to,
           e.node[from] # NoKey, e.node[to] = NoKey
    PROVE  Becomes(e, Moved(e, from, to),
                   [ e.node EXCEPT ![to] = e.node[from], ![from] = NoKey ])
<1> DEFINE k == e.node[from]
           n == [ e.node EXCEPT ![to] = k, ![from] = NoKey ]
           l == [ e.list EXCEPT ![k] = to ]
           g == [ e EXCEPT !.node[to] = k, !.node[from] = NoKey ]
           f == Moved(e, from, to)
<1>1. /\ k \in Keys /\ e.list[k] = from /\ e.list[k] # Nobody
      /\ e.node \in [ Holders -> Keys \cup {NoKey} ]
      /\ e.list \in [ Keys -> Holders \cup {Nobody} ] /\ Turns(e.list, e.turn)
    BY NameFacts DEF Exact, Agree
<1>2. Has(g, e.kqueue, n, e.total, e.list, e.turn)
    BY DEF Exact, Has
<1>3. Agree(n, l, e.total)
  <2> DEFINE n1 == [ e.node EXCEPT ![from] = NoKey ]
             l1 == [ e.list EXCEPT ![k] = Nobody ]
  <2>1. Agree(n1, l1, e.total - 1)
    BY AgreeDrops DEF Exact
  <2>2. n1[to] = NoKey /\ l1[k] = Nobody
    BY <1>1
  <2>3. n = [ n1 EXCEPT ![to] = k ] /\ l = [ l1 EXCEPT ![k] = to ]
    BY <1>1
  <2>4. Agree([ n1 EXCEPT ![to] = k ], [ l1 EXCEPT ![k] = to ], (e.total - 1) + 1)
    <3> HIDE DEF n1, l1, k
    <3> QED
        BY <1>1, <2>1, <2>2, AgreeAdds
  <2>5. (e.total - 1) + 1 = e.total
    <3>1. IsFiniteSet(Live(e.node))
        BY NameFacts, FS_Subset DEF Live
    <3>2. e.total \in Nat
        BY <3>1, FS_CardinalityType DEF Exact, Agree
    <3> QED
        BY <3>2
  <2> QED
    BY <2>3, <2>4, <2>5
<1>4. Turns(l, e.turn)
    BY <1>1, TurnsFacts
<1>5. Turns([ [ e.list EXCEPT ![k] = Nobody ] EXCEPT ![k] = to ],
            Append(Without(Without(e.turn, k), k), k))
  <2> DEFINE l1 == [ e.list EXCEPT ![k] = Nobody ]
             t1 == Without(e.turn, k)
  <2>1. Turns(l1, t1) /\ l1 \in [ Keys -> Holders \cup {Nobody} ]
    BY <1>1, TurnsFacts
  <2> HIDE DEF l1, t1
  <2>2. Turns([ l1 EXCEPT ![k] = to ], Append(Without(t1, k), k))
    BY <1>1, <2>1, TurnsFacts
  <2> QED
    BY <2>2 DEF l1, t1
<1>6. [ [ e.list EXCEPT ![k] = Nobody ] EXCEPT ![k] = to ] = l
    BY <1>1
<1> HIDE DEF g, n, l
<1>7. CASE e.kqueue
  <2> DEFINE t == Append(Without(Without(e.turn, k), k), k)
  <2>1. f = KernelAdd(KernelDelete(g, k), k, to)
    BY <1>7 DEF Moved, g
  <2>2. Has(KernelDelete(g, k), e.kqueue, n, e.total, [ e.list EXCEPT ![k] = Nobody ], Without(e.turn, k))
    BY <1>2 DEF KernelDelete, Has
  <2>3. Has(f, e.kqueue, n, e.total, [ [ e.list EXCEPT ![k] = Nobody ] EXCEPT ![k] = to ], t)
    <3> DEFINE d == KernelDelete(g, k)
    <3>1. d.list[k] = Nobody
        BY <1>1, <2>2 DEF Has
    <3>2. f = [ d EXCEPT !.list[k] = to, !.turn = Append(Without(@, k), k) ]
        BY <2>1, <3>1 DEF KernelAdd
    <3> QED
        BY <2>2, <3>2 DEF Has
  <2>4. Has(f, e.kqueue, n, e.total, l, t)
    BY <1>6, <2>3
  <2> HIDE DEF f
  <2>5. Turns(l, t)
    BY <1>5, <1>6
  <2> HIDE DEF t
  <2>6. Exact(f) /\ f.node = n /\ f.kqueue = e.kqueue
    BY <1>3, <2>4, <2>5, ExactFields DEF Exact
  <2> QED
    BY <2>6 DEF Becomes, f, n
<1>8. CASE ~e.kqueue
  <2>1. f = KernelModify(g, k, to)
    BY <1>8 DEF Moved, g
  <2>2. Has(f, e.kqueue, n, e.total, l, e.turn)
    <3>1. f = [ g EXCEPT !.list[k] = to ]
        BY <1>1, <1>2, <2>1 DEF KernelModify, Has
    <3> QED
        BY <1>2, <3>1 DEF l, Has
  <2> HIDE DEF f
  <2>3. Exact(f) /\ f.node = n /\ f.kqueue = e.kqueue
    BY <1>3, <1>4, <2>2, ExactFields DEF Exact
  <2> QED
    BY <2>3 DEF Becomes, f, n
<1> QED
    BY <1>7, <1>8

\* close, once no node is for the descriptor: nothing is left to remove.
LEMMA ClosedFacts ==
    ASSUME NEW e, Exact(e), NEW fd \in Fds, \A h \in Holders : e.node[h] # NoKey => e.node[h][1] # fd
    PROVE  Becomes(e, KernelClose(e, fd), e.node)
<1> DEFINE t == Without(Without(Without(e.turn, << fd, "read" >>), << fd, "write" >>), << fd, "any" >>)
           l == [ k \in Keys |-> IF k[1] = fd THEN Nobody ELSE e.list[k] ]
           f == KernelClose(e, fd)
<1>1. /\ e.node \in [ Holders -> Keys \cup {NoKey} ]
      /\ e.list \in [ Keys -> Holders \cup {Nobody} ] /\ Turns(e.list, e.turn)
    BY DEF Exact, Agree
<1>2. Has(f, e.kqueue, e.node, e.total, l, t)
    BY DEF Exact, KernelClose, Has
<1>3. ASSUME NEW k \in Keys, k[1] = fd PROVE e.list[k] = Nobody
  <2>1. \A h \in Holders : e.node[h] # k
    BY <1>3, NameFacts
  <2> QED
    BY <2>1, Unlisted
<1>4. l = e.list
    BY <1>1, <1>3
<1>5. Turns(e.list, t)
  <2> DEFINE t1 == Without(e.turn, << fd, "read" >>)
             t2 == Without(t1, << fd, "write" >>)
             t3 == Without(t2, << fd, "any" >>)
  <2>1. /\ t1 \in Seq(Keys) /\ IsInjective(t1)
        /\ ToSet(t1) = Listed(e.list) \ {<< fd, "read" >>}
    BY <1>1, WithoutFacts DEF Turns
  <2> HIDE DEF t1
  <2>2. t2 \in Seq(Keys) /\ IsInjective(t2) /\ ToSet(t2) = ToSet(t1) \ {<< fd, "write" >>}
    BY <2>1, WithoutFacts
  <2> HIDE DEF t2
  <2>3. t3 \in Seq(Keys) /\ IsInjective(t3) /\ ToSet(t3) = ToSet(t2) \ {<< fd, "any" >>}
    BY <2>2, WithoutFacts
  <2> HIDE DEF t3
  <2>4. /\ << fd, "read" >> \notin Listed(e.list) /\ << fd, "write" >> \notin Listed(e.list)
        /\ << fd, "any" >> \notin Listed(e.list)
    BY <1>3 DEF Listed
  <2>5. Turns(e.list, t3)
    BY <2>1, <2>2, <2>3, <2>4 DEF Turns
  <2> QED
    BY <2>5 DEF t1, t2, t3
<1> HIDE DEF t, l, f
<1>6. Exact(f) /\ f.node = e.node /\ f.kqueue = e.kqueue
    BY <1>2, <1>4, <1>5, ExactFields DEF Exact
<1> QED
    BY <1>6 DEF Becomes, f

\* registerAwaitableCallback: only the holder has the new node in the end.
LEMMA RegisteredFacts ==
    ASSUME NEW e, Exact(e), NEW h \in Holders, h # Local, NEW k \in Keys,
           e.node[Local] = NoKey, e.node[h] = NoKey, \A g \in Holders : e.node[g] # k
    PROVE  Becomes(e, Registered(e, h, k), [ e.node EXCEPT ![h] = k ])
<1> DEFINE e1 == Setup(e, Local, k)
           e2 == Moved(e1, Local, h)
           e3 == Destroyed(e2, Local)
<1>1. Local \in Holders /\ k # NoKey /\ e.node \in [ Holders -> Keys \cup {NoKey} ]
    BY NameFacts DEF Holders, Exact, Agree
<1>2. Becomes(e, e1, [ e.node EXCEPT ![Local] = k ])
    BY <1>1, Unlisted, SetupFacts
<1> HIDE DEF e1
<1>3. /\ Exact(e1) /\ e1.node = [ e.node EXCEPT ![Local] = k ] /\ e1.kqueue = e.kqueue
      /\ e1.node[Local] = k /\ e1.node[h] = NoKey
    BY <1>1, <1>2 DEF Becomes
<1>4. Becomes(e1, e2, [ e1.node EXCEPT ![h] = k, ![Local] = NoKey ])
    BY <1>1, <1>3, MovedFacts
<1> HIDE DEF e2
<1>5. Exact(e2) /\ e2.node = [ e1.node EXCEPT ![h] = k, ![Local] = NoKey ] /\ e2.kqueue = e.kqueue
    BY <1>3, <1>4 DEF Becomes
<1>6. Becomes(e2, e3, [ e2.node EXCEPT ![Local] = NoKey ])
    BY <1>1, <1>5, DestroyedFacts
<1> HIDE DEF e3
<1>7. [ e2.node EXCEPT ![Local] = NoKey ] = [ e.node EXCEPT ![h] = k ]
    BY <1>1, <1>3, <1>5
<1>8. Exact(e3) /\ e3.node = [ e.node EXCEPT ![h] = k ] /\ e3.kqueue = e.kqueue
    BY <1>5, <1>6, <1>7 DEF Becomes
<1> QED
    BY <1>8 DEF Becomes, Registered, e1, e2, e3

\* handleConnect: the old node goes before the new one is registered, for a key
\* that may be the same.
LEMMA ConnectFacts ==
    ASSUME NEW e, Exact(e), NEW k \in Keys,
           e.node[Local] = NoKey, \A g \in Holders \ {Pipe} : e.node[g] # k
    PROVE  Becomes(e, Assigned(Destroyed(e, Pipe), Pipe, k), [ e.node EXCEPT ![Pipe] = k ])
<1> DEFINE e0 == Destroyed(e, Pipe)
           e1 == Setup(e0, Local, k)
           e2 == Destroyed(e1, Pipe)
           e3 == Moved(e2, Local, Pipe)
           e4 == Destroyed(e3, Local)
<1>1. /\ Local \in Holders /\ Pipe \in Holders /\ Local # Pipe /\ k # NoKey
      /\ e.node \in [ Holders -> Keys \cup {NoKey} ]
    BY NameFacts DEF Holders, Exact, Agree
<1>2. Becomes(e, e0, [ e.node EXCEPT ![Pipe] = NoKey ])
    BY <1>1, DestroyedFacts
<1> HIDE DEF e0
<1>3. /\ Exact(e0) /\ e0.node = [ e.node EXCEPT ![Pipe] = NoKey ] /\ e0.kqueue = e.kqueue
      /\ e0.node[Local] = NoKey /\ \A g \in Holders : e0.node[g] # k
    BY <1>1, <1>2 DEF Becomes
<1>4. Becomes(e0, e1, [ e0.node EXCEPT ![Local] = k ])
    BY <1>1, <1>3, Unlisted, SetupFacts
<1> HIDE DEF e1
<1>5. Exact(e1) /\ e1.node = [ e0.node EXCEPT ![Local] = k ] /\ e1.kqueue = e.kqueue
    BY <1>3, <1>4 DEF Becomes
<1>6. Becomes(e1, e2, [ e1.node EXCEPT ![Pipe] = NoKey ])
    BY <1>1, <1>5, DestroyedFacts
<1> HIDE DEF e2
<1>7. /\ Exact(e2) /\ e2.node = [ e1.node EXCEPT ![Pipe] = NoKey ] /\ e2.kqueue = e.kqueue
      /\ e2.node[Local] = k /\ e2.node[Pipe] = NoKey
    BY <1>1, <1>3, <1>5, <1>6 DEF Becomes
<1>8. Becomes(e2, e3, [ e2.node EXCEPT ![Pipe] = k, ![Local] = NoKey ])
    BY <1>1, <1>7, MovedFacts
<1> HIDE DEF e3
<1>9. Exact(e3) /\ e3.node = [ e2.node EXCEPT ![Pipe] = k, ![Local] = NoKey ] /\ e3.kqueue = e.kqueue
    BY <1>7, <1>8 DEF Becomes
<1>10. Becomes(e3, e4, [ e3.node EXCEPT ![Local] = NoKey ])
    BY <1>1, <1>9, DestroyedFacts
<1> HIDE DEF e4
<1>11. [ e3.node EXCEPT ![Local] = NoKey ] = [ e.node EXCEPT ![Pipe] = k ]
    BY <1>1, <1>3, <1>5, <1>7, <1>9
<1>12. Exact(e4) /\ e4.node = [ e.node EXCEPT ![Pipe] = k ] /\ e4.kqueue = e.kqueue
    BY <1>9, <1>10, <1>11 DEF Becomes
<1> QED
    BY <1>12 DEF Becomes, Assigned, e0, e1, e2, e3, e4

-----------------------------------------------------------------------------
(***************************************************************************)
(* Descriptors and holders.                                                *)
(***************************************************************************)

\* A set of naturals has a least element: the order on Nat is well-founded.
LEMMA LeastNatural ==
    ASSUME NEW S, S \subseteq Nat, S # {}
    PROVE  \E x \in S : \A y \in S : x <= y
<1> DEFINE R == { ss \in Nat \X Nat : ss[1] < ss[2] }
<1>1. IsWellFoundedOn(R, Nat)
    BY NatLessThanWellFounded, Zenon DEF OpToRel
<1>2. \E x \in S : \A y \in S : ~(<< y, x >> \in R)
  <2> HIDE DEF R
  <2> QED
    BY <1>1, WFMin
<1>3. \A x \in S : \A y \in S : ~(<< y, x >> \in R) => x <= y
    OBVIOUS
<1> QED
    BY <1>2, <1>3

\* The lowest free number is free.
LEMMA NewFdFacts ==
    ASSUME States, FreeFds # {}
    PROVE  /\ NewFd \in Fds /\ NewFd # NoFd
           /\ \A h \in Holders : FdOf(h) # NewFd
<1>1. FreeFds \subseteq Nat
    BY ExecutorAssumption DEF FreeFds, Fds
<1>2. \E fd \in FreeFds : \A other \in FreeFds : fd <= other
    BY <1>1, LeastNatural
<1>3. NewFd \in FreeFds
    BY <1>2 DEF NewFd
<1>4. NewFd \in Fds /\ NewFd # NoFd /\ NewFd \notin Open
    BY <1>3, NameFacts DEF FreeFds
<1>5. ASSUME NEW h \in Holders PROVE FdOf(h) \in Open \cup {NoFd}
    BY DEF FdOf, Open, Holders
<1> QED
    BY <1>4, <1>5

\* The holders and their descriptors have their types.
LEMMA FdFacts ==
    ASSUME States
    PROVE  /\ \A h \in Holders : FdOf(h) \in Fds \cup {NoFd}
           /\ FdOf(Accept) = server_fd /\ FdOf(Pipe) = pipe_fd /\ FdOf(Local) = NoFd
           /\ \A i \in Ids : FdOf(i) = ctx[i]
           /\ {Accept, Pipe, Local} \subseteq Holders /\ Ids \subseteq Holders
           /\ \A h \in Holders : h \in Ids \/ h = Accept \/ h = Pipe \/ h = Local
<1>1. /\ FdOf(Accept) = server_fd /\ FdOf(Pipe) = pipe_fd /\ FdOf(Local) = NoFd
      /\ \A i \in Ids : FdOf(i) = ctx[i]
    BY NameFacts DEF FdOf
<1>2. \A h \in Holders : h \in Ids \/ h = Accept \/ h = Pipe \/ h = Local
    BY DEF Holders
<1>3. \A h \in Holders : FdOf(h) \in Fds \cup {NoFd}
    BY <1>1, <1>2 DEF States
<1> QED
    BY <1>1, <1>2, <1>3 DEF Holders

\* A key is for its descriptor.
LEMMA KeyFacts ==
    ASSUME NEW e, NEW fd \in Fds, NEW filter \in {"read", "write"}
    PROVE  Key(e, fd, filter) \in Keys /\ Key(e, fd, filter)[1] = fd /\ Key(e, fd, filter) # NoKey
<1>1. Key(e, fd, filter) \in Keys /\ Key(e, fd, filter)[1] = fd
    BY DEF Key, Keys
<1> QED
    BY <1>1, NameFacts

\* The nodes that a holder's neighbours have are for other descriptors.
LEMMA NodeFacts ==
    ASSUME States, Watches, NEW h \in Holders
    PROVE  /\ FdOf(h) = NoFd => ex.node[h] = NoKey
           /\ FdOf(h) # NoFd => /\ ex.node[h] \in Keys /\ ex.node[h][1] = FdOf(h)
                                /\ ex.node[h] # NoKey
<1>1. FilterOf(h) \in {"read", "write"}
    BY DEF FilterOf
<1>2. ex.node[h] = IF FdOf(h) = NoFd THEN NoKey ELSE Key(ex, FdOf(h), FilterOf(h))
    BY DEF Watches
<1>3. FdOf(h) # NoFd => FdOf(h) \in Fds
    BY FdFacts
<1> QED
    BY <1>1, <1>2, <1>3, KeyFacts

\* A holder gets a node for a descriptor that no other one has.
LEMMA Gains ==
    ASSUME ExecutorInv, NEW h \in Holders, NEW fd \in Fds,
           Becomes(ex, ex', [ ex.node EXCEPT ![h] = Key(ex, fd, FilterOf(h)') ]),
           FdOf(h)' = fd,
           \A g \in Holders \ {h} : /\ FdOf(g)' = FdOf(g) /\ FilterOf(g)' = FilterOf(g)
                                    /\ FdOf(g) # fd
    PROVE  /\ Exact(ex)' /\ OwnFds' /\ Watches' /\ ex'.kqueue = ex.kqueue
           /\ \A g \in Holders : ex.node[g] # NoKey => ex'.node[g] # NoKey
<1>1. /\ Exact(ex') /\ ex'.node = [ ex.node EXCEPT ![h] = Key(ex, fd, FilterOf(h)') ]
      /\ ex'.kqueue = ex.kqueue
    BY DEF Becomes
<1>2. ex.node \in [ Holders -> Keys \cup {NoKey} ]
    BY DEF ExecutorInv, Exact, Agree
<1>3. \A f, t : Key(ex', f, t) = Key(ex, f, t)
    BY <1>1 DEF Key
<1>4. FilterOf(h)' \in {"read", "write"} /\ fd # NoFd
    BY NameFacts DEF FilterOf
<1>5. /\ ex'.node[h] = Key(ex, fd, FilterOf(h)') /\ ex'.node[h] # NoKey
      /\ \A g \in Holders \ {h} : ex'.node[g] = ex.node[g]
    BY <1>1, <1>2, <1>4, KeyFacts
<1>6. Watches'
  <2> SUFFICES ASSUME NEW g \in Holders
               PROVE  ex'.node[g] = IF FdOf(g)' = NoFd THEN NoKey
                                    ELSE Key(ex', FdOf(g)', FilterOf(g)')
    BY DEF Watches
  <2>1. CASE g = h
    BY <2>1, <1>3, <1>4, <1>5
  <2>2. CASE g # h
    BY <2>2, <1>3, <1>5 DEF ExecutorInv, Watches
  <2> QED
    BY <2>1, <2>2
<1>7. OwnFds'
  <2> SUFFICES ASSUME NEW f \in Holders, NEW g \in Holders, FdOf(f)' = FdOf(g)'
               PROVE  f = g \/ FdOf(f)' = NoFd
    BY DEF OwnFds
  <2>1. CASE f = h \/ g = h
    BY <2>1
  <2>2. CASE f # h /\ g # h
    BY <2>2 DEF ExecutorInv, OwnFds
  <2> QED
    BY <2>1, <2>2
<1> QED
    BY <1>1, <1>5, <1>6, <1>7

\* A holder loses its node and its descriptor.
LEMMA Loses ==
    ASSUME ExecutorInv, NEW h \in Holders,
           Becomes(ex, ex', [ ex.node EXCEPT ![h] = NoKey ]),
           FdOf(h)' = NoFd,
           \A g \in Holders \ {h} : FdOf(g)' = FdOf(g) /\ FilterOf(g)' = FilterOf(g)
    PROVE  /\ Exact(ex)' /\ OwnFds' /\ Watches' /\ ex'.kqueue = ex.kqueue
           /\ \A g \in Holders \ {h} : ex'.node[g] = ex.node[g]
<1>1. Exact(ex') /\ ex'.node = [ ex.node EXCEPT ![h] = NoKey ] /\ ex'.kqueue = ex.kqueue
    BY DEF Becomes
<1>2. ex.node \in [ Holders -> Keys \cup {NoKey} ]
    BY DEF ExecutorInv, Exact, Agree
<1>3. \A f, t : Key(ex', f, t) = Key(ex, f, t)
    BY <1>1 DEF Key
<1>4. ex'.node[h] = NoKey /\ \A g \in Holders \ {h} : ex'.node[g] = ex.node[g]
    BY <1>1, <1>2
<1>5. Watches'
  <2> SUFFICES ASSUME NEW g \in Holders
               PROVE  ex'.node[g] = IF FdOf(g)' = NoFd THEN NoKey
                                    ELSE Key(ex', FdOf(g)', FilterOf(g)')
    BY DEF Watches
  <2>1. CASE g = h
    BY <2>1, <1>4
  <2>2. CASE g # h
    BY <2>2, <1>3, <1>4 DEF ExecutorInv, Watches
  <2> QED
    BY <2>1, <2>2
<1>6. OwnFds'
  <2> SUFFICES ASSUME NEW f \in Holders, NEW g \in Holders, FdOf(f)' = FdOf(g)'
               PROVE  f = g \/ FdOf(f)' = NoFd
    BY DEF OwnFds
  <2>1. CASE f = h \/ g = h
    BY <2>1
  <2>2. CASE f # h /\ g # h
    BY <2>2 DEF ExecutorInv, OwnFds
  <2> QED
    BY <2>1, <2>2
<1> QED
    BY <1>1, <1>4, <1>5, <1>6

\* The holder's node is destroyed and its descriptor closed: no other node is for it.
LEMMA GoneFacts ==
    ASSUME ExecutorInv, NEW h \in Holders, FdOf(h) # NoFd
    PROVE  Becomes(ex, KernelClose(Destroyed(ex, h), FdOf(h)), [ ex.node EXCEPT ![h] = NoKey ])
<1> DEFINE e1 == Destroyed(ex, h)
           e2 == KernelClose(e1, FdOf(h))
<1>1. Becomes(ex, e1, [ ex.node EXCEPT ![h] = NoKey ])
    BY DestroyedFacts DEF ExecutorInv
<1> HIDE DEF e1
<1>2. /\ Exact(e1) /\ e1.node = [ ex.node EXCEPT ![h] = NoKey ] /\ e1.kqueue = ex.kqueue
      /\ ex.node \in [ Holders -> Keys \cup {NoKey} ]
    BY <1>1 DEF Becomes, ExecutorInv, Exact, Agree
<1>3. FdOf(h) \in Fds
    BY FdFacts DEF ExecutorInv
<1>4. ASSUME NEW g \in Holders, e1.node[g] # NoKey PROVE e1.node[g][1] # FdOf(h)
  <2>1. g # h /\ e1.node[g] = ex.node[g]
    BY <1>2, <1>4
  <2>2. FdOf(g) # NoFd /\ ex.node[g][1] = FdOf(g)
    BY <2>1, <1>4, NodeFacts DEF ExecutorInv
  <2>3. FdOf(g) # FdOf(h)
    BY <2>1, <2>2 DEF ExecutorInv, OwnFds
  <2> QED
    BY <2>1, <2>2, <2>3
<1>5. Becomes(e1, e2, e1.node)
    BY <1>2, <1>3, <1>4, ClosedFacts
<1> HIDE DEF e2
<1>6. Exact(e2) /\ e2.node = [ ex.node EXCEPT ![h] = NoKey ] /\ e2.kqueue = ex.kqueue
    BY <1>2, <1>5 DEF Becomes
<1> QED
    BY <1>6 DEF Becomes, e1, e2

\* The callback that is run is not due again.
LEMMA TailFacts ==
    ASSUME ExecutorInv, scheduled # << >>
    PROVE  /\ Tail(scheduled) \in Seq(Holders) /\ IsInjective(Tail(scheduled))
           /\ \A n \in DOMAIN Tail(scheduled) :
                /\ Tail(scheduled)[n] \in Holders /\ Tail(scheduled)[n] # Head(scheduled)
                /\ ex.node[Tail(scheduled)[n]] # NoKey
           /\ Head(scheduled) \in Holders /\ ex.node[Head(scheduled)] # NoKey
<1>1. /\ scheduled \in Seq(Holders) /\ \A n \in DOMAIN scheduled : ex.node[scheduled[n]] # NoKey
      /\ \A m, n \in DOMAIN scheduled : scheduled[m] = scheduled[n] => m = n
    BY DEF ExecutorInv, DueOnce, IsInjective
<1> DEFINE t == Tail(scheduled)
<1>2. /\ t \in Seq(Holders) /\ Len(scheduled) \in Nat \ {0} /\ DOMAIN t = 1 .. Len(scheduled) - 1
      /\ DOMAIN scheduled = 1 .. Len(scheduled) /\ Head(scheduled) = scheduled[1]
      /\ \A n \in 1 .. Len(scheduled) - 1 : t[n] = scheduled[n + 1]
      /\ \A n \in 1 .. Len(scheduled) : scheduled[n] \in Holders
    BY <1>1
<1> HIDE DEF t
<1>3. \A n \in DOMAIN t : n + 1 \in DOMAIN scheduled /\ n + 1 # 1 /\ t[n] = scheduled[n + 1]
    BY <1>2
<1>4. IsInjective(t)
  <2> SUFFICES ASSUME NEW m \in DOMAIN t, NEW n \in DOMAIN t, t[m] = t[n] PROVE m = n
    BY DEF IsInjective
  <2>1. m + 1 = n + 1
    BY <1>1, <1>3
  <2> QED
    BY <1>2, <2>1
<1>5. 1 \in DOMAIN scheduled
    BY <1>2
<1>6. ASSUME NEW n \in DOMAIN t
      PROVE  t[n] \in Holders /\ t[n] # Head(scheduled) /\ ex.node[t[n]] # NoKey
    BY <1>1, <1>2, <1>3, <1>5
<1>7. Head(scheduled) \in Holders /\ ex.node[Head(scheduled)] # NoKey
    BY <1>1, <1>2, <1>5
<1> QED
    BY <1>2, <1>4, <1>6, <1>7 DEF t

\* A step that leaves the executor, the descriptors and their filters alone.
LEMMA Same ==
    ASSUME ExecutorInv, UNCHANGED << ex, server_fd, ctx, pipe_fd, connecting >>
    PROVE  Exact(ex)' /\ OwnFds' /\ Watches'
BY DEF ExecutorInv, Exact, Agree, Turns, Live, Listed, OwnFds, Watches, FdOf, FilterOf, Key

\* Nothing is changed but what is pending, and the head of what is due is run.
LEMMA RunsHead ==
    ASSUME ExecutorInv, scheduled # << >>, scheduled' = Tail(scheduled),
           UNCHANGED << ex, server_fd, ctx, last_id, pipe_fd, connecting >>,
           pending' \subseteq Fds, backlog' \in 0 .. MaxBacklog
    PROVE  ExecutorInv'
<1>1. Exact(ex)' /\ OwnFds' /\ Watches'
    BY Same
<1>2. DueOnce'
    BY TailFacts DEF DueOnce
<1>3. States'
    BY DEF ExecutorInv, States
<1> QED
    BY <1>1, <1>2, <1>3 DEF ExecutorInv

LEMMA ServerStartKeeps ==
    ASSUME ExecutorInv, ServerStart
    PROVE  ExecutorInv'
<1> USE DEF ExecutorInv
<1>1. /\ NewFd \in Fds /\ NewFd # NoFd /\ \A h \in Holders : FdOf(h) # NewFd
    BY NewFdFacts DEF ServerStart
<1> DEFINE k == Key(ex, NewFd, "read")
<1>2. k \in Keys /\ k[1] = NewFd
    BY <1>1, KeyFacts
<1>3. \A g \in Holders : ex.node[g] # k
    BY <1>1, <1>2, NodeFacts, NameFacts
<1>4. /\ Accept \in Holders /\ Local \in Holders /\ Accept # Local
      /\ ex.node[Local] = NoKey /\ ex.node[Accept] = NoKey
    BY FdFacts, NameFacts, NodeFacts DEF ServerStart
<1>5. Becomes(ex, ex', [ ex.node EXCEPT ![Accept] = k ])
    BY <1>2, <1>3, <1>4, RegisteredFacts DEF ServerStart
<1>6. /\ FdOf(Accept)' = NewFd /\ FilterOf(Accept)' = "read"
      /\ \A g \in Holders \ {Accept} : FdOf(g)' = FdOf(g) /\ FilterOf(g)' = FilterOf(g)
    BY NameFacts DEF ServerStart, FdOf, FilterOf
<1>7. /\ Exact(ex)' /\ OwnFds' /\ Watches' /\ ex'.kqueue = ex.kqueue
      /\ \A g \in Holders : ex.node[g] # NoKey => ex'.node[g] # NoKey
    BY <1>1, <1>4, <1>5, <1>6, Gains
<1>8. States'
    BY <1>1, <1>7 DEF ServerStart, States
<1>9. DueOnce'
  <2>1. \A n \in DOMAIN scheduled : scheduled[n] \in Holders
    BY DEF DueOnce
  <2> QED
    BY <1>7, <2>1 DEF ServerStart, DueOnce
<1> QED
    BY <1>7, <1>8, <1>9

LEMMA ClientStartKeeps ==
    ASSUME ExecutorInv, ClientStart
    PROVE  ExecutorInv'
<1> USE DEF ExecutorInv
<1>1. /\ NewFd \in Fds /\ NewFd # NoFd /\ \A h \in Holders : FdOf(h) # NewFd
    BY NewFdFacts DEF ClientStart
<1> DEFINE k == Key(ex, NewFd, "write")
<1>2. k \in Keys /\ k[1] = NewFd
    BY <1>1, KeyFacts
<1>3. \A g \in Holders : ex.node[g] # k
    BY <1>1, <1>2, NodeFacts, NameFacts
<1>4. /\ Pipe \in Holders /\ Local \in Holders /\ Pipe # Local
      /\ ex.node[Local] = NoKey /\ ex.node[Pipe] = NoKey
    BY FdFacts, NameFacts, NodeFacts DEF ClientStart
<1>5. Becomes(ex, ex', [ ex.node EXCEPT ![Pipe] = k ])
    BY <1>2, <1>3, <1>4, RegisteredFacts DEF ClientStart
<1>6. /\ FdOf(Pipe)' = NewFd /\ FilterOf(Pipe)' = "write"
      /\ \A g \in Holders \ {Pipe} : FdOf(g)' = FdOf(g) /\ FilterOf(g)' = FilterOf(g)
    BY NameFacts DEF ClientStart, FdOf, FilterOf
<1>7. /\ Exact(ex)' /\ OwnFds' /\ Watches' /\ ex'.kqueue = ex.kqueue
      /\ \A g \in Holders : ex.node[g] # NoKey => ex'.node[g] # NoKey
    BY <1>1, <1>4, <1>5, <1>6, Gains
<1>8. States'
    BY <1>1, <1>7 DEF ClientStart, States
<1>9. DueOnce'
  <2>1. \A n \in DOMAIN scheduled : scheduled[n] \in Holders
    BY DEF DueOnce
  <2> QED
    BY <1>7, <2>1 DEF ClientStart, DueOnce
<1> QED
    BY <1>7, <1>8, <1>9

LEMMA HandleAcceptKeeps ==
    ASSUME ExecutorInv, HandleAccept
    PROVE  ExecutorInv'
<1> USE DEF ExecutorInv
<1>0. last_id + 1 \in Ids /\ last_id \in Nat
    BY NameFacts DEF HandleAccept, States, Ids
<1> PICK i \in Ids : i = last_id + 1
    BY <1>0
<1> DEFINE k == Key(ex, NewFd, "read")
<1>1. /\ NewFd \in Fds /\ NewFd # NoFd /\ \A h \in Holders : FdOf(h) # NewFd
    BY NewFdFacts DEF HandleAccept
<1>2. k \in Keys /\ k[1] = NewFd
    BY <1>1, KeyFacts
<1>3. \A g \in Holders : ex.node[g] # k
    BY <1>1, <1>2, NodeFacts, NameFacts
<1>4. last_id \in Nat /\ i \in Ids /\ i > last_id /\ i \in 0 .. MaxId
    BY <1>0, NameFacts DEF Ids
<1>5. /\ i \in Holders /\ Local \in Holders /\ i # Local /\ i # Accept /\ i # Pipe
      /\ ex.node[Local] = NoKey /\ ex.node[i] = NoKey /\ ctx[i] = NoFd
  <2>1. ctx[i] = NoFd
    BY <1>4 DEF States
  <2> QED
    BY <1>4, <2>1, FdFacts, NameFacts, NodeFacts
<1>6. Becomes(ex, ex', [ ex.node EXCEPT ![i] = k ])
  <2>1. ex' = Registered(ex, i, k)
    BY DEF HandleAccept
  <2> HIDE DEF k
  <2> QED
    BY <1>2, <1>3, <1>5, <2>1, RegisteredFacts
<1>7. ctx' = [ ctx EXCEPT ![i] = NewFd ] /\ last_id' = i /\ ctx \in [ Ids -> Fds \cup {NoFd} ]
    BY DEF HandleAccept, States
<1>8. /\ FdOf(i)' = NewFd /\ FilterOf(i)' = "read"
      /\ \A g \in Holders \ {i} : FdOf(g)' = FdOf(g) /\ FilterOf(g)' = FilterOf(g)
  <2>1. UNCHANGED << server_fd, pipe_fd, connecting >>
    BY DEF HandleAccept
  <2>2. ASSUME NEW g \in Holders \ {i} PROVE FdOf(g)' = FdOf(g) /\ FilterOf(g)' = FilterOf(g)
    BY <1>7, <2>1 DEF FdOf, FilterOf, Holders
  <2>3. FdOf(i)' = NewFd
    BY <1>4, <1>5, <1>7 DEF FdOf
  <2>4. FilterOf(i)' = "read"
    BY <1>5 DEF FilterOf
  <2> QED
    BY <2>2, <2>3, <2>4
<1>9. /\ Exact(ex)' /\ OwnFds' /\ Watches' /\ ex'.kqueue = ex.kqueue
      /\ \A g \in Holders : ex.node[g] # NoKey => ex'.node[g] # NoKey
    BY <1>1, <1>5, <1>6, <1>8, Gains
<1>10. States'
  <2>1. /\ pending' \subseteq Fds /\ backlog' \in 0 .. MaxBacklog
        /\ UNCHANGED << server_fd, pipe_fd, connecting >>
    BY ExecutorAssumption DEF HandleAccept, States
  <2>2. \A j \in Ids : j > i => ctx'[j] = NoFd
    BY <1>4, <1>7, NameFacts DEF States, Ids
  <2>3. ctx' \in [ Ids -> Fds \cup {NoFd} ]
    BY <1>1, <1>7
  <2> QED
    BY <1>4, <1>7, <1>9, <2>1, <2>2, <2>3 DEF States
<1>11. DueOnce'
    BY <1>9, TailFacts DEF HandleAccept, Due, DueOnce
<1> QED
    BY <1>9, <1>10, <1>11

LEMMA HandleConnectKeeps ==
    ASSUME ExecutorInv, HandleConnect
    PROVE  ExecutorInv'
<1> USE DEF ExecutorInv
<1>1. scheduled # << >> /\ Head(scheduled) = Pipe /\ Pipe \in Holders /\ ex.node[Pipe] # NoKey
    BY TailFacts DEF HandleConnect, Due
<1>2. FdOf(Pipe) = pipe_fd /\ pipe_fd \in Fds /\ FdOf(Local) = NoFd /\ Local \in Holders
    BY <1>1, FdFacts, NodeFacts DEF States
<1> DEFINE k == Key(ex, pipe_fd, "read")
<1>3. k \in Keys /\ k[1] = pipe_fd
    BY <1>2, KeyFacts
<1>4. pipe_fd # NoFd /\ \A g \in Holders \ {Pipe} : FdOf(g) # pipe_fd
    BY <1>1, <1>2, NameFacts DEF OwnFds
<1>5. \A g \in Holders \ {Pipe} : ex.node[g] # k
    BY <1>3, <1>4, NodeFacts, NameFacts
<1>6. ex.node[Local] = NoKey
    BY <1>2, NodeFacts
<1>7. Becomes(ex, ex', [ ex.node EXCEPT ![Pipe] = k ])
    BY <1>3, <1>5, <1>6, ConnectFacts DEF HandleConnect, ConnectRegisters, Key
<1>8. /\ FdOf(Pipe)' = pipe_fd /\ FilterOf(Pipe)' = "read"
      /\ \A g \in Holders \ {Pipe} : FdOf(g)' = FdOf(g) /\ FilterOf(g)' = FilterOf(g)
    BY NameFacts DEF HandleConnect, FdOf, FilterOf
<1>9. /\ Exact(ex)' /\ OwnFds' /\ Watches' /\ ex'.kqueue = ex.kqueue
      /\ \A g \in Holders : ex.node[g] # NoKey => ex'.node[g] # NoKey
    BY <1>1, <1>2, <1>4, <1>7, <1>8, Gains
<1>10. States'
    BY <1>9 DEF HandleConnect, States
<1>11. DueOnce'
    BY <1>9, TailFacts DEF HandleConnect, Due, DueOnce
<1> QED
    BY <1>9, <1>10, <1>11

LEMMA HandleDisconnectKeeps ==
    ASSUME ExecutorInv, HandleDisconnect
    PROVE  ExecutorInv'
<1> USE DEF ExecutorInv
<1>1. scheduled # << >> /\ Head(scheduled) = Pipe /\ Pipe \in Holders /\ ex.node[Pipe] # NoKey
    BY TailFacts DEF HandleDisconnect, Due
<1>2. FdOf(Pipe) = pipe_fd /\ pipe_fd # NoFd
    BY <1>1, FdFacts, NodeFacts
<1>3. Becomes(ex, ex', [ ex.node EXCEPT ![Pipe] = NoKey ])
    BY <1>1, <1>2, GoneFacts DEF HandleDisconnect
<1>4. /\ FdOf(Pipe)' = NoFd
      /\ \A g \in Holders \ {Pipe} : FdOf(g)' = FdOf(g) /\ FilterOf(g)' = FilterOf(g)
    BY NameFacts DEF HandleDisconnect, FdOf, FilterOf
<1>5. /\ Exact(ex)' /\ OwnFds' /\ Watches' /\ ex'.kqueue = ex.kqueue
      /\ \A g \in Holders \ {Pipe} : ex'.node[g] = ex.node[g]
    BY <1>1, <1>3, <1>4, Loses
<1>6. States'
    BY <1>5 DEF HandleDisconnect, States
<1>7. DueOnce'
    BY <1>1, <1>5, TailFacts DEF HandleDisconnect, DueOnce
<1> QED
    BY <1>5, <1>6, <1>7

LEMMA HandleClientDisconnectKeeps ==
    ASSUME ExecutorInv, NEW i \in Ids, HandleClientDisconnect(i)
    PROVE  ExecutorInv'
<1> USE DEF ExecutorInv
<1>1. scheduled # << >> /\ Head(scheduled) = i /\ i \in Holders /\ ex.node[i] # NoKey
    BY TailFacts DEF HandleClientDisconnect, Due
<1>2. FdOf(i) = ctx[i] /\ ctx[i] # NoFd
    BY <1>1, FdFacts, NodeFacts
<1>3. Becomes(ex, ex', [ ex.node EXCEPT ![i] = NoKey ])
    BY <1>1, <1>2, GoneFacts DEF HandleClientDisconnect, ContextGone
<1>4. /\ FdOf(i)' = NoFd
      /\ \A g \in Holders \ {i} : FdOf(g)' = FdOf(g) /\ FilterOf(g)' = FilterOf(g)
  <2>1. /\ ctx' = [ ctx EXCEPT ![i] = NoFd ] /\ UNCHANGED << server_fd, pipe_fd, connecting >>
        /\ ctx \in [ Ids -> Fds \cup {NoFd} ]
    BY DEF HandleClientDisconnect, States
  <2>2. FdOf(i)' = NoFd
    BY <2>1, NameFacts DEF FdOf
  <2>3. ASSUME NEW g \in Holders \ {i} PROVE FdOf(g)' = FdOf(g) /\ FilterOf(g)' = FilterOf(g)
    BY <2>1 DEF FdOf, FilterOf, Holders
  <2> QED
    BY <2>2, <2>3
<1>5. /\ Exact(ex)' /\ OwnFds' /\ Watches' /\ ex'.kqueue = ex.kqueue
      /\ \A g \in Holders \ {i} : ex'.node[g] = ex.node[g]
    BY <1>1, <1>3, <1>4, Loses
<1>6. States'
    BY <1>5 DEF HandleClientDisconnect, States
<1>7. DueOnce'
  <2> DEFINE r == Without(scheduled, i)
  <2>1. r \in Seq(Holders) /\ IsInjective(r) /\ ToSet(r) = ToSet(scheduled) \ {i}
    BY WithoutFacts DEF DueOnce
  <2> HIDE DEF r
  <2>2. ASSUME NEW n \in DOMAIN r PROVE ex'.node[r[n]] # NoKey
    <3>1. r[n] \in ToSet(scheduled) /\ r[n] # i /\ r[n] \in Holders
        BY <2>1 DEF ToSet
    <3>2. ex.node[r[n]] # NoKey
        BY <3>1 DEF DueOnce, ToSet
    <3> QED
        BY <1>5, <3>1, <3>2
  <2>3. scheduled' = r
    BY DEF HandleClientDisconnect, Unscheduled, r
  <2> QED
    BY <2>1, <2>2, <2>3 DEF DueOnce
<1> QED
    BY <1>5, <1>6, <1>7

\* One sequence without repetition after another with other elements.
LEMMA JoinedFacts ==
    ASSUME NEW S, NEW a \in Seq(S), NEW b \in Seq(S), IsInjective(a), IsInjective(b),
           ToSet(a) \cap ToSet(b) = {}
    PROVE  /\ a \o b \in Seq(S) /\ IsInjective(a \o b)
           /\ ToSet(a \o b) = ToSet(a) \cup ToSet(b)
<1> DEFINE r == a \o b
           m == Len(a)
<1>1. /\ r \in Seq(S) /\ Len(r) = m + Len(b)
      /\ \A i \in 1 .. m + Len(b) : r[i] = IF i <= m THEN a[i] ELSE b[i - m]
    BY ConcatProperties
<1>2. /\ m \in Nat /\ Len(b) \in Nat /\ DOMAIN a = 1 .. m /\ DOMAIN b = 1 .. Len(b)
    OBVIOUS
<1> HIDE DEF r, m
<1>3. DOMAIN r = 1 .. m + Len(b)
    BY <1>1
<1>4. ASSUME NEW i \in DOMAIN r
      PROVE  \/ i <= m /\ i \in DOMAIN a /\ r[i] = a[i] /\ r[i] \in ToSet(a)
             \/ ~(i <= m) /\ i - m \in DOMAIN b /\ r[i] = b[i - m] /\ r[i] \in ToSet(b)
  <2>1. CASE i <= m
    BY <2>1, <1>1, <1>2, <1>3 DEF ToSet
  <2>2. CASE ~(i <= m)
    <3>1. i - m \in DOMAIN b /\ r[i] = b[i - m]
        BY <2>2, <1>1, <1>2, <1>3
    <3> QED
        BY <2>2, <3>1 DEF ToSet
  <2> QED
    BY <2>1, <2>2
<1>5. IsInjective(r)
  <2> SUFFICES ASSUME NEW i \in DOMAIN r, NEW j \in DOMAIN r, r[i] = r[j] PROVE i = j
    BY DEF IsInjective
  <2>1. CASE i <= m /\ j <= m
    <3>1. i \in DOMAIN a /\ j \in DOMAIN a /\ a[i] = a[j]
        BY <2>1, <1>4
    <3> QED
        BY <3>1 DEF IsInjective
  <2>2. CASE ~(i <= m) /\ ~(j <= m)
    <3>1. i - m \in DOMAIN b /\ j - m \in DOMAIN b /\ b[i - m] = b[j - m]
        BY <2>2, <1>4
    <3>2. i - m = j - m
        BY <3>1 DEF IsInjective
    <3> QED
        BY <1>2, <1>3, <3>2
  <2>3. (i <= m) = (j <= m)
    BY <1>4
  <2> QED
    BY <2>1, <2>2, <2>3
<1>6. ToSet(r) = ToSet(a) \cup ToSet(b)
  <2>1. ToSet(r) \subseteq ToSet(a) \cup ToSet(b)
    BY <1>4 DEF ToSet
  <2>2. ASSUME NEW i \in DOMAIN a PROVE a[i] \in ToSet(r)
    <3>1. i \in DOMAIN r /\ r[i] = a[i]
        BY <1>1, <1>2, <1>3
    <3> QED
        BY <3>1 DEF ToSet
  <2>3. ASSUME NEW i \in DOMAIN b PROVE b[i] \in ToSet(r)
    <3>1. m + i \in 1 .. m + Len(b) /\ ~(m + i <= m) /\ (m + i) - m = i
        BY <1>2
    <3>2. m + i \in DOMAIN r /\ r[m + i] = b[i]
        BY <1>1, <1>3, <3>1
    <3> QED
        BY <3>2 DEF ToSet
  <2> QED
    BY <2>1, <2>2, <2>3 DEF ToSet
<1> QED
    BY <1>1, <1>5, <1>6 DEF r

\* A poll schedules the holders of some entries of the list, each once.
LEMMA PollKeeps ==
    ASSUME ExecutorInv, Poll
    PROVE  ExecutorInv'
<1> USE DEF ExecutorInv
<1>1. PICK at \in SUBSET Ready :
        /\ scheduled' = [ n \in 1 .. Cardinality(at) |-> ex.list[Picked(ex.turn, at)[n]] ]
        /\ ex' = [ ex EXCEPT !.turn = Picked(@, DOMAIN @ \ at) \o Picked(@, at) ]
    BY DEF Poll
<1> DEFINE seen == Picked(ex.turn, at)
           rest == Picked(ex.turn, DOMAIN ex.turn \ at)
<1>2. /\ ex.turn \in Seq(Keys) /\ IsInjective(ex.turn) /\ ToSet(ex.turn) = Listed(ex.list)
      /\ at \in SUBSET DOMAIN ex.turn /\ (DOMAIN ex.turn \ at) \in SUBSET DOMAIN ex.turn
      /\ ex.list \in [ Keys -> Holders \cup {Nobody} ]
    BY DEF Ready, Exact, Turns, Agree
<1>3. /\ seen \in Seq(Keys) /\ IsInjective(seen) /\ ToSet(seen) = { ex.turn[i] : i \in at }
      /\ Cardinality(at) \in Nat /\ DOMAIN seen = 1 .. Cardinality(at)
    BY <1>2, PickedFacts
<1>4. /\ rest \in Seq(Keys) /\ IsInjective(rest)
      /\ ToSet(rest) = { ex.turn[i] : i \in DOMAIN ex.turn \ at }
    BY <1>2, PickedFacts
<1>5. /\ DOMAIN ex' = DOMAIN ex /\ ex'.turn = rest \o seen /\ ex'.kqueue = ex.kqueue
      /\ ex'.node = ex.node /\ ex'.list = ex.list /\ ex'.total = ex.total
    BY <1>1 DEF Exact
<1>6. scheduled' = [ n \in 1 .. Cardinality(at) |-> ex.list[seen[n]] ]
    BY <1>1
<1> HIDE DEF seen, rest
<1>7. Turns(ex.list, rest \o seen)
  <2>1. ToSet(rest) \cap ToSet(seen) = {}
    <3>1. \A i \in DOMAIN ex.turn \ at : \A j \in at : ex.turn[i] # ex.turn[j]
        BY <1>2 DEF IsInjective
    <3> QED
        BY ONLY <1>3, <1>4, <3>1
  <2>2. ToSet(rest) \cup ToSet(seen) = Listed(ex.list)
    BY <1>2, <1>3, <1>4 DEF ToSet
  <2>3. /\ rest \o seen \in Seq(Keys) /\ IsInjective(rest \o seen)
        /\ ToSet(rest \o seen) = ToSet(rest) \cup ToSet(seen)
    BY ONLY <1>3, <1>4, <2>1, JoinedFacts
  <2> QED
    BY ONLY <2>2, <2>3 DEF Turns
<1>8. Exact(ex)'
    BY <1>5, <1>7 DEF Exact
<1>9. /\ \A h : FdOf(h)' = FdOf(h) /\ FilterOf(h)' = FilterOf(h)
      /\ \A fd, filter : Key(ex', fd, filter) = Key(ex, fd, filter)
    BY <1>5 DEF Poll, FdOf, FilterOf, Key
<1>10. OwnFds' /\ Watches'
    BY <1>5, <1>9 DEF OwnFds, Watches
<1>11. States'
    BY <1>5 DEF Poll, States
<1>12. ASSUME NEW n \in 1 .. Cardinality(at)
       PROVE  /\ scheduled'[n] \in Holders /\ ex.node[scheduled'[n]] = seen[n]
              /\ seen[n] # NoKey
  <2>1. seen[n] \in ToSet(seen)
    BY <1>3 DEF ToSet
  <2>2. seen[n] \in Listed(ex.list)
    BY <1>2, <1>3, <2>1 DEF ToSet
  <2>3. scheduled'[n] = ex.list[seen[n]] /\ seen[n] \in Keys /\ ex.list[seen[n]] # Nobody
    BY <1>6, <2>2 DEF Listed
  <2> QED
    BY <1>2, <2>3, NameFacts DEF Exact, Agree
<1>13. DueOnce'
  <2>1. scheduled' \in Seq(Holders) /\ DOMAIN scheduled' = 1 .. Cardinality(at)
    BY <1>3, <1>6, <1>12
  <2>2. IsInjective(scheduled')
    <3> SUFFICES ASSUME NEW m \in 1 .. Cardinality(at), NEW n \in 1 .. Cardinality(at),
                        scheduled'[m] = scheduled'[n]
                 PROVE  m = n
        BY <2>1 DEF IsInjective
    <3>1. seen[m] = seen[n]
        BY <1>12
    <3> QED
        BY <1>3, <3>1 DEF IsInjective
  <2> QED
    BY <1>5, <1>12, <2>1, <2>2 DEF DueOnce
<1> QED
    BY <1>8, <1>10, <1>11, <1>13

-----------------------------------------------------------------------------
(***************************************************************************)
(* The theorems.                                                           *)
(***************************************************************************)

LEMMA InitHolds ==
    Init => ExecutorInv
<1> SUFFICES ASSUME Init PROVE ExecutorInv
    OBVIOUS
<1>1. /\ DOMAIN ex = {"kqueue", "timer", "node", "total", "list", "turn"}
      /\ ex.kqueue \in Platforms /\ ex.node = [ h \in Holders |-> NoKey ] /\ ex.total = 0
      /\ ex.list = [ k \in Keys |-> Nobody ] /\ ex.turn = << >>
    BY DEF Init
<1>2. ex.kqueue \in BOOLEAN
    BY <1>1, ExecutorAssumption
<1>3. Agree(ex.node, ex.list, ex.total)
  <2>1. Live(ex.node) = {}
    BY <1>1 DEF Live
  <2> QED
    BY <1>1, <2>1, FS_EmptySet DEF Agree
<1>4. Turns(ex.list, ex.turn)
  <2>1. ToSet(<< >>) = {} /\ IsInjective(<< >>)
    BY DEF ToSet, IsInjective
  <2>2. Listed(ex.list) = {}
    BY <1>1 DEF Listed
  <2>3. ex.turn = << >> /\ << >> \in Seq(Keys)
    BY <1>1
  <2> QED
    BY ONLY <2>1, <2>2, <2>3, Zenon DEF Turns
<1>5. \A h \in Holders : FdOf(h) = NoFd
    BY DEF Init, FdOf, Holders
<1>6. OwnFds /\ Watches
    BY <1>1, <1>5 DEF OwnFds, Watches
<1>7. States
  <2>1. MaxId \in Nat /\ MaxBacklog \in Nat
    BY ExecutorAssumption
  <2>2. last_id \in 0 .. MaxId /\ backlog \in 0 .. MaxBacklog
    BY <2>1 DEF Init
  <2>3. ctx = [ i \in Ids |-> NoFd ] /\ pending = {} /\ connecting = FALSE
    BY DEF Init
  <2>4. connecting \in BOOLEAN
    BY <2>3, Zenon
  <2> QED
    BY <1>1, <2>2, <2>3, <2>4 DEF Init, States
<1>8. DueOnce
    BY DEF Init, DueOnce, IsInjective
<1> QED
    BY <1>1, <1>2, <1>3, <1>4, <1>6, <1>7, <1>8 DEF ExecutorInv, Exact

LEMMA NextKeeps ==
    ExecutorInv /\ [Next]_vars => ExecutorInv'
<1> SUFFICES ASSUME ExecutorInv, [Next]_vars PROVE ExecutorInv'
    OBVIOUS
<1>1. CASE ServerStart
    BY <1>1, ServerStartKeeps
<1>2. CASE ClientStart
    BY <1>2, ClientStartKeeps
<1>3. CASE HandleAccept
    BY <1>3, HandleAcceptKeeps
<1>4. CASE HandleAcceptFails
  <2>1. pending' \subseteq Fds /\ backlog' \in 0 .. MaxBacklog
    BY <1>4, ExecutorAssumption DEF HandleAcceptFails, ExecutorInv, States
  <2> QED
    BY <1>4, <2>1, RunsHead DEF HandleAcceptFails, Due
<1>5. ASSUME NEW i \in Ids, HandleClientRequest(i) PROVE ExecutorInv'
  <2>1. pending' \subseteq Fds /\ backlog' \in 0 .. MaxBacklog
    BY <1>5 DEF HandleClientRequest, ExecutorInv, States
  <2> QED
    BY <1>5, <2>1, RunsHead DEF HandleClientRequest, Due
<1>6. ASSUME NEW i \in Ids, HandleClientDisconnect(i) PROVE ExecutorInv'
    BY <1>6, HandleClientDisconnectKeeps
<1>7. CASE HandleConnect
    BY <1>7, HandleConnectKeeps
<1>8. CASE HandleReceive
  <2>1. pending' \subseteq Fds /\ backlog' \in 0 .. MaxBacklog
    BY <1>8 DEF HandleReceive, ExecutorInv, States
  <2> QED
    BY <1>8, <2>1, RunsHead DEF HandleReceive, Due
<1>9. CASE HandleDisconnect
    BY <1>9, HandleDisconnectKeeps
<1>10. CASE Poll
    BY <1>10, PollKeeps
<1>14. CASE PollFails
  <2>1. Exact(ex)' /\ OwnFds' /\ Watches'
    BY <1>14, Same DEF PollFails, vars
  <2>2. States' /\ DueOnce'
    BY <1>14 DEF PollFails, vars, ExecutorInv, States, DueOnce
  <2> QED
    BY <2>1, <2>2 DEF ExecutorInv
<1>11. CASE PeerConnects
  <2>1. Exact(ex)' /\ OwnFds' /\ Watches'
    BY <1>11, Same DEF PeerConnects
  <2>2. States'
    BY <1>11, ExecutorAssumption DEF PeerConnects, ExecutorInv, States
  <2>3. DueOnce'
    BY <1>11 DEF PeerConnects, ExecutorInv, DueOnce
  <2> QED
    BY <2>1, <2>2, <2>3 DEF ExecutorInv
<1>12. CASE DataArrives
  <2>1. Exact(ex)' /\ OwnFds' /\ Watches'
    BY <1>12, Same DEF DataArrives
  <2>2. States'
    BY <1>12 DEF DataArrives, Open, ExecutorInv, States
  <2>3. DueOnce'
    BY <1>12 DEF DataArrives, ExecutorInv, DueOnce
  <2> QED
    BY <2>1, <2>2, <2>3 DEF ExecutorInv
<1>13. CASE UNCHANGED vars
  <2>1. Exact(ex)' /\ OwnFds' /\ Watches'
    BY <1>13, Same DEF vars
  <2>2. States' /\ DueOnce'
    BY <1>13 DEF vars, ExecutorInv, States, DueOnce
  <2> QED
    BY <2>1, <2>2 DEF ExecutorInv
<1> QED
    BY <1>1, <1>2, <1>3, <1>4, <1>5, <1>6, <1>7, <1>8, <1>9, <1>10, <1>11, <1>12, <1>13, <1>14
    DEF Next, Callback

\* Every state of the executors and the sockets they watch satisfies the inductive invariant.
THEOREM ExecutorInvariant ==
    Spec => []ExecutorInv
<1> QED
    BY InitHolds, NextKeeps, PTL DEF Spec

\* What the invariant says of the kernel's list, the nodes and their count.
LEMMA BooksFollow ==
    ExecutorInv => BookkeepingIsExact
<1> SUFFICES ASSUME ExecutorInv PROVE BookkeepingIsExact
    OBVIOUS
<1>1. Agree(ex.node, ex.list, ex.total) /\ Turns(ex.list, ex.turn) /\ States
    BY DEF ExecutorInv, Exact
<1>2. ex.total \in 0 .. MaxId + 2
  <2> DEFINE some == (Ids \cup {Accept}) \cup {Pipe}
  <2>1. MaxId \in Nat /\ Accept \notin Ids /\ Pipe \notin Ids /\ Pipe # Accept
    BY NameFacts
  <2>2. IsFiniteSet(Ids) /\ Cardinality(Ids) = MaxId
    BY <2>1, FS_Interval DEF Ids
  <2>3. IsFiniteSet(Ids \cup {Accept}) /\ Cardinality(Ids \cup {Accept}) = MaxId + 1
    BY <2>1, <2>2, FS_AddElement
  <2>4. IsFiniteSet(some) /\ Cardinality(some) = MaxId + 2
    <3>1. IsFiniteSet(some) /\ Cardinality(some) = Cardinality(Ids \cup {Accept}) + 1
        BY <2>1, <2>3, FS_AddElement
    <3> QED
        BY <2>1, <2>3, <3>1
  <2>5. Live(ex.node) \in SUBSET some
    <3>1. ex.node[Local] = NoKey
        BY FdFacts, NodeFacts DEF ExecutorInv
    <3> QED
        BY <3>1 DEF Live, Holders
  <2>6. IsFiniteSet(Live(ex.node)) /\ Cardinality(Live(ex.node)) <= MaxId + 2
    BY <2>4, <2>5, FS_Subset
  <2>7. Cardinality(Live(ex.node)) \in Nat
    BY <2>6, FS_CardinalityType
  <2> QED
    BY <1>1, <2>1, <2>6, <2>7 DEF Agree
<1>3. TypeOK
    BY <1>1, <1>2 DEF TypeOK, Agree, Turns, States, ExecutorInv, DueOnce
<1> QED
    BY <1>1, <1>3 DEF BookkeepingIsExact, Agree, Live

(***************************************************************************)
(* What epoll_wait or kevent hands back is always a live node for that     *)
(* very descriptor, every live node is in the kernel's list, and           *)
(* total_awaitables_ counts them, for any number of descriptors and        *)
(* connections.                                                            *)
(***************************************************************************)
THEOREM BooksAreExact ==
    Spec => []BookkeepingIsExact
<1> QED
    BY ExecutorInvariant, BooksFollow, PTL

\* What the invariant says of the callbacks that are due.
LEMMA OwnFollows ==
    ExecutorInv => RunsOnItsOwn
<1> SUFFICES ASSUME ExecutorInv PROVE RunsOnItsOwn
    OBVIOUS
<1>1. ASSUME NEW i \in Ids
      PROVE  ex.node[i] = IF ctx[i] = NoFd THEN NoKey ELSE Key(ex, ctx[i], "read")
  <2>1. FdOf(i) = ctx[i] /\ i \in Holders /\ FilterOf(i) = "read"
    BY FdFacts, NameFacts DEF ExecutorInv, FilterOf
  <2> QED
    BY <2>1 DEF ExecutorInv, Watches
<1> QED
    BY <1>1 DEF RunsOnItsOwn, ExecutorInv, DueOnce

(***************************************************************************)
(* A callback that is due still has its node, and a context's node is for  *)
(* its own descriptor, whatever other callbacks of the same spin closed    *)
(* and opened.                                                             *)
(***************************************************************************)
THEOREM CallbacksRunOnTheirOwn ==
    Spec => []RunsOnItsOwn
<1> QED
    BY ExecutorInvariant, OwnFollows, PTL
=============================================================================
