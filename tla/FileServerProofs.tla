-------------------------- MODULE FileServerProofs --------------------------
(***************************************************************************)
(* Proofs about the file server, for any roots, file sizes, numbers of     *)
(* requests and of runs of the daemon: the copies of a root that clients   *)
(* push and pop, the lists they are told, what a restart brings back and   *)
(* what a node downloads.                                                  *)
(***************************************************************************)
EXTENDS FileServer, FiniteSetTheorems, SequenceTheorems, TLAPS

-----------------------------------------------------------------------------
(***************************************************************************)
(* The inductive invariant.                                                *)
(***************************************************************************)
All == Roots \cup LongRoots

Messages == [ kind : {"item"}, root : All ] \cup [ kind : {"end"} ]

Outcomes == [ ok : BOOLEAN, roots : Seq(All) ]

AllSettings == [ roots : Seq(All), id : Int, connections : BOOLEAN ]

\* Every variable has its type, and the provider serves what the configuration holds.
Types ==
    /\ daemon \in {"down", "up"} /\ roots \in Seq(All) /\ config \in AllSettings
    /\ dirty \in BOOLEAN /\ file \in AllSettings /\ starts \in Nat
    /\ op \in [ Ops -> {List} \cup PopOrPush ]
    /\ phase \in [ Ops -> {"new", "sent", "refused", "served", "cut", "closed"} ]
    /\ inbox \in [ Ops -> Seq(Messages) ] /\ items \in [ Ops -> Seq(All) ]
    /\ results \in [ Ops -> Seq(Outcomes) ]
    /\ download \in [ stage : {"idle", "reading", "done", "failed"}, size : Nat, got : Seq(All),
                      sources : SUBSET All ]
    /\ initial \in Seq(All) /\ kept \in Seq(All) /\ unique_id \in Int
    /\ witnessed \in [ Ops -> SUBSET Seq(All) ]
    /\ config.roots = roots

\* What the file keeps, as long as it could be written.
Saved ==
    "disk" \notin mishaps =>
        /\ file.roots = kept /\ file.id = unique_id /\ file.connections
        /\ daemon = "up" => /\ config.id = file.id /\ config.connections /\ config.id # NoId
                            /\ ~dirty => config.roots = file.roots

\* How far the request has come: what its client has on its way, and got.
ProgressOf(i) ==
    /\ phase[i] \in {"new", "sent"} => results[i] = << >> /\ items[i] = << >>
    /\ phase[i] \in {"new", "sent", "refused", "closed"} => inbox[i] = << >>
    /\ phase[i] = "refused" => Len(results[i]) <= 1
    /\ phase[i] = "served" => results[i] = << >>
    /\ phase[i] = "cut" => Len(results[i]) <= 1 /\ (inbox[i] # << >> => results[i] = << >>)
    /\ Len(results[i]) <= 2
    /\ \A k \in DOMAIN inbox[i] : inbox[i][k].kind = "end" => k = Len(inbox[i])
    /\ phase[i] = "refused" => \A k \in DOMAIN results[i] : ~results[i][k].ok

Progress == \A i \in Ops : ProgressOf(i)

\* The roots taken and the messages coming make up a whole list, and the end.
Remains(taken, coming, all) ==
    /\ Len(taken) + Len(coming) = Len(all) + 1
    /\ \A k \in DOMAIN taken : taken[k] = all[k]
    /\ \A k \in DOMAIN coming :
         coming[k] = IF k < Len(coming) THEN Item(all[Len(taken) + k]) ELSE End

\* What a request for the list was told is one list that there was meanwhile.
ToldOneList(i) ==
    /\ inbox[i] # << >> => \E rs \in witnessed[i] : Remains(items[i], inbox[i], Listed(rs))
    /\ \A k \in DOMAIN results[i] : results[i][k].ok =>
         \E rs \in witnessed[i] : results[i][k].roots = Listed(rs)

OneList == \A i \in Ops : op[i].kind = "list" /\ i \notin lost => ToldOneList(i)

\* The daemon has done request i, and its client knows or may be told.
Told(i) == phase[i] = "served" \/ inbox[i] # << >> \/ \E k \in DOMAIN results[i] : results[i][k].ok

\* The roots that the daemon has, or will have when it starts.
Current == IF daemon = "up" THEN roots ELSE file.roots

(***************************************************************************)
(* The copies of root r are those of the beginning, and one for each of    *)
(* the pushes P, without one for each of the pops Q. All pushes that were  *)
(* done are in P; all pops are in Q when there were copies enough.         *)
(***************************************************************************)
Balance(r, P, Q) ==
    /\ P \subseteq Requests("push", r) /\ Q \subseteq Requests("pop", r)
    /\ \A i \in P \cup Q : phase[i] \notin {"new", "sent", "refused"}
    /\ Copies(Current, r) + Cardinality(Q) = Copies(initial, r) + Cardinality(P)
    /\ \A i \in Requests("push", r) : Told(i) => i \in P
    /\ Cardinality(Requests("pop", r)) <= Copies(initial, r) =>
         \A i \in Requests("pop", r) : Told(i) => i \in Q

Clean == mishaps \cap {"crash", "disk", "undefined"} = {}

Counted == Clean => \A r \in Roots : \E P, Q \in SUBSET Ops : Balance(r, P, Q)

\* What was read of the only file that was met.
ReadSoFar ==
    /\ download.stage = "reading" => download.sources # {}
    /\ download.stage \in {"reading", "done"} => \A r \in DOMAIN Size : download.sources = {r} =>
         /\ download.size = Size[r] /\ Len(download.got) <= Size[r]
         /\ \A k \in DOMAIN download.got : download.got[k] = r
         /\ download.stage = "done" => Len(download.got) = Size[r]

FileServerInv ==
    /\ Types
    /\ Saved
    /\ Progress
    /\ OneList
    /\ Counted
    /\ ReadSoFar

-----------------------------------------------------------------------------
(***************************************************************************)
(* Lemmas about places, lists and copies.                                  *)
(***************************************************************************)
\* A set of naturals that is not empty has a least element.
LEMMA LeastPlace ==
    ASSUME NEW T \in SUBSET Nat, T # {}
    PROVE  Min(T) \in T /\ \A y \in T : Min(T) <= y
<1> DEFINE R == OpToRel(<, Nat)
<1>1. IsWellFoundedOn(R, Nat)
  BY NatLessThanWellFounded
<1>2. \A x, y \in Nat : y < x => << y, x >> \in R
  BY DEF OpToRel
<1> HIDE DEF R
<1>3. PICK x \in T : \A y \in T : ~(<< y, x >> \in R)
  BY <1>1, WFMin
<1>4. ASSUME NEW y \in T PROVE x <= y
  <2>1. x \in Nat /\ y \in Nat
    OBVIOUS
  <2>2. ~(y < x)
    BY <1>2, <1>3, <2>1
  <2>. QED  BY <2>1, <2>2
<1>. QED  BY <1>4 DEF Min

\* A set of naturals that is bounded and not empty has a greatest element.
LEMMA GreatestPlace ==
    ASSUME NEW b \in Nat, NEW T \in SUBSET (1 .. b), T # {}
    PROVE  Max(T) \in T /\ \A y \in T : y <= Max(T)
<1> DEFINE U == { u \in Nat : \A y \in T : y <= u }
<1>1. b \in U
  OBVIOUS
<1>2. Min(U) \in U /\ \A u \in U : Min(U) <= u
  BY <1>1, LeastPlace
<1>3. PICK m \in Nat : m = Min(U)
  BY <1>2
<1>4. m \in T
  <2>1. SUFFICES ASSUME m \notin T PROVE FALSE
    OBVIOUS
  <2>2. PICK y \in T : TRUE
    OBVIOUS
  <2>3. y \in Nat /\ y >= 1 /\ y <= m
    BY <1>2, <1>3
  <2>4. m - 1 \in Nat
    BY <2>3
  <2>5. \A z \in T : z <= m /\ z # m /\ z \in Nat
    BY <1>2, <1>3, <2>1
  <2>6. \A z \in T : z <= m - 1
    BY <2>4, <2>5
  <2>7. m - 1 \in U
    BY <2>4, <2>6
  <2>. QED  BY <1>2, <1>3, <2>7
<1>5. \A y \in T : m >= y
  BY <1>2, <1>3
<1>. QED  BY <1>4, <1>5 DEF Max

\* The places of a list are finitely many.
LEMMA PlacesFinite ==
    ASSUME NEW rs \in Seq(All), NEW T \in SUBSET (DOMAIN rs)
    PROVE  IsFiniteSet(T) /\ Cardinality(T) \in Nat /\ T \subseteq Nat /\ T \subseteq 1 .. Len(rs)
<1>1. Len(rs) \in Nat /\ DOMAIN rs = 1 .. Len(rs)
  OBVIOUS
<1>2. IsFiniteSet(1 .. Len(rs))
  BY <1>1, FS_Interval
<1>3. IsFiniteSet(T)
  BY <1>1, <1>2, FS_Subset
<1>. QED  BY <1>1, <1>3, FS_CardinalityType

\* Listed is the list without the roots that are too long, in order.
LEMMA ListedReports ==
    ASSUME NEW rs \in Seq(All)
    PROVE  /\ Listed(rs) \in Seq(All) /\ Len(Listed(rs)) \in Nat
           /\ DOMAIN Listed(rs) = 1 .. Len(Listed(rs))
           /\ ReportsOf(Listed(rs), rs)
<1> DEFINE P == Places(rs)
           c == Cardinality(P)
           Upto(k) == { j \in P : j <= k }
           rank == [ k \in P |-> Cardinality(Upto(k)) ]
<1>1. P \subseteq DOMAIN rs /\ IsFiniteSet(P) /\ c \in Nat /\ P \subseteq Nat
  BY PlacesFinite DEF Places
<1>2. \A k \in P : Upto(k) \in SUBSET P /\ IsFiniteSet(Upto(k)) /\ Cardinality(Upto(k)) \in Nat
  <2>1. SUFFICES ASSUME NEW k \in P
                 PROVE  Upto(k) \in SUBSET P /\ IsFiniteSet(Upto(k)) /\ Cardinality(Upto(k)) \in Nat
    OBVIOUS
  <2>2. Upto(k) \in SUBSET P
    OBVIOUS
  <2>3. Upto(k) \in SUBSET DOMAIN rs
    BY <1>1, <2>2
  <2>. QED  BY <2>2, <2>3, PlacesFinite
<1>a. \A k \in P : rank[k] = Cardinality(Upto(k))
  OBVIOUS
<1> HIDE DEF rank
<1>3. ASSUME NEW k \in P PROVE rank[k] \in 1 .. c
  <2>1. Cardinality(Upto(k)) <= c
    BY <1>1, <1>2, FS_Subset
  <2>2. Cardinality(Upto(k)) # 0
    <3>1. k \in Upto(k)
      BY <1>1
    <3>. QED  BY <1>2, <3>1, FS_EmptySet
  <2> HIDE DEF Upto
  <2>3. Cardinality(Upto(k)) \in 1 .. c
    BY <1>1, <1>2, <2>1, <2>2
  <2>. QED  BY <1>a, <2>3
<1>4. ASSUME NEW k \in P, NEW l \in P, k < l PROVE rank[k] < rank[l]
  <2>1. k \in Nat /\ l \in Nat
    BY <1>1
  <2>2. Upto(k) \in SUBSET Upto(l)
    BY <1>1, <1>4, <2>1
  <2>3. l \in Upto(l) /\ l \notin Upto(k)
    BY <1>4, <2>1
  <2>4. Cardinality(Upto(k)) <= Cardinality(Upto(l)) /\ Cardinality(Upto(k)) # Cardinality(Upto(l))
    BY <1>2, <2>2, <2>3, FS_Subset
  <2> HIDE DEF Upto
  <2>5. Cardinality(Upto(k)) < Cardinality(Upto(l))
    BY <1>2, <2>4
  <2>. QED  BY <1>a, <2>5
<1>5. \A k \in P : rank[k] \in Nat
  BY <1>1, <1>3
<1> HIDE DEF Upto
<1>6. rank \in [ P -> 1 .. c ] /\ \A k, l \in P : rank[k] = rank[l] => k = l
  <2>1. rank \in [ P -> 1 .. c ]
    BY <1>3 DEF rank
  <2>2. ASSUME NEW k \in P, NEW l \in P, rank[k] = rank[l] PROVE k = l
    <3>1. k \in Nat /\ l \in Nat /\ rank[k] \in Nat
      BY <1>1, <1>5
    <3>2. ~(k < l) /\ ~(l < k)
      BY <1>4, <2>2, <3>1
    <3>. QED  BY <3>1, <3>2
  <2>. QED  BY <2>1, <2>2
<1>7. rank \in Injection(P, 1 .. c)
  BY <1>6 DEF Injection, IsInjective
<1>8. IsFiniteSet(1 .. c) /\ Cardinality(1 .. c) = c
  BY <1>1, FS_Interval
<1>9. rank \in Surjection(P, 1 .. c)
  BY <1>7, <1>8, FS_Injection
<1>10. \A n \in 1 .. c : \E k \in P : rank[k] = n
  BY <1>9 DEF Surjection
<1>11. \A n \in 1 .. c : Place(rs, n) \in P /\ rank[Place(rs, n)] = n
  BY <1>10 DEF Place, rank, Upto
<1> DEFINE place == [ n \in 1 .. c |-> Place(rs, n) ]
<1>12. place \in [ 1 .. c -> P ]
  BY <1>11
<1>13. ASSUME NEW m \in 1 .. c, NEW n \in 1 .. c, m < n PROVE place[m] < place[n]
  <2>1. place[m] \in P /\ place[n] \in P /\ rank[place[m]] = m /\ rank[place[n]] = n
    BY <1>11
  <2>2. place[m] \in Nat /\ place[n] \in Nat
    BY <1>1, <2>1
  <2>3. place[m] # place[n] /\ ~(place[n] < place[m])
    <3> HIDE DEF place
    <3>1. ~(n < m) /\ m # n
      BY <1>1, <1>13
    <3>. QED  BY <1>4, <2>1, <3>1
  <2> HIDE DEF place
  <2>. QED  BY <2>2, <2>3
<1>14. ASSUME NEW k \in P PROVE \E n \in 1 .. c : place[n] = k
  <2>1. rank[k] \in 1 .. c
    BY <1>3
  <2>2. place[rank[k]] \in P /\ rank[place[rank[k]]] = rank[k]
    BY <1>11, <2>1
  <2> HIDE DEF place
  <2>. QED  BY <1>6, <2>1, <2>2
<1>15. DOMAIN Listed(rs) = 1 .. c /\ \A n \in 1 .. c : Listed(rs)[n] = rs[place[n]]
  BY DEF Listed
<1>16. \A n \in 1 .. c : Listed(rs)[n] \in All
  <2>1. \A k \in P : rs[k] \in All
    BY <1>1
  <2> HIDE DEF place
  <2>. QED  BY <1>12, <1>15, <2>1
<1>17. Listed(rs) \in Seq(All) /\ Len(Listed(rs)) = c
  <2>1. Listed(rs) \in [ 1 .. c -> All ]
    BY <1>16 DEF Listed
  <2>. QED  BY <1>1, <2>1
<1>18. ReportsOf(Listed(rs), rs)
  <2> HIDE DEF place
  <2>. QED  BY <1>12, <1>13, <1>14, <1>15 DEF ReportsOf
<1>. QED  BY <1>1, <1>15, <1>17, <1>18

\* The places that hold root r.
Holding(rs, r) == { k \in DOMAIN rs : rs[k] = r }

LEMMA CopiesType ==
    ASSUME NEW rs \in Seq(All), NEW r
    PROVE  /\ IsFiniteSet(Holding(rs, r)) /\ Copies(rs, r) = Cardinality(Holding(rs, r))
           /\ Copies(rs, r) \in Nat
           /\ Copies(rs, r) # 0 <=> Contains(rs, r)
<1>1. Holding(rs, r) \in SUBSET DOMAIN rs /\ Copies(rs, r) = Cardinality(Holding(rs, r))
  BY DEF Holding, Copies
<1>2. IsFiniteSet(Holding(rs, r)) /\ Cardinality(Holding(rs, r)) \in Nat
  BY <1>1, PlacesFinite
<1>3. Holding(rs, r) # {} <=> Contains(rs, r)
  BY DEF Holding, Contains
<1>. QED  BY <1>1, <1>2, <1>3, FS_EmptySet

\* The places move one to one.
LEMMA SameCopies ==
    ASSUME NEW S, NEW T, IsFiniteSet(S), NEW f \in [ S -> T ],
           \A a, b \in S : f[a] = f[b] => a = b,
           \A t \in T : \E a \in S : f[a] = t
    PROVE  IsFiniteSet(T) /\ Cardinality(T) = Cardinality(S)
<1>1. f \in Bijection(S, T)
  BY DEF Bijection, Injection, IsInjective, Surjection
<1>. QED  BY <1>1, FS_Bijection DEF ExistsBijection

\* A copy is added at the back ...
LEMMA CopiesAppend ==
    ASSUME NEW rs \in Seq(All), NEW x \in All, NEW r
    PROVE  Copies(Append(rs, x), r) = Copies(rs, r) + (IF x = r THEN 1 ELSE 0)
<1> DEFINE new == Append(rs, x)
<1>1. /\ new \in Seq(All) /\ Len(rs) \in Nat /\ DOMAIN rs = 1 .. Len(rs)
      /\ DOMAIN new = DOMAIN rs \cup {Len(rs) + 1} /\ \A k \in DOMAIN rs : new[k] = rs[k]
      /\ new[Len(rs) + 1] = x
  OBVIOUS
<1>2. Len(rs) + 1 \notin Holding(rs, r)
  BY <1>1 DEF Holding
<1> HIDE DEF new
<1>3. x = r => Holding(new, r) = Holding(rs, r) \cup {Len(rs) + 1}
  BY <1>1 DEF Holding
<1>4. x # r => Holding(new, r) = Holding(rs, r)
  BY <1>1 DEF Holding
<1>5. Cardinality(Holding(new, r)) = Cardinality(Holding(rs, r)) + (IF x = r THEN 1 ELSE 0)
  <2>1. IsFiniteSet(Holding(rs, r)) /\ Cardinality(Holding(rs, r)) \in Nat
    BY CopiesType
  <2>. QED  BY <1>2, <1>3, <1>4, <2>1, FS_AddElement
<1>. QED  BY <1>1, <1>5, CopiesType DEF new

\* ... or in front.
LEMMA CopiesPrepend ==
    ASSUME NEW rs \in Seq(All), NEW x \in All, NEW r
    PROVE  /\ << x >> \o rs \in Seq(All)
           /\ Copies(<< x >> \o rs, r) = Copies(rs, r) + (IF x = r THEN 1 ELSE 0)
<1> DEFINE new == << x >> \o rs
           H == Holding(rs, r)
           G == Holding(new, r)
<1>1. /\ new \in Seq(All) /\ Len(rs) \in Nat /\ DOMAIN rs = 1 .. Len(rs)
      /\ DOMAIN new = 1 .. Len(rs) + 1 /\ new[1] = x
      /\ \A k \in 2 .. Len(rs) + 1 : new[k] = rs[k - 1]
  OBVIOUS
<1>2. IsFiniteSet(H) /\ Cardinality(H) \in Nat /\ H \subseteq Nat
  <2>1. IsFiniteSet(H) /\ Cardinality(H) \in Nat
    BY CopiesType
  <2>2. H \subseteq Nat
    BY <1>1 DEF Holding
  <2>. QED  BY <2>1, <2>2
<1> HIDE DEF new
<1> DEFINE f == [ k \in H |-> k + 1 ]
<1>3. f \in [ H -> G \ {1} ]
  <2>1. \A k \in H : k \in Nat /\ k + 1 \in 2 .. Len(rs) + 1 /\ rs[k] = r
    BY <1>1 DEF Holding
  <2>2. \A k \in H : k + 1 \in DOMAIN new /\ new[k + 1] = rs[k + 1 - 1] /\ k + 1 - 1 = k /\ k + 1 # 1
    BY <1>1, <2>1
  <2>3. \A k \in H : k + 1 \in G \ {1}
    BY <2>1, <2>2 DEF Holding
  <2>. QED  BY <2>3
<1>4. \A a, b \in H : f[a] = f[b] => a = b
  BY <1>2
<1>5. ASSUME NEW t \in G \ {1} PROVE \E a \in H : f[a] = t
  <2>1. t \in 2 .. Len(rs) + 1 /\ new[t] = r
    BY <1>1 DEF Holding
  <2>2. t - 1 \in DOMAIN rs /\ rs[t - 1] = r /\ t - 1 + 1 = t
    BY <1>1, <2>1
  <2>3. t - 1 \in H
    BY <2>2 DEF Holding
  <2>. QED  BY <2>2, <2>3
<1>6. Cardinality(G \ {1}) = Cardinality(H)
  <2> HIDE DEF f, G, H
  <2>. QED  BY <1>2, <1>3, <1>4, <1>5, SameCopies
<1>7. IsFiniteSet(G) /\ Cardinality(G) \in Nat
  BY <1>1, CopiesType
<1>8. 1 \in G <=> x = r
  BY <1>1 DEF Holding
<1>9. Cardinality(G) = Cardinality(H) + (IF x = r THEN 1 ELSE 0)
  <2> HIDE DEF G, H
  <2>1. Cardinality(G \ {1}) = IF 1 \in G THEN Cardinality(G) - 1 ELSE Cardinality(G)
    BY <1>7, FS_RemoveElement
  <2>. QED  BY <1>2, <1>6, <1>7, <1>8, <2>1
<1>10. Copies(new, r) = Cardinality(G) /\ Copies(rs, r) = Cardinality(H)
  BY <1>1, CopiesType
<1>. QED  BY <1>1, <1>9, <1>10 DEF new

\* What is left without the element at place p.
LEMMA RemoveAtAt ==
    ASSUME NEW S, NEW q \in Seq(S), NEW p \in DOMAIN q
    PROVE  /\ RemoveAt(q, p) \in Seq(S) /\ Len(q) \in Nat /\ DOMAIN q = 1 .. Len(q)
           /\ Len(RemoveAt(q, p)) = Len(q) - 1 /\ DOMAIN RemoveAt(q, p) = 1 .. Len(q) - 1
           /\ \A k \in 1 .. Len(q) - 1 :
                RemoveAt(q, p)[k] = IF k < p THEN q[k] ELSE q[k + 1]
<1> DEFINE a == SubSeq(q, 1, p - 1)
           b == SubSeq(q, p + 1, Len(q))
<1>1. Len(q) \in Nat /\ DOMAIN q = 1 .. Len(q) /\ p \in 1 .. Len(q)
  OBVIOUS
<1>2. /\ a \in Seq(S) /\ Len(a) = p - 1 /\ \A k \in 1 .. p - 1 : a[k] = q[k]
  BY <1>1, SubSeqProperties
<1>3. /\ b \in Seq(S) /\ Len(b) = Len(q) - p /\ \A k \in 1 .. Len(q) - p : b[k] = q[p + k]
  BY <1>1, SubSeqProperties
<1> HIDE DEF a, b
<1>4. /\ a \o b \in Seq(S) /\ Len(a \o b) = Len(a) + Len(b)
      /\ \A k \in 1 .. Len(a) + Len(b) : (a \o b)[k] = IF k <= Len(a) THEN a[k] ELSE b[k - Len(a)]
  BY <1>2, <1>3, ConcatProperties
<1>5. Len(a) + Len(b) = Len(q) - 1
  BY <1>1, <1>2, <1>3
<1>6. ASSUME NEW k \in 1 .. Len(q) - 1 PROVE (a \o b)[k] = IF k < p THEN q[k] ELSE q[k + 1]
  <2>1. CASE k < p
    <3>1. k \in 1 .. p - 1 /\ k <= Len(a)
      BY <1>1, <1>2, <2>1
    <3>. QED  BY <1>2, <1>4, <1>5, <2>1, <3>1
  <2>2. CASE ~(k < p)
    <3>1. k - Len(a) \in 1 .. Len(q) - p /\ ~(k <= Len(a)) /\ p + (k - Len(a)) = k + 1
      BY <1>1, <1>2, <2>2
    <3>2. b[k - Len(a)] = q[k + 1]
      BY <1>3, <3>1
    <3>. QED  BY <1>4, <1>5, <2>2, <3>1, <3>2
  <2>. QED  BY <2>1, <2>2
<1>7. RemoveAt(q, p) = a \o b
  BY DEF RemoveAt, a, b
<1>8. DOMAIN (a \o b) = 1 .. Len(q) - 1
  BY <1>4, <1>5
<1>. QED  BY <1>1, <1>4, <1>5, <1>6, <1>7, <1>8

\* One copy goes with the element at place p.
LEMMA CopiesRemove ==
    ASSUME NEW rs \in Seq(All), NEW p \in DOMAIN rs, NEW r
    PROVE  /\ RemoveAt(rs, p) \in Seq(All)
           /\ Copies(rs, r) = Copies(RemoveAt(rs, p), r) + (IF rs[p] = r THEN 1 ELSE 0)
<1> DEFINE new == RemoveAt(rs, p)
           H == Holding(rs, r)
           G == Holding(new, r)
<1>1. /\ new \in Seq(All) /\ Len(rs) \in Nat /\ DOMAIN rs = 1 .. Len(rs)
      /\ DOMAIN new = 1 .. Len(rs) - 1
      /\ \A k \in 1 .. Len(rs) - 1 : new[k] = IF k < p THEN rs[k] ELSE rs[k + 1]
  BY RemoveAtAt
<1>2. IsFiniteSet(H) /\ Cardinality(H) \in Nat /\ IsFiniteSet(G) /\ Cardinality(G) \in Nat
  BY <1>1, CopiesType
<1>p. p \in 1 .. Len(rs)
  BY <1>1
<1> HIDE DEF new
<1> DEFINE f == [ k \in G |-> IF k < p THEN k ELSE k + 1 ]
<1>3. \A k \in G : k \in 1 .. Len(rs) - 1 /\ new[k] = r
  BY <1>1 DEF Holding
<1>4. f \in [ G -> H \ {p} ]
  <2>1. ASSUME NEW k \in G PROVE (IF k < p THEN k ELSE k + 1) \in H \ {p}
    <3>1. CASE k < p
      <4>1. k \in DOMAIN rs /\ rs[k] = r /\ k # p
        BY <1>1, <1>3, <1>p, <3>1
      <4>. QED  BY <3>1, <4>1 DEF Holding
    <3>2. CASE ~(k < p)
      <4>1. k + 1 \in DOMAIN rs /\ rs[k + 1] = r /\ k + 1 # p
        BY <1>1, <1>3, <1>p, <3>2
      <4>. QED  BY <3>2, <4>1 DEF Holding
    <3>. QED  BY <3>1, <3>2
  <2>. QED  BY <2>1
<1>5. ASSUME NEW a \in G, NEW b \in G, f[a] = f[b] PROVE a = b
  <2>1. a \in Nat /\ b \in Nat /\ p \in Nat
    BY <1>1, <1>3, <1>p
  <2>. QED  BY <1>5, <2>1
<1>6. ASSUME NEW t \in H \ {p} PROVE \E a \in G : f[a] = t
  <2>1. t \in 1 .. Len(rs) /\ rs[t] = r /\ t # p
    BY <1>1 DEF Holding
  <2>2. CASE t < p
    <3>1. t \in DOMAIN new /\ new[t] = r
      BY <1>1, <1>p, <2>1, <2>2
    <3>2. t \in G
      BY <3>1 DEF Holding
    <3>. QED  BY <2>2, <3>2
  <2>3. CASE ~(t < p)
    <3>1. /\ t - 1 \in 1 .. Len(rs) - 1 /\ ~(t - 1 < p) /\ t - 1 + 1 = t
      BY <1>1, <1>p, <2>1, <2>3
    <3>2. t - 1 \in DOMAIN new /\ new[t - 1] = r
      BY <1>1, <2>1, <3>1
    <3>3. t - 1 \in G
      BY <3>2 DEF Holding
    <3>. QED  BY <3>1, <3>3
  <2>. QED  BY <2>2, <2>3
<1>7. Cardinality(H \ {p}) = Cardinality(G)
  <2> HIDE DEF f, G, H
  <2>. QED  BY <1>2, <1>4, <1>5, <1>6, SameCopies
<1>8. p \in H <=> rs[p] = r
  BY DEF Holding
<1>9. Cardinality(H) = Cardinality(G) + (IF rs[p] = r THEN 1 ELSE 0)
  <2> HIDE DEF G, H
  <2>1. Cardinality(H \ {p}) = IF p \in H THEN Cardinality(H) - 1 ELSE Cardinality(H)
    BY <1>2, FS_RemoveElement
  <2>. QED  BY <1>2, <1>7, <1>8, <2>1
<1>10. Copies(new, r) = Cardinality(G) /\ Copies(rs, r) = Cardinality(H)
  BY <1>1, CopiesType
<1>. QED  BY <1>1, <1>9, <1>10 DEF new

\* popRoot takes away one copy of its root, and none of another.
LEMMA PopTakesOne ==
    ASSUME roots \in Seq(All), NEW x, NEW back \in BOOLEAN, Contains(roots, x)
    PROVE  /\ popRoot(x, back) \in Seq(All)
           /\ \A r : Copies(roots, r) = Copies(popRoot(x, back), r) + (IF x = r THEN 1 ELSE 0)
<1> DEFINE I == { k \in 1 .. Len(roots) : roots[k] = x }
<1>1. Len(roots) \in Nat /\ DOMAIN roots = 1 .. Len(roots)
  OBVIOUS
<1>2. I # {} /\ I \in SUBSET (1 .. Len(roots)) /\ I \in SUBSET Nat
  BY <1>1 DEF Contains
<1> HIDE DEF I
<1>3. Min(I) \in I
  BY <1>2, LeastPlace
<1>4. Max(I) \in I
  BY <1>1, <1>2, GreatestPlace
<1>5. popRoot(x, back) = RemoveAt(roots, IF back THEN Max(I) ELSE Min(I))
  BY <1>2 DEF popRoot, SelectInSeq, SelectLastInSeq, I
<1>6. PICK p \in I : p = IF back THEN Max(I) ELSE Min(I)
  BY <1>3, <1>4
<1>7. p \in DOMAIN roots /\ roots[p] = x
  BY <1>1, <1>6 DEF I
<1>. QED  BY <1>5, <1>6, <1>7, CopiesRemove

-----------------------------------------------------------------------------
(***************************************************************************)
(* Every variable keeps its type.                                          *)
(***************************************************************************)
LEMMA MessageFields ==
    ASSUME NEW m \in Messages
    PROVE  /\ m.kind \in {"item", "end"}
           /\ m.kind = "item" => m.root \in All /\ m = Item(m.root)
           /\ m.kind = "end" => m = End
  BY DEF Messages, Item, End

LEMMA OpFields ==
    ASSUME NEW what \in {List} \cup PopOrPush
    PROVE  /\ what.kind \in {"list", "pop", "push"} /\ what.back \in BOOLEAN
           /\ what.kind = "list" <=> what = List
           /\ what.kind = "push" => what.root \in All
           /\ what.kind = "pop" => what.root \in Roots
<1>0. List.kind = "list" /\ List.back = FALSE
  BY DEF List
<1>1. CASE what = List
  BY <1>0, <1>1
<1>2. CASE what \in [ kind : {"pop", "push"}, root : Roots, back : BOOLEAN ]
  <2>1. what.kind \in {"pop", "push"} /\ what.root \in Roots
    BY <1>2
  <2>2. what.back \in BOOLEAN
    BY <1>2
  <2>3. what # List
    BY <1>0, <2>1
  <2>. QED  BY <2>1, <2>2, <2>3 DEF All
<1>3. CASE what \in [ kind : {"push"}, root : LongRoots, back : {TRUE} ]
  <2>1. what.kind = "push" /\ what.root \in LongRoots
    BY <1>3
  <2>2. what.back \in BOOLEAN
    BY <1>3
  <2>3. what # List
    BY <1>0, <2>1
  <2>. QED  BY <2>1, <2>2, <2>3 DEF All
<1>. QED  BY <1>1, <1>2, <1>3 DEF PopOrPush

LEMMA SettingsType ==
    ASSUME NEW rs \in Seq(All), NEW id \in Int, NEW c \in BOOLEAN
    PROVE  /\ Settings(rs, id, c) \in AllSettings /\ Settings(rs, id, c).roots = rs
           /\ Settings(rs, id, c).id = id /\ Settings(rs, id, c).connections = c
  BY DEF Settings, AllSettings

LEMMA Empty ==
    /\ << >> \in Seq(All) /\ NoSettings \in AllSettings /\ Unreadable \in AllSettings
    /\ NoSettings.roots = << >> /\ Failure \in Outcomes /\ ~Failure.ok
<1>1. << >> \in Seq(All)
  OBVIOUS
<1>2. Failure \in Outcomes /\ ~Failure.ok
  BY <1>1 DEF Failure, Outcomes
<1>3. NoSettings \in AllSettings /\ NoSettings.roots = << >>
  BY <1>1 DEF NoSettings, Settings, AllSettings, NoId
<1>4. Unreadable \in AllSettings
  BY <1>1 DEF Unreadable, Settings, AllSettings
<1>. QED  BY <1>1, <1>2, <1>3, <1>4

\* Every step is one of these.
LEMMA Cases ==
    ASSUME Next
    PROVE  \/ Start \/ Exit \/ Crash
           \/ \E i \in Ops : \/ \E what \in {List} \cup PopOrPush : Submit(i, what)
                             \/ ClientReceive(i) \/ ClientDisconnected(i)
                             \/ ServeList(i) \/ ServePush(i) \/ ServePop(i) \/ ServePopUndefined(i)
           \/ serveGetInfoRequest \/ serveReadRequest \/ ReadTimeout
  BY DEF Next

\* What save leaves in the file.
LEMMA SaveTypes ==
    ASSUME Types, NEW s \in AllSettings, NEW changed \in BOOLEAN, save(s, changed)
    PROVE  /\ file' \in AllSettings /\ dirty' = FALSE
           /\ "disk" \in mishaps => "disk" \in mishaps'
           /\ "disk" \notin mishaps' => file' = IF changed THEN s ELSE file
           /\ mishaps' \in {mishaps, mishaps \cup {"disk"}}
  BY Empty DEF save, Types

\* The file that is read has its place among the roots.
LEMMA FirstIsValid ==
    ASSUME Types, Candidates # {}
    PROVE  findFirstValidFile \in DOMAIN Size /\ findFirstValidFile \in All
           /\ Size[findFirstValidFile] \in Nat
<1>1. Candidates \in SUBSET Nat
  BY DEF Candidates, Types
<1>2. Min(Candidates) \in Candidates
  BY <1>1, LeastPlace
<1>3. findFirstValidFile \in DOMAIN Size
  BY <1>2 DEF Candidates, findFirstValidFile
<1>. QED  BY <1>3, FileServerAssumption DEF All

LEMMA BytesType ==
    ASSUME NEW size \in Nat, NEW offset \in Nat
    PROVE  /\ BytesToRead(size, offset) \in Nat
           /\ offset <= size => /\ offset + BytesToRead(size, offset) <= size
                                /\ BytesToRead(size, offset) < ChunkSize =>
                                     offset + BytesToRead(size, offset) = size
  BY FileServerAssumption DEF BytesToRead

\* The answers, all or without one whose write failed.
LEMMA AnswerWith ==
    ASSUME NEW i \in Ops, NEW answers \in Seq(Messages), Answer(i, answers), Types
    PROVE  \E some \in Seq(Messages) :
              /\ inbox' = [ inbox EXCEPT ![i] = some ]
              /\ \/ lost' = lost /\ some = answers
                 \/ /\ lost' = lost \cup {i}
                    /\ \E k \in DOMAIN answers : some = RemoveAt(answers, k)
<1>1. CASE inbox' = [ inbox EXCEPT ![i] = answers ] /\ UNCHANGED lost
  BY <1>1
<1>2. CASE \E k \in DOMAIN answers :
              /\ inbox' = [ inbox EXCEPT ![i] = RemoveAt(answers, k) ]
              /\ lost' = lost \cup {i}
  <2>1. PICK k \in DOMAIN answers : /\ inbox' = [ inbox EXCEPT ![i] = RemoveAt(answers, k) ]
                                    /\ lost' = lost \cup {i}
    BY <1>2
  <2>2. RemoveAt(answers, k) \in Seq(Messages)
    BY RemoveAtAt
  <2>. QED  BY <2>1, <2>2
<1>. QED  BY <1>1, <1>2 DEF Answer

LEMMA ServeTypes ==
    ASSUME Types, NEW i \in Ops, NEW answers \in Seq(Messages), NEW rs \in Seq(All),
           ServeWith(i, answers, rs), config' \in AllSettings, config'.roots = rs, dirty' \in BOOLEAN
    PROVE  Types'
<1>1. PICK some \in Seq(Messages) : inbox' = [ inbox EXCEPT ![i] = some ]
  BY AnswerWith DEF ServeWith
<1>2. inbox' \in [ Ops -> Seq(Messages) ]
  BY <1>1 DEF Types
<1>3. witnessed' \in [ Ops -> SUBSET Seq(All) ]
  BY DEF Types, ServeWith, Witness
<1>4. phase' \in [ Ops -> {"new", "sent", "refused", "served", "cut", "closed"} ]
  BY DEF Types, ServeWith
<1>. QED  BY <1>2, <1>3, <1>4 DEF Types, ServeWith

\* The answers to a request for the list.
Answers == Append([ k \in 1 .. Len(Listed(roots)) |-> Item(Listed(roots)[k]) ], End)

LEMMA AnswersAt ==
    ASSUME Types
    PROVE  /\ Answers \in Seq(Messages) /\ Len(Answers) = Len(Listed(roots)) + 1
           /\ DOMAIN Answers = 1 .. Len(Listed(roots)) + 1
           /\ \A k \in DOMAIN Answers :
                Answers[k] = IF k < Len(Answers) THEN Item(Listed(roots)[k]) ELSE End
<1> DEFINE n == Len(Listed(roots))
           its == [ k \in 1 .. n |-> Item(Listed(roots)[k]) ]
<1>1. n \in Nat /\ Listed(roots) \in Seq(All) /\ DOMAIN Listed(roots) = 1 .. n
  BY ListedReports DEF Types
<1>2. \A k \in 1 .. n : Item(Listed(roots)[k]) \in Messages
  BY <1>1 DEF Item, Messages
<1>3. its \in Seq(Messages) /\ Len(its) = n
  <2>1. its \in [ 1 .. n -> Messages ]
    BY <1>2
  <2>. QED  BY <1>1, <2>1
<1>4. End \in Messages
  BY DEF End, Messages
<1>5. \A k \in 1 .. n : its[k] = Item(Listed(roots)[k])
  OBVIOUS
<1>6. Answers = Append(its, End)
  BY DEF Answers
<1> HIDE DEF its, n
<1>7. /\ Append(its, End) \in Seq(Messages) /\ Len(Append(its, End)) = n + 1
      /\ \A k \in 1 .. n + 1 : Append(its, End)[k] = IF k < n + 1 THEN its[k] ELSE End
  BY <1>1, <1>3, <1>4
<1>8. \A k \in 1 .. n + 1 : k < n + 1 => k \in 1 .. n
  BY <1>1
<1>. QED  BY <1>1, <1>5, <1>6, <1>7, <1>8 DEF n

\* The list after a push.
LEMMA PushAddsOne ==
    ASSUME roots \in Seq(All), NEW x \in All, NEW back \in BOOLEAN
    PROVE  /\ pushRoot(x, back) \in Seq(All)
           /\ \A r : Copies(pushRoot(x, back), r) = Copies(roots, r) + (IF x = r THEN 1 ELSE 0)
<1>1. Append(roots, x) \in Seq(All)
  OBVIOUS
<1>. QED  BY <1>1, CopiesAppend, CopiesPrepend DEF pushRoot

LEMMA SetRoots ==
    ASSUME Types, NEW rs \in Seq(All), setFileServerRoots(rs)
    PROVE  /\ config' \in AllSettings /\ config'.roots = rs /\ dirty' = TRUE
           /\ config'.id = config.id /\ config'.connections = config.connections
  BY DEF Types, setFileServerRoots, AllSettings

\* What a service of request i does.
LEMMA PushServed ==
    ASSUME Types, NEW i \in Ops, ServePush(i)
    PROVE  \E rs \in Seq(All) :
              /\ ServeWith(i, << End >>, rs) /\ setFileServerRoots(rs)
              /\ \A r : Copies(rs, r) = Copies(roots, r) + (IF op[i].root = r THEN 1 ELSE 0)
<1>1. op[i] \in {List} \cup PopOrPush /\ op[i].kind = "push" /\ roots \in Seq(All)
  BY DEF Types, ServePush
<1>2. op[i].root \in All /\ op[i].back \in BOOLEAN
  BY <1>1, OpFields
<1>3. PICK rs : rs = pushRoot(op[i].root, op[i].back)
  OBVIOUS
<1>4. rs \in Seq(All) /\ \A r : Copies(rs, r) = Copies(roots, r) + (IF op[i].root = r THEN 1 ELSE 0)
  BY <1>1, <1>2, <1>3, PushAddsOne
<1>5. ServeWith(i, << End >>, rs) /\ setFileServerRoots(rs)
  BY <1>3 DEF ServePush
<1>. QED  BY <1>4, <1>5

LEMMA PopServed ==
    ASSUME Types, NEW i \in Ops, ServePop(i), Contains(roots, op[i].root)
    PROVE  \E rs \in Seq(All) :
              /\ ServeWith(i, << End >>, rs) /\ setFileServerRoots(rs)
              /\ \A r : Copies(roots, r) = Copies(rs, r) + (IF op[i].root = r THEN 1 ELSE 0)
<1>1. op[i] \in {List} \cup PopOrPush /\ roots \in Seq(All)
  BY DEF Types
<1>2. op[i].back \in BOOLEAN
  BY <1>1, OpFields
<1>3. PICK rs : rs = popRoot(op[i].root, op[i].back)
  OBVIOUS
<1>4. rs \in Seq(All) /\ \A r : Copies(roots, r) = Copies(rs, r) + (IF op[i].root = r THEN 1 ELSE 0)
  BY <1>1, <1>2, <1>3, PopTakesOne
<1>5. ServeWith(i, << End >>, rs) /\ setFileServerRoots(rs)
  BY <1>3 DEF ServePop
<1>. QED  BY <1>4, <1>5

\* A pop of a root that is not listed, from the front, leaves the roots alone.
LEMMA PopMissing ==
    ASSUME NEW i \in Ops, ServePop(i), ~Contains(roots, op[i].root)
    PROVE  ServeWith(i, << End >>, roots) /\ UNCHANGED << config, dirty >>
  BY DEF ServePop

LEMMA EndAlone == << End >> \in Seq(Messages)
<1>1. End \in Messages
  BY DEF End, Messages
<1>. QED  BY <1>1

LEMMA DownTypes ==
    ASSUME Types, Down
    PROVE  /\ daemon' = "down" /\ roots' = << >> /\ roots' \in Seq(All)
           /\ config' \in AllSettings /\ config'.roots = roots'
           /\ phase' \in [ Ops -> {"new", "sent", "refused", "served", "cut", "closed"} ]
           /\ \A i \in Ops : phase'[i] = IF phase[i] \in {"sent", "refused", "served"} THEN "cut"
                                         ELSE phase[i]
<1>1. phase' \in [ Ops -> {"new", "sent", "refused", "served", "cut", "closed"} ]
  BY DEF Down, Types
<1>. QED  BY <1>1, Empty DEF Down

LEMMA TypesStep ==
    ASSUME Types, Next
    PROVE  Types'
<1>1. CASE Start
  <2>1. PICK s : /\ s = [ file EXCEPT !.id = IF @ = NoId THEN starts + 1 ELSE @ ]
                 /\ SaveUniqueId(s)
                 /\ IF s.connections
                    THEN /\ daemon' = "up" /\ config' = s /\ roots' = s.roots
                         /\ unique_id' = s.id
                    ELSE UNCHANGED << daemon, config, roots, unique_id >>
    BY <1>1 DEF Start
  <2>2. starts + 1 \in Nat /\ starts' = starts + 1
    BY <1>1 DEF Types, Start
  <2>3. s \in AllSettings /\ s.roots \in Seq(All) /\ s.id \in Int
    <3>0. file.id \in Int /\ starts + 1 \in Int
      <4>1. file.id \in Int
        BY DEF Types, AllSettings
      <4>. QED  BY <2>2, <4>1
    <3>1. PICK id \in Int : id = IF file.id = NoId THEN starts + 1 ELSE file.id
      BY <3>0
    <3>2. s = [ file EXCEPT !.id = id ]
      BY <2>1, <3>1
    <3>3. file \in [ roots : Seq(All), id : Int, connections : BOOLEAN ]
      BY DEF Types, AllSettings
    <3>. QED  BY <3>2, <3>3 DEF AllSettings
  <2>4. file' \in AllSettings /\ dirty' \in BOOLEAN
    BY <2>1, <2>3, SaveTypes DEF SaveUniqueId
  <2>5. /\ daemon' \in {"down", "up"} /\ config' \in AllSettings /\ roots' \in Seq(All)
        /\ unique_id' \in Int /\ config'.roots = roots'
    <3>1. CASE s.connections
      BY <2>1, <2>3, <3>1
    <3>2. CASE ~s.connections
      BY <2>1, <3>2 DEF Types
    <3>. QED  BY <3>1, <3>2
  <2>. QED  BY <1>1, <2>2, <2>4, <2>5 DEF Types, Start, clientVars
<1>2. CASE Exit
  <2>1. config \in AllSettings /\ dirty \in BOOLEAN
    BY DEF Types
  <2>2. file' \in AllSettings /\ dirty' \in BOOLEAN
    BY <1>2, <2>1, SaveTypes DEF Exit
  <2>3. Down
    BY <1>2 DEF Exit
  <2>. QED  BY <1>2, <2>2, <2>3, DownTypes DEF Types, Exit
<1>3. CASE Crash
  <2>1. Down
    BY <1>3 DEF Crash
  <2>. QED  BY <1>3, <2>1, DownTypes DEF Types, Crash
<1>4. ASSUME NEW i \in Ops, NEW what \in {List} \cup PopOrPush, Submit(i, what) PROVE Types'
  <2>1. << Failure >> \in Seq(Outcomes)
    BY Empty
  <2>2. results' \in [ Ops -> Seq(Outcomes) ]
    BY <1>4, <2>1 DEF Types, Submit
  <2>3. phase' \in [ Ops -> {"new", "sent", "refused", "served", "cut", "closed"} ]
    BY <1>4 DEF Types, Submit
  <2>4. op' \in [ Ops -> {List} \cup PopOrPush ]
    BY <1>4 DEF Types, Submit
  <2>5. witnessed' \in [ Ops -> SUBSET Seq(All) ]
    BY <1>4 DEF Types, Submit
  <2>. QED  BY <1>4, <2>2, <2>3, <2>4, <2>5 DEF Types, Submit, daemonVars
<1>5. ASSUME NEW i \in Ops, ClientReceive(i) PROVE Types'
  <2>1. inbox[i] \in Seq(Messages) /\ inbox[i] # << >>
    BY <1>5 DEF Types, ClientReceive
  <2>2. Head(inbox[i]) \in Messages /\ Tail(inbox[i]) \in Seq(Messages)
    BY <2>1
  <2>3. inbox' \in [ Ops -> Seq(Messages) ]
    BY <1>5, <2>2 DEF Types, ClientReceive
  <2>4. items' \in [ Ops -> Seq(All) ]
    <3>1. Head(inbox[i]).kind = "item" => Append(items[i], Head(inbox[i]).root) \in Seq(All)
      BY <2>2, MessageFields DEF Types
    <3>. QED  BY <1>5, <3>1 DEF Types, ClientReceive
  <2>5. results' \in [ Ops -> Seq(Outcomes) ]
    <3>1. Success(items[i]) \in Outcomes
      BY DEF Types, Success, Outcomes
    <3>2. Append(results[i], Success(items[i])) \in Seq(Outcomes)
      BY <3>1 DEF Types
    <3>. QED  BY <1>5, <3>2 DEF Types, ClientReceive
  <2>6. phase' \in [ Ops -> {"new", "sent", "refused", "served", "cut", "closed"} ]
    BY <1>5 DEF Types, ClientReceive
  <2>. QED  BY <1>5, <2>3, <2>4, <2>5, <2>6 DEF Types, ClientReceive, daemonVars, historyVars
<1>6. ASSUME NEW i \in Ops, ClientDisconnected(i) PROVE Types'
  <2>1. inbox' \in [ Ops -> Seq(Messages) ]
    <3>1. << >> \in Seq(Messages)
      OBVIOUS
    <3>. QED  BY <1>6, <3>1 DEF Types, ClientDisconnected
  <2>2. results' \in [ Ops -> Seq(Outcomes) ]
    <3>1. Append(results[i], Failure) \in Seq(Outcomes)
      BY Empty DEF Types
    <3>. QED  BY <1>6, <3>1 DEF Types, ClientDisconnected, Disconnected
  <2>3. phase' \in [ Ops -> {"new", "sent", "refused", "served", "cut", "closed"} ]
    BY <1>6 DEF Types, ClientDisconnected
  <2>. QED  BY <1>6, <2>1, <2>2, <2>3 DEF Types, ClientDisconnected, daemonVars, historyVars
<1>7. ASSUME NEW i \in Ops, ServeList(i) PROVE Types'
  <2>1. ServeWith(i, Answers, roots) /\ UNCHANGED << config, dirty >>
    BY <1>7 DEF ServeList, Answers
  <2>2. Answers \in Seq(Messages)
    BY AnswersAt
  <2>3. roots \in Seq(All) /\ config \in AllSettings /\ config.roots = roots /\ dirty \in BOOLEAN
    BY DEF Types
  <2>. QED  BY <2>1, <2>2, <2>3, ServeTypes
<1>8. ASSUME NEW i \in Ops, ServePush(i) PROVE Types'
  <2>1. PICK rs \in Seq(All) : ServeWith(i, << End >>, rs) /\ setFileServerRoots(rs)
    BY <1>8, PushServed
  <2>2. config' \in AllSettings /\ config'.roots = rs /\ dirty' \in BOOLEAN
    BY <2>1, SetRoots
  <2>. QED  BY <2>1, <2>2, EndAlone, ServeTypes
<1>9. ASSUME NEW i \in Ops, ServePop(i) PROVE Types'
  <2>1. CASE Contains(roots, op[i].root)
    <3>1. PICK rs \in Seq(All) : ServeWith(i, << End >>, rs) /\ setFileServerRoots(rs)
      BY <1>9, <2>1, PopServed
    <3>2. config' \in AllSettings /\ config'.roots = rs /\ dirty' \in BOOLEAN
      BY <3>1, SetRoots
    <3>. QED  BY <3>1, <3>2, EndAlone, ServeTypes
  <2>2. CASE ~Contains(roots, op[i].root)
    <3>1. ServeWith(i, << End >>, roots) /\ UNCHANGED << config, dirty >>
      BY <1>9, <2>2, PopMissing
    <3>2. roots \in Seq(All) /\ config \in AllSettings /\ config.roots = roots /\ dirty \in BOOLEAN
      BY DEF Types
    <3>. QED  BY <3>1, <3>2, EndAlone, ServeTypes
  <2>. QED  BY <2>1, <2>2
<1>10. ASSUME NEW i \in Ops, ServePopUndefined(i) PROVE Types'
  <2>1. CASE Down /\ dirty' = FALSE /\ UNCHANGED << inbox, witnessed >>
    BY <1>10, <2>1, DownTypes DEF Types, ServePopUndefined
  <2>2. CASE /\ roots # << >>
             /\ roots' = Tail(roots) /\ setFileServerRoots(Tail(roots))
             /\ phase' = [ phase EXCEPT ![i] = "served" ]
             /\ inbox' = [ inbox EXCEPT ![i] = << End >> ]
             /\ Witness(Tail(roots)) /\ UNCHANGED daemon
    <3>1. Tail(roots) \in Seq(All)
      BY <2>2 DEF Types
    <3>2. config' \in AllSettings /\ config'.roots = Tail(roots) /\ dirty' = TRUE
      BY <2>2, <3>1, SetRoots
    <3>3. witnessed' \in [ Ops -> SUBSET Seq(All) ]
      BY <2>2, <3>1 DEF Types, Witness
    <3>4. inbox' \in [ Ops -> Seq(Messages) ]
      BY <2>2, EndAlone DEF Types
    <3>5. phase' \in [ Ops -> {"new", "sent", "refused", "served", "cut", "closed"} ]
      BY <2>2 DEF Types
    <3>. QED  BY <1>10, <2>2, <3>1, <3>2, <3>3, <3>4, <3>5 DEF Types, ServePopUndefined
  <2>. QED  BY <1>10, <2>1, <2>2 DEF ServePopUndefined
<1>11. CASE serveGetInfoRequest \/ serveReadRequest \/ ReadTimeout
  <2>1. download' \in [ stage : {"idle", "reading", "done", "failed"}, size : Nat, got : Seq(All),
                        sources : SUBSET All ]
    <3>1. CASE download' = [ download EXCEPT !.stage = "failed" ]
      BY <3>1 DEF Types
    <3>2. CASE /\ Candidates # {}
               /\ download' = [ stage |-> "reading", size |-> Size[findFirstValidFile],
                                got |-> << >>, sources |-> {findFirstValidFile} ]
      BY <3>2, FirstIsValid
    <3>3. CASE /\ Candidates # {}
               /\ LET from == findFirstValidFile
                      n    == BytesToRead(Size[from], Len(download.got))
                  IN  download' = [ download EXCEPT
                         !.stage   = IF n < ChunkSize THEN "done" ELSE @,
                         !.got     = @ \o [ k \in 1 .. n |-> from ],
                         !.sources = @ \cup {from} ]
      <4>1. PICK from, n : /\ from = findFirstValidFile
                           /\ n = BytesToRead(Size[from], Len(download.got))
        OBVIOUS
      <4>2. from \in All /\ Size[from] \in Nat
        BY <3>3, <4>1, FirstIsValid
      <4>3. download.got \in Seq(All) /\ download.sources \subseteq All
        BY DEF Types
      <4>4. n \in Nat
        <5>1. PICK off \in Nat : off = Len(download.got)
          BY <4>3
        <5>. QED  BY <4>1, <4>2, <5>1, BytesType
      <4>5. [ k \in 1 .. n |-> from ] \in Seq(All)
        BY <4>2, <4>4
      <4>6. download.got \o [ k \in 1 .. n |-> from ] \in Seq(All)
        BY <4>3, <4>5
      <4>7. download.sources \cup {from} \in SUBSET All
        BY <4>2, <4>3
      <4>. QED  BY <3>3, <4>1, <4>6, <4>7 DEF Types
    <3>. QED  BY <1>11, <3>1, <3>2, <3>3 DEF serveGetInfoRequest, serveReadRequest, ReadTimeout
  <2>. QED  BY <1>11, <2>1 DEF Types, serveGetInfoRequest, serveReadRequest, ReadTimeout, daemonVars,
                               clientVars, historyVars
<1>. QED  BY <1>1, <1>2, <1>3, <1>4, <1>5, <1>6, <1>7, <1>8, <1>9, <1>10, <1>11, Cases

-----------------------------------------------------------------------------
(***************************************************************************)
(* What the configuration file keeps.                                      *)
(***************************************************************************)
LEMMA MishapsGrow ==
    ASSUME Next
    PROVE  mishaps \subseteq mishaps'
<1>1. CASE Start \/ Exit \/ Crash
  BY <1>1 DEF Start, Exit, Crash, save, SaveUniqueId
<1>2. ASSUME NEW i \in Ops, NEW what \in {List} \cup PopOrPush, Submit(i, what)
      PROVE  mishaps \subseteq mishaps'
  BY <1>2 DEF Submit
<1>3. ASSUME NEW i \in Ops, ClientReceive(i) \/ ClientDisconnected(i)
      PROVE  mishaps \subseteq mishaps'
  BY <1>3 DEF ClientReceive, ClientDisconnected, historyVars
<1>4. ASSUME NEW i \in Ops, ServeList(i) \/ ServePush(i) \/ ServePop(i) \/ ServePopUndefined(i)
      PROVE  mishaps \subseteq mishaps'
  BY <1>4 DEF ServeList, ServePush, ServePop, ServePopUndefined, ServeWith
<1>5. CASE serveGetInfoRequest \/ serveReadRequest \/ ReadTimeout
  BY <1>5 DEF serveGetInfoRequest, serveReadRequest, ReadTimeout, historyVars
<1>. QED  BY <1>1, <1>2, <1>3, <1>4, <1>5, Cases

\* The settings that a start of the daemon takes from the file.
LEMMA Started ==
    ASSUME Types, Start
    PROVE  \E s \in AllSettings :
              /\ s.roots = file.roots /\ s.connections = file.connections /\ s.id # NoId
              /\ file.id # NoId => s.id = file.id
              /\ save(s, s # file)
              /\ s.connections =>
                   daemon' = "up" /\ config' = s /\ roots' = s.roots /\ unique_id' = s.id
              /\ ~s.connections => UNCHANGED << daemon, config, roots, unique_id >>
<1>0. /\ file \in [ roots : Seq(All), id : Int, connections : BOOLEAN ] /\ file.id \in Int
      /\ starts + 1 \in Int /\ starts + 1 # NoId
  BY DEF Types, AllSettings, NoId
<1>1. PICK id \in Int : id = IF file.id = NoId THEN starts + 1 ELSE file.id
  BY <1>0
<1>2. PICK s : s = [ file EXCEPT !.id = id ]
  OBVIOUS
<1>3. /\ s \in AllSettings /\ s.roots = file.roots /\ s.connections = file.connections
      /\ s.id = id
  BY <1>0, <1>2 DEF AllSettings
<1>4. /\ SaveUniqueId(s)
      /\ IF s.connections
         THEN /\ daemon' = "up" /\ config' = s /\ roots' = s.roots
              /\ unique_id' = s.id
         ELSE UNCHANGED << daemon, config, roots, unique_id >>
  BY <1>1, <1>2 DEF Start
<1>5. id # NoId /\ (file.id # NoId => id = file.id)
  BY <1>0, <1>1
<1>. QED  BY <1>3, <1>4, <1>5 DEF SaveUniqueId

LEMMA SavedStep ==
    ASSUME Types, Saved, Next
    PROVE  Saved'
<1> SUFFICES ASSUME "disk" \notin mishaps'
             PROVE  /\ file'.roots = kept' /\ file'.id = unique_id' /\ file'.connections
                    /\ daemon' = "up" =>
                         /\ config'.id = file'.id /\ config'.connections /\ config'.id # NoId
                         /\ ~dirty' => config'.roots = file'.roots
  BY DEF Saved
<1>0. /\ file.roots = kept /\ file.id = unique_id /\ file.connections
      /\ daemon = "up" => /\ config.id = file.id /\ config.connections /\ config.id # NoId
                          /\ ~dirty => config.roots = file.roots
  BY MishapsGrow DEF Saved
<1>1. CASE Start
  <2>1. PICK s \in AllSettings :
              /\ s.roots = file.roots /\ s.connections = file.connections /\ s.id # NoId
              /\ file.id # NoId => s.id = file.id
              /\ save(s, s # file)
              /\ s.connections =>
                   daemon' = "up" /\ config' = s /\ roots' = s.roots /\ unique_id' = s.id
    BY <1>1, Started
  <2>2. file' = s
    <3>1. PICK changed \in BOOLEAN : changed = (s # file)
      OBVIOUS
    <3>2. save(s, changed)
      BY <2>1, <3>1
    <3>3. file' = IF changed THEN s ELSE file
      BY <3>2, SaveTypes
    <3>. QED  BY <3>1, <3>3
  <2>3. kept' = kept
    BY <1>1 DEF Start
  <2>. QED  BY <1>0, <2>1, <2>2, <2>3
<1>2. CASE Exit
  <2>1. file' = IF dirty THEN config ELSE file
    <3>1. config \in AllSettings /\ dirty \in BOOLEAN /\ save(config, dirty)
      BY <1>2 DEF Types, Exit
    <3>. QED  BY <3>1, SaveTypes
  <2>2. kept' = roots /\ unique_id' = unique_id /\ daemon' = "down" /\ daemon = "up"
    BY <1>2 DEF Exit, Down
  <2>3. config.roots = roots /\ dirty \in BOOLEAN
    BY DEF Types
  <2>4. CASE dirty
    BY <1>0, <2>1, <2>2, <2>3, <2>4
  <2>5. CASE ~dirty
    BY <1>0, <2>1, <2>2, <2>3, <2>5
  <2>. QED  BY <2>4, <2>5
<1>3. CASE Crash
  BY <1>0, <1>3 DEF Crash, Down
<1>4. CASE UNCHANGED << file, kept, unique_id, daemon, config, dirty >>
  BY <1>0, <1>4
<1>5. ASSUME NEW rs \in Seq(All), setFileServerRoots(rs), UNCHANGED << file, kept, unique_id, daemon >>
      PROVE  /\ file'.roots = kept' /\ file'.id = unique_id' /\ file'.connections
             /\ daemon' = "up" =>
                  /\ config'.id = file'.id /\ config'.connections /\ config'.id # NoId
                  /\ ~dirty' => config'.roots = file'.roots
  <2>1. dirty' = TRUE /\ config'.id = config.id /\ config'.connections = config.connections
    BY <1>5, SetRoots
  <2>. QED  BY <1>0, <1>5, <2>1
<1>6. ASSUME NEW i \in Ops, NEW what \in {List} \cup PopOrPush, Submit(i, what)
      PROVE  UNCHANGED << file, kept, unique_id, daemon, config, dirty >>
  BY <1>6 DEF Submit, daemonVars
<1>7. ASSUME NEW i \in Ops, ClientReceive(i) \/ ClientDisconnected(i)
      PROVE  UNCHANGED << file, kept, unique_id, daemon, config, dirty >>
  BY <1>7 DEF ClientReceive, ClientDisconnected, daemonVars, historyVars
<1>8. ASSUME NEW i \in Ops, ServeList(i)
      PROVE  UNCHANGED << file, kept, unique_id, daemon, config, dirty >>
  BY <1>8 DEF ServeList, ServeWith
<1>9. ASSUME NEW i \in Ops, ServePush(i)
      PROVE  /\ UNCHANGED << file, kept, unique_id, daemon >>
             /\ \E rs \in Seq(All) : setFileServerRoots(rs)
  <2>1. \E rs \in Seq(All) : ServeWith(i, << End >>, rs) /\ setFileServerRoots(rs)
    BY <1>9, PushServed
  <2>. QED  BY <2>1 DEF ServeWith
<1>10. ASSUME NEW i \in Ops, ServePop(i)
       PROVE  /\ UNCHANGED << file, kept, unique_id, daemon >>
              /\ UNCHANGED << config, dirty >> \/ \E rs \in Seq(All) : setFileServerRoots(rs)
  <2>1. CASE Contains(roots, op[i].root)
    <3>1. \E rs \in Seq(All) : ServeWith(i, << End >>, rs) /\ setFileServerRoots(rs)
      BY <1>10, <2>1, PopServed
    <3>. QED  BY <3>1 DEF ServeWith
  <2>2. CASE ~Contains(roots, op[i].root)
    BY <1>10, <2>2, PopMissing DEF ServeWith
  <2>. QED  BY <2>1, <2>2
<1>11. ASSUME NEW i \in Ops, ServePopUndefined(i)
       PROVE  /\ UNCHANGED << file, kept, unique_id >>
              /\ \/ daemon' = "down"
                 \/ UNCHANGED daemon /\ \E rs \in Seq(All) : setFileServerRoots(rs)
  <2>1. roots # << >> => Tail(roots) \in Seq(All)
    BY DEF Types
  <2>. QED  BY <1>11, <2>1 DEF ServePopUndefined, Down
<1>12. CASE UNCHANGED << file, kept, unique_id >> /\ daemon' = "down"
  BY <1>0, <1>12
<1>13. CASE serveGetInfoRequest \/ serveReadRequest \/ ReadTimeout
  BY <1>4, <1>13 DEF serveGetInfoRequest, serveReadRequest, ReadTimeout, daemonVars, historyVars
<1>14. ASSUME NEW i \in Ops, ServePush(i) \/ ServePop(i) \/ ServePopUndefined(i)
       PROVE  /\ file'.roots = kept' /\ file'.id = unique_id' /\ file'.connections
              /\ daemon' = "up" =>
                   /\ config'.id = file'.id /\ config'.connections /\ config'.id # NoId
                   /\ ~dirty' => config'.roots = file'.roots
  BY <1>4, <1>5, <1>9, <1>10, <1>11, <1>12, <1>14
<1>. QED  BY <1>1, <1>2, <1>3, <1>4, <1>6, <1>7, <1>8, <1>13, <1>14, Cases

\* A start takes the roots of the last orderly exit, and the unique id stays.
LEMMA RestoredStep ==
    ASSUME Types, Saved, Next, "disk" \notin mishaps'
    PROVE  /\ daemon = "down" /\ daemon' = "up" => roots' = kept
           /\ unique_id # NoId => unique_id' = unique_id
<1>0. file.roots = kept /\ file.id = unique_id /\ file.connections
  BY MishapsGrow DEF Saved
<1>1. CASE Start
  <2>1. PICK s \in AllSettings :
              /\ s.roots = file.roots /\ s.connections = file.connections
              /\ file.id # NoId => s.id = file.id
              /\ s.connections => roots' = s.roots /\ unique_id' = s.id
    BY <1>1, Started
  <2>. QED  BY <1>0, <2>1
<1>2. CASE Exit \/ Crash
  BY <1>2 DEF Exit, Crash, Down
<1>3. ASSUME NEW i \in Ops, NEW what \in {List} \cup PopOrPush, Submit(i, what)
      PROVE  UNCHANGED << daemon, unique_id >>
  BY <1>3 DEF Submit, daemonVars
<1>4. ASSUME NEW i \in Ops, ClientReceive(i) \/ ClientDisconnected(i)
      PROVE  UNCHANGED << daemon, unique_id >>
  BY <1>4 DEF ClientReceive, ClientDisconnected, daemonVars, historyVars
<1>5. ASSUME NEW i \in Ops, ServeList(i) \/ ServePush(i) \/ ServePop(i)
      PROVE  UNCHANGED << daemon, unique_id >>
  BY <1>5 DEF ServeList, ServePush, ServePop, ServeWith
<1>6. ASSUME NEW i \in Ops, ServePopUndefined(i)
      PROVE  UNCHANGED unique_id /\ daemon' \in {daemon, "down"}
  BY <1>6 DEF ServePopUndefined, Down
<1>7. CASE serveGetInfoRequest \/ serveReadRequest \/ ReadTimeout
  BY <1>7 DEF serveGetInfoRequest, serveReadRequest, ReadTimeout, daemonVars, historyVars
<1>. QED  BY <1>1, <1>2, <1>3, <1>4, <1>5, <1>6, <1>7, Cases

-----------------------------------------------------------------------------
(***************************************************************************)
(* What a step may do to request j.                                        *)
(***************************************************************************)
Rests(j) ==
    /\ op'[j] = op[j] /\ phase'[j] = phase[j] /\ inbox'[j] = inbox[j] /\ items'[j] = items[j]
    /\ results'[j] = results[j] /\ witnessed[j] \subseteq witnessed'[j]

IsCut(j) ==
    /\ phase[j] \in {"sent", "refused", "served"} /\ phase'[j] = "cut"
    /\ op'[j] = op[j] /\ inbox'[j] = inbox[j] /\ items'[j] = items[j]
    /\ results'[j] = results[j] /\ witnessed[j] \subseteq witnessed'[j]

IsSubmitted(j) ==
    /\ phase[j] = "new" /\ inbox'[j] = inbox[j] /\ items'[j] = items[j]
    /\ op'[j] \in {List} \cup PopOrPush
    /\ \/ /\ op'[j].root \in LongRoots /\ phase'[j] = "closed" /\ results'[j] = << Failure >>
       \/ phase'[j] = "sent" /\ results'[j] = results[j]
       \/ phase'[j] = "refused" /\ results'[j] = << Failure >>

GetsItem(j) ==
    /\ inbox[j] # << >> /\ inbox'[j] = Tail(inbox[j]) /\ Head(inbox[j]).kind = "item"
    /\ items'[j] = Append(items[j], Head(inbox[j]).root)
    /\ op'[j] = op[j] /\ phase'[j] = phase[j] /\ results'[j] = results[j]
    /\ witnessed'[j] = witnessed[j]

GetsEnd(j) ==
    /\ inbox[j] # << >> /\ inbox'[j] = Tail(inbox[j]) /\ Head(inbox[j]).kind = "end"
    /\ results'[j] = Append(results[j], Success(items[j])) /\ phase'[j] = "closed"
    /\ op'[j] = op[j] /\ items'[j] = items[j] /\ witnessed'[j] = witnessed[j]

IsDisconnected(j) ==
    /\ phase[j] = "cut" /\ phase'[j] = "closed" /\ inbox'[j] = << >>
    /\ results'[j] = Append(results[j], Failure)
    /\ op'[j] = op[j] /\ items'[j] = items[j] /\ witnessed'[j] = witnessed[j]

\* All the answers, or some when the write of another failed.
AnsweredWith(j, answers) ==
    \/ inbox'[j] = answers
    \/ j \in lost' /\ \E k \in DOMAIN answers : inbox'[j] = RemoveAt(answers, k)

IsServed(j) ==
    /\ daemon = "up" /\ phase[j] = "sent" /\ phase'[j] = "served"
    /\ op'[j] = op[j] /\ items'[j] = items[j] /\ results'[j] = results[j]
    /\ IF op[j].kind = "list" THEN AnsweredWith(j, Answers) /\ roots \in witnessed'[j]
       ELSE AnsweredWith(j, << End >>)

RequestStep(j) ==
    \/ Rests(j) \/ IsCut(j) \/ IsSubmitted(j) \/ GetsItem(j) \/ GetsEnd(j) \/ IsDisconnected(j)
    \/ IsServed(j)

\* A service of request i serves it, and lets the others rest.
LEMMA ServedStep ==
    ASSUME Types, NEW i \in Ops, NEW answers \in Seq(Messages), NEW rs, ServeWith(i, answers, rs),
           daemon = "up", phase[i] = "sent",
           op[i].kind = "list" => answers = Answers /\ rs = roots,
           op[i].kind # "list" => answers = << End >>,
           NEW j \in Ops
    PROVE  lost \subseteq lost' /\ RequestStep(j) /\ (j = i => IsServed(i)) /\ (j # i => Rests(j))
<1>1. PICK some \in Seq(Messages) :
              /\ inbox' = [ inbox EXCEPT ![i] = some ]
              /\ \/ lost' = lost /\ some = answers
                 \/ /\ lost' = lost \cup {i}
                    /\ \E k \in DOMAIN answers : some = RemoveAt(answers, k)
  BY AnswerWith DEF ServeWith
<1>2. inbox'[i] = some /\ \A k \in Ops : k # i => inbox'[k] = inbox[k]
  BY <1>1 DEF Types
<1>3. phase'[i] = "served" /\ \A k \in Ops : k # i => phase'[k] = phase[k]
  BY DEF Types, ServeWith
<1>4. UNCHANGED << op, items, results >>
  BY DEF ServeWith
<1>5. \A k \in Ops : /\ witnessed[k] \subseteq witnessed'[k]
                     /\ phase[k] = "sent" /\ op[k].kind = "list" => rs \in witnessed'[k]
  BY DEF Types, ServeWith, Witness
<1>6. AnsweredWith(i, answers)
  BY <1>1, <1>2 DEF AnsweredWith
<1>7. j # i => Rests(j)
  BY <1>2, <1>3, <1>4, <1>5 DEF Rests
<1>8. IsServed(i)
  <2>1. CASE op[i].kind = "list"
    BY <1>3, <1>4, <1>5, <1>6, <2>1 DEF IsServed
  <2>2. CASE op[i].kind # "list"
    BY <1>3, <1>4, <1>6, <2>2 DEF IsServed
  <2>. QED  BY <2>1, <2>2
<1>9. lost \subseteq lost'
  BY <1>1
<1>. QED  BY <1>7, <1>8, <1>9 DEF RequestStep

LEMMA CutStep ==
    ASSUME Types, Down, UNCHANGED << op, inbox, items, results, witnessed >>, NEW j \in Ops
    PROVE  Rests(j) \/ IsCut(j)
<1>1. phase'[j] = IF phase[j] \in {"sent", "refused", "served"} THEN "cut" ELSE phase[j]
  BY DownTypes
<1>2. CASE phase[j] \in {"sent", "refused", "served"}
  BY <1>1, <1>2 DEF IsCut
<1>3. CASE phase[j] \notin {"sent", "refused", "served"}
  BY <1>1, <1>3 DEF Rests
<1>. QED  BY <1>2, <1>3

LEMMA SubmitStep ==
    ASSUME Types, NEW i \in Ops, NEW what \in {List} \cup PopOrPush, Submit(i, what), NEW j \in Ops
    PROVE  /\ lost \subseteq lost' /\ RequestStep(j) /\ (j # i => Rests(j))
           /\ IsSubmitted(i) /\ op'[i] = what
<1>1. op'[i] = what /\ \A k \in Ops : k # i => op'[k] = op[k]
  BY DEF Types, Submit
<1>2. \A k \in Ops : k # i => phase'[k] = phase[k] /\ results'[k] = results[k]
                              /\ witnessed'[k] = witnessed[k]
  BY DEF Types, Submit
<1>3. \/ /\ what.root \in LongRoots /\ phase'[i] = "closed" /\ results'[i] = << Failure >>
      \/ phase'[i] = "sent" /\ results'[i] = results[i]
      \/ phase'[i] = "refused" /\ results'[i] = << Failure >>
  BY DEF Types, Submit
<1>4. UNCHANGED << inbox, items, lost >> /\ phase[i] = "new"
  BY DEF Submit
<1>5. j # i => Rests(j)
  BY <1>1, <1>2, <1>4 DEF Rests
<1>6. IsSubmitted(i)
  BY <1>1, <1>3, <1>4 DEF IsSubmitted
<1>. QED  BY <1>1, <1>4, <1>5, <1>6 DEF RequestStep

LEMMA ClientStep ==
    ASSUME Types, NEW i \in Ops, ClientReceive(i) \/ ClientDisconnected(i), NEW j \in Ops
    PROVE  /\ lost' = lost /\ RequestStep(j) /\ (j # i => Rests(j))
           /\ GetsItem(i) \/ GetsEnd(i) \/ IsDisconnected(i)
<1>1. UNCHANGED << op, lost, witnessed >>
  BY DEF ClientReceive, ClientDisconnected, historyVars
<1>2. \A k \in Ops : k # i => phase'[k] = phase[k] /\ results'[k] = results[k]
                              /\ inbox'[k] = inbox[k] /\ items'[k] = items[k]
  BY DEF Types, ClientReceive, ClientDisconnected
<1>3. j # i => Rests(j)
  BY <1>1, <1>2 DEF Rests
<1>4. GetsItem(i) \/ GetsEnd(i) \/ IsDisconnected(i)
  <2>1. CASE ClientReceive(i)
    BY <1>1, <2>1 DEF Types, ClientReceive, GetsItem, GetsEnd
  <2>2. CASE ClientDisconnected(i)
    BY <1>1, <2>2 DEF Types, ClientDisconnected, Disconnected, IsDisconnected
  <2>. QED  BY <2>1, <2>2
<1>. QED  BY <1>1, <1>3, <1>4 DEF RequestStep

LEMMA RequestSteps ==
    ASSUME Types, Next, NEW j \in Ops
    PROVE  lost \subseteq lost' /\ RequestStep(j)
<1>1. CASE Start
  BY <1>1 DEF Start, clientVars, RequestStep, Rests
<1>2. CASE Exit \/ Crash
  <2>1. Down /\ UNCHANGED << op, inbox, items, results, witnessed, lost >>
    BY <1>2 DEF Exit, Crash
  <2>. QED  BY <2>1, CutStep DEF RequestStep
<1>3. ASSUME NEW i \in Ops, NEW what \in {List} \cup PopOrPush, Submit(i, what)
      PROVE  lost \subseteq lost' /\ RequestStep(j)
  BY <1>3, SubmitStep
<1>4. ASSUME NEW i \in Ops, ClientReceive(i) \/ ClientDisconnected(i)
      PROVE  lost \subseteq lost' /\ RequestStep(j)
  BY <1>4, ClientStep
<1>5. ASSUME NEW i \in Ops, ServeList(i) PROVE lost \subseteq lost' /\ RequestStep(j)
  <2>1. ServeWith(i, Answers, roots) /\ daemon = "up" /\ phase[i] = "sent" /\ op[i].kind = "list"
    BY <1>5 DEF ServeList, Answers
  <2>2. Answers \in Seq(Messages)
    BY AnswersAt
  <2>. QED  BY <2>1, <2>2, ServedStep
<1>6. ASSUME NEW i \in Ops, ServePush(i) \/ ServePop(i) PROVE lost \subseteq lost' /\ RequestStep(j)
  <2>1. PICK rs : /\ ServeWith(i, << End >>, rs) /\ daemon = "up" /\ phase[i] = "sent"
                  /\ op[i].kind # "list"
    BY <1>6 DEF ServePush, ServePop
  <2>. QED  BY <2>1, EndAlone, ServedStep
<1>7. ASSUME NEW i \in Ops, ServePopUndefined(i) PROVE lost \subseteq lost' /\ RequestStep(j)
  <2>1. UNCHANGED << op, items, results, lost >>
    BY <1>7 DEF ServePopUndefined
  <2>2. CASE Down /\ UNCHANGED << inbox, witnessed >>
    BY <2>1, <2>2, CutStep DEF RequestStep
  <2>3. CASE /\ phase' = [ phase EXCEPT ![i] = "served" ]
             /\ inbox' = [ inbox EXCEPT ![i] = << End >> ]
             /\ Witness(Tail(roots))
    <3>1. witnessed[j] \subseteq witnessed'[j]
      BY <2>3 DEF Witness, Types
    <3>2. CASE j = i
      BY <1>7, <2>1, <2>3, <3>2 DEF Types, RequestStep, IsServed, AnsweredWith, ServePopUndefined
    <3>3. CASE j # i
      BY <2>1, <2>3, <3>1, <3>3 DEF Types, RequestStep, Rests
    <3>. QED  BY <2>1, <3>2, <3>3
  <2>. QED  BY <1>7, <2>2, <2>3 DEF ServePopUndefined
<1>8. CASE serveGetInfoRequest \/ serveReadRequest \/ ReadTimeout
  BY <1>8 DEF serveGetInfoRequest, serveReadRequest, ReadTimeout, clientVars, historyVars, RequestStep,
              Rests
<1>. QED  BY <1>1, <1>2, <1>3, <1>4, <1>5, <1>6, <1>7, <1>8, Cases

-----------------------------------------------------------------------------
(***************************************************************************)
(* How far a request has come.                                             *)
(***************************************************************************)
\* The end comes last.
EndIsLast(q) == \A k \in DOMAIN q : q[k].kind = "end" => k = Len(q)

LEMMA TailMessages ==
    ASSUME NEW q \in Seq(Messages), q # << >>
    PROVE  /\ Len(q) \in Nat \ {0} /\ Tail(q) \in Seq(Messages) /\ Len(Tail(q)) = Len(q) - 1
           /\ DOMAIN q = 1 .. Len(q) /\ DOMAIN Tail(q) = 1 .. Len(q) - 1
           /\ Head(q) = q[1] /\ \A k \in 1 .. Len(q) - 1 : Tail(q)[k] = q[k + 1]
  OBVIOUS

LEMMA TailEnds ==
    ASSUME NEW q \in Seq(Messages), q # << >>, EndIsLast(q)
    PROVE  EndIsLast(Tail(q)) /\ (Head(q).kind = "end" => Tail(q) = << >>)
<1>1. /\ Len(q) \in Nat \ {0} /\ Tail(q) \in Seq(Messages) /\ Len(Tail(q)) = Len(q) - 1
      /\ DOMAIN q = 1 .. Len(q) /\ DOMAIN Tail(q) = 1 .. Len(q) - 1
      /\ Head(q) = q[1] /\ \A k \in 1 .. Len(q) - 1 : Tail(q)[k] = q[k + 1]
  BY TailMessages
<1>2. ASSUME NEW k \in DOMAIN Tail(q), Tail(q)[k].kind = "end" PROVE k = Len(Tail(q))
  <2>1. k \in 1 .. Len(q) - 1 /\ k + 1 \in DOMAIN q /\ q[k + 1].kind = "end"
    BY <1>1, <1>2
  <2>2. k + 1 = Len(q)
    BY <2>1 DEF EndIsLast
  <2>. QED  BY <1>1, <2>1, <2>2
<1>3. ASSUME Head(q).kind = "end" PROVE Tail(q) = << >>
  <2>1. 1 \in DOMAIN q /\ q[1].kind = "end"
    BY <1>1, <1>3
  <2>2. Len(q) = 1
    BY <2>1 DEF EndIsLast
  <2>. QED  BY <1>1, <2>2
<1>. QED  BY <1>2, <1>3 DEF EndIsLast

LEMMA RemoveEnds ==
    ASSUME NEW q \in Seq(Messages), EndIsLast(q), NEW p \in DOMAIN q
    PROVE  RemoveAt(q, p) \in Seq(Messages) /\ EndIsLast(RemoveAt(q, p))
<1> DEFINE new == RemoveAt(q, p)
<1>1. /\ new \in Seq(Messages) /\ Len(q) \in Nat /\ DOMAIN q = 1 .. Len(q)
      /\ Len(new) = Len(q) - 1 /\ DOMAIN new = 1 .. Len(q) - 1
      /\ \A k \in 1 .. Len(q) - 1 : new[k] = IF k < p THEN q[k] ELSE q[k + 1]
  BY RemoveAtAt
<1> HIDE DEF new
<1>2. ASSUME NEW k \in DOMAIN new, new[k].kind = "end" PROVE k = Len(new)
  <2>0. k \in 1 .. Len(q) - 1 /\ p \in 1 .. Len(q)
    BY <1>1
  <2>1. CASE k < p
    <3>1. k \in DOMAIN q /\ q[k].kind = "end"
      BY <1>1, <1>2, <2>0, <2>1
    <3>2. k = Len(q)
      BY <3>1 DEF EndIsLast
    <3>3. k # Len(q)
      <4>1. Len(q) \in Nat
        BY <1>1
      <4>. QED  BY <2>0, <4>1
    <3>. QED  BY <3>2, <3>3
  <2>2. CASE ~(k < p)
    <3>1. k + 1 \in DOMAIN q /\ q[k + 1].kind = "end"
      BY <1>1, <1>2, <2>0, <2>2
    <3>2. k + 1 = Len(q)
      BY <3>1 DEF EndIsLast
    <3>. QED  BY <1>1, <2>0, <3>2
  <2>. QED  BY <2>1, <2>2
<1>. QED  BY <1>1, <1>2 DEF EndIsLast, new

LEMMA AnswersEnd ==
    ASSUME Types
    PROVE  EndIsLast(Answers) /\ EndIsLast(<< End >>)
<1>1. /\ Len(Answers) = Len(Listed(roots)) + 1
      /\ DOMAIN Answers = 1 .. Len(Listed(roots)) + 1
      /\ \A k \in DOMAIN Answers :
           Answers[k] = IF k < Len(Answers) THEN Item(Listed(roots)[k]) ELSE End
  BY AnswersAt
<1>2. Len(Listed(roots)) \in Nat
  BY ListedReports DEF Types
<1>3. \A r : Item(r).kind = "item"
  BY DEF Item
<1>4. ASSUME NEW k \in DOMAIN Answers, Answers[k].kind = "end" PROVE k = Len(Answers)
  <2>1. ~(k < Len(Answers))
    BY <1>1, <1>3, <1>4
  <2>2. k \in 1 .. Len(Answers)
    BY <1>1
  <2>. QED  BY <1>1, <1>2, <2>1, <2>2
<1>5. EndIsLast(<< End >>)
  BY DEF EndIsLast
<1>. QED  BY <1>4, <1>5 DEF EndIsLast

\* What is on its way to the client of a request that is served.
LEMMA ServedEnds ==
    ASSUME Types, NEW j \in Ops, IsServed(j)
    PROVE  EndIsLast(inbox'[j])
<1>1. PICK answers \in Seq(Messages) : AnsweredWith(j, answers) /\ EndIsLast(answers)
  BY AnswersAt, AnswersEnd, EndAlone DEF IsServed
<1>. QED  BY <1>1, RemoveEnds DEF AnsweredWith

LEMMA ProgressStep ==
    ASSUME Types, Progress, Next
    PROVE  Progress'
<1> SUFFICES ASSUME NEW j \in Ops PROVE ProgressOf(j)'
  BY DEF Progress
<1>0. /\ phase[j] \in {"new", "sent", "refused", "served", "cut", "closed"}
      /\ inbox[j] \in Seq(Messages) /\ results[j] \in Seq(Outcomes) /\ items[j] \in Seq(All)
  BY DEF Types
<1>p. ProgressOf(j) /\ EndIsLast(inbox[j])
  BY DEF Progress, ProgressOf, EndIsLast
<1>f. /\ Len(<< Failure >>) = 1
      /\ \A k \in DOMAIN << Failure >> : << Failure >>[k] = Failure
      /\ ~Failure.ok
  BY Empty
<1>1. CASE Rests(j)
  BY <1>p, <1>1 DEF Rests, ProgressOf
<1>2. CASE IsCut(j)
  <2>1. Len(results[j]) <= 1 /\ (inbox[j] # << >> => results[j] = << >>)
    <3>1. Len(<< >>) <= 1
      OBVIOUS
    <3>. QED  BY <1>p, <1>2, <3>1 DEF IsCut, ProgressOf
  <2>. QED  BY <1>p, <1>2, <2>1 DEF IsCut, ProgressOf
<1>3. CASE IsSubmitted(j)
  <2>1. results[j] = << >> /\ items[j] = << >> /\ inbox[j] = << >>
    BY <1>p, <1>3 DEF IsSubmitted, ProgressOf
  <2>2. /\ Len(results'[j]) <= 1 /\ Len(results'[j]) <= 2
        /\ phase'[j] = "sent" => results'[j] = << >>
    <3>1. CASE results'[j] = << >>
      BY <3>1
    <3>2. CASE results'[j] = << Failure >> /\ phase'[j] # "sent"
      BY <1>f, <3>2
    <3>. QED  BY <1>3, <2>1, <3>1, <3>2 DEF IsSubmitted
  <2>3. inbox'[j] = << >> /\ DOMAIN inbox'[j] = {} /\ items'[j] = << >>
    BY <1>3, <2>1 DEF IsSubmitted
  <2>4. \A k \in DOMAIN results'[j] : ~results'[j][k].ok
    BY <1>3, <1>f, <2>1 DEF IsSubmitted
  <2>. QED  BY <1>3, <2>2, <2>3, <2>4 DEF IsSubmitted, ProgressOf
<1>4. CASE GetsItem(j)
  <2>1. phase[j] \in {"served", "cut"} /\ results[j] = << >>
    BY <1>0, <1>p, <1>4 DEF GetsItem, ProgressOf
  <2>2. EndIsLast(inbox'[j])
    BY <1>0, <1>p, <1>4, TailEnds DEF GetsItem
  <2>. QED  BY <1>4, <2>1, <2>2 DEF GetsItem, ProgressOf, EndIsLast
<1>5. CASE GetsEnd(j)
  <2>1. phase[j] \in {"served", "cut"} /\ results[j] = << >>
    BY <1>0, <1>p, <1>5 DEF GetsEnd, ProgressOf
  <2>2. inbox'[j] = << >>
    BY <1>0, <1>p, <1>5, TailEnds DEF GetsEnd
  <2>3. results'[j] = << Success(items[j]) >>
    BY <1>5, <2>1 DEF GetsEnd
  <2>4. Len(results'[j]) <= 2 /\ DOMAIN inbox'[j] = {}
    BY <2>2, <2>3
  <2>. QED  BY <1>5, <2>2, <2>4 DEF GetsEnd, ProgressOf
<1>6. CASE IsDisconnected(j)
  <2>1. Len(results[j]) <= 1
    BY <1>p, <1>6 DEF IsDisconnected, ProgressOf
  <2>2. Len(results'[j]) <= 2
    BY <1>0, <1>6, <2>1, Empty DEF IsDisconnected
  <2>. QED  BY <1>6, <2>2 DEF IsDisconnected, ProgressOf
<1>7. CASE IsServed(j)
  <2>1. results[j] = << >>
    BY <1>p, <1>7 DEF IsServed, ProgressOf
  <2>2. EndIsLast(inbox'[j])
    BY <1>7, ServedEnds
  <2>. QED  BY <1>7, <2>1, <2>2 DEF IsServed, ProgressOf, EndIsLast
<1>. QED  BY <1>1, <1>2, <1>3, <1>4, <1>5, <1>6, <1>7, RequestSteps DEF RequestStep

-----------------------------------------------------------------------------
(***************************************************************************)
(* What a request for the list is told.                                    *)
(***************************************************************************)
\* All of the answers remain when nothing was taken yet.
LEMMA AllRemains ==
    ASSUME Types
    PROVE  Remains(<< >>, Answers, Listed(roots))
<1>1. /\ Len(Answers) = Len(Listed(roots)) + 1
      /\ DOMAIN Answers = 1 .. Len(Listed(roots)) + 1
      /\ \A k \in DOMAIN Answers :
           Answers[k] = IF k < Len(Answers) THEN Item(Listed(roots)[k]) ELSE End
  BY AnswersAt
<1>2. Len(Listed(roots)) \in Nat /\ Len(<< >>) = 0 /\ DOMAIN << >> = {}
  BY ListedReports DEF Types
<1>3. \A k \in DOMAIN Answers : 0 + k = k
  BY <1>1
<1>. QED  BY <1>1, <1>2, <1>3 DEF Remains

\* The next one is taken.
LEMMA OneLess ==
    ASSUME NEW taken \in Seq(All), NEW q \in Seq(Messages), q # << >>, NEW all \in Seq(All),
           Remains(taken, q, all), Head(q).kind = "item"
    PROVE  Remains(Append(taken, Head(q).root), Tail(q), all)
<1> DEFINE new == Append(taken, Head(q).root)
<1>1. /\ Len(q) \in Nat \ {0} /\ Tail(q) \in Seq(Messages) /\ Len(Tail(q)) = Len(q) - 1
      /\ DOMAIN q = 1 .. Len(q) /\ DOMAIN Tail(q) = 1 .. Len(q) - 1
      /\ Head(q) = q[1] /\ \A k \in 1 .. Len(q) - 1 : Tail(q)[k] = q[k + 1]
  BY TailMessages
<1>2. Head(q) \in Messages
  OBVIOUS
<1>3. Head(q).root \in All
  BY <1>2, MessageFields
<1>4. /\ Len(taken) \in Nat /\ Len(new) = Len(taken) + 1 /\ DOMAIN new = 1 .. Len(taken) + 1
      /\ DOMAIN taken = 1 .. Len(taken) /\ new[Len(taken) + 1] = Head(q).root
      /\ \A k \in 1 .. Len(taken) : new[k] = taken[k]
  BY <1>3
<1>5. Len(all) \in Nat /\ Len(taken) + Len(q) = Len(all) + 1
  BY DEF Remains
<1>6. 1 < Len(q) /\ Head(q).root = all[Len(taken) + 1]
  <2>1. 1 \in DOMAIN q
    BY <1>1
  <2>2. q[1] = IF 1 < Len(q) THEN Item(all[Len(taken) + 1]) ELSE End
    BY <2>1 DEF Remains
  <2>3. 1 < Len(q)
    BY <1>1, <2>2 DEF End
  <2>. QED  BY <1>1, <2>2, <2>3 DEF Item
<1> HIDE DEF new
<1>7. Len(new) + Len(Tail(q)) = Len(all) + 1
  BY <1>1, <1>4, <1>5
<1>8. ASSUME NEW k \in DOMAIN new PROVE new[k] = all[k]
  <2>1. CASE k = Len(taken) + 1
    BY <1>4, <1>6, <2>1
  <2>2. CASE k # Len(taken) + 1
    <3>1. k \in DOMAIN taken
      BY <1>4, <2>2
    <3>. QED  BY <1>4, <3>1 DEF Remains
  <2>. QED  BY <2>1, <2>2
<1>9. ASSUME NEW k \in DOMAIN Tail(q)
      PROVE  Tail(q)[k] = IF k < Len(Tail(q)) THEN Item(all[Len(new) + k]) ELSE End
  <2>1. /\ k + 1 \in DOMAIN q /\ Tail(q)[k] = q[k + 1] /\ (k + 1 < Len(q) <=> k < Len(Tail(q)))
        /\ Len(taken) + (k + 1) = Len(new) + k
    <3>1. k \in 1 .. Len(q) - 1 /\ Len(q) \in Nat
      BY <1>1
    <3>2. k + 1 \in DOMAIN q /\ Tail(q)[k] = q[k + 1]
      BY <1>1, <3>1
    <3>3. Len(Tail(q)) = Len(q) - 1 /\ Len(taken) \in Nat /\ Len(new) = Len(taken) + 1
      BY <1>1, <1>4
    <3>4. k + 1 < Len(q) <=> k < Len(Tail(q))
      BY <3>1, <3>3
    <3>. QED  BY <3>1, <3>2, <3>3, <3>4
  <2>2. q[k + 1] = IF k + 1 < Len(q) THEN Item(all[Len(taken) + (k + 1)]) ELSE End
    BY <2>1 DEF Remains
  <2>. QED  BY <1>1, <1>4, <2>1, <2>2
<1>10. Remains(new, Tail(q), all)
  BY <1>7, <1>8, <1>9 DEF Remains
<1>. QED  BY <1>10 DEF new

\* At the end the whole list was taken.
LEMMA WholeList ==
    ASSUME NEW taken \in Seq(All), NEW q \in Seq(Messages), q # << >>, NEW all \in Seq(All),
           Remains(taken, q, all), Head(q).kind = "end"
    PROVE  taken = all
<1>1. Len(q) \in Nat \ {0} /\ DOMAIN q = 1 .. Len(q) /\ Head(q) = q[1]
  BY TailMessages
<1>2. Len(q) = 1
  <2>1. 1 \in DOMAIN q
    BY <1>1
  <2>2. q[1] = IF 1 < Len(q) THEN Item(all[Len(taken) + 1]) ELSE End
    BY <2>1 DEF Remains
  <2>3. ~(1 < Len(q))
    BY <1>1, <2>2 DEF Item
  <2>. QED  BY <1>1, <2>3
<1>3. Len(taken) = Len(all)
  BY <1>2 DEF Remains
<1>4. \A k \in 1 .. Len(taken) : taken[k] = all[k]
  BY DEF Remains
<1>. QED  BY <1>3, <1>4

LEMMA OneListStep ==
    ASSUME Types, Progress, OneList, Next
    PROVE  OneList'
<1> SUFFICES ASSUME NEW j \in Ops, op'[j].kind = "list", j \notin lost' PROVE ToldOneList(j)'
  BY DEF OneList
<1>0. /\ inbox[j] \in Seq(Messages) /\ results[j] \in Seq(Outcomes) /\ items[j] \in Seq(All)
      /\ witnessed[j] \subseteq Seq(All)
  BY DEF Types
<1>p. ProgressOf(j)
  BY DEF Progress
<1>f. \A k \in DOMAIN << Failure >> : ~<< Failure >>[k].ok
  BY Empty
<1>1. ASSUME op'[j] = op[j] PROVE ToldOneList(j)
  BY <1>1, RequestSteps DEF OneList
<1>2. CASE Rests(j)
  BY <1>1, <1>2 DEF Rests, ToldOneList
<1>3. CASE IsCut(j)
  BY <1>1, <1>3 DEF IsCut, ToldOneList
<1>4. CASE IsSubmitted(j)
  <2>1. results[j] = << >> /\ inbox[j] = << >>
    BY <1>p, <1>4 DEF IsSubmitted, ProgressOf
  <2>. QED  BY <1>4, <1>f, <2>1 DEF IsSubmitted, ToldOneList
<1>5. CASE GetsItem(j)
  <2>1. PICK rs \in witnessed[j] : Remains(items[j], inbox[j], Listed(rs))
    BY <1>1, <1>5 DEF GetsItem, ToldOneList
  <2>2. Listed(rs) \in Seq(All)
    BY <1>0, ListedReports
  <2>3. Remains(items'[j], inbox'[j], Listed(rs))
    BY <1>0, <1>5, <2>1, <2>2, OneLess DEF GetsItem
  <2>. QED  BY <1>1, <1>5, <2>3 DEF GetsItem, ToldOneList
<1>6. CASE GetsEnd(j)
  <2>1. PICK rs \in witnessed[j] : Remains(items[j], inbox[j], Listed(rs))
    BY <1>1, <1>6 DEF GetsEnd, ToldOneList
  <2>2. Listed(rs) \in Seq(All)
    BY <1>0, ListedReports
  <2>3. items[j] = Listed(rs)
    BY <1>0, <1>6, <2>1, <2>2, WholeList DEF GetsEnd
  <2>4. results[j] = << >>
    BY <1>p, <1>6 DEF GetsEnd, ProgressOf, Types
  <2>5. inbox'[j] = << >>
    BY <1>0, <1>p, <1>6, TailEnds DEF GetsEnd, ProgressOf, EndIsLast
  <2>6. results'[j] = << Success(items[j]) >> /\ Success(items[j]).roots = Listed(rs)
    BY <1>6, <2>3, <2>4 DEF GetsEnd, Success
  <2>7. \A k \in DOMAIN results'[j] : results'[j][k].roots = Listed(rs)
    BY <2>6
  <2>. QED  BY <1>6, <2>5, <2>7 DEF GetsEnd, ToldOneList
<1>7. CASE IsDisconnected(j)
  <2>1. /\ \A k \in DOMAIN results'[j] : results'[j][k].ok =>
             k \in DOMAIN results[j] /\ results'[j][k] = results[j][k]
    BY <1>0, <1>7, Empty DEF IsDisconnected
  <2>. QED  BY <1>1, <1>7, <2>1 DEF IsDisconnected, ToldOneList
<1>8. CASE IsServed(j)
  <2>1. results[j] = << >> /\ items[j] = << >>
    BY <1>p, <1>8 DEF IsServed, ProgressOf
  <2>2. inbox'[j] = Answers /\ roots \in witnessed'[j] /\ results'[j] = << >> /\ items'[j] = << >>
    BY <1>8, <2>1 DEF IsServed, AnsweredWith
  <2>3. Remains(items'[j], inbox'[j], Listed(roots))
    BY <2>2, AllRemains
  <2>. QED  BY <2>2, <2>3 DEF ToldOneList
<1>. QED  BY <1>2, <1>3, <1>4, <1>5, <1>6, <1>7, <1>8, RequestSteps DEF RequestStep

-----------------------------------------------------------------------------
(***************************************************************************)
(* The copies of a root are counted.                                       *)
(***************************************************************************)
Underway == {"new", "sent", "refused"}

\* How a step changes what is known of a request.
LEMMA RequestGoesOn ==
    ASSUME Types, Progress, Next, NEW j \in Ops
    PROVE  /\ phase[j] # "new" => phase'[j] # "new" /\ op'[j] = op[j]
           /\ phase[j] = "new" /\ phase'[j] # "new" => ~Told(j)'
           /\ phase[j] \notin Underway => phase'[j] \notin Underway
           /\ Told(j)' => Told(j) \/ IsServed(j)
<1>0. /\ inbox[j] \in Seq(Messages) /\ results[j] \in Seq(Outcomes)
      /\ phase[j] \in {"new", "sent", "refused", "served", "cut", "closed"}
  BY DEF Types
<1>p. ProgressOf(j)
  BY DEF Progress
<1>f. \A k \in DOMAIN << Failure >> : ~<< Failure >>[k].ok
  BY Empty
<1>1. CASE Rests(j)
  BY <1>1 DEF Rests, Told
<1>2. CASE IsCut(j)
  BY <1>2 DEF IsCut, Told, Underway
<1>3. CASE IsSubmitted(j)
  <2>1. results[j] = << >> /\ inbox[j] = << >> /\ DOMAIN << >> = {}
    BY <1>p, <1>3 DEF IsSubmitted, ProgressOf
  <2>2. ~Told(j)'
    BY <1>3, <1>f, <2>1 DEF IsSubmitted, Told
  <2>. QED  BY <1>3, <2>2 DEF IsSubmitted, Underway
<1>4. CASE GetsItem(j)
  <2>1. phase[j] \in {"served", "cut"}
    BY <1>0, <1>p, <1>4 DEF GetsItem, ProgressOf
  <2>. QED  BY <1>4, <2>1 DEF GetsItem, Told
<1>5. CASE GetsEnd(j)
  <2>1. phase[j] \in {"served", "cut"}
    BY <1>0, <1>p, <1>5 DEF GetsEnd, ProgressOf
  <2>. QED  BY <1>5, <2>1 DEF GetsEnd, Told, Underway
<1>6. CASE IsDisconnected(j)
  <2>1. /\ \A k \in DOMAIN results'[j] : results'[j][k].ok =>
             k \in DOMAIN results[j] /\ results'[j][k] = results[j][k]
    BY <1>0, <1>6, Empty DEF IsDisconnected
  <2>. QED  BY <1>6, <2>1 DEF IsDisconnected, Told, Underway
<1>7. CASE IsServed(j)
  BY <1>7 DEF IsServed, Underway
<1>. QED  BY <1>1, <1>2, <1>3, <1>4, <1>5, <1>6, <1>7, RequestSteps DEF RequestStep

LEMMA RequestsFinite ==
    ASSUME NEW T \in SUBSET Ops
    PROVE  IsFiniteSet(T) /\ Cardinality(T) \in Nat
  BY FileServerAssumption, FS_Subset, FS_CardinalityType

LEMMA RequestsGrow ==
    ASSUME Types, Progress, Next, NEW kind, NEW r
    PROVE  /\ Requests(kind, r) \subseteq Requests(kind, r)'
           /\ \A j \in Requests(kind, r)' : Told(j)' => j \in Requests(kind, r)
           /\ Cardinality(Requests(kind, r)) <= Cardinality(Requests(kind, r)')
<1>1. Requests(kind, r) \subseteq Requests(kind, r)'
  BY RequestGoesOn DEF Requests
<1>2. ASSUME NEW j \in Requests(kind, r)', Told(j)' PROVE j \in Requests(kind, r)
  <2>1. j \in Ops /\ phase'[j] # "new" /\ op'[j].kind = kind /\ op'[j].root = r
    BY DEF Requests
  <2>2. phase[j] # "new" /\ op'[j] = op[j]
    BY <1>2, <2>1, RequestGoesOn
  <2>. QED  BY <2>1, <2>2 DEF Requests
<1>3. Requests(kind, r)' \in SUBSET Ops
  BY DEF Requests
<1>4. Cardinality(Requests(kind, r)) <= Cardinality(Requests(kind, r)')
  BY <1>1, <1>3, RequestsFinite, FS_Subset
<1>. QED  BY <1>1, <1>2, <1>4

\* The balance holds with the pushes and pops that the step serves.
LEMMA Balanced ==
    ASSUME Types, Progress, Next, initial' = initial, NEW r,
           NEW P \in SUBSET Ops, NEW Q \in SUBSET Ops, Balance(r, P, Q),
           NEW P2 \in SUBSET Ops, NEW Q2 \in SUBSET Ops, P \subseteq P2, Q \subseteq Q2,
           \A j \in P2 \ P : j \in Requests("push", r) /\ phase'[j] = "served",
           \A j \in Q2 \ Q : j \in Requests("pop", r) /\ phase'[j] = "served",
           Copies(Current', r) + Cardinality(Q2) = Copies(initial, r) + Cardinality(P2),
           \A j \in Requests("push", r) : IsServed(j) => j \in P2,
           Cardinality(Requests("pop", r)) <= Copies(initial, r) =>
             \A j \in Requests("pop", r) : IsServed(j) => j \in Q2
    PROVE  Balance(r, P2, Q2)'
<1>1. P2 \subseteq Requests("push", r)' /\ Q2 \subseteq Requests("pop", r)'
  BY RequestsGrow DEF Balance
<1>2. ASSUME NEW j \in P2 \cup Q2 PROVE phase'[j] \notin Underway
  <2>1. CASE j \in P \cup Q
    BY <2>1, RequestGoesOn DEF Balance, Underway
  <2>2. CASE j \notin P \cup Q
    BY <2>2 DEF Underway
  <2>. QED  BY <2>1, <2>2
<1>3. ASSUME NEW j \in Requests("push", r)', Told(j)' PROVE j \in P2
  <2>0. j \in Requests("push", r)
    BY <1>3, RequestsGrow
  <2>1. j \in Requests("push", r) /\ j \in Ops
    BY <2>0 DEF Requests
  <2>2. Told(j) \/ IsServed(j)
    BY <1>3, <2>1, RequestGoesOn
  <2>. QED  BY <2>1, <2>2 DEF Balance
<1>4. ASSUME Cardinality(Requests("pop", r)') <= Copies(initial, r),
             NEW j \in Requests("pop", r)', Told(j)'
      PROVE  j \in Q2
  <2>0. j \in Requests("pop", r)
    BY <1>4, RequestsGrow
  <2>1. j \in Requests("pop", r) /\ j \in Ops
    BY <2>0 DEF Requests
  <2>2. Told(j) \/ IsServed(j)
    BY <1>4, <2>1, RequestGoesOn
  <2>3. Cardinality(Requests("pop", r)) <= Copies(initial, r)
    <3>1. Cardinality(Requests("pop", r)) <= Cardinality(Requests("pop", r)')
      BY RequestsGrow
    <3>2. Cardinality(Requests("pop", r)) \in Nat /\ Cardinality(Requests("pop", r)') \in Nat
      BY RequestsFinite DEF Requests
    <3>3. Copies(initial, r) \in Nat
      BY CopiesType DEF Types
    <3>. QED  BY <1>4, <3>1, <3>2, <3>3
  <2>. QED  BY <2>1, <2>2, <2>3 DEF Balance
<1>. QED  BY <1>1, <1>2, <1>3, <1>4 DEF Balance, Underway

LEMMA InitialStays ==
    ASSUME Next
    PROVE  initial' = initial
<1>1. CASE Start \/ Exit \/ Crash
  BY <1>1 DEF Start, Exit, Crash
<1>2. ASSUME NEW i \in Ops, NEW what \in {List} \cup PopOrPush, Submit(i, what)
      PROVE  initial' = initial
  BY <1>2 DEF Submit
<1>3. ASSUME NEW i \in Ops, ClientReceive(i) \/ ClientDisconnected(i)
      PROVE  initial' = initial
  BY <1>3 DEF ClientReceive, ClientDisconnected, historyVars
<1>4. ASSUME NEW i \in Ops, ServeList(i) \/ ServePush(i) \/ ServePop(i) \/ ServePopUndefined(i)
      PROVE  initial' = initial
  BY <1>4 DEF ServeList, ServePush, ServePop, ServePopUndefined, ServeWith
<1>5. CASE serveGetInfoRequest \/ serveReadRequest \/ ReadTimeout
  BY <1>5 DEF serveGetInfoRequest, serveReadRequest, ReadTimeout, historyVars
<1>. QED  BY <1>1, <1>2, <1>3, <1>4, <1>5, Cases

\* A step that serves no request keeps the roots.
LEMMA CurrentStays ==
    ASSUME Types, Saved, Next, "disk" \notin mishaps', "crash" \notin mishaps',
           "undefined" \notin mishaps',
           ~\E i \in Ops : ServeList(i) \/ ServePush(i) \/ ServePop(i)
    PROVE  Current' = Current /\ \A j \in Ops : ~IsServed(j)
<1>0. /\ file.roots = kept /\ file.connections
      /\ file'.roots = kept'
  BY MishapsGrow, SavedStep DEF Saved
<1>1. CASE Start
  <2>1. PICK s \in AllSettings :
              /\ s.roots = file.roots /\ s.connections = file.connections
              /\ s.connections => daemon' = "up" /\ roots' = s.roots
    BY <1>1, Started
  <2>2. daemon = "down" /\ UNCHANGED phase
    BY <1>1 DEF Start, clientVars
  <2>. QED  BY <1>0, <2>1, <2>2 DEF Current, IsServed
<1>2. CASE Exit
  <2>1. daemon = "up" /\ daemon' = "down" /\ kept' = roots
    BY <1>2 DEF Exit, Down
  <2>2. \A j \in Ops : phase'[j] # "served"
    <3>1. Down
      BY <1>2 DEF Exit
    <3>. QED  BY <3>1, DownTypes
  <2>. QED  BY <1>0, <2>1, <2>2 DEF Current, IsServed
<1>3. CASE Crash
  BY <1>3 DEF Crash
<1>4. ASSUME NEW i \in Ops, NEW what \in {List} \cup PopOrPush, Submit(i, what)
      PROVE  Current' = Current /\ \A j \in Ops : ~IsServed(j)
  <2>1. UNCHANGED << daemon, roots, file >>
    BY <1>4 DEF Submit, daemonVars
  <2>2. ASSUME NEW j \in Ops PROVE ~IsServed(j)
    BY <1>4, SubmitStep DEF IsServed, Rests, IsSubmitted
  <2>. QED  BY <2>1, <2>2 DEF Current
<1>5. ASSUME NEW i \in Ops, ClientReceive(i) \/ ClientDisconnected(i)
      PROVE  Current' = Current /\ \A j \in Ops : ~IsServed(j)
  <2>1. UNCHANGED << daemon, roots, file >>
    BY <1>5 DEF ClientReceive, ClientDisconnected, daemonVars
  <2>2. ASSUME NEW j \in Ops PROVE ~IsServed(j)
    BY <1>5, ClientStep DEF IsServed, Rests, GetsItem, GetsEnd, IsDisconnected
  <2>. QED  BY <2>1, <2>2 DEF Current
<1>6. ASSUME NEW i \in Ops, ServePopUndefined(i) PROVE FALSE
  BY <1>6 DEF ServePopUndefined
<1>7. CASE serveGetInfoRequest \/ serveReadRequest \/ ReadTimeout
  BY <1>7 DEF serveGetInfoRequest, serveReadRequest, ReadTimeout, daemonVars, clientVars, Current,
              IsServed
<1>. QED  BY <1>1, <1>2, <1>3, <1>4, <1>5, <1>6, <1>7, Cases

\* The other requests rest while the daemon serves request i.
LEMMA OneServed ==
    ASSUME Types, NEW i \in Ops, NEW answers \in Seq(Messages), NEW rs, ServeWith(i, answers, rs),
           daemon = "up", phase[i] = "sent",
           op[i].kind = "list" => answers = Answers /\ rs = roots,
           op[i].kind # "list" => answers = << End >>
    PROVE  /\ Current = roots /\ Current' = rs /\ phase'[i] = "served"
           /\ \A j \in Ops : IsServed(j) => j = i
<1>1. ASSUME NEW j \in Ops, IsServed(j), j # i PROVE FALSE
  <2>1. Rests(j)
    BY <1>1, ServedStep
  <2>. QED  BY <1>1, <2>1 DEF Rests, IsServed
<1>2. daemon' = daemon /\ roots' = rs /\ phase'[i] = "served"
  BY DEF ServeWith, Types
<1>. QED  BY <1>1, <1>2 DEF Current

LEMMA CountedStep ==
    ASSUME Types, Saved, Progress, Counted, Next
    PROVE  Counted'
<1> SUFFICES ASSUME Clean', NEW r \in Roots
             PROVE  \E P2, Q2 \in SUBSET Ops : Balance(r, P2, Q2)'
  BY DEF Counted
<1>1. Clean /\ "disk" \notin mishaps' /\ "crash" \notin mishaps' /\ "undefined" \notin mishaps'
  BY MishapsGrow DEF Clean
<1>2. PICK P, Q \in SUBSET Ops : Balance(r, P, Q)
  BY <1>1 DEF Counted
<1>3. initial' = initial
  BY InitialStays
<1>4. /\ Copies(Current, r) + Cardinality(Q) = Copies(initial, r) + Cardinality(P)
      /\ Cardinality(P) \in Nat /\ Cardinality(Q) \in Nat /\ IsFiniteSet(P) /\ IsFiniteSet(Q)
      /\ \A i \in P \cup Q : phase[i] # "sent"
      /\ Copies(initial, r) \in Nat
  BY <1>2, RequestsFinite, CopiesType DEF Balance, Types
<1>5. ASSUME Copies(Current', r) = Copies(Current, r),
             \A j \in Requests("push", r) : ~IsServed(j),
             Cardinality(Requests("pop", r)) <= Copies(initial, r) =>
               \A j \in Requests("pop", r) : ~IsServed(j)
      PROVE  Balance(r, P, Q)'
  <2>1. Copies(Current', r) + Cardinality(Q) = Copies(initial, r) + Cardinality(P)
    BY <1>4, <1>5
  <2>. QED  BY <1>2, <1>3, <1>5, <2>1, Balanced
<1>6. CASE ~\E i \in Ops : ServeList(i) \/ ServePush(i) \/ ServePop(i)
  <2>1. Current' = Current /\ \A j \in Ops : ~IsServed(j)
    BY <1>1, <1>6, CurrentStays
  <2>2. Balance(r, P, Q)'
    BY <1>5, <2>1 DEF Requests
  <2>. QED  BY <2>2
<1>7. ASSUME NEW i \in Ops, ServeList(i) PROVE Balance(r, P, Q)'
  <2>1. ServeWith(i, Answers, roots) /\ daemon = "up" /\ phase[i] = "sent" /\ op[i].kind = "list"
    BY <1>7 DEF ServeList, Answers
  <2>2. Answers \in Seq(Messages)
    BY AnswersAt
  <2>3. Current' = Current /\ \A j \in Ops : IsServed(j) => j = i
    BY <2>1, <2>2, OneServed
  <2>. QED  BY <1>5, <2>1, <2>3 DEF Requests
<1>8. ASSUME NEW i \in Ops, ServePush(i) PROVE \E P2, Q2 \in SUBSET Ops : Balance(r, P2, Q2)'
  <2>1. PICK rs \in Seq(All) :
              /\ ServeWith(i, << End >>, rs)
              /\ \A x : Copies(rs, x) = Copies(roots, x) + (IF op[i].root = x THEN 1 ELSE 0)
    BY <1>8, PushServed
  <2>2. daemon = "up" /\ phase[i] = "sent" /\ op[i].kind = "push"
    BY <1>8 DEF ServePush
  <2>3. /\ Current = roots /\ Current' = rs /\ phase'[i] = "served"
        /\ \A j \in Ops : IsServed(j) => j = i
    BY <2>1, <2>2, EndAlone, OneServed
  <2>4. Copies(roots, r) \in Nat
    BY CopiesType DEF Types
  <2>5. CASE op[i].root # r
    <3>1. Copies(Current', r) = Copies(Current, r)
      BY <2>1, <2>3, <2>4, <2>5
    <3>2. Balance(r, P, Q)'
      BY <1>5, <2>2, <2>3, <2>5, <3>1 DEF Requests
    <3>. QED  BY <3>2
  <2>6. CASE op[i].root = r
    <3>1. i \in Requests("push", r) /\ i \notin Requests("pop", r)
      BY <2>2, <2>6 DEF Requests
    <3>2. i \notin P
      BY <1>4, <2>2
    <3>3. P \cup {i} \in SUBSET Ops /\ Cardinality(P \cup {i}) = Cardinality(P) + 1
      BY <1>4, <3>2, FS_AddElement
    <3>4. Copies(Current', r) = Copies(Current, r) + 1
      BY <2>1, <2>3, <2>6
    <3>5. Copies(Current', r) + Cardinality(Q) = Copies(initial, r) + Cardinality(P \cup {i})
      BY <1>4, <2>3, <2>4, <3>3, <3>4
    <3>6. /\ \A j \in Requests("push", r) : IsServed(j) => j \in P \cup {i}
          /\ \A j \in Requests("pop", r) : IsServed(j) => j \in Q
      <4>1. \A j \in Requests("push", r) \cup Requests("pop", r) : j \in Ops
        BY DEF Requests
      <4>. QED  BY <2>3, <3>1, <4>1
    <3>7. PICK P2 \in SUBSET Ops : P2 = P \cup {i}
      BY <3>3
    <3>8. /\ P \subseteq P2 /\ Q \subseteq Q
          /\ \A j \in P2 \ P : j \in Requests("push", r) /\ phase'[j] = "served"
          /\ \A j \in Q \ Q : j \in Requests("pop", r) /\ phase'[j] = "served"
      BY <2>3, <3>1, <3>7
    <3>9. Balance(r, P2, Q)'
      BY <1>2, <1>3, <3>5, <3>6, <3>7, <3>8, Balanced
    <3>. QED  BY <3>9
  <2>. QED  BY <2>5, <2>6
<1>9. ASSUME NEW i \in Ops, ServePop(i), Contains(roots, op[i].root)
      PROVE  \E P2, Q2 \in SUBSET Ops : Balance(r, P2, Q2)'
  <2>1. PICK rs \in Seq(All) :
              /\ ServeWith(i, << End >>, rs)
              /\ \A x : Copies(roots, x) = Copies(rs, x) + (IF op[i].root = x THEN 1 ELSE 0)
    BY <1>9, PopServed
  <2>2. daemon = "up" /\ phase[i] = "sent" /\ op[i].kind = "pop"
    BY <1>9 DEF ServePop
  <2>3. /\ Current = roots /\ Current' = rs /\ phase'[i] = "served"
        /\ \A j \in Ops : IsServed(j) => j = i
    BY <2>1, <2>2, EndAlone, OneServed
  <2>4. Copies(roots, r) \in Nat /\ Copies(rs, r) \in Nat
    BY CopiesType DEF Types
  <2>5. CASE op[i].root # r
    <3>1. Copies(Current', r) = Copies(Current, r)
      BY <2>1, <2>3, <2>4, <2>5
    <3>2. Balance(r, P, Q)'
      BY <1>5, <2>2, <2>3, <2>5, <3>1 DEF Requests
    <3>. QED  BY <3>2
  <2>6. CASE op[i].root = r
    <3>1. i \in Requests("pop", r) /\ i \notin Requests("push", r)
      BY <2>2, <2>6 DEF Requests
    <3>2. i \notin Q
      BY <1>4, <2>2
    <3>3. Q \cup {i} \in SUBSET Ops /\ Cardinality(Q \cup {i}) = Cardinality(Q) + 1
      BY <1>4, <3>2, FS_AddElement
    <3>4. Copies(Current, r) = Copies(Current', r) + 1
      BY <2>1, <2>3, <2>6
    <3>5. Copies(Current', r) + Cardinality(Q \cup {i}) = Copies(initial, r) + Cardinality(P)
      BY <1>4, <2>3, <2>4, <3>3, <3>4
    <3>6. /\ \A j \in Requests("push", r) : IsServed(j) => j \in P
          /\ \A j \in Requests("pop", r) : IsServed(j) => j \in Q \cup {i}
      <4>1. \A j \in Requests("push", r) \cup Requests("pop", r) : j \in Ops
        BY DEF Requests
      <4>. QED  BY <2>3, <3>1, <4>1
    <3>7. PICK Q2 \in SUBSET Ops : Q2 = Q \cup {i}
      BY <3>3
    <3>8. /\ P \subseteq P /\ Q \subseteq Q2
          /\ \A j \in P \ P : j \in Requests("push", r) /\ phase'[j] = "served"
          /\ \A j \in Q2 \ Q : j \in Requests("pop", r) /\ phase'[j] = "served"
      BY <2>3, <3>1, <3>7
    <3>9. Balance(r, P, Q2)'
      BY <1>2, <1>3, <3>5, <3>6, <3>7, <3>8, Balanced
    <3>. QED  BY <3>9
  <2>. QED  BY <2>5, <2>6
<1>10. ASSUME NEW i \in Ops, ServePop(i), ~Contains(roots, op[i].root)
       PROVE  Balance(r, P, Q)'
  <2>1. ServeWith(i, << End >>, roots)
    BY <1>10, PopMissing
  <2>2. daemon = "up" /\ phase[i] = "sent" /\ op[i].kind = "pop"
    BY <1>10 DEF ServePop
  <2>3. /\ Current = roots /\ Current' = roots /\ \A j \in Ops : IsServed(j) => j = i
    BY <2>1, <2>2, EndAlone, OneServed
  <2>4. \A j \in Requests("push", r) : ~IsServed(j)
    BY <2>2, <2>3 DEF Requests
  <2>5. ASSUME Cardinality(Requests("pop", r)) <= Copies(initial, r),
               NEW j \in Requests("pop", r), IsServed(j)
        PROVE  FALSE
    <3>1. j = i /\ op[i].root = r
      BY <2>3, <2>5 DEF Requests
    <3>2. Copies(Current, r) = 0
      BY <1>10, <2>3, <3>1, CopiesType DEF Types
    <3>3. Requests("pop", r) \in SUBSET Ops /\ Q \in SUBSET Requests("pop", r)
      BY <1>2 DEF Requests, Balance
    <3>4. Q \in SUBSET (Requests("pop", r) \ {i})
      BY <1>4, <2>2, <3>3
    <3>5. IsFiniteSet(Requests("pop", r)) /\ Cardinality(Requests("pop", r)) \in Nat
      BY <3>3, RequestsFinite
    <3>6. /\ IsFiniteSet(Requests("pop", r) \ {i})
          /\ Cardinality(Requests("pop", r) \ {i}) = Cardinality(Requests("pop", r)) - 1
      BY <2>5, <3>1, <3>5, FS_RemoveElement
    <3>7. Cardinality(Q) <= Cardinality(Requests("pop", r) \ {i})
      BY <3>4, <3>6, FS_Subset
    <3>. QED  BY <1>4, <2>5, <3>2, <3>5, <3>6, <3>7
  <2>. QED  BY <1>5, <2>3, <2>4, <2>5
<1>. QED  BY <1>6, <1>7, <1>8, <1>9, <1>10

-----------------------------------------------------------------------------
(***************************************************************************)
(* What was read so far.                                                   *)
(***************************************************************************)
LEMMA ReadSoFarStep ==
    ASSUME Types, ReadSoFar, Next
    PROVE  ReadSoFar'
<1>1. CASE UNCHANGED download
  BY <1>1 DEF ReadSoFar
<1>2. CASE download' = [ download EXCEPT !.stage = "failed" ]
  <2>1. download'.stage = "failed"
    BY <1>2 DEF Types
  <2>. QED  BY <2>1 DEF ReadSoFar
<1>3. CASE /\ Candidates # {}
           /\ download' = [ stage |-> "reading", size |-> Size[findFirstValidFile],
                            got |-> << >>, sources |-> {findFirstValidFile} ]
  <2>1. Size[findFirstValidFile] \in Nat
    BY <1>3, FirstIsValid
  <2>2. /\ download'.stage = "reading" /\ download'.size = Size[findFirstValidFile]
        /\ download'.got = << >> /\ download'.sources = {findFirstValidFile}
    BY <1>3
  <2>3. Len(download'.got) = 0 /\ DOMAIN download'.got = {}
    BY <2>2
  <2>. QED  BY <2>1, <2>2, <2>3 DEF ReadSoFar
<1>4. ASSUME download.stage = "reading", Candidates # {},
             LET from == findFirstValidFile
                 n    == BytesToRead(Size[from], Len(download.got))
             IN  download' = [ download EXCEPT
                    !.stage   = IF n < ChunkSize THEN "done" ELSE @,
                    !.got     = @ \o [ k \in 1 .. n |-> from ],
                    !.sources = @ \cup {from} ]
      PROVE  ReadSoFar'
  <2>1. PICK from : from = findFirstValidFile
    OBVIOUS
  <2>2. from \in DOMAIN Size /\ from \in All /\ Size[from] \in Nat
    BY <1>4, <2>1, FirstIsValid
  <2>3. download.got \in Seq(All)
    BY DEF Types
  <2>4. PICK off \in Nat : off = Len(download.got)
    BY <2>3
  <2>5. PICK n : n = BytesToRead(Size[from], off)
    OBVIOUS
  <2>6. /\ n \in Nat
        /\ off <= Size[from] => off + n <= Size[from] /\ (n < ChunkSize => off + n = Size[from])
    BY <2>2, <2>5, BytesType
  <2>7. PICK more : more = [ k \in 1 .. n |-> from ]
    OBVIOUS
  <2>8. more \in Seq(All) /\ Len(more) = n /\ \A k \in 1 .. n : more[k] = from
    BY <2>2, <2>6, <2>7
  <2>9. download' = [ download EXCEPT !.stage = IF n < ChunkSize THEN "done" ELSE @,
                                      !.got = @ \o more, !.sources = @ \cup {from} ]
    BY <1>4, <2>1, <2>4, <2>5, <2>7
  <2>10. /\ download'.stage = IF n < ChunkSize THEN "done" ELSE "reading"
         /\ download'.got = download.got \o more /\ download'.sources = download.sources \cup {from}
         /\ download'.size = download.size
    BY <1>4, <2>9 DEF Types
  <2>11. /\ Len(download'.got) = off + n
         /\ \A k \in 1 .. off + n : download'.got[k] =
              IF k <= off THEN download.got[k] ELSE more[k - off]
         /\ DOMAIN download'.got = 1 .. off + n
    <3>1. PICK old \in Seq(All) : old = download.got
      BY <2>3
    <3>2. /\ Len(old \o more) = Len(old) + Len(more) /\ old \o more \in Seq(All)
          /\ \A k \in 1 .. Len(old) + Len(more) :
               (old \o more)[k] = IF k <= Len(old) THEN old[k] ELSE more[k - Len(old)]
      BY <2>8, ConcatProperties
    <3>3. DOMAIN (old \o more) = 1 .. Len(old \o more)
      BY <3>2
    <3>4. Len(old) = off /\ Len(more) = n /\ download'.got = old \o more
      BY <2>4, <2>8, <2>10, <3>1
    <3>. QED  BY <3>1, <3>2, <3>3, <3>4
  <2>12. download.sources # {}
    BY <1>4 DEF ReadSoFar
  <2>13. ASSUME NEW r \in DOMAIN Size, download'.sources = {r}
         PROVE  /\ download'.size = Size[r] /\ Len(download'.got) <= Size[r]
                /\ \A k \in DOMAIN download'.got : download'.got[k] = r
                /\ download'.stage = "done" => Len(download'.got) = Size[r]
    <3>1. from = r /\ download.sources = {r}
      BY <2>10, <2>12, <2>13
    <3>2. /\ download.size = Size[r] /\ off <= Size[r]
          /\ \A k \in DOMAIN download.got : download.got[k] = r
      BY <1>4, <2>4, <3>1 DEF ReadSoFar
    <3>3. off + n <= Size[r] /\ (n < ChunkSize => off + n = Size[r])
      BY <2>6, <3>1, <3>2
    <3>4. ASSUME NEW k \in DOMAIN download'.got PROVE download'.got[k] = r
      <4>1. k \in 1 .. off + n
        BY <2>11
      <4>2. CASE k <= off
        <5>1. k \in DOMAIN download.got
          BY <2>3, <2>4, <2>6, <4>1, <4>2
        <5>. QED  BY <2>11, <3>2, <4>1, <4>2, <5>1
      <4>3. CASE ~(k <= off)
        <5>1. k - off \in 1 .. n
          BY <2>4, <2>6, <4>1, <4>3
        <5>. QED  BY <2>8, <2>11, <3>1, <4>1, <4>3, <5>1
      <4>. QED  BY <4>2, <4>3
    <3>5. download'.stage = "done" => Len(download'.got) = Size[r]
      BY <2>10, <2>11, <3>3
    <3>. QED  BY <2>10, <2>11, <3>2, <3>3, <3>4, <3>5
  <2>14. download'.sources # {}
    BY <2>10
  <2>. QED  BY <2>13, <2>14 DEF ReadSoFar
<1>5. CASE serveGetInfoRequest \/ serveReadRequest \/ ReadTimeout
  <2>1. CASE serveGetInfoRequest
    BY <1>2, <1>3, <2>1 DEF serveGetInfoRequest
  <2>2. CASE serveReadRequest
    BY <1>2, <1>4, <2>2 DEF serveReadRequest, Asks
  <2>. QED  BY <1>2, <1>5, <2>1, <2>2 DEF ReadTimeout
<1>6. CASE Start \/ Exit \/ Crash
  BY <1>1, <1>6 DEF Start, Exit, Crash
<1>7. ASSUME NEW i \in Ops, NEW what \in {List} \cup PopOrPush, Submit(i, what)
      PROVE  UNCHANGED download
  BY <1>7 DEF Submit
<1>8. ASSUME NEW i \in Ops, ClientReceive(i) \/ ClientDisconnected(i)
      PROVE  UNCHANGED download
  BY <1>8 DEF ClientReceive, ClientDisconnected
<1>9. ASSUME NEW i \in Ops, ServeList(i) \/ ServePush(i) \/ ServePop(i) \/ ServePopUndefined(i)
      PROVE  UNCHANGED download
  BY <1>9 DEF ServeList, ServePush, ServePop, ServePopUndefined, ServeWith
<1>. QED  BY <1>1, <1>5, <1>6, <1>7, <1>8, <1>9, Cases

-----------------------------------------------------------------------------
(***************************************************************************)
(* The theorems.                                                           *)
(***************************************************************************)
LEMMA FileServerStutter ==
    ASSUME FileServerInv, UNCHANGED vars
    PROVE  FileServerInv'
<1> USE DEF vars, daemonVars, clientVars, historyVars
<1>1. Types' /\ Saved'
  BY DEF FileServerInv, Types, Saved
<1>2. Progress' /\ ReadSoFar'
  BY DEF FileServerInv, Progress, ProgressOf, ReadSoFar
<1>3. OneList'
  BY DEF FileServerInv, OneList, ToldOneList
<1>4. Counted'
  <2>1. /\ Current' = Current /\ initial' = initial /\ phase' = phase /\ (Clean' => Clean)
        /\ \A kind, r : Requests(kind, r)' = Requests(kind, r)
    BY DEF Current, Requests, Clean
  <2>2. \A i \in Ops : Told(i)' => Told(i)
    BY DEF Told
  <2>3. \A kind, r : Requests(kind, r) \subseteq Ops
    BY DEF Requests
  <2>4. ASSUME NEW r \in Roots, NEW P \in SUBSET Ops, NEW Q \in SUBSET Ops, Balance(r, P, Q)
        PROVE  Balance(r, P, Q)'
    BY <2>1, <2>2, <2>3, <2>4 DEF Balance
  <2>. QED  BY <2>1, <2>4 DEF FileServerInv, Counted
<1>. QED  BY <1>1, <1>2, <1>3, <1>4 DEF FileServerInv

LEMMA FileServerInit ==
    ASSUME Init
    PROVE  FileServerInv
<1> USE DEF Init
<1>1. initial \in Seq(All)
  BY FileServerAssumption DEF All
<1>2. file \in AllSettings /\ file.roots = initial /\ file.id = NoId /\ file.connections
  BY <1>1 DEF Settings, AllSettings, NoId
<1>3. Types
  <2>1. download \in [ stage : {"idle", "reading", "done", "failed"}, size : Nat, got : Seq(All),
                       sources : SUBSET All ]
    BY DEF NoDownload
  <2>2. /\ inbox \in [ Ops -> Seq(Messages) ] /\ items \in [ Ops -> Seq(All) ]
        /\ results \in [ Ops -> Seq(Outcomes) ]
    OBVIOUS
  <2>3. /\ op \in [ Ops -> {List} \cup PopOrPush ]
        /\ phase \in [ Ops -> {"new", "sent", "refused", "served", "cut", "closed"} ]
        /\ witnessed \in [ Ops -> SUBSET Seq(All) ]
    OBVIOUS
  <2>4. /\ daemon \in {"down", "up"} /\ roots \in Seq(All) /\ config \in AllSettings
        /\ config.roots = roots /\ kept \in Seq(All)
    BY <1>1, Empty
  <2>5. dirty \in BOOLEAN
    OBVIOUS
  <2>6. starts \in Nat /\ unique_id \in Int
    BY DEF NoId
  <2>. QED  BY <1>1, <1>2, <2>1, <2>2, <2>3, <2>4, <2>5, <2>6 DEF Types
<1>4. Saved
  BY <1>2 DEF Saved
<1>5. Progress
  BY DEF Progress, ProgressOf
<1>6. OneList
  <2>1. \A i \in Ops : inbox[i] = << >> /\ DOMAIN results[i] = {}
    OBVIOUS
  <2>. QED  BY <2>1 DEF OneList, ToldOneList
<1>7. Counted
  <2>1. SUFFICES ASSUME NEW r \in Roots PROVE Balance(r, {}, {})
    BY DEF Counted
  <2>2. \A i \in Ops : phase[i] = "new"
    OBVIOUS
  <2>3. Copies(Current, r) = Copies(initial, r) /\ Copies(initial, r) \in Nat
    BY <1>1, <1>2, CopiesType DEF Current
  <2>4. Cardinality({}) = 0
    BY FS_EmptySet
  <2>. QED  BY <2>2, <2>3, <2>4 DEF Balance, Requests
<1>8. ReadSoFar
  BY DEF ReadSoFar, NoDownload
<1>. QED  BY <1>3, <1>4, <1>5, <1>6, <1>7, <1>8 DEF FileServerInv

(***************************************************************************)
(* The invariant holds in every reachable state: the file server, its      *)
(* configuration and its clients agree as FileServerInv says, whatever is  *)
(* pushed, popped, listed and read, and whenever the daemon exits, crashes *)
(* or fails to write.                                                      *)
(***************************************************************************)
THEOREM FileServerInvariant == Spec => []FileServerInv
<1>1. Init => FileServerInv
  BY FileServerInit
<1>2. FileServerInv /\ [Next]_vars => FileServerInv'
  <2>1. SUFFICES ASSUME FileServerInv, Next PROVE FileServerInv'
    BY FileServerStutter
  <2>. QED  BY <2>1, TypesStep, SavedStep, ProgressStep, OneListStep, CountedStep, ReadSoFarStep
            DEF FileServerInv
<1>. QED  BY <1>1, <1>2, PTL DEF Spec

(***************************************************************************)
(* ListRoots (list_roots_service.cpp and its client) reports one list that *)
(* the daemon had while the request was under way, without the roots that  *)
(* are too long and in order: never a mixture of two lists.                *)
(***************************************************************************)
THEOREM ListsAreSnapshots == Spec => []ListIsSnapshot
<1>1. FileServerInv => ListIsSnapshot
  <2>1. SUFFICES ASSUME FileServerInv, NEW i \in Ops, NEW k \in DOMAIN results[i],
                        op[i].kind = "list", results[i][k].ok, i \notin lost
                 PROVE  \E rs \in witnessed[i] : ReportsOf(results[i][k].roots, rs)
    BY DEF ListIsSnapshot
  <2>2. PICK rs \in witnessed[i] : results[i][k].roots = Listed(rs)
    BY <2>1 DEF FileServerInv, OneList, ToldOneList
  <2>3. rs \in Seq(All)
    BY <2>1 DEF FileServerInv, Types
  <2>. QED  BY <2>2, <2>3, ListedReports
<1>. QED  BY <1>1, FileServerInvariant, PTL

LEMMA TypesImply == Types /\ Progress => TypeOK
  BY DEF Types, Progress, ProgressOf, TypeOK

(***************************************************************************)
(* "The same path may be added multiple times": each acknowledged push of  *)
(* a root adds one copy of it, each pop takes away one at most, and an     *)
(* acknowledged pop takes one when there are copies to spare; over orderly *)
(* restarts of the daemon too.                                             *)
(***************************************************************************)
THEOREM EveryCopyIsCounted == Spec => []CopiesAreCounted
<1>1. FileServerInv => CopiesAreCounted
  <2>1. SUFFICES ASSUME FileServerInv, Clean, NEW r \in Roots
                 PROVE  LET copies == Copies(Current, r)
                            before == Copies(initial, r)
                        IN  /\ copies >= before + Cardinality(Acknowledged("push", r))
                                                - Cardinality(Requests("pop", r))
                            /\ copies <= before + Cardinality(Requests("push", r))
                            /\ Cardinality(Requests("pop", r)) <= before =>
                                 copies <= before + Cardinality(Requests("push", r))
                                                  - Cardinality(Acknowledged("pop", r))
    BY TypesImply DEF FileServerInv, CopiesAreCounted, Clean, Current
  <2>2. PICK P, Q \in SUBSET Ops : Balance(r, P, Q)
    BY <2>1 DEF FileServerInv, Counted
  <2>3. \A i \in Ops : (\E k \in DOMAIN results[i] : results[i][k].ok) => Told(i)
    BY DEF Told
  <2>4. /\ Requests("push", r) \in SUBSET Ops /\ Requests("pop", r) \in SUBSET Ops
        /\ Acknowledged("push", r) \in SUBSET Ops /\ Acknowledged("pop", r) \in SUBSET Ops
    BY DEF Requests, Acknowledged
  <2>5. /\ P \in SUBSET Requests("push", r) /\ Q \in SUBSET Requests("pop", r)
        /\ Acknowledged("push", r) \in SUBSET P
    BY <2>2, <2>3, <2>4 DEF Balance, Acknowledged
  <2>6. Cardinality(Requests("pop", r)) <= Copies(initial, r) => Acknowledged("pop", r) \in SUBSET Q
    BY <2>2, <2>3, <2>4 DEF Balance, Acknowledged
  <2>7. /\ Cardinality(P) \in Nat /\ Cardinality(Q) \in Nat
        /\ Cardinality(Requests("push", r)) \in Nat /\ Cardinality(Requests("pop", r)) \in Nat
        /\ Cardinality(Acknowledged("push", r)) \in Nat /\ Cardinality(Acknowledged("pop", r)) \in Nat
        /\ IsFiniteSet(P) /\ IsFiniteSet(Q) /\ IsFiniteSet(Requests("push", r))
        /\ IsFiniteSet(Requests("pop", r))
    BY <2>4, RequestsFinite
  <2>8. /\ Cardinality(P) <= Cardinality(Requests("push", r))
        /\ Cardinality(Q) <= Cardinality(Requests("pop", r))
        /\ Cardinality(Acknowledged("push", r)) <= Cardinality(P)
    BY <2>5, <2>7, FS_Subset
  <2>9. Cardinality(Requests("pop", r)) <= Copies(initial, r) =>
          Cardinality(Acknowledged("pop", r)) <= Cardinality(Q)
    BY <2>6, <2>7, FS_Subset
  <2>10. Copies(initial, r) \in Nat /\ Copies(Current, r) \in Nat
    <3>1. initial \in Seq(All) /\ Current \in Seq(All)
      BY <2>1 DEF FileServerInv, Types, Current, AllSettings
    <3>. QED  BY <3>1, CopiesType
  <2>11. Copies(Current, r) + Cardinality(Q) = Copies(initial, r) + Cardinality(P)
    BY <2>2 DEF Balance
  <2>. QED  BY <2>7, <2>8, <2>9, <2>10, <2>11
<1>. QED  BY <1>1, FileServerInvariant, PTL

(***************************************************************************)
(* A node that downloads a file and only ever met the one under root r has *)
(* the whole of it at the end, with the size that GetInfo told.            *)
(***************************************************************************)
THEOREM DownloadsAreWhole == Spec => []DownloadIsWhole
<1>1. FileServerInv => DownloadIsWhole
  <2>1. SUFFICES ASSUME FileServerInv, download.stage = "done", NEW r \in DOMAIN Size,
                        download.sources = {r}
                 PROVE  download.got = [ k \in 1 .. Size[r] |-> r ] /\ download.size = Size[r]
    BY DEF DownloadIsWhole
  <2>2. /\ download.size = Size[r] /\ Len(download.got) = Size[r]
        /\ \A k \in DOMAIN download.got : download.got[k] = r
    BY <2>1 DEF FileServerInv, ReadSoFar
  <2>3. download.got \in Seq(All) /\ Size[r] \in Nat
    BY <2>1, FileServerAssumption DEF FileServerInv, Types
  <2>. QED  BY <2>2, <2>3
<1>. QED  BY <1>1, FileServerInvariant, PTL

(***************************************************************************)
(* A start of the daemon restores the roots of its last orderly exit, and  *)
(* the unique id of its first run stays, as long as the configuration file *)
(* could be written.                                                       *)
(***************************************************************************)
THEOREM RootsComeBack == Spec => RootsAreRestored
<1> DEFINE Restores == "disk" \notin mishaps' =>
                           /\ daemon = "down" /\ daemon' = "up" => roots' = kept
                           /\ unique_id # NoId => unique_id' = unique_id
<1>1. FileServerInv /\ [Next]_vars => [Restores]_vars
  BY RestoredStep DEF FileServerInv
<1>. QED  BY <1>1, FileServerInvariant, PTL DEF Spec, RootsAreRestored
=============================================================================
