---------------------------- MODULE History_proofs ----------------------------
(***************************************************************************)
(* Proofs about History, for every instance of its constants: its indexes  *)
(* agree with its entries after any calls, its limits always hold, and     *)
(* what readers see, what the warning names and what a record evicts       *)
(* follow from the entries.                                                *)
(***************************************************************************)
EXTENDS History, FiniteSetTheorems, WellFoundedInduction, TLAPS

(* What every call keeps true of a History.                                *)
Sound(g) ==
  /\ DOMAIN g.entries \subseteq Pairs
  /\ \A pair \in DOMAIN g.entries : g.entries[pair] \in Entry
  /\ g.refs \in [Listeners \X Sources -> Nat]
  /\ g.bytes \in Nat
  /\ Consistent(g)
  /\ IsFiniteSet(DOMAIN g.entries)
  /\ IsFiniteSet(Charge(g.entries, DOMAIN g.entries))

-----------------------------------------------------------------------------
(* Sets of entries.                                                        *)

(* A pair is a source and an event.                                        *)
LEMMA PairShape ==
  ASSUME NEW pair \in Pairs
  PROVE  pair = <<pair[1], pair[2]>> /\ pair[1] \in Sources /\ pair[2] \in Events
BY DEF Pairs

(* The cost of an entry is a number of bytes.                              *)
LEMMA CostType ==
  ASSUME NEW pair \in Pairs, NEW lid \in Ids
  PROVE  Cost(pair, lid) \in Nat
<1>1. SourceLen[pair[1]] \in Nat /\ EventLen[pair[2]] \in Nat
  BY PairShape, HistoryAssumption DEF HistoryAssumption
<1>2. lid # NoListener => ListenerLen[lid] \in Nat
  BY HistoryAssumption DEF HistoryAssumption, Ids
<1>3. QED
  BY <1>1, <1>2 DEF Cost

(* What some entries own or are charged, taken from what all own.          *)
LEMMA OwnedDifference ==
  ASSUME NEW f, NEW D, NEW G \in SUBSET D, NEW ls
  PROVE  /\ Owned(f, D \ G, ls) = Owned(f, D, ls) \ Owned(f, G, ls)
         /\ Owned(f, G, ls) \subseteq Owned(f, D, ls)
         /\ Owned(f, D, ls) \subseteq D
BY DEF Owned

(* Likewise for bytes.                                                     *)
LEMMA ChargeDifference ==
  ASSUME NEW f, NEW D, NEW G \in SUBSET D
  PROVE  /\ Charge(f, D \ G) = Charge(f, D) \ Charge(f, G)
         /\ Charge(f, G) \subseteq Charge(f, D)
<1> DEFINE C(p) == {p} \X (1 .. Cost(p, f[p].lid))
<1>1. \A K : Charge(f, K) = {x \in Charge(f, K) : TRUE}
             /\ \A x : x \in Charge(f, K) <=> \E p \in K : x \in C(p)
  BY DEF Charge
<1>2. \A p, x : x \in C(p) => x[1] = p
  OBVIOUS
<1> HIDE DEF C
<1>3. \A x : x \in Charge(f, D \ G) <=> x \in Charge(f, D) /\ x \notin Charge(f, G)
  BY <1>1, <1>2
<1>4. QED
  BY <1>1, <1>3

(* Removing part of a finite set, in numbers.                              *)
LEMMA DifferenceCount ==
  ASSUME NEW S, NEW T, IsFiniteSet(S), T \subseteq S
  PROVE  /\ IsFiniteSet(S \ T) /\ IsFiniteSet(T)
         /\ Cardinality(S \ T) = Cardinality(S) - Cardinality(T)
         /\ Cardinality(S) \in Nat /\ Cardinality(T) \in Nat
         /\ Cardinality(S \ T) \in Nat
<1>1. S \cap T = T
  OBVIOUS
<1>2. IsFiniteSet(T) /\ IsFiniteSet(S \ T)
  BY FS_Subset, FS_Difference
<1>3. QED
  BY <1>1, <1>2, FS_Difference, FS_CardinalityType

(* Adding an element adds at most one.                                     *)
LEMMA AddCount ==
  ASSUME NEW S, NEW x, IsFiniteSet(S)
  PROVE  /\ Cardinality(S \cup {x}) \in Nat
         /\ Cardinality(S \cup {x}) <= Cardinality(S) + 1
<1>1. Cardinality(S) \in Nat
  BY FS_CardinalityType
<1>2. Cardinality(S \cup {x}) =
        IF x \in S THEN Cardinality(S) ELSE Cardinality(S) + 1
  BY FS_AddElement
<1>3. QED
  BY <1>1, <1>2

(* Disjoint sets and tagged intervals, in numbers.                         *)
LEMMA DisjointCount ==
  ASSUME NEW S, NEW T, IsFiniteSet(S), IsFiniteSet(T), S \cap T = {}
  PROVE  /\ IsFiniteSet(S \cup T)
         /\ Cardinality(S \cup T) = Cardinality(S) + Cardinality(T)
<1>1. Cardinality(S \cap T) = 0
  BY FS_EmptySet
<1>2. Cardinality(S) \in Nat /\ Cardinality(T) \in Nat
  BY FS_CardinalityType
<1>3. Cardinality(S \cup T)
        = Cardinality(S) + Cardinality(T) - Cardinality(S \cap T)
  BY FS_Union
<1>4. IsFiniteSet(S \cup T)
  BY FS_Union
<1>5. QED
  BY <1>1, <1>2, <1>3, <1>4

(* {x} \X (1 .. n) has n elements.                                         *)
LEMMA TaggedCount ==
  ASSUME NEW x, NEW n \in Nat
  PROVE  IsFiniteSet({x} \X (1 .. n)) /\ Cardinality({x} \X (1 .. n)) = n
<1>1. IsFiniteSet(1 .. n) /\ Cardinality(1 .. n) = n
  <2>1. IsFiniteSet(1 .. n)
    BY FS_Interval
  <2>2. Cardinality(1 .. n) = IF 1 > n THEN 0 ELSE n - 1 + 1
    BY FS_Interval
  <2>3. QED
    BY <2>1, <2>2
<1>2. IsFiniteSet({x}) /\ Cardinality({x}) = 1
  BY FS_Singleton
<1>3. IsFiniteSet({x} \X (1 .. n))
  BY <1>1, <1>2, FS_Product
<1>4. Cardinality({x} \X (1 .. n)) = Cardinality({x}) * Cardinality(1 .. n)
  BY <1>1, <1>2, FS_Product
<1>5. 1 * n = n
  OBVIOUS
<1>6. QED
  BY <1>1, <1>2, <1>3, <1>4, <1>5

(* The expiry key of an entry tells its pair.                              *)
LEMMA KeyTellsPair ==
  ASSUME NEW f, NEW p \in Pairs
  PROVE  <<ExpiryKey(f, p)[2], ExpiryKey(f, p)[3]>> = p
BY PairShape DEF ExpiryKey

-----------------------------------------------------------------------------
(* remove.                                                                 *)

Gone(R) == {<<k[2], k[3]>> : k \in R}

(* Removals keep the indexes in step.                                      *)
LEMMA RemoveAllSound ==
  ASSUME NEW g, Sound(g), NEW R \in SUBSET g.expiry
  PROVE  /\ Sound(RemoveAll(g, R))
         /\ DOMAIN RemoveAll(g, R).entries = DOMAIN g.entries \ Gone(R)
         /\ RemoveAll(g, R).expiry = g.expiry \ R
         /\ RemoveAll(g, R).bytes =
              g.bytes - Cardinality(Charge(g.entries, Gone(R)))
<1> DEFINE D == DOMAIN g.entries
           G == Gone(R)
           r == RemoveAll(g, R)
<1>1. G \subseteq D /\ \A p \in D : p \in G <=> ExpiryKey(g.entries, p) \in R
  BY KeyTellsPair DEF Sound, Consistent, Gone
<1>2. /\ r.entries = [p \in D \ G |-> g.entries[p]]
      /\ r.refs = [ls \in Listeners \X Sources |->
                     g.refs[ls] - Cardinality(Owned(g.entries, G, ls))]
      /\ r.expiry = g.expiry \ R
      /\ r.bytes = g.bytes - Cardinality(Charge(g.entries, G))
  BY DEF RemoveAll, Gone
<1> HIDE DEF r, G
<1>3. DOMAIN r.entries = D \ G /\ \A p \in D \ G : r.entries[p] = g.entries[p]
  BY <1>2
<1>4. r.expiry = {ExpiryKey(r.entries, p) : p \in D \ G}
  <2>1. g.expiry = {ExpiryKey(g.entries, p) : p \in D}
    BY DEF Sound, Consistent
  <2>2. \A p \in D \ G : ExpiryKey(r.entries, p) = ExpiryKey(g.entries, p)
    BY <1>3 DEF ExpiryKey
  <2>3. \A p \in D \ G : ExpiryKey(r.entries, p) \in r.expiry
    BY <1>1, <1>2, <2>1, <2>2
  <2>4. \A k \in r.expiry : \E p \in D \ G : k = ExpiryKey(r.entries, p)
    BY <1>1, <1>2, <2>1, <2>2
  <2>5. QED
    BY <2>3, <2>4
<1>5. ASSUME NEW ls \in Listeners \X Sources
      PROVE  /\ r.refs[ls] = Cardinality(Owned(r.entries, D \ G, ls))
             /\ r.refs[ls] \in Nat
  <2>1. Owned(r.entries, D \ G, ls) = Owned(g.entries, D \ G, ls)
    BY <1>3 DEF Owned
  <2> DEFINE all == Owned(g.entries, D, ls)
             out == Owned(g.entries, G, ls)
  <2>2. IsFiniteSet(all)
    <3>1. all \in SUBSET D /\ IsFiniteSet(D)
      BY DEF Owned, Sound
    <3>2. QED
      BY <3>1, FS_Subset
  <2>3. g.refs[ls] = Cardinality(all)
    BY DEF Sound, Consistent
  <2>4. Owned(g.entries, D \ G, ls) = all \ out /\ out \subseteq all
    BY <1>1, OwnedDifference
  <2>5. r.refs[ls] = g.refs[ls] - Cardinality(out)
    BY <1>2
  <2> HIDE DEF all, out
  <2>6. Cardinality(all \ out) = Cardinality(all) - Cardinality(out)
        /\ Cardinality(all \ out) \in Nat
    BY <2>2, <2>4, DifferenceCount
  <2>7. QED
    BY <2>1, <2>3, <2>4, <2>5, <2>6
<1>6. /\ r.bytes = Cardinality(Charge(r.entries, D \ G)) /\ r.bytes \in Nat
      /\ IsFiniteSet(Charge(r.entries, D \ G))
  <2>1. Charge(r.entries, D \ G) = Charge(g.entries, D \ G)
    BY <1>3 DEF Charge
  <2> DEFINE all == Charge(g.entries, D)
             out == Charge(g.entries, G)
  <2>2. IsFiniteSet(all) /\ g.bytes = Cardinality(all)
    BY DEF Sound, Consistent
  <2>3. Charge(g.entries, D \ G) = all \ out /\ out \subseteq all
    BY <1>1, ChargeDifference
  <2>4. r.bytes = g.bytes - Cardinality(out)
    BY <1>2
  <2> HIDE DEF all, out
  <2>5. /\ Cardinality(all \ out) = Cardinality(all) - Cardinality(out)
        /\ Cardinality(all \ out) \in Nat
        /\ IsFiniteSet(all \ out)
    BY <2>2, <2>3, DifferenceCount
  <2>6. QED
    BY <2>1, <2>2, <2>3, <2>4, <2>5
<1>7. r.refs \in [Listeners \X Sources -> Nat]
  BY <1>2, <1>5
<1>8. IsFiniteSet(D \ G)
  BY FS_Difference DEF Sound
<1>9. \A p \in D \ G : p \in Pairs /\ r.entries[p] \in Entry
  BY <1>3 DEF Sound
<1>10. Sound(r)
  BY <1>3, <1>4, <1>5, <1>6, <1>7, <1>8, <1>9 DEF Sound, Consistent
<1>11. QED
  BY <1>2, <1>3, <1>10 DEF r, G

-----------------------------------------------------------------------------
(* Refreshing and inserting.                                               *)

(* So does a new value for an entry.                                       *)
LEMMA RefreshSound ==
  ASSUME NEW g, Sound(g), now \in Nat, NEW value \in Values,
         NEW pair \in DOMAIN g.entries, NEW f,
         \A p \in DOMAIN g.entries :
           f[p] = IF p = pair
                  THEN [value |-> value, seen |-> now, lid |-> g.entries[pair].lid]
                  ELSE g.entries[p],
         DOMAIN f = DOMAIN g.entries,
         NEW r,
         r = [entries |-> f, refs |-> g.refs, bytes |-> g.bytes,
              expiry |-> (g.expiry \ {ExpiryKey(g.entries, pair)})
                           \cup {<<now, pair[1], pair[2]>>}]
  PROVE  Sound(r)
<1> DEFINE D == DOMAIN g.entries
<1>1. \A p \in D : p \in Pairs /\ f[p] \in Entry /\ f[p].lid = g.entries[p].lid
  BY DEF Sound, Entry
<1>2. \A p \in D : p # pair => ExpiryKey(f, p) = ExpiryKey(g.entries, p)
  BY DEF ExpiryKey
<1>3. ExpiryKey(f, pair) = <<now, pair[1], pair[2]>>
  BY DEF ExpiryKey
<1>4. g.expiry = {ExpiryKey(g.entries, p) : p \in D}
  BY DEF Sound, Consistent
<1>5. \A p \in D : p # pair => ExpiryKey(g.entries, p) # ExpiryKey(g.entries, pair)
  BY <1>1, KeyTellsPair
<1>6. r.expiry = {ExpiryKey(f, p) : p \in D}
  <2>1. \A p \in D : ExpiryKey(f, p) \in r.expiry
    BY <1>2, <1>3, <1>4, <1>5
  <2>2. \A k \in r.expiry : \E p \in D : k = ExpiryKey(f, p)
    BY <1>2, <1>3, <1>4
  <2>3. QED
    BY <2>1, <2>2
<1>7. \A ls : Owned(f, D, ls) = Owned(g.entries, D, ls)
  BY <1>1 DEF Owned
<1>8. Charge(f, D) = Charge(g.entries, D)
  BY <1>1 DEF Charge
<1>9. QED
  BY <1>1, <1>6, <1>7, <1>8 DEF Sound, Consistent

(* So does a new entry.                                                    *)
LEMMA InsertSound ==
  ASSUME NEW g, Sound(g), now \in Nat, NEW value \in Values,
         NEW pair \in Pairs, pair \notin DOMAIN g.entries, NEW lid \in Ids
  PROVE  Sound(Insert(g, pair, lid, value))
<1> DEFINE D == DOMAIN g.entries
           r == Insert(g, pair, lid, value)
           f == r.entries
           bytes == {pair} \X (1 .. Cost(pair, lid))
<1>1. /\ DOMAIN f = D \cup {pair}
      /\ \A p \in D : f[p] = g.entries[p]
      /\ f[pair] = [value |-> value, seen |-> now, lid |-> lid]
      /\ r.refs = [ls \in Listeners \X Sources |->
                     g.refs[ls] + (IF ls = <<lid, pair[1]>> THEN 1 ELSE 0)]
      /\ r.expiry = g.expiry \cup {<<now, pair[1], pair[2]>>}
      /\ r.bytes = g.bytes + Cost(pair, lid)
  BY DEF Insert
<1> HIDE DEF r
<1>2. \A p \in D \cup {pair} : p \in Pairs /\ f[p] \in Entry
  BY <1>1 DEF Sound, Entry
<1>3. r.expiry = {ExpiryKey(f, p) : p \in D \cup {pair}}
  <2>1. g.expiry = {ExpiryKey(g.entries, p) : p \in D}
    BY DEF Sound, Consistent
  <2>2. \A p \in D : ExpiryKey(f, p) = ExpiryKey(g.entries, p)
    BY <1>1 DEF ExpiryKey
  <2>3. ExpiryKey(f, pair) = <<now, pair[1], pair[2]>>
    BY <1>1 DEF ExpiryKey
  <2>4. QED
    BY <1>1, <2>1, <2>2, <2>3
<1>4. ASSUME NEW ls \in Listeners \X Sources
      PROVE  /\ r.refs[ls] = Cardinality(Owned(f, D \cup {pair}, ls))
             /\ r.refs[ls] \in Nat
  <2> DEFINE old == Owned(g.entries, D, ls)
  <2>1. old \in SUBSET D /\ IsFiniteSet(D)
    BY DEF Owned, Sound
  <2>2. IsFiniteSet(old) /\ pair \notin old
    BY <2>1, FS_Subset
  <2>3. Owned(f, D \cup {pair}, ls) =
          IF ls = <<lid, pair[1]>> THEN old \cup {pair} ELSE old
    <3>1. ls = <<ls[1], ls[2]>>
      OBVIOUS
    <3>2. QED
      BY <1>1, <3>1 DEF Owned
  <2>4. g.refs[ls] = Cardinality(old) /\ g.refs[ls] \in Nat
    BY DEF Sound, Consistent
  <2>5. r.refs[ls] = g.refs[ls] + (IF ls = <<lid, pair[1]>> THEN 1 ELSE 0)
    BY <1>1
  <2> HIDE DEF old
  <2>6. Cardinality(old \cup {pair}) = Cardinality(old) + 1
    BY <2>2, FS_AddElement
  <2>7. QED
    BY <2>3, <2>4, <2>5, <2>6
<1>5. /\ r.bytes = Cardinality(Charge(f, D \cup {pair})) /\ r.bytes \in Nat
      /\ IsFiniteSet(Charge(f, D \cup {pair}))
  <2> DEFINE old == Charge(g.entries, D)
  <2>1. Charge(f, D \cup {pair}) = old \cup bytes
    BY <1>1 DEF Charge
  <2>2. old \cap bytes = {}
    BY DEF Charge
  <2>3. IsFiniteSet(old) /\ g.bytes = Cardinality(old) /\ g.bytes \in Nat
    BY DEF Sound, Consistent
  <2>4. Cost(pair, lid) \in Nat
    BY CostType
  <2>5. IsFiniteSet(bytes) /\ Cardinality(bytes) = Cost(pair, lid)
    BY <2>4, TaggedCount
  <2>6. r.bytes = g.bytes + Cost(pair, lid)
    BY <1>1
  <2> HIDE DEF old, bytes
  <2>7. /\ IsFiniteSet(old \cup bytes)
        /\ Cardinality(old \cup bytes) = Cardinality(old) + Cardinality(bytes)
    BY <2>2, <2>3, <2>5, DisjointCount
  <2>8. r.bytes = Cardinality(old \cup bytes) /\ r.bytes \in Nat
    BY <2>3, <2>4, <2>5, <2>6, <2>7
  <2>9. QED
    BY <2>1, <2>7, <2>8
<1>6. r.refs \in [Listeners \X Sources -> Nat]
  BY <1>1, <1>4
<1>7. IsFiniteSet(D \cup {pair})
  BY FS_AddElement DEF Sound
<1>8. Sound(r)
  BY <1>1, <1>2, <1>3, <1>4, <1>5, <1>6, <1>7 DEF Sound, Consistent
<1>9. QED
  BY <1>8 DEF r

-----------------------------------------------------------------------------
(* The loop around remove_oldest makes the room it is asked for.           *)

(* A set of naturals has a least element.                                  *)
LEMMA LeastNatural ==
  ASSUME NEW T \in SUBSET Nat, T # {}
  PROVE  \E x \in T : \A y \in T : x <= y
<1> DEFINE R == {ss \in Nat \X Nat : ss[1] < ss[2]}
<1>1. IsWellFoundedOn(R, Nat)
  BY NatLessThanWellFounded DEF OpToRel
<1>2. \A x, y \in Nat : <<y, x>> \in R <=> y < x
  OBVIOUS
<1> HIDE DEF R
<1>3. PICK x \in T : \A y \in T : <<y, x>> \notin R
  BY <1>1, WFMin
<1>4. ASSUME NEW y \in T
      PROVE  x <= y
  <2>1. x \in Nat /\ y \in Nat
    OBVIOUS
  <2>2. ~(y < x)
    BY <1>2, <1>3, <2>1
  <2>3. QED
    BY <2>1, <2>2
<1>5. QED
  BY <1>4

(* Any set of expiry keys has one that comes first.                        *)
LEMMA FirstKey ==
  ASSUME NEW T \in SUBSET (Nat \X Nat \X Nat), T # {}
  PROVE  \E k \in T : \A j \in T : ~Before(j, k)
<1>1. \A k \in T : k[1] \in Nat /\ k[2] \in Nat /\ k[3] \in Nat
  OBVIOUS
<1>2. PICK a \in {k[1] : k \in T} : \A y \in {k[1] : k \in T} : a <= y
  <2>1. {k[1] : k \in T} \in SUBSET Nat /\ {k[1] : k \in T} # {}
    BY <1>1
  <2>2. QED
    BY <2>1, LeastNatural
<1> DEFINE A == {k \in T : k[1] = a}
<1>3. PICK b \in {k[2] : k \in A} : \A y \in {k[2] : k \in A} : b <= y
  <2>1. {k[2] : k \in A} \in SUBSET Nat /\ {k[2] : k \in A} # {}
    BY <1>1, <1>2
  <2>2. QED
    BY <2>1, LeastNatural
<1> DEFINE B == {k \in A : k[2] = b}
<1>4. PICK c \in {k[3] : k \in B} : \A y \in {k[3] : k \in B} : c <= y
  <2>1. {k[3] : k \in B} \in SUBSET Nat /\ {k[3] : k \in B} # {}
    BY <1>1, <1>3
  <2>2. QED
    BY <2>1, LeastNatural
<1>5. PICK k \in T : k[1] = a /\ k[2] = b /\ k[3] = c
  BY <1>4
<1>6. ASSUME NEW j \in T
      PROVE  ~Before(j, k)
  <2>1. a <= j[1] /\ (j[1] = a => b <= j[2])
        /\ (j[1] = a /\ j[2] = b => c <= j[3])
    BY <1>2, <1>3, <1>4
  <2>2. QED
    BY <1>1, <1>5, <2>1 DEF Before
<1>7. QED
  BY <1>6

(* There are as many expiry keys as entries.                               *)
LEMMA ExpiryFinite ==
  ASSUME NEW g, Sound(g)
  PROVE  /\ IsFiniteSet(g.expiry)
         /\ g.expiry \subseteq Nat \X Sources \X Events
<1> DEFINE D == DOMAIN g.entries
           key == [p \in D |-> ExpiryKey(g.entries, p)]
<1>1. g.expiry = {ExpiryKey(g.entries, p) : p \in D}
  BY DEF Sound, Consistent
<1>2. key \in Surjection(D, g.expiry)
  BY <1>1 DEF Surjection
<1>3. \A p \in D : ExpiryKey(g.entries, p) \in Nat \X Sources \X Events
  BY PairShape DEF Sound, Entry, ExpiryKey
<1>4. IsFiniteSet(g.expiry)
  BY <1>2, FS_Surjection DEF Sound
<1>5. QED
  BY <1>1, <1>3, <1>4

(* More removals leave more room.                                          *)
LEMMA FitsMonotone ==
  ASSUME NEW g, Sound(g), NEW cost \in Nat,
         NEW S \in SUBSET g.expiry, NEW R \in SUBSET S,
         Fits(RemoveAll(g, R), cost)
  PROVE  Fits(RemoveAll(g, S), cost)
<1> DEFINE r == RemoveAll(g, R)
           s == RemoveAll(g, S)
<1>1. /\ Sound(r) /\ Sound(s)
      /\ r.expiry = g.expiry \ R /\ s.expiry = g.expiry \ S
      /\ r.bytes = g.bytes - Cardinality(Charge(g.entries, Gone(R)))
      /\ s.bytes = g.bytes - Cardinality(Charge(g.entries, Gone(S)))
      /\ DOMAIN s.entries \subseteq DOMAIN r.entries
  <2>1. Gone(R) \subseteq Gone(S)
    BY DEF Gone
  <2>2. R \in SUBSET g.expiry
    OBVIOUS
  <2>3. QED
    BY <2>1, <2>2, RemoveAllSound
<1>2. Cardinality(s.expiry) <= Cardinality(r.expiry)
      /\ Cardinality(s.expiry) \in Nat /\ Cardinality(r.expiry) \in Nat
  <2>1. s.expiry \in SUBSET r.expiry
    BY <1>1
  <2>2. IsFiniteSet(r.expiry) /\ IsFiniteSet(s.expiry)
    BY <1>1, ExpiryFinite
  <2>3. QED
    BY <2>1, <2>2, FS_Subset, FS_CardinalityType
<1>3. s.bytes <= r.bytes
  <2> DEFINE all == Charge(g.entries, DOMAIN g.entries)
             out == Charge(g.entries, Gone(S))
             less == Charge(g.entries, Gone(R))
  <2>1. Gone(R) \subseteq Gone(S)
    BY DEF Gone
  <2>2. less \in SUBSET out
    BY <2>1 DEF Charge
  <2>3. Gone(S) \subseteq DOMAIN g.entries
    BY KeyTellsPair DEF Gone, Sound, Consistent
  <2>4. out \in SUBSET all
    BY <2>3 DEF Charge
  <2>5. IsFiniteSet(all)
    BY DEF Sound
  <2> HIDE DEF all, out, less
  <2>6. IsFiniteSet(out) /\ IsFiniteSet(less)
    BY <2>2, <2>4, <2>5, FS_Subset
  <2>7. Cardinality(less) <= Cardinality(out)
        /\ Cardinality(less) \in Nat /\ Cardinality(out) \in Nat
    BY <2>2, <2>6, FS_Subset, FS_CardinalityType
  <2>8. g.bytes \in Nat
    BY DEF Sound
  <2>9. QED
    BY <1>1, <2>7, <2>8 DEF less, out
<1>4. Cardinality(r.expiry) < MaxEntries /\ r.bytes + cost <= MaxBytes
  BY DEF Fits
<1>5. r.bytes \in Nat /\ s.bytes \in Nat
  BY <1>1 DEF Sound
<1>6. MaxEntries \in Nat /\ MaxBytes \in Nat
  BY HistoryAssumption DEF HistoryAssumption
<1> HIDE DEF r, s
<1>7. Cardinality(s.expiry) < MaxEntries /\ s.bytes + cost <= MaxBytes
  BY <1>2, <1>3, <1>4, <1>5, <1>6
<1>8. QED
  BY <1>7 DEF Fits, s

(* Without entries everything fits that is not oversized.                  *)
LEMMA EmptyFits ==
  ASSUME NEW g, Sound(g), NEW cost \in Nat, cost <= MaxBytes, g.expiry = {}
  PROVE  Fits(g, cost)
<1>1. DOMAIN g.entries = {}
  BY DEF Sound, Consistent
<1>2. Charge(g.entries, DOMAIN g.entries) = {}
  BY <1>1 DEF Charge
<1>3. g.bytes = 0
  BY <1>2, FS_EmptySet DEF Sound, Consistent
<1>4. Cardinality(g.expiry) = 0
  BY FS_EmptySet
<1>5. QED
  BY <1>3, <1>4, HistoryAssumption DEF Fits, HistoryAssumption

(* What is left after the loop has room for the new entry.                 *)
LEMMA MakeRoomFits ==
  ASSUME NEW g, Sound(g), NEW cost \in Nat, cost <= MaxBytes
  PROVE  /\ Sound(MakeRoom(g, cost))
         /\ DOMAIN MakeRoom(g, cost).entries \subseteq DOMAIN g.entries
         /\ Fits(MakeRoom(g, cost), cost)
<1> DEFINE older(k) == {j \in g.expiry : Before(j, k)}
           out == {k \in g.expiry : ~Fits(RemoveAll(g, older(k)), cost)}
<1>1. MakeRoom(g, cost) = RemoveAll(g, out) /\ out \in SUBSET g.expiry
  BY DEF MakeRoom
<1>2. /\ Sound(RemoveAll(g, out))
      /\ DOMAIN RemoveAll(g, out).entries \subseteq DOMAIN g.entries
      /\ RemoveAll(g, out).expiry = g.expiry \ out
  <2> HIDE DEF out
  <2>1. QED
    BY <1>1, RemoveAllSound
<1>3. CASE g.expiry \ out = {}
  BY <1>1, <1>2, <1>3, EmptyFits
<1>4. CASE g.expiry \ out # {}
  <2>1. PICK k \in g.expiry \ out : \A j \in g.expiry \ out : ~Before(j, k)
    <3> HIDE DEF out
    <3>1. g.expiry \ out \in SUBSET (Nat \X Nat \X Nat)
      <4>1. Nat \X Sources \X Events \subseteq Nat \X Nat \X Nat
        BY HistoryAssumption DEF HistoryAssumption
      <4>2. g.expiry \subseteq Nat \X Sources \X Events
        BY ExpiryFinite
      <4>3. QED
        BY <4>1, <4>2
    <3>2. QED
      BY <1>4, <3>1, FirstKey
  <2>2. older(k) \in SUBSET out
    BY <2>1
  <2>3. Fits(RemoveAll(g, older(k)), cost)
    BY <2>1
  <2>4. Fits(RemoveAll(g, out), cost)
    BY <1>1, <2>2, <2>3, FitsMonotone
  <2>5. QED
    BY <1>1, <1>2, <2>4
<1>5. QED
  BY <1>3, <1>4

-----------------------------------------------------------------------------
(* The limits.                                                             *)

Within(g) == Cardinality(g.expiry) <= MaxEntries /\ g.bytes <= MaxBytes

(* Removals keep the limits.                                               *)
LEMMA RemoveAllWithin ==
  ASSUME NEW g, Sound(g), Within(g), NEW R \in SUBSET g.expiry
  PROVE  Sound(RemoveAll(g, R)) /\ Within(RemoveAll(g, R))
<1> DEFINE r == RemoveAll(g, R)
           out == Charge(g.entries, Gone(R))
<1>1. Sound(r) /\ r.expiry = g.expiry \ R /\ r.bytes = g.bytes - Cardinality(out)
  BY RemoveAllSound
<1>2. IsFiniteSet(g.expiry)
  BY ExpiryFinite
<1>3. Cardinality(g.expiry \ R) = Cardinality(g.expiry) - Cardinality(R)
      /\ Cardinality(R) \in Nat /\ Cardinality(g.expiry) \in Nat
  BY <1>2, DifferenceCount
<1>4. Cardinality(out) \in Nat
  <2>1. Gone(R) \subseteq DOMAIN g.entries
    BY KeyTellsPair DEF Gone, Sound, Consistent
  <2>2. out \in SUBSET Charge(g.entries, DOMAIN g.entries)
    BY <2>1 DEF Charge
  <2>3. IsFiniteSet(Charge(g.entries, DOMAIN g.entries))
    BY DEF Sound
  <2> HIDE DEF out
  <2>4. QED
    BY <2>2, <2>3, FS_Subset, FS_CardinalityType
<1>5. g.bytes \in Nat /\ MaxEntries \in Nat /\ MaxBytes \in Nat
  BY HistoryAssumption DEF HistoryAssumption, Sound
<1> HIDE DEF r, out
<1>6. Within(r)
  BY <1>1, <1>3, <1>4, <1>5 DEF Within
<1>7. QED
  BY <1>1, <1>6 DEF r

-----------------------------------------------------------------------------
(* What each action preserves.                                             *)

HInv == /\ TypeOK
        /\ Sound(h)
        /\ WithinLimits

(* The part of TypeOK that is not about h follows at once.                 *)
LEMMA HInvParts ==
  ASSUME now \in Nat, last.warned \subseteq Sources, Sound(h), Within(h)
  PROVE  HInv
<1>1. h.expiry \subseteq Nat \X Sources \X Events
  BY ExpiryFinite
<1>2. QED
  BY <1>1 DEF HInv, TypeOK, Sound, Within, WithinLimits

(* The same after a step.                                                  *)
LEMMA HInvAfter ==
  ASSUME now' \in Nat, last'.warned \subseteq Sources, Sound(h'), Within(h')
  PROVE  HInv'
<1>1. h'.expiry \subseteq Nat \X Sources \X Events
  BY ExpiryFinite
<1>2. QED
  BY <1>1 DEF HInv, TypeOK, Sound, Within, WithinLimits

(* The initial state.                                                      *)
LEMMA InitHInv == Init => HInv
<1> SUFFICES ASSUME Init PROVE HInv
  OBVIOUS
<1>1. /\ DOMAIN h.entries = {} /\ h.expiry = {} /\ h.bytes = 0
      /\ h.refs = [ls \in Listeners \X Sources |-> 0]
  BY DEF Init, EmptyHistory
<1>2. Charge(h.entries, DOMAIN h.entries) = {}
      /\ \A ls : Owned(h.entries, DOMAIN h.entries, ls) = {}
  BY <1>1 DEF Charge, Owned
<1>3. Consistent(h)
  BY <1>1, <1>2, FS_EmptySet DEF Consistent
<1>4. Sound(h)
  BY <1>1, <1>2, <1>3, FS_EmptySet DEF Sound
<1>5. Within(h)
  BY <1>1, FS_EmptySet, HistoryAssumption DEF Within, HistoryAssumption
<1>6. now \in Nat /\ last.warned \subseteq Sources
  BY DEF Init
<1>7. QED
  BY <1>4, <1>5, <1>6, HInvParts

(* A sweep removes what it finds in the expiry order.                      *)
LEMMA SweptSound ==
  ASSUME HInv
  PROVE  Sound(Swept) /\ Within(Swept)
<1>1. Expired(now) \in SUBSET h.expiry
  BY DEF Expired
<1>2. Sound(h) /\ Within(h)
  BY DEF HInv, WithinLimits, Within
<1>3. QED
  BY <1>1, <1>2, RemoveAllWithin DEF Swept

(* record, for an entry of the same listener.                              *)
LEMMA KnownKeeps ==
  ASSUME HInv, NEW pair \in Pairs, NEW lid \in Ids, NEW value \in Values,
         RecordKnown(pair, lid, value)
  PROVE  HInv'
<1> DEFINE g == Swept
           key == ExpiryKey(g.entries, pair)
           new == <<now, pair[1], pair[2]>>
<1>1. Sound(g) /\ Within(g) /\ pair \in DOMAIN g.entries
  BY SweptSound DEF RecordKnown
<1>2. now \in Nat
  BY DEF HInv, TypeOK
<1>3. g = [entries |-> g.entries, refs |-> g.refs, expiry |-> g.expiry,
           bytes |-> g.bytes]
      /\ g.entries = [p \in DOMAIN g.entries |-> g.entries[p]]
  BY DEF Swept, RemoveAll
<1>4. h' = Refresh(g, pair, value)
  BY DEF RecordKnown
<1> HIDE DEF g
<1>5. g.entries[pair] \in Entry
  BY <1>1 DEF Sound
<1>6. PICK f : f = [g.entries EXCEPT ![pair].value = value, ![pair].seen = now]
  OBVIOUS
<1>7. /\ DOMAIN f = DOMAIN g.entries
      /\ \A p \in DOMAIN g.entries :
           f[p] = IF p = pair
                  THEN [value |-> value, seen |-> now, lid |-> g.entries[pair].lid]
                  ELSE g.entries[p]
  <2>1. g.entries[pair] = [value |-> g.entries[pair].value,
                           seen |-> g.entries[pair].seen,
                           lid |-> g.entries[pair].lid]
    BY <1>5 DEF Entry
  <2> DEFINE e == [g.entries[pair] EXCEPT !.value = value]
             n == [e EXCEPT !.seen = now]
  <2>2. n = [value |-> value, seen |-> now, lid |-> g.entries[pair].lid]
    <3>1. e = [value |-> value, seen |-> g.entries[pair].seen,
               lid |-> g.entries[pair].lid]
      BY <2>1
    <3> HIDE DEF e
    <3>2. QED
      BY <3>1
  <2>3. f = [[g.entries EXCEPT ![pair] = e] EXCEPT ![pair] = n]
    BY <1>1, <1>3, <1>6
  <2> HIDE DEF n, e
  <2>4. QED
    BY <1>1, <1>3, <2>2, <2>3
<1>8. h' = [entries |-> f, refs |-> g.refs, bytes |-> g.bytes,
            expiry |-> (g.expiry \ {key}) \cup {new}]
  BY <1>3, <1>4, <1>6 DEF Refresh
<1>9. Sound(h')
  BY <1>1, <1>2, <1>7, <1>8, RefreshSound
<1>10. Within(h')
  <2>1. key \in g.expiry /\ IsFiniteSet(g.expiry)
    BY <1>1, ExpiryFinite DEF Sound, Consistent
  <2> HIDE DEF key, new
  <2>2. IsFiniteSet(g.expiry \ {key})
        /\ Cardinality(g.expiry \ {key}) = Cardinality(g.expiry) - 1
    BY <2>1, FS_RemoveElement
  <2>3. Cardinality((g.expiry \ {key}) \cup {new})
          <= Cardinality(g.expiry \ {key}) + 1
        /\ Cardinality((g.expiry \ {key}) \cup {new}) \in Nat
    BY <2>2, AddCount
  <2>4. Cardinality(g.expiry) \in Nat
    BY <2>1, FS_CardinalityType
  <2>5. h'.expiry = (g.expiry \ {key}) \cup {new} /\ h'.bytes = g.bytes
    BY <1>8
  <2>6. MaxEntries \in Nat
    BY HistoryAssumption DEF HistoryAssumption
  <2>7. QED
    BY <1>1, <2>2, <2>3, <2>4, <2>5, <2>6 DEF Within
<1>11. now' \in Nat /\ last'.warned \subseteq Sources
  BY <1>2 DEF RecordKnown
<1>12. QED
  BY <1>9, <1>10, <1>11, HInvAfter

(* An entry that changes listener is removed first.                        *)
LEMMA VacatedSound ==
  ASSUME HInv, NEW pair \in Pairs
  PROVE  /\ Sound(Vacated(pair)) /\ Within(Vacated(pair))
         /\ pair \notin DOMAIN Vacated(pair).entries
<1> DEFINE g == Swept
           R == {ExpiryKey(g.entries, p) : p \in {pair} \cap DOMAIN g.entries}
<1>1. Sound(g) /\ Within(g)
  BY SweptSound
<1>2. Vacated(pair) = RemoveAll(g, R)
  BY DEF Vacated
<1> HIDE DEF g
<1>3. R \in SUBSET g.expiry
  BY <1>1 DEF Sound, Consistent
<1>4. pair \in DOMAIN g.entries => pair \in Gone(R)
  BY KeyTellsPair DEF Gone
<1> HIDE DEF R
<1>5. QED
  BY <1>1, <1>2, <1>3, <1>4, RemoveAllSound, RemoveAllWithin

(* record, for an entry longer than the limit.                             *)
LEMMA OversizedKeeps ==
  ASSUME HInv, NEW pair \in Pairs, NEW lid \in Ids, RecordOversized(pair, lid)
  PROVE  HInv'
<1>1. Sound(h') /\ Within(h')
  BY VacatedSound DEF RecordOversized
<1>2. now' \in Nat /\ last'.warned \subseteq Sources
  BY DEF RecordOversized, HInv, TypeOK
<1>3. QED
  BY <1>1, <1>2, HInvAfter

(* record, for a new entry.                                                *)
LEMMA NewKeeps ==
  ASSUME HInv, NEW pair \in Pairs, NEW lid \in Ids, NEW value \in Values,
         RecordNew(pair, lid, value)
  PROVE  HInv'
<1> DEFINE cost == Cost(pair, lid)
           g == MakeRoom(Vacated(pair), cost)
<1>1. cost \in Nat /\ cost <= MaxBytes /\ now \in Nat
  BY CostType DEF RecordNew, HInv, TypeOK
<1>2. Sound(g) /\ Fits(g, cost) /\ pair \notin DOMAIN g.entries
  <2> HIDE DEF cost
  <2>1. QED
    BY <1>1, VacatedSound, MakeRoomFits
<1>3. h' = Insert(g, pair, lid, value)
  BY DEF RecordNew
<1> HIDE DEF g
<1>4. Sound(h')
  BY <1>1, <1>2, <1>3, InsertSound
<1>5. Within(h')
  <2>1. h'.expiry = g.expiry \cup {<<now, pair[1], pair[2]>>}
        /\ h'.bytes = g.bytes + cost
    BY <1>3 DEF Insert
  <2>2. IsFiniteSet(g.expiry) /\ Cardinality(g.expiry) \in Nat
    BY <1>2, ExpiryFinite, FS_CardinalityType
  <2>3. Cardinality(h'.expiry) \in Nat
        /\ Cardinality(h'.expiry) <= Cardinality(g.expiry) + 1
    BY <2>1, <2>2, AddCount
  <2>4. Cardinality(g.expiry) < MaxEntries /\ g.bytes + cost <= MaxBytes
    BY <1>2 DEF Fits
  <2>5. MaxEntries \in Nat
    BY HistoryAssumption DEF HistoryAssumption
  <2> HIDE DEF cost
  <2>6. QED
    BY <2>1, <2>2, <2>3, <2>4, <2>5 DEF Within
<1>6. now' \in Nat /\ last'.warned \subseteq Sources
  <2>1. Warning(h', pair, lid) \subseteq Sources
    BY DEF Warning, SourcesOf
  <2>2. last'.warned = Warning(h', pair, lid)
    BY DEF RecordNew
  <2>3. QED
    BY <1>1, <2>1, <2>2 DEF RecordNew
<1>7. QED
  BY <1>4, <1>5, <1>6, HInvAfter

(* Every step preserves HInv.                                              *)
LEMMA NextHInv == HInv /\ [Next]_vars => HInv'
<1> SUFFICES ASSUME HInv, [Next]_vars PROVE HInv'
  OBVIOUS
<1>1. now \in Nat /\ last.warned \subseteq Sources /\ Sound(h) /\ Within(h)
  BY DEF HInv, TypeOK, WithinLimits, Within
<1>2. CASE \E pair \in Pairs, lid \in Ids, value \in Values :
             Record(pair, lid, value)
  BY <1>2, KnownKeeps, OversizedKeeps, NewKeeps DEF Record
<1>3. CASE Query
  <2>1. Sound(h') /\ Within(h')
    BY <1>3, SweptSound DEF Query
  <2>2. QED
    BY <1>1, <1>3, <2>1, HInvAfter DEF Query
<1>4. CASE Elapse
  BY <1>1, <1>4, HInvAfter DEF Elapse
<1>5. CASE UNCHANGED vars
  BY <1>1, <1>5, HInvAfter DEF vars
<1>6. QED
  BY <1>2, <1>3, <1>4, <1>5 DEF Next

(* HInv is an invariant.                                                   *)
LEMMA Invariance == Spec => []HInv
BY InitHInv, NextHInv, PTL DEF Spec

-----------------------------------------------------------------------------
(* TypeOK always holds.                                                    *)
THEOREM TypeCorrect == Spec => []TypeOK
<1>1. HInv => TypeOK
  BY DEF HInv
<1>2. QED
  BY <1>1, Invariance, PTL

(* After any calls, expiry order, reference counts and byte account are    *)
(* those of the entries: remove finds what it looks for, the eviction loop *)
(* ends, the duplicate warning counts right.                               *)
THEOREM IndexesCorrect == Spec => []IndexesAgree
<1>1. HInv => IndexesAgree
  BY DEF HInv, Sound, IndexesAgree
<1>2. QED
  BY <1>1, Invariance, PTL

(* The history never holds more entries or bytes than its limits.          *)
THEOREM LimitsCorrect == Spec => []WithinLimits
<1>1. HInv => WithinLimits
  BY DEF HInv
<1>2. QED
  BY <1>1, Invariance, PTL

-----------------------------------------------------------------------------
(* What a sweep leaves.                                                    *)

(* Removals leave the other entries as they are.                           *)
LEMMA RemoveAllEntries ==
  ASSUME NEW g, Sound(g), NEW R \in SUBSET g.expiry
  PROVE  /\ DOMAIN RemoveAll(g, R).entries
              = {p \in DOMAIN g.entries : ExpiryKey(g.entries, p) \notin R}
         /\ \A p \in DOMAIN RemoveAll(g, R).entries :
              RemoveAll(g, R).entries[p] = g.entries[p]
<1>1. \A p \in DOMAIN g.entries : p \in Gone(R) <=> ExpiryKey(g.entries, p) \in R
  BY KeyTellsPair DEF Sound, Consistent, Gone
<1>2. RemoveAll(g, R).entries = [p \in DOMAIN g.entries \ Gone(R) |-> g.entries[p]]
  BY DEF RemoveAll, Gone
<1>3. QED
  BY <1>1, <1>2

(* A sweep leaves the entries younger than the TTL.                        *)
LEMMA SweptEntries ==
  ASSUME HInv
  PROVE  /\ DOMAIN Swept.entries
              = {p \in DOMAIN h.entries : ExpiryKey(h.entries, p) \notin Expired(now)}
         /\ DOMAIN Swept.entries
              = {p \in DOMAIN h.entries : now - h.entries[p].seen < TTL}
         /\ \A p \in DOMAIN Swept.entries : Swept.entries[p] = h.entries[p]
<1>1. Expired(now) \in SUBSET h.expiry /\ Sound(h)
  BY DEF Expired, HInv
<1>2. \A p \in DOMAIN h.entries :
        ExpiryKey(h.entries, p) \notin Expired(now) <=> now - h.entries[p].seen < TTL
  <2> TAKE p \in DOMAIN h.entries
  <2>1. ExpiryKey(h.entries, p) \in h.expiry
    BY DEF HInv, Sound, Consistent
  <2>2. ExpiryKey(h.entries, p)[1] = h.entries[p].seen
    BY DEF ExpiryKey
  <2>3. now \in Nat /\ h.entries[p].seen \in Nat /\ TTL \in Nat
    BY HistoryAssumption DEF HistoryAssumption, HInv, TypeOK, Entry
  <2>4. QED
    BY <2>1, <2>2, <2>3 DEF Expired
<1>3. QED
  BY <1>1, <1>2, RemoveAllEntries DEF Swept

(* A pair that loses its entry to another listener is all that goes.       *)
LEMMA VacatedEntries ==
  ASSUME HInv, NEW pair \in Pairs
  PROVE  /\ DOMAIN Vacated(pair).entries = DOMAIN Swept.entries \ {pair}
         /\ \A p \in DOMAIN Vacated(pair).entries :
              Vacated(pair).entries[p] = h.entries[p]
<1> DEFINE g == Swept
           R == {ExpiryKey(g.entries, p) : p \in {pair} \cap DOMAIN g.entries}
<1>1. Sound(g) /\ \A p \in DOMAIN g.entries : g.entries[p] = h.entries[p]
  BY SweptSound, SweptEntries
<1>2. Vacated(pair) = RemoveAll(g, R)
  BY DEF Vacated
<1> HIDE DEF g
<1>3. R \in SUBSET g.expiry
  BY <1>1 DEF Sound, Consistent
<1>4. \A p \in DOMAIN g.entries : ExpiryKey(g.entries, p) \in R <=> p = pair
  BY <1>1, KeyTellsPair DEF Sound
<1> HIDE DEF R
<1>5. /\ DOMAIN Vacated(pair).entries
           = {p \in DOMAIN g.entries : ExpiryKey(g.entries, p) \notin R}
      /\ \A p \in DOMAIN Vacated(pair).entries :
           Vacated(pair).entries[p] = g.entries[p]
  BY <1>1, <1>2, <1>3, RemoveAllEntries
<1>6. QED
  BY <1>1, <1>4, <1>5 DEF g

(* get, which filters by age, and query, which evicts, agree on what is    *)
(* there, at the very end of the TTL too.                                  *)
THEOREM ReadersSeeTheSame == Spec => ReadersAgree
<1>1. HInv /\ Query => DOMAIN h'.entries = {pair \in Pairs : Sees(pair)}
  <2> SUFFICES ASSUME HInv, Query
               PROVE  DOMAIN h'.entries = {pair \in Pairs : Sees(pair)}
    OBVIOUS
  <2>1. DOMAIN h'.entries = {p \in DOMAIN h.entries : now - h.entries[p].seen < TTL}
    BY SweptEntries DEF Query
  <2>2. DOMAIN h.entries \subseteq Pairs
    BY DEF HInv, TypeOK
  <2>3. QED
    BY <2>1, <2>2 DEF Sees
<1>2. HInv /\ [Next]_vars =>
        [Query => DOMAIN h'.entries = {pair \in Pairs : Sees(pair)}]_vars
  BY <1>1
<1>3. QED
  BY <1>2, Invariance, PTL DEF Spec, ReadersAgree

-----------------------------------------------------------------------------
(* The duplicate warning.                                                  *)

(* The entries of a listener, and those of one of its sources.             *)
Mine(g, lid) == {p \in DOMAIN g.entries : g.entries[p].lid = lid}
OwnedBy(g, lid, s) == {p \in DOMAIN g.entries : g.entries[p].lid = lid /\ p[1] = s}

(* The sources a record of pair is to warn about, from the entries alone.  *)
ToWarn(g, pair, lid) ==
  LET fed == {p[1] : p \in Mine(g, lid)}
  IN IF /\ lid # NoListener /\ Cardinality(fed) > 1
        /\ \A p \in Mine(g, lid) \ {pair} : p[1] # pair[1]
     THEN fed ELSE {}

(* A listener and a source are counted by their entries.                   *)
LEMMA CountedSource ==
  ASSUME NEW g, Sound(g), NEW lid \in Listeners, NEW s \in Sources
  PROVE  /\ g.refs[<<lid, s>>] \in Nat
         /\ g.refs[<<lid, s>>] > 0 <=> OwnedBy(g, lid, s) # {}
         /\ \A p \in OwnedBy(g, lid, s) :
              g.refs[<<lid, s>>] = 1 <=> OwnedBy(g, lid, s) = {p}
<1> DEFINE owned == OwnedBy(g, lid, s)
<1>1. Owned(g.entries, DOMAIN g.entries, <<lid, s>>) = owned
  BY DEF Owned, OwnedBy
<1>2. g.refs[<<lid, s>>] = Cardinality(owned)
  BY <1>1 DEF Sound, Consistent
<1>3. IsFiniteSet(owned)
  <2>1. owned \in SUBSET DOMAIN g.entries
    BY DEF OwnedBy
  <2>2. QED
    BY <2>1, FS_Subset DEF Sound
<1> HIDE DEF owned
<1>4. Cardinality(owned) \in Nat
  BY <1>3, FS_CardinalityType
<1>5. Cardinality(owned) = 0 <=> owned = {}
  BY <1>3, FS_EmptySet
<1>6. ASSUME NEW p \in owned
      PROVE  Cardinality(owned) = 1 <=> owned = {p}
  <2>1. Cardinality({p}) = 1
    BY FS_Singleton
  <2>2. {p} \in SUBSET owned
    OBVIOUS
  <2>3. Cardinality(owned) = Cardinality({p}) => owned = {p}
    BY <1>3, <2>2, FS_Subset
  <2>4. QED
    BY <2>1, <2>3
<1>7. QED
  BY <1>2, <1>4, <1>5, <1>6 DEF owned

(* The warning in terms of the entries.                                    *)
LEMMA WarningMeaning ==
  ASSUME NEW g, Sound(g), NEW pair \in DOMAIN g.entries, NEW lid \in Ids,
         g.entries[pair].lid = lid
  PROVE  Warning(g, pair, lid) = ToWarn(g, pair, lid)
<1> DEFINE mine == Mine(g, lid)
           fed  == {p[1] : p \in mine}
           owned(s) == OwnedBy(g, lid, s)
<1>1. CASE lid = NoListener
  BY <1>1 DEF Warning, ToWarn
<1>2. CASE lid # NoListener
  <2>1. lid \in Listeners
    BY <1>2 DEF Ids
  <2>2. \A p \in DOMAIN g.entries : p \in Pairs /\ p[1] \in Sources
    BY PairShape DEF Sound
  <2>3. SourcesOf(g, lid) = fed
    <3>1. \A s \in Sources : g.refs[<<lid, s>>] > 0 <=> owned(s) # {}
      BY <2>1, CountedSource
    <3>2. \A s \in Sources : owned(s) # {} <=> s \in fed
      BY DEF OwnedBy, Mine
    <3>3. fed \subseteq Sources
      BY <2>2 DEF Mine
    <3> HIDE DEF fed, owned
    <3>4. QED
      BY <3>1, <3>2, <3>3 DEF SourcesOf
  <2>4. g.refs[<<lid, pair[1]>>] = 1 <=> owned(pair[1]) = {pair}
    <3>1. pair \in owned(pair[1]) /\ pair[1] \in Sources
      BY <2>2 DEF OwnedBy
    <3>2. QED
      BY <2>1, <3>1, CountedSource
  <2>5. owned(pair[1]) = {pair} <=> \A p \in mine \ {pair} : p[1] # pair[1]
    BY DEF OwnedBy, Mine
  <2> HIDE DEF owned, fed, mine
  <2>6. /\ Warning(g, pair, lid) =
             IF Cardinality(fed) > 1 /\ \A p \in mine \ {pair} : p[1] # pair[1]
             THEN fed ELSE {}
        /\ ToWarn(g, pair, lid) =
             IF Cardinality(fed) > 1 /\ \A p \in mine \ {pair} : p[1] # pair[1]
             THEN fed ELSE {}
    <3>1. Warning(g, pair, lid) =
            IF Cardinality(fed) > 1 /\ \A p \in mine \ {pair} : p[1] # pair[1]
            THEN fed ELSE {}
      BY <1>2, <2>3, <2>4, <2>5 DEF Warning
    <3>2. ToWarn(g, pair, lid) =
            IF Cardinality(fed) > 1 /\ \A p \in mine \ {pair} : p[1] # pair[1]
            THEN fed ELSE {}
      BY <1>2 DEF ToWarn, fed, mine
    <3>3. QED
      BY <3>1, <3>2
  <2>7. QED
    BY <2>6
<1>3. QED
  BY <1>1, <1>2

(* The duplicate warning is given when a source joins a listener that      *)
(* other sources feed, names the sources whose entries are there after the *)
(* evictions, and is not repeated while the source stays.                  *)
THEOREM WarnsOfNewcomers == Spec => WarnsWhenASourceJoins
<1> DEFINE A(pair, lid, value) ==
             RecordNew(pair, lid, value) =>
               LET mine == {p \in DOMAIN h'.entries : h'.entries[p].lid = lid}
                   fed  == {p[1] : p \in mine}
               IN last'.warned =
                    IF /\ lid # NoListener /\ Cardinality(fed) > 1
                       /\ \A p \in mine \ {pair} : p[1] # pair[1]
                    THEN fed ELSE {}
<1>1. ASSUME HInv, NEW pair \in Pairs, NEW lid \in Ids, NEW value \in Values,
             RecordNew(pair, lid, value)
      PROVE  A(pair, lid, value)
  <2>1. Sound(h')
    <3>1. HInv'
      BY <1>1, NewKeeps
    <3>2. QED
      BY <3>1 DEF HInv, Sound, Consistent
  <2>2. pair \in DOMAIN h'.entries /\ h'.entries[pair].lid = lid
    BY <1>1 DEF RecordNew, Insert
  <2>3. last'.warned = Warning(h', pair, lid)
    BY <1>1 DEF RecordNew
  <2>4. QED
    <3>1. last'.warned = ToWarn(h', pair, lid)
      BY <2>1, <2>2, <2>3, WarningMeaning
    <3>2. QED
      BY <3>1, Zenon DEF ToWarn, Mine
<1>2. HInv /\ [Next]_vars =>
        [\A pair \in Pairs, lid \in Ids, value \in Values : A(pair, lid, value)]_vars
  <2> HIDE DEF A
  <2>1. HInv => \A pair \in Pairs, lid \in Ids, value \in Values :
                  RecordNew(pair, lid, value) => A(pair, lid, value)
    BY <1>1
  <2>2. \A pair \in Pairs, lid \in Ids, value \in Values :
          ~RecordNew(pair, lid, value) => A(pair, lid, value)
    BY DEF A
  <2>3. QED
    BY <2>1, <2>2
<1>3. QED
  BY <1>2, Invariance, PTL DEF Spec, WarnsWhenASourceJoins

-----------------------------------------------------------------------------
(* What the loop around remove_oldest takes.                               *)

(* The order of the expiry keys is transitive and total.                   *)
LEMMA BeforeOrders ==
  ASSUME NEW i \in Nat \X Nat \X Nat, NEW j \in Nat \X Nat \X Nat,
         NEW k \in Nat \X Nat \X Nat
  PROVE  /\ Before(i, j) /\ Before(j, k) => Before(i, k)
         /\ ~Before(i, i)
         /\ Before(i, j) \/ i = j \/ Before(j, i)
<1>1. \A x \in {i, j, k} : x[1] \in Nat /\ x[2] \in Nat /\ x[3] \in Nat
                           /\ x = <<x[1], x[2], x[3]>>
  OBVIOUS
<1>2. Before(i, j) /\ Before(j, k) => Before(i, k)
  BY <1>1 DEF Before
<1>3. ~Before(i, i)
  BY <1>1 DEF Before
<1>4. Before(i, j) \/ i = j \/ Before(j, i)
  BY <1>1 DEF Before
<1>5. QED
  BY <1>2, <1>3, <1>4

(* The keys before k, and the keys the loop takes to make room for cost.   *)
Older(g, k) == {j \in g.expiry : Before(j, k)}
Taken(g, cost) == {k \in g.expiry : ~Fits(RemoveAll(g, Older(g, k)), cost)}

(* An expiry key is three numbers.                                         *)
LEMMA KeyNumbers ==
  ASSUME NEW g, Sound(g)
  PROVE  \A i \in g.expiry : i \in Nat \X Nat \X Nat
<1>1. g.expiry \subseteq Nat \X Sources \X Events
  BY ExpiryFinite
<1>2. Nat \X Sources \X Events \subseteq Nat \X Nat \X Nat
  BY HistoryAssumption DEF HistoryAssumption
<1>3. QED
  BY <1>1, <1>2

(* What is before a key is before every later key.                         *)
LEMMA OlderGrows ==
  ASSUME NEW g, Sound(g), NEW j \in g.expiry, NEW k \in g.expiry, Before(j, k)
  PROVE  /\ Older(g, j) \in SUBSET Older(g, k)
         /\ j \in Older(g, k) /\ j \notin Older(g, j)
<1>1. \A i \in g.expiry : i \in Nat \X Nat \X Nat
  BY KeyNumbers
<1>2. QED
  BY <1>1, BeforeOrders DEF Older

(* The loop takes the keys from the front.                                 *)
LEMMA TakenFromTheFront ==
  ASSUME NEW g, Sound(g), NEW cost \in Nat,
         NEW k \in Taken(g, cost), NEW j \in g.expiry, Before(j, k)
  PROVE  j \in Taken(g, cost)
<1>1. k \in g.expiry /\ ~Fits(RemoveAll(g, Older(g, k)), cost)
  BY DEF Taken
<1>2. Older(g, j) \in SUBSET Older(g, k)
  BY <1>1, OlderGrows
<1>3. Older(g, k) \in SUBSET g.expiry
  BY DEF Older
<1>4. ~Fits(RemoveAll(g, Older(g, j)), cost)
  BY <1>1, <1>2, <1>3, FitsMonotone
<1>5. QED
  BY <1>4 DEF Taken

(* The last key that is taken, all others being before it.                 *)
LEMMA LastTaken ==
  ASSUME NEW g, Sound(g), NEW cost \in Nat, Taken(g, cost) # {}
  PROVE  \E k \in Taken(g, cost) :
           /\ \A j \in Taken(g, cost) : ~Before(k, j)
           /\ Older(g, k) = Taken(g, cost) \ {k}
<1> DEFINE T == Taken(g, cost)
           n(k) == Cardinality(Older(g, k))
           all == Cardinality(g.expiry)
<1>1. T \in SUBSET g.expiry /\ IsFiniteSet(g.expiry)
  BY ExpiryFinite DEF Taken
<1>2. \A k \in T : /\ Older(g, k) \in SUBSET g.expiry /\ IsFiniteSet(Older(g, k))
                   /\ n(k) \in Nat /\ all \in Nat /\ n(k) <= all
  <2> SUFFICES ASSUME NEW k \in T
               PROVE  /\ Older(g, k) \in SUBSET g.expiry /\ IsFiniteSet(Older(g, k))
                      /\ n(k) \in Nat /\ all \in Nat /\ n(k) <= all
    OBVIOUS
  <2>1. Older(g, k) \in SUBSET g.expiry
    BY DEF Older
  <2>2. QED
    BY <1>1, <2>1, FS_Subset, FS_CardinalityType
<1> HIDE DEF T, n, all
<1>3. PICK x \in {all - n(k) : k \in T} : \A y \in {all - n(k) : k \in T} : x <= y
  <2>1. {all - n(k) : k \in T} \in SUBSET Nat
    BY <1>2
  <2>2. {all - n(k) : k \in T} # {}
    BY DEF T
  <2>3. QED
    BY <2>1, <2>2, LeastNatural
<1>4. PICK k \in T : x = all - n(k)
  BY <1>3
<1>5. \A j \in T : n(j) <= n(k)
  BY <1>2, <1>3, <1>4
<1>6. ASSUME NEW j \in T, Before(k, j)
      PROVE  FALSE
  <2>1. Older(g, k) \in SUBSET Older(g, j) /\ k \in Older(g, j) /\ k \notin Older(g, k)
    BY <1>1, <1>6, OlderGrows
  <2>2. n(k) <= n(j) /\ (n(k) = n(j) => Older(g, k) = Older(g, j))
    BY <1>2, <2>1, FS_Subset DEF n
  <2>3. n(k) = n(j)
    BY <1>2, <1>5, <2>2
  <2>4. QED
    BY <2>1, <2>2, <2>3
<1>7. \A i \in g.expiry : i \in Nat \X Nat \X Nat
  BY KeyNumbers
<1>8. Older(g, k) = T \ {k}
  <2>1. \A j \in T \ {k} : j \in Older(g, k)
    BY <1>1, <1>6, <1>7, BeforeOrders DEF Older
  <2>2. \A j \in Older(g, k) : j \in T /\ j # k
    <3>1. \A j \in Older(g, k) : j \in g.expiry /\ Before(j, k)
      BY DEF Older
    <3>2. \A j \in Older(g, k) : j # k
      BY <1>7, <3>1, BeforeOrders
    <3>3. QED
      BY <3>1, <3>2, TakenFromTheFront DEF T
  <2>3. QED
    BY <2>1, <2>2
<1>9. QED
  BY <1>6, <1>8 DEF T

(* What is charged for one entry more.                                     *)
LEMMA OneMore ==
  ASSUME NEW g, Sound(g), NEW R \in SUBSET g.expiry, NEW q \in DOMAIN g.entries,
         ExpiryKey(g.entries, q) \in R
  PROVE  LET less == RemoveAll(g, R \ {ExpiryKey(g.entries, q)})
         IN /\ less.bytes = RemoveAll(g, R).bytes + Cost(q, g.entries[q].lid)
            /\ Cardinality(less.expiry) = Cardinality(RemoveAll(g, R).expiry) + 1
<1> DEFINE key == ExpiryKey(g.entries, q)
           S == R \ {key}
           r == RemoveAll(g, R)
           s == RemoveAll(g, S)
           D == DOMAIN r.entries
<1>1. /\ Sound(r) /\ Sound(s)
      /\ r.expiry = g.expiry \ R /\ s.expiry = g.expiry \ S
  BY RemoveAllSound
<1>2. /\ D = {p \in DOMAIN g.entries : ExpiryKey(g.entries, p) \notin R}
      /\ \A p \in D : r.entries[p] = g.entries[p]
  BY RemoveAllEntries
<1>3. /\ DOMAIN s.entries = {p \in DOMAIN g.entries : ExpiryKey(g.entries, p) \notin S}
      /\ \A p \in DOMAIN s.entries : s.entries[p] = g.entries[p]
  <2> HIDE DEF S
  <2>1. S \in SUBSET g.expiry
    BY DEF S
  <2>2. QED
    BY <2>1, RemoveAllEntries
<1>4. \A p \in DOMAIN g.entries : ExpiryKey(g.entries, p) = key => p = q
  BY KeyTellsPair DEF Sound
<1>5. DOMAIN s.entries = D \cup {q} /\ q \notin D
  <2> HIDE DEF r, s, D, key
  <2>1. QED
    BY <1>2, <1>3, <1>4 DEF key
<1>6. /\ s.bytes = Cardinality(Charge(s.entries, D \cup {q}))
      /\ r.bytes = Cardinality(Charge(r.entries, D))
      /\ IsFiniteSet(Charge(r.entries, D))
  BY <1>1, <1>5 DEF Sound, Consistent
<1>7. q \in Pairs /\ g.entries[q].lid \in Ids
  BY DEF Sound, Entry
<1>8. Cost(q, g.entries[q].lid) \in Nat
  BY <1>7, CostType
<1> DEFINE bytes == {q} \X (1 .. Cost(q, g.entries[q].lid))
<1>9. Charge(s.entries, D \cup {q}) = Charge(r.entries, D) \cup bytes
      /\ Charge(r.entries, D) \cap bytes = {}
  <2> HIDE DEF r, s, D
  <2>1. \A p \in D : s.entries[p] = r.entries[p]
    BY <1>2, <1>3, <1>5
  <2>2. s.entries[q] = g.entries[q]
    BY <1>3, <1>5
  <2>3. Charge(s.entries, D \cup {q}) = Charge(r.entries, D) \cup bytes
    BY <2>1, <2>2 DEF Charge
  <2>4. Charge(r.entries, D) \cap bytes = {}
    BY <1>5 DEF Charge
  <2>5. QED
    BY <2>3, <2>4
<1>10. IsFiniteSet(bytes) /\ Cardinality(bytes) = Cost(q, g.entries[q].lid)
  BY <1>8, TaggedCount
<1>11. s.bytes = r.bytes + Cost(q, g.entries[q].lid)
  <2> HIDE DEF r, s, D, bytes
  <2>1. Cardinality(Charge(r.entries, D) \cup bytes)
          = Cardinality(Charge(r.entries, D)) + Cardinality(bytes)
    BY <1>6, <1>9, <1>10, DisjointCount
  <2>2. QED
    BY <1>6, <1>9, <1>10, <2>1
<1>12. Cardinality(s.expiry) = Cardinality(r.expiry) + 1
  <2> HIDE DEF S
  <2>1. key \in g.expiry /\ key \in R
    OBVIOUS
  <2> HIDE DEF r, s, D, key
  <2>2. s.expiry = r.expiry \cup {key} /\ key \notin r.expiry
    BY <1>1, <2>1 DEF S
  <2>3. IsFiniteSet(r.expiry)
    BY <1>1, ExpiryFinite
  <2>4. QED
    BY <2>2, <2>3, FS_AddElement
<1>13. QED
  BY <1>11, <1>12

(* What RecordNew loses for room, in terms of the loop.                    *)
LEMMA LostForRoom ==
  ASSUME HInv, NEW pair \in Pairs, NEW lid \in Ids, NEW value \in Values,
         RecordNew(pair, lid, value),
         NEW g, g = Vacated(pair), NEW out, out = Taken(g, Cost(pair, lid))
  PROVE  /\ Sound(g) /\ out \in SUBSET g.expiry /\ Cost(pair, lid) \in Nat
         /\ last'.pair = pair
         /\ \A p \in DOMAIN g.entries :
              /\ p \in DOMAIN h.entries /\ p # pair /\ g.entries[p] = h.entries[p]
              /\ ExpiryKey(g.entries, p) = ExpiryKey(h.entries, p)
              /\ p \in DOMAIN h'.entries <=> ExpiryKey(h.entries, p) \notin out
         /\ \A p \in DOMAIN h.entries :
              p \in DOMAIN g.entries
                <=> p # pair /\ ExpiryKey(h.entries, p) \notin Expired(now)
         /\ DOMAIN h'.entries \subseteq DOMAIN g.entries \cup {pair}
         /\ h'.bytes = RemoveAll(g, out).bytes + Cost(pair, lid)
         /\ Cardinality(h'.expiry) = Cardinality(RemoveAll(g, out).expiry) + 1
<1> DEFINE cost == Cost(pair, lid)
           r == RemoveAll(g, out)
<1>1. Sound(g) /\ out \in SUBSET g.expiry /\ cost \in Nat
  BY VacatedSound, CostType DEF Taken
<1>2. r = MakeRoom(g, cost)
  BY DEF MakeRoom, Taken, Older
<1>3. h' = Insert(r, pair, lid, value) /\ last'.pair = pair
  BY <1>2 DEF RecordNew
<1>4. /\ Sound(r)
      /\ DOMAIN r.entries = {p \in DOMAIN g.entries : ExpiryKey(g.entries, p) \notin out}
  BY <1>1, RemoveAllSound, RemoveAllEntries
<1>5. DOMAIN h.entries \subseteq Pairs
  BY DEF HInv, TypeOK
<1>6. \A p \in DOMAIN g.entries :
        /\ p \in DOMAIN h.entries /\ p # pair /\ g.entries[p] = h.entries[p]
        /\ ExpiryKey(g.entries, p) = ExpiryKey(h.entries, p)
  BY VacatedEntries, SweptEntries DEF ExpiryKey
<1>7. \A p \in DOMAIN h.entries :
        p \in DOMAIN g.entries
          <=> p # pair /\ ExpiryKey(h.entries, p) \notin Expired(now)
  BY VacatedEntries, SweptEntries
<1> HIDE DEF r, cost
<1>8. /\ DOMAIN h'.entries = DOMAIN r.entries \cup {pair}
      /\ h'.bytes = r.bytes + cost
      /\ h'.expiry = r.expiry \cup {<<now, pair[1], pair[2]>>}
  BY <1>3 DEF Insert, cost
<1>9. Cardinality(h'.expiry) = Cardinality(r.expiry) + 1
  <2>1. pair \notin DOMAIN r.entries
    BY <1>4, <1>6
  <2>2. <<now, pair[1], pair[2]>> \notin r.expiry
    <3>1. \A p \in DOMAIN r.entries : p \in Pairs
      BY <1>4 DEF Sound
    <3>2. \A p \in DOMAIN r.entries :
            <<ExpiryKey(r.entries, p)[2], ExpiryKey(r.entries, p)[3]>> = p
      BY <3>1, KeyTellsPair
    <3>3. r.expiry = {ExpiryKey(r.entries, p) : p \in DOMAIN r.entries}
      BY <1>4 DEF Sound, Consistent
    <3>4. pair = <<pair[1], pair[2]>>
      BY PairShape
    <3>5. SUFFICES ASSUME NEW p \in DOMAIN r.entries,
                          ExpiryKey(r.entries, p) = <<now, pair[1], pair[2]>>
                   PROVE  FALSE
      BY <3>3
    <3>6. p = <<pair[1], pair[2]>>
      BY <3>2, <3>5
    <3>7. QED
      BY <2>1, <3>4, <3>6
  <2>3. IsFiniteSet(r.expiry)
    BY <1>4, ExpiryFinite
  <2>4. PICK x : x = <<now, pair[1], pair[2]>>
    OBVIOUS
  <2>5. Cardinality(r.expiry \cup {x}) = Cardinality(r.expiry) + 1
    <3>1. x \notin r.expiry
      BY <2>2, <2>4
    <3>2. QED
      BY <2>3, <3>1, FS_AddElement
  <2>6. h'.expiry = r.expiry \cup {x}
    BY <1>8, <2>4
  <2>7. QED
    BY <2>5, <2>6
<1>10. \A p \in DOMAIN g.entries :
         p \in DOMAIN h'.entries <=> ExpiryKey(h.entries, p) \notin out
  BY <1>4, <1>6, <1>8
<1>11. DOMAIN h'.entries \subseteq DOMAIN g.entries \cup {pair}
  BY <1>4, <1>8
<1>12. QED
  BY <1>1, <1>3, <1>6, <1>7, <1>8, <1>9, <1>10, <1>11 DEF r, cost

(* The entries lost for room, and those that stay.                         *)
Lost == {pair \in DOMAIN h.entries \ DOMAIN h'.entries :
           /\ pair # last'.pair
           /\ ExpiryKey(h.entries, pair) \notin Expired(now)}
Stays == (DOMAIN h.entries \cap DOMAIN h'.entries) \ {last'.pair}

OldestForRoom ==
  /\ \A pair \in Lost, q \in Stays : h.entries[pair].seen <= h.entries[q].seen
  /\ Lost # {} =>
       \/ Cardinality(h'.expiry) + 1 > MaxEntries
       \/ \E q \in Lost :
            /\ \A r \in Lost : h.entries[r].seen <= h.entries[q].seen
            /\ h'.bytes + Cost(q, h.entries[q].lid) > MaxBytes

(* The time of an entry is the first part of its key.                      *)
LEMMA SeenOrder ==
  ASSUME HInv, NEW p \in DOMAIN h.entries, NEW q \in DOMAIN h.entries,
         ~Before(ExpiryKey(h.entries, q), ExpiryKey(h.entries, p))
  PROVE  h.entries[p].seen <= h.entries[q].seen
<1>1. h.entries[p].seen \in Nat /\ h.entries[q].seen \in Nat
  BY DEF HInv, TypeOK, Entry
<1>2. /\ ExpiryKey(h.entries, p)[1] = h.entries[p].seen
      /\ ExpiryKey(h.entries, q)[1] = h.entries[q].seen
  BY DEF ExpiryKey
<1>3. QED
  BY <1>1, <1>2 DEF Before

(* A record of a new entry.                                                *)
LEMMA NewTakesOldest ==
  ASSUME HInv, NEW pair \in Pairs, NEW lid \in Ids, NEW value \in Values,
         RecordNew(pair, lid, value)
  PROVE  OldestForRoom
<1> DEFINE g == Vacated(pair)
           cost == Cost(pair, lid)
           out == Taken(g, cost)
<1>1. /\ Sound(g) /\ out \in SUBSET g.expiry /\ cost \in Nat /\ last'.pair = pair
      /\ \A p \in DOMAIN g.entries :
           /\ p \in DOMAIN h.entries /\ p # pair /\ g.entries[p] = h.entries[p]
           /\ ExpiryKey(g.entries, p) = ExpiryKey(h.entries, p)
           /\ p \in DOMAIN h'.entries <=> ExpiryKey(h.entries, p) \notin out
      /\ \A p \in DOMAIN h.entries :
           p \in DOMAIN g.entries
             <=> p # pair /\ ExpiryKey(h.entries, p) \notin Expired(now)
      /\ DOMAIN h'.entries \subseteq DOMAIN g.entries \cup {pair}
      /\ h'.bytes = RemoveAll(g, out).bytes + cost
      /\ Cardinality(h'.expiry) = Cardinality(RemoveAll(g, out).expiry) + 1
  BY LostForRoom
<1>2. out = Taken(g, cost)
  OBVIOUS
<1> HIDE DEF g, cost, out
<1>3. g.expiry = {ExpiryKey(h.entries, p) : p \in DOMAIN g.entries}
  <2>1. g.expiry = {ExpiryKey(g.entries, p) : p \in DOMAIN g.entries}
    BY <1>1 DEF Sound, Consistent
  <2>2. \A p \in DOMAIN g.entries : ExpiryKey(g.entries, p) = ExpiryKey(h.entries, p)
    BY <1>1
  <2>3. QED
    BY <2>1, <2>2
<1>4. Lost = {p \in DOMAIN g.entries : ExpiryKey(h.entries, p) \in out}
  BY <1>1 DEF Lost
<1>5. \A q \in Stays : q \in DOMAIN g.entries /\ ExpiryKey(h.entries, q) \notin out
  BY <1>1 DEF Stays
<1>6. ASSUME NEW p \in Lost, NEW q \in Stays
      PROVE  h.entries[p].seen <= h.entries[q].seen
  <2>1. /\ p \in DOMAIN h.entries /\ q \in DOMAIN h.entries
        /\ ExpiryKey(h.entries, p) \in out /\ ExpiryKey(h.entries, q) \notin out
        /\ ExpiryKey(h.entries, q) \in g.expiry
    BY <1>1, <1>3, <1>4, <1>5
  <2>2. ~Before(ExpiryKey(h.entries, q), ExpiryKey(h.entries, p))
    BY <1>1, <1>2, <2>1, TakenFromTheFront
  <2>3. QED
    BY <2>1, <2>2, SeenOrder
<1>7. ASSUME Lost # {}
      PROVE  \/ Cardinality(h'.expiry) + 1 > MaxEntries
             \/ \E q \in Lost :
                  /\ \A r \in Lost : h.entries[r].seen <= h.entries[q].seen
                  /\ h'.bytes + Cost(q, h.entries[q].lid) > MaxBytes
  <2>1. PICK k \in out : /\ \A j \in out : ~Before(k, j)
                         /\ Older(g, k) = out \ {k}
    BY <1>1, <1>2, <1>4, <1>7, LastTaken
  <2>2. PICK q \in DOMAIN g.entries : k = ExpiryKey(h.entries, q)
    BY <1>1, <1>3
  <2>3. q \in Lost /\ q \in DOMAIN h.entries /\ q \in Pairs /\ h.entries[q].lid \in Ids
    BY <1>1, <1>4, <2>2 DEF HInv, TypeOK, Entry
  <2>4. \A r \in Lost : h.entries[r].seen <= h.entries[q].seen
    <3> TAKE r \in Lost
    <3>1. r \in DOMAIN h.entries /\ ExpiryKey(h.entries, r) \in out
      BY <1>1, <1>4
    <3>2. ~Before(ExpiryKey(h.entries, q), ExpiryKey(h.entries, r))
      BY <2>1, <2>2, <3>1
    <3>3. QED
      BY <2>3, <3>1, <3>2, SeenOrder
  <2> DEFINE less == RemoveAll(g, out \ {k})
             room == RemoveAll(g, out)
             c == Cost(q, h.entries[q].lid)
  <2>5. ~Fits(less, cost)
    BY <1>2, <2>1 DEF Taken
  <2>6. /\ less.bytes = room.bytes + c
        /\ Cardinality(less.expiry) = Cardinality(room.expiry) + 1
    <3>1. k = ExpiryKey(g.entries, q) /\ h.entries[q] = g.entries[q]
      BY <1>1, <2>2
    <3>2. QED
      BY <1>1, <2>1, <3>1, OneMore
  <2>7. room.bytes \in Nat /\ Cardinality(room.expiry) \in Nat /\ c \in Nat
    <3>1. Sound(room)
      BY <1>1, RemoveAllSound
    <3>2. Cardinality(room.expiry) \in Nat
      BY <3>1, ExpiryFinite, FS_CardinalityType
    <3>3. c \in Nat
      BY <2>3, CostType
    <3>4. QED
      BY <3>1, <3>2, <3>3 DEF Sound
  <2> HIDE DEF less, room
  <2>8. h'.bytes = room.bytes + cost /\ Cardinality(h'.expiry) = Cardinality(room.expiry) + 1
    BY <1>1 DEF room
  <2>9. MaxEntries \in Nat /\ MaxBytes \in Nat /\ cost \in Nat
    BY <1>1, HistoryAssumption DEF HistoryAssumption
  <2>10. \/ Cardinality(less.expiry) >= MaxEntries
         \/ less.bytes + cost > MaxBytes
    <3>1. Cardinality(less.expiry) \in Nat /\ less.bytes \in Nat
      BY <2>6, <2>7
    <3>2. QED
      BY <2>5, <2>9, <3>1 DEF Fits
  <2>11. \/ Cardinality(h'.expiry) + 1 > MaxEntries
         \/ h'.bytes + c > MaxBytes
    <3> HIDE DEF c
    <3>1. QED
      BY <2>6, <2>7, <2>8, <2>9, <2>10
  <2>12. QED
    BY <2>3, <2>4, <2>11
<1>8. QED
  BY <1>6, <1>7 DEF OldestForRoom

(* Every other step loses only what has expired and the pair it records.   *)
LEMMA StepTakesOldest == HInv /\ [Next]_vars => [OldestForRoom]_vars
<1> SUFFICES ASSUME HInv, [Next]_vars, ~UNCHANGED vars
             PROVE  OldestForRoom
  OBVIOUS
<1>0. Lost = {} => OldestForRoom
  BY DEF OldestForRoom
<1>1. ASSUME NEW pair \in Pairs, NEW lid \in Ids, NEW value \in Values,
             RecordKnown(pair, lid, value)
      PROVE  OldestForRoom
  <2>1. DOMAIN h'.entries = DOMAIN Swept.entries
    BY <1>1 DEF RecordKnown, Refresh
  <2>2. QED
    BY <1>0, <2>1, SweptEntries DEF Lost
<1>2. ASSUME NEW pair \in Pairs, NEW lid \in Ids, RecordOversized(pair, lid)
      PROVE  OldestForRoom
  <2>1. h' = Vacated(pair) /\ last'.pair = pair
    BY <1>2 DEF RecordOversized
  <2>2. DOMAIN h'.entries = DOMAIN Swept.entries \ {pair}
    BY <2>1, VacatedEntries
  <2>3. QED
    BY <1>0, <2>1, <2>2, SweptEntries DEF Lost
<1>3. CASE Query
  <2>1. h' = Swept
    BY <1>3 DEF Query
  <2>2. QED
    BY <1>0, <2>1, SweptEntries DEF Lost
<1>4. CASE Elapse
  BY <1>0, <1>4 DEF Elapse, Lost
<1>5. CASE \E pair \in Pairs, lid \in Ids, value \in Values :
             Record(pair, lid, value)
  BY <1>1, <1>2, <1>5, NewTakesOldest DEF Record
<1>6. QED
  BY <1>3, <1>4, <1>5 DEF Next

(* A record evicts in the order of age and no more than it must: another   *)
(* entry that is lost had expired, or no entry that stays is older and     *)
(* putting the newest lost one back would exceed a limit.                  *)
THEOREM EvictsInOrder == Spec => EvictsOldestForRoom
<1>1. HInv /\ [Next]_vars =>
        [LET lost == {pair \in DOMAIN h.entries \ DOMAIN h'.entries :
                        /\ pair # last'.pair
                        /\ ExpiryKey(h.entries, pair) \notin Expired(now)}
             stays == (DOMAIN h.entries \cap DOMAIN h'.entries) \ {last'.pair}
         IN /\ \A pair \in lost, q \in stays : h.entries[pair].seen <= h.entries[q].seen
            /\ lost # {} =>
                 \/ Cardinality(h'.expiry) + 1 > MaxEntries
                 \/ \E q \in lost :
                      /\ \A r \in lost : h.entries[r].seen <= h.entries[q].seen
                      /\ h'.bytes + Cost(q, h.entries[q].lid) > MaxBytes]_vars
  BY StepTakesOldest DEF OldestForRoom, Lost, Stays
<1>2. QED
  BY <1>1, Invariance, PTL DEF Spec, EvictsOldestForRoom

=============================================================================
