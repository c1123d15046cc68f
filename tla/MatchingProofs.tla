--------------------------- MODULE MatchingProofs ---------------------------
(***************************************************************************)
(* What the matcher's sweep guarantees on any book with well-formed        *)
(* entries, for every set of areas and every quantity grid.                *)
(***************************************************************************)
EXTENDS Matching, FiniteSetTheorems, FunctionTheorems, TLAPS

Lots(b, S) == { l \in S \X (1 .. MaxQuantity) : l[2] <= b[l[1]].qty }

(* The books a sweep can start from. *)
WellFormed(b, older) ==
  /\ IsFiniteSet(DOMAIN b)
  /\ \A i \in DOMAIN b : /\ b[i].area \in Area
                         /\ b[i].price \in Int
                         /\ b[i].qty \in 1 .. MaxQuantity
                         /\ <<i, i>> \notin older

(* An entry of a well-formed book offers something. *)
LEMMA EntryQuantity ==
  ASSUME NEW b, NEW older, WellFormed(b, older), NEW i \in DOMAIN b
  PROVE  b[i].qty \in Nat /\ b[i].qty > 0
<1>1. MaxQuantity \in Nat
  BY MatchingAssumption
<1>2. b[i].qty \in 1 .. MaxQuantity
  BY DEF WellFormed
<1>3. QED
  BY <1>1, <1>2

(* A finite set of orders has finitely many lots, so its depth is a number. *)
LEMMA DepthType ==
  ASSUME NEW b, NEW S, IsFiniteSet(S)
  PROVE  /\ IsFiniteSet(Lots(b, S))
         /\ Depth(b, S) = Cardinality(Lots(b, S))
         /\ Depth(b, S) \in Nat
<1>1. MaxQuantity \in Nat
  BY MatchingAssumption
<1>2. IsFiniteSet(1 .. MaxQuantity)
  BY <1>1, FS_Interval
<1>3. IsFiniteSet(S \X (1 .. MaxQuantity))
  BY <1>2, FS_Product
<1>4. Lots(b, S) \in SUBSET (S \X (1 .. MaxQuantity))
  BY DEF Lots
<1>5. IsFiniteSet(Lots(b, S))
  BY <1>3, <1>4, FS_Subset
<1>6. Depth(b, S) = Cardinality(Lots(b, S))
  BY DEF Depth, Lots
<1>7. QED
  BY <1>5, <1>6, FS_CardinalityType

(* A larger set of orders is at least as deep. *)
LEMMA DepthMonotone ==
  ASSUME NEW b, NEW S, NEW T, IsFiniteSet(S), T \subseteq S
  PROVE  Depth(b, T) <= Depth(b, S)
<1>1. IsFiniteSet(T)
  BY FS_Subset
<1>2. Lots(b, T) \in SUBSET Lots(b, S)
  BY DEF Lots
<1>3. Cardinality(Lots(b, T)) <= Cardinality(Lots(b, S))
  BY <1>2, DepthType, FS_Subset
<1>4. QED
  BY <1>1, <1>3, DepthType

(* One order is as deep as its quantity. *)
LEMMA DepthOfOne ==
  ASSUME NEW b, NEW i, b[i].qty \in 1 .. MaxQuantity
  PROVE  Depth(b, {i}) = b[i].qty
<1>. DEFINE q == b[i].qty
            f == [ n \in 1 .. q |-> <<i, n>> ]
<1>1. q \in Nat /\ q <= MaxQuantity /\ MaxQuantity \in Nat
  BY MatchingAssumption
<1>2. f \in [1 .. q -> Lots(b, {i})]
  <2>1. ASSUME NEW n \in 1 .. q
        PROVE  <<i, n>> \in Lots(b, {i})
    BY <1>1, <2>1 DEF Lots
  <2>2. QED
    BY <2>1
<1>3. ASSUME NEW m \in 1 .. q, NEW n \in 1 .. q, f[m] = f[n]
      PROVE  m = n
  BY <1>3
<1>4. ASSUME NEW l \in Lots(b, {i})
      PROVE  \E n \in 1 .. q : f[n] = l
  BY <1>1, <1>4 DEF Lots
<1>5. f \in Bijection(1 .. q, Lots(b, {i}))
  BY <1>2, <1>3, <1>4, Fun_IsBij
<1>6. ExistsBijection(1 .. q, Lots(b, {i}))
  BY <1>5 DEF ExistsBijection
<1>7. IsFiniteSet(1 .. q) /\ Cardinality(1 .. q) = q
  <2>. HIDE DEF q, f
  <2>1. q \in Int /\ 1 \in Int
    BY <1>1
  <2>2. /\ IsFiniteSet(1 .. q)
        /\ Cardinality(1 .. q) = IF 1 > q THEN 0 ELSE q - 1 + 1
    BY <2>1, FS_Interval
  <2>3. QED
    BY <1>1, <2>2
<1>8. Cardinality(Lots(b, {i})) = q
  BY <1>6, <1>7, FS_Bijection
<1>9. IsFiniteSet({i})
  BY FS_Singleton
<1>10. QED
  BY <1>8, <1>9, DepthType

(* The depth of two separate sets of orders adds up; here, one of them is  *)
(* a single order.                                                         *)
LEMMA DepthAdd ==
  ASSUME NEW b, NEW S, NEW i, IsFiniteSet(S), i \notin S,
         b[i].qty \in 1 .. MaxQuantity
  PROVE  Depth(b, S \cup {i}) = Depth(b, S) + b[i].qty
<1>1. IsFiniteSet({i}) /\ IsFiniteSet(S \cup {i})
  BY FS_Singleton, FS_AddElement
<1>2. Lots(b, S \cup {i}) = Lots(b, S) \cup Lots(b, {i})
  BY DEF Lots
<1>3. Lots(b, S) \cap Lots(b, {i}) = {}
  BY DEF Lots
<1>4. /\ IsFiniteSet(Lots(b, S)) /\ IsFiniteSet(Lots(b, {i}))
      /\ Cardinality(Lots(b, S)) \in Nat /\ Cardinality(Lots(b, {i})) \in Nat
  BY <1>1, DepthType
<1>5. Cardinality(Lots(b, S) \cup Lots(b, {i}))
        = Cardinality(Lots(b, S)) + Cardinality(Lots(b, {i})) - Cardinality({})
  BY <1>3, <1>4, FS_Union
<1>6. Cardinality(Lots(b, S \cup {i}))
        = Cardinality(Lots(b, S)) + Cardinality(Lots(b, {i}))
  <2>1. Cardinality({}) = 0
    BY FS_EmptySet
  <2>2. Cardinality(Lots(b, S \cup {i}))
          = Cardinality(Lots(b, S) \cup Lots(b, {i}))
    BY <1>2, Zenon
  <2>3. QED
    BY <1>4, <1>5, <2>1, <2>2
<1>7. QED
  BY <1>1, <1>6, DepthType, DepthOfOne

(* No order stands ahead of itself. *)
LEMMA NotAheadOfItself ==
  ASSUME NEW b, NEW older, WellFormed(b, older), NEW t, NEW i \in DOMAIN b
  PROVE  ~Precedes(b, older, t, i, i)
<1>1. b[i].price \in Int /\ b[i].area \in Area /\ <<i, i>> \notin older
  BY DEF WellFormed
<1>2. ~Better(t.side, b[i].price, b[i].price)
  BY <1>1 DEF Better
<1>3. ~ProbedBefore(t.area, b[i].area, b[i].area)
  BY DEF ProbedBefore
<1>4. QED
  BY <1>1, <1>2, <1>3 DEF Precedes

(* A maker and everything ahead of it fit in the depth the taker sees. *)
LEMMA AheadFits ==
  ASSUME NEW b, NEW older, WellFormed(b, older), NEW t, NEW areas,
         NEW i \in Makers(b, t, areas)
  PROVE  /\ Depth(b, Makers(b, t, areas)) \in Nat
         /\ Depth(b, Ahead(b, older, t, areas, i)) \in Nat
         /\ Depth(b, Ahead(b, older, t, areas, i)) + b[i].qty
              <= Depth(b, Makers(b, t, areas))
<1>. DEFINE M == Makers(b, t, areas)
            H == Ahead(b, older, t, areas, i)
<1>1. i \in DOMAIN b /\ M \subseteq DOMAIN b
  BY DEF Makers
<1>2. H \subseteq M
  BY DEF Ahead
<1>3. IsFiniteSet(M) /\ IsFiniteSet(H)
  <2>1. IsFiniteSet(DOMAIN b)
    BY DEF WellFormed
  <2>2. IsFiniteSet(M)
    BY <1>1, <2>1, FS_Subset
  <2>3. QED
    BY <1>2, <2>2, FS_Subset
<1>4. i \notin H
  BY <1>1, NotAheadOfItself DEF Ahead
<1>5. b[i].qty \in 1 .. MaxQuantity
  BY <1>1 DEF WellFormed
<1>6. Depth(b, H \cup {i}) = Depth(b, H) + b[i].qty
  <2>. HIDE DEF H
  <2>. QED  BY <1>3, <1>4, <1>5, DepthAdd
<1>7. Depth(b, H \cup {i}) <= Depth(b, M)
  <2>1. H \cup {i} \subseteq M
    BY <1>2
  <2>. HIDE DEF H, M
  <2>2. QED
    BY <1>3, <2>1, DepthMonotone
<1>8. Depth(b, M) \in Nat /\ Depth(b, H) \in Nat
  BY <1>3, DepthType
<1>9. QED
  BY <1>6, <1>7, <1>8

(* The number of makers is finite, and so is what they offer. *)
LEMMA MakersFinite ==
  ASSUME NEW b, NEW older, WellFormed(b, older), NEW t, NEW areas
  PROVE  /\ Makers(b, t, areas) \subseteq DOMAIN b
         /\ IsFiniteSet(Makers(b, t, areas))
         /\ Depth(b, Makers(b, t, areas)) \in Nat
<1>1. Makers(b, t, areas) \subseteq DOMAIN b
  BY DEF Makers
<1>2. IsFiniteSet(DOMAIN b)
  BY DEF WellFormed
<1>3. IsFiniteSet(Makers(b, t, areas))
  BY <1>1, <1>2, FS_Subset
<1>4. QED
  BY <1>1, <1>3, DepthType

(* match_limit_across: a sweep trades with makers only, takes at least one *)
(* step and at most the whole quantity of each, and never more of one than *)
(* the taker asks for.                                                     *)
THEOREM SweepFills ==
  ASSUME NEW b, NEW older, WellFormed(b, older), NEW t, NEW areas,
         t.quantity \in Nat
  PROVE  /\ DOMAIN Sweep(b, older, t, areas) \subseteq Makers(b, t, areas)
         /\ IsFiniteSet(DOMAIN Sweep(b, older, t, areas))
         /\ \A i \in DOMAIN Sweep(b, older, t, areas) :
              /\ Sweep(b, older, t, areas)[i] \in 1 .. b[i].qty
              /\ Sweep(b, older, t, areas)[i] <= t.quantity
<1>. DEFINE F == Sweep(b, older, t, areas)
            M == Makers(b, t, areas)
<1>1. DOMAIN F \subseteq Reached(b, older, t, areas)
  BY DEF Sweep
<1>2. Reached(b, older, t, areas) \subseteq M
  BY DEF Reached
<1>3. IsFiniteSet(DOMAIN F)
  BY <1>1, <1>2, MakersFinite, FS_Subset
<1>4. ASSUME NEW i \in DOMAIN F
      PROVE  F[i] \in 1 .. b[i].qty /\ F[i] <= t.quantity
  <2>. DEFINE d == Depth(b, Ahead(b, older, t, areas, i))
  <2>1. i \in M /\ d < t.quantity
    BY <1>1, <1>2 DEF Reached
  <2>2. d \in Nat
    BY <2>1, AheadFits
  <2>3. b[i].qty \in Nat /\ b[i].qty > 0
    BY <2>1, MakersFinite, EntryQuantity
  <2>4. F[i] = SmallerOf(b[i].qty, t.quantity - d)
    BY DEF Sweep
  <2>. HIDE DEF d, F, M
  <2>5. QED
    BY <2>1, <2>2, <2>3, <2>4 DEF SmallerOf
<1>5. QED
  BY <1>1, <1>2, <1>3, <1>4

(* A taker is never filled beyond its quantity, and a fill-or-kill order   *)
(* is filled whole or not at all.                                          *)
THEOREM ExecutedBounds ==
  ASSUME NEW b, NEW older, WellFormed(b, older), NEW t, NEW areas,
         t.quantity \in Nat
  PROVE  /\ Executed(b, t, areas) \in 0 .. t.quantity
         /\ t.mode = "FillOrKill" => Executed(b, t, areas) \in {0, t.quantity}
         /\ Leftover(b, t, areas) \in 0 .. t.quantity
<1>1. Depth(b, Makers(b, t, areas)) \in Nat
  BY MakersFinite
<1>2. Executed(b, t, areas) \in 0 .. t.quantity
  BY <1>1 DEF Executed, SmallerOf
<1>3. t.mode = "FillOrKill" => Executed(b, t, areas) \in {0, t.quantity}
  BY <1>1 DEF Executed, SmallerOf, Killed
<1>4. QED
  BY <1>2, <1>3 DEF Leftover

(* A taker that is left with an open quantity, and was not killed, has     *)
(* emptied every order it could trade with: nothing it crosses remains on  *)
(* the books of the areas it swept.                                        *)
THEOREM SweepExhausts ==
  ASSUME NEW b, NEW older, WellFormed(b, older), NEW t, NEW areas,
         t.quantity \in Nat,
         ~Killed(b, t, areas), Executed(b, t, areas) < t.quantity
  PROVE  Consumed(b, Sweep(b, older, t, areas)) = Makers(b, t, areas)
<1>. DEFINE F == Sweep(b, older, t, areas)
            M == Makers(b, t, areas)
<1>1. Depth(b, M) \in Nat /\ Depth(b, M) < t.quantity
  BY MakersFinite DEF Executed, SmallerOf
<1>2. DOMAIN F \subseteq M
  BY SweepFills
<1>3. ASSUME NEW i \in M
      PROVE  i \in DOMAIN F /\ F[i] = b[i].qty
  <2>. DEFINE d == Depth(b, Ahead(b, older, t, areas, i))
  <2>1. d \in Nat /\ d + b[i].qty <= Depth(b, M)
    BY AheadFits
  <2>2. b[i].qty \in Nat /\ b[i].qty > 0
    BY MakersFinite, EntryQuantity
  <2>3. d < t.quantity
    <3>. HIDE DEF d, M
    <3>. QED  BY <1>1, <2>1, <2>2
  <2>4. i \in Reached(b, older, t, areas)
    BY <2>3 DEF Reached
  <2>5. i \in DOMAIN F /\ F[i] = SmallerOf(b[i].qty, t.quantity - d)
    BY <2>4 DEF Sweep
  <2>. HIDE DEF d, F, M
  <2>6. QED
    BY <1>1, <2>1, <2>2, <2>5 DEF SmallerOf
<1>4. QED
  BY <1>2, <1>3 DEF Consumed

-----------------------------------------------------------------------------
(* The queues are in order: only orders of one level stand in a queue, of  *)
(* two orders of one level one stands before the other, and standing       *)
(* before is transitive.                                                   *)
Queued(b, older) ==
  /\ \A i, j \in DOMAIN b : <<i, j>> \in older => SameLevel(b[i], b[j])
  /\ \A i, j \in DOMAIN b :
       i # j /\ SameLevel(b[i], b[j]) => <<i, j>> \in older \/ <<j, i>> \in older
  /\ \A i, j, k \in DOMAIN b :
       <<i, j>> \in older /\ <<j, k>> \in older => <<i, k>> \in older

(* What the order of the makers is asked for. *)
Orderly(b, older, t) ==
  WellFormed(b, older) /\ Queued(b, older) /\ t.area \in Area

(* Price-time priority is a strict total order of the makers of any taker: *)
(* price, then the order in which the areas' books are probed, then the    *)
(* place in the queue.                                                     *)
LEMMA PriorityIsOrder ==
  ASSUME NEW b, NEW older, NEW t, Orderly(b, older, t), NEW areas
  PROVE  /\ \A i, j, k \in Makers(b, t, areas) :
              /\ Precedes(b, older, t, i, j) /\ Precedes(b, older, t, j, k)
              => Precedes(b, older, t, i, k)
         /\ \A i, j \in Makers(b, t, areas) :
              i # j => Precedes(b, older, t, i, j) \/ Precedes(b, older, t, j, i)
<1>. DEFINE M == Makers(b, t, areas)
<1>1. \A i \in M : /\ i \in DOMAIN b /\ b[i].area \in Area /\ b[i].price \in Int
                   /\ b[i].period = t.period /\ b[i].side = Opposite(t.side)
  BY DEF Makers, Orderly, WellFormed
<1>2. /\ \A a \in Area : AreaRank[t.area][a] \in Nat
      /\ \A a, c \in Area : AreaRank[t.area][a] = AreaRank[t.area][c] => a = c
  BY MatchingAssumption DEF Orderly
<1>3. ASSUME NEW a \in Area, NEW c \in Area, NEW e \in Area
      PROVE  /\ ProbedBefore(t.area, a, c) /\ ProbedBefore(t.area, c, e)
                => ProbedBefore(t.area, a, e)
             /\ a # c => ProbedBefore(t.area, a, c) \/ ProbedBefore(t.area, c, a)
  BY <1>2 DEF ProbedBefore
<1>4. ASSUME NEW i \in M, NEW j \in M,
             b[i].price = b[j].price, b[i].area = b[j].area
      PROVE  SameLevel(b[i], b[j])
  BY <1>1, <1>4 DEF SameLevel
<1>. HIDE DEF M
<1>5. ASSUME NEW i \in M, NEW j \in M, NEW k \in M,
             Precedes(b, older, t, i, j), Precedes(b, older, t, j, k)
      PROVE  Precedes(b, older, t, i, k)
  <2>1. \/ Better(t.side, b[i].price, b[k].price)
        \/ /\ b[i].price = b[j].price /\ b[j].price = b[k].price
    BY <1>1, <1>5 DEF Precedes, Better
  <2>2. CASE b[i].price = b[j].price /\ b[j].price = b[k].price
    <3>1. /\ \/ ProbedBefore(t.area, b[i].area, b[j].area)
             \/ b[i].area = b[j].area /\ <<i, j>> \in older
          /\ \/ ProbedBefore(t.area, b[j].area, b[k].area)
             \/ b[j].area = b[k].area /\ <<j, k>> \in older
      BY <1>1, <1>5, <2>2 DEF Precedes, Better
    <3>2. \/ ProbedBefore(t.area, b[i].area, b[k].area)
          \/ b[i].area = b[k].area /\ <<i, j>> \in older /\ <<j, k>> \in older
      BY <1>1, <1>3, <3>1
    <3>3. <<i, j>> \in older /\ <<j, k>> \in older => <<i, k>> \in older
      BY <1>1 DEF Orderly, Queued
    <3>4. QED
      BY <2>2, <3>2, <3>3 DEF Precedes
  <2>3. QED
    BY <2>1, <2>2 DEF Precedes
<1>6. ASSUME NEW i \in M, NEW j \in M, i # j
      PROVE  Precedes(b, older, t, i, j) \/ Precedes(b, older, t, j, i)
  <2>1. CASE b[i].price # b[j].price
    BY <1>1, <2>1 DEF Precedes, Better
  <2>2. CASE b[i].price = b[j].price /\ b[i].area # b[j].area
    BY <1>1, <1>3, <2>2 DEF Precedes
  <2>3. CASE b[i].price = b[j].price /\ b[i].area = b[j].area
    <3>1. <<i, j>> \in older \/ <<j, i>> \in older
      BY <1>1, <1>4, <1>6, <2>3 DEF Orderly, Queued
    <3>2. QED
      BY <2>3, <3>1 DEF Precedes
  <2>4. QED
    BY <2>1, <2>2, <2>3
<1>7. QED
  BY <1>5, <1>6 DEF M

(* Whatever stands ahead of a maker, and everything ahead of that, is part *)
(* of the depth ahead of the maker.                                        *)
LEMMA AheadGrows ==
  ASSUME NEW b, NEW older, NEW t, Orderly(b, older, t), NEW areas,
         NEW i \in Makers(b, t, areas), NEW j \in Makers(b, t, areas),
         Precedes(b, older, t, i, j)
  PROVE  /\ Ahead(b, older, t, areas, i) \cup {i} \subseteq Ahead(b, older, t, areas, j)
         /\ Depth(b, Ahead(b, older, t, areas, i)) + b[i].qty
              <= Depth(b, Ahead(b, older, t, areas, j))
<1>. DEFINE M == Makers(b, t, areas)
            H(k) == Ahead(b, older, t, areas, k)
<1>1. WellFormed(b, older)
  BY DEF Orderly
<1>2. H(i) \cup {i} \subseteq H(j)
  BY PriorityIsOrder DEF Ahead
<1>3. i \in DOMAIN b /\ i \notin H(i)
  BY <1>1, NotAheadOfItself DEF Makers, Ahead
<1>4. IsFiniteSet(M)
  BY <1>1, MakersFinite
<1>5. H(i) \subseteq M /\ H(j) \subseteq M
  BY DEF Ahead
<1>. HIDE DEF H, M
<1>6. IsFiniteSet(H(i)) /\ IsFiniteSet(H(j))
  BY <1>4, <1>5, FS_Subset
<1>7. b[i].qty \in 1 .. MaxQuantity
  BY <1>1, <1>3 DEF WellFormed
<1>8. Depth(b, H(i) \cup {i}) = Depth(b, H(i)) + b[i].qty
  BY <1>3, <1>6, <1>7, DepthAdd
<1>9. Depth(b, H(i) \cup {i}) <= Depth(b, H(j))
  BY <1>2, <1>6, DepthMonotone
<1>10. QED
  BY <1>2, <1>8, <1>9 DEF H

(* A sweep never trades with an order while one ahead of it keeps a lot:   *)
(* no trade-through, and first in, first out at one price.                 *)
THEOREM SweepKeepsPriority ==
  ASSUME NEW b, NEW older, NEW t, Orderly(b, older, t), NEW areas,
         t.quantity \in Nat,
         NEW i \in Makers(b, t, areas),
         NEW j \in DOMAIN Sweep(b, older, t, areas),
         Precedes(b, older, t, i, j)
  PROVE  i \in Consumed(b, Sweep(b, older, t, areas))
<1>. DEFINE F == Sweep(b, older, t, areas)
            d(k) == Depth(b, Ahead(b, older, t, areas, k))
<1>1. WellFormed(b, older)
  BY DEF Orderly
<1>2. ~Killed(b, t, areas) /\ j \in Makers(b, t, areas) /\ d(j) < t.quantity
  BY DEF Sweep, Reached
<1>3. d(i) + b[i].qty <= d(j)
  BY <1>2, AheadGrows
<1>4. d(i) \in Nat /\ d(j) \in Nat
  BY <1>1, <1>2, AheadFits
<1>5. b[i].qty \in Nat /\ b[i].qty > 0
  BY <1>1, EntryQuantity DEF Makers
<1>6. i \in DOMAIN F /\ F[i] = SmallerOf(b[i].qty, t.quantity - d(i))
  <2>1. d(i) < t.quantity
    <3>. HIDE DEF d
    <3>. QED  BY <1>2, <1>3, <1>4, <1>5
  <2>2. QED
    BY <1>2, <2>1 DEF Sweep, Reached
<1>. HIDE DEF d, F
<1>7. F[i] = b[i].qty
  BY <1>2, <1>3, <1>4, <1>5, <1>6 DEF SmallerOf
<1>8. QED
  BY <1>6, <1>7 DEF Consumed, F

(* Of some of the makers one stands ahead of all the others, and one       *)
(* behind all the others.                                                  *)
LEMMA FirstAndLast ==
  ASSUME NEW b, NEW older, NEW t, Orderly(b, older, t), NEW areas,
         NEW D, D \subseteq Makers(b, t, areas), D # {}
  PROVE  /\ \E i \in D : \A j \in D \ {i} : Precedes(b, older, t, i, j)
         /\ \E i \in D : \A j \in D \ {i} : Precedes(b, older, t, j, i)
<1>. DEFINE M == Makers(b, t, areas)
            P(i, j) == Precedes(b, older, t, i, j)
            H(i) == { k \in M : P(k, i) }
            B(i) == { k \in M : P(i, k) }
<1>1. /\ \A i, j, k \in M : P(i, j) /\ P(j, k) => P(i, k)
      /\ \A i, j \in M : i # j => P(i, j) \/ P(j, i)
  BY PriorityIsOrder
<1>2. WellFormed(b, older)
  BY DEF Orderly
<1>3. \A i \in M : ~P(i, i)
  BY <1>2, NotAheadOfItself DEF Makers
<1>4. IsFiniteSet(M)
  BY <1>2, MakersFinite
<1>. HIDE DEF M, P
<1>5. IsWellFoundedOn(StrictSubsetOrdering(M), SUBSET M)
  BY <1>4, FS_StrictSubsetOrderingWellFounded, FS_FiniteSubsetsOfFinite
<1>6. ASSUME NEW i \in M, NEW j \in M, P(i, j)
      PROVE  /\ <<H(i), H(j)>> \in StrictSubsetOrdering(M)
             /\ <<B(j), B(i)>> \in StrictSubsetOrdering(M)
  <2>1. H(i) \subseteq H(j) /\ i \in H(j) /\ i \notin H(i)
    BY <1>1, <1>3, <1>6
  <2>2. B(j) \subseteq B(i) /\ j \in B(i) /\ j \notin B(j)
    BY <1>1, <1>3, <1>6
  <2>3. /\ H(i) \in SUBSET M /\ H(j) \in SUBSET M
        /\ B(i) \in SUBSET M /\ B(j) \in SUBSET M
    OBVIOUS
  <2>. HIDE DEF H, B
  <2>4. QED
    BY <2>1, <2>2, <2>3 DEF StrictSubsetOrdering
<1>7. D \subseteq M
  BY DEF M
<1>8. \E i \in D : \A j \in D \ {i} : P(i, j)
  <2>. DEFINE T == { H(i) : i \in D }
  <2>1. T \subseteq SUBSET M /\ T # {}
    BY <1>7
  <2>2. PICK x \in T : \A y \in T : <<y, x>> \notin StrictSubsetOrdering(M)
    <3>. HIDE DEF T
    <3>. QED  BY <1>5, <2>1, WFMin
  <2>3. PICK i \in D : x = H(i)
    BY <2>2
  <2>4. ASSUME NEW j \in D \ {i}
        PROVE  P(i, j)
    <3>1. H(j) \in T
      OBVIOUS
    <3>. HIDE DEF H, T
    <3>2. ~P(j, i)
      BY <1>6, <1>7, <2>2, <2>3, <3>1
    <3>3. QED
      BY <1>1, <1>7, <3>2
  <2>5. QED
    BY <2>4
<1>9. \E i \in D : \A j \in D \ {i} : P(j, i)
  <2>. DEFINE T == { B(i) : i \in D }
  <2>1. T \subseteq SUBSET M /\ T # {}
    BY <1>7
  <2>2. PICK x \in T : \A y \in T : <<y, x>> \notin StrictSubsetOrdering(M)
    <3>. HIDE DEF T
    <3>. QED  BY <1>5, <2>1, WFMin
  <2>3. PICK i \in D : x = B(i)
    BY <2>2
  <2>4. ASSUME NEW j \in D \ {i}
        PROVE  P(j, i)
    <3>1. B(j) \in T
      OBVIOUS
    <3>. HIDE DEF B, T
    <3>2. ~P(i, j)
      BY <1>6, <1>7, <2>2, <2>3, <3>1
    <3>3. QED
      BY <1>1, <1>7, <3>2
  <2>5. QED
    BY <2>4
<1>10. QED
  BY <1>8, <1>9 DEF P

(* Only the quantities of the orders counted make up their depth. *)
LEMMA DepthOfSame ==
  ASSUME NEW b, NEW c, NEW S, \A i \in S : b[i].qty = c[i].qty
  PROVE  Depth(b, S) = Depth(c, S)
<1>1. Lots(b, S) = Lots(c, S)
  BY DEF Lots
<1>2. QED
  BY <1>1 DEF Depth, Lots

(* Nothing rests in no orders. *)
LEMMA DepthOfNone ==
  ASSUME NEW b
  PROVE  Depth(b, {}) = 0
<1>1. Lots(b, {}) = {}
  BY DEF Lots
<1>2. QED
  BY <1>1, FS_EmptySet DEF Depth, Lots

(* The makers that a sweep of `quantity' empties: they and what is ahead   *)
(* of them do not exceed it.                                               *)
Emptied(b, older, t, areas) ==
  { i \in Makers(b, t, areas) :
      Depth(b, Ahead(b, older, t, areas, i)) + b[i].qty <= t.quantity }

(* Either every maker is emptied, or the first that is not has exactly the *)
(* emptied ones ahead of it.                                               *)
LEMMA EmptiedIsPrefix ==
  ASSUME NEW b, NEW older, NEW t, Orderly(b, older, t), NEW areas,
         t.quantity \in Nat
  PROVE  LET E == Emptied(b, older, t, areas)
             M == Makers(b, t, areas)
         IN /\ Depth(b, E) \in 0 .. t.quantity
            /\ E # M =>
                 \E i \in M \ E :
                   /\ Ahead(b, older, t, areas, i) = E
                   /\ \A k \in (M \ E) \ {i} : Precedes(b, older, t, i, k)
<1>. DEFINE M == Makers(b, t, areas)
            E == Emptied(b, older, t, areas)
            P(i, j) == Precedes(b, older, t, i, j)
            H(i) == Ahead(b, older, t, areas, i)
            d(i) == Depth(b, H(i))
<1>1. /\ \A i, j, k \in M : P(i, j) /\ P(j, k) => P(i, k)
      /\ \A i, j \in M : i # j => P(i, j) \/ P(j, i)
  BY PriorityIsOrder
<1>2. WellFormed(b, older)
  BY DEF Orderly
<1>3. \A i \in M : ~P(i, i)
  BY <1>2, NotAheadOfItself DEF Makers
<1>4. \A i \in M : H(i) = { j \in M : P(j, i) }
  BY DEF Ahead
<1>5. \A i, j \in M : P(i, j) => d(i) + b[i].qty <= d(j)
  BY AheadGrows
<1>6. \A i \in M : b[i].qty \in 1 .. MaxQuantity /\ d(i) \in Nat
  BY <1>2, AheadFits DEF WellFormed, Makers
<1>7. MaxQuantity \in Nat /\ E \subseteq M
  BY MatchingAssumption DEF Emptied
<1>8. \A i \in M : i \in E <=> d(i) + b[i].qty <= t.quantity
  BY DEF Emptied
<1>9. IsFiniteSet(M)
  BY <1>2, MakersFinite
<1>10. \A D : D \subseteq M /\ D # {} =>
         /\ \E i \in D : \A j \in D \ {i} : P(i, j)
         /\ \E i \in D : \A j \in D \ {i} : P(j, i)
  BY FirstAndLast
<1>. HIDE DEF M, E, P, H, d
<1>11. ASSUME NEW i \in E, NEW j \in M, P(j, i)
       PROVE  j \in E
  BY <1>5, <1>6, <1>7, <1>8, <1>11
<1>12. Depth(b, E) \in 0 .. t.quantity
  <2>1. CASE E = {}
    BY <2>1, DepthOfNone
  <2>2. CASE E # {}
    <3>1. PICK m \in E : \A j \in E \ {m} : P(j, m)
      BY <1>7, <1>10, <2>2
    <3>2. E = H(m) \cup {m} /\ m \notin H(m)
      BY <1>3, <1>4, <1>7, <1>11, <3>1
    <3>3. IsFiniteSet(H(m))
      BY <1>4, <1>7, <1>9, <3>1, FS_Subset
    <3>4. Depth(b, E) = d(m) + b[m].qty
      BY <1>6, <1>7, <3>2, <3>3, DepthAdd DEF d
    <3>5. QED
      BY <1>6, <1>7, <1>8, <3>4
  <2>3. QED
    BY <2>1, <2>2
<1>13. ASSUME E # M
       PROVE  \E i \in M \ E : H(i) = E /\ \A k \in (M \ E) \ {i} : P(i, k)
  <2>1. PICK i \in M \ E : \A k \in (M \ E) \ {i} : P(i, k)
    <3>1. M \ E \subseteq M /\ M \ E # {}
      BY <1>7, <1>13
    <3>2. QED
      BY <1>10, <3>1, SMTT(20), ZenonT(20)
  <2>2. ASSUME NEW j \in H(i)
        PROVE  j \in E
    BY <1>1, <1>3, <1>4, <2>1, <2>2
  <2>3. ASSUME NEW j \in E
        PROVE  j \in H(i)
    <3>1. ~P(i, j)
      BY <1>11, <2>1
    <3>2. QED
      BY <1>1, <1>4, <1>7, <2>1, <3>1
  <2>4. QED
    BY <2>1, <2>2, <2>3
<1>14. QED
  BY <1>12, <1>13 DEF M, E, P, H

(* The fills of a sweep add up to what the taker is told it executed: the  *)
(* loop that consumes the front of the best level counts the same lots on  *)
(* both sides of every trade.                                              *)
THEOREM SweepTotals ==
  ASSUME NEW b, NEW older, NEW t, Orderly(b, older, t), NEW areas,
         t.quantity \in Nat
  PROVE  Total(Sweep(b, older, t, areas)) = Executed(b, t, areas)
<1>. DEFINE M == Makers(b, t, areas)
            E == Emptied(b, older, t, areas)
            q == t.quantity
            F == Sweep(b, older, t, areas)
            c == Taken(F)
            d(i) == Depth(b, Ahead(b, older, t, areas, i))
<1>1. WellFormed(b, older)
  BY DEF Orderly
<1>2. CASE Killed(b, t, areas)
  <2>1. DOMAIN F = {}
    BY <1>2 DEF Sweep
  <2>2. Total(F) = 0
    BY <2>1, DepthOfNone DEF Total
  <2>3. QED
    BY <1>2, <2>2 DEF Executed
<1>3. CASE ~Killed(b, t, areas)
  <2>. SUFFICES Total(F) = Executed(b, t, areas)
    OBVIOUS
  <2>1. DOMAIN F = { i \in M : d(i) < q }
    BY <1>3 DEF Sweep, Reached
  <2>2. \A i \in DOMAIN F : F[i] = SmallerOf(b[i].qty, q - d(i))
    BY DEF Sweep
  <2>3. \A i \in M : b[i].qty \in 1 .. MaxQuantity /\ d(i) \in Nat
    BY <1>1, AheadFits DEF WellFormed, Makers
  <2>4. MaxQuantity \in Nat /\ E \subseteq M
    BY MatchingAssumption DEF Emptied
  <2>5. \A i \in M : i \in E <=> d(i) + b[i].qty <= q
    BY DEF Emptied
  <2>6. IsFiniteSet(M) /\ Depth(b, M) \in Nat
    BY <1>1, MakersFinite
  <2>7. Depth(b, E) \in 0 .. q
    BY EmptiedIsPrefix
  <2>8. \A i \in DOMAIN F : c[i].qty = F[i]
    BY DEF Taken
  <2>9. Total(F) = Depth(c, DOMAIN F)
    BY DEF Total
  <2>10. Executed(b, t, areas) = SmallerOf(q, Depth(b, M))
    BY <1>3 DEF Executed
  <2>11. \A i \in M, k \in M : Precedes(b, older, t, i, k) => d(i) + b[i].qty <= d(k)
    BY AheadGrows
  <2>12. E # M => \E i \in M \ E :
           /\ Ahead(b, older, t, areas, i) = E
           /\ \A k \in (M \ E) \ {i} : Precedes(b, older, t, i, k)
    BY EmptiedIsPrefix
  <2>13. \A i \in E : i \in M => Depth(b, Ahead(b, older, t, areas, i)) = d(i)
    OBVIOUS
  <2>14. \A S : S \subseteq M => IsFiniteSet(S)
    BY <2>6, FS_Subset
  <2>. DEFINE A(i) == Ahead(b, older, t, areas, i)
  <2>15. \A i : d(i) = Depth(b, A(i))
    OBVIOUS
  <2>16. q \in Nat
    OBVIOUS
  <2>17. E # M => \E i \in M \ E :
           A(i) = E /\ \A k \in (M \ E) \ {i} : Precedes(b, older, t, i, k)
    BY <2>12
  <2>. HIDE DEF F, c, M, E, q, d, A
  <2>18. \A i \in E : i \in DOMAIN F /\ F[i] = b[i].qty /\ c[i].qty = b[i].qty
    BY <2>1, <2>2, <2>3, <2>4, <2>5, <2>8, <2>16 DEF SmallerOf
  <2>19. Depth(c, E) = Depth(b, E)
    BY <2>18, DepthOfSame
  <2>20. CASE E = M
    <3>1. DOMAIN F = E
      BY <2>1, <2>18, <2>20
    <3>2. QED
      BY <2>6, <2>7, <2>9, <2>10, <2>16, <2>19, <2>20, <3>1 DEF SmallerOf
  <2>21. CASE E # M
    <3>1. PICK i \in M \ E :
            A(i) = E /\ \A k \in (M \ E) \ {i} : Precedes(b, older, t, i, k)
      BY <2>17, <2>21
    <3>2. d(i) = Depth(b, E) /\ d(i) + b[i].qty > q
      BY <2>3, <2>4, <2>5, <2>7, <2>15, <2>16, <3>1
    <3>3. Depth(b, M) >= d(i) + b[i].qty
      <4>1. E \cup {i} \subseteq M /\ i \notin E
        BY <2>4, <3>1
      <4>2. Depth(b, E \cup {i}) = Depth(b, E) + b[i].qty
        BY <2>3, <2>4, <2>14, <3>1, <4>1, DepthAdd
      <4>3. Depth(b, E \cup {i}) <= Depth(b, M)
        BY <2>6, <4>1, DepthMonotone
      <4>4. QED
        BY <3>2, <4>2, <4>3
    <3>4. Executed(b, t, areas) = q
      BY <2>3, <2>4, <2>6, <2>10, <2>16, <3>1, <3>2, <3>3 DEF SmallerOf
    <3>5. \A k \in (M \ E) \ {i} : k \notin DOMAIN F
      <4>1. ASSUME NEW k \in (M \ E) \ {i}
            PROVE  ~(d(k) < q)
        BY <2>3, <2>4, <2>11, <2>16, <3>1, <3>2, <4>1
      <4>2. QED
        BY <2>1, <4>1
    <3>6. CASE d(i) = q
      <4>1. DOMAIN F = E
        BY <2>1, <2>18, <3>1, <3>5, <3>6, <2>16
      <4>2. QED
        BY <2>9, <2>19, <3>2, <3>4, <3>6, <4>1
    <3>7. CASE d(i) # q
      <4>1. d(i) < q
        BY <2>7, <2>16, <3>2, <3>7
      <4>2. DOMAIN F = E \cup {i} /\ i \notin E
        BY <2>1, <2>18, <3>1, <3>5, <4>1
      <4>3. F[i] = q - d(i) /\ c[i].qty = q - d(i)
        BY <2>2, <2>3, <2>4, <2>8, <2>16, <3>1, <3>2, <4>2 DEF SmallerOf
      <4>4. c[i].qty \in 1 .. MaxQuantity
        BY <2>3, <2>4, <2>16, <3>1, <3>2, <4>1, <4>3
      <4>5. Depth(c, E \cup {i}) = Depth(c, E) + c[i].qty
        BY <2>4, <2>14, <4>2, <4>4, DepthAdd
      <4>6. QED
        BY <2>3, <2>9, <2>16, <2>19, <3>1, <3>2, <3>4, <4>2, <4>3, <4>5
    <3>8. QED
      BY <3>6, <3>7
  <2>22. QED
    BY <2>20, <2>21
<1>4. QED
  BY <1>2, <1>3

(* The place of i among the orders D. *)
Place(b, older, t, D, i) == Cardinality({ j \in D : Precedes(b, older, t, j, i) })

(* The orders D are numbered 0, 1, 2 ... by their places, without a gap    *)
(* and without a number used twice.                                        *)
Numbered(b, older, t, D) ==
  /\ IsFiniteSet(D) /\ Cardinality(D) \in Nat
  /\ \A i \in D : Place(b, older, t, D, i) \in 0 .. Cardinality(D) - 1
  /\ \A i, j \in D :
       Place(b, older, t, D, i) = Place(b, older, t, D, j) => i = j
  /\ \A n \in 0 .. Cardinality(D) - 1 :
       \E i \in D : Place(b, older, t, D, i) = n

(* Counting the orders ahead numbers any of the makers: the trade ids of a *)
(* sweep.                                                                  *)
LEMMA PlacesAreNumbers ==
  ASSUME NEW b, NEW older, NEW t, Orderly(b, older, t), NEW areas,
         NEW D, D \subseteq Makers(b, t, areas)
  PROVE  Numbered(b, older, t, D)
<1>. DEFINE M == Makers(b, t, areas)
            P(i, j) == Precedes(b, older, t, i, j)
            H(i) == { j \in D : P(j, i) }
            N == Cardinality(D)
            f == [ i \in D |-> Cardinality(H(i)) ]
<1>1. /\ \A i, j, k \in M : P(i, j) /\ P(j, k) => P(i, k)
      /\ \A i, j \in M : i # j => P(i, j) \/ P(j, i)
  BY PriorityIsOrder
<1>2. WellFormed(b, older)
  BY DEF Orderly
<1>3. \A i \in M : ~P(i, i)
  BY <1>2, NotAheadOfItself DEF Makers
<1>4. IsFiniteSet(D) /\ N \in Nat
  BY <1>2, MakersFinite, FS_Subset, FS_CardinalityType
<1>. HIDE DEF M, P
<1>5. ASSUME NEW i \in D
      PROVE  /\ H(i) \in SUBSET D /\ i \notin H(i)
             /\ IsFiniteSet(H(i)) /\ Cardinality(H(i)) \in 0 .. N - 1
  <2>1. H(i) \in SUBSET D /\ i \in D /\ i \notin H(i)
    BY <1>3 DEF M
  <2>. HIDE DEF H, N
  <2>2. /\ IsFiniteSet(H(i)) /\ Cardinality(H(i)) <= Cardinality(D)
        /\ Cardinality(H(i)) # Cardinality(D) /\ Cardinality(H(i)) \in Nat
    BY <1>4, <2>1, FS_Subset, FS_CardinalityType
  <2>3. QED
    BY <1>4, <2>1, <2>2 DEF N
<1>6. ASSUME NEW i \in D, NEW j \in D, P(i, j)
      PROVE  Cardinality(H(i)) # Cardinality(H(j))
  <2>1. H(i) \subseteq H(j) /\ i \in H(j) /\ i \notin H(i)
    BY <1>1, <1>3, <1>6 DEF M
  <2>2. IsFiniteSet(H(j))
    BY <1>5
  <2>. HIDE DEF H
  <2>3. QED
    BY <2>1, <2>2, FS_Subset
<1>7. ASSUME NEW i \in D, NEW j \in D, Cardinality(H(i)) = Cardinality(H(j))
      PROVE  i = j
  <2>1. i \in M /\ j \in M
    BY DEF M
  <2>. HIDE DEF H
  <2>2. QED
    BY <1>1, <1>6, <1>7, <2>1
<1>8. f \in Injection(D, 0 .. N - 1)
  <2>1. f \in [D -> 0 .. N - 1]
    BY <1>5
  <2>2. \A i, j \in D : f[i] = f[j] => i = j
    BY <1>7
  <2>. HIDE DEF f
  <2>3. QED
    BY <2>1, <2>2, Fun_IsInj
<1>9. IsFiniteSet(0 .. N - 1) /\ Cardinality(0 .. N - 1) = N
  <2>. HIDE DEF N
  <2>1. 0 \in Int /\ N - 1 \in Int
    BY <1>4
  <2>2. /\ IsFiniteSet(0 .. N - 1)
        /\ Cardinality(0 .. N - 1) = IF 0 > N - 1 THEN 0 ELSE N - 1 - 0 + 1
    BY <2>1, FS_Interval
  <2>3. QED
    BY <1>4, <2>2
<1>10. f \in Surjection(D, 0 .. N - 1)
  <2>1. Cardinality(D) = Cardinality(0 .. N - 1)
    BY <1>9
  <2>. HIDE DEF f, N
  <2>2. QED
    BY <1>8, <1>9, <2>1, FS_Injection
<1>11. \A n \in 0 .. N - 1 : \E i \in D : f[i] = n
  <2>. HIDE DEF f, N
  <2>. QED  BY <1>10, Fun_SurjectionProperties, SMTT(20), ZenonT(20)
<1>12. \A i \in D : Place(b, older, t, D, i) = Cardinality(H(i))
  BY DEF Place, P
<1>13. \A i \in D : f[i] = Place(b, older, t, D, i)
  BY <1>12
<1>14. \A n \in 0 .. N - 1 : \E i \in D : Place(b, older, t, D, i) = n
  <2>. HIDE DEF f
  <2>. QED  BY <1>11, <1>13
<1>15. \A i, j \in D :
         Place(b, older, t, D, i) = Place(b, older, t, D, j) => i = j
  <2>. HIDE DEF H
  <2>. QED  BY <1>7, <1>12
<1>16. \A i \in D : Place(b, older, t, D, i) \in 0 .. N - 1
  <2>. HIDE DEF H
  <2>. QED  BY <1>5, <1>12
<1>17. QED
  BY <1>4, <1>14, <1>15, <1>16 DEF Numbered
=============================================================================
