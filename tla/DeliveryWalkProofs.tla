-------------------------- MODULE DeliveryWalkProofs -------------------------
(***************************************************************************)
(* The walks of a data request over the rings, for any rings, clients,     *)
(* selectors and bounds: where the walk over the previous answer begins    *)
(* and ends, and what the answer is made of.  From them, that nothing is   *)
(* sent twice and that a program started again is not sent what it has     *)
(* acknowledged.                                                           *)
(***************************************************************************)
EXTENDS DeliveryProofs, FiniteSetTheorems

USE RingsAssumption, DeliveryAssumption

(* The records a walk has to pass, before place a of ring q. *)
Before(q, a) == {i \in Held(q) : Dist(q, tail[q], i) < Dist(q, tail[q], a)}

(* Numbers are given once: an element that has never been filled has 0.    *)
NumbersPast ==
  \A q \in Queues : \A i \in Places(q) : elem[q][i].num < nextData \/ elem[q][i].num = 0

(* A remembered place is a record held or the head, and what it held then  *)
(* has been given out.                                                     *)
MarksInRing(c) ==
  \A q \in Queues : table[c].last[q].scan # NoPlace =>
    /\ table[c].last[q].scan \in Held(q) \cup {head[q]}
    /\ table[c].last[q].packet < nextData

WalkInv == BitsInv /\ Shape /\ NumbersPast /\ \A c \in Clients : MarksInRing(c)
------------------------------------------------------------------------------
(* Distances along a ring. *)
LEMMA FirstFromLeast ==
  ASSUME NEW q \in Queues, NEW i \in Places(q), NEW S \in SUBSET Places(q), S # {}
  PROVE  \A k \in S : Dist(q, i, FirstFrom(q, i, S)) <= Dist(q, i, k)
<1> DEFINE D == {Dist(q, i, j) : j \in S}
<1>1. D \in SUBSET Nat /\ D # {}
  <2>1. \A j \in S : Dist(q, i, j) \in Nat
    BY RingPlaces DEF Places
  <2>2. PICK j \in S : TRUE
    OBVIOUS
  <2>3. Dist(q, i, j) \in D
    BY <2>2
  <2> QED BY <2>1, <2>3
<1>2. PICK n \in D : \A m \in D : n <= m
  <2> HIDE DEF D
  <2> QED BY <1>1, Least
<1>3. \E j \in S : \A k \in S : Dist(q, i, j) <= Dist(q, i, k)
  BY <1>2
<1> QED BY <1>3 DEF FirstFrom

LEMMA DistFrom ==
  ASSUME NEW q \in Queues, NEW t \in Places(q), NEW a \in Places(q), NEW j \in Places(q)
  PROVE  /\ Dist(q, t, j) \in Nat /\ Dist(q, t, j) < Count[q]
         /\ Dist(q, t, j) = Dist(q, t, a) => j = a
         /\ Dist(q, a, j) = IF Dist(q, t, a) <= Dist(q, t, j)
                              THEN Dist(q, t, j) - Dist(q, t, a)
                              ELSE Dist(q, t, j) - Dist(q, t, a) + Count[q]
<1>1. Count[q] \in Nat /\ Count[q] > 1
  OBVIOUS
<1>2. /\ t \in Nat /\ t < Count[q] /\ a \in Nat /\ a < Count[q] /\ j \in Nat /\ j < Count[q]
  BY <1>1 DEF Places
<1> QED BY <1>1, <1>2 DEF Dist

LEMMA HeldOrHead ==
  ASSUME TypeOK, NEW q \in Queues, NEW j
  PROVE  j \in Held(q) \cup {head[q]} <=>
           j \in Places(q) /\ Dist(q, tail[q], j) <= Dist(q, tail[q], head[q])
<1>1. head[q] \in Places(q) /\ tail[q] \in Places(q)
  BY DEF TypeOK, RingsTypeOK
<1>2. j \in Places(q) => (Dist(q, tail[q], j) = Dist(q, tail[q], head[q]) => j = head[q])
                         /\ Dist(q, tail[q], j) \in Nat /\ Dist(q, tail[q], head[q]) \in Nat
  BY <1>1, DistFrom
<1> QED BY <1>1, <1>2 DEF Held, From

(* A walk from a place a between tail and head passes the records that are *)
(* not before a.                                                           *)
LEMMA WalkFrom ==
  ASSUME TypeOK, NEW q \in Queues, NEW a \in Held(q) \cup {head[q]}
  PROVE  /\ a \in Places(q)
         /\ From(q, a) = Held(q) \ Before(q, a)
<1>1. head[q] \in Places(q) /\ tail[q] \in Places(q)
  BY DEF TypeOK, RingsTypeOK
<1>2. a \in Places(q) /\ Dist(q, tail[q], a) <= Dist(q, tail[q], head[q])
  BY HeldOrHead
<1>3. ASSUME NEW j \in Places(q)
      PROVE  Dist(q, a, j) < Dist(q, a, head[q]) <=>
               /\ Dist(q, tail[q], j) < Dist(q, tail[q], head[q])
               /\ ~ (Dist(q, tail[q], j) < Dist(q, tail[q], a))
  <2> DEFINE dj == Dist(q, tail[q], j)
             da == Dist(q, tail[q], a)
             dh == Dist(q, tail[q], head[q])
  <2>1. /\ dj \in Nat /\ dj < Count[q] /\ da \in Nat /\ da < Count[q] /\ dh \in Nat /\ dh < Count[q]
        /\ Count[q] \in Nat
    BY <1>1, <1>2, DistFrom
  <2>2. Dist(q, a, j) = IF da <= dj THEN dj - da ELSE dj - da + Count[q]
    BY <1>1, <1>2, DistFrom
  <2>3. Dist(q, a, head[q]) = dh - da
    BY <1>1, <1>2, DistFrom
  <2>4. da <= dh
    BY <1>2
  <2> HIDE DEF dj, da, dh
  <2>5. (IF da <= dj THEN dj - da ELSE dj - da + Count[q]) < dh - da <=> dj < dh /\ ~ (dj < da)
    BY <2>1, <2>4
  <2> QED BY <2>2, <2>3, <2>5 DEF dj, da, dh
<1> QED BY <1>2, <1>3 DEF From, Held, Before

LEMMA Numbers ==
  ASSUME TypeOK, NEW q \in Queues, NEW i \in Places(q)
  PROVE  elem[q][i] \in Elements /\ elem[q][i].num \in Nat
<1>1. elem[q][i] \in Elements
  BY DEF TypeOK, RingsTypeOK
<1> QED BY <1>1 DEF Elements

LEMMA HeldPlaces ==
  ASSUME TypeOK, NEW q \in Queues
  PROVE  /\ Held(q) \subseteq Places(q) /\ head[q] \in Places(q) /\ head[q] \notin Held(q)
         /\ From(q, head[q]) = {} /\ Before(q, tail[q]) = {}
<1>1. head[q] \in Places(q) /\ tail[q] \in Places(q)
  BY DEF TypeOK, RingsTypeOK
<1>2. \A i \in Places(q) : Dist(q, head[q], head[q]) = 0 /\ Dist(q, tail[q], tail[q]) = 0
        /\ Dist(q, head[q], i) \in Nat /\ Dist(q, tail[q], i) \in Nat
  <2>1. ASSUME NEW i \in Places(q) PROVE Dist(q, i, i) = 0
    BY DEF Dist, Places
  <2> QED BY <1>1, <2>1, DistFrom
<1> QED BY <1>1, <1>2 DEF Held, From, Before

------------------------------------------------------------------------------
(* The walk over the previous answer. *)
LEMMA AckPlaces ==
  ASSUME WalkInv, NEW c \in Clients, NEW q \in Queues
  PROVE  /\ AckFrom(c, q) \in Held(q) \cup {head[q]}
         /\ AckTo(c, q) \in From(q, AckFrom(c, q)) \cup {head[q]}
         /\ AckTo(c, q) \in Held(q) \cup {head[q]}
         /\ AckTo(c, q) = head[q] \/ elem[q][AckTo(c, q)].num >= NextWanted(c)
         /\ \A i \in Places(q) : elem[q][i].num >= NextWanted(c) =>
              Dist(q, AckFrom(c, q), AckTo(c, q)) <= Dist(q, AckFrom(c, q), i)
         /\ Dist(q, AckFrom(c, q), AckTo(c, q)) =
              Dist(q, tail[q], AckTo(c, q)) - Dist(q, tail[q], AckFrom(c, q))
<1>0. TypeOK
  BY DEF WalkInv, BitsInv
<1>1. head[q] \in Places(q) /\ tail[q] \in Places(q) /\ elem[q] \in [Places(q) -> Elements]
  BY <1>0 DEF TypeOK, RingsTypeOK
<1>2. tail[q] \in Held(q) \cup {head[q]}
  <2>1. Dist(q, tail[q], tail[q]) <= Dist(q, tail[q], head[q])
    BY <1>1, DistFrom DEF Dist
  <2> QED BY <1>0, <1>1, <2>1, HeldOrHead
<1>3. AckFrom(c, q) \in Held(q) \cup {head[q]}
  BY <1>2 DEF AckFrom, LastSeen, NoLast, WalkInv, MarksInRing
<1> DEFINE S == {head[q]} \cup {i \in Places(q) : elem[q][i].num >= NextWanted(c)}
           a == AckFrom(c, q)
           b == AckTo(c, q)
<1>4. S \in SUBSET Places(q) /\ S # {} /\ a \in Places(q)
  BY <1>0, <1>1, <1>3, HeldOrHead
<1>5. b = FirstFrom(q, a, S)
  BY DEF AckTo
<1>6. b \in S /\ b \in Places(q) /\ \A k \in S : Dist(q, a, b) <= Dist(q, a, k)
  <2> HIDE DEF S, a, b
  <2> QED BY <1>4, <1>5, FirstFromIn, FirstFromLeast
<1>7. b \in From(q, a) \cup {head[q]}
  <2>1. CASE b # head[q]
    <3>1. Dist(q, a, b) <= Dist(q, a, head[q])
      BY <1>6
    <3>2. Dist(q, a, b) # Dist(q, a, head[q])
      BY <1>1, <1>4, <1>6, <2>1, DistFrom
    <3>3. Dist(q, a, b) < Dist(q, a, head[q])
      BY <1>1, <1>4, <1>6, <3>1, <3>2, DistFrom
    <3> QED BY <1>6, <3>3 DEF From
  <2> QED BY <2>1
<1>8. b \in Held(q) \cup {head[q]}
  BY <1>0, <1>3, <1>7, WalkFrom
<1>9. Dist(q, a, b) = Dist(q, tail[q], b) - Dist(q, tail[q], a)
  <2>1. Dist(q, tail[q], a) <= Dist(q, tail[q], b)
    <3>1. CASE b = head[q]
      BY <1>0, <1>3, <3>1, HeldOrHead
    <3>2. CASE b # head[q]
      <4>1. b \in Held(q) \ Before(q, a)
        BY <1>0, <1>3, <1>7, <3>2, WalkFrom
      <4>2. ~ (Dist(q, tail[q], b) < Dist(q, tail[q], a))
        BY <4>1 DEF Before
      <4> QED BY <1>1, <1>4, <1>6, <4>2, DistFrom
    <3> QED BY <3>1, <3>2
  <2> QED BY <1>1, <1>4, <1>6, <2>1, DistFrom
<1> QED BY <1>3, <1>6, <1>7, <1>8, <1>9

(* The elements that are acknowledged: those from where the walk begins up *)
(* to where it ends, all below the number the client wants.                *)
LEMMA AckedPlaces ==
  ASSUME WalkInv, NEW c \in Clients, NEW q \in Queues, seg[c].seqdbuf # "FIRST"
  PROVE  /\ Acked(c, q) = Before(q, AckTo(c, q)) \ Before(q, AckFrom(c, q))
         /\ \A i \in Acked(c, q) : elem[q][i].num < NextWanted(c)
<1> DEFINE a == AckFrom(c, q)
           b == AckTo(c, q)
<1>0. TypeOK
  BY DEF WalkInv, BitsInv
<1>1. /\ a \in Held(q) \cup {head[q]} /\ b \in Held(q) \cup {head[q]}
      /\ a \in Places(q) /\ b \in Places(q) /\ tail[q] \in Places(q) /\ head[q] \in Places(q)
      /\ Dist(q, a, b) = Dist(q, tail[q], b) - Dist(q, tail[q], a)
  BY <1>0, AckPlaces, HeldPlaces DEF TypeOK, RingsTypeOK
<1>2. Dist(q, tail[q], b) <= Dist(q, tail[q], head[q])
  <2> HIDE DEF b
  <2> QED BY <1>0, <1>1, HeldOrHead
<1>3. ASSUME NEW i \in Places(q)
      PROVE  i \in Acked(c, q) <=> i \in Before(q, b) \ Before(q, a)
  <2> DEFINE di == Dist(q, tail[q], i)
             da == Dist(q, tail[q], a)
             db == Dist(q, tail[q], b)
             dh == Dist(q, tail[q], head[q])
  <2>1. /\ di \in Nat /\ di < Count[q] /\ da \in Nat /\ da < Count[q] /\ db \in Nat
        /\ db < Count[q] /\ dh \in Nat /\ dh < Count[q] /\ Count[q] \in Nat
    BY <1>1, DistFrom
  <2>2. Dist(q, a, i) = IF da <= di THEN di - da ELSE di - da + Count[q]
    BY <1>1, DistFrom
  <2>3. Dist(q, a, b) = db - da /\ Dist(q, a, b) \in Nat /\ db <= dh
    BY <1>1, <1>2, DistFrom
  <2>4. i \in Acked(c, q) <=> Dist(q, a, i) < Dist(q, a, b)
    BY DEF Acked
  <2>5. i \in Before(q, b) \ Before(q, a) <=> di < dh /\ di < db /\ ~ (di < da)
    BY DEF Before, Held, From
  <2> HIDE DEF di, da, db, dh
  <2>6. (IF da <= di THEN di - da ELSE di - da + Count[q]) < db - da
          <=> di < dh /\ di < db /\ ~ (di < da)
    BY <2>1, <2>3
  <2> HIDE DEF a, b
  <2> QED BY <2>2, <2>3, <2>4, <2>5, <2>6
<1>4. Acked(c, q) \subseteq Places(q) /\ Before(q, b) \subseteq Places(q)
  BY DEF Acked, Before, Held, From
<1>5. ASSUME NEW i \in Acked(c, q) PROVE elem[q][i].num < NextWanted(c)
  <2>1. i \in Places(q) /\ Dist(q, a, i) < Dist(q, a, b)
    BY DEF Acked
  <2>2. Dist(q, a, i) \in Nat /\ Dist(q, a, b) \in Nat
    BY <1>1, <2>1, DistFrom
  <2>3. elem[q][i].num >= NextWanted(c) => Dist(q, a, b) <= Dist(q, a, i)
    BY <2>1, AckPlaces
  <2>4. ~ (elem[q][i].num >= NextWanted(c))
    BY <2>1, <2>2, <2>3
  <2> QED BY <1>0, <2>1, <2>4, Numbers, NextWantedType
<1> QED BY <1>3, <1>4, <1>5

(* The walk begins at the oldest record, or at the place remembered, which *)
(* then still holds what it held.                                          *)
LEMMA AckBegins ==
  ASSUME NEW c \in Clients, NEW q \in Queues, AckFrom(c, q) # tail[q]
  PROVE  /\ ~ Restarting(c) /\ AckFrom(c, q) = table[c].last[q].scan
         /\ elem[q][table[c].last[q].scan].num = table[c].last[q].packet
BY DEF AckFrom, LastSeen, NoLast

(* Along a ring, before means below. *)
LEMMA Ascend ==
  ASSUME WalkInv, NEW q \in Queues, NEW i \in Held(q), NEW j \in Held(q)
  PROVE  /\ elem[q][i].num \in Nat /\ elem[q][i].num < nextData
         /\ i \in Before(q, j) => elem[q][i].num < elem[q][j].num
         /\ i \notin Before(q, j) => elem[q][i].num >= elem[q][j].num
<1>0. TypeOK
  BY DEF WalkInv, BitsInv
<1>1. i \in Places(q) /\ j \in Places(q) /\ tail[q] \in Places(q)
  BY <1>0, HeldPlaces DEF TypeOK, RingsTypeOK
<1>2. elem[q][i].num \in Nat /\ elem[q][j].num \in Nat /\ elem[q][i].num < nextData
  BY <1>0, <1>1, Numbers DEF WalkInv, Shape, RecordsAscend
<1>3. i \in Before(q, j) => elem[q][i].num < elem[q][j].num
  BY DEF Before, WalkInv, Shape, RecordsAscend
<1>4. ASSUME i \notin Before(q, j) PROVE i = j \/ elem[q][j].num < elem[q][i].num
  <2>1. ~ (Dist(q, tail[q], i) < Dist(q, tail[q], j))
    BY <1>4 DEF Before
  <2>2. i = j \/ Dist(q, tail[q], j) < Dist(q, tail[q], i)
    BY <1>1, <2>1, DistFrom
  <2> QED BY <2>2 DEF WalkInv, Shape, RecordsAscend
<1> QED BY <1>2, <1>3, <1>4
------------------------------------------------------------------------------
(* The answer: of the records ahead it takes those up to some number.      *)
LEMMA ReadPlace ==
  ASSUME WalkInv, NEW c \in Clients, NEW q \in Queues
  PROVE  /\ ReadFrom(c, q) \in Held(q) \cup {head[q]}
         /\ From(q, ReadFrom(c, q)) \subseteq Held(q)
         /\ seg[c].seqdbuf = "FIRST" /\ EntryBlocking(c) =>
              \A i \in Held(q) : c \in ElemAfter(c)[q][i].blockmap => i \in From(q, ReadFrom(c, q))
<1>0. TypeOK
  BY DEF WalkInv, BitsInv
<1>1. head[q] \in Places(q) /\ tail[q] \in Places(q)
  BY <1>0 DEF TypeOK, RingsTypeOK
<1>2. tail[q] \in Held(q) \cup {head[q]}
  <2>1. Dist(q, tail[q], tail[q]) <= Dist(q, tail[q], head[q])
    BY <1>1, DistFrom DEF Dist
  <2> QED BY <1>0, <1>1, <2>1, HeldOrHead
<1> DEFINE S == {head[q]} \cup {i \in Places(q) : c \in ElemAfter(c)[q][i].blockmap}
           f == FirstFrom(q, tail[q], S)
<1>3. f \in Places(q) /\ \A k \in S : Dist(q, tail[q], f) <= Dist(q, tail[q], k)
  <2>1. S \in SUBSET Places(q) /\ S # {}
    BY <1>1
  <2> HIDE DEF S
  <2> QED BY <1>1, <2>1, FirstFromIn, FirstFromLeast
<1>4. f \in Held(q) \cup {head[q]}
  <2> HIDE DEF f
  <2> QED BY <1>0, <1>3, HeldOrHead
<1>5. ReadFrom(c, q) \in Held(q) \cup {head[q]}
  BY <1>2, <1>4, AckPlaces DEF ReadFrom, FirstUnacked
<1>6. From(q, ReadFrom(c, q)) = Held(q) \ Before(q, ReadFrom(c, q))
  BY <1>0, <1>5, WalkFrom
<1>7. ASSUME seg[c].seqdbuf = "FIRST", EntryBlocking(c), NEW i \in Held(q),
             c \in ElemAfter(c)[q][i].blockmap
      PROVE  i \in From(q, ReadFrom(c, q))
  <2>1. ReadFrom(c, q) = f
    BY <1>7 DEF ReadFrom, FirstUnacked
  <2>2. i \in S /\ i \in Places(q)
    BY <1>0, <1>7, HeldPlaces
  <2>3. Dist(q, tail[q], f) <= Dist(q, tail[q], i)
    BY <1>3, <2>2
  <2>4. ~ (Dist(q, tail[q], i) < Dist(q, tail[q], f))
    BY <1>1, <1>3, <2>2, <2>3, DistFrom
  <2>5. i \notin Before(q, f)
    BY <2>4 DEF Before
  <2> HIDE DEF f
  <2> QED BY <1>6, <2>1, <2>5
<1> QED BY <1>5, <1>6, <1>7

LEMMA AheadFinite ==
  ASSUME TypeOK, NEW c \in Clients
  PROVE  IsFiniteSet(Ahead(c))
<1> DEFINE R(q) == {elem[q][i] : i \in From(q, ReadFrom(c, q))}
<1>1. ASSUME NEW q \in Queues PROVE IsFiniteSet(R(q))
  <2>1. IsFiniteSet(Places(q))
    <3>1. Count[q] - 1 \in Int
      OBVIOUS
    <3> QED BY <3>1, FS_Interval DEF Places
  <2>2. IsFiniteSet(From(q, ReadFrom(c, q)))
    BY <2>1, FS_Subset DEF From
  <2> DEFINE f == [i \in From(q, ReadFrom(c, q)) |-> elem[q][i]]
  <2>3. f \in Surjection(From(q, ReadFrom(c, q)), R(q))
    BY DEF Surjection
  <2> QED BY <2>2, <2>3, FS_Surjection
<1>2. IsFiniteSet(Mask[c]) /\ Mask[c] \subseteq Queues
  <2>1. Mask[c] \in SUBSET Queues
    OBVIOUS
  <2> QED BY <2>1, FS_Subset
<1> DEFINE T == {R(q) : q \in Mask[c]}
<1>3. IsFiniteSet(T)
  <2> HIDE DEF R
  <2> DEFINE f == [q \in Mask[c] |-> R(q)]
  <2>1. f \in Surjection(Mask[c], T)
    BY DEF Surjection
  <2> QED BY <1>2, <2>1, FS_Surjection
<1>4. \A X \in T : IsFiniteSet(X)
  <2> HIDE DEF R
  <2> QED BY <1>1, <1>2
<1>5. IsFiniteSet(UNION T)
  <2> HIDE DEF T
  <2> QED BY <1>3, <1>4, FS_UNION
<1> QED BY <1>5 DEF Ahead

LEMMA AheadHeld ==
  ASSUME WalkInv, NEW c \in Clients, NEW r \in Ahead(c)
  PROVE  /\ \E q \in Mask[c] : \E i \in Held(q) : i \in From(q, ReadFrom(c, q)) /\ r = elem[q][i]
         /\ r \in Elements /\ r.num \in Nat /\ r.num < nextData
<1>0. TypeOK
  BY DEF WalkInv, BitsInv
<1>1. PICK q \in Mask[c] : \E i \in From(q, ReadFrom(c, q)) : r = elem[q][i]
  BY DEF Ahead
<1>2. q \in Queues
  OBVIOUS
<1>3. PICK i \in From(q, ReadFrom(c, q)) : r = elem[q][i]
  BY <1>1
<1>4. i \in Held(q) /\ i \in Places(q)
  BY <1>0, <1>2, <1>3, ReadPlace, HeldPlaces
<1>5. r \in Elements /\ r.num \in Nat
  BY <1>0, <1>2, <1>3, <1>4, Numbers
<1>6. r.num < nextData
  BY <1>2, <1>3, <1>4 DEF WalkInv, Shape, RecordsAscend
<1> QED BY <1>3, <1>4, <1>5, <1>6

LEMMA TakenBelow ==
  ASSUME WalkInv, NEW c \in Clients, NEW r \in Taken(c), NEW s \in Ahead(c), s.num <= r.num
  PROVE  s \in Taken(c)
<1> DEFINE Passed(t) == {u \in Ahead(c) : u.num < t.num /\ Selected(c, u)}
<1>0. TypeOK
  BY DEF WalkInv, BitsInv
<1>1. r \in Ahead(c) /\ Cardinality(Passed(r)) < seg[c].reqdbuf
  BY DEF Taken
<1>2. Passed(s) \subseteq Passed(r)
  <2>1. r.num \in Nat /\ s.num \in Nat /\ \A u \in Ahead(c) : u.num \in Nat
    BY <1>1, AheadHeld
  <2> QED BY <2>1
<1>3. IsFiniteSet(Passed(r))
  BY <1>0, AheadFinite, FS_Subset
<1>4. IsFiniteSet(Passed(s)) /\ Cardinality(Passed(s)) <= Cardinality(Passed(r))
  <2> HIDE DEF Passed
  <2> QED BY <1>2, <1>3, FS_Subset
<1>5. Cardinality(Passed(s)) \in Nat /\ Cardinality(Passed(r)) \in Nat /\ seg[c].reqdbuf \in Nat
  <2>1. seg[c].reqdbuf \in Nat
    BY <1>0 DEF TypeOK, Segments
  <2> HIDE DEF Passed
  <2> QED BY <1>3, <1>4, <2>1, FS_CardinalityType
<1>6. Cardinality(Passed(s)) < seg[c].reqdbuf
  <2> HIDE DEF Passed
  <2> QED BY <1>1, <1>4, <1>5
<1> QED BY <1>6 DEF Taken

(* Nothing below the number wanted is ahead. *)
LEMMA AheadWanted ==
  ASSUME WalkInv, NEW c \in Clients, NEW r \in Ahead(c)
  PROVE  r.num >= NextWanted(c)
<1>0. TypeOK /\ NextWanted(c) \in Nat
  <2>1. TypeOK
    BY DEF WalkInv, BitsInv
  <2> QED BY <2>1, NextWantedType
<1>1. CASE seg[c].seqdbuf = "FIRST"
  BY <1>1, AheadHeld DEF NextWanted, Restarting
<1>2. CASE seg[c].seqdbuf # "FIRST"
  <2>1. PICK q \in Mask[c] : \E i \in Held(q) : i \in From(q, ReadFrom(c, q)) /\ r = elem[q][i]
    BY AheadHeld
  <2>2. q \in Queues
    OBVIOUS
  <2>3. PICK i \in Held(q) : i \in From(q, ReadFrom(c, q)) /\ r = elem[q][i]
    BY <2>1
  <2> DEFINE b == AckTo(c, q)
  <2>4. ReadFrom(c, q) = b
    BY <1>2 DEF ReadFrom
  <2>5. b \in Held(q) /\ elem[q][b].num >= NextWanted(c)
    <3>1. b # head[q]
      BY <1>0, <2>2, <2>3, <2>4, HeldPlaces
    <3> QED BY <2>2, <3>1, AckPlaces
  <2>6. i \notin Before(q, b)
    <3> HIDE DEF b
    <3> QED BY <1>0, <2>2, <2>3, <2>4, <2>5, WalkFrom
  <2>7. elem[q][i].num >= elem[q][b].num /\ elem[q][i].num \in Nat /\ elem[q][b].num \in Nat
    <3> HIDE DEF b
    <3> QED BY <2>2, <2>3, <2>5, <2>6, Ascend
  <2> QED BY <1>0, <2>3, <2>5, <2>7
<1> QED BY <1>1, <1>2

(* next_data after the answer: what is taken lies between the number       *)
(* wanted and it, and nothing ahead below it is left out.                  *)
LEMMA AnswerReach ==
  ASSUME WalkInv, NEW c \in Clients
  PROVE  /\ NextWanted(c) \in Nat /\ NextAfter(c) \in Nat /\ NextWanted(c) <= NextAfter(c)
         /\ NextWanted(c) <= nextData => NextAfter(c) <= nextData
         /\ \A r \in Taken(c) : r.num \in Nat /\ NextWanted(c) <= r.num /\ r.num < NextAfter(c)
         /\ \A r \in Ahead(c) : r.num < NextAfter(c) => r \in Taken(c)
<1>0. TypeOK /\ nextData \in Nat
  <2>1. TypeOK
    BY DEF WalkInv, BitsInv
  <2> QED BY <2>1 DEF TypeOK, RingsTypeOK
<1>1. NextWanted(c) \in Nat /\ NextAfter(c) \in Nat
  BY <1>0, NextWantedType, AnswerType
<1>2. CASE Taken(c) = {}
  <2>1. NextAfter(c) = NextWanted(c)
    BY <1>2 DEF NextAfter
  <2>2. \A r \in Ahead(c) : ~ (r.num < NextAfter(c))
    BY <1>1, <2>1, AheadHeld, AheadWanted
  <2> QED BY <1>1, <1>2, <2>1, <2>2
<1>3. CASE Taken(c) # {}
  <2> DEFINE top == CHOOSE r \in Taken(c) : \A s \in Taken(c) : s.num <= r.num
             N == {r.num : r \in Taken(c)}
  <2>1. \A r \in Taken(c) :
          r \in Ahead(c) /\ r.num \in Nat /\ r.num < nextData /\ r.num >= NextWanted(c)
    BY AheadHeld, AheadWanted DEF Taken
  <2>2. \E r \in Taken(c) : \A s \in Taken(c) : s.num <= r.num
    <3>1. N \in SUBSET (0 .. nextData) /\ N # {}
      BY <1>0, <1>3, <2>1
    <3>2. PICK n \in N : \A m \in N : m <= n
      <4> HIDE DEF N
      <4> QED BY <1>0, <3>1, Greatest
    <3> QED BY <3>2
  <2>3. top \in Taken(c) /\ \A s \in Taken(c) : s.num <= top.num
    BY <2>2
  <2>4. NextAfter(c) = top.num + 1
    BY <1>3 DEF NextAfter
  <2> HIDE DEF top
  <2>5. top \in Ahead(c) /\ top.num \in Nat /\ top.num < nextData /\ top.num >= NextWanted(c)
    BY <2>1, <2>3
  <2>6. \A r \in Ahead(c) : r.num < NextAfter(c) => r \in Taken(c)
    BY <2>3, <2>4, <2>5, AheadHeld, TakenBelow
  <2>7. \A r \in Taken(c) : r.num \in Nat /\ NextWanted(c) <= r.num /\ r.num < NextAfter(c)
    BY <1>1, <2>1, <2>3, <2>4, <2>5
  <2> QED BY <1>0, <1>1, <2>4, <2>5, <2>6, <2>7
<1> QED BY <1>2, <1>3
------------------------------------------------------------------------------
(* What a step does to the elements and their bits.                        *)
LEMMA ClearedKeeps ==
  ASSUME NEW x \in Elements, NEW c
  PROVE  /\ [x EXCEPT !.blockmap = @ \ {c}].num = x.num
         /\ [x EXCEPT !.blockmap = @ \ {c}].kind = x.kind
         /\ [x EXCEPT !.blockmap = @ \ {c}].blockmap = x.blockmap \ {c}
BY DEF Elements

(* Serving client c takes no bit but its own, and that one only where it   *)
(* elects not to block or where its walk passes.                           *)
LEMMA ServeElements ==
  ASSUME TypeOK, NEW c \in Clients, Serve(c), NEW q \in Queues, NEW i \in Places(q)
  PROVE  /\ elem'[q][i].num = elem[q][i].num /\ elem'[q][i].kind = elem[q][i].kind
         /\ \/ elem'[q][i].blockmap = elem[q][i].blockmap
            \/ /\ elem'[q][i].blockmap = elem[q][i].blockmap \ {c}
               /\ (Elects(c) /\ ~ seg[c].blocking) \/ (ServeData(c) /\ i \in Acked(c, q))
<1>1. elem[q][i] \in Elements
  BY DEF TypeOK, RingsTypeOK
<1> DEFINE cleared == [elem[q][i] EXCEPT !.blockmap = @ \ {c}]
<1>2. cleared.num = elem[q][i].num /\ cleared.kind = elem[q][i].kind
      /\ cleared.blockmap = elem[q][i].blockmap \ {c}
  BY <1>1, ClearedKeeps
<1>3. ElemAfter(c)[q][i] = IF Elects(c) /\ ~ seg[c].blocking THEN cleared ELSE elem[q][i]
  BY DEF ElemAfter, Unblocked
<1>4. \/ elem'[q][i] = ElemAfter(c)[q][i]
      \/ ServeData(c) /\ i \in Acked(c, q) /\ elem'[q][i] = cleared
  <2>1. CASE ServeAttach(c)
    BY <2>1 DEF ServeAttach
  <2>2. CASE ServeData(c)
    BY <2>2 DEF ServeData
  <2> QED BY <2>1, <2>2 DEF Serve
<1> HIDE DEF cleared
<1> QED BY <1>2, <1>3, <1>4

LEMMA DropElements ==
  ASSUME TypeOK, NEW c \in Clients, CheckClient(c) \/ UnblockCommand(c),
         NEW q \in Queues, NEW i \in Places(q)
  PROVE  /\ elem'[q][i].num = elem[q][i].num /\ elem'[q][i].kind = elem[q][i].kind
         /\ \/ elem'[q][i].blockmap = elem[q][i].blockmap
            \/ elem'[q][i].blockmap = elem[q][i].blockmap \ {c} /\ c \notin blockmask'
<1>1. elem[q][i] \in Elements
  BY DEF TypeOK, RingsTypeOK
<1> DEFINE cleared == [elem[q][i] EXCEPT !.blockmap = @ \ {c}]
<1>2. cleared.num = elem[q][i].num /\ cleared.kind = elem[q][i].kind
      /\ cleared.blockmap = elem[q][i].blockmap \ {c}
  BY <1>1, ClearedKeeps
<1>3. elem' = elem \/ (elem' = Unblocked(c) /\ blockmask' = blockmask \ {c})
  BY DEF CheckClient, Detach, UnblockCommand
<1>4. Unblocked(c)[q][i] = cleared
  BY DEF Unblocked
<1> HIDE DEF cleared
<1> QED BY <1>2, <1>3, <1>4

(* Who is in the mask after the service blocks, and has lost no bit to an  *)
(* election.                                                               *)
LEMMA StaysInMask ==
  ASSUME WalkInv, NEW c \in Clients, Serve(c), c \in blockmask, c \in blockmask'
  PROVE  EntryBlocking(c) /\ ElemAfter(c) = elem /\ ~ (Elects(c) /\ ~ seg[c].blocking)
<1>1. table[c].blocking
  BY DEF WalkInv, BitsInv, BlockersCanTimeOut
<1>2. blockmask' = MaskAfter(c)
  BY DEF Serve
<1> QED BY <1>1, <1>2 DEF MaskAfter, EntryBlocking, ElemAfter

(* Any step but the queueing of a record leaves the rings where they are   *)
(* and the records in them, and gives nobody a bit.                        *)
Keeps ==
  \A q \in Queues : \A i \in Places(q) :
    /\ elem'[q][i].num = elem[q][i].num /\ elem'[q][i].kind = elem[q][i].kind
    /\ elem'[q][i].blockmap \subseteq elem[q][i].blockmap

ARecordQueued == \E q \in Queues, k \in Kinds : QueueRecord(q, k)

LEMMA ElementsKept ==
  ASSUME TypeOK, [Next]_vars, ~ ARecordQueued
  PROVE  Keeps /\ UNCHANGED << head, tail, nextData >>
<1>1. ASSUME NEW c \in Clients, Serve(c)
      PROVE  Keeps /\ UNCHANGED << head, tail, nextData >>
  BY <1>1, ServeElements DEF Keeps, Serve
<1>2. ASSUME NEW c \in Clients, CheckClient(c) \/ UnblockCommand(c)
      PROVE  Keeps /\ UNCHANGED << head, tail, nextData >>
  <2>1. Keeps
    BY <1>2, DropElements DEF Keeps
  <2> QED BY <1>2, <2>1 DEF CheckClient, Detach, UnblockCommand
<1>3. ASSUME NEW c \in Clients, FallQuiet(c) \/ Client(c) PROVE UNCHANGED ringVars
  BY <1>3 DEF FallQuiet, Client, Start, AskAttach, Scan, AskData, Return, ReturnLate, Finish,
              GiveUp, Die, Terminate
<1>4. ASSUME UNCHANGED ringVars PROVE Keeps /\ UNCHANGED << head, tail, nextData >>
  BY <1>4 DEF ringVars, Keeps
<1>5. CASE UNCHANGED vars
  <2>1. UNCHANGED ringVars
    BY <1>5 DEF vars
  <2> QED BY <1>4, <2>1
<1> QED BY <1>1, <1>2, <1>3, <1>4, <1>5 DEF Next, Server, ARecordQueued

(* The segment and the entry of the client that is served data.            *)
LEMMA ServedSegment ==
  ASSUME TypeOK, NEW c \in Clients, ServeData(c)
  PROVE  /\ table'[c].last = [q \in Queues |-> LastAfter(c, q)]
         /\ \/ /\ seg'[c].phase = "answered" /\ seg'[c].seqdbuf = "NEXT"
               /\ seg'[c].next_data = NextAfter(c) /\ seg'[c].data = Delivered(c)
            \/ /\ seg'[c].phase = "down" /\ seg'[c].seqdbuf = "FIRST"
               /\ seg'[c].next_data = 0 /\ seg'[c].data = {}
<1>1. table \in [Clients -> Entries] /\ seg \in [Clients -> Segments]
  BY DEF TypeOK
<1>2. table'[c].last = [q \in Queues |-> LastAfter(c, q)]
  <2> DEFINE last == [q \in Queues |-> LastAfter(c, q)]
  <2>1. table[c] \in Entries
    BY <1>1
  <2>2. table'[c] = [table[c] EXCEPT !.known = TRUE, !.active = TRUE, !.quiet = FALSE,
                       !.blocking = EntryBlocking(c), !.last = last]
    BY <1>1 DEF ServeData
  <2> HIDE DEF last
  <2>3. table'[c].last = last
    BY <2>1, <2>2 DEF Entries
  <2> QED BY <2>3 DEF last
<1>3. CASE seg[c].alive
  <2> DEFINE n == NextAfter(c)
             d == Delivered(c)
  <2>1. seg[c] \in Segments
    BY <1>1
  <2>2. seg'[c] = [seg[c] EXCEPT !.phase = "answered", !.seqdbuf = "NEXT",
                                 !.next_data = n, !.data = d]
    BY <1>1, <1>3 DEF ServeData
  <2> HIDE DEF n, d
  <2>3. /\ seg'[c].phase = "answered" /\ seg'[c].seqdbuf = "NEXT"
        /\ seg'[c].next_data = n /\ seg'[c].data = d
    BY <2>1, <2>2 DEF Segments
  <2> QED BY <1>2, <2>3 DEF n, d
<1>4. CASE ~ seg[c].alive
  <2>1. seg'[c] = NoSegment("down")
    BY <1>1, <1>4 DEF ServeData
  <2> QED BY <1>2, <2>1 DEF NoSegment
<1> QED BY <1>3, <1>4

(* Only a data request moves the places remembered, and what is counted as *)
(* acknowledged.                                                           *)
LEMMA MarksMove ==
  ASSUME TypeOK, [Next]_vars, NEW c \in Clients, ~ (Serve(c) /\ ServeData(c))
  PROVE  table'[c].last = table[c].last /\ acked'[c] = acked[c]
<1>0. table \in [Clients -> Entries] /\ acked \in [Clients -> SUBSET Nat]
  BY DEF TypeOK
<1>1. ASSUME NEW d \in Clients, Serve(d)
      PROVE  table'[c].last = table[c].last /\ acked'[c] = acked[c]
  <2>1. CASE d # c
    BY <1>0, <1>1, <2>1 DEF Serve, ServeAttach, ServeData
  <2>2. CASE d = c
    <3>1. ServeAttach(c)
      BY <1>1, <2>2 DEF Serve
    <3> DEFINE b == EntryBlocking(c)
    <3>2. table'[c] = [table[c] EXCEPT !.known = TRUE, !.active = TRUE, !.quiet = FALSE,
                                       !.blocking = b]
      BY <1>0, <3>1 DEF ServeAttach
    <3> HIDE DEF b
    <3>3. table'[c].last = table[c].last
      BY <1>0, <3>2 DEF Entries
    <3> QED BY <3>1, <3>3 DEF ServeAttach
  <2> QED BY <2>1, <2>2
<1>2. ASSUME NEW d \in Clients, CheckClient(d) \/ FallQuiet(d) \/ UnblockCommand(d) \/ Client(d)
      PROVE  table'[c].last = table[c].last /\ acked'[c] = acked[c]
  <2> DEFINE a == IF TimedOut(d) THEN FALSE ELSE table[d].active
  <2>1. acked' = acked
    BY <1>2 DEF CheckClient, Detach, FallQuiet, UnblockCommand, Client, Start, AskAttach, Scan,
                AskData, Return, ReturnLate, Finish, GiveUp, Die, Terminate
  <2>2. \/ table' = table
        \/ table' = [table EXCEPT ![d] = [table[d] EXCEPT !.quiet = TRUE]]
        \/ table' = [table EXCEPT ![d] = [table[d] EXCEPT !.known = FALSE]]
        \/ table' = [table EXCEPT ![d] = [table[d] EXCEPT !.known = FALSE, !.active = a]]
    <3>1. CASE CheckClient(d)
      BY <1>0, <3>1 DEF CheckClient, Detach
    <3>2. CASE FallQuiet(d) \/ UnblockCommand(d)
      BY <1>0, <3>2 DEF FallQuiet, UnblockCommand
    <3>3. CASE Client(d)
      BY <1>0, <3>3 DEF Client, Start, AskAttach, Scan, AskData, Return, ReturnLate, Finish,
                        GiveUp, Die, Terminate
    <3> QED BY <1>2, <3>1, <3>2, <3>3
  <2> HIDE DEF a
  <2>3. /\ [table[d] EXCEPT !.quiet = TRUE].last = table[d].last
        /\ [table[d] EXCEPT !.known = FALSE].last = table[d].last
        /\ [table[d] EXCEPT !.known = FALSE, !.active = a].last = table[d].last
    BY <1>0 DEF Entries
  <2>4. table'[c].last = table[c].last
    BY <1>0, <2>2, <2>3
  <2> QED BY <2>1, <2>4
<1>3. ASSUME NEW q \in Queues, NEW k \in Kinds, QueueRecord(q, k)
      PROVE  table'[c].last = table[c].last /\ acked'[c] = acked[c]
  BY <1>3 DEF QueueRecord, clientVars
<1>4. CASE UNCHANGED vars
  BY <1>4 DEF vars, clientVars
<1> QED BY <1>1, <1>2, <1>3, <1>4 DEF Next, Server
------------------------------------------------------------------------------
(* Where the walk ends is remembered with what is there.                   *)
LEMMA ServedMarks ==
  ASSUME WalkInv, NEW c \in Clients, NEW q \in Queues, LastAfter(c, q).scan # NoPlace
  PROVE  /\ LastAfter(c, q).scan \in Held(q) \cup {head[q]}
         /\ LastAfter(c, q).packet < nextData
         /\ \/ Acked(c, q) = {} /\ ~ Restarting(c) /\ LastAfter(c, q) = table[c].last[q]
            \/ /\ Acked(c, q) # {} /\ seg[c].seqdbuf # "FIRST"
               /\ LastAfter(c, q).scan = AckTo(c, q)
               /\ LastAfter(c, q).packet = elem[q][AckTo(c, q)].num
<1>0. TypeOK /\ MarksInRing(c) /\ NumbersPast /\ nextData \in Nat
  <2>1. TypeOK /\ MarksInRing(c) /\ NumbersPast
    BY DEF WalkInv, BitsInv
  <2> QED BY <2>1 DEF TypeOK, RingsTypeOK
<1>1. CASE Acked(c, q) = {}
  <2>1. LastAfter(c, q) = table[c].last[q] /\ ~ Restarting(c)
    BY <1>1 DEF LastAfter, LastSeen, NoLast
  <2> QED BY <1>0, <1>1, <2>1 DEF MarksInRing
<1>2. CASE Acked(c, q) # {}
  <2>1. LastAfter(c, q).scan = AckTo(c, q) /\ LastAfter(c, q).packet = elem[q][AckTo(c, q)].num
    BY <1>2 DEF LastAfter
  <2>2. seg[c].seqdbuf # "FIRST"
    BY <1>2 DEF Acked
  <2>3. PICK i \in Acked(c, q) : i \in Held(q)
    BY <1>2, <2>2, AckedPlaces DEF Before
  <2>4. elem[q][i].num < nextData /\ elem[q][i].num \in Nat
    BY <2>3, Ascend
  <2>5. AckTo(c, q) \in Held(q) \cup {head[q]} /\ AckTo(c, q) \in Places(q)
    BY <1>0, AckPlaces, HeldPlaces
  <2>6. elem[q][AckTo(c, q)].num < nextData \/ elem[q][AckTo(c, q)].num = 0
    BY <1>0, <2>5 DEF NumbersPast
  <2> QED BY <1>0, <1>2, <2>1, <2>2, <2>4, <2>5, <2>6
<1> QED BY <1>1, <1>2

(* How a ring turns: the head element joins the records held, last, and    *)
(* the element after it leaves them.                                       *)
LEMMA RingTurns ==
  ASSUME WalkInv, NEW q \in Queues, NEW k \in Kinds, QueueRecord(q, k)
  PROVE  /\ nextData' = nextData + 1 /\ elem'[q][head[q]].num = nextData
         /\ \A r \in Queues : \A i \in Held(r)' :
              \/ r = q /\ i = head[q]
              \/ i \in Held(r) /\ i \in Places(r) /\ elem'[r][i] = elem[r][i]
         /\ \A r \in Queues : \A i \in Held(r) \cup {head[r]} : i \in Held(r)' \cup {head'[r]}
         /\ \A r \in Queues : \A i, j \in Held(r)' :
              /\ Dist(r, tail'[r], i) < Dist(r, tail'[r], j)
              /\ ~ (r = q /\ j = head[q])
              => ~ (r = q /\ i = head[q]) /\ i \in Before(r, j)
<1> DEFINE h == head[q]
           t == tail[q]
           n == Succ(q, h)
           t2 == IF n = t THEN Succ(q, n) ELSE t
<1>0. TypeOK /\ nextData' = nextData + 1
  BY DEF WalkInv, BitsInv, QueueRecord, GetBuffer
<1>1. /\ h \in Places(q) /\ t \in Places(q) /\ n \in Places(q) /\ h # n
      /\ head' = [head EXCEPT ![q] = n] /\ tail' = [tail EXCEPT ![q] = t2]
  <2>1. h \in Places(q) /\ t \in Places(q) /\ head \in [Queues -> Nat] /\ tail \in [Queues -> Nat]
    BY <1>0 DEF TypeOK, RingsTypeOK
  <2>2. head' = [head EXCEPT ![q] = n]
    BY DEF QueueRecord, GetBuffer
  <2>3. tail' = IF n = t THEN [tail EXCEPT ![q] = Succ(q, n)] ELSE tail
    BY DEF QueueRecord, GetBuffer
  <2>4. tail' = [tail EXCEPT ![q] = t2]
    BY <2>1, <2>3
  <2> QED BY <2>1, <2>2, <2>4, SuccPlace
<1>2. head'[q] = n /\ tail'[q] = t2
      /\ \A r \in Queues \ {q} : head'[r] = head[r] /\ tail'[r] = tail[r]
  BY <1>0, <1>1 DEF TypeOK, RingsTypeOK
<1>3. \A r \in Queues : \A i \in Places(r) :
        elem'[r][i] = IF r = q /\ i = h THEN [num |-> nextData, kind |-> k, blockmap |-> blockmask]
                      ELSE elem[r][i]
  BY <1>0, QueuedElements
<1>4. elem'[q][h].num = nextData
  BY <1>1, <1>3
<1>5. \A r \in Queues : Held(r) \subseteq Places(r) /\ Held(r)' \subseteq Places(r)
  BY DEF Held, From
<1>6. \A r \in Queues \ {q} : Held(r)' = Held(r) /\ tail'[r] = tail[r] /\ head'[r] = head[r]
  BY <1>2 DEF Held, From
<1>7. /\ \A i \in Places(q) : i \in Held(q)' <=> (i = h \/ (i \in Held(q) /\ i # n))
      /\ \A i, j \in Held(q)' : Dist(q, t2, i) < Dist(q, t2, j) =>
           i # h /\ (j = h \/ i \in Before(q, j))
  <2> HIDE DEF h, t
  <2>1. /\ \A i \in Places(q) :
              (Dist(q, t2, i) < Dist(q, t2, n))
                <=> (i = h \/ (Dist(q, t, i) < Dist(q, t, h) /\ i # n))
        /\ \A i, j \in Places(q) :
              /\ Dist(q, t2, i) < Dist(q, t2, j)
              /\ Dist(q, t2, j) < Dist(q, t2, n)
              => i # h /\ (j = h \/ Dist(q, t, i) < Dist(q, t, j))
    BY <1>1, Turn
  <2>2. \A i \in Places(q) : i \in Held(q)' <=> Dist(q, t2, i) < Dist(q, t2, n)
    BY <1>2 DEF Held, From
  <2>3. \A i \in Places(q) : i \in Held(q) <=> Dist(q, t, i) < Dist(q, t, h)
    BY DEF Held, From, h, t
  <2>5. \A j : \A i : i \in Before(q, j) <=> i \in Held(q) /\ Dist(q, t, i) < Dist(q, t, j)
    BY DEF Before, t
  <2> HIDE DEF n, t2
  <2> QED BY <1>5, <2>1, <2>2, <2>3, <2>5
<1>8. \A i : \A r \in Queues : \A j : i \in Before(r, j) <=>
        i \in Held(r) /\ Dist(r, tail[r], i) < Dist(r, tail[r], j)
  BY DEF Before
<1> HIDE DEF h, t, n, t2
<1>9. ASSUME NEW r \in Queues, NEW i \in Held(r)'
      PROVE  (r = q /\ i = h) \/ (i \in Held(r) /\ i \in Places(r) /\ elem'[r][i] = elem[r][i])
  BY <1>3, <1>5, <1>6, <1>7
<1>10. ASSUME NEW r \in Queues, NEW i \in Held(r) \cup {head[r]}
       PROVE  i \in Held(r)' \cup {head'[r]}
  <2>1. CASE r = q
    BY <1>1, <1>2, <1>5, <1>7, <2>1 DEF h
  <2>2. CASE r # q
    BY <1>6, <2>2
  <2> QED BY <2>1, <2>2
<1>11. ASSUME NEW r \in Queues, NEW i \in Held(r)', NEW j \in Held(r)',
              Dist(r, tail'[r], i) < Dist(r, tail'[r], j), ~ (r = q /\ j = h)
       PROVE  ~ (r = q /\ i = h) /\ i \in Before(r, j)
  <2>1. CASE r = q
    BY <1>2, <1>7, <1>11, <2>1
  <2>2. CASE r # q
    BY <1>6, <1>8, <1>11, <2>2
  <2> QED BY <2>1, <2>2
<1>12. /\ \A r \in Queues : \A i \in Held(r)' :
            (r = q /\ i = h) \/ (i \in Held(r) /\ i \in Places(r) /\ elem'[r][i] = elem[r][i])
       /\ \A r \in Queues : \A i \in Held(r) \cup {head[r]} : i \in Held(r)' \cup {head'[r]}
       /\ \A r \in Queues : \A i, j \in Held(r)' :
            /\ Dist(r, tail'[r], i) < Dist(r, tail'[r], j)
            /\ ~ (r = q /\ j = h)
            => ~ (r = q /\ i = h) /\ i \in Before(r, j)
  BY <1>9, <1>10, <1>11
<1> QED BY <1>0, <1>4, <1>12 DEF h

LEMMA WalkInit == Init => WalkInv
<1> SUFFICES ASSUME Init PROVE WalkInv
  OBVIOUS
<1>1. BitsInv /\ Shape
  BY BitsInit, ShapeInit
<1>2. NumbersPast
  BY DEF Init, RingsInit, NumbersPast
<1>3. \A c \in Clients : MarksInRing(c)
  BY DEF Init, NoLast, MarksInRing
<1> QED BY <1>1, <1>2, <1>3 DEF WalkInv

LEMMA WalkStep ==
  ASSUME WalkInv, [Next]_vars
  PROVE  WalkInv'
<1>0. /\ TypeOK /\ Shape /\ BitsInv /\ NumbersPast /\ nextData \in Nat
      /\ \A c \in Clients : \A q \in Queues : table[c].last[q].packet \in Int
  <2>1. TypeOK /\ Shape /\ BitsInv /\ NumbersPast
    BY DEF WalkInv, BitsInv
  <2>2. \A c \in Clients : \A q \in Queues : table[c].last[q] \in Marks
    BY <2>1 DEF TypeOK, Entries
  <2> QED BY <2>1, <2>2 DEF TypeOK, RingsTypeOK, Marks
<1>1. BitsInv' /\ Shape'
  BY <1>0, TypeStep, BitsStep, ShapeStep
<1>2. ASSUME NEW q \in Queues, NEW k \in Kinds, QueueRecord(q, k)
      PROVE  NumbersPast' /\ \A c \in Clients : MarksInRing(c)'
  <2>1. NumbersPast'
    <3> SUFFICES ASSUME NEW r \in Queues, NEW i \in Places(r)
                 PROVE  elem'[r][i].num < nextData' \/ elem'[r][i].num = 0
      BY DEF NumbersPast
    <3>1. nextData' = nextData + 1
      BY <1>2 DEF QueueRecord, GetBuffer
    <3>2. elem'[r][i] = elem[r][i] \/ elem'[r][i].num = nextData
      <4>1. elem'[r][i] = IF r = q /\ i = head[q]
                            THEN [num |-> nextData, kind |-> k, blockmap |-> blockmask]
                            ELSE elem[r][i]
        BY <1>0, <1>2, QueuedElements
      <4> QED BY <4>1
    <3> QED BY <1>0, <3>1, <3>2, Numbers DEF NumbersPast
  <2>2. ASSUME NEW c \in Clients PROVE MarksInRing(c)'
    <3>1. table'[c].last = table[c].last
      BY <1>2 DEF QueueRecord, clientVars
    <3> SUFFICES ASSUME NEW r \in Queues, table[c].last[r].scan # NoPlace
                 PROVE  /\ table[c].last[r].scan \in Held(r)' \cup {head'[r]}
                        /\ table[c].last[r].packet < nextData'
      BY <3>1 DEF MarksInRing
    <3>2. table[c].last[r].scan \in Held(r) \cup {head[r]} /\ table[c].last[r].packet < nextData
      BY DEF WalkInv, MarksInRing
    <3>3. table[c].last[r].scan \in Held(r)' \cup {head'[r]} /\ nextData' = nextData + 1
      BY <1>2, <3>2, RingTurns
    <3> QED BY <1>0, <3>2, <3>3
  <2> QED BY <2>1, <2>2
<1>3. ASSUME ~ ARecordQueued PROVE NumbersPast' /\ \A c \in Clients : MarksInRing(c)'
  <2>1. Keeps /\ UNCHANGED << head, tail, nextData >>
    BY <1>0, <1>3, ElementsKept
  <2>2. NumbersPast'
    BY <1>0, <2>1 DEF NumbersPast, Keeps
  <2>3. ASSUME NEW c \in Clients PROVE MarksInRing(c)'
    <3>1. \A q \in Queues : Held(q)' = Held(q) /\ head'[q] = head[q]
      BY <2>1 DEF Held, From
    <3>2. CASE Serve(c) /\ ServeData(c)
      <4>1. table'[c].last = [q \in Queues |-> LastAfter(c, q)]
        BY <1>0, <3>2, ServedSegment
      <4>2. \A q \in Queues : table'[c].last[q] = LastAfter(c, q)
        BY <4>1
      <4> QED BY <2>1, <3>1, <4>2, ServedMarks DEF MarksInRing
    <3>3. CASE ~ (Serve(c) /\ ServeData(c))
      <4>1. table'[c].last = table[c].last
        BY <1>0, <3>3, MarksMove
      <4> QED BY <2>1, <3>1, <4>1 DEF WalkInv, MarksInRing
    <3> QED BY <3>2, <3>3
  <2> QED BY <2>2, <2>3
<1>4. NumbersPast' /\ \A c \in Clients : MarksInRing(c)'
  <2>1. CASE ARecordQueued
    <3>1. PICK q \in Queues, k \in Kinds : QueueRecord(q, k)
      BY <2>1 DEF ARecordQueued
    <3> QED BY <1>2, <3>1
  <2> QED BY <1>3, <2>1
<1> QED BY <1>1, <1>4 DEF WalkInv
------------------------------------------------------------------------------
(* Only the service of a data request turns a request that waits into one  *)
(* that is answered.                                                       *)
LEMMA ServingServes ==
  ASSUME TypeOK, [Next]_vars, NEW c \in Clients, ServingData(c)
  PROVE  /\ Serve(c) /\ ServeData(c)
         /\ seg'[c].next_data = NextAfter(c) /\ seg'[c].data = Delivered(c)
<1>0. /\ seg \in [Clients -> Segments] /\ seg[c] \in Segments
      /\ seg[c].phase = "asking" /\ seg'[c].phase = "answered" /\ seg[c].command = "DATA_BLK"
  BY DEF TypeOK, ServingData
<1>1. seg'[c] # seg[c] /\ \A how : NoSegment(how).phase = how
  BY <1>0 DEF NoSegment
<1>2. ~ \E q \in Queues, k \in Kinds : QueueRecord(q, k)
  BY <1>1 DEF QueueRecord, clientVars
<1>3. \A d \in Clients : ~ (FallQuiet(d) \/ UnblockCommand(d))
  BY <1>1 DEF FallQuiet, UnblockCommand
<1>4. \A d \in Clients : ~ CheckClient(d)
  BY <1>0, <1>1 DEF CheckClient, NoSegment
<1>5. ASSUME NEW d \in Clients, Client(d) PROVE FALSE
  <2>1. d = c
    BY <1>0, <1>1, <1>5 DEF Client, Start, AskAttach, Scan, AskData, Return, ReturnLate, Finish,
                            GiveUp, Die, Terminate
  <2>2. GiveUp(c) \/ Die(c)
    BY <1>0, <1>5, <2>1 DEF Client, Start, AskAttach, Scan, AskData, Return, ReturnLate, Finish,
                            Terminate
  <2>3. CASE GiveUp(c)
    <3>1. seg'[c] = NoSegment("closed") \/ seg'[c] = [seg[c] EXCEPT !.phase = "fresh"]
      BY <1>0, <2>3 DEF GiveUp
    <3>2. [seg[c] EXCEPT !.phase = "fresh"].phase = "fresh"
      BY <1>0 DEF Segments
    <3>3. seg'[c].phase # "answered"
      BY <1>0, <1>1, <3>1, <3>2
    <3> QED BY <1>0, <3>3
  <2>4. CASE Die(c)
    <3>1. seg'[c] = NoSegment("down") \/ seg'[c] = [seg[c] EXCEPT !.alive = FALSE]
      BY <1>0, <2>4 DEF Die
    <3>2. [seg[c] EXCEPT !.alive = FALSE].phase = seg[c].phase
      BY <1>0 DEF Segments
    <3>3. seg'[c].phase # "answered"
      BY <1>0, <1>1, <3>1, <3>2
    <3> QED BY <1>0, <3>3
  <2> QED BY <2>2, <2>3, <2>4
<1>6. ASSUME NEW d \in Clients, Serve(d) PROVE d = c
  BY <1>0, <1>1, <1>6 DEF Serve, ServeAttach, ServeData
<1>7. Next
  BY <1>1 DEF vars, clientVars
<1>8. Serve(c)
  BY <1>2, <1>3, <1>4, <1>5, <1>6, <1>7 DEF Next, Server
<1>9. ServeData(c)
  BY <1>0, <1>8 DEF Serve, ServeAttach
<1> QED BY <1>0, <1>8, <1>9, ServedSegment

(* Nothing is sent twice within a session, however the rings turn between  *)
(* its requests: what a request is answered lies from the number it wants  *)
(* up to the number the next one will want.                                *)
THEOREM NoneTwice == Spec => NothingTwice
<1> DEFINE Once == \A c \in Clients : Continues(c) =>
                     \A n \in seg'[c].data : n \in seg[c].next_data .. seg'[c].next_data - 1
<1>1. WalkInv /\ [Next]_vars => WalkInv'
  BY WalkStep
<1>2. ASSUME WalkInv, [Next]_vars PROVE Once
  <2> SUFFICES ASSUME NEW c \in Clients, Continues(c), NEW n \in seg'[c].data
               PROVE  n \in seg[c].next_data .. seg'[c].next_data - 1
    OBVIOUS
  <2>1. TypeOK
    BY <1>2 DEF WalkInv, BitsInv
  <2>2. seg'[c].next_data = NextAfter(c) /\ seg'[c].data = Delivered(c)
    BY <1>2, <2>1, ServingServes DEF Continues
  <2>3. NextWanted(c) = seg[c].next_data
    BY DEF Continues, NextWanted, Restarting
  <2>4. PICK r \in Taken(c) : n = r.num
    BY <2>2 DEF Delivered
  <2>5. n \in Nat /\ NextWanted(c) <= n /\ n < NextAfter(c) /\ NextWanted(c) \in Nat
        /\ NextAfter(c) \in Nat
    BY <1>2, <2>4, AnswerReach
  <2> QED BY <2>2, <2>3, <2>5
<1>3. WalkInv /\ [Next]_vars => [Once]_vars
  BY <1>2
<1> HIDE DEF Once
<1>4. Spec => [][Once]_vars
  BY <1>1, <1>3, WalkInit, PTL DEF Spec
<1> QED BY <1>4 DEF Once, NothingTwice
------------------------------------------------------------------------------
(* A program started again.  No two records have the same number. *)
UniqueNumbers ==
  \A q, r \in Queues : \A i \in Held(q), j \in Held(r) :
    elem[q][i].num = elem[r][j].num => q = r

AckedPast(c) == \A n \in acked[c] : n < nextData

(* The records before a remembered place that still holds what it held do  *)
(* not carry the client's bit.                                             *)
MarkClear(c) ==
  \A q \in Queues :
    /\ table[c].last[q].scan \in Held(q)
    /\ elem[q][table[c].last[q].scan].num = table[c].last[q].packet
    => \A i \in Held(q) :
         elem[q][i].num < table[c].last[q].packet => c \notin elem[q][i].blockmap

(* In a ring, what the client has acknowledged comes before what it has    *)
(* not.                                                                    *)
AckedFirst(c) ==
  \A q \in Queues : \A i, j \in Held(q) :
    elem[q][i].num \in acked[c] /\ c \in elem[q][j].blockmap => elem[q][i].num < elem[q][j].num

RestartInv ==
  WalkInv /\ UniqueNumbers /\ \A c \in Clients : AckedPast(c) /\ MarkClear(c) /\ AckedFirst(c)

(* What is counted as acknowledged by a request is held, had the client's  *)
(* bit and lies on the walk.                                               *)
LEMMA CountedPlaces ==
  ASSUME WalkInv, NEW c \in Clients, NEW n \in Acknowledged(c)
  PROVE  \E q \in Queues : \E i \in Held(q) :
           /\ n = elem[q][i].num /\ i \in Acked(c, q) /\ seg[c].seqdbuf # "FIRST"
           /\ EntryBlocking(c)
<1>1. PICK q \in Queues : \E i \in Acked(c, q) : n = elem[q][i].num /\ EntryBlocking(c)
  BY DEF Acknowledged
<1>2. PICK i \in Acked(c, q) : n = elem[q][i].num /\ EntryBlocking(c)
  BY <1>1
<1>3. seg[c].seqdbuf # "FIRST"
  BY <1>2 DEF Acked
<1>4. i \in Held(q)
  BY <1>2, <1>3, AckedPlaces DEF Before
<1> QED BY <1>2, <1>3, <1>4

(* A walk that passes anything begins at a record. *)
LEMMA WalkHeld ==
  ASSUME WalkInv, NEW c \in Clients, NEW q \in Queues, Acked(c, q) # {}
  PROVE  AckFrom(c, q) \in Held(q)
<1> DEFINE a == AckFrom(c, q)
<1>0. TypeOK /\ seg[c].seqdbuf # "FIRST" /\ a \in Held(q) \cup {head[q]}
  BY AckPlaces DEF WalkInv, BitsInv, Acked
<1>1. PICK i \in Before(q, AckTo(c, q)) : i \notin Before(q, a)
  BY <1>0, AckedPlaces
<1>2. i \in From(q, a)
  <2>1. i \in Held(q)
    BY DEF Before
  <2> HIDE DEF a
  <2> QED BY <1>0, <1>1, <2>1, WalkFrom
<1> QED BY <1>0, <1>2, HeldPlaces

(* A record that is before the place where the walk begins has lost the    *)
(* client's bit, if there is a walk at all.                                *)
LEMMA ClearBehind ==
  ASSUME RestartInv, NEW c \in Clients, NEW q \in Queues, Acked(c, q) # {},
         NEW j \in Before(q, AckFrom(c, q))
  PROVE  c \notin elem[q][j].blockmap
<1> DEFINE a == AckFrom(c, q)
           b == AckTo(c, q)
<1>0. TypeOK /\ WalkInv /\ seg[c].seqdbuf # "FIRST" /\ j \in Held(q)
  BY DEF RestartInv, WalkInv, BitsInv, Acked, Before
<1>1. a # tail[q]
  BY <1>0, HeldPlaces
<1>2. a = table[c].last[q].scan /\ elem[q][a].num = table[c].last[q].packet
  BY <1>1, AckBegins
<1>4. a \in Held(q)
  BY <1>0, WalkHeld
<1>5. elem[q][j].num < elem[q][a].num
  <2> HIDE DEF a
  <2> QED BY <1>0, <1>4, Ascend DEF a
<1> QED BY <1>0, <1>2, <1>4, <1>5 DEF RestartInv, MarkClear

(* The bit of a client that does not block is nowhere.                     *)
LEMMA NoBits ==
  ASSUME WalkInv, NEW c \in Clients, Serve(c), ~ EntryBlocking(c),
         NEW q \in Queues, NEW i \in Places(q)
  PROVE  c \notin elem'[q][i].blockmap
<1>0. TypeOK
  BY DEF WalkInv, BitsInv
<1>1. CASE Elects(c)
  <2>1. ~ seg[c].blocking
    BY <1>1 DEF EntryBlocking
  <2> QED BY <1>0, <1>1, <2>1, ServeReleases
<1>2. CASE ~ Elects(c)
  <2>1. c \notin blockmask
    BY <1>2 DEF EntryBlocking, WalkInv, BitsInv, BlockersCanTimeOut
  <2>2. c \notin elem[q][i].blockmap
    BY <2>1 DEF WalkInv, BitsInv, BitsOnlyOfMask
  <2> QED BY <1>0, <2>2, ServeElements
<1> QED BY <1>1, <1>2

LEMMA WalkClears ==
  ASSUME TypeOK, NEW c \in Clients, ServeData(c), EntryBlocking(c),
         NEW q \in Queues, NEW i \in Places(q), i \in Acked(c, q)
  PROVE  c \notin elem'[q][i].blockmap
<1>1. elem[q][i] \in Elements
  BY DEF TypeOK, RingsTypeOK
<1>2. elem'[q][i] = [elem[q][i] EXCEPT !.blockmap = @ \ {c}]
  BY DEF ServeData
<1> QED BY <1>1, <1>2, ClearedKeeps

LEMMA RestartServed ==
  ASSUME RestartInv, NEW c \in Clients, Serve(c), ServeData(c)
  PROVE  (AckedPast(c) /\ MarkClear(c) /\ AckedFirst(c))'
<1>0. /\ TypeOK /\ WalkInv /\ UNCHANGED << head, tail, nextData >> /\ acked \in [Clients -> SUBSET Nat]
      /\ AckedPast(c) /\ MarkClear(c) /\ AckedFirst(c) /\ UniqueNumbers
  BY DEF RestartInv, WalkInv, BitsInv, TypeOK, Serve
<1>1. acked'[c] = acked[c] \cup Acknowledged(c)
  BY <1>0 DEF ServeData
<1>2. \A q \in Queues : Held(q)' = Held(q) /\ Held(q) \subseteq Places(q)
  BY <1>0 DEF Held, From
<1>3. ASSUME NEW q \in Queues
      PROVE  table'[c].last[q] = LastAfter(c, q)
  <2>1. table'[c].last = [r \in Queues |-> LastAfter(c, r)]
    BY <1>0, ServedSegment
  <2> QED BY <2>1
<1>4. ASSUME NEW q \in Queues, NEW i \in Held(q)
      PROVE  /\ elem'[q][i].num = elem[q][i].num /\ elem[q][i].num \in Nat
             /\ elem[q][i].num < nextData
             /\ elem'[q][i].blockmap \subseteq elem[q][i].blockmap
             /\ i \in Acked(c, q) => c \notin elem'[q][i].blockmap
  <2>1. i \in Places(q)
    BY <1>2
  <2>2. i \in Acked(c, q) => c \notin elem'[q][i].blockmap
    BY <1>0, <2>1, NoBits, WalkClears
  <2> QED BY <1>0, <2>1, <2>2, Ascend, ServeElements
<1>5. AckedPast(c)'
  <2> SUFFICES ASSUME NEW n \in Acknowledged(c) PROVE n < nextData
    BY <1>0, <1>1 DEF AckedPast
  <2> QED BY <1>0, <1>4, CountedPlaces
<1>6. MarkClear(c)'
  <2> SUFFICES ASSUME NEW q \in Queues, LastAfter(c, q).scan \in Held(q),
                      elem'[q][LastAfter(c, q).scan].num = LastAfter(c, q).packet,
                      NEW i \in Held(q), elem'[q][i].num < LastAfter(c, q).packet
               PROVE  c \notin elem'[q][i].blockmap
    BY <1>2, <1>3 DEF MarkClear
  <2>0. LastAfter(c, q).scan # NoPlace
    BY <1>2 DEF NoPlace, Places
  <2>1. CASE Acked(c, q) = {}
    <3>1. LastAfter(c, q) = table[c].last[q]
      BY <1>0, <2>0, <2>1, ServedMarks
    <3>2. elem[q][table[c].last[q].scan].num = table[c].last[q].packet
      BY <1>4, <3>1
    <3>3. c \notin elem[q][i].blockmap
      BY <1>0, <1>4, <3>1, <3>2 DEF MarkClear
    <3> QED BY <1>4, <3>3
  <2>2. CASE Acked(c, q) # {}
    <3> DEFINE b == AckTo(c, q)
    <3>1. b \in Held(q) /\ LastAfter(c, q).packet = elem[q][b].num /\ seg[c].seqdbuf # "FIRST"
      BY <1>0, <2>0, <2>2, ServedMarks
    <3>2. i \in Before(q, b)
      <4> HIDE DEF b
      <4> QED BY <1>0, <1>4, <3>1, Ascend
    <3>3. i \in Acked(c, q) \/ i \in Before(q, AckFrom(c, q))
      BY <1>0, <3>1, <3>2, AckedPlaces
    <3> QED BY <1>4, <2>2, <3>3, ClearBehind
  <2> QED BY <2>1, <2>2
<1>7. AckedFirst(c)'
  <2> SUFFICES ASSUME NEW q \in Queues, NEW i \in Held(q), NEW j \in Held(q),
                      elem[q][i].num \in acked[c] \cup Acknowledged(c), c \in elem'[q][j].blockmap
               PROVE  elem[q][i].num < elem[q][j].num
    BY <1>1, <1>2, <1>4 DEF AckedFirst
  <2>0. c \in elem[q][j].blockmap
    BY <1>4
  <2>1. CASE elem[q][i].num \in acked[c]
    BY <1>0, <2>0, <2>1 DEF AckedFirst
  <2>2. CASE elem[q][i].num \in Acknowledged(c)
    <3>1. PICK r \in Queues : \E m \in Held(r) :
                 elem[q][i].num = elem[r][m].num /\ m \in Acked(c, r) /\ seg[c].seqdbuf # "FIRST"
      BY <1>0, <2>2, CountedPlaces
    <3>2. PICK m \in Held(r) :
                 elem[q][i].num = elem[r][m].num /\ m \in Acked(c, r) /\ seg[c].seqdbuf # "FIRST"
      BY <3>1
    <3>3. r = q
      BY <1>0, <3>2 DEF UniqueNumbers
    <3>4. j \notin Acked(c, q) /\ j \notin Before(q, AckFrom(c, q))
      BY <1>4, <2>0, <3>2, <3>3, ClearBehind
    <3> DEFINE b == AckTo(c, q)
    <3>5. m \in Before(q, b) /\ j \notin Before(q, b)
      BY <1>0, <3>2, <3>3, <3>4, AckedPlaces
    <3>6. m \in Before(q, j)
      <4>1. b \in Places(q) /\ j \in Places(q) /\ m \in Places(q) /\ tail[q] \in Places(q)
        BY <1>0, <1>2, <3>2, <3>3, AckPlaces, HeldPlaces DEF TypeOK, RingsTypeOK
      <4>2. /\ Dist(q, tail[q], b) \in Nat /\ Dist(q, tail[q], j) \in Nat
            /\ Dist(q, tail[q], m) \in Nat
        BY <4>1, DistFrom
      <4>3. Dist(q, tail[q], m) < Dist(q, tail[q], b)
            /\ ~ (Dist(q, tail[q], j) < Dist(q, tail[q], b))
        BY <3>5 DEF Before
      <4>4. Dist(q, tail[q], m) < Dist(q, tail[q], j)
        <5> HIDE DEF b
        <5> QED BY <4>2, <4>3
      <4> QED BY <3>2, <3>3, <4>4 DEF Before
    <3> QED BY <1>0, <3>2, <3>3, <3>6, Ascend
  <2> QED BY <2>1, <2>2
<1> QED BY <1>5, <1>6, <1>7

LEMMA RestartQueueRecord ==
  ASSUME RestartInv, NEW q \in Queues, NEW k \in Kinds, QueueRecord(q, k)
  PROVE  UniqueNumbers' /\ \A c \in Clients : (AckedPast(c) /\ MarkClear(c) /\ AckedFirst(c))'
<1> DEFINE h == head[q]
<1>0. /\ TypeOK /\ WalkInv /\ UniqueNumbers /\ nextData \in Nat /\ nextData' = nextData + 1
      /\ elem'[q][h].num = nextData /\ UNCHANGED << table, acked >>
  <2>1. TypeOK /\ WalkInv /\ UniqueNumbers /\ UNCHANGED << table, acked >>
    BY DEF RestartInv, WalkInv, BitsInv, QueueRecord, clientVars
  <2> QED BY <2>1, RingTurns DEF TypeOK, RingsTypeOK
<1>1. \A r \in Queues : \A i \in Held(r)' :
        \/ r = q /\ i = h
        \/ i \in Held(r) /\ elem'[r][i] = elem[r][i] /\ elem[r][i].num < nextData
  BY <1>0, RingTurns, Ascend
<1> HIDE DEF h
<1>2. UniqueNumbers'
  <2> SUFFICES ASSUME NEW r \in Queues, NEW s \in Queues, NEW i \in Held(r)', NEW j \in Held(s)',
                      elem'[r][i].num = elem'[s][j].num
               PROVE  r = s
    BY DEF UniqueNumbers
  <2>1. CASE (r = q /\ i = h) /\ ~ (s = q /\ j = h)
    BY <1>0, <1>1, <2>1
  <2>2. CASE ~ (r = q /\ i = h) /\ (s = q /\ j = h)
    BY <1>0, <1>1, <2>2
  <2>3. CASE ~ (r = q /\ i = h) /\ ~ (s = q /\ j = h)
    BY <1>0, <1>1, <2>3 DEF UniqueNumbers
  <2> QED BY <2>1, <2>2, <2>3
<1>3. ASSUME NEW c \in Clients
      PROVE  (AckedPast(c) /\ MarkClear(c) /\ AckedFirst(c))'
  <2>0. /\ AckedPast(c) /\ MarkClear(c) /\ AckedFirst(c) /\ acked[c] \subseteq Nat
        /\ \A r \in Queues : table[c].last[r].packet \in Int
    <3>1. \A r \in Queues : table[c].last[r] \in Marks
      BY <1>0 DEF TypeOK, Entries
    <3> QED BY <1>0, <3>1 DEF RestartInv, TypeOK, Marks
  <2>1. AckedPast(c)'
    BY <1>0, <2>0 DEF AckedPast
  <2>2. MarkClear(c)'
    <3> SUFFICES ASSUME NEW r \in Queues, table[c].last[r].scan \in Held(r)',
                        elem'[r][table[c].last[r].scan].num = table[c].last[r].packet,
                        NEW i \in Held(r)', elem'[r][i].num < table[c].last[r].packet
                 PROVE  c \notin elem'[r][i].blockmap
      BY <1>0 DEF MarkClear
    <3>1. table[c].last[r].packet < nextData
      <4>1. table[c].last[r].scan # NoPlace
        BY DEF NoPlace, Held, From, Places
      <4> QED BY <1>0, <4>1 DEF WalkInv, MarksInRing
    <3>2. ~ (r = q /\ table[c].last[r].scan = h) /\ ~ (r = q /\ i = h)
      BY <1>0, <2>0, <3>1
    <3>3. /\ table[c].last[r].scan \in Held(r) /\ i \in Held(r)
          /\ elem'[r][i] = elem[r][i]
          /\ elem'[r][table[c].last[r].scan] = elem[r][table[c].last[r].scan]
      BY <1>1, <3>2
    <3> QED BY <2>0, <3>3 DEF MarkClear
  <2>3. AckedFirst(c)'
    <3> SUFFICES ASSUME NEW r \in Queues, NEW i \in Held(r)', NEW j \in Held(r)',
                        elem'[r][i].num \in acked[c], c \in elem'[r][j].blockmap
                 PROVE  elem'[r][i].num < elem'[r][j].num
      BY <1>0 DEF AckedFirst
    <3>1. elem'[r][i].num < nextData
      BY <2>0 DEF AckedPast
    <3>2. ~ (r = q /\ i = h)
      BY <1>0, <3>1
    <3>3. i \in Held(r) /\ elem'[r][i] = elem[r][i]
      BY <1>1, <3>2
    <3>4. CASE r = q /\ j = h
      BY <1>0, <3>1, <3>4
    <3>5. CASE ~ (r = q /\ j = h)
      BY <1>1, <2>0, <3>3, <3>5 DEF AckedFirst
    <3> QED BY <3>4, <3>5
  <2> QED BY <2>1, <2>2, <2>3
<1> QED BY <1>2, <1>3

LEMMA BitBefore ==
  ASSUME TypeOK, NEW c \in Clients, NEW q \in Queues, NEW i \in Places(q),
         c \in ElemAfter(c)[q][i].blockmap
  PROVE  c \in elem[q][i].blockmap
<1>1. RingElems(elem)
  BY DEF TypeOK, RingsTypeOK, RingElems
<1>2. ElemAfter(c)[q][i].blockmap = elem[q][i].blockmap
      \/ ElemAfter(c)[q][i].blockmap = elem[q][i].blockmap \ {c}
  BY <1>1, ElemAfterReleases
<1> QED BY <1>2

LEMMA RestartInit == Init => RestartInv
<1> SUFFICES ASSUME Init PROVE RestartInv
  OBVIOUS
<1>1. WalkInv
  BY WalkInit
<1>2. \A q \in Queues : Held(q) = {}
  <2>1. \A q \in Queues : head[q] = tail[q]
    BY DEF Init, RingsInit
  <2>2. TypeOK
    BY <1>1 DEF WalkInv, BitsInv
  <2> QED BY <2>1, <2>2, HeldPlaces DEF Held
<1>3. \A c \in Clients : acked[c] = {}
  BY DEF Init
<1> QED BY <1>1, <1>2, <1>3 DEF RestartInv, UniqueNumbers, AckedPast, MarkClear, AckedFirst

LEMMA RestartStep ==
  ASSUME RestartInv, [Next]_vars
  PROVE  RestartInv'
<1> DEFINE Rest == UniqueNumbers /\ \A c \in Clients : AckedPast(c) /\ MarkClear(c) /\ AckedFirst(c)
<1>0. TypeOK /\ WalkInv /\ UniqueNumbers
  BY DEF RestartInv, WalkInv, BitsInv
<1>1. WalkInv'
  BY <1>0, WalkStep
<1>2. ASSUME ARecordQueued PROVE Rest'
  <2>1. PICK q \in Queues, k \in Kinds : QueueRecord(q, k)
    BY <1>2 DEF ARecordQueued
  <2> QED BY <2>1, RestartQueueRecord
<1>3. ASSUME ~ ARecordQueued PROVE Rest'
  <2>1. Keeps /\ UNCHANGED << head, tail, nextData >>
    BY <1>0, <1>3, ElementsKept
  <2>2. \A q \in Queues : Held(q)' = Held(q) /\ Held(q) \subseteq Places(q)
    BY <2>1 DEF Held, From
  <2>3. \A q \in Queues : \A i \in Held(q) :
          elem'[q][i].num = elem[q][i].num /\ elem'[q][i].blockmap \subseteq elem[q][i].blockmap
    BY <2>1, <2>2 DEF Keeps
  <2>4. UniqueNumbers'
    BY <1>0, <2>2, <2>3 DEF UniqueNumbers
  <2>5. ASSUME NEW c \in Clients PROVE (AckedPast(c) /\ MarkClear(c) /\ AckedFirst(c))'
    <3>1. CASE Serve(c) /\ ServeData(c)
      BY <3>1, RestartServed
    <3>2. CASE ~ (Serve(c) /\ ServeData(c))
      <4>1. table'[c].last = table[c].last /\ acked'[c] = acked[c]
        BY <1>0, <3>2, MarksMove
      <4>2. AckedPast(c) /\ MarkClear(c) /\ AckedFirst(c)
        BY DEF RestartInv
      <4>3. AckedPast(c)'
        BY <2>1, <4>1, <4>2 DEF AckedPast
      <4>4. MarkClear(c)'
        BY <2>2, <2>3, <4>1, <4>2 DEF MarkClear
      <4>5. AckedFirst(c)'
        BY <2>2, <2>3, <4>1, <4>2 DEF AckedFirst
      <4> QED BY <4>3, <4>4, <4>5
    <3> QED BY <3>1, <3>2
  <2> QED BY <2>4, <2>5
<1> QED BY <1>1, <1>2, <1>3 DEF RestartInv

(* A blocking client program that starts over is not sent what it, or the  *)
(* process before it, has acknowledged: the first record that still has    *)
(* its bit comes after all of those, in each ring.                         *)
THEOREM NoneSentAgain == Spec => RestartSkipsAcked
<1> DEFINE Skips == \A c \in Clients :
                      ServingData(c) /\ seg[c].seqdbuf = "FIRST" /\ EntryBlocking(c) =>
                        seg'[c].data \cap acked[c] = {}
<1>1. RestartInv /\ [Next]_vars => RestartInv'
  BY RestartStep
<1>2. ASSUME RestartInv, [Next]_vars PROVE Skips
  <2> SUFFICES ASSUME NEW c \in Clients, ServingData(c), seg[c].seqdbuf = "FIRST",
                      EntryBlocking(c), NEW n \in seg'[c].data, n \in acked[c]
               PROVE  FALSE
    OBVIOUS
  <2>0. TypeOK /\ WalkInv
    BY <1>2 DEF RestartInv, WalkInv, BitsInv
  <2>1. seg'[c].data = Delivered(c)
    BY <1>2, <2>0, ServingServes
  <2>2. PICK x \in Ahead(c) : n = x.num
    BY <2>1 DEF Delivered, Taken
  <2>3. PICK q \in Mask[c] : \E i \in Held(q) : i \in From(q, ReadFrom(c, q)) /\ x = elem[q][i]
    BY <2>0, AheadHeld
  <2>4. PICK i \in Held(q) : i \in From(q, ReadFrom(c, q)) /\ x = elem[q][i]
    BY <2>3
  <2>5. q \in Queues /\ head[q] \in Places(q) /\ tail[q] \in Places(q)
    BY <2>0 DEF TypeOK, RingsTypeOK
  <2> DEFINE S == {head[q]} \cup {j \in Places(q) : c \in ElemAfter(c)[q][j].blockmap}
             f == ReadFrom(c, q)
  <2>6. f = FirstFrom(q, tail[q], S)
    BY DEF ReadFrom, FirstUnacked
  <2>7. f \in S
    <3>1. S \in SUBSET Places(q) /\ S # {}
      BY <2>5
    <3> HIDE DEF S
    <3> QED BY <2>5, <2>6, <3>1, FirstFromIn
  <2>8. f \in Held(q) /\ c \in ElemAfter(c)[q][f].blockmap /\ f \in Places(q)
    <3>1. f # head[q]
      BY <2>0, <2>4, <2>5, HeldPlaces
    <3>2. f \in Held(q) \cup {head[q]}
      BY <2>0, <2>5, ReadPlace
    <3> QED BY <2>7, <3>1, <3>2
  <2>9. c \in elem[q][f].blockmap
    <3> HIDE DEF f
    <3> QED BY <2>0, <2>5, <2>8, BitBefore
  <2> HIDE DEF f
  <2>10. i \notin Before(q, f)
    BY <2>0, <2>4, <2>5, <2>8, WalkFrom DEF f
  <2>11. elem[q][i].num >= elem[q][f].num /\ elem[q][i].num \in Nat /\ elem[q][f].num \in Nat
    BY <2>0, <2>4, <2>5, <2>8, <2>10, Ascend
  <2>12. elem[q][i].num < elem[q][f].num
    BY <1>2, <2>2, <2>4, <2>5, <2>8, <2>9 DEF RestartInv, AckedFirst
  <2> QED BY <2>11, <2>12
<1>3. RestartInv /\ [Next]_vars => [Skips]_vars
  BY <1>2
<1> HIDE DEF Skips
<1>4. Spec => [][Skips]_vars
  BY <1>1, <1>3, RestartInit, PTL DEF Spec
<1> QED BY <1>4 DEF Skips, RestartSkipsAcked
==============================================================================
