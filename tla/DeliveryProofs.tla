---------------------------- MODULE DeliveryProofs ---------------------------
(***************************************************************************)
(* Proofs about Delivery for any rings, clients, selectors and bounds: its *)
(* types, who owns the bits on the elements, and the shape of the rings.   *)
(***************************************************************************)
EXTENDS Delivery, WellFoundedInduction, TLAPS

USE RingsAssumption, DeliveryAssumption

(* A set of natural numbers that is not empty has a least element, and a   *)
(* bounded one a greatest.                                                 *)
LEMMA Least ==
  ASSUME NEW S \in SUBSET Nat, S # {}
  PROVE  \E n \in S : \A m \in S : n <= m
<1> DEFINE R == OpToRel(<, Nat)
<1>1. IsWellFoundedOn(R, Nat)
  BY NatLessThanWellFounded
<1>2. PICK n \in S : \A m \in S : << m, n >> \notin R
  <2> HIDE DEF R
  <2> QED BY <1>1, WFMin
<1>3. \A m \in S : ~ (m < n)
  BY <1>2 DEF OpToRel
<1> QED BY <1>3

LEMMA Greatest ==
  ASSUME NEW b \in Nat, NEW S \in SUBSET (0 .. b), S # {}
  PROVE  \E n \in S : \A m \in S : m <= n
<1> DEFINE T == {b - m : m \in S}
<1>1. T \in SUBSET Nat /\ T # {}
  <2>1. \A m \in S : b - m \in Nat
    OBVIOUS
  <2>2. PICK m \in S : TRUE
    OBVIOUS
  <2>3. b - m \in T
    BY <2>2
  <2> QED BY <2>1, <2>3
<1>2. PICK k \in T : \A m \in T : k <= m
  <2> HIDE DEF T
  <2> QED BY <1>1, Least
<1>3. PICK n \in S : k = b - n
  BY <1>2
<1>4. \A m \in S : b - n <= b - m
  BY <1>2, <1>3
<1> QED BY <1>4

(* The places of a ring: where a "next" pointer leads, how far two places  *)
(* are apart.                                                              *)
LEMMA RingPlaces ==
  ASSUME NEW q \in Queues, NEW i \in Places(q), NEW j \in Places(q)
  PROVE  /\ Count[q] \in Nat /\ Count[q] > 1
         /\ Succ(q, i) \in Places(q)
         /\ Dist(q, i, j) \in Places(q)
<1>1. Count[q] \in Nat /\ Count[q] > 1
  BY DEF RingsAssumption
<1> QED BY <1>1 DEF Places, Succ, Dist

LEMMA FirstFromIn ==
  ASSUME NEW q \in Queues, NEW i \in Places(q), NEW S \in SUBSET Places(q), S # {}
  PROVE  FirstFrom(q, i, S) \in S
<1> DEFINE D == {Dist(q, i, j) : j \in S}
<1>1. D \in SUBSET Nat /\ D # {}
  <2>1. \A j \in S : Dist(q, i, j) \in Nat
    BY RingPlaces DEF Places
  <2>2. PICK j \in S : TRUE
    OBVIOUS
  <2>3. Dist(q, i, j) \in D
    BY <2>2
  <2> QED BY <2>1, <2>3
<1>2. PICK n \in D : \A m \in D : n <= m
  <2> HIDE DEF D
  <2> QED BY <1>1, Least
<1>3. \E j \in S : \A k \in S : Dist(q, i, j) <= Dist(q, i, k)
  BY <1>2
<1> QED BY <1>3 DEF FirstFrom
------------------------------------------------------------------------------
(* What TypeOK says of the elements, as a property of any e in their place. *)
RingElems(e) ==
  /\ e = [q \in Queues |-> e[q]]
  /\ \A q \in Queues : e[q] \in [Places(q) -> Elements]

LEMMA UnblockedType ==
  ASSUME RingElems(elem), NEW c \in Clients
  PROVE  RingElems(Unblocked(c))
<1> SUFFICES ASSUME NEW q \in Queues, NEW i \in Places(q)
             PROVE  [elem[q][i] EXCEPT !.blockmap = @ \ {c}] \in Elements
  BY DEF RingElems, Unblocked
<1>1. elem[q][i] \in Elements
  BY DEF RingElems
<1> QED BY <1>1 DEF Elements

(* The registration of a client keeps the types. *)
LEMMA RegistrationType ==
  ASSUME TypeOK, NEW c \in Clients
  PROVE  /\ RingElems(elem)
         /\ EntryBlocking(c) \in BOOLEAN
         /\ RingElems(ElemAfter(c))
         /\ MaskAfter(c) \in SUBSET Clients
<1>1. RingElems(elem) /\ blockmask \in SUBSET Clients
  BY DEF TypeOK, RingsTypeOK, RingElems
<1>2. table[c].blocking \in BOOLEAN /\ seg[c].blocking \in BOOLEAN
  BY DEF TypeOK, Entries, Segments
<1>3. RingElems(ElemAfter(c))
  BY <1>1, UnblockedType DEF ElemAfter
<1> QED BY <1>1, <1>2, <1>3 DEF EntryBlocking, MaskAfter

LEMMA NextWantedType ==
  ASSUME TypeOK, NEW c \in Clients
  PROVE  NextWanted(c) \in Nat
<1>1. seg[c].next_data \in Nat /\ nextData \in Nat
  BY DEF TypeOK, RingsTypeOK, Segments
<1> QED BY <1>1 DEF NextWanted

(* The walks of a data request stay in the ring. *)
LEMMA WalkType ==
  ASSUME TypeOK, NEW c \in Clients, NEW q \in Queues
  PROVE  /\ NextWanted(c) \in Nat
         /\ LastSeen(c, q) \in Marks
         /\ LastSeen(c, q).scan \in Places(q) \cup {NoPlace}
         /\ AckFrom(c, q) \in Places(q)
         /\ AckTo(c, q) \in Places(q)
         /\ LastAfter(c, q) \in Marks
         /\ LastAfter(c, q).scan \in Places(q) \cup {NoPlace}
<1>1. NextWanted(c) \in Nat
  BY NextWantedType
<1>2. LastSeen(c, q) \in Marks /\ LastSeen(c, q).scan \in Places(q) \cup {NoPlace}
  <2>1. NoLast \in Marks /\ NoLast.scan = NoPlace
    BY DEF NoLast, Marks, NoPlace
  <2>2. table[c].last[q] \in Marks /\ table[c].last[q].scan \in Places(q) \cup {NoPlace}
    BY DEF TypeOK, Entries
  <2> QED BY <2>1, <2>2 DEF LastSeen
<1>3. head[q] \in Places(q) /\ tail[q] \in Places(q) /\ elem[q] \in [Places(q) -> Elements]
  BY DEF TypeOK, RingsTypeOK
<1>4. AckFrom(c, q) \in Places(q)
  BY <1>2, <1>3 DEF AckFrom
<1>5. AckTo(c, q) \in Places(q)
  <2> DEFINE S == {head[q]} \cup {i \in Places(q) : elem[q][i].num >= NextWanted(c)}
  <2>1. S \in SUBSET Places(q) /\ S # {}
    BY <1>3
  <2>2. FirstFrom(q, AckFrom(c, q), S) \in S
    <3> HIDE DEF S
    <3> QED BY <1>4, <2>1, FirstFromIn
  <2> QED BY <2>1, <2>2 DEF AckTo
<1>6. elem[q][AckTo(c, q)].num \in Int /\ AckTo(c, q) \in Int
  <2>1. elem[q][AckTo(c, q)] \in Elements
    BY <1>3, <1>5
  <2>2. elem[q][AckTo(c, q)].num \in Int
    BY <2>1 DEF Elements
  <2>3. Count[q] \in Nat
    OBVIOUS
  <2> QED BY <1>5, <2>2, <2>3 DEF Places
<1> QED BY <1>1, <1>2, <1>4, <1>5, <1>6 DEF LastAfter, Marks

LEMMA ReadFromType ==
  ASSUME TypeOK, NEW c \in Clients, NEW q \in Queues
  PROVE  ReadFrom(c, q) \in Places(q)
<1>1. head[q] \in Places(q) /\ tail[q] \in Places(q)
  BY DEF TypeOK, RingsTypeOK
<1> DEFINE S == {head[q]} \cup {i \in Places(q) : c \in ElemAfter(c)[q][i].blockmap}
<1>2. S \in SUBSET Places(q) /\ S # {}
  BY <1>1
<1>3. FirstFrom(q, tail[q], S) \in S
  <2> HIDE DEF S
  <2> QED BY <1>1, <1>2, FirstFromIn
<1>4. FirstUnacked(c, q) \in Places(q)
  BY <1>1, <1>2, <1>3 DEF FirstUnacked
<1> QED BY <1>4, WalkType DEF ReadFrom

(* An answer is made of elements of the rings, so its numbers are numbers  *)
(* of records and next_data is one more than the greatest of them.         *)
LEMMA AnswerType ==
  ASSUME TypeOK, NEW c \in Clients
  PROVE  Delivered(c) \in SUBSET Nat /\ NextAfter(c) \in Nat
<1>1. Ahead(c) \in SUBSET Elements
  <2>1. Mask[c] \subseteq Queues
    BY DEF DeliveryAssumption
  <2>2. \A q \in Queues : \A i \in From(q, ReadFrom(c, q)) : elem[q][i] \in Elements
    BY DEF TypeOK, RingsTypeOK, From
  <2> QED BY <2>1, <2>2 DEF Ahead
<1>2. Taken(c) \in SUBSET Elements
  BY <1>1 DEF Taken
<1>3. \A r \in Taken(c) : r.num \in 0 .. MaxRecords
  BY <1>2 DEF Elements
<1>4. Delivered(c) \in SUBSET Nat
  BY <1>3 DEF Delivered
<1>5. CASE Taken(c) = {}
  BY <1>4, <1>5, NextWantedType DEF NextAfter
<1>6. CASE Taken(c) # {}
  <2> DEFINE S == {r.num : r \in Taken(c)}
  <2>1. S \in SUBSET (0 .. MaxRecords) /\ S # {}
    BY <1>3, <1>6
  <2>2. PICK n \in S : \A m \in S : m <= n
    <3> HIDE DEF S
    <3> QED BY <2>1, Greatest DEF RingsAssumption
  <2>3. \E r \in Taken(c) : \A t \in Taken(c) : t.num <= r.num
    BY <2>2
  <2> DEFINE top == CHOOSE r \in Taken(c) : \A t \in Taken(c) : t.num <= r.num
  <2>4. top \in Taken(c)
    BY <2>3
  <2>5. NextAfter(c) = top.num + 1
    BY <1>6 DEF NextAfter
  <2>6. top.num + 1 \in Nat
    BY <1>3, <2>4
  <2> QED BY <1>4, <2>5, <2>6
<1> QED BY <1>4, <1>5, <1>6
------------------------------------------------------------------------------
LEMMA SegmentTypes ==
  /\ \A b \in BOOLEAN, s \in {"NEXT", "FIRST", "LAST"} : NewSegment(b, s) \in Segments
  /\ \A how \in {"down", "closed"} : NoSegment(how) \in Segments
BY DEF NewSegment, NoSegment, Segments, DeliveryAssumption

(* A segment that is answered, a table entry that is served. *)
LEMMA AnsweredType ==
  ASSUME NEW s \in Segments, NEW n \in Nat, NEW d \in SUBSET Nat
  PROVE  /\ [s EXCEPT !.phase = "answered"] \in Segments
         /\ [s EXCEPT !.phase = "answered", !.seqdbuf = "NEXT", !.next_data = n, !.data = d]
              \in Segments
<1>1. [s EXCEPT !.phase = "answered"] \in Segments
  BY DEF Segments
<1>2. [s EXCEPT !.phase = "answered", !.seqdbuf = "NEXT", !.next_data = n, !.data = d]
        \in Segments
  BY DEF Segments
<1> QED BY <1>1, <1>2

LEMMA ServedType ==
  ASSUME NEW e \in Entries, NEW b \in BOOLEAN
  PROVE  [e EXCEPT !.known = TRUE, !.active = TRUE, !.quiet = FALSE, !.blocking = b] \in Entries
BY DEF Entries

LEMMA ServedDataType ==
  ASSUME NEW e \in Entries, NEW b \in BOOLEAN, NEW l \in [Queues -> Marks]
  PROVE  [e EXCEPT !.known = TRUE, !.active = TRUE, !.quiet = FALSE, !.blocking = b, !.last = l]
           \in Entries
BY DEF Entries

LEMMA TypeInit == Init => TypeOK
<1> SUFFICES ASSUME Init PROVE TypeOK
  OBVIOUS
<1>1. RingsTypeOK
  <2>1. \A q \in Queues : 0 \in Places(q)
    BY DEF Places, RingsAssumption
  <2>2. (CHOOSE k \in Kinds : TRUE) \in Kinds /\ 0 \in 0 .. MaxRecords
    BY DEF RingsAssumption
  <2>3. Blockers \in SUBSET Clients
    BY DEF DeliveryAssumption
  <2> QED BY <2>1, <2>2, <2>3 DEF Init, RingsInit, RingsTypeOK, Elements
<1>2. table \in [Clients -> Entries]
  BY DEF Init, Entries, Marks, NoLast, NoPlace
<1>3. \A c \in Clients, q \in Queues : table[c].last[q].scan \in Places(q) \cup {NoPlace}
  BY DEF Init, NoLast
<1>4. seg \in [Clients -> Segments]
  BY SegmentTypes DEF Init
<1>5. got \in [Clients -> SUBSET Nat] /\ acked \in [Clients -> SUBSET Nat]
  BY DEF Init
<1>6. /\ lapped \in SUBSET Clients /\ resumed \in SUBSET Clients
      /\ starts \in [Clients -> 0 .. MaxStarts]
  BY DEF Init, DeliveryAssumption
<1> QED BY <1>1, <1>2, <1>3, <1>4, <1>5, <1>6 DEF TypeOK

LEMMA TypeQueueRecord ==
  ASSUME TypeOK, NEW q \in Queues, NEW k \in Kinds, QueueRecord(q, k)
  PROVE  TypeOK'
<1> DEFINE new == [num |-> nextData, kind |-> k, blockmap |-> blockmask]
           next == Succ(q, head[q])
<1>1. /\ elem = [r \in Queues |-> elem[r]] /\ \A r \in Queues : elem[r] \in [Places(r) -> Elements]
      /\ head \in [Queues -> Nat] /\ \A r \in Queues : head[r] \in Places(r)
      /\ tail \in [Queues -> Nat] /\ \A r \in Queues : tail[r] \in Places(r)
      /\ nextData \in 0 .. MaxRecords /\ blockmask \in SUBSET Clients
  BY DEF TypeOK, RingsTypeOK
<1>2. /\ nextData < MaxRecords /\ nextData' = nextData + 1 /\ blockmask' = blockmask
      /\ head' = [head EXCEPT ![q] = next]
      /\ elem' = [elem EXCEPT ![q][head[q]] = new]
      /\ tail' = IF next = tail[q] THEN [tail EXCEPT ![q] = Succ(q, next)] ELSE tail
  BY DEF QueueRecord, GetBuffer
<1>3. next \in Places(q) /\ Succ(q, next) \in Places(q) /\ Places(q) \subseteq Nat
  <2>1. next \in Places(q) /\ Count[q] \in Nat
    BY <1>1, RingPlaces
  <2> QED BY <2>1, RingPlaces DEF Places
<1>4. new \in Elements
  BY <1>1 DEF Elements
<1>5. elem' = [r \in Queues |-> elem'[r]] /\ \A r \in Queues : elem'[r] \in [Places(r) -> Elements]
  <2> HIDE DEF new
  <2>1. elem' = [r \in Queues |-> IF r = q THEN [elem[q] EXCEPT ![head[q]] = new] ELSE elem[r]]
    BY <1>1, <1>2
  <2> QED BY <1>1, <1>4, <2>1
<1>6. head' \in [Queues -> Nat] /\ \A r \in Queues : head'[r] \in Places(r)
  <2> HIDE DEF next
  <2> QED BY <1>1, <1>2, <1>3
<1>7. tail' \in [Queues -> Nat] /\ \A r \in Queues : tail'[r] \in Places(r)
  <2> HIDE DEF next
  <2> QED BY <1>1, <1>2, <1>3
<1>8. nextData' \in 0 .. MaxRecords /\ blockmask' \in SUBSET Clients
  BY <1>1, <1>2 DEF RingsAssumption
<1> QED BY <1>5, <1>6, <1>7, <1>8 DEF TypeOK, RingsTypeOK, QueueRecord, clientVars

(* The steps that leave the rings' places alone: what they must show of    *)
(* the elements, the mask and the clients' variables.                      *)
LEMMA TypeByParts ==
  ASSUME TypeOK, UNCHANGED << head, tail, nextData >>,
         RingElems(elem'), blockmask' \in SUBSET Clients,
         table' \in [Clients -> Entries],
         \A c \in Clients, q \in Queues : table'[c].last[q].scan \in Places(q) \cup {NoPlace},
         seg' \in [Clients -> Segments],
         got' \in [Clients -> SUBSET Nat], acked' \in [Clients -> SUBSET Nat],
         lapped' \in SUBSET Clients, resumed' \in SUBSET Clients,
         starts' \in [Clients -> 0 .. MaxStarts]
  PROVE  TypeOK'
BY DEF TypeOK, RingsTypeOK, RingElems

LEMMA TypeServe ==
  ASSUME TypeOK, NEW c \in Clients, Serve(c)
  PROVE  TypeOK'
<1>1. RingElems(elem) /\ table \in [Clients -> Entries] /\ seg \in [Clients -> Segments]
  BY DEF TypeOK, RingsTypeOK, RingElems
<1>2. \A d \in Clients, q \in Queues : table[d].last[q].scan \in Places(q) \cup {NoPlace}
  BY DEF TypeOK
<1>3. NoSegment("down") \in Segments
  BY SegmentTypes
<1>4. blockmask' \in SUBSET Clients /\ UNCHANGED << head, tail, nextData, got, resumed, starts >>
  BY RegistrationType DEF Serve
<1>5. /\ got' \in [Clients -> SUBSET Nat] /\ resumed' \in SUBSET Clients
      /\ starts' \in [Clients -> 0 .. MaxStarts]
  BY <1>4 DEF TypeOK
<1>6. CASE ServeAttach(c)
  <2>1. RingElems(elem')
    BY <1>6, RegistrationType DEF ServeAttach
  <2>2. table' \in [Clients -> Entries]
    <3> DEFINE entry == [table[c] EXCEPT !.known = TRUE, !.active = TRUE, !.quiet = FALSE,
                                         !.blocking = EntryBlocking(c)]
    <3>1. table' = [table EXCEPT ![c] = entry]
      BY <1>1, <1>6 DEF ServeAttach
    <3>2. entry \in Entries
      BY <1>1, RegistrationType, ServedType
    <3> HIDE DEF entry
    <3> QED BY <1>1, <3>1, <3>2
  <2>3. \A d \in Clients, q \in Queues : table'[d].last[q].scan \in Places(q) \cup {NoPlace}
    BY <1>1, <1>2, <1>6 DEF ServeAttach, Entries
  <2>4. seg' \in [Clients -> Segments]
    <3> DEFINE answer == [seg[c] EXCEPT !.phase = "answered"]
    <3>1. answer \in Segments
      BY <1>1, AnsweredType
    <3>2. seg' = [seg EXCEPT ![c] = IF seg[c].alive THEN answer ELSE NoSegment("down")]
      BY <1>6 DEF ServeAttach
    <3> HIDE DEF answer
    <3> QED BY <1>1, <1>3, <3>1, <3>2
  <2>5. acked' \in [Clients -> SUBSET Nat] /\ lapped' \in SUBSET Clients
    BY <1>6 DEF ServeAttach, TypeOK
  <2> QED BY <1>4, <1>5, <2>1, <2>2, <2>3, <2>4, <2>5, TypeByParts
<1>7. CASE ServeData(c)
  <2>1. RingElems(elem')
    <3> SUFFICES ASSUME NEW q \in Queues, NEW i \in Places(q)
                 PROVE  (IF EntryBlocking(c) /\ i \in Acked(c, q)
                           THEN [elem[q][i] EXCEPT !.blockmap = @ \ {c}]
                           ELSE ElemAfter(c)[q][i]) \in Elements
      BY <1>7 DEF ServeData, RingElems
    <3>1. elem[q][i] \in Elements /\ ElemAfter(c)[q][i] \in Elements
      BY <1>1, RegistrationType DEF RingElems
    <3>2. [elem[q][i] EXCEPT !.blockmap = @ \ {c}] \in Elements
      BY <3>1 DEF Elements
    <3> QED BY <3>1, <3>2
  <2> DEFINE last == [q \in Queues |-> LastAfter(c, q)]
             entry == [table[c] EXCEPT !.known = TRUE, !.active = TRUE, !.quiet = FALSE,
                                       !.blocking = EntryBlocking(c), !.last = last]
  <2>2. last \in [Queues -> Marks]
    BY WalkType
  <2>3. table' = [table EXCEPT ![c] = entry]
    BY <1>1, <1>7 DEF ServeData
  <2>4. entry \in Entries /\ entry.last = last
    <3>1. table[c] \in Entries /\ EntryBlocking(c) \in BOOLEAN
      BY <1>1, RegistrationType
    <3> HIDE DEF last
    <3>2. entry \in Entries
      BY <2>2, <3>1, ServedDataType
    <3>3. entry.last = last
      BY <3>1 DEF Entries
    <3> QED BY <3>2, <3>3
  <2>5. table' \in [Clients -> Entries]
    <3> HIDE DEF entry
    <3> QED BY <1>1, <2>3, <2>4
  <2>6. \A d \in Clients, q \in Queues : table'[d].last[q].scan \in Places(q) \cup {NoPlace}
    <3>1. \A q \in Queues : last[q].scan \in Places(q) \cup {NoPlace}
      BY WalkType
    <3> HIDE DEF entry, last
    <3> QED BY <1>1, <1>2, <2>3, <2>4, <3>1
  <2>7. seg' \in [Clients -> Segments]
    <3> DEFINE answer == [seg[c] EXCEPT !.phase = "answered", !.seqdbuf = "NEXT",
                                        !.next_data = NextAfter(c), !.data = Delivered(c)]
    <3>1. answer \in Segments
      BY <1>1, AnswerType, AnsweredType
    <3>2. seg' = [seg EXCEPT ![c] = IF seg[c].alive THEN answer ELSE NoSegment("down")]
      BY <1>7 DEF ServeData
    <3> HIDE DEF answer
    <3> QED BY <1>1, <1>3, <3>1, <3>2
  <2>8. acked' \in [Clients -> SUBSET Nat]
    <3>1. Acknowledged(c) \in SUBSET Nat
      <4>1. \A q \in Queues : \A i \in Acked(c, q) : elem[q][i].num \in Nat
        BY <1>1 DEF RingElems, Acked, Elements
      <4> QED BY <4>1 DEF Acknowledged
    <3> QED BY <1>7, <3>1 DEF ServeData, TypeOK
  <2>9. lapped' \in SUBSET Clients
    BY <1>7 DEF ServeData, TypeOK
  <2> QED BY <1>4, <1>5, <2>1, <2>5, <2>6, <2>7, <2>8, <2>9, TypeByParts
<1> QED BY <1>6, <1>7 DEF Serve

(* What else can become of a segment and of a table entry. *)
LEMMA SegmentSteps ==
  ASSUME NEW s \in Segments
  PROVE  /\ [s EXCEPT !.phase = "asking", !.command = "ATTACH"] \in Segments
         /\ \A n \in 0 .. DataBufs :
              [s EXCEPT !.phase = "asking", !.command = "DATA_BLK", !.data = {}, !.reqdbuf = n]
                \in Segments
         /\ \A p \in {"idle", "fresh"} : [s EXCEPT !.data = {}, !.phase = p] \in Segments
         /\ [s EXCEPT !.phase = "fresh"] \in Segments
         /\ [s EXCEPT !.alive = FALSE] \in Segments
<1>1. [s EXCEPT !.phase = "asking", !.command = "ATTACH"] \in Segments
  BY DEF Segments
<1>2. ASSUME NEW n \in 0 .. DataBufs
      PROVE  [s EXCEPT !.phase = "asking", !.command = "DATA_BLK", !.data = {}, !.reqdbuf = n]
               \in Segments
  BY DEF Segments
<1>3. ASSUME NEW p \in {"idle", "fresh"}
      PROVE  [s EXCEPT !.data = {}, !.phase = p] \in Segments
  BY DEF Segments
<1>4. [s EXCEPT !.phase = "fresh"] \in Segments /\ [s EXCEPT !.alive = FALSE] \in Segments
  BY DEF Segments
<1> QED BY <1>1, <1>2, <1>3, <1>4

LEMMA ForgottenType ==
  ASSUME NEW e \in Entries
  PROVE  [e EXCEPT !.known = FALSE] \in Entries
BY DEF Entries

LEMMA TypeServer ==
  ASSUME TypeOK, NEW c \in Clients, CheckClient(c) \/ FallQuiet(c) \/ UnblockCommand(c)
  PROVE  TypeOK'
<1>1. /\ RingElems(elem) /\ table \in [Clients -> Entries] /\ seg \in [Clients -> Segments]
      /\ blockmask \in SUBSET Clients
      /\ \A d \in Clients, q \in Queues : table[d].last[q].scan \in Places(q) \cup {NoPlace}
  BY DEF TypeOK, RingsTypeOK, RingElems
<1>2. RingElems(Unblocked(c))
  BY <1>1, UnblockedType
<1>3. UNCHANGED << head, tail, nextData, got, acked, lapped, resumed, starts >>
  BY DEF CheckClient, Detach, FallQuiet, UnblockCommand, ringVars
<1>4. /\ got' \in [Clients -> SUBSET Nat] /\ acked' \in [Clients -> SUBSET Nat]
      /\ lapped' \in SUBSET Clients /\ resumed' \in SUBSET Clients
      /\ starts' \in [Clients -> 0 .. MaxStarts]
  BY <1>3 DEF TypeOK
<1>5. RingElems(elem') /\ blockmask' \in SUBSET Clients
  BY <1>1, <1>2 DEF CheckClient, Detach, FallQuiet, UnblockCommand, ringVars
<1>6. seg' \in [Clients -> Segments]
  BY <1>1, SegmentTypes DEF CheckClient, FallQuiet, UnblockCommand
<1>7. /\ table' \in [Clients -> Entries]
      /\ \A d \in Clients, q \in Queues : table'[d].last[q].scan \in Places(q) \cup {NoPlace}
  <2>1. \E e \in Entries : e.last = table[c].last /\ table' = [table EXCEPT ![c] = e]
    <3>1. CASE CheckClient(c)
      <4> DEFINE b == IF TimedOut(c) THEN FALSE ELSE table[c].active
                 e == [table[c] EXCEPT !.known = FALSE, !.active = b]
      <4>1. table' = [table EXCEPT ![c] = e]
        BY <1>1, <3>1 DEF CheckClient, Detach
      <4>2. e \in Entries /\ e.last = table[c].last
        <5>1. table[c] \in Entries /\ b \in BOOLEAN
          BY <1>1 DEF Entries
        <5> HIDE DEF b
        <5> QED BY <5>1 DEF Entries
      <4> HIDE DEF e
      <4> QED BY <4>1, <4>2
    <3>2. CASE FallQuiet(c)
      <4> DEFINE e == [table[c] EXCEPT !.quiet = TRUE]
      <4>1. table' = [table EXCEPT ![c] = e]
        BY <1>1, <3>2 DEF FallQuiet
      <4>2. e \in Entries /\ e.last = table[c].last
        BY <1>1 DEF Entries
      <4> HIDE DEF e
      <4> QED BY <4>1, <4>2
    <3>3. CASE UnblockCommand(c)
      BY <1>1, <3>3 DEF UnblockCommand
    <3> QED BY <3>1, <3>2, <3>3
  <2> QED BY <1>1, <2>1
<1> QED BY <1>3, <1>4, <1>5, <1>6, <1>7, TypeByParts

(* The steps of a client program change its segment and, at a start, what  *)
(* the server's entry refers to.                                           *)
LEMMA TypeStart ==
  ASSUME TypeOK, NEW c \in Clients, NEW b \in Blocking, NEW s \in Starts, Start(c, b, s)
  PROVE  TypeOK'
<1>1. /\ RingElems(elem) /\ table \in [Clients -> Entries] /\ seg \in [Clients -> Segments]
      /\ \A d \in Clients, q \in Queues : table[d].last[q].scan \in Places(q) \cup {NoPlace}
      /\ blockmask \in SUBSET Clients /\ starts \in [Clients -> 0 .. MaxStarts]
  BY DEF TypeOK, RingsTypeOK, RingElems
<1>2. b \in BOOLEAN /\ s \in {"NEXT", "FIRST", "LAST"}
  BY DEF DeliveryAssumption
<1>3. seg' \in [Clients -> Segments]
  BY <1>1, <1>2, SegmentTypes DEF Start
<1>4. starts' \in [Clients -> 0 .. MaxStarts] /\ resumed' \in SUBSET Clients
  <2>1. resumed \in SUBSET Clients
    BY DEF TypeOK
  <2> QED BY <1>1, <2>1 DEF Start, DeliveryAssumption
<1>5. table' = [table EXCEPT ![c] = [table[c] EXCEPT !.known = FALSE]]
  BY <1>1 DEF Start
<1>6. [table[c] EXCEPT !.known = FALSE] \in Entries
  BY <1>1, ForgottenType
<1>7. [table[c] EXCEPT !.known = FALSE].last = table[c].last
  BY <1>1 DEF Entries
<1>8. /\ table' \in [Clients -> Entries]
      /\ \A d \in Clients, q \in Queues : table'[d].last[q].scan \in Places(q) \cup {NoPlace}
  BY <1>1, <1>5, <1>6, <1>7
<1>9. UNCHANGED << ringVars, got, acked, lapped >>
  BY DEF Start
<1> QED BY <1>1, <1>3, <1>4, <1>8, <1>9, TypeByParts DEF TypeOK, ringVars

LEMMA TypeClient ==
  ASSUME TypeOK, NEW c \in Clients,
         \/ AskAttach(c) \/ Scan(c) \/ Return(c) \/ ReturnLate(c) \/ GiveUp(c) \/ Die(c)
         \/ Terminate(c)
  PROVE  TypeOK'
<1>1. RingElems(elem) /\ seg \in [Clients -> Segments] /\ got \in [Clients -> SUBSET Nat]
  BY DEF TypeOK, RingsTypeOK, RingElems
<1>2. NoSegment("down") \in Segments /\ NoSegment("closed") \in Segments
  BY SegmentTypes
<1>3. UNCHANGED << ringVars, table, acked, lapped, resumed, starts >>
  BY DEF AskAttach, Scan, AskData, Return, ReturnLate, Finish, GiveUp, Die, Terminate
<1>4. got' \in [Clients -> SUBSET Nat]
  <2>1. seg[c].data \in SUBSET Nat
    BY <1>1 DEF Segments
  <2> QED BY <1>1, <2>1
          DEF AskAttach, Scan, AskData, Return, ReturnLate, Finish, GiveUp, Die, Terminate
<1>5. \E s \in Segments : seg' = [seg EXCEPT ![c] = s]
  <2>1. CASE AskAttach(c)
    <3> DEFINE s == [seg[c] EXCEPT !.phase = "asking", !.command = "ATTACH"]
    <3>1. s \in Segments
      BY <1>1, SegmentSteps
    <3>2. seg' = [seg EXCEPT ![c] = s]
      BY <1>1, <2>1 DEF AskAttach
    <3> HIDE DEF s
    <3> QED BY <3>1, <3>2
  <2>2. ASSUME NEW n \in 0 .. DataBufs, AskData(c, n)
        PROVE  \E s \in Segments : seg' = [seg EXCEPT ![c] = s]
    <3> DEFINE s == [seg[c] EXCEPT !.phase = "asking", !.command = "DATA_BLK",
                                   !.data = {}, !.reqdbuf = n]
    <3>1. s \in Segments
      BY <1>1, SegmentSteps
    <3>2. seg' = [seg EXCEPT ![c] = s]
      BY <1>1, <2>2 DEF AskData
    <3> HIDE DEF s
    <3> QED BY <3>1, <3>2
  <2>3. 0 \in 0 .. DataBufs /\ DataBufs \in 0 .. DataBufs
    BY DEF DeliveryAssumption
  <2>4. ASSUME NEW status, Finish(c, status)
        PROVE  \E s \in Segments : seg' = [seg EXCEPT ![c] = s]
    <3> DEFINE s == [seg[c] EXCEPT !.data = {},
                                   !.phase = IF status = "GOOD" THEN "idle" ELSE "fresh"]
    <3>1. s \in Segments
      BY <1>1, SegmentSteps
    <3>2. \/ seg' = [seg EXCEPT ![c] = NoSegment("closed")]
          \/ seg' = [seg EXCEPT ![c] = s]
      BY <1>1, <2>4 DEF Finish
    <3> HIDE DEF s
    <3> QED BY <1>2, <3>1, <3>2
  <2>5. CASE GiveUp(c)
    <3> DEFINE s == [seg[c] EXCEPT !.phase = "fresh"]
    <3>1. s \in Segments
      BY <1>1, SegmentSteps
    <3>2. seg' = [seg EXCEPT ![c] = NoSegment("closed")] \/ seg' = [seg EXCEPT ![c] = s]
      BY <1>1, <2>5 DEF GiveUp
    <3> HIDE DEF s
    <3> QED BY <1>2, <3>1, <3>2
  <2>6. CASE Die(c)
    <3> DEFINE s == [seg[c] EXCEPT !.alive = FALSE]
    <3>1. s \in Segments
      BY <1>1, SegmentSteps
    <3>2. seg' = [seg EXCEPT ![c] = NoSegment("down")] \/ seg' = [seg EXCEPT ![c] = s]
      BY <1>1, <2>6 DEF Die
    <3> HIDE DEF s
    <3> QED BY <1>2, <3>1, <3>2
  <2>7. CASE Terminate(c)
    BY <1>2, <2>2, <2>3, <2>7 DEF Terminate
  <2> QED BY <2>1, <2>2, <2>3, <2>4, <2>5, <2>6, <2>7 DEF Scan, Return, ReturnLate
<1>6. seg' \in [Clients -> Segments]
  BY <1>1, <1>5
<1> QED BY <1>3, <1>4, <1>6 DEF TypeOK, RingsTypeOK, ringVars, Places, Elements

LEMMA TypeStep ==
  ASSUME TypeOK, [Next]_vars
  PROVE  TypeOK'
<1>1. ASSUME NEW q \in Queues, NEW k \in Kinds, QueueRecord(q, k) PROVE TypeOK'
  BY <1>1, TypeQueueRecord
<1>2. ASSUME NEW c \in Clients, Serve(c) PROVE TypeOK'
  BY <1>2, TypeServe
<1>3. ASSUME NEW c \in Clients, CheckClient(c) \/ FallQuiet(c) \/ UnblockCommand(c)
      PROVE  TypeOK'
  BY <1>3, TypeServer
<1>4. ASSUME NEW c \in Clients, Client(c) PROVE TypeOK'
  <2>1. ASSUME NEW b \in Blocking, NEW s \in Starts, Start(c, b, s) PROVE TypeOK'
    BY <2>1, TypeStart
  <2> QED BY <1>4, <2>1, TypeClient DEF Client
<1>5. CASE UNCHANGED vars
  BY <1>5 DEF vars, ringVars, clientVars, TypeOK, RingsTypeOK
<1> QED BY <1>1, <1>2, <1>3, <1>4, <1>5 DEF Next, Server

(* Every variable keeps its type: walks, answers and time-outs included.   *)
THEOREM TypeCorrect == Spec => []TypeOK
<1>1. TypeOK /\ [Next]_vars => TypeOK'
  BY TypeStep
<1> QED BY <1>1, TypeInit, PTL DEF Spec
------------------------------------------------------------------------------
(* Who owns the bits.  No step but the queueing of a record gives an       *)
(* element a bit or a number; and the records themselves turn round with   *)
(* the ring.                                                               *)
Releases ==
  \A q \in Queues : \A i \in Places(q) :
    /\ elem'[q][i].num = elem[q][i].num
    /\ elem'[q][i].blockmap \subseteq elem[q][i].blockmap

LEMMA Cleared ==
  ASSUME NEW x \in Elements, NEW c
  PROVE  /\ [x EXCEPT !.blockmap = @ \ {c}].num = x.num
         /\ [x EXCEPT !.blockmap = @ \ {c}].blockmap = x.blockmap \ {c}
BY DEF Elements

LEMMA UnblockedReleases ==
  ASSUME RingElems(elem), NEW c \in Clients, NEW q \in Queues, NEW i \in Places(q)
  PROVE  /\ Unblocked(c)[q][i].num = elem[q][i].num
         /\ Unblocked(c)[q][i].blockmap = elem[q][i].blockmap \ {c}
<1>1. elem[q][i] \in Elements
  BY DEF RingElems
<1>2. Unblocked(c)[q][i] = [elem[q][i] EXCEPT !.blockmap = @ \ {c}]
  BY DEF Unblocked
<1> QED BY <1>1, <1>2 DEF Elements

LEMMA ElemAfterReleases ==
  ASSUME RingElems(elem), NEW c \in Clients, NEW q \in Queues, NEW i \in Places(q)
  PROVE  /\ ElemAfter(c)[q][i].num = elem[q][i].num
         /\ ElemAfter(c)[q][i].blockmap =
              IF Elects(c) /\ ~ seg[c].blocking THEN elem[q][i].blockmap \ {c}
                                               ELSE elem[q][i].blockmap
BY UnblockedReleases DEF ElemAfter

LEMMA ServeReleases ==
  ASSUME TypeOK, NEW c \in Clients, Serve(c)
  PROVE  /\ Releases
         /\ \A q \in Queues : \A i \in Places(q) :
              Elects(c) /\ ~ seg[c].blocking => c \notin elem'[q][i].blockmap
<1>1. RingElems(elem)
  BY DEF TypeOK, RingsTypeOK, RingElems
<1> SUFFICES ASSUME NEW q \in Queues, NEW i \in Places(q)
             PROVE  /\ elem'[q][i].num = elem[q][i].num
                    /\ elem'[q][i].blockmap \subseteq elem[q][i].blockmap
                    /\ Elects(c) /\ ~ seg[c].blocking => c \notin elem'[q][i].blockmap
  BY DEF Releases
<1>2. elem[q][i] \in Elements
  BY <1>1 DEF RingElems
<1>3. CASE ServeAttach(c)
  <2>1. elem'[q][i] = ElemAfter(c)[q][i]
    BY <1>3 DEF ServeAttach
  <2>2. /\ elem'[q][i].num = elem[q][i].num
        /\ elem'[q][i].blockmap = IF Elects(c) /\ ~ seg[c].blocking
                                    THEN elem[q][i].blockmap \ {c}
                                    ELSE elem[q][i].blockmap
    BY <1>1, <2>1, ElemAfterReleases
  <2> QED BY <2>2
<1>4. CASE ServeData(c)
  <2>1. elem'[q][i] = IF EntryBlocking(c) /\ i \in Acked(c, q)
                        THEN [elem[q][i] EXCEPT !.blockmap = @ \ {c}]
                        ELSE ElemAfter(c)[q][i]
    BY <1>4 DEF ServeData
  <2>2. CASE EntryBlocking(c) /\ i \in Acked(c, q)
    <3>1. ~ (Elects(c) /\ ~ seg[c].blocking)
      BY <2>2 DEF EntryBlocking
    <3>2. elem'[q][i] = [elem[q][i] EXCEPT !.blockmap = @ \ {c}]
      BY <2>1, <2>2
    <3>3. /\ elem'[q][i].num = elem[q][i].num
          /\ elem'[q][i].blockmap = elem[q][i].blockmap \ {c}
      BY <1>2, <3>2, Cleared
    <3> QED BY <3>1, <3>3
  <2>3. CASE ~ (EntryBlocking(c) /\ i \in Acked(c, q))
    <3>1. elem'[q][i] = ElemAfter(c)[q][i]
      BY <2>1, <2>3
    <3>2. /\ elem'[q][i].num = elem[q][i].num
          /\ elem'[q][i].blockmap = IF Elects(c) /\ ~ seg[c].blocking
                                      THEN elem[q][i].blockmap \ {c}
                                      ELSE elem[q][i].blockmap
      BY <1>1, <3>1, ElemAfterReleases
    <3> QED BY <3>2
  <2> QED BY <2>2, <2>3
<1> QED BY <1>3, <1>4 DEF Serve

LEMMA DropReleases ==
  ASSUME TypeOK, NEW c \in Clients, CheckClient(c) \/ UnblockCommand(c)
  PROVE  /\ Releases
         /\ c \notin blockmask' =>
              \/ elem' = Unblocked(c)
              \/ UNCHANGED << elem, blockmask >>
         /\ blockmask' \in {blockmask, blockmask \ {c}}
<1>1. RingElems(elem)
  BY DEF TypeOK, RingsTypeOK, RingElems
<1>2. elem' = Unblocked(c) \/ elem' = elem
  BY DEF CheckClient, Detach, UnblockCommand
<1>3. Releases
  BY <1>1, <1>2, UnblockedReleases DEF Releases
<1> QED BY <1>3 DEF CheckClient, Detach, UnblockCommand

(* What QueueRecord does to each element. *)
LEMMA QueuedElements ==
  ASSUME TypeOK, NEW q \in Queues, NEW k \in Kinds, QueueRecord(q, k)
  PROVE  \A r \in Queues : \A i \in Places(r) :
           elem'[r][i] = IF r = q /\ i = head[q]
                           THEN [num |-> nextData, kind |-> k, blockmap |-> blockmask]
                           ELSE elem[r][i]
<1>1. elem = [s \in Queues |-> elem[s]] /\ elem[q] \in [Places(q) -> Elements]
  BY DEF TypeOK, RingsTypeOK
<1>2. elem' = [elem EXCEPT ![q][head[q]] =
                 [num |-> nextData, kind |-> k, blockmap |-> blockmask]]
  BY DEF QueueRecord, GetBuffer
<1> QED BY <1>1, <1>2
------------------------------------------------------------------------------
(* The bits: inductive with the types. *)
BitsInv == TypeOK /\ BitsOnlyOfMask /\ BlockersCanTimeOut

LEMMA BitsInit == Init => BitsInv
<1> SUFFICES ASSUME Init PROVE BitsInv
  OBVIOUS
<1>1. BitsOnlyOfMask
  BY DEF Init, RingsInit, BitsOnlyOfMask
<1>2. BlockersCanTimeOut
  BY DEF Init, RingsInit, BlockersCanTimeOut, DeliveryAssumption
<1> QED BY <1>1, <1>2, TypeInit DEF BitsInv

LEMMA BitsStep ==
  ASSUME BitsInv, [Next]_vars, TypeOK'
  PROVE  BitsInv'
<1> USE DEF BitsInv
<1>0. table \in [Clients -> Entries] /\ blockmask \in SUBSET Clients
  BY DEF TypeOK, RingsTypeOK
<1>1. ASSUME NEW q \in Queues, NEW k \in Kinds, QueueRecord(q, k) PROVE BitsInv'
  <2>1. BitsOnlyOfMask'
    BY <1>1, QueuedElements DEF BitsOnlyOfMask, QueueRecord, GetBuffer
  <2>2. BlockersCanTimeOut'
    BY <1>1 DEF BlockersCanTimeOut, QueueRecord, GetBuffer, clientVars
  <2> QED BY <2>1, <2>2
<1>2. ASSUME NEW c \in Clients, Serve(c) PROVE BitsInv'
  <2>1. blockmask' = MaskAfter(c)
    BY <1>2 DEF Serve
  <2>2. BitsOnlyOfMask'
    BY <1>2, <2>1, ServeReleases DEF BitsOnlyOfMask, Releases, MaskAfter
  <2>3. BlockersCanTimeOut'
    <3>1. table'[c].blocking = EntryBlocking(c) /\ table'[c].active
      BY <1>0, <1>2 DEF Serve, ServeAttach, ServeData, Entries
    <3>2. \A d \in Clients \ {c} : table'[d] = table[d]
      BY <1>0, <1>2 DEF Serve, ServeAttach, ServeData
    <3>3. c \in blockmask' => EntryBlocking(c)
      BY <2>1 DEF MaskAfter, EntryBlocking, BlockersCanTimeOut
    <3>4. \A d \in Clients \ {c} : d \in blockmask' => d \in blockmask
      BY <2>1 DEF MaskAfter
    <3>5. blockmask' \subseteq Clients
      BY DEF TypeOK, RingsTypeOK
    <3> QED BY <3>1, <3>2, <3>3, <3>4, <3>5 DEF BlockersCanTimeOut
  <2> QED BY <2>2, <2>3
<1>3. ASSUME NEW c \in Clients, CheckClient(c) \/ UnblockCommand(c) PROVE BitsInv'
  <2>1. RingElems(elem)
    BY DEF TypeOK, RingsTypeOK, RingElems
  <2>2. BitsOnlyOfMask'
    <3>1. CASE c \in blockmask'
      <4>1. blockmask' = blockmask
        BY <1>3, <3>1, DropReleases
      <4> QED BY <1>3, <4>1, DropReleases DEF BitsOnlyOfMask, Releases
    <3>2. CASE c \notin blockmask'
      <4>1. CASE elem' = Unblocked(c)
        BY <1>3, <2>1, <4>1, DropReleases, UnblockedReleases DEF BitsOnlyOfMask
      <4>2. CASE UNCHANGED << elem, blockmask >>
        BY <4>2 DEF BitsOnlyOfMask
      <4> QED BY <1>3, <3>2, <4>1, <4>2, DropReleases
    <3> QED BY <3>1, <3>2
  <2>3. BlockersCanTimeOut'
    <3>1. CASE CheckClient(c)
      <4>1. \A d \in Clients : table'[d].blocking = table[d].blocking
        BY <1>0, <3>1 DEF CheckClient, Detach, Entries
      <4>2. \A d \in Clients : d # c \/ ~ TimedOut(c) => table'[d].active = table[d].active
        BY <1>0, <3>1 DEF CheckClient, Detach, Entries
      <4>3. blockmask' = IF TimedOut(c) THEN blockmask \ {c} ELSE blockmask
        BY <3>1 DEF CheckClient, Detach
      <4> QED BY <1>0, <4>1, <4>2, <4>3 DEF BlockersCanTimeOut
    <3>2. CASE UnblockCommand(c)
      BY <3>2 DEF UnblockCommand, BlockersCanTimeOut
    <3> QED BY <1>3, <3>1, <3>2
  <2> QED BY <2>2, <2>3
<1>4. ASSUME NEW c \in Clients, FallQuiet(c) \/ Client(c) PROVE BitsInv'
  <2>1. UNCHANGED ringVars
    BY <1>4 DEF FallQuiet, Client, Start, AskAttach, Scan, AskData, Return, ReturnLate, Finish,
                GiveUp, Die, Terminate
  <2>2. \A d \in Clients : table'[d].blocking = table[d].blocking
                           /\ table'[d].active = table[d].active
    <3>1. CASE FallQuiet(c)
      BY <1>0, <3>1 DEF FallQuiet, Entries
    <3>2. CASE Client(c)
      <4>1. \/ table' = table
            \/ table' = [table EXCEPT ![c].known = FALSE]
        BY <3>2 DEF Client, Start, AskAttach, Scan, AskData, Return, ReturnLate, Finish,
                    GiveUp, Die, Terminate
      <4> QED BY <1>0, <4>1 DEF Entries
    <3> QED BY <1>4, <3>1, <3>2
  <2>3. blockmask \subseteq Clients
    BY <1>0
  <2> QED BY <2>1, <2>2, <2>3 DEF ringVars, BitsOnlyOfMask, BlockersCanTimeOut
<1>5. CASE UNCHANGED vars
  BY <1>5 DEF vars, ringVars, clientVars, BitsOnlyOfMask, BlockersCanTimeOut
<1> QED BY <1>1, <1>2, <1>3, <1>4, <1>5 DEF Next, Server

(* Whoever leaves the mask leaves no bit behind, and whoever is in it can  *)
(* be timed out: no ring is blocked in the name of a client that the       *)
(* server has no way to release.                                           *)
THEOREM BitsCorrect == Spec => [](BitsOnlyOfMask /\ BlockersCanTimeOut)
<1>1. BitsInv /\ [Next]_vars => BitsInv'
  BY TypeStep, BitsStep DEF BitsInv
<1>2. BitsInv => BitsOnlyOfMask /\ BlockersCanTimeOut
  BY DEF BitsInv
<1> QED BY <1>1, <1>2, BitsInit, PTL DEF Spec

(* Every client in the mask is one that check_clients can time out or find *)
(* dead, so no bit can keep a ring blocked without end (comserv_subs.c,    *)
(* check_clients).                                                         *)
THEOREM BlockersEnd == Spec => []BlockersCanTimeOut
BY BitsCorrect, PTL
------------------------------------------------------------------------------
(* The ring turns.  When the element after head becomes head, the element  *)
(* that was head joins the records held, and the new head leaves them.     *)
LEMMA SuccPlace ==
  ASSUME NEW q \in Queues, NEW i \in Places(q)
  PROVE  Succ(q, i) \in Places(q) /\ Succ(q, i) # i
BY RingsAssumption DEF Succ, Places

LEMMA Turn ==
  ASSUME NEW q \in Queues, NEW h \in Places(q), NEW t \in Places(q), NEW t2,
         t2 = IF Succ(q, h) = t THEN Succ(q, Succ(q, h)) ELSE t
  PROVE  /\ t2 \in Places(q)
         /\ \A i \in Places(q) :
              (Dist(q, t2, i) < Dist(q, t2, Succ(q, h)))
                <=> (i = h \/ (Dist(q, t, i) < Dist(q, t, h) /\ i # Succ(q, h)))
         /\ \A i, j \in Places(q) :
              /\ Dist(q, t2, i) < Dist(q, t2, j)
              /\ Dist(q, t2, j) < Dist(q, t2, Succ(q, h))
              => i # h /\ (j = h \/ Dist(q, t, i) < Dist(q, t, j))
<1>1. Count[q] \in Nat /\ Count[q] > 1
  BY RingsAssumption
<1>2. h \in Int /\ 0 <= h /\ h < Count[q] /\ t \in Int /\ 0 <= t /\ t < Count[q]
  BY <1>1 DEF Places
<1>3. ASSUME NEW i \in Places(q) PROVE i \in Int /\ 0 <= i /\ i < Count[q]
  BY <1>1 DEF Places
<1>4. t2 \in Places(q)
  BY SuccPlace
<1>5. ASSUME NEW i \in Places(q)
      PROVE  (Dist(q, t2, i) < Dist(q, t2, Succ(q, h)))
                <=> (i = h \/ (Dist(q, t, i) < Dist(q, t, h) /\ i # Succ(q, h)))
  BY <1>1, <1>2, <1>3, SMTT(30) DEF Dist, Succ
<1>6. ASSUME NEW i \in Places(q), NEW j \in Places(q),
             Dist(q, t2, i) < Dist(q, t2, j), Dist(q, t2, j) < Dist(q, t2, Succ(q, h))
      PROVE  i # h /\ (j = h \/ Dist(q, t, i) < Dist(q, t, j))
  BY <1>1, <1>2, <1>3, <1>6, SMTT(30) DEF Dist, Succ
<1> QED BY <1>4, <1>5, <1>6

(* A step that leaves the places alone and only releases keeps the shape. *)
Shape == BitsOnlyOnHeld /\ RecordsAscend

LEMMA ReleasesKeepShape ==
  ASSUME Shape, Releases, UNCHANGED << head, tail, nextData >>
  PROVE  Shape'
<1>1. \A q \in Queues : Held(q)' = Held(q) /\ Held(q) \subseteq Places(q)
  BY DEF Held, From
<1>2. BitsOnlyOnHeld'
  <2> SUFFICES ASSUME NEW q \in Queues, NEW i \in Places(q) \ Held(q)
               PROVE  elem'[q][i].blockmap = {}
    BY <1>1 DEF BitsOnlyOnHeld
  <2>1. elem[q][i].blockmap = {}
    BY DEF Shape, BitsOnlyOnHeld
  <2>2. elem'[q][i].blockmap \subseteq elem[q][i].blockmap
    BY DEF Releases
  <2> QED BY <2>1, <2>2
<1>3. RecordsAscend'
  <2> SUFFICES ASSUME NEW q \in Queues, NEW i \in Held(q), NEW j \in Held(q)
               PROVE  /\ elem'[q][i].num < nextData
                      /\ Dist(q, tail[q], i) < Dist(q, tail[q], j) =>
                           elem'[q][i].num < elem'[q][j].num
    BY <1>1 DEF RecordsAscend
  <2>1. elem'[q][i].num = elem[q][i].num /\ elem'[q][j].num = elem[q][j].num
    BY <1>1 DEF Releases
  <2> QED BY <2>1 DEF Shape, RecordsAscend
<1> QED BY <1>2, <1>3 DEF Shape

LEMMA QueueKeepsShape ==
  ASSUME TypeOK, Shape, NEW q \in Queues, NEW k \in Kinds, QueueRecord(q, k)
  PROVE  Shape'
<1> DEFINE h == head[q]
           t == tail[q]
           n == Succ(q, h)
           t2 == IF n = t THEN Succ(q, n) ELSE t
<1>1. h \in Places(q) /\ t \in Places(q) /\ head' = [head EXCEPT ![q] = n]
      /\ tail' = [tail EXCEPT ![q] = t2] /\ nextData' = nextData + 1 /\ nextData \in Nat
      /\ elem[q][n].blockmap = {} /\ n \in Places(q)
  <2>1. h \in Places(q) /\ t \in Places(q) /\ nextData \in Nat
        /\ head \in [Queues -> Nat] /\ tail \in [Queues -> Nat]
    BY DEF TypeOK, RingsTypeOK, RingsAssumption
  <2>2. n \in Places(q)
    BY <2>1, SuccPlace
  <2>3. elem[q][n].blockmap = {}
    BY DEF QueueRecord, GetBuffer, BufAvail
  <2>4. head' = [head EXCEPT ![q] = n] /\ nextData' = nextData + 1
    BY DEF QueueRecord, GetBuffer
  <2>5. tail' = IF n = t THEN [tail EXCEPT ![q] = Succ(q, n)] ELSE tail
    BY DEF QueueRecord, GetBuffer
  <2>6. tail' = [tail EXCEPT ![q] = t2]
    BY <2>1, <2>5
  <2> QED BY <2>1, <2>2, <2>3, <2>4, <2>6
<1>2. head'[q] = n /\ tail'[q] = t2
      /\ \A r \in Queues \ {q} : head'[r] = head[r] /\ tail'[r] = tail[r]
  BY <1>1 DEF TypeOK, RingsTypeOK
<1>3. \A r \in Queues \ {q} : \A i \in Places(r) : elem'[r][i] = elem[r][i]
  <2>1. \A r \in Queues : \A i \in Places(r) :
          elem'[r][i] = IF r = q /\ i = head[q]
                          THEN [num |-> nextData, kind |-> k, blockmap |-> blockmask]
                          ELSE elem[r][i]
    BY QueuedElements
  <2> QED BY <2>1
<1>4. ASSUME NEW i \in Places(q), i # h PROVE elem'[q][i] = elem[q][i]
  BY <1>4, QueuedElements
<1>5. elem'[q][h].num = nextData
  <2>1. elem'[q][h] = [num |-> nextData, kind |-> k, blockmap |-> blockmask]
    BY <1>1, QueuedElements
  <2> QED BY <2>1
<1>6. \A r \in Queues \ {q} : Held(r)' = Held(r) /\ Held(r) \subseteq Places(r)
  BY <1>2 DEF Held, From
<1>7. /\ \A i \in Places(q) : i \in Held(q)' <=> i = h \/ (i \in Held(q) /\ i # n)
      /\ \A i, j \in Places(q) :
           Dist(q, t2, i) < Dist(q, t2, j) /\ j \in Held(q)' =>
             i # h /\ (j = h \/ Dist(q, t, i) < Dist(q, t, j))
  <2> HIDE DEF h, t
  <2>1. /\ \A i \in Places(q) :
              (Dist(q, t2, i) < Dist(q, t2, n))
                <=> (i = h \/ (Dist(q, t, i) < Dist(q, t, h) /\ i # n))
        /\ \A i, j \in Places(q) :
              /\ Dist(q, t2, i) < Dist(q, t2, j)
              /\ Dist(q, t2, j) < Dist(q, t2, n)
              => i # h /\ (j = h \/ Dist(q, t, i) < Dist(q, t, j))
    BY <1>1, Turn
  <2>2. \A i \in Places(q) : i \in Held(q)' <=> Dist(q, t2, i) < Dist(q, t2, n)
    BY <1>2 DEF Held, From
  <2>3. \A i \in Places(q) : i \in Held(q) <=> Dist(q, t, i) < Dist(q, t, h)
    BY DEF Held, From, h, t
  <2> QED BY <2>1, <2>2, <2>3
<1>8. Held(q) \subseteq Places(q) /\ Held(q)' \subseteq Places(q)
  BY DEF Held, From
<1> HIDE DEF h, t, n, t2
<1>9. BitsOnlyOnHeld'
  <2> SUFFICES ASSUME NEW r \in Queues, NEW i \in Places(r), i \notin Held(r)'
               PROVE  elem'[r][i].blockmap = {}
    BY DEF BitsOnlyOnHeld
  <2>1. CASE r = q
    <3>1. i # h /\ (i \notin Held(q) \/ i = n)
      BY <1>7, <2>1
    <3>2. elem'[q][i] = elem[q][i]
      BY <1>4, <2>1, <3>1
    <3> QED BY <1>1, <2>1, <3>1, <3>2 DEF Shape, BitsOnlyOnHeld
  <2>2. CASE r # q
    BY <1>3, <1>6, <2>2 DEF Shape, BitsOnlyOnHeld
  <2> QED BY <2>1, <2>2
<1>10. RecordsAscend'
  <2> SUFFICES ASSUME NEW r \in Queues, NEW i \in Held(r)', NEW j \in Held(r)'
               PROVE  /\ elem'[r][i].num < nextData'
                      /\ Dist(r, tail'[r], i) < Dist(r, tail'[r], j) =>
                           elem'[r][i].num < elem'[r][j].num
    BY DEF RecordsAscend
  <2>1. CASE r = q
    <3>1. ASSUME NEW m \in Held(q)', m # h
          PROVE  m \in Held(q) /\ elem'[q][m] = elem[q][m]
      BY <1>4, <1>7, <1>8, <3>1
    <3>2. ASSUME NEW m \in Held(q) PROVE elem[q][m].num < nextData /\ elem[q][m].num \in Nat
      <4>1. elem[q][m] \in Elements
        BY <1>8 DEF TypeOK, RingsTypeOK
      <4> QED BY <4>1 DEF Shape, RecordsAscend, Elements
    <3>3. elem'[q][i].num < nextData'
      BY <1>1, <1>5, <2>1, <3>1, <3>2
    <3>4. ASSUME Dist(q, t2, i) < Dist(q, t2, j)
          PROVE  elem'[q][i].num < elem'[q][j].num
      <4>1. i # h /\ (j = h \/ Dist(q, t, i) < Dist(q, t, j))
        BY <1>7, <1>8, <2>1, <3>4
      <4>2. CASE j = h
        BY <1>5, <2>1, <3>1, <3>2, <4>1, <4>2
      <4>3. CASE j # h
        <5>1. i \in Held(q) /\ j \in Held(q)
          BY <2>1, <3>1, <4>1, <4>3
        <5>2. elem[q][i].num < elem[q][j].num
          BY <4>1, <4>3, <5>1 DEF Shape, RecordsAscend, t
        <5> QED BY <2>1, <3>1, <4>1, <4>3, <5>2
      <4> QED BY <4>2, <4>3
    <3> QED BY <1>2, <2>1, <3>3, <3>4
  <2>2. CASE r # q
    <3>1. elem[r][i].num < nextData /\ elem[r][i].num \in Nat
      <4>1. i \in Places(r) /\ i \in Held(r)
        BY <1>6, <2>2
      <4>2. elem[r][i] \in Elements
        BY <4>1 DEF TypeOK, RingsTypeOK
      <4> QED BY <4>1, <4>2 DEF Shape, RecordsAscend, Elements
    <3>2. elem'[r][i] = elem[r][i] /\ elem'[r][j] = elem[r][j] /\ i \in Held(r) /\ j \in Held(r)
      BY <1>3, <1>6, <2>2
    <3>3. tail'[r] = tail[r]
      BY <1>2, <2>2
    <3> QED BY <1>1, <3>1, <3>2, <3>3 DEF Shape, RecordsAscend
  <2> QED BY <2>1, <2>2
<1> QED BY <1>9, <1>10 DEF Shape

LEMMA ShapeInit == Init => Shape
<1> SUFFICES ASSUME Init PROVE Shape
  OBVIOUS
<1>1. ASSUME NEW q \in Queues PROVE Held(q) = {}
  <2>1. head[q] = 0 /\ tail[q] = 0
    BY DEF Init, RingsInit
  <2>2. \A j \in Places(q) : ~ (Dist(q, 0, j) < Dist(q, 0, 0))
    BY RingsAssumption DEF Dist, Places
  <2> QED BY <2>1, <2>2 DEF Held, From
<1>2. \A q \in Queues : \A i \in Places(q) : elem[q][i].blockmap = {}
  BY DEF Init, RingsInit
<1> QED BY <1>1, <1>2 DEF Shape, BitsOnlyOnHeld, RecordsAscend

LEMMA ShapeStep ==
  ASSUME TypeOK, Shape, [Next]_vars
  PROVE  Shape'
<1>1. ASSUME NEW q \in Queues, NEW k \in Kinds, QueueRecord(q, k) PROVE Shape'
  BY <1>1, QueueKeepsShape
<1>2. ASSUME NEW c \in Clients, Serve(c) PROVE Shape'
  <2>1. Releases
    BY <1>2, ServeReleases
  <2> QED BY <1>2, <2>1, ReleasesKeepShape DEF Serve
<1>3. ASSUME NEW c \in Clients, CheckClient(c) \/ UnblockCommand(c) PROVE Shape'
  <2>1. Releases
    BY <1>3, DropReleases
  <2>2. UNCHANGED << head, tail, nextData >>
    BY <1>3 DEF CheckClient, Detach, UnblockCommand
  <2> QED BY <2>1, <2>2, ReleasesKeepShape
<1>4. ASSUME NEW c \in Clients, FallQuiet(c) \/ Client(c) PROVE Shape'
  <2>1. UNCHANGED ringVars
    BY <1>4 DEF FallQuiet, Client, Start, AskAttach, Scan, AskData, Return, ReturnLate, Finish,
                GiveUp, Die, Terminate
  <2> QED BY <2>1, ReleasesKeepShape DEF ringVars, Releases
<1>5. CASE UNCHANGED vars
  BY <1>5, ReleasesKeepShape DEF vars, ringVars, Releases
<1> QED BY <1>1, <1>2, <1>3, <1>4, <1>5 DEF Next, Server

(* However the rings are sized, filled and blocked: no element loses a bit *)
(* by being dropped or refilled, and a walk meets the records in order.    *)
THEOREM RingShape == Spec => [](BitsOnlyOnHeld /\ RecordsAscend)
<1>1. (TypeOK /\ Shape) /\ [Next]_vars => (TypeOK /\ Shape)'
  BY TypeStep, ShapeStep
<1>2. TypeOK /\ Shape => BitsOnlyOnHeld /\ RecordsAscend
  BY DEF Shape
<1> QED BY <1>1, <1>2, TypeInit, ShapeInit, PTL DEF Spec

(* A walk from tail to head meets the records in the order of their        *)
(* numbers, wherever the ring has turned to (client_handler.c, the merge   *)
(* and the walk over the previous answer rely on it).                      *)
THEOREM WalksAscend == Spec => []RecordsAscend
BY RingShape, PTL

LEMMA HeadMeetsTail ==
  ASSUME NEW q \in Queues, NEW h \in Places(q), NEW t \in Places(q),
         Dist(q, t, Succ(q, h)) < Dist(q, t, h)
  PROVE  Succ(q, h) = t
<1>1. Count[q] \in Nat /\ Count[q] > 1
  BY RingsAssumption
<1>2. h \in Int /\ 0 <= h /\ h < Count[q] /\ t \in Int /\ 0 <= t /\ t < Count[q]
  BY <1>1 DEF Places
<1> QED BY <1>1, <1>2 DEF Dist, Succ

(* A ring gives up a record only to make room, and then the oldest.        *)
THEOREM OnlyOldestDropped == Spec => DropsOnlyOldest
<1> DEFINE Drops == \A q \in Queues : \A i \in Held(q) :
                      i \in Held(q)' \/ (i = head'[q] /\ i = tail[q])
<1>1. ASSUME TypeOK, [Next]_vars PROVE Drops \/ UNCHANGED ringVars
  <2>1. CASE UNCHANGED << head, tail >>
    BY <2>1 DEF Held, From
  <2>2. ASSUME NEW q \in Queues, NEW k \in Kinds, QueueRecord(q, k) PROVE Drops
    <3> DEFINE h == head[q]
               t == tail[q]
               n == Succ(q, h)
               t2 == IF n = t THEN Succ(q, n) ELSE t
    <3>1. h \in Places(q) /\ t \in Places(q)
          /\ head \in [Queues -> Nat] /\ tail \in [Queues -> Nat]
      BY <1>1 DEF TypeOK, RingsTypeOK
    <3>2. head' = [head EXCEPT ![q] = n] /\ tail' = [tail EXCEPT ![q] = t2]
      <4>1. head' = [head EXCEPT ![q] = n]
        BY <2>2 DEF QueueRecord, GetBuffer
      <4>2. tail' = IF n = t THEN [tail EXCEPT ![q] = Succ(q, n)] ELSE tail
        BY <2>2 DEF QueueRecord, GetBuffer
      <4> QED BY <3>1, <4>1, <4>2
    <3>3. head'[q] = n /\ tail'[q] = t2
          /\ \A r \in Queues \ {q} : head'[r] = head[r] /\ tail'[r] = tail[r]
      BY <3>1, <3>2
    <3> SUFFICES ASSUME NEW r \in Queues, NEW i \in Held(r), i \notin Held(r)'
                 PROVE  i = head'[r] /\ i = tail[r]
      OBVIOUS
    <3>4. r = q
      BY <3>3 DEF Held, From
    <3> HIDE DEF h, t, n
    <3>5. i \in Places(q) /\ Dist(q, t, i) < Dist(q, t, h)
      BY <3>4 DEF Held, From, h, t
    <3>6. ~ (Dist(q, t2, i) < Dist(q, t2, n))
      BY <3>3, <3>4, <3>5 DEF Held, From
    <3>7. i = n
      BY <3>1, <3>5, <3>6, Turn DEF n
    <3>8. n = t
      BY <3>1, <3>5, <3>7, HeadMeetsTail DEF n
    <3> QED BY <3>3, <3>4, <3>7, <3>8 DEF t
  <2>3. ASSUME NEW c \in Clients, Server(c) \/ FallQuiet(c) \/ UnblockCommand(c) \/ Client(c)
        PROVE  UNCHANGED << head, tail >>
    <3>1. CASE Serve(c)
      BY <3>1 DEF Serve
    <3>2. CASE CheckClient(c) \/ FallQuiet(c) \/ UnblockCommand(c)
      BY <3>2 DEF CheckClient, Detach, FallQuiet, UnblockCommand, ringVars
    <3>3. CASE Client(c)
      BY <3>3 DEF Client, Start, AskAttach, Scan, AskData, Return, ReturnLate, Finish, GiveUp,
                  Die, Terminate, ringVars
    <3> QED BY <2>3, <3>1, <3>2, <3>3 DEF Server
  <2>4. CASE UNCHANGED vars
    BY <2>4 DEF vars
  <2> QED BY <1>1, <2>1, <2>2, <2>3, <2>4 DEF Next
<1>2. TypeOK /\ [Next]_vars => [Drops]_ringVars
  BY <1>1
<1> HIDE DEF Drops
<1>3. Spec => [][Drops]_ringVars
  BY <1>2, TypeCorrect, PTL DEF Spec
<1> QED BY <1>3 DEF Drops, DropsOnlyOldest
==============================================================================
