-------------------------- MODULE DeliveryLossProofs -------------------------
(***************************************************************************)
(* Proofs that no record is lost to a client: one that carries its bit     *)
(* keeps its element and the bit until the client has processed it, if     *)
(* every program starts with CSQ_FIRST, as cs_gen sets it and datalog      *)
(* does; and that none is passed over, however programs start.  For any    *)
(* rings, clients, selectors and bounds.                                   *)
(***************************************************************************)
EXTENDS DeliveryWalkProofs

USE RingsAssumption, DeliveryAssumption

(* What the assumption about the programs says of a state.                 *)
FirstOnly ==
  Starts \subseteq {"FIRST"} =>
    resumed = {} /\ \A c \in Clients : seg[c].seqdbuf \in {"FIRST", "NEXT"}

SegmentInOrder(c) ==
  /\ seg[c].next_data <= nextData
  /\ seg[c].data # {} => seg[c].phase = "answered"

(* While a remembered place still holds what it held, the records before   *)
(* it are below the number the client wants next.                          *)
MarksBehind(c) ==
  c \notin resumed /\ seg[c].seqdbuf = "NEXT" =>
    \A q \in Queues :
      /\ table[c].last[q].scan \in Held(q)
      /\ elem[q][table[c].last[q].scan].num = table[c].last[q].packet
      => \A i \in Held(q) :
           elem[q][i].num < table[c].last[q].packet => elem[q][i].num < seg[c].next_data

(* What the client has asked past, and still has its bit, it has processed *)
(* or been given, if programs start with CSQ_FIRST.                        *)
Processed(c) ==
  Starts \subseteq {"FIRST"} /\ c \in blockmask \ lapped /\ seg[c].seqdbuf = "NEXT" =>
    \A q \in Mask[c] : \A i \in Held(q) :
      /\ c \in elem[q][i].blockmap /\ elem[q][i].kind \in Wanted[c]
      /\ elem[q][i].num < seg[c].next_data
      => elem[q][i].num \in got[c] \cup seg[c].data

SessionInv(c) == SegmentInOrder(c) /\ MarksBehind(c) /\ Processed(c)

LossInv == WalkInv /\ FirstOnly /\ \A c \in Clients : SessionInv(c)
------------------------------------------------------------------------------
(* The records before the place where the walk of a request that continues *)
(* begins are below the number it wants, unless it begins at head.         *)
LEMMA FromBehind ==
  ASSUME LossInv, NEW c \in Clients, NEW q \in Queues,
         c \notin resumed, seg[c].seqdbuf = "NEXT",
         NEW i \in Before(q, AckFrom(c, q)), ~ (elem[q][i].num < seg[c].next_data)
  PROVE  /\ AckFrom(c, q) = head[q]
         /\ table[c].last[q].scan = head[q]
         /\ elem[q][head[q]].num = table[c].last[q].packet
<1> DEFINE a == AckFrom(c, q)
<1>0. TypeOK /\ WalkInv /\ SessionInv(c) /\ i \in Held(q)
  BY DEF LossInv, WalkInv, BitsInv, Before
<1>1. a # tail[q]
  BY <1>0, HeldPlaces
<1>2. a = table[c].last[q].scan /\ elem[q][a].num = table[c].last[q].packet
  BY <1>1, AckBegins
<1>3. a \notin Held(q)
  <2>1. SUFFICES ASSUME a \in Held(q) PROVE FALSE
    OBVIOUS
  <2>2. elem[q][i].num < elem[q][a].num
    <3> HIDE DEF a
    <3> QED BY <1>0, <2>1, Ascend DEF a
  <2> QED BY <1>0, <1>2, <2>1, <2>2 DEF SessionInv, MarksBehind
<1>4. a = head[q]
  BY <1>0, <1>3, AckPlaces
<1> QED BY <1>2, <1>4

(* A record from the number wanted on is ahead of the walk, unless the     *)
(* ring has gone round exactly once.                                       *)
LEMMA Reach ==
  ASSUME LossInv, NEW c \in Clients, NEW q \in Queues,
         c \notin resumed, seg[c].seqdbuf = "NEXT",
         NEW i \in Held(q), ~ (elem[q][i].num < seg[c].next_data), ~ Lapped(c, q)
  PROVE  i \in From(q, AckTo(c, q))
<1> DEFINE b == AckTo(c, q)
<1>0. TypeOK /\ WalkInv
  BY DEF LossInv, WalkInv, BitsInv
<1>1. NextWanted(c) = seg[c].next_data /\ NextWanted(c) \in Nat
  BY <1>0, NextWantedType DEF NextWanted, Restarting
<1>2. elem[q][i].num >= seg[c].next_data
  BY <1>0, <1>1, Ascend
<1>3. i \notin Before(q, AckFrom(c, q))
  BY <1>2, FromBehind DEF Lapped
<1>4. i \notin Acked(c, q)
  BY <1>0, <1>1, AckedPlaces
<1>5. i \notin Before(q, b)
  BY <1>0, <1>3, <1>4, AckedPlaces
<1>6. b \in Held(q) \cup {head[q]}
  BY <1>0, AckPlaces
<1> HIDE DEF b
<1> QED BY <1>0, <1>5, <1>6, WalkFrom DEF b
------------------------------------------------------------------------------
(* A step of somebody else, or one that takes nothing from client c's      *)
(* session, keeps what the invariant says of it.                           *)
SessionKept(c) ==
  \/ /\ seg'[c].seqdbuf # "NEXT" \/ c \in resumed'
     /\ seg'[c].next_data = 0 /\ seg'[c].data = {}
  \/ /\ c \in resumed => c \in resumed'
     /\ seg'[c].seqdbuf = seg[c].seqdbuf /\ seg'[c].next_data = seg[c].next_data
     /\ got[c] \cup seg[c].data \subseteq got'[c] \cup seg'[c].data
     /\ seg'[c].data = {} \/ seg'[c].phase = "answered"

LEMMA KeptSession ==
  ASSUME LossInv, NEW c \in Clients, UNCHANGED << head, tail, nextData >>, Keeps,
         table'[c].last = table[c].last, c \in lapped => c \in lapped', SessionKept(c)
  PROVE  SessionInv(c)'
<1>0. TypeOK /\ WalkInv /\ SessionInv(c) /\ nextData \in Nat
  <2>1. TypeOK /\ WalkInv /\ SessionInv(c)
    BY DEF LossInv, WalkInv, BitsInv
  <2> QED BY <2>1 DEF TypeOK, RingsTypeOK
<1>1. \A q \in Queues : Held(q)' = Held(q) /\ Held(q) \subseteq Places(q)
  BY <1>0 DEF Held, From
<1>2. \A q \in Queues : \A i \in Held(q) :
        /\ elem'[q][i].num = elem[q][i].num /\ elem'[q][i].kind = elem[q][i].kind
        /\ elem'[q][i].blockmap \subseteq elem[q][i].blockmap
  BY <1>1 DEF Keeps
<1>3. SegmentInOrder(c)'
  BY <1>0 DEF SessionInv, SegmentInOrder, SessionKept
<1>4. MarksBehind(c)'
  BY <1>0, <1>1, <1>2 DEF SessionInv, MarksBehind, SessionKept
<1>5. Processed(c)'
  <2> SUFFICES ASSUME Starts \subseteq {"FIRST"}, c \notin lapped', seg'[c].seqdbuf = "NEXT",
                      NEW q \in Mask[c], NEW i \in Held(q),
                      c \in elem'[q][i].blockmap, elem'[q][i].kind \in Wanted[c],
                      elem'[q][i].num < seg'[c].next_data
               PROVE  elem'[q][i].num \in got'[c] \cup seg'[c].data
    BY <1>1 DEF Processed
  <2>2. q \in Queues
    OBVIOUS
  <2>1. /\ seg[c].seqdbuf = "NEXT" /\ seg'[c].next_data = seg[c].next_data
        /\ got[c] \cup seg[c].data \subseteq got'[c] \cup seg'[c].data
    <3>1. elem'[q][i].num = elem[q][i].num /\ elem[q][i].num \in Nat
      BY <1>0, <1>1, <1>2, <2>2, Ascend
    <3>2. seg'[c].next_data # 0
      BY <3>1
    <3> QED BY <3>2 DEF SessionKept
  <2>3. /\ elem'[q][i].num = elem[q][i].num /\ elem[q][i].kind \in Wanted[c]
        /\ c \in elem[q][i].blockmap /\ i \in Places(q)
    BY <1>1, <1>2, <2>2
  <2>4. c \in blockmask
    BY <1>0, <2>2, <2>3 DEF WalkInv, BitsInv, BitsOnlyOfMask
  <2> QED BY <1>0, <2>1, <2>3, <2>4 DEF SessionInv, Processed
<1> QED BY <1>3, <1>4, <1>5 DEF SessionInv

(* The ring turns under the sessions. *)
LEMMA LossQueueRecord ==
  ASSUME LossInv, NEW q \in Queues, NEW k \in Kinds, QueueRecord(q, k), NEW c \in Clients
  PROVE  SessionInv(c)'
<1> DEFINE h == head[q]
<1>0. /\ TypeOK /\ WalkInv /\ SessionInv(c) /\ nextData \in Nat /\ nextData' = nextData + 1
      /\ elem'[q][h].num = nextData
      /\ UNCHANGED << table, seg, got, lapped, resumed, blockmask >>
      /\ seg[c].next_data \in Nat /\ \A r \in Queues : table[c].last[r].packet \in Int
  <2>1. /\ TypeOK /\ WalkInv /\ SessionInv(c)
        /\ UNCHANGED << table, seg, got, lapped, resumed, blockmask >>
    BY DEF LossInv, WalkInv, BitsInv, QueueRecord, GetBuffer, clientVars
  <2>2. \A r \in Queues : table[c].last[r] \in Marks
    BY <2>1 DEF TypeOK, Entries
  <2>3. seg[c].next_data \in Nat /\ nextData \in Nat
    BY <2>1 DEF TypeOK, RingsTypeOK, Segments
  <2> QED BY <2>1, <2>2, <2>3, RingTurns DEF Marks
<1>1. \A r \in Queues : \A i \in Held(r)' :
        \/ r = q /\ i = h
        \/ i \in Held(r) /\ elem'[r][i] = elem[r][i] /\ elem[r][i].num < nextData
  BY <1>0, RingTurns, Ascend
<1> HIDE DEF h
<1>2. SegmentInOrder(c)'
  BY <1>0 DEF SessionInv, SegmentInOrder
<1>3. MarksBehind(c)'
  <2> SUFFICES ASSUME NEW r \in Queues, c \notin resumed, seg[c].seqdbuf = "NEXT",
                      table[c].last[r].scan \in Held(r)',
                      elem'[r][table[c].last[r].scan].num = table[c].last[r].packet,
                      NEW i \in Held(r)', elem'[r][i].num < table[c].last[r].packet
               PROVE  elem'[r][i].num < seg[c].next_data
    BY <1>0 DEF MarksBehind
  <2>1. table[c].last[r].packet < nextData
    <3>1. table[c].last[r].scan # NoPlace
      BY DEF NoPlace, Held, From, Places
    <3> QED BY <1>0, <3>1 DEF WalkInv, MarksInRing
  <2>2. ~ (r = q /\ table[c].last[r].scan = h) /\ ~ (r = q /\ i = h)
    BY <1>0, <2>1
  <2>3. /\ table[c].last[r].scan \in Held(r) /\ i \in Held(r)
        /\ elem'[r][i] = elem[r][i]
        /\ elem'[r][table[c].last[r].scan] = elem[r][table[c].last[r].scan]
    BY <1>1, <2>2
  <2> QED BY <1>0, <2>3 DEF SessionInv, MarksBehind
<1>4. Processed(c)'
  <2> SUFFICES ASSUME Starts \subseteq {"FIRST"}, c \in blockmask \ lapped,
                      seg[c].seqdbuf = "NEXT", NEW r \in Mask[c], NEW i \in Held(r)',
                      c \in elem'[r][i].blockmap, elem'[r][i].kind \in Wanted[c],
                      elem'[r][i].num < seg[c].next_data
               PROVE  elem'[r][i].num \in got[c] \cup seg[c].data
    BY <1>0 DEF Processed
  <2>1. r \in Queues
    OBVIOUS
  <2>2. ~ (r = q /\ i = h)
    <3>1. seg[c].next_data <= nextData
      BY <1>0 DEF SessionInv, SegmentInOrder
    <3> QED BY <1>0, <3>1
  <2>3. i \in Held(r) /\ elem'[r][i] = elem[r][i]
    BY <1>1, <2>1, <2>2
  <2> QED BY <1>0, <2>3 DEF SessionInv, Processed
<1> QED BY <1>2, <1>3, <1>4 DEF SessionInv
------------------------------------------------------------------------------
(* What the client has not asked past before, and still has its bit, is    *)
(* in the answer, if none of its rings has gone round exactly once.        *)
LEMMA Answered ==
  ASSUME LossInv, NEW c \in Clients, seg[c].phase = "asking", Serve(c), ServeData(c),
         Starts \subseteq {"FIRST"}, c \in blockmask', c \notin lapped',
         NEW q \in Mask[c], NEW i \in Held(q), c \in elem'[q][i].blockmap,
         elem[q][i].kind \in Wanted[c], elem[q][i].num < NextAfter(c)
  PROVE  elem[q][i].num \in got[c] \cup Delivered(c)
<1>0. /\ TypeOK /\ WalkInv /\ SessionInv(c) /\ q \in Queues
      /\ c \notin resumed /\ seg[c].seqdbuf \in {"FIRST", "NEXT"}
  BY DEF LossInv, WalkInv, BitsInv, FirstOnly
<1>1. i \in Places(q) /\ elem[q][i].num \in Nat
  BY <1>0, HeldPlaces, Numbers
<1>2. c \in elem[q][i].blockmap
  BY <1>0, <1>1, ServeElements
<1>3. c \in blockmask
  BY <1>0, <1>1, <1>2 DEF WalkInv, BitsInv, BitsOnlyOfMask
<1>4. ASSUME i \in From(q, ReadFrom(c, q)), elem[q][i].num >= NextWanted(c)
      PROVE  elem[q][i].num \in Delivered(c)
  <2>1. elem[q][i] \in Ahead(c)
    BY <1>4 DEF Ahead
  <2>2. elem[q][i] \in Taken(c)
    BY <1>0, <1>4, <2>1, AnswerReach
  <2> QED BY <2>2 DEF Delivered, Selected
<1>5. CASE seg[c].seqdbuf = "FIRST"
  <2>1. EntryBlocking(c) /\ ElemAfter(c) = elem
    BY <1>0, <1>3, StaysInMask
  <2>2. i \in From(q, ReadFrom(c, q))
    BY <1>0, <1>2, <1>5, <2>1, ReadPlace
  <2>3. NextWanted(c) = 0
    BY <1>5 DEF NextWanted, Restarting
  <2> QED BY <1>1, <1>4, <2>2, <2>3
<1>6. CASE seg[c].seqdbuf = "NEXT"
  <2>1. c \notin lapped /\ ~ Lapped(c, q)
    BY <1>6 DEF ServeData, Restarting
  <2>2. CASE elem[q][i].num < seg[c].next_data
    <3>1. elem[q][i].num \in got[c] \cup seg[c].data
      BY <1>0, <1>2, <1>3, <1>6, <2>1, <2>2 DEF SessionInv, Processed
    <3>2. seg[c].data = {}
      BY <1>0 DEF SessionInv, SegmentInOrder
    <3> QED BY <3>1, <3>2
  <2>3. CASE ~ (elem[q][i].num < seg[c].next_data)
    <3>1. i \in From(q, AckTo(c, q))
      BY <1>0, <1>6, <2>1, <2>3, Reach
    <3>2. ReadFrom(c, q) = AckTo(c, q) /\ NextWanted(c) = seg[c].next_data
      BY <1>6 DEF ReadFrom, NextWanted, Restarting
    <3>3. elem[q][i].num >= NextWanted(c)
      BY <1>0, <1>1, <2>3, <3>2, NextWantedType
    <3> QED BY <1>4, <3>1, <3>2, <3>3
  <2> QED BY <2>2, <2>3
<1> QED BY <1>0, <1>5, <1>6

(* The session of the client that is served. *)
LEMMA ServedSession ==
  ASSUME LossInv, NEW c \in Clients, Serve(c), ServeData(c)
  PROVE  SessionInv(c)'
<1>0. /\ TypeOK /\ WalkInv /\ SessionInv(c) /\ nextData \in Nat /\ NextWanted(c) \in Nat
      /\ UNCHANGED << head, tail, nextData, got, resumed >> /\ seg[c].phase = "asking"
      /\ seg[c].next_data <= nextData
  <2>1. TypeOK /\ WalkInv /\ SessionInv(c)
    BY DEF LossInv, WalkInv, BitsInv
  <2> QED BY <2>1, NextWantedType DEF TypeOK, RingsTypeOK, Serve, SessionInv, SegmentInOrder
<1>1. ASSUME NEW q \in Queues
      PROVE  /\ Held(q)' = Held(q) /\ Held(q) \subseteq Places(q)
             /\ table'[c].last[q] = LastAfter(c, q)
             /\ \A i \in Held(q) : elem'[q][i].num = elem[q][i].num /\ elem[q][i].num \in Nat
                                   /\ elem'[q][i].kind = elem[q][i].kind
  <2>1. Held(q)' = Held(q) /\ Held(q) \subseteq Places(q)
    BY <1>0 DEF Held, From
  <2>2. table'[c].last = [r \in Queues |-> LastAfter(c, r)]
    BY <1>0, ServedSegment
  <2>3. \A i \in Held(q) : elem'[q][i].num = elem[q][i].num /\ elem[q][i].num \in Nat
                           /\ elem'[q][i].kind = elem[q][i].kind
    BY <1>0, <2>1, ServeElements, Numbers
  <2> QED BY <2>1, <2>2, <2>3
<1>2. NextWanted(c) <= nextData
  BY <1>0 DEF NextWanted, Restarting, SessionInv, SegmentInOrder
<1>3. SegmentInOrder(c)'
  <2>1. NextAfter(c) <= nextData /\ 0 <= nextData
    BY <1>0, <1>2, AnswerReach
  <2>2. /\ seg'[c].next_data \in {NextAfter(c), 0}
        /\ seg'[c].data # {} => seg'[c].phase = "answered"
    BY <1>0, ServedSegment
  <2> QED BY <1>0, <2>1, <2>2 DEF SegmentInOrder
<1>4. MarksBehind(c)'
  <2> SUFFICES ASSUME c \notin resumed, NEW q \in Queues, seg'[c].seqdbuf = "NEXT",
                      LastAfter(c, q).scan \in Held(q),
                      elem[q][LastAfter(c, q).scan].num = LastAfter(c, q).packet,
                      NEW i \in Held(q), elem[q][i].num < LastAfter(c, q).packet
               PROVE  elem[q][i].num < seg'[c].next_data
    BY <1>0, <1>1 DEF MarksBehind
  <2>1. seg'[c].next_data = NextAfter(c) /\ NextAfter(c) \in Nat /\ NextWanted(c) <= NextAfter(c)
    BY <1>0, ServedSegment, AnswerReach
  <2>2. LastAfter(c, q).scan # NoPlace
    BY <1>1 DEF NoPlace, Places
  <2>3. elem[q][i].num < NextWanted(c)
    <3>1. CASE Acked(c, q) = {}
      <4>1. LastAfter(c, q) = table[c].last[q] /\ ~ Restarting(c)
        BY <1>0, <2>2, <3>1, ServedMarks
      <4> QED BY <1>0, <4>1 DEF SessionInv, MarksBehind, NextWanted, Restarting
    <3>2. CASE Acked(c, q) # {}
      <4> DEFINE b == AckTo(c, q)
      <4>1. /\ b \in Held(q) /\ LastAfter(c, q).packet = elem[q][b].num
            /\ seg[c].seqdbuf # "FIRST"
        BY <1>0, <2>2, <3>2, ServedMarks
      <4>2. i \in Before(q, b)
        <5> HIDE DEF b
        <5> QED BY <1>0, <1>1, <4>1, Ascend
      <4>3. CASE i \in Acked(c, q)
        BY <1>0, <4>1, <4>3, AckedPlaces
      <4>4. CASE i \in Before(q, AckFrom(c, q))
        <5>1. AckFrom(c, q) # head[q]
          BY <1>0, <3>2, WalkHeld, HeldPlaces
        <5>2. seg[c].seqdbuf = "NEXT" /\ NextWanted(c) = seg[c].next_data
          <6>1. AckFrom(c, q) # tail[q]
            BY <1>0, <4>4, HeldPlaces
          <6> QED BY <6>1, AckBegins DEF NextWanted, Restarting
        <5> QED BY <4>4, <5>1, <5>2, FromBehind
      <4> QED BY <1>0, <4>1, <4>2, <4>3, <4>4, AckedPlaces
    <3> QED BY <3>1, <3>2
  <2> QED BY <1>0, <1>1, <2>1, <2>3
<1>5. Processed(c)'
  <2> SUFFICES ASSUME Starts \subseteq {"FIRST"}, c \in blockmask', c \notin lapped',
                      seg'[c].seqdbuf = "NEXT", NEW q \in Mask[c], NEW i \in Held(q),
                      c \in elem'[q][i].blockmap, elem'[q][i].kind \in Wanted[c],
                      elem'[q][i].num < seg'[c].next_data
               PROVE  elem'[q][i].num \in got'[c] \cup seg'[c].data
    BY <1>1 DEF Processed
  <2>1. seg'[c].next_data = NextAfter(c) /\ seg'[c].data = Delivered(c) /\ got' = got
    BY <1>0, ServedSegment
  <2>2. q \in Queues
    OBVIOUS
  <2>3. elem'[q][i].num = elem[q][i].num /\ elem'[q][i].kind = elem[q][i].kind
    BY <1>1, <2>2
  <2> QED BY <1>0, <2>1, <2>3, Answered
<1> QED BY <1>3, <1>4, <1>5 DEF SessionInv

LEMMA LossServe ==
  ASSUME LossInv, NEW c \in Clients, Serve(c)
  PROVE  \A d \in Clients : SessionInv(d)'
<1>0. /\ TypeOK /\ WalkInv /\ SessionInv(c)
      /\ UNCHANGED << head, tail, nextData, got, resumed >>
      /\ seg[c].phase = "asking" /\ table \in [Clients -> Entries] /\ seg \in [Clients -> Segments]
  <2>1. TypeOK /\ WalkInv /\ SessionInv(c)
    BY DEF LossInv, WalkInv, BitsInv
  <2> QED BY <2>1 DEF TypeOK, Serve
<1>1. Keeps
  BY <1>0, ServeElements DEF Keeps
<1>2. ASSUME NEW d \in Clients, d # c PROVE SessionInv(d)'
  <2>1. table'[d] = table[d] /\ seg'[d] = seg[d]
    BY <1>0, <1>2 DEF Serve, ServeAttach, ServeData
  <2>2. d \in lapped => d \in lapped'
    BY <1>2 DEF Serve, ServeAttach, ServeData
  <2>3. SessionInv(d)
    BY DEF LossInv
  <2>4. SessionKept(d)
    BY <1>0, <2>1, <2>3 DEF SessionKept, SessionInv, SegmentInOrder
  <2> QED BY <1>0, <1>1, <2>1, <2>2, <2>4, KeptSession
<1>3. CASE ServeAttach(c)
  <2>1. table'[c].last = table[c].last /\ lapped' = lapped
    BY <1>0, <1>3 DEF ServeAttach, Entries
  <2>2. seg[c].data = {}
    BY <1>0 DEF SessionInv, SegmentInOrder
  <2>3. SessionKept(c)
    <3>1. CASE seg[c].alive
      <4>1. seg'[c] = [seg[c] EXCEPT !.phase = "answered"]
        BY <1>0, <1>3, <3>1 DEF ServeAttach
      <4>2. seg[c] \in Segments
        BY <1>0
      <4>3. /\ seg'[c].seqdbuf = seg[c].seqdbuf /\ seg'[c].next_data = seg[c].next_data
            /\ seg'[c].data = seg[c].data
        BY <4>1, <4>2 DEF Segments
      <4> QED BY <1>0, <2>2, <4>3 DEF SessionKept
    <3>2. CASE ~ seg[c].alive
      BY <1>0, <1>3, <3>2 DEF ServeAttach, NoSegment, SessionKept
    <3> QED BY <3>1, <3>2
  <2>4. SessionInv(c)'
    BY <1>0, <1>1, <2>1, <2>3, KeptSession
  <2> QED BY <1>2, <2>4
<1>4. CASE ServeData(c)
  BY <1>2, <1>4, ServedSession
<1> QED BY <1>3, <1>4 DEF Serve

LEMMA LossDrop ==
  ASSUME LossInv, NEW c \in Clients, CheckClient(c) \/ UnblockCommand(c)
  PROVE  \A d \in Clients : SessionInv(d)'
<1> SUFFICES ASSUME NEW d \in Clients PROVE SessionInv(d)'
  OBVIOUS
<1>0. /\ TypeOK /\ WalkInv /\ SessionInv(d)
      /\ UNCHANGED << head, tail, nextData, got, lapped, resumed >>
      /\ table \in [Clients -> Entries] /\ seg \in [Clients -> Segments]
  <2>1. TypeOK /\ WalkInv /\ SessionInv(d)
    BY DEF LossInv, WalkInv, BitsInv
  <2> QED BY <2>1 DEF TypeOK, CheckClient, Detach, UnblockCommand
<1>1. Keeps
  BY <1>0, DropElements DEF Keeps
<1>2. table'[d].last = table[d].last
  <2>1. CASE CheckClient(c)
    <3> DEFINE a == IF TimedOut(c) THEN FALSE ELSE table[c].active
    <3>1. table' = [table EXCEPT ![c] = [table[c] EXCEPT !.known = FALSE, !.active = a]]
      BY <1>0, <2>1 DEF CheckClient, Detach
    <3> HIDE DEF a
    <3>2. [table[c] EXCEPT !.known = FALSE, !.active = a].last = table[c].last
      BY <1>0 DEF Entries
    <3> QED BY <1>0, <3>1, <3>2
  <2>2. CASE UnblockCommand(c)
    BY <2>2 DEF UnblockCommand
  <2> QED BY <2>1, <2>2
<1>3. seg'[d] = seg[d] \/ seg'[d] = NoSegment("down")
  BY <1>0 DEF CheckClient, UnblockCommand
<1>4. SessionKept(d)
  BY <1>0, <1>3 DEF SessionKept, SessionInv, SegmentInOrder, NoSegment
<1> QED BY <1>0, <1>1, <1>2, <1>4, KeptSession

(* The client program's own steps, and time that passes.                   *)
LEMMA LossClient ==
  ASSUME LossInv, NEW c \in Clients, FallQuiet(c) \/ Client(c)
  PROVE  \A d \in Clients : SessionInv(d)'
<1>0. /\ TypeOK /\ UNCHANGED << ringVars, lapped >>
      /\ table \in [Clients -> Entries] /\ seg \in [Clients -> Segments]
      /\ got \in [Clients -> SUBSET Nat]
  <2>1. TypeOK
    BY DEF LossInv, WalkInv, BitsInv
  <2> QED BY <2>1 DEF TypeOK, FallQuiet, Client, Start, AskAttach, Scan, AskData, Return,
                      ReturnLate, Finish, GiveUp, Die, Terminate
<1>1. Keeps /\ UNCHANGED << head, tail, nextData >>
  BY <1>0 DEF Keeps, ringVars
<1>2. \A d \in Clients : table'[d].last = table[d].last
  <2>1. \/ table' = table
        \/ table' = [table EXCEPT ![c].quiet = TRUE]
        \/ table' = [table EXCEPT ![c].known = FALSE]
    BY DEF FallQuiet, Client, Start, AskAttach, Scan, AskData, Return, ReturnLate, Finish,
           GiveUp, Die, Terminate
  <2> QED BY <1>0, <2>1 DEF Entries
<1>3. \A d \in Clients \ {c} :
        seg'[d] = seg[d] /\ got'[d] = got[d] /\ (d \in resumed' <=> d \in resumed)
  BY <1>0 DEF FallQuiet, Client, Start, AskAttach, Scan, AskData, Return, ReturnLate, Finish,
              GiveUp, Die, Terminate
<1>4. seg[c] \in Segments /\ SessionInv(c) /\ (seg[c].data # {} => seg[c].phase = "answered")
  <2>1. SessionInv(c)
    BY DEF LossInv
  <2> QED BY <1>0, <2>1 DEF SessionInv, SegmentInOrder
<1>5. SessionKept(c)
  <2>1. CASE FallQuiet(c)
    BY <1>4, <2>1 DEF FallQuiet, SessionKept
  <2>2. ASSUME NEW b \in Blocking, NEW s \in Starts, Start(c, b, s) PROVE SessionKept(c)
    BY <1>0, <2>2 DEF Start, NewSegment, SessionKept
  <2>3. CASE AskAttach(c)
    <3>1. /\ seg'[c] = [seg[c] EXCEPT !.phase = "asking", !.command = "ATTACH"]
          /\ got' = got /\ resumed' = resumed
      BY <1>0, <2>3 DEF AskAttach
    <3>2. /\ seg'[c].seqdbuf = seg[c].seqdbuf /\ seg'[c].next_data = seg[c].next_data
          /\ seg'[c].data = seg[c].data
      BY <1>4, <3>1 DEF Segments
    <3>3. seg[c].data = {}
      BY <1>4, <2>3 DEF AskAttach
    <3> QED BY <3>1, <3>2, <3>3 DEF SessionKept
  <2>4. ASSUME NEW n, AskData(c, n) PROVE SessionKept(c)
    <3>1. /\ seg'[c] = [seg[c] EXCEPT !.phase = "asking", !.command = "DATA_BLK",
                                      !.data = {}, !.reqdbuf = n]
          /\ got' = got /\ resumed' = resumed
      BY <1>0, <2>4 DEF AskData
    <3>2. /\ seg'[c].seqdbuf = seg[c].seqdbuf /\ seg'[c].next_data = seg[c].next_data
          /\ seg'[c].data = {}
      BY <1>4, <3>1 DEF Segments
    <3>3. seg[c].data = {}
      BY <1>4, <2>4 DEF AskData
    <3> QED BY <3>1, <3>2, <3>3 DEF SessionKept
  <2>5. ASSUME NEW status, Finish(c, status) PROVE SessionKept(c)
    <3> DEFINE p == IF status = "GOOD" THEN "idle" ELSE "fresh"
    <3>1. got'[c] = got[c] \cup seg[c].data /\ resumed' = resumed
      BY <1>0, <2>5 DEF Finish
    <3>2. CASE seg'[c] = NoSegment("closed")
      BY <3>2 DEF NoSegment, SessionKept
    <3>3. CASE seg'[c] = [seg[c] EXCEPT !.data = {}, !.phase = p]
      <4> HIDE DEF p
      <4>1. /\ seg'[c].seqdbuf = seg[c].seqdbuf /\ seg'[c].next_data = seg[c].next_data
            /\ seg'[c].data = {}
        BY <1>4, <3>3 DEF Segments
      <4> QED BY <3>1, <4>1 DEF SessionKept
    <3> QED BY <1>0, <2>5, <3>2, <3>3 DEF Finish
  <2>6. CASE GiveUp(c)
    <3>1. seg'[c] = NoSegment("closed") \/ seg'[c] = [seg[c] EXCEPT !.phase = "fresh"]
      BY <1>0, <2>6 DEF GiveUp
    <3>2. CASE seg'[c] = NoSegment("closed")
      BY <3>2 DEF NoSegment, SessionKept
    <3>3. CASE seg'[c] = [seg[c] EXCEPT !.phase = "fresh"]
      <4>1. /\ seg'[c].seqdbuf = seg[c].seqdbuf /\ seg'[c].next_data = seg[c].next_data
            /\ seg'[c].data = seg[c].data
        BY <1>4, <3>3 DEF Segments
      <4>2. seg[c].data = {} /\ got' = got /\ resumed' = resumed
        BY <1>4, <2>6 DEF GiveUp
      <4> QED BY <4>1, <4>2 DEF SessionKept
    <3> QED BY <3>1, <3>2, <3>3
  <2>7. CASE Die(c)
    <3>1. \/ seg'[c] = NoSegment("down")
          \/ seg[c].phase = "asking" /\ seg'[c] = [seg[c] EXCEPT !.alive = FALSE]
      BY <1>0, <2>7 DEF Die
    <3>2. CASE seg'[c] = NoSegment("down")
      BY <3>2 DEF NoSegment, SessionKept
    <3>3. CASE seg[c].phase = "asking" /\ seg'[c] = [seg[c] EXCEPT !.alive = FALSE]
      <4>1. /\ seg'[c].seqdbuf = seg[c].seqdbuf /\ seg'[c].next_data = seg[c].next_data
            /\ seg'[c].data = seg[c].data
        BY <1>4, <3>3 DEF Segments
      <4>2. seg[c].data = {} /\ got' = got /\ resumed' = resumed
        BY <1>4, <2>7, <3>3 DEF Die
      <4> QED BY <4>1, <4>2 DEF SessionKept
    <3> QED BY <3>1, <3>2, <3>3
  <2>8. CASE Terminate(c)
    BY <1>0, <2>4, <2>8 DEF Terminate, NoSegment, SessionKept
  <2> QED BY <2>1, <2>2, <2>3, <2>4, <2>5, <2>6, <2>7, <2>8
          DEF Client, Scan, Return, ReturnLate
<1>6. ASSUME NEW d \in Clients, d # c PROVE SessionKept(d)
  <2>1. /\ SessionInv(d) /\ seg'[d] = seg[d] /\ got'[d] = got[d]
        /\ d \in resumed' <=> d \in resumed
    BY <1>3, <1>6 DEF LossInv
  <2> QED BY <2>1 DEF SessionKept, SessionInv, SegmentInOrder
<1> QED BY <1>0, <1>1, <1>2, <1>5, <1>6, KeptSession

------------------------------------------------------------------------------
LEMMA LossInit == Init => LossInv
<1> SUFFICES ASSUME Init PROVE LossInv
  OBVIOUS
<1>1. ASSUME NEW c \in Clients PROVE SessionInv(c)
  <2>1. seg[c].seqdbuf = "FIRST" /\ seg[c].next_data = 0 /\ seg[c].data = {} /\ nextData = 0
    BY DEF Init, RingsInit, NoSegment
  <2> QED BY <2>1 DEF SessionInv, SegmentInOrder, MarksBehind, Processed
<1>2. FirstOnly
  BY DEF Init, NoSegment, FirstOnly
<1> QED BY <1>1, <1>2, WalkInit DEF LossInv

(* What a client program does after its start leaves seqdbuf alone, or the *)
(* segment is gone.                                                        *)
LEMMA OwnStepPlain ==
  ASSUME TypeOK, NEW c \in Clients,
         \/ AskAttach(c) \/ Scan(c) \/ Return(c) \/ ReturnLate(c) \/ GiveUp(c) \/ Die(c)
         \/ Terminate(c)
  PROVE  \E t : /\ seg' = [seg EXCEPT ![c] = t]
                /\ t.seqdbuf \in {seg[c].seqdbuf, "FIRST"}
<1>0. seg \in [Clients -> Segments] /\ seg[c] \in Segments
  BY DEF TypeOK
<1>1. /\ NoSegment("down").seqdbuf = "FIRST" /\ NoSegment("closed").seqdbuf = "FIRST"
  BY DEF NoSegment
<1>2. CASE AskAttach(c)
  <2> DEFINE t == [seg[c] EXCEPT !.phase = "asking", !.command = "ATTACH"]
  <2>1. t.seqdbuf = seg[c].seqdbuf
    BY <1>0 DEF Segments
  <2>2. seg' = [seg EXCEPT ![c] = t]
    BY <1>0, <1>2 DEF AskAttach
  <2> HIDE DEF t
  <2> QED BY <2>1, <2>2
<1>3. ASSUME NEW n, AskData(c, n)
      PROVE  \E t : seg' = [seg EXCEPT ![c] = t] /\ t.seqdbuf \in {seg[c].seqdbuf, "FIRST"}
  <2> DEFINE t == [seg[c] EXCEPT !.phase = "asking", !.command = "DATA_BLK",
                                 !.data = {}, !.reqdbuf = n]
  <2>1. t.seqdbuf = seg[c].seqdbuf
    BY <1>0 DEF Segments
  <2>2. seg' = [seg EXCEPT ![c] = t]
    BY <1>0, <1>3 DEF AskData
  <2> HIDE DEF t
  <2> QED BY <2>1, <2>2
<1>4. ASSUME NEW status, Finish(c, status)
      PROVE  \E t : seg' = [seg EXCEPT ![c] = t] /\ t.seqdbuf \in {seg[c].seqdbuf, "FIRST"}
  <2> DEFINE p == IF status = "GOOD" THEN "idle" ELSE "fresh"
             t == [seg[c] EXCEPT !.data = {}, !.phase = p]
  <2>1. t.seqdbuf = seg[c].seqdbuf
    <3> HIDE DEF p
    <3> QED BY <1>0 DEF Segments
  <2>2. seg' = [seg EXCEPT ![c] = t] \/ seg' = [seg EXCEPT ![c] = NoSegment("closed")]
    BY <1>0, <1>4 DEF Finish
  <2> HIDE DEF t
  <2> QED BY <1>1, <2>1, <2>2
<1>5. CASE GiveUp(c)
  <2> DEFINE t == [seg[c] EXCEPT !.phase = "fresh"]
  <2>1. t.seqdbuf = seg[c].seqdbuf
    BY <1>0 DEF Segments
  <2>2. seg' = [seg EXCEPT ![c] = t] \/ seg' = [seg EXCEPT ![c] = NoSegment("closed")]
    BY <1>0, <1>5 DEF GiveUp
  <2> HIDE DEF t
  <2> QED BY <1>1, <2>1, <2>2
<1>6. CASE Die(c)
  <2> DEFINE t == [seg[c] EXCEPT !.alive = FALSE]
  <2>1. t.seqdbuf = seg[c].seqdbuf
    BY <1>0 DEF Segments
  <2>2. seg' = [seg EXCEPT ![c] = t] \/ seg' = [seg EXCEPT ![c] = NoSegment("down")]
    BY <1>0, <1>6 DEF Die
  <2> HIDE DEF t
  <2> QED BY <1>1, <2>1, <2>2
<1>7. CASE Terminate(c)
  BY <1>1, <1>3, <1>7 DEF Terminate
<1> QED BY <1>2, <1>3, <1>4, <1>5, <1>6, <1>7 DEF Scan, Return, ReturnLate

LEMMA FirstOnlyStep ==
  ASSUME LossInv, [Next]_vars
  PROVE  FirstOnly'
<1> DEFINE Plain(s) == s.seqdbuf \in {"FIRST", "NEXT"}
<1> SUFFICES ASSUME Starts \subseteq {"FIRST"}
             PROVE  resumed' = {} /\ \A d \in Clients : Plain(seg'[d])
  BY DEF FirstOnly
<1>0. /\ seg \in [Clients -> Segments] /\ resumed = {}
      /\ \A c \in Clients : Plain(seg[c])
  BY DEF LossInv, FirstOnly, WalkInv, BitsInv, TypeOK
<1>1. ASSUME NEW c \in Clients
      PROVE  /\ Plain(NoSegment("down")) /\ Plain(NoSegment("closed"))
             /\ seg[c] \in Segments /\ Plain(seg[c])
  BY <1>0 DEF NoSegment
<1>2. ASSUME NEW c \in Clients, NEW t, Plain(t), seg' = [seg EXCEPT ![c] = t]
      PROVE  \A d \in Clients : Plain(seg'[d])
  <2> HIDE DEF Plain
  <2> QED BY <1>0, <1>2
<1>3. ASSUME NEW c \in Clients, Serve(c)
      PROVE  resumed' = {} /\ \A d \in Clients : Plain(seg'[d])
  <2> DEFINE t == [seg[c] EXCEPT !.phase = "answered", !.seqdbuf = "NEXT",
                                 !.next_data = NextAfter(c), !.data = Delivered(c)]
             u == [seg[c] EXCEPT !.phase = "answered"]
  <2>1. seg[c] \in Segments
    BY <1>1
  <2>2. Plain(t)
    BY <2>1 DEF Segments
  <2>3. Plain(u)
    BY <1>1, <2>1 DEF Segments
  <2>4. \E v \in {t, u, NoSegment("down")} : seg' = [seg EXCEPT ![c] = v]
    BY <1>0, <1>3 DEF Serve, ServeAttach, ServeData
  <2>5. resumed' = {}
    BY <1>0, <1>3 DEF Serve
  <2>6. \A v \in {t, u, NoSegment("down")} : Plain(v)
    <3> HIDE DEF t, u
    <3> QED BY <1>1, <2>2, <2>3
  <2> HIDE DEF t, u, Plain
  <2> QED BY <1>2, <2>4, <2>5, <2>6
<1>4. ASSUME NEW c \in Clients, CheckClient(c) \/ UnblockCommand(c) \/ FallQuiet(c)
      PROVE  resumed' = {} /\ \A d \in Clients : Plain(seg'[d])
  <2>1. resumed' = {}
    BY <1>0, <1>4 DEF CheckClient, Detach, UnblockCommand, FallQuiet
  <2>2. seg' = seg \/ seg' = [seg EXCEPT ![c] = NoSegment("down")]
    BY <1>4 DEF CheckClient, UnblockCommand, FallQuiet
  <2> HIDE DEF Plain
  <2> QED BY <1>0, <1>1, <1>2, <2>1, <2>2
<1>5. ASSUME NEW c \in Clients, Client(c)
      PROVE  resumed' = {} /\ \A d \in Clients : Plain(seg'[d])
  <2>1. CASE \E b \in Blocking, s \in Starts : Start(c, b, s)
    <3>1. PICK b \in Blocking, s \in Starts : Start(c, b, s)
      BY <2>1
    <3>2. s = "FIRST" /\ Plain(NewSegment(b, s))
      BY DEF NewSegment
    <3>3. seg' = [seg EXCEPT ![c] = NewSegment(b, s)] /\ resumed' = {}
      BY <1>0, <3>1, <3>2 DEF Start
    <3> HIDE DEF Plain
    <3> QED BY <1>2, <3>2, <3>3
  <2>2. CASE \/ AskAttach(c) \/ Scan(c) \/ Return(c) \/ ReturnLate(c) \/ GiveUp(c) \/ Die(c)
             \/ Terminate(c)
    <3>1. resumed' = {}
      BY <1>0, <2>2 DEF AskAttach, Scan, AskData, Return, ReturnLate, Finish, GiveUp, Die,
                        Terminate
    <3>2. TypeOK
      BY DEF LossInv, WalkInv, BitsInv
    <3>3. PICK t : /\ seg' = [seg EXCEPT ![c] = t]
                   /\ t.seqdbuf \in {seg[c].seqdbuf, "FIRST"}
      BY <2>2, <3>2, OwnStepPlain
    <3>4. Plain(t)
      BY <1>1, <3>3
    <3> HIDE DEF Plain
    <3> QED BY <1>2, <3>1, <3>3, <3>4
  <2> QED BY <1>5, <2>1, <2>2 DEF Client
<1>6. CASE UNCHANGED vars \/ \E q \in Queues, k \in Kinds : QueueRecord(q, k)
  BY <1>0, <1>6 DEF vars, clientVars, QueueRecord
<1> HIDE DEF Plain
<1> QED BY <1>3, <1>4, <1>5, <1>6 DEF Next, Server

LEMMA LossStep ==
  ASSUME LossInv, [Next]_vars
  PROVE  LossInv'
<1> DEFINE Sessions == \A c \in Clients : SessionInv(c)
<1>0. TypeOK /\ WalkInv /\ Sessions
  BY DEF LossInv, WalkInv, BitsInv
<1>1. WalkInv'
  BY <1>0, WalkStep
<1>2. ASSUME NEW q \in Queues, NEW k \in Kinds, QueueRecord(q, k) PROVE Sessions'
  BY <1>2, LossQueueRecord
<1>3. ASSUME NEW c \in Clients, Serve(c) PROVE Sessions'
  BY <1>3, LossServe
<1>4. ASSUME NEW c \in Clients, CheckClient(c) \/ UnblockCommand(c) PROVE Sessions'
  BY <1>4, LossDrop
<1>5. ASSUME NEW c \in Clients, FallQuiet(c) \/ Client(c) PROVE Sessions'
  BY <1>5, LossClient
<1>6. ASSUME UNCHANGED vars PROVE Sessions'
  <2>1. UNCHANGED << elem, head, tail, nextData, table, seg, got, lapped, resumed >>
    BY <1>6 DEF vars, ringVars, clientVars
  <2>2. Keeps
    BY <2>1 DEF Keeps
  <2>3. \A c \in Clients : SessionKept(c)
    BY <1>0, <2>1 DEF SessionKept, SessionInv, SegmentInOrder
  <2> QED BY <2>1, <2>2, <2>3, KeptSession
<1> HIDE DEF Sessions
<1>7. Sessions'
  BY <1>2, <1>3, <1>4, <1>5, <1>6 DEF Next, Server
<1> QED BY <1>1, <1>7, FirstOnlyStep DEF LossInv, Sessions

(* What one step may do to a record that carries client c's bit.           *)
KeptFor(c, q, i) ==
  c \in elem[q][i].blockmap /\ elem[q][i].kind \in Wanted[c] =>
    \/ c \in elem'[q][i].blockmap /\ elem'[q][i].num = elem[q][i].num
    \/ elem[q][i].num \in got[c]

LEMMA StepLosesNone ==
  ASSUME LossInv, Starts \subseteq {"FIRST"}, [Next]_vars, NEW c \in Clients,
         c \in blockmask, c \in blockmask', c \notin lapped,
         NEW q \in Mask[c], NEW i \in Places(q)
  PROVE  KeptFor(c, q, i)
<1> SUFFICES ASSUME c \in elem[q][i].blockmap, elem[q][i].kind \in Wanted[c],
                    elem[q][i].num \notin got[c]
             PROVE  c \in elem'[q][i].blockmap /\ elem'[q][i].num = elem[q][i].num
  BY DEF KeptFor
<1>0. TypeOK /\ WalkInv /\ SessionInv(c) /\ q \in Queues
  BY DEF LossInv, WalkInv, BitsInv
<1>1. ASSUME NEW r \in Queues, NEW k \in Kinds, QueueRecord(r, k)
      PROVE  c \in elem'[q][i].blockmap /\ elem'[q][i].num = elem[q][i].num
  <2>1. i \in Held(q)
    BY <1>0 DEF WalkInv, Shape, BitsOnlyOnHeld
  <2>2. i # head[q]
    BY <1>0, <2>1, HeldPlaces
  <2>3. elem'[q][i] = elem[q][i]
    BY <1>0, <1>1, <2>2, QueuedElements
  <2> QED BY <2>3
<1>2. ASSUME NEW d \in Clients, Serve(d)
      PROVE  c \in elem'[q][i].blockmap /\ elem'[q][i].num = elem[q][i].num
  <2>1. CASE d # c
    BY <1>0, <1>2, <2>1, ServeElements
  <2>2. CASE d = c
    <3>1. ~ (Elects(c) /\ ~ seg[c].blocking)
      BY <1>0, <1>2, <2>2, StaysInMask
    <3>2. ASSUME ServeData(c), i \in Acked(c, q) PROVE FALSE
      <4>1. seg[c].seqdbuf = "NEXT"
        BY <3>2 DEF Acked, LossInv, FirstOnly
      <4>2. i \in Held(q) /\ elem[q][i].num < seg[c].next_data
        BY <1>0, <3>2, <4>1, AckedPlaces DEF Before, NextWanted, Restarting
      <4>3. elem[q][i].num \in got[c] \cup seg[c].data
        BY <1>0, <4>1, <4>2 DEF SessionInv, Processed
      <4>4. seg[c].data = {}
        BY <1>0, <1>2, <2>2 DEF Serve, SessionInv, SegmentInOrder
      <4> QED BY <4>3, <4>4
    <3> QED BY <1>0, <1>2, <2>2, <3>1, <3>2, ServeElements
  <2> QED BY <2>1, <2>2
<1>3. ASSUME NEW d \in Clients, CheckClient(d) \/ UnblockCommand(d)
      PROVE  c \in elem'[q][i].blockmap /\ elem'[q][i].num = elem[q][i].num
  BY <1>0, <1>3, DropElements
<1>4. ASSUME NEW d \in Clients, FallQuiet(d) \/ Client(d)
      PROVE  c \in elem'[q][i].blockmap /\ elem'[q][i].num = elem[q][i].num
  <2>1. UNCHANGED ringVars
    BY <1>4 DEF FallQuiet, Client, Start, AskAttach, Scan, AskData, Return, ReturnLate, Finish,
                GiveUp, Die, Terminate
  <2> QED BY <2>1 DEF ringVars
<1>5. CASE UNCHANGED vars
  BY <1>5 DEF vars, ringVars
<1> QED BY <1>1, <1>2, <1>3, <1>4, <1>5 DEF Next, Server

(* No record is lost to a blocking client: while it stays in the mask, and *)
(* has not met a ring gone round exactly once, a record with its bit keeps *)
(* its element and the bit until the client has processed it.  Assumed of  *)
(* the programs: the first request of each is for CSQ_FIRST.               *)
THEOREM NoneLost ==
  ASSUME Starts \subseteq {"FIRST"}
  PROVE  Spec => NothingLost
<1> DEFINE None == \A c \in (blockmask \cap blockmask') \ lapped :
                     \A q \in Mask[c] : \A i \in Places(q) :
                       c \in elem[q][i].blockmap /\ elem[q][i].kind \in Wanted[c] =>
                         \/ c \in elem'[q][i].blockmap /\ elem'[q][i].num = elem[q][i].num
                         \/ elem[q][i].num \in got[c]
<1>1. LossInv /\ [Next]_vars => LossInv'
  BY LossStep
<1>2. LossInv /\ [Next]_vars => [None]_vars
  <2> SUFFICES ASSUME LossInv, [Next]_vars PROVE None
    OBVIOUS
  <2>1. blockmask \subseteq Clients
    BY DEF LossInv, WalkInv, BitsInv, TypeOK, RingsTypeOK
  <2> QED BY <2>1, StepLosesNone DEF KeptFor
<1> HIDE DEF None
<1>3. Spec => [][None]_vars
  BY <1>1, <1>2, LossInit, PTL DEF Spec
<1> QED BY <1>3 DEF None, NothingLost

(* Records reach a client in the order they were received: a request that  *)
(* continues a session passes over none that is in a ring and selected, if *)
(* none of its rings has gone round exactly once, and the program did not  *)
(* begin with CSQ_NEXT.                                                    *)
THEOREM NonePassedOver == Spec => InOrderUnlessLapped
<1> DEFINE InOrder == \A c \in Clients \ resumed :
                        Continues(c) /\ ~ (\E q \in Mask[c] : Lapped(c, q)) => ~ PassedOver(c)
<1>1. LossInv /\ [Next]_vars => LossInv'
  BY LossStep
<1>2. ASSUME LossInv, [Next]_vars PROVE InOrder
  <2> SUFFICES ASSUME NEW c \in Clients \ resumed, Continues(c), ~ (\E q \in Mask[c] : Lapped(c, q)),
                      NEW q \in Mask[c], NEW i \in Held(q), elem[q][i].kind \in Wanted[c],
                      elem[q][i].num \in seg[c].next_data .. seg'[c].next_data - 1,
                      elem[q][i].num \notin seg'[c].data
               PROVE  FALSE
    BY DEF PassedOver
  <2>1. TypeOK /\ WalkInv /\ q \in Queues /\ seg[c].next_data \in Nat
    BY <1>2 DEF LossInv, WalkInv, BitsInv, TypeOK, Segments
  <2>2. seg'[c].next_data = NextAfter(c) /\ seg'[c].data = Delivered(c)
    BY <1>2, <2>1, ServingServes DEF Continues
  <2>3. seg[c].seqdbuf = "NEXT" /\ ReadFrom(c, q) = AckTo(c, q)
    BY DEF Continues, ReadFrom
  <2>4. NextAfter(c) \in Nat /\ elem[q][i].num \in Nat
    BY <2>1, AnswerReach, Ascend
  <2>5. ~ (elem[q][i].num < seg[c].next_data) /\ elem[q][i].num < NextAfter(c)
    BY <2>1, <2>2, <2>4
  <2>6. i \in From(q, ReadFrom(c, q))
    BY <1>2, <2>1, <2>3, <2>5, Reach
  <2>7. elem[q][i] \in Ahead(c)
    BY <2>6 DEF Ahead
  <2>8. elem[q][i] \in Taken(c)
    BY <2>1, <2>5, <2>7, AnswerReach
  <2> QED BY <2>2, <2>8 DEF Delivered, Selected
<1>3. LossInv /\ [Next]_vars => [InOrder]_vars
  BY <1>2
<1> HIDE DEF InOrder
<1>4. Spec => [][InOrder]_vars
  BY <1>1, <1>3, LossInit, PTL DEF Spec
<1> QED BY <1>4 DEF InOrder, InOrderUnlessLapped
==============================================================================
