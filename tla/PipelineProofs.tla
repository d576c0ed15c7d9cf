--------------------------- MODULE PipelineProofs ---------------------------
(***************************************************************************)
(* Proofs about PacketQueue for every queue size and every set of packets: *)
(* its types, the agreement of count, indexes and marks (inductive         *)
(* together), and that it implements DropOldestQueue.  Then about Pipeline *)
(* for every size of the queue: its types, and that the throttle, the      *)
(* delay and the halt together keep the library from ever giving up a      *)
(* packet.                                                                 *)
(***************************************************************************)
EXTENDS Pipeline, Sequences, TLAPS

IInv == TypeOK /\ CountMatchesSlots

USE PacketQueueAssumption

(* Counting on from a slot stays inside the array, and two different       *)
(* distances below QueueSize lead to two different slots.                  *)
LEMMA WrapType ==
  ASSUME NEW h \in Slots, NEW k \in 0 .. QueueSize
  PROVE  Wrap(h + k) \in Slots
BY DEF Wrap, Slots

LEMMA WrapInjective ==
  ASSUME NEW h \in Slots, NEW j \in Slots, NEW k \in Slots,
         Wrap(h + j) = Wrap(h + k)
  PROVE  j = k
BY DEF Wrap, Slots

(* Every slot is at one distance from any other. *)
LEMMA WrapSurjective ==
  ASSUME NEW h \in Slots, NEW i \in Slots
  PROVE  \E k \in Slots : i = Wrap(h + k)
<1>1. CASE i >= h
  <2>1. i - h \in Slots /\ i = Wrap(h + (i - h))
    BY <1>1 DEF Wrap, Slots
  <2> QED BY <2>1
<1>2. CASE i < h
  <2>1. i - h + QueueSize \in Slots /\ i = Wrap(h + (i - h + QueueSize))
    BY <1>2 DEF Wrap, Slots
  <2> QED BY <2>1
<1> QED BY <1>1, <1>2 DEF Slots

(* Starting one slot later shortens every distance by one. *)
LEMMA WrapShift ==
  ASSUME NEW h \in Slots, NEW k \in 0 .. QueueSize - 1
  PROVE  Wrap(Wrap(h + 1) + k) = Wrap(h + (k + 1))
BY DEF Wrap, Slots

LEMMA WrapFull ==
  ASSUME NEW h \in Slots
  PROVE  Wrap(h + QueueSize) = h /\ Wrap(h + 0) = h
BY DEF Wrap, Slots

(* The head slot is empty exactly when nothing is queued. *)
LEMMA HeadMark ==
  ASSUME IInv
  PROVE  queue[queueHead] # NoPacket <=> nqueued > 0
<1>1. queueHead \in Slots /\ 0 \in Slots /\ nqueued \in 0 .. QueueSize
  BY DEF IInv, TypeOK, Slots
<1>2. queue[Wrap(queueHead + 0)] # NoPacket <=> 0 < nqueued
  BY <1>1 DEF IInv, CountMatchesSlots
<1> QED BY <1>1, <1>2, WrapFull

(* The slot after the one just written is occupied exactly when the queue  *)
(* now holds QueueSize packets.                                            *)
LEMMA LapMark ==
  ASSUME IInv, NEW p \in Packets,
         NEW slots, slots = [queue EXCEPT ![queueTail] = p]
  PROVE  slots[Wrap(queueTail + 1)] # NoPacket <=> nqueued + 1 >= QueueSize
<1> DEFINE next == Wrap(queueTail + 1)
<1>1. /\ queueHead \in Slots /\ queueTail \in Slots /\ nqueued \in 0 .. QueueSize
      /\ queue \in [Slots -> Packets \cup {NoPacket}]
      /\ queueTail = Wrap(queueHead + nqueued)
  BY DEF IInv, TypeOK, CountMatchesSlots
<1>2. CASE nqueued + 1 < QueueSize
  <2>1. nqueued \in Slots /\ nqueued + 1 \in Slots
    BY <1>1, <1>2 DEF Slots
  <2>2. next = Wrap(queueHead + (nqueued + 1))
    BY <1>1, <1>2 DEF Wrap, Slots
  <2>3. next \in Slots /\ next # queueTail
    BY <1>1, <2>1, <2>2 DEF Wrap, Slots
  <2>4. queue[next] = NoPacket
    BY <2>1, <2>2, <1>1 DEF IInv, CountMatchesSlots
  <2> QED BY <1>1, <1>2, <2>3, <2>4
<1>3. CASE nqueued + 1 = QueueSize
  <2>1. next = queueHead
    BY <1>1, <1>3 DEF Wrap, Slots
  <2>2. CASE queueHead = queueTail
    BY <2>1, <2>2, <1>1, <1>3
  <2>3. CASE queueHead # queueTail
    <3>1. nqueued > 0
      BY <2>3, <1>1, WrapFull
    <3> QED BY <3>1, <2>1, <2>3, HeadMark, <1>1, <1>3
  <2> QED BY <2>2, <2>3
<1>4. CASE nqueued = QueueSize
  <2>1. queueTail = queueHead
    BY <1>1, <1>4, WrapFull
  <2>2. next = Wrap(queueHead + 1) /\ next \in Slots
    BY <2>1, <1>1, WrapType
  <2>3. CASE QueueSize = 1
    <3>1. next = queueTail
      BY <2>1, <2>2, <2>3, <1>1 DEF Wrap, Slots
    <3> QED BY <3>1, <1>1, <1>4
  <2>4. CASE QueueSize > 1
    <3>1. 1 \in Slots /\ 0 \in Slots
      BY <2>4 DEF Slots
    <3>2. next # queueTail
      BY <2>1, <2>2, <2>4, <1>1 DEF Wrap, Slots
    <3>3. queue[next] # NoPacket
      BY <2>2, <3>1, <1>4, <2>4 DEF IInv, CountMatchesSlots
    <3> QED BY <3>2, <3>3, <2>2, <1>1, <1>4
  <2> QED BY <2>3, <2>4
<1> QED BY <1>1, <1>2, <1>3, <1>4

(* Adding a packet keeps the invariant, lapping or not. *)
LEMMA EnqueueKeeps ==
  ASSUME IInv, NEW p \in Packets \cup {NoPacket}, EnqueuePacket(p)
  PROVE  IInv'
<1>1. /\ queueHead \in Slots /\ queueTail \in Slots /\ nqueued \in 0 .. QueueSize
      /\ queue \in [Slots -> Packets \cup {NoPacket}]
      /\ queueTail = Wrap(queueHead + nqueued)
  BY DEF IInv, TypeOK, CountMatchesSlots
<1>2. CASE UNCHANGED vars
  BY <1>2 DEF vars, IInv, TypeOK, CountMatchesSlots, Wrap, Slots
<1>3. CASE p # NoPacket /\ queue' = [queue EXCEPT ![queueTail] = p]
           /\ AdvanceTail(queue') /\ UNCHANGED returned
  <2> DEFINE next == Wrap(queueTail + 1)
  <2>1. p \in Packets
    BY <1>3
  <2>2. next \in Slots
    BY <1>1 DEF Wrap, Slots
  <2>3. queue'[next] # NoPacket <=> nqueued + 1 >= QueueSize
    BY <1>3, <2>1, LapMark
  <2>4. queueTail' = next
    BY <1>3 DEF AdvanceTail
  <2>5. CASE nqueued + 1 >= QueueSize
    <3>1. queueHead' = next /\ nqueued' = QueueSize
      BY <1>3, <2>3, <2>5 DEF AdvanceTail
    <3>2. TypeOK'
      BY <1>1, <1>3, <2>1, <2>2, <2>4, <3>1 DEF TypeOK, IInv
    <3>3. queueTail' = Wrap(queueHead' + nqueued')
      BY <2>2, <2>4, <3>1, WrapFull
    <3>4. \A i \in Slots : queue'[i] # NoPacket
      <4> SUFFICES ASSUME NEW i \in Slots, i # queueTail
                   PROVE  queue[i] # NoPacket
        BY <1>1, <1>3, <2>1
      <4>1. PICK k \in Slots : i = Wrap(queueHead + k)
        BY <1>1, WrapSurjective
      <4>2. k < nqueued
        BY <4>1, <1>1, <2>5 DEF Slots
      <4> QED BY <4>1, <4>2 DEF IInv, CountMatchesSlots
    <3>5. ASSUME NEW k \in Slots
          PROVE  queue'[Wrap(queueHead' + k)] # NoPacket <=> k < nqueued'
      <4>1. Wrap(queueHead' + k) \in Slots /\ k < QueueSize
        BY <2>2, <3>1 DEF Wrap, Slots
      <4> QED BY <4>1, <3>1, <3>4
    <3> QED BY <3>2, <3>3, <3>5 DEF IInv, CountMatchesSlots
  <2>6. CASE nqueued + 1 < QueueSize
    <3>1. queueHead' = queueHead /\ nqueued' = nqueued + 1
      BY <1>1, <1>3, <2>3, <2>6 DEF AdvanceTail
    <3>2. TypeOK'
      BY <1>1, <1>3, <2>1, <2>2, <2>4, <2>6, <3>1 DEF TypeOK, IInv
    <3>3. queueTail' = Wrap(queueHead' + nqueued')
      BY <1>1, <2>4, <2>6, <3>1 DEF Wrap, Slots
    <3>4. ASSUME NEW k \in Slots
          PROVE  queue'[Wrap(queueHead' + k)] # NoPacket <=> k < nqueued'
      <4>1. Wrap(queueHead + k) \in Slots /\ nqueued \in Slots
        BY <1>1, <2>6 DEF Wrap, Slots
      <4>2. queue[Wrap(queueHead + k)] # NoPacket <=> k < nqueued
        BY DEF IInv, CountMatchesSlots
      <4>3. CASE k = nqueued
        BY <4>1, <4>3, <1>1, <1>3, <2>1, <3>1
      <4>4. CASE k # nqueued
        <5>1. Wrap(queueHead + k) # queueTail
          BY <1>1, <4>1, <4>4, WrapInjective
        <5> QED BY <5>1, <4>1, <4>2, <4>4, <1>1, <1>3, <3>1 DEF Slots
      <4> QED BY <4>3, <4>4
    <3> QED BY <3>2, <3>3, <3>4 DEF IInv, CountMatchesSlots
  <2> QED BY <1>1, <2>5, <2>6
<1> QED BY <1>2, <1>3 DEF EnqueuePacket

(* So does removing one, or finding none to remove. *)
LEMMA DequeueKeeps ==
  ASSUME IInv, DequeuePacket
  PROVE  IInv'
<1>1. /\ queueHead \in Slots /\ queueTail \in Slots /\ nqueued \in 0 .. QueueSize
      /\ queue \in [Slots -> Packets \cup {NoPacket}]
      /\ queueTail = Wrap(queueHead + nqueued)
  BY DEF IInv, TypeOK, CountMatchesSlots
<1>2. /\ returned' = queue[queueHead]
      /\ queue' = [queue EXCEPT ![queueHead] = NoPacket]
      /\ queueTail' = queueTail
  BY DEF DequeuePacket
<1>3. returned' # NoPacket <=> nqueued > 0
  BY <1>2, HeadMark
<1>4. CASE nqueued = 0
  <2>1. queueHead' = queueHead /\ nqueued' = nqueued
    BY <1>1, <1>3, <1>4 DEF DequeuePacket
  <2>2. queue[queueHead] = NoPacket
    BY <1>1, <1>2, <1>3, <1>4
  <2>3. queue' = queue
    BY <1>1, <1>2, <2>2
  <2> QED BY <1>1, <1>2, <2>1, <2>3 DEF IInv, TypeOK, CountMatchesSlots
<1>5. CASE nqueued > 0
  <2>1. queueHead' = Wrap(queueHead + 1) /\ nqueued' = nqueued - 1
    BY <1>3, <1>5 DEF DequeuePacket, AdvanceHead
  <2>2. TypeOK'
    BY <1>1, <1>2, <1>5, <2>1 DEF TypeOK, Wrap, Slots
  <2>3. queueTail' = Wrap(queueHead' + nqueued')
    BY <1>1, <1>2, <1>5, <2>1 DEF Wrap, Slots
  <2>4. ASSUME NEW k \in Slots
        PROVE  queue'[Wrap(queueHead' + k)] # NoPacket <=> k < nqueued'
    <3>1. Wrap(queueHead' + k) = Wrap(queueHead + (k + 1))
      BY <1>1, <2>1, WrapShift DEF Slots
    <3>2. CASE k + 1 = QueueSize
      <4>1. Wrap(queueHead' + k) = queueHead
        BY <1>1, <3>1, <3>2, WrapFull
      <4> QED BY <4>1, <3>2, <1>1, <1>2, <2>1 DEF Slots
    <3>3. CASE k + 1 < QueueSize
      <4>1. k + 1 \in Slots /\ 0 \in Slots
        BY <3>3 DEF Slots
      <4>2. /\ Wrap(queueHead + (k + 1)) \in Slots
            /\ Wrap(queueHead + (k + 1)) # queueHead
        BY <1>1, <4>1 DEF Wrap, Slots
      <4>3. queue[Wrap(queueHead + (k + 1))] # NoPacket <=> k + 1 < nqueued
        BY <4>1 DEF IInv, CountMatchesSlots
      <4> QED BY <3>1, <4>2, <4>3, <1>1, <1>2, <2>1 DEF Slots
    <3> QED BY <3>2, <3>3 DEF Slots
  <2> QED BY <2>2, <2>3, <2>4 DEF IInv, CountMatchesSlots
<1> QED BY <1>1, <1>4, <1>5

(* A queue just constructed is empty. *)
LEMMA ReconstructKeeps ==
  ASSUME Reconstruct
  PROVE  IInv'
<1>1. TypeOK'
  BY DEF Reconstruct, TypeOK, Slots
<1>2. CountMatchesSlots'
  BY DEF Reconstruct, CountMatchesSlots, Wrap, Slots
<1> QED BY <1>1, <1>2 DEF IInv

(* The count, the indexes and the marks in the slots agree in every        *)
(* reachable state of a PacketQueue of any size (PacketQueue.C, advanceTail *)
(* and advanceHead).                                                       *)
THEOREM CountCorrect == Spec => [](TypeOK /\ CountMatchesSlots)
<1>1. Init => IInv
  <2> SUFFICES ASSUME Init PROVE IInv
    OBVIOUS
  <2>1. TypeOK
    BY DEF Init, TypeOK, Slots
  <2>2. CountMatchesSlots
    BY DEF Init, CountMatchesSlots, Wrap, Slots
  <2> QED BY <2>1, <2>2 DEF IInv
<1>2. IInv /\ [Next]_vars => IInv'
  <2> SUFFICES ASSUME IInv, [Next]_vars PROVE IInv'
    OBVIOUS
  <2>1. CASE UNCHANGED vars
    BY <2>1 DEF vars, IInv, TypeOK, CountMatchesSlots
  <2>2. ASSUME NEW p \in Packets \cup {NoPacket}, EnqueuePacket(p)
        PROVE  IInv'
    BY <2>2, EnqueueKeeps
  <2>3. CASE DequeuePacket
    BY <2>3, DequeueKeeps
  <2>4. CASE Reconstruct
    BY <2>4, ReconstructKeeps
  <2> QED BY <2>1, <2>2, <2>3, <2>4 DEF Next
<1> QED BY <1>1, <1>2, PTL DEF Spec, IInv

------------------------------------------------------------------------------
(* Unread, the refinement mapping, as a sequence. *)
UnreadIsSeq ==
  /\ Unread \in Seq(Packets)
  /\ Len(Unread) = nqueued
  /\ \A k \in 1 .. nqueued : Unread[k] = queue[Wrap(queueHead + k - 1)]

LEMMA UnreadSeq == IInv => UnreadIsSeq
<1> SUFFICES ASSUME IInv PROVE UnreadIsSeq
  OBVIOUS
<1>1. /\ queueHead \in Slots /\ nqueued \in 0 .. QueueSize
      /\ queue \in [Slots -> Packets \cup {NoPacket}]
  BY DEF IInv, TypeOK
<1>2. ASSUME NEW k \in 1 .. nqueued
      PROVE  queue[Wrap(queueHead + k - 1)] \in Packets
  <2>1. k - 1 \in Slots /\ k - 1 < nqueued /\ Wrap(queueHead + (k - 1)) \in Slots
    BY <1>1 DEF Slots, Wrap
  <2>2. queue[Wrap(queueHead + (k - 1))] # NoPacket
    BY <2>1 DEF IInv, CountMatchesSlots
  <2>3. queueHead + k - 1 = queueHead + (k - 1)
    BY <1>1 DEF Slots
  <2> QED BY <1>1, <2>1, <2>2, <2>3
<1> QED BY <1>1, <1>2 DEF Unread, UnreadIsSeq

(* Sequences are equal when their lengths and their elements are. *)
LEMMA SeqEqual ==
  ASSUME NEW S, NEW s \in Seq(S), NEW t \in Seq(S), Len(s) = Len(t),
         \A k \in 1 .. Len(s) : s[k] = t[k]
  PROVE  s = t
OBVIOUS

(* Enqueueing is Put, or nothing for a packet that is refused. *)
LEMMA EnqueueRefines ==
  ASSUME IInv, NEW p \in Packets \cup {NoPacket}, EnqueuePacket(p)
  PROVE  (p \in Packets /\ Abstract!Put(p)) \/ UNCHANGED << Unread, returned >>
<1>1. /\ queueHead \in Slots /\ queueTail \in Slots /\ nqueued \in 0 .. QueueSize
      /\ queue \in [Slots -> Packets \cup {NoPacket}]
      /\ queueTail = Wrap(queueHead + nqueued)
  BY DEF IInv, TypeOK, CountMatchesSlots
<1>2. CASE UNCHANGED vars
  BY <1>2 DEF vars, Unread, Wrap
<1>3. CASE p # NoPacket /\ queue' = [queue EXCEPT ![queueTail] = p]
           /\ AdvanceTail(queue') /\ UNCHANGED returned
  <2> DEFINE kept == IF Len(Unread) = QueueSize THEN Tail(Unread) ELSE Unread
  <2>1. p \in Packets /\ IInv'
    BY <1>3, EnqueueKeeps
  <2>2. queue'[Wrap(queueTail + 1)] # NoPacket <=> nqueued + 1 >= QueueSize
    BY <1>3, <2>1, LapMark
  <2>3. /\ Unread \in Seq(Packets) /\ Len(Unread) = nqueued
        /\ \A k \in 1 .. nqueued : Unread[k] = queue[Wrap(queueHead + k - 1)]
    BY UnreadSeq DEF UnreadIsSeq
  <2>4. /\ Unread' \in Seq(Packets) /\ Len(Unread') = nqueued'
        /\ \A k \in 1 .. nqueued' : Unread'[k] = queue'[Wrap(queueHead' + k - 1)]
    <3>1. UnreadIsSeq'
      BY <2>1, UnreadSeq, PTL
    <3> QED BY <3>1 DEF UnreadIsSeq
  <2>5. Unread' = Append(kept, p)
    <3>1. CASE nqueued = QueueSize
      <4>1. kept = Tail(Unread) /\ nqueued > 0 /\ kept \in Seq(Packets)
            /\ Len(kept) = QueueSize - 1
            /\ \A k \in 1 .. QueueSize - 1 : kept[k] = Unread[k + 1]
        BY <2>3, <3>1
      <4>2. /\ queueHead' = Wrap(queueHead + 1) /\ nqueued' = QueueSize
            /\ queueTail = queueHead
        BY <1>1, <1>3, <2>2, <3>1, WrapFull DEF AdvanceTail
      <4>3. ASSUME NEW k \in 1 .. QueueSize - 1
            PROVE  Unread'[k] = kept[k]
        <5>1. Wrap(queueHead' + k - 1) = Wrap(queueHead + (k + 1) - 1)
          BY <1>1, <4>2 DEF Wrap, Slots
        <5>2. /\ Wrap(queueHead + (k + 1) - 1) \in Slots
              /\ Wrap(queueHead + (k + 1) - 1) # queueTail
          BY <1>1, <4>2 DEF Wrap, Slots
        <5>3. Unread'[k] = queue[Wrap(queueHead + (k + 1) - 1)]
          BY <1>1, <1>3, <2>4, <4>2, <5>1, <5>2
        <5> QED BY <2>3, <3>1, <4>1, <5>3
      <4>4. Unread'[QueueSize] = p
        <5>1. Wrap(queueHead' + QueueSize - 1) = queueTail
          BY <1>1, <4>2 DEF Wrap, Slots
        <5> QED BY <1>1, <1>3, <2>4, <4>2, <5>1
      <4> QED BY <2>1, <2>4, <4>1, <4>2, <4>3, <4>4, SeqEqual
    <3>2. CASE nqueued < QueueSize
      <4>1. kept = Unread
        BY <2>3, <3>2
      <4>2. nqueued' = nqueued + 1
        BY <1>1, <1>3, <2>2, <3>2 DEF AdvanceTail
      <4>3. ASSUME NEW k \in 1 .. nqueued + 1
            PROVE  queue'[Wrap(queueHead' + k - 1)]
                     = IF k = nqueued + 1 THEN p ELSE queue[Wrap(queueHead + k - 1)]
        <5>1. CASE nqueued + 1 < QueueSize
          <6>1. queueHead' = queueHead
            BY <1>1, <1>3, <2>2, <5>1 DEF AdvanceTail
          <6>2. /\ Wrap(queueHead + k - 1) \in Slots
                /\ Wrap(queueHead + k - 1) = queueTail <=> k = nqueued + 1
            BY <1>1, <5>1 DEF Wrap, Slots
          <6> QED BY <1>1, <1>3, <6>1, <6>2
        <5>2. CASE nqueued + 1 = QueueSize
          <6>1. queueHead' = queueHead
            BY <1>1, <1>3, <2>2, <5>2 DEF AdvanceTail, Wrap, Slots
          <6>2. /\ Wrap(queueHead + k - 1) \in Slots
                /\ Wrap(queueHead + k - 1) = queueTail <=> k = nqueued + 1
            BY <1>1, <5>2 DEF Wrap, Slots
          <6> QED BY <1>1, <1>3, <6>1, <6>2
        <5> QED BY <1>1, <3>2, <5>1, <5>2
      <4> QED BY <2>1, <2>3, <2>4, <4>1, <4>2, <4>3, SeqEqual
    <3> QED BY <1>1, <3>1, <3>2
  <2> QED BY <1>3, <2>1, <2>5 DEF Abstract!Put
<1> QED BY <1>2, <1>3 DEF EnqueuePacket

(* Dequeueing is Take, or TakeNothing when nothing is queued. *)
LEMMA DequeueRefines ==
  ASSUME IInv, DequeuePacket
  PROVE  Abstract!Take \/ Abstract!TakeNothing
<1>1. /\ queueHead \in Slots /\ nqueued \in 0 .. QueueSize
      /\ queue \in [Slots -> Packets \cup {NoPacket}]
  BY DEF IInv, TypeOK
<1>2. /\ returned' = queue[queueHead]
      /\ queue' = [queue EXCEPT ![queueHead] = NoPacket]
  BY DEF DequeuePacket
<1>3. returned' # NoPacket <=> nqueued > 0
  BY <1>2, HeadMark
<1>4. /\ Unread \in Seq(Packets) /\ Len(Unread) = nqueued
      /\ \A k \in 1 .. nqueued : Unread[k] = queue[Wrap(queueHead + k - 1)]
  BY UnreadSeq DEF UnreadIsSeq
<1>5. /\ Unread' \in Seq(Packets) /\ Len(Unread') = nqueued'
      /\ \A k \in 1 .. nqueued' : Unread'[k] = queue'[Wrap(queueHead' + k - 1)]
  <2>1. UnreadIsSeq'
    BY DequeueKeeps, UnreadSeq, PTL
  <2> QED BY <2>1 DEF UnreadIsSeq
<1>6. CASE nqueued = 0
  <2>1. queueHead' = queueHead /\ nqueued' = nqueued /\ queue' = queue
    BY <1>1, <1>2, <1>3, <1>6 DEF DequeuePacket
  <2>2. Unread = << >> /\ Unread' = << >> /\ returned' = NoPacket
    BY <1>3, <1>4, <1>5, <1>6, <2>1
  <2> QED BY <2>2 DEF Abstract!TakeNothing
<1>7. CASE nqueued > 0
  <2>1. queueHead' = Wrap(queueHead + 1) /\ nqueued' = nqueued - 1
    BY <1>3, <1>7 DEF DequeuePacket, AdvanceHead
  <2>2. Unread # << >> /\ Head(Unread) = returned'
    <3>1. Wrap(queueHead + 1 - 1) = queueHead
      BY <1>1 DEF Wrap, Slots
    <3> QED BY <1>1, <1>2, <1>4, <1>7, <3>1
  <2>3. /\ Tail(Unread) \in Seq(Packets) /\ Len(Tail(Unread)) = nqueued - 1
        /\ \A k \in 1 .. nqueued - 1 : Tail(Unread)[k] = Unread[k + 1]
    BY <1>1, <1>4, <1>7
  <2>4. ASSUME NEW k \in 1 .. nqueued - 1
        PROVE  Unread'[k] = Tail(Unread)[k]
    <3>1. /\ Wrap(queueHead' + k - 1) = Wrap(queueHead + (k + 1) - 1)
          /\ Wrap(queueHead + (k + 1) - 1) \in Slots \ {queueHead}
      BY <1>1, <2>1 DEF Wrap, Slots
    <3> QED BY <1>1, <1>2, <1>4, <1>5, <2>1, <2>3, <3>1
  <2>5. Unread' = Tail(Unread)
    BY <1>5, <2>1, <2>3, <2>4, SeqEqual
  <2> QED BY <2>2, <2>5 DEF Abstract!Take
<1> QED BY <1>1, <1>6, <1>7

(* A PacketQueue of any size is a first-in first-out buffer that drops its *)
(* oldest packet when it is lapped (PacketQueue.C, enqueuePacket and       *)
(* dequeuePacket).                                                         *)
THEOREM RefinesDropOldest == Spec => ImplementsDropOldest
<1>1. Init => Abstract!Init
  BY DEF Init, Abstract!Init, Unread
<1>2. IInv /\ [Next]_vars => [Abstract!Next]_(Abstract!vars)
  <2> SUFFICES ASSUME IInv, [Next]_vars
               PROVE  [Abstract!Next]_(Abstract!vars)
    OBVIOUS
  <2>1. CASE UNCHANGED vars
    BY <2>1 DEF vars, Abstract!vars, Unread, Wrap
  <2>2. ASSUME NEW p \in Packets \cup {NoPacket}, EnqueuePacket(p)
        PROVE  [Abstract!Next]_(Abstract!vars)
    BY <2>2, EnqueueRefines DEF Abstract!Next, Abstract!vars
  <2>3. CASE DequeuePacket
    BY <2>3, DequeueRefines DEF Abstract!Next
  <2>4. CASE Reconstruct
    BY <2>4 DEF Reconstruct, Abstract!Next, Abstract!MakeAnew, Unread
  <2> QED BY <2>1, <2>2, <2>3, <2>4 DEF Next
<1> QED BY <1>1, <1>2, CountCorrect, PTL
        DEF Spec, IInv, Abstract!Spec, ImplementsDropOldest
------------------------------------------------------------------------------
(* Pipeline *)

USE PipelineAssumption DEF numFree

(* What each state of the flow guarantees of the room in the queue.  Data  *)
(* flow only while the main thread makes its passes.  A callback that      *)
(* returns has seen enough room itself, or has been delayed until a pass   *)
(* of the main thread saw it.  The rest is what the last callbacks take.   *)
Room ==
  /\ flow # "stopping" => late = 0
  /\ flow = "run" =>
       /\ main \in {"scan", "drain", "near"}
       /\ numFree >= min_free - 1
       /\ callback = "idle" \/ passed => numFree >= min_free
  /\ flow = "stopping" => numFree >= min_free - 1 - late
  /\ main = "start" => numFree >= QueueSize - (IF flow = "stopping" THEN late ELSE Late)

PInv == IInv /\ FlowTypeOK /\ Room

LEMMA Thresholds ==
  /\ min_free \in Nat /\ throttle_free \in Nat /\ unthrottle_free \in Nat
  /\ throttle_free >= min_free /\ unthrottle_free >= min_free
  /\ min_free + min_free <= QueueSize
BY DEF min_free, throttle_free, unthrottle_free

(* A packet takes one place while there is one. *)
LEMMA EnqueueCounts ==
  ASSUME IInv, NEW p \in Records, EnqueuePacket(p), nqueued < QueueSize
  PROVE  nqueued' = nqueued + 1
<1>1. p \in Packets /\ p # NoPacket /\ nqueued \in 0 .. QueueSize
  BY DEF IInv, TypeOK
<1>2. queue' = [queue EXCEPT ![queueTail] = p] /\ AdvanceTail(queue')
  BY <1>1 DEF EnqueuePacket
<1>3. queue'[Wrap(queueTail + 1)] # NoPacket <=> nqueued + 1 >= QueueSize
  BY <1>1, <1>2, LapMark
<1> QED BY <1>1, <1>2, <1>3 DEF AdvanceTail

(* A packet taken gives its place back. *)
LEMMA DequeueCounts ==
  ASSUME IInv, DequeuePacket, nqueued > 0
  PROVE  nqueued' = nqueued - 1
<1>1. returned' # NoPacket
  BY HeadMark DEF DequeuePacket
<1> QED BY <1>1 DEF DequeuePacket, AdvanceHead

(* There is room for whatever may still be delivered. *)
LEMMA DeliverHasRoom ==
  ASSUME PInv, callback = "idle", flow = "run" \/ (flow = "stopping" /\ late < Late)
  PROVE  nqueued < QueueSize
<1>1. nqueued \in 0 .. QueueSize /\ late \in 0 .. Late
  BY DEF PInv, IInv, TypeOK, FlowTypeOK
<1> QED BY <1>1, Thresholds DEF PInv, Room

(* The steps that leave the queue as it is. *)
LEMMA QueueKept ==
  ASSUME IInv, UNCHANGED vars
  PROVE  IInv' /\ nqueued' = nqueued
BY DEF vars, IInv, TypeOK, CountMatchesSlots, Wrap, Slots

LEMMA LibraryKeeps ==
  ASSUME PInv, (\E p \in Records : Deliver(p)) \/ LookFree \/ DelayOver \/ StopDone
  PROVE  PInv'
<1>1. nqueued \in 0 .. QueueSize /\ late \in 0 .. Late /\ FlowTypeOK /\ Room /\ IInv
  BY DEF PInv, IInv, TypeOK, FlowTypeOK
<1>2. ASSUME NEW p \in Records, Deliver(p)
      PROVE  PInv'
  <2>1. nqueued < QueueSize
    BY <1>2, DeliverHasRoom DEF Deliver
  <2>2. nqueued' = nqueued + 1 /\ IInv'
    BY <1>1, <1>2, <2>1, EnqueueCounts, EnqueueKeeps DEF Deliver
  <2>3. FlowTypeOK'
    <3>1. late' \in 0 .. Late
      BY <1>1, <1>2 DEF Deliver
    <3> QED BY <3>1, <1>1, <1>2, Zenon DEF Deliver, FlowTypeOK
  <2>4. Room'
    BY <1>1, <1>2, <2>1, <2>2, Thresholds DEF Deliver, Room, FlowTypeOK
  <2> QED BY <2>2, <2>3, <2>4 DEF PInv
<1>3. CASE LookFree
  <2>1. IInv' /\ nqueued' = nqueued
    BY <1>1, <1>3, QueueKept DEF LookFree
  <2>2. FlowTypeOK'
    <3>1. Throttled \in BOOLEAN
      <4>1. (numFree < unthrottle_free) \in BOOLEAN /\ (numFree < throttle_free) \in BOOLEAN
        BY <1>1, Thresholds, SMT
      <4> QED BY <4>1, Zenon DEF Throttled
    <3> QED BY <3>1, <1>1, <1>3, Zenon DEF LookFree, FlowTypeOK
  <2>3. callback' = "idle" => numFree >= min_free
    <3> SUFFICES ASSUME callback' = "idle" PROVE numFree >= min_free
      OBVIOUS
    <3>1. ~ Throttled
      BY <1>3, Zenon DEF LookFree
    <3>2. ~ (numFree < unthrottle_free) \/ ~ (numFree < throttle_free)
      BY <3>1, Zenon DEF Throttled
    <3> QED BY <3>2, <1>1, Thresholds
  <2>4. Room'
    BY <1>1, <1>3, <2>1, <2>3, Thresholds DEF LookFree, Room
  <2> QED BY <2>1, <2>2, <2>4 DEF PInv
<1>4. CASE DelayOver
  <2>1. IInv' /\ nqueued' = nqueued
    BY <1>1, <1>4, QueueKept DEF DelayOver
  <2>2. FlowTypeOK'
    BY <1>1, <1>4 DEF DelayOver, FlowTypeOK
  <2>3. Room'
    BY <1>1, <1>4, <2>1, Thresholds DEF DelayOver, Room, Looping
  <2> QED BY <2>1, <2>2, <2>3 DEF PInv
<1>5. CASE StopDone
  <2>1. IInv' /\ nqueued' = nqueued
    BY <1>1, <1>5, QueueKept DEF StopDone
  <2>2. FlowTypeOK'
    BY <1>1, <1>5 DEF StopDone, libVars, FlowTypeOK
  <2>3. Room'
    BY <1>1, <1>5, <2>1, Thresholds DEF StopDone, libVars, Room
  <2> QED BY <2>1, <2>2, <2>3 DEF PInv
<1> QED BY <1>2, <1>3, <1>4, <1>5

(* The steps of the main thread that move or lose packets. *)
LEMMA MovesKeep ==
  ASSUME PInv, Move \/ StartOver
  PROVE  PInv'
<1>1. nqueued \in 0 .. QueueSize /\ late \in 0 .. Late /\ FlowTypeOK /\ Room /\ IInv
  BY DEF PInv, IInv, TypeOK, FlowTypeOK
<1>2. CASE Move
  <2>1. IInv' /\ nqueued' = nqueued - 1
    BY <1>1, <1>2, DequeueKeeps, DequeueCounts DEF Move
  <2>2. FlowTypeOK'
    BY <1>1, <1>2 DEF Move, libVars, FlowTypeOK
  <2>3. Room'
    BY <1>1, <1>2, <2>1, Thresholds DEF Move, Draining, libVars, Room
  <2> QED BY <2>1, <2>2, <2>3 DEF PInv
<1>3. CASE StartOver
  <2>1. IInv' /\ nqueued' = 0
    BY <1>3, ReconstructKeeps DEF StartOver, Reconstruct
  <2>2. FlowTypeOK'
    BY <1>1, <1>3 DEF StartOver, Acknowledge, libVars, FlowTypeOK
  <2>3. Room'
    BY <1>1, <1>3, <2>1, Thresholds DEF StartOver, libVars, Room
  <2> QED BY <2>1, <2>2, <2>3 DEF PInv
<1> QED BY <1>2, <1>3

(* The others. *)
LEMMA MainKeeps ==
  ASSUME PInv,
         Emptied \/ Blocked \/ Near \/ Sleep \/ Scan \/ Start \/ Suspend \/ Suspended \/ Resume
  PROVE  PInv'
<1>1. nqueued \in 0 .. QueueSize /\ late \in 0 .. Late /\ FlowTypeOK /\ Room /\ IInv
  BY DEF PInv, IInv, TypeOK, FlowTypeOK
<1>2. IInv' /\ nqueued' = nqueued
  BY <1>1, QueueKept DEF Emptied, Blocked, Near, Sleep, Scan, Start, Suspend, Suspended, Resume
<1>3. FlowTypeOK'
  <2>1. CASE Emptied \/ Blocked \/ Near
    BY <1>1, <2>1 DEF Emptied, Blocked, Near, libVars, FlowTypeOK
  <2>2. CASE Sleep \/ Scan \/ Start
    <3>1. 0 \in 0 .. Late
      OBVIOUS
    <3>2. blocked' \in BOOLEAN
      BY <1>1, <2>2, Zenon DEF Sleep, Scan, Start, Acknowledge, FlowTypeOK
    <3> QED BY <3>1, <3>2, <1>1, <2>2, Zenon DEF Sleep, Scan, Start, libVars, FlowTypeOK
  <2>3. CASE Suspend \/ Suspended \/ Resume
    BY <1>1, <2>3, Zenon DEF Suspend, Suspended, Resume, libVars, FlowTypeOK
  <2> QED BY <2>1, <2>2, <2>3
<1>4. Room'
  <2>1. CASE Emptied
    BY <1>1, <1>2, <2>1, Thresholds DEF Emptied, Draining, libVars, Room
  <2>2. CASE Blocked
    BY <1>1, <1>2, <2>2, Thresholds DEF Blocked, Draining, libVars, Room
  <2>3. CASE Near
    BY <1>1, <1>2, <2>3, Thresholds DEF Near, libVars, Room
  <2>4. CASE Sleep \/ Scan
    BY <1>1, <1>2, <2>4, Thresholds DEF Sleep, Scan, libVars, Room
  <2>5. CASE Start
    BY <1>1, <1>2, <2>5, Thresholds DEF Start, libVars, Room, FlowTypeOK
  <2>6. CASE Suspend
    BY <1>1, <1>2, <2>6, Thresholds DEF Suspend, libVars, Room
  <2>7. CASE Suspended
    BY <1>1, <1>2, <2>7, Thresholds DEF Suspended, libVars, Room
  <2>8. CASE Resume
    BY <1>1, <1>2, <2>8, Thresholds DEF Resume, libVars, Room
  <2> QED BY <2>1, <2>2, <2>3, <2>4, <2>5, <2>6, <2>7, <2>8
<1> QED BY <1>2, <1>3, <1>4 DEF PInv

(* The invariant holds in every state of the pipeline. *)
LEMMA PipelineInvariant == FlowSpec => []PInv
<1>1. FlowInit => PInv
  <2> SUFFICES ASSUME FlowInit PROVE PInv
    OBVIOUS
  <2>1. TypeOK /\ CountMatchesSlots /\ nqueued = 0
    BY DEF FlowInit, Init, TypeOK, CountMatchesSlots, Wrap, Slots
  <2>2. FlowTypeOK
    <3>1. 0 \in 0 .. Late
      OBVIOUS
    <3> QED BY <3>1, Zenon DEF FlowInit, FlowTypeOK
  <2>3. Room
    BY <2>1, Thresholds DEF FlowInit, Room
  <2> QED BY <2>1, <2>2, <2>3 DEF PInv, IInv
<1>2. PInv /\ [FlowNext]_pipeVars => PInv'
  <2> SUFFICES ASSUME PInv, [FlowNext]_pipeVars PROVE PInv'
    OBVIOUS
  <2>1. CASE UNCHANGED pipeVars
    <3>1. IInv' /\ UNCHANGED << nqueued, flowVars >>
      BY <2>1, QueueKept DEF pipeVars, PInv
    <3> QED BY <3>1 DEF PInv, flowVars, libVars, FlowTypeOK, Room
  <2>2. CASE FlowNext
    BY <2>2, LibraryKeeps, MovesKeep, MainKeeps DEF FlowNext
  <2> QED BY <2>1, <2>2
<1> QED BY <1>1, <1>2, PTL DEF FlowSpec

(* The queue is never lapped, whatever its size, as long as the library    *)
(* stops soon enough (lib330Interface.C, miniseed_callback; q330serv.C,    *)
(* the test of queueNearFull).                                             *)
THEOREM PipelineGivesNoneUp == FlowSpec => NoneGivenUp
<1>1. PInv /\ [FlowNext]_pipeVars =>
        [callback = "idle" /\ callback' = "look" => nqueued < QueueSize]_pipeVars
  <2> SUFFICES ASSUME PInv, FlowNext, callback = "idle", callback' = "look"
               PROVE  nqueued < QueueSize
    OBVIOUS
  <2>1. PICK p \in Records : Deliver(p)
    BY DEF FlowNext, LookFree, DelayOver, StopDone, Move, Emptied, Blocked, Near, Sleep, Scan,
           Start, StartOver, Suspend, Suspended, Resume, libVars
  <2> QED BY <2>1, DeliverHasRoom DEF Deliver
<1> QED BY <1>1, PipelineInvariant, PTL DEF FlowSpec, NoneGivenUp

(* The queue keeps its types and its three records of what it holds agree  *)
(* while both threads use it.                                              *)
THEOREM PipelineTypes == FlowSpec => [](TypeOK /\ CountMatchesSlots)
<1>1. PInv => TypeOK /\ CountMatchesSlots
  BY DEF PInv, IInv
<1> QED BY <1>1, PipelineInvariant, PTL

(* Both threads stay at their places, and the library delivers no more     *)
(* after it was told to stop than it still can (q330serv.C, the wait for   *)
(* IDLE after queueNearFull).                                              *)
THEOREM FlowTypes == FlowSpec => []FlowTypeOK
<1>1. PInv => FlowTypeOK
  BY DEF PInv
<1> QED BY <1>1, PipelineInvariant, PTL
==============================================================================
