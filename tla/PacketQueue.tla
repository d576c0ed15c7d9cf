----------------------------- MODULE PacketQueue -----------------------------
(***************************************************************************)
(* libcomserv/PacketQueue.C: the circular array between the datalogger     *)
(* library's thread (enqueuePacket) and the server's main thread           *)
(* (dequeuePacket, numQueued, numFree).  Every method holds queueLock for  *)
(* its whole body, so each is one step.  A slot's dataSize, zero or not,   *)
(* is the only thing the code tests of its contents: a slot here is a      *)
(* packet (dataSize > 0) or NoPacket (dataSize = 0, a cleared slot).       *)
(***************************************************************************)
EXTENDS Integers

CONSTANTS
  Packets,    (* the packets with dataSize > 0                            *)
  NoPacket,   (* a packet with dataSize = 0                               *)
  QueueSize   (* queueSize, from the server's configuration               *)

ASSUME PacketQueueAssumption ==
  /\ QueueSize \in Nat \ {0}
  /\ NoPacket \notin Packets

VARIABLES
  queue,      (* the slots                                                *)
  queueHead,  (* index of the oldest packet                               *)
  queueTail,  (* index the next packet is written to                      *)
  nqueued,    (* the count kept beside the slots                          *)
  returned    (* what the latest dequeuePacket returned                   *)

vars == << queue, queueHead, queueTail, nqueued, returned >>

Slots == 0 .. QueueSize - 1

(* An index counted past the end starts again at slot 0. *)
Wrap(i) == IF i >= QueueSize THEN i - QueueSize ELSE i

Init ==
  /\ queue = [i \in Slots |-> NoPacket]
  /\ queueHead = 0
  /\ queueTail = 0
  /\ nqueued = 0
  /\ returned = NoPacket

(* Defects the properties must notice, each one line away from the code:   *)
(* lapping without resetting the count, lapping without moving the head,   *)
(* and (below) a dequeue that leaves its slot marked.                      *)
AdvanceTailKeepsCounting(slots) ==
  LET tail == Wrap(queueTail + 1)
  IN  /\ queueTail' = tail
      /\ queueHead' = IF slots[tail] # NoPacket THEN tail ELSE queueHead
      /\ nqueued'   = nqueued + 1

AdvanceTailKeepsHead(slots) ==
  LET tail == Wrap(queueTail + 1)
  IN  /\ queueTail' = tail
      /\ nqueued'   = IF slots[tail] # NoPacket THEN QueueSize ELSE nqueued + 1
      /\ UNCHANGED queueHead

(* advanceTail, called with the slots the caller has just written. *)
AdvanceTail(slots) ==
  LET tail == Wrap(queueTail + 1)
      full == slots[tail] # NoPacket
  IN  /\ queueTail' = tail
      /\ queueHead' = IF full THEN tail ELSE queueHead
      /\ nqueued'   = IF full THEN QueueSize ELSE nqueued + 1

AdvanceHead ==
  /\ queueHead' = Wrap(queueHead + 1)
  /\ nqueued' = nqueued - 1

(* A packet whose dataSize is not positive is refused before the lock. *)
EnqueuePacket(p) ==
  \/ /\ p # NoPacket
     /\ queue' = [queue EXCEPT ![queueTail] = p]
     /\ AdvanceTail(queue')
     /\ UNCHANGED returned
  \/ /\ p = NoPacket
     /\ UNCHANGED vars

DequeuePacketKeepsMark ==
  /\ returned' = queue[queueHead]
  /\ IF returned' # NoPacket
       THEN AdvanceHead
       ELSE UNCHANGED << queueHead, nqueued >>
  /\ UNCHANGED << queue, queueTail >>

(* The slot is cleared even when it was empty; the head only moves past a  *)
(* packet.                                                                 *)
DequeuePacket ==
  /\ returned' = queue[queueHead]
  /\ queue' = [queue EXCEPT ![queueHead] = NoPacket]
  /\ IF returned' # NoPacket
       THEN AdvanceHead
       ELSE UNCHANGED << queueHead, nqueued >>
  /\ UNCHANGED queueTail

(* The queue is deleted and constructed again, with its owner, the         *)
(* interface to the datalogger library.                                    *)
Reconstruct ==
  /\ queue' = [i \in Slots |-> NoPacket]
  /\ queueHead' = 0 /\ queueTail' = 0 /\ nqueued' = 0 /\ returned' = NoPacket

Next ==
  \/ \E p \in Packets \cup {NoPacket} : EnqueuePacket(p)
  \/ DequeuePacket
  \/ Reconstruct

Spec == Init /\ [][Next]_vars
------------------------------------------------------------------------------
(* Each variable keeps its type; the indexes never leave the array and the *)
(* count never leaves 0 .. queueSize.                                      *)
TypeOK ==
  /\ queue \in [Slots -> Packets \cup {NoPacket}]
  /\ queueHead \in Slots
  /\ queueTail \in Slots
  /\ nqueued \in 0 .. QueueSize
  /\ returned \in Packets \cup {NoPacket}

(* The count, the two indexes and the marks in the slots, three records of *)
(* the same thing updated on different paths, never disagree: the unread   *)
(* packets are exactly the nqueued slots from queueHead on, and queueTail  *)
(* is the slot after them.  processPacketQueue trusts the count, dequeue   *)
(* trusts the marks, enqueue trusts both.                                  *)
CountMatchesSlots ==
  /\ queueTail = Wrap(queueHead + nqueued)
  /\ \A k \in Slots : queue[Wrap(queueHead + k)] # NoPacket <=> k < nqueued

(* The unread packets, oldest first. *)
Unread == [k \in 1 .. nqueued |-> queue[Wrap(queueHead + k - 1)]]

Abstract == INSTANCE DropOldestQueue
              WITH Capacity <- QueueSize, fifo <- Unread

(* The array behaves as the bounded first-in first-out buffer: no packet   *)
(* is returned twice, out of order or after it was given up, and lapping   *)
(* gives up only the oldest one, as the comments of PacketQueue.C claim.   *)
ImplementsDropOldest == Abstract!Spec
==============================================================================
