-------------------------------- MODULE Rings --------------------------------
(***************************************************************************)
(* The server's record store, libcomserv/buffers.c: one ring of elements   *)
(* per kind of packet in the server's shared memory segment.  A ring is a  *)
(* circular list; an element is named here by its place in the list.  The  *)
(* records held are those from tail up to, not including, head; head is    *)
(* the element the next record goes into and is never handed out.  An      *)
(* element whose blockmap is not empty holds a record some blocking client *)
(* has not acknowledged: it must not be dropped.                           *)
(*                                                                         *)
(* The bytes of a record are abstracted to its kind, what the selectors    *)
(* and the start time of a data request tell apart.                        *)
(***************************************************************************)
EXTENDS Integers, FiniteSets

CONSTANTS
  Queues,      (* the rings: DATAQ, DETQ, CALQ, TIMQ, MSGQ, BLKQ              *)
  Count,       (* elements in each ring, from the configuration               *)
  Clients,     (* the client numbers, bit positions in a blockmap             *)
  Kinds,       (* what selectors tell apart                                   *)
  MaxRecords   (* bound on the records queued in a behaviour                  *)

ASSUME RingsAssumption ==
  /\ IsFiniteSet(Queues)
  /\ Count \in [Queues -> Nat \ {0, 1}]
  /\ Kinds # {}
  /\ MaxRecords \in Nat

VARIABLES
  elem,        (* per ring and place: packet_num, kind of record, blockmap    *)
  head,        (* rings[].head                                                *)
  tail,        (* rings[].tail                                                *)
  nextData,    (* base->next_data, the number the next record gets            *)
  blockmask    (* the clients whose bit every new record gets                 *)

ringVars == << elem, head, tail, nextData, blockmask >>

Places(q) == 0 .. Count[q] - 1

(* The element a "next" pointer leads to. *)
Succ(q, i) == IF i + 1 = Count[q] THEN 0 ELSE i + 1

(* How many "next" pointers lead from place i to place j. *)
Dist(q, i, j) == IF j >= i THEN j - i ELSE j - i + Count[q]

(* The places a walk that starts at i passes before it meets head. *)
From(q, i) == {j \in Places(q) : Dist(q, i, j) < Dist(q, i, head[q])}

(* Where the ring's records are. *)
Held(q) == From(q, tail[q])

(* The first place of S that a walk from i meets. *)
FirstFrom(q, i, S) == CHOOSE j \in S : \A k \in S : Dist(q, i, j) <= Dist(q, i, k)

Elements == [num : 0 .. MaxRecords, kind : Kinds, blockmap : SUBSET Clients]

(* comserv_init on a new, zeroed, segment; mask holds the clients that are *)
(* given an implicit attach.                                               *)
RingsInit(mask) ==
  /\ elem = [q \in Queues |->
               [i \in Places(q) |-> [num |-> 0, kind |-> CHOOSE k \in Kinds : TRUE,
                                     blockmap |-> {}]]]
  /\ head = [q \in Queues |-> 0]
  /\ tail = [q \in Queues |-> 0]
  /\ nextData = 0
  /\ blockmask = mask

(* Defect: the element to be filled is tested, not the one after it. *)
BufAvailOfHead(q) == elem[q][head[q]].blockmap = {}

BufAvail(q) == elem[q][Succ(q, head[q])].blockmap = {}

AnyQueueBlocking == ~ \A q \in Queues : BufAvail(q)

(* Defects: the number of the record is counted first, and the oldest      *)
(* record is left in place when the ring is full.                          *)
GetBufferCountsFirst(q, k) ==
  /\ nextData < MaxRecords
  /\ BufAvail(q)
  /\ LET next == Succ(q, head[q])
     IN  /\ head' = [head EXCEPT ![q] = next]
         /\ elem' = [elem EXCEPT ![q][head[q]] =
                       [num |-> nextData + 1, kind |-> k, blockmap |-> blockmask]]
         /\ tail' = IF next = tail[q] THEN [tail EXCEPT ![q] = Succ(q, next)] ELSE tail
  /\ nextData' = nextData + 1
  /\ UNCHANGED blockmask

GetBufferKeepsTail(q, k) ==
  /\ nextData < MaxRecords
  /\ BufAvail(q)
  /\ head' = [head EXCEPT ![q] = Succ(q, head[q])]
  /\ elem' = [elem EXCEPT ![q][head[q]] =
                [num |-> nextData, kind |-> k, blockmap |-> blockmask]]
  /\ nextData' = nextData + 1
  /\ UNCHANGED << tail, blockmask >>

(* getbuffer: the record goes into the head element, the element after it  *)
(* becomes head, and if that was the oldest record it is dropped.  NULL,   *)
(* and no change, if a client still blocks it.                             *)
GetBuffer(q, k) ==
  /\ nextData < MaxRecords
  /\ BufAvail(q)
  /\ LET next == Succ(q, head[q])
     IN  /\ head' = [head EXCEPT ![q] = next]
         /\ elem' = [elem EXCEPT ![q][head[q]] =
                       [num |-> nextData, kind |-> k, blockmap |-> blockmask]]
         /\ tail' = IF next = tail[q] THEN [tail EXCEPT ![q] = Succ(q, next)] ELSE tail
  /\ nextData' = nextData + 1
  /\ UNCHANGED blockmask

(* unblock: the elements with client c's bit cleared in every one. *)
Unblocked(c) ==
  [q \in Queues |-> [i \in Places(q) |-> [elem[q][i] EXCEPT !.blockmap = @ \ {c}]]]
------------------------------------------------------------------------------
RingsTypeOK ==
  /\ elem = [q \in Queues |-> elem[q]] /\ \A q \in Queues : elem[q] \in [Places(q) -> Elements]
  /\ head \in [Queues -> Nat] /\ \A q \in Queues : head[q] \in Places(q)
  /\ tail \in [Queues -> Nat] /\ \A q \in Queues : tail[q] \in Places(q)
  /\ nextData \in 0 .. MaxRecords
  /\ blockmask \in SUBSET Clients

(* The head element carries no bits, and neither does any element outside  *)
(* the records held: so a bit can only disappear by being cleared, never   *)
(* by its element being dropped or refilled (getbuffer looks at the        *)
(* successor's blockmap only, and writes the head element unseen).         *)
BitsOnlyOnHeld ==
  \A q \in Queues : \A i \in Places(q) \ Held(q) : elem[q][i].blockmap = {}

(* Every bit belongs to a client still in the mask: whoever leaves the     *)
(* mask (timeout, UNBLOCK, electing not to block) leaves no bit behind.  A *)
(* bit left behind would never be cleared and the ring never move again.   *)
BitsOnlyOfMask ==
  \A q \in Queues : \A i \in Places(q) : elem[q][i].blockmap \subseteq blockmask

(* Walking a ring from tail to head meets records in the order they were   *)
(* queued; client_handler's merge of the rings and its early stop at the   *)
(* first number not below next_data rely on it.                            *)
RecordsAscend ==
  \A q \in Queues : \A i, j \in Held(q) :
    /\ elem[q][i].num < nextData
    /\ Dist(q, tail[q], i) < Dist(q, tail[q], j) => elem[q][i].num < elem[q][j].num

(* A record leaves its ring only when the element it is in becomes head,   *)
(* and then it is the oldest: getbuffer moves tail at that moment and no   *)
(* other, so a full ring is never mistaken for an empty one.               *)
DropsOnlyOldest ==
  [][\A q \in Queues : \A i \in Held(q) :
       i \in Held(q)' \/ (i = head'[q] /\ i = tail[q])]_ringVars
==============================================================================
