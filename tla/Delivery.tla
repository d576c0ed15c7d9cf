------------------------------- MODULE Delivery ------------------------------
(***************************************************************************)
(* Records on their way from the rings to the client programs: the data    *)
(* request of client_handler.c, the registration and time-out of blocking  *)
(* clients in comserv_subs.c, and the client side of a request in          *)
(* libcsutil/service.c.  The main thread of the server is one process:     *)
(* comserv_scan serves a request, the packet pump queues a record and      *)
(* check_clients looks at a client, each as one step between the steps of  *)
(* the clients.  A client program can die between any two of its steps and *)
(* be started again with a new segment.                                    *)
(*                                                                         *)
(* The clients here are reserved: they keep their place in the table.  A   *)
(* program is not restarted while the request of its previous process is   *)
(* still queued.  A request that the client gives up waiting for is one    *)
(* the server has not looked at yet.                                       *)
(***************************************************************************)
EXTENDS Rings

CONSTANTS
  Blockers,   (* the clients configured with a timeout: they may block       *)
  Blocking,   (* values programs pass for the blocking flag of cs_setup      *)
  Starts,     (* seqdbuf of a program's first data request                   *)
  Mask,       (* the rings each client asks for (datamask)                   *)
  Wanted,     (* the kinds each client's selectors let through               *)
  DataBufs,   (* the data buffers of a client, maxdbuf                       *)
  MaxStarts   (* bound on the times each client program is started           *)

ASSUME DeliveryAssumption ==
  /\ Blockers \subseteq Clients
  /\ Blocking \subseteq BOOLEAN
  /\ Starts \subseteq {"NEXT", "FIRST", "LAST"}
  /\ Mask \in [Clients -> SUBSET Queues]
  /\ Wanted \in [Clients -> SUBSET Kinds]
  /\ DataBufs \in Nat \ {0}
  /\ MaxStarts \in Nat

VARIABLES
  table,      (* the server's clients[] entry of each client                 *)
  seg,        (* each client's shared memory segment and what it is doing    *)
  got,        (* numbers of the records each client program has processed    *)
  acked,      (* history: numbers of the records each client acknowledged    *)
  lapped,     (* history: the clients that found a ring lapped, see below    *)
  resumed,    (* history: the clients whose program began with CSQ_NEXT      *)
  starts      (* how often each client program was started                   *)

clientVars == << table, seg, got, acked, lapped, resumed, starts >>
vars == << ringVars, clientVars >>

(* last[].scan = NULL.  last[].packet = -1 is then never looked at. *)
NoPlace == -1
NoLast == [scan |-> NoPlace, packet |-> -1]

(* A new segment, by cs_gen, and one whose process is gone. *)
NewSegment(b, s) ==
  [phase |-> "fresh", alive |-> TRUE, command |-> "ATTACH", seqdbuf |-> s, next_data |-> 0,
   reqdbuf |-> DataBufs, data |-> {}, blocking |-> b]

NoSegment(how) ==
  [phase |-> how, alive |-> FALSE, command |-> "ATTACH", seqdbuf |-> "FIRST", next_data |-> 0,
   reqdbuf |-> DataBufs, data |-> {}, blocking |-> FALSE]

(* comserv_init: the entries of blocking clients are active from the start. *)
Init ==
  /\ RingsInit(Blockers)
  /\ table = [c \in Clients |->
                [known |-> FALSE, blocking |-> c \in Blockers, active |-> c \in Blockers,
                 quiet |-> FALSE, last |-> [q \in Queues |-> NoLast]]]
  /\ seg = [c \in Clients |-> NoSegment("down")]
  /\ got = [c \in Clients |-> {}]
  /\ acked = [c \in Clients |-> {}]
  /\ lapped = {} /\ resumed = {}
  /\ starts = [c \in Clients |-> 0]
------------------------------------------------------------------------------
(* The packet pump hands a record to the rings only when none of them      *)
(* would block.                                                            *)
QueueRecord(q, k) ==
  /\ ~ AnyQueueBlocking
  /\ GetBuffer(q, k)
  /\ UNCHANGED clientVars
------------------------------------------------------------------------------
(* The registration that comserv_scan does for a segment it does not know: *)
(* whether the entry blocks from now on, the mask, the elements.           *)
Elects(c) == ~ table[c].known /\ c \in Blockers

EntryBlocking(c) == IF Elects(c) THEN seg[c].blocking ELSE table[c].blocking

MaskAfter(c) ==
  IF Elects(c)
    THEN IF seg[c].blocking THEN blockmask \cup {c} ELSE blockmask \ {c}
    ELSE blockmask

(* Defect: the client elects not to block, the records it has keep its bit. *)
ElemAfterKeepsBits(c) == elem

ElemAfter(c) == IF Elects(c) /\ ~ seg[c].blocking THEN Unblocked(c) ELSE elem

(* The rest of this section is CSCM_DATA_BLK, step by step.  A request     *)
(* that does not continue the previous one forgets where that one ended.   *)
Restarting(c) == seg[c].seqdbuf # "NEXT"

(* Defect: CSQ_LAST without the test for a server that has no record yet. *)
NextWantedUntested(c) ==
  IF ~ Restarting(c) THEN seg[c].next_data
  ELSE IF seg[c].seqdbuf = "LAST" THEN nextData - 1
  ELSE 0

NextWanted(c) ==
  IF ~ Restarting(c) THEN seg[c].next_data
  ELSE IF seg[c].seqdbuf = "LAST" /\ nextData > 0 THEN nextData - 1
  ELSE 0

LastSeen(c, q) == IF Restarting(c) THEN NoLast ELSE table[c].last[q]

(* Defect: the element is taken to hold what it held then. *)
AckFromUnchecked(c, q) ==
  LET last == LastSeen(c, q)
  IN  IF last.scan # NoPlace THEN last.scan ELSE tail[q]

(* Where the walk over the records of the previous answer starts: where it *)
(* ended last time, if that element still holds the record it held then.   *)
AckFrom(c, q) ==
  LET last == LastSeen(c, q)
  IN  IF last.scan # NoPlace /\ elem[q][last.scan].num = last.packet
        THEN last.scan
        ELSE tail[q]

(* Defect: no walk, the answer starts with the records of the previous one. *)
AckToNone(c, q) == AckFrom(c, q)

AckTo(c, q) ==
  FirstFrom(q, AckFrom(c, q),
            {head[q]} \cup {i \in Places(q) : elem[q][i].num >= NextWanted(c)})

(* Defect: the walk takes in the first record not yet delivered. *)
AckedTooFar(c, q) ==
  IF seg[c].seqdbuf = "FIRST" THEN {}
  ELSE {i \in From(q, AckFrom(c, q)) :
          Dist(q, AckFrom(c, q), i) <= Dist(q, AckFrom(c, q), AckTo(c, q))}

(* The elements the walk passes, acknowledged now.  CSQ_FIRST skips it. *)
Acked(c, q) ==
  IF seg[c].seqdbuf = "FIRST" THEN {}
  ELSE {i \in Places(q) : Dist(q, AckFrom(c, q), i) < Dist(q, AckFrom(c, q), AckTo(c, q))}

(* The numbers of the records that lose the client's bit by that. *)
Acknowledged(c) ==
  UNION {{elem[q][i].num : i \in {j \in Acked(c, q) :
            EntryBlocking(c) /\ c \in ElemAfter(c)[q][j].blockmap}} : q \in Queues}

(* Defect: starting over, a blocking client is given the whole ring. *)
FirstAnyway(c, q) == tail[q]

(* A blocking client that starts over skips the records before the first   *)
(* one that still carries its bit.                                         *)
FirstUnacked(c, q) ==
  IF EntryBlocking(c)
    THEN FirstFrom(q, tail[q],
                   {head[q]} \cup {i \in Places(q) : c \in ElemAfter(c)[q][i].blockmap})
    ELSE tail[q]

ReadFrom(c, q) == IF seg[c].seqdbuf = "FIRST" THEN FirstUnacked(c, q) ELSE AckTo(c, q)

(* The records still ahead of the client, over all the rings it asks for.  *)
Ahead(c) == UNION {{elem[q][i] : i \in From(q, ReadFrom(c, q))} : q \in Mask[c]}

Selected(c, r) == r.kind \in Wanted[c]

(* They are taken in the order of their numbers until reqdbuf of them have *)
(* passed the selectors.                                                   *)
Taken(c) ==
  {r \in Ahead(c) :
     Cardinality({s \in Ahead(c) : s.num < r.num /\ Selected(c, s)}) < seg[c].reqdbuf}

Delivered(c) == {r.num : r \in {s \in Taken(c) : Selected(c, s)}}

(* Defect: the number of the last record, not the one after it. *)
NextAfterSame(c) ==
  IF Taken(c) = {} THEN NextWanted(c)
  ELSE (CHOOSE r \in Taken(c) : \A s \in Taken(c) : s.num <= r.num).num

NextAfter(c) ==
  IF Taken(c) = {} THEN NextWanted(c)
  ELSE (CHOOSE r \in Taken(c) : \A s \in Taken(c) : s.num <= r.num).num + 1

LastAfter(c, q) ==
  IF Acked(c, q) = {} THEN LastSeen(c, q)
  ELSE [scan |-> AckTo(c, q), packet |-> elem[q][AckTo(c, q)].num]

(* The element where the walk of the last request ended is the head        *)
(* element and still has the number it had then, because the ring has gone *)
(* round exactly once: the walk takes the ring for empty.                  *)
Lapped(c, q) ==
  /\ table[c].last[q].scan = head[q]
  /\ elem[q][head[q]].num = table[c].last[q].packet
  /\ \E i \in Held(q) : elem[q][i].num >= seg[c].next_data

(* The request of client c is the one comserv_scan comes to: registration  *)
(* if need be, then client_handler, then done = TRUE.                      *)
ServeAttach(c) ==
  /\ seg[c].command = "ATTACH"
  /\ elem' = ElemAfter(c)
  /\ table' = [table EXCEPT ![c].known = TRUE, ![c].active = TRUE, ![c].quiet = FALSE,
                            ![c].blocking = EntryBlocking(c)]
  /\ seg' = [seg EXCEPT ![c] = IF @.alive THEN [@ EXCEPT !.phase = "answered"]
                              ELSE NoSegment("down")]
  /\ UNCHANGED << acked, lapped >>

ServeData(c) ==
  /\ seg[c].command = "DATA_BLK"
  /\ elem' = [q \in Queues |-> [i \in Places(q) |->
                IF EntryBlocking(c) /\ i \in Acked(c, q)
                  THEN [elem[q][i] EXCEPT !.blockmap = @ \ {c}]
                  ELSE ElemAfter(c)[q][i]]]
  /\ table' = [table EXCEPT ![c].known = TRUE, ![c].active = TRUE, ![c].quiet = FALSE,
                            ![c].blocking = EntryBlocking(c),
                            ![c].last = [q \in Queues |-> LastAfter(c, q)]]
  /\ seg' = [seg EXCEPT ![c] =
               IF @.alive
                 THEN [@ EXCEPT !.phase = "answered", !.seqdbuf = "NEXT",
                                !.next_data = NextAfter(c), !.data = Delivered(c)]
                 ELSE NoSegment("down")]
  /\ acked' = [acked EXCEPT ![c] = @ \cup Acknowledged(c)]
  /\ lapped' = IF Restarting(c) THEN lapped \ {c}
                ELSE IF \E q \in Mask[c] : Lapped(c, q) THEN lapped \cup {c}
                ELSE lapped

Serve(c) ==
  /\ seg[c].phase = "asking"
  /\ ServeAttach(c) \/ ServeData(c)
  /\ blockmask' = MaskAfter(c)
  /\ UNCHANGED << head, tail, nextData, got, resumed, starts >>
------------------------------------------------------------------------------
(* More than its timeout passes since the last service of a blocking       *)
(* client.                                                                 *)
FallQuiet(c) ==
  /\ table[c].blocking /\ table[c].active /\ ~ table[c].quiet
  /\ table' = [table EXCEPT ![c].quiet = TRUE]
  /\ UNCHANGED << ringVars, seg, got, acked, lapped, resumed, starts >>

TimedOut(c) == table[c].blocking /\ table[c].quiet

Died(c) == table[c].known /\ ~ seg[c].alive

(* Defects: a time-out that forgets the mask, and one that forgets the     *)
(* records that have the bit already.                                      *)
DetachKeepsMask(c, timedout) ==
  /\ table' = [table EXCEPT ![c].known = FALSE,
                            ![c].active = IF timedout THEN FALSE ELSE @]
  /\ elem' = IF timedout THEN Unblocked(c) ELSE elem
  /\ UNCHANGED << head, tail, nextData, blockmask, got, acked, lapped, resumed, starts >>

DetachKeepsBits(c, timedout) ==
  /\ table' = [table EXCEPT ![c].known = FALSE,
                            ![c].active = IF timedout THEN FALSE ELSE @]
  /\ blockmask' = IF timedout THEN blockmask \ {c} ELSE blockmask
  /\ UNCHANGED << elem, head, tail, nextData, got, acked, lapped, resumed, starts >>

(* detach_client: the segment is forgotten, and removed if nobody else has *)
(* it; a timed-out client is unblocked.                                    *)
Detach(c, timedout) ==
  /\ table' = [table EXCEPT ![c].known = FALSE,
                            ![c].active = IF timedout THEN FALSE ELSE @]
  /\ elem' = IF timedout THEN Unblocked(c) ELSE elem
  /\ blockmask' = IF timedout THEN blockmask \ {c} ELSE blockmask
  /\ UNCHANGED << head, tail, nextData, got, acked, lapped, resumed, starts >>

CheckClient(c) ==
  /\ table[c].active
  /\ TimedOut(c) \/ Died(c)
  /\ Detach(c, TimedOut(c))
  /\ seg' = IF Died(c) THEN [seg EXCEPT ![c] = NoSegment("down")] ELSE seg

(* CSCM_UNBLOCK with client c's number, sent by an operator. *)
UnblockCommand(c) ==
  /\ c \in blockmask
  /\ elem' = Unblocked(c)
  /\ blockmask' = blockmask \ {c}
  /\ UNCHANGED << head, tail, nextData, table, seg, got, acked, lapped, resumed, starts >>
------------------------------------------------------------------------------
(* A program starts: cs_gen makes a new segment, which the server does not *)
(* know.                                                                   *)
Start(c, b, s) ==
  /\ seg[c].phase \in {"down", "closed"}
  /\ starts[c] < MaxStarts
  /\ starts' = [starts EXCEPT ![c] = @ + 1]
  /\ seg' = [seg EXCEPT ![c] = NewSegment(b, s)]
  /\ table' = [table EXCEPT ![c].known = FALSE]
  /\ resumed' = IF s = "NEXT" THEN resumed \cup {c} ELSE resumed \ {c}
  /\ UNCHANGED << ringVars, got, acked, lapped >>

(* cs_attach, from cs_gen or from a cs_check that finds the status bad. *)
AskAttach(c) ==
  /\ seg[c].phase = "fresh"
  /\ seg' = [seg EXCEPT ![c].phase = "asking", ![c].command = "ATTACH"]
  /\ UNCHANGED << ringVars, table, got, acked, lapped, resumed, starts >>

(* cs_scan: valdbuf is reset and a data request is queued. *)
AskData(c, n) ==
  /\ seg[c].phase = "idle"
  /\ seg' = [seg EXCEPT ![c].phase = "asking", ![c].command = "DATA_BLK",
                        ![c].data = {}, ![c].reqdbuf = n]
  /\ UNCHANGED << ringVars, table, got, acked, lapped, resumed, starts >>

Scan(c) == AskData(c, DataBufs)

(* The program sees its request done, with status, and processes the       *)
(* records received.  After the final scan it exits.                       *)
Finish(c, status) ==
  /\ seg[c].phase = "answered" /\ seg[c].alive
  /\ got' = [got EXCEPT ![c] = @ \cup seg[c].data]
  /\ seg' = IF seg[c].reqdbuf = 0
              THEN [seg EXCEPT ![c] = NoSegment("closed")]
              ELSE [seg EXCEPT ![c].data = {},
                               ![c].phase = IF status = "GOOD" THEN "idle" ELSE "fresh"]
  /\ UNCHANGED << ringVars, table, acked, lapped, resumed, starts >>

Return(c) == Finish(c, "GOOD")

(* The answer comes while cs_svc is giving up: its records are processed   *)
(* all the same, but cs_check will attach again before the next request.   *)
ReturnLate(c) == Finish(c, "TIMEOUT")

(* CSCR_TIMEOUT: the request is taken back; cs_check will attach again. *)
GiveUp(c) ==
  /\ seg[c].phase = "asking" /\ seg[c].alive
  /\ seg' = IF seg[c].reqdbuf = 0
              THEN [seg EXCEPT ![c] = NoSegment("closed")]
              ELSE [seg EXCEPT ![c].phase = "fresh"]
  /\ UNCHANGED << ringVars, table, got, acked, lapped, resumed, starts >>

Die(c) ==
  /\ seg[c].alive
  /\ seg' = [seg EXCEPT ![c] = IF @.phase = "asking" THEN [@ EXCEPT !.alive = FALSE]
                              ELSE NoSegment("down")]
  /\ UNCHANGED << ringVars, table, got, acked, lapped, resumed, starts >>

(* terminate_program: one last cs_scan, for no records, meant to           *)
(* acknowledge the last ones.  cs_check may find nothing new to ask for,   *)
(* or a bad status, and no request is made.                                *)
Terminate(c) ==
  \/ AskData(c, 0)
  \/ /\ \/ seg[c].phase = "idle" /\ seg[c].next_data >= nextData
        \/ seg[c].phase = "fresh"
     /\ seg' = [seg EXCEPT ![c] = NoSegment("closed")]
     /\ UNCHANGED << ringVars, table, got, acked, lapped, resumed, starts >>

Server(c) == Serve(c) \/ CheckClient(c)

Client(c) ==
  \/ \E b \in Blocking, s \in Starts : Start(c, b, s)
  \/ AskAttach(c) \/ Scan(c) \/ Return(c) \/ ReturnLate(c) \/ GiveUp(c) \/ Die(c) \/ Terminate(c)

Next ==
  \/ \E q \in Queues, k \in Kinds : QueueRecord(q, k)
  \/ \E c \in Clients : Server(c) \/ FallQuiet(c) \/ UnblockCommand(c) \/ Client(c)

Spec == Init /\ [][Next]_vars
------------------------------------------------------------------------------
Segments ==
  [phase : {"down", "fresh", "idle", "asking", "answered", "closed"}, alive : BOOLEAN,
   command : {"ATTACH", "DATA_BLK"}, seqdbuf : {"NEXT", "FIRST", "LAST"}, next_data : Nat,
   reqdbuf : 0 .. DataBufs, data : SUBSET Nat, blocking : BOOLEAN]

Marks == [scan : Int, packet : Int]

Entries ==
  [known : BOOLEAN, blocking : BOOLEAN, active : BOOLEAN, quiet : BOOLEAN,
   last : [Queues -> Marks]]

TypeOK ==
  /\ RingsTypeOK
  /\ table \in [Clients -> Entries]
  /\ \A c \in Clients, q \in Queues :
       table[c].last[q].scan \in Places(q) \cup {NoPlace}
  /\ seg \in [Clients -> Segments]
  /\ got \in [Clients -> SUBSET Nat] /\ acked \in [Clients -> SUBSET Nat]
  /\ lapped \in SUBSET Clients /\ resumed \in SUBSET Clients
  /\ starts \in [Clients -> 0 .. MaxStarts]

(* A client whose bit new records get can always be timed out: its entry   *)
(* is blocking and active, the two things check_clients looks at.  A mask  *)
(* bit without them would fill a ring for good once the client is gone.    *)
BlockersCanTimeOut ==
  \A c \in blockmask : table[c].blocking /\ table[c].active

(* A record that carries a blocking client's bit, and that the client      *)
(* asked for, keeps its element and the bit until the client has processed *)
(* it, whatever dies, is restarted or is asked again in between; only      *)
(* leaving the mask releases it.                                           *)
NothingLost ==
  [][\A c \in (blockmask \cap blockmask') \ lapped :
       \A q \in Mask[c] : \A i \in Places(q) :
         c \in elem[q][i].blockmap /\ elem[q][i].kind \in Wanted[c] =>
           \/ c \in elem'[q][i].blockmap /\ elem'[q][i].num = elem[q][i].num
           \/ elem[q][i].num \in got[c]]_vars

(* The same without the exception for an entry that was unblocked, by its  *)
(* time-out or an operator, and blocks again in the same session.          *)
NothingLostEver ==
  [][\A c \in blockmask \cap blockmask' :
       \A q \in Mask[c] : \A i \in Places(q) :
         c \in elem[q][i].blockmap /\ elem[q][i].kind \in Wanted[c] =>
           \/ c \in elem'[q][i].blockmap /\ elem'[q][i].num = elem[q][i].num
           \/ elem[q][i].num \in got[c]]_vars

(* A data request is being served, and one that continues a session.  A    *)
(* program whose first request is for CSQ_NEXT (cs2mcast) has next_data 0  *)
(* and goes on where the process before it had stopped.                    *)
ServingData(c) ==
  seg[c].phase = "asking" /\ seg'[c].phase = "answered" /\ seg[c].command = "DATA_BLK"

Continues(c) == ServingData(c) /\ seg[c].seqdbuf = "NEXT" /\ seg[c].next_data > 0

(* A blocking client program that starts over is not sent what it, or the  *)
(* process before it, has acknowledged, in the answer to the request with  *)
(* CSQ_FIRST.  (The next one may be sent it, if that answer was empty.)    *)
RestartSkipsAcked ==
  [][\A c \in Clients :
       ServingData(c) /\ seg[c].seqdbuf = "FIRST" /\ EntryBlocking(c) =>
         seg'[c].data \cap acked[c] = {}]_vars

(* Some record the client asks for is in a ring and is passed over: the    *)
(* number the client is to be given next has moved beyond it.              *)
PassedOver(c) ==
  \E q \in Mask[c] : \E i \in Held(q) :
    /\ elem[q][i].kind \in Wanted[c]
    /\ elem[q][i].num \in seg[c].next_data .. seg'[c].next_data - 1
    /\ elem[q][i].num \notin seg'[c].data

(* Records reach a client in the order they were received, regardless of   *)
(* their ring (the comment in client_handler.c): none that is in a ring    *)
(* and selected is passed over by a request that finds none of its rings   *)
(* to have gone round exactly once.  Excepted is a program that began with *)
(* CSQ_NEXT: it inherits where the process before it stood in each ring    *)
(* but not the number it had reached, and when the record at one of these  *)
(* places is gone it is sent old records of that ring, and then none from  *)
(* before its place in another.                                            *)
InOrderUnlessLapped ==
  [][\A c \in Clients \ resumed :
       Continues(c) /\ ~ (\E q \in Mask[c] : Lapped(c, q)) => ~ PassedOver(c)]_vars

(* Within a session nothing is sent twice, however the rings have turned   *)
(* between two requests: each answer lies between the number it was asked  *)
(* for and the number it leaves to ask for, so the answers are disjoint.   *)
NothingTwice ==
  [][\A c \in Clients : Continues(c) =>
       \A n \in seg'[c].data : n \in seg[c].next_data .. seg'[c].next_data - 1]_vars

------------------------------------------------------------------------------
(* Fairness.  The main loop scans for requests and checks one client a     *)
(* second for as long as it runs, and time passes.  A client waits 100     *)
(* polling intervals before it gives up, so neither can all its data       *)
(* requests be missed nor all its answers be late.                         *)
Fairness ==
  \A c \in Clients :
    /\ WF_vars(Serve(c)) /\ WF_vars(CheckClient(c)) /\ WF_vars(FallQuiet(c))
    /\ SF_vars(Serve(c) /\ seg[c].command = "DATA_BLK")
    /\ SF_vars(Return(c))

FairSpec == Spec /\ Fairness

(* The rings cannot stay blocked for good: whoever blocks them asks for    *)
(* more, and so acknowledges, or falls quiet and is timed out.  Excepted   *)
(* is an entry that was unblocked and blocks again in the same session.    *)
NeverWedged ==
  []<>(~ AnyQueueBlocking \/ \E c \in blockmask : \E q \in Mask[c] : Lapped(c, q))
==============================================================================
