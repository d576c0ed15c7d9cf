----------------------------- MODULE ClientTable -----------------------------
(***************************************************************************)
(* clients[] in the server, the table of the client processes it knows:    *)
(* entries made and found again by comserv_scan, served by client_handler, *)
(* and removed by check_clients and detach_client (comserv_subs.c).  The   *)
(* first entries are reserved for programs named in the configuration.     *)
(* The rest come and go: when one is removed those after it move up.       *)
(*                                                                         *)
(* Records are in one ring that never goes round, and a request returns at *)
(* most one: what matters here is whose place, last[], a request goes on   *)
(* from.  Blocking clients have a module of their own, Delivery; here      *)
(* nobody blocks.  A program is not started again before the request of    *)
(* its previous process is answered.                                       *)
(***************************************************************************)
EXTENDS Integers, FiniteSets

CONSTANTS
  Programs,    (* client programs, each with a name of its own                *)
  Configured,  (* configurations: each the programs it names, from index 0    *)
  Foreign,     (* the programs run by another user than the server            *)
  NoProc,      (* NOCLIENT                                                    *)
  MaxClients,  (* MAXCLIENTS                                                  *)
  MaxRecords,  (* bound on the records                                        *)
  Procs        (* the processes: <<program, n>> is the program's nth          *)

ASSUME ClientTableAssumption ==
  /\ MaxClients \in Nat \ {0} /\ MaxRecords \in Nat
  /\ Procs \subseteq Programs \X Nat
  /\ \A r \in Configured : \E n \in 0 .. MaxClients : r \in [0 .. n - 1 -> Programs]

(* A process is known by its pid and by its segment: one name for both. *)
Name(p) == p[1]
Earlier(p) == {q \in Procs : q[1] = p[1] /\ q[2] < p[2]}

Places == 0 .. MaxClients - 1

VARIABLES
  reserved,    (* the configuration the server was started with               *)
  clients,     (* the table                                                   *)
  highclient,  (* how many of its entries are in use                          *)
  clientpoll,  (* the entry check_clients looked at last                      *)
  nextRec,     (* base->next_data: the number of the next record              *)
  seg,         (* each process and its segment                                *)
  dropped      (* history: processes that were removed from the table         *)

vars == << reserved, clients, highclient, clientpoll, nextRec, seg, dropped >>

resclient == Cardinality(DOMAIN reserved)

(* last[]: the record at which the walk of the latest request ended, and   *)
(* whether its element was still empty then.                               *)
NoLast == [scan |-> -1, top |-> FALSE]

(* attached: client_address # NULL and client_pid # NOCLIENT.              *)
(* quiet: the latest service is more than NON_PRIVILEGED_TO seconds ago.   *)
Unused(n) == [name |-> n, memid |-> NoProc, attached |-> FALSE, quiet |-> FALSE, last |-> NoLast]

Init ==
  /\ reserved \in Configured
  /\ clients = [i \in Places |-> Unused(IF i \in DOMAIN reserved THEN reserved[i] ELSE "")]
  /\ highclient = resclient
  /\ clientpoll = 0
  /\ nextRec = 0
  /\ seg = [p \in Procs |-> [state |-> "new", asking |-> FALSE, want |-> "ATTACH", next_data |-> 0]]
  /\ dropped = {}
------------------------------------------------------------------------------
(* The client processes *)

Start(p) ==
  /\ seg[p].state = "new"
  /\ \A q \in Earlier(p) : seg[q].state = "dead" /\ ~ seg[q].asking
  /\ seg' = [seg EXCEPT ![p].state = "live"]
  /\ UNCHANGED << reserved, clients, highclient, clientpoll, nextRec, dropped >>

Ask(p) ==
  /\ seg[p].state = "live" /\ ~ seg[p].asking
  /\ seg' = [seg EXCEPT ![p].asking = TRUE]
  /\ UNCHANGED << reserved, clients, highclient, clientpoll, nextRec, dropped >>

(* It leaves, or is killed: then its segment and its request stay. *)
End(p) ==
  /\ seg[p].state = "live"
  /\ seg' = [seg EXCEPT ![p].state = "dead"]
  /\ UNCHANGED << reserved, clients, highclient, clientpoll, nextRec, dropped >>
------------------------------------------------------------------------------
(* comserv_scan *)

NewRecord ==
  /\ nextRec < MaxRecords
  /\ nextRec' = nextRec + 1
  /\ UNCHANGED << reserved, clients, highclient, clientpoll, seg, dropped >>

InUse == 0 .. highclient - 1

First(S) == CHOOSE i \in S : \A j \in S : i <= j

(* The entry whose segment and process are those of the request. *)
Known(p) == {i \in InUse : clients[i].memid = p /\ clients[i].attached}

(* An entry of that name that is free to take or reserved for it.          *)
Named(p) ==
  {i \in InUse : /\ clients[i].name = Name(p)
                 /\ clients[i].memid = p \/ ~ clients[i].attached \/ i < resclient}

(* Where the request of p is served: MaxClients is "refused". *)
EntryFor(p) ==
  IF Known(p) # {} THEN First(Known(p))
  ELSE IF Named(p) # {} THEN First(Named(p))
  ELSE highclient

(* A new entry keeps the last[] of what was in its place. *)
Entered(p, last) ==
  [name |-> Name(p), memid |-> p, attached |-> TRUE, quiet |-> FALSE, last |-> last]

(* client_handler.c, CSCM_DATA_BLK: where the walk over the records of the *)
(* last answer starts, and where it ends.                                  *)
WalkFrom(last) == IF last.scan >= 0 /\ last.top = (last.scan = nextRec) THEN last.scan ELSE 0

WalkTo(p, last) == IF WalkFrom(last) < seg[p].next_data THEN seg[p].next_data ELSE WalkFrom(last)

LastAfter(p, last) ==
  CASE seg[p].want = "ATTACH" -> last
    [] seg[p].want = "FIRST"  -> NoLast
    [] seg[p].want = "NEXT"   -> IF WalkTo(p, last) = WalkFrom(last) THEN last
                                 ELSE [scan |-> WalkTo(p, last), top |-> WalkTo(p, last) = nextRec]

ReadFrom(p, last) == IF seg[p].want = "FIRST" THEN 0 ELSE WalkTo(p, last)

NextAfter(p, last) ==
  IF seg[p].want # "ATTACH" /\ ReadFrom(p, last) < nextRec THEN ReadFrom(p, last) + 1
  ELSE seg[p].next_data

(* The segment can be attached, though its process may be dead. *)
Served(p) ==
  /\ seg[p].asking
  /\ LET i == EntryFor(p) IN
     /\ i < MaxClients
     /\ clients' = [clients EXCEPT ![i] = Entered(p, LastAfter(p, @.last))]
     /\ highclient' = IF i = highclient THEN highclient + 1 ELSE highclient
     /\ seg' = [seg EXCEPT ![p].asking = FALSE,
                           ![p].want = IF @ = "ATTACH" THEN "FIRST" ELSE "NEXT",
                           ![p].next_data = NextAfter(p, clients[i].last)]
  /\ UNCHANGED << reserved, clientpoll, nextRec, dropped >>

(* CSCR_REFUSE *)
Refused(p) ==
  /\ seg[p].asking
  /\ EntryFor(p) = MaxClients
  /\ seg' = [seg EXCEPT ![p].asking = FALSE]
  /\ UNCHANGED << reserved, clients, highclient, clientpoll, nextRec, dropped >>
------------------------------------------------------------------------------
(* check_clients *)

FallQuiet(i) ==
  /\ i \in InUse /\ clients[i].attached /\ ~ clients[i].quiet
  /\ Name(clients[i].memid) \in Foreign
  /\ clients' = [clients EXCEPT ![i].quiet = TRUE]
  /\ UNCHANGED << reserved, highclient, clientpoll, nextRec, seg, dropped >>

Removable(i) ==
  /\ clients[i].attached
  /\ IF Name(clients[i].memid) \in Foreign
       THEN clients[i].quiet
       ELSE seg[clients[i].memid].state = "dead"

(* Defects: last[] stays where it was when the entries move up, and the    *)
(* entries move up but the table does not get shorter.                     *)
MovedUpButLast(i) ==
  [j \in Places |-> IF j \in i .. highclient - 2
                      THEN [clients[j + 1] EXCEPT !.last = clients[j].last] ELSE clients[j]]

(* What is left of the entries behind the last one in use stays there. *)
MovedUp(i) == [j \in Places |-> IF j \in i .. highclient - 2 THEN clients[j + 1] ELSE clients[j]]

LengthKept == highclient

Shorter == highclient - 1

(* Defect: reserved entries are taken out too. *)
AnyPlace(i) == TRUE

Transient(i) == i >= resclient

(* detach_client, not timed out.  The segment of a client of its own user *)
(* is removed: the client is dead, and no request of it can be served.     *)
Detach(i) ==
  /\ IF Transient(i)
       THEN clients' = [MovedUp(i) EXCEPT ![highclient - 1].attached =
                          IF i = highclient - 1 THEN FALSE ELSE @]
            /\ highclient' = Shorter
       ELSE clients' = [clients EXCEPT ![i].attached = FALSE] /\ UNCHANGED highclient
  /\ LET p == clients[i].memid IN
     /\ seg' = IF Name(p) \notin Foreign THEN [seg EXCEPT ![p].asking = FALSE] ELSE seg
     /\ dropped' = dropped \cup {p}

(* Defect: the last entry is never looked at. *)
NextPollShort == IF clientpoll + 1 >= highclient - 1 THEN 0 ELSE clientpoll + 1

NextPoll == IF clientpoll + 1 >= highclient THEN 0 ELSE clientpoll + 1

CheckClients ==
  /\ clientpoll' = NextPoll
  /\ IF Removable(NextPoll) THEN Detach(NextPoll) ELSE UNCHANGED << clients, highclient, seg, dropped >>
  /\ UNCHANGED << reserved, nextRec >>

Next ==
  \/ NewRecord \/ CheckClients
  \/ \E p \in Procs : Start(p) \/ Ask(p) \/ End(p) \/ Served(p) \/ Refused(p)
  \/ \E i \in Places : FallQuiet(i)

Spec == Init /\ [][Next]_vars

(* The server looks at a client every second, and time goes by: a foreign  *)
(* client that is gone is not served and falls quiet.                      *)
Silence(p) == \E i \in Known(p) : FallQuiet(i)

FairSpec == Spec /\ WF_vars(CheckClients) /\ \A p \in Procs : WF_vars(seg[p].state # "live" /\ Silence(p))
------------------------------------------------------------------------------
(* Properties *)

(* Types of the variables. *)
TypeOK ==
  /\ reserved \in Configured
  /\ clients \in [Places -> [name : Programs \cup {""}, memid : Procs \cup {NoProc},
                             attached : BOOLEAN, quiet : BOOLEAN,
                             last : [scan : -1 .. MaxRecords, top : BOOLEAN]]]
  /\ highclient \in resclient .. MaxClients
  /\ clientpoll \in Places
  /\ nextRec \in 0 .. MaxRecords
  /\ seg \in [Procs -> [state : {"new", "live", "dead"}, asking : BOOLEAN,
                        want : {"ATTACH", "FIRST", "NEXT"}, next_data : 0 .. MaxRecords]]
  /\ dropped \subseteq Procs

(* However entries come, go and move up, a process has one entry, under    *)
(* its own name, and none of those that come and go is left behind with    *)
(* nobody attached.                                                        *)
OneEntryEach ==
  /\ \A i, j \in InUse : clients[i].attached /\ clients[j].attached /\ clients[i].memid = clients[j].memid => i = j
  /\ \A i \in InUse : clients[i].attached => clients[i].name = Name(clients[i].memid)
  /\ \A i \in InUse : i >= resclient => clients[i].attached

(* CSQ_NEXT goes on where the process's own last request ended.            *)
GoesOn(p) == seg[p].want = "NEXT" => seg'[p].next_data <= seg[p].next_data + 1

(* A process the server has not dropped meanwhile is never sent on past    *)
(* records it was not given: its place moves with its entry.               *)
KeepsPlace == [][\A p \in Procs \ dropped : GoesOn(p)]_vars

(* One that was dropped and comes back neither: "only a slight processing  *)
(* speed penalty" (doc/comserv.ascii:313).                                 *)
KeepsPlaceEver == [][\A p \in Procs : GoesOn(p)]_vars

(* The entry of a process that is gone is removed, wherever it moves.      *)
DeadLeaveTable == \A p \in Procs : Known(p) # {} /\ seg[p].state = "dead" ~> Known(p) = {}
==============================================================================
