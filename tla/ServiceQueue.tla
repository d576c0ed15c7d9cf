---------------------------- MODULE ServiceQueue ----------------------------
(***************************************************************************)
(* The service queue in the server's shared memory segment: cs_svc in      *)
(* libcsutil/service.c, run by every client process, against comserv_scan  *)
(* in libcomserv/comserv_subs.c, run by the server.  A client looks for a  *)
(* slot of svcreqs, puts its segment there under a semaphore, and polls    *)
(* done in its own segment; after client_wait it takes the request back.   *)
(* The server walks over the slots without the semaphore.  Every access to *)
(* shared memory that another process could see in between is a step.      *)
(*                                                                         *)
(* Clients and the server can be killed at any step.  A killed client's    *)
(* segment stays until the server finds out and removes it.  A server that *)
(* is started again finds its segment and its semaphore as they were left. *)
(*                                                                         *)
(* A process makes any number of requests.  What the requests ask for is   *)
(* abstracted to whether an answer belongs to the request being waited     *)
(* for: fit or stale.                                                      *)
(***************************************************************************)
EXTENDS Integers, FiniteSets

CONSTANTS
  Procs,      (* client processes, each with a segment of its own             *)
  Nobody,     (* NOCLIENT                                                     *)
  NameOf,     (* the client name of each process                              *)
  SlotName,   (* svcreqs[].clientname: a client's name, or NoName             *)
  NoName,     (* the empty name                                               *)
  NSlots,     (* MAXCLIENTS                                                   *)
  MaxProc,    (* MAXPROC, requests served in one scan                         *)
  Own,        (* the processes run by the server's user                       *)
  Mortal,     (* the processes that can be killed                             *)
  Watched,    (* the processes whose history is kept in result and times      *)
  Punctual,   (* no service takes so long that its client gives up meanwhile  *)
  MaxCrashes  (* bound on the times the server is killed                      *)

ASSUME ServiceQueueAssumption ==
  /\ Nobody \notin Procs
  /\ NSlots \in Nat \ {0} /\ MaxProc \in Nat \ {0} /\ MaxCrashes \in Nat
  /\ Punctual \in BOOLEAN
  /\ Own \subseteq Procs /\ Mortal \subseteq Procs /\ Watched \subseteq Procs

Slots == 0 .. NSlots - 1

VARIABLES
  slot,     (* svcreqs[].clientseg                                            *)
  permits,  (* the value of the access semaphore                              *)
  init,     (* base->init = 'I'                                               *)
  server,   (* where comserv_scan is                                          *)
  pc,       (* where each process is in cs_svc                                *)
  at,       (* i of cs_svc                                                    *)
  seg,      (* each process's segment: done, the answer, whether it is there  *)
  result,   (* what the last cs_svc of each process returned                  *)
  times,    (* history: how often the current request was carried out         *)
  crashes   (* history: how often the server was killed                       *)

vars == << slot, permits, init, server, pc, at, seg, result, times, crashes >>

NewSegment == [done |-> FALSE, ans |-> "none", there |-> TRUE, known |-> FALSE]

Scanning(cur, did) == [pc |-> "scan", cur |-> cur, for |-> Nobody, did |-> did, stale |-> FALSE]

ServerDown == [pc |-> "down", cur |-> 0, for |-> Nobody, did |-> 0, stale |-> FALSE]

(* After the first comserv_init, which found no semaphore: semget made one *)
(* of value 0 and semop raised it.                                         *)
Init ==
  /\ slot = [i \in Slots |-> Nobody]
  /\ permits = 1
  /\ init = TRUE
  /\ server = Scanning(0, 0)
  /\ pc = [p \in Procs |-> "off"]
  /\ at = [p \in Procs |-> 0]
  /\ seg = [p \in Procs |-> NewSegment]
  /\ result = [p \in Procs |-> "none"]
  /\ times = [p \in Procs |-> 0]
  /\ crashes = 0
------------------------------------------------------------------------------
(* cs_svc *)

Goto(p, l) == pc' = [pc EXCEPT ![p] = l]

Return(p, r) ==
  /\ Goto(p, "idle")
  /\ result' = IF p \in Watched THEN [result EXCEPT ![p] = r] ELSE result

Gone(p) == pc[p] \in {"off", "dead"}

(* A program starts, with a new segment.  A reserved name is used by one   *)
(* living process at a time.                                               *)
StartProc(p) ==
  /\ pc[p] = "off"
  /\ NameOf[p] \in {SlotName[i] : i \in Slots} =>
       \A q \in Procs : NameOf[q] = NameOf[p] => Gone(q)
  /\ Goto(p, "idle")
  /\ UNCHANGED << slot, permits, init, server, at, seg, result, times, crashes >>

(* Defect: done is left as the last request left it. *)
BeginKeepsDone(p) ==
  /\ pc[p] = "idle" /\ init
  /\ Goto(p, "look")
  /\ at' = [at EXCEPT ![p] = 0]
  /\ seg' = [seg EXCEPT ![p].ans = "none"]
  /\ times' = [times EXCEPT ![p] = 0]
  /\ server' = IF server.for = p THEN [server EXCEPT !.stale = TRUE] ELSE server
  /\ UNCHANGED << slot, permits, init, result, crashes >>

(* The command is in the segment, done is FALSE.  A server that is still   *)
(* on an older request of the process will not notice.                     *)
Begin(p) ==
  /\ pc[p] = "idle" /\ init
  /\ Goto(p, "look")
  /\ at' = [at EXCEPT ![p] = 0]
  /\ seg' = [seg EXCEPT ![p].done = FALSE, ![p].ans = "none"]
  /\ times' = [times EXCEPT ![p] = 0]
  /\ server' = IF server.for = p THEN [server EXCEPT !.stale = TRUE] ELSE server
  /\ UNCHANGED << slot, permits, init, result, crashes >>

(* CSCR_INIT: the server is still initializing its segment. *)
BeginTooEarly(p) ==
  /\ pc[p] = "idle" /\ ~ init
  /\ Return(p, "INIT")
  /\ seg' = [seg EXCEPT ![p].done = FALSE, ![p].ans = "none"]
  /\ times' = [times EXCEPT ![p] = 0]
  /\ server' = IF server.for = p THEN [server EXCEPT !.stale = TRUE] ELSE server
  /\ UNCHANGED << slot, permits, init, at, crashes >>

Usable(p, i) == slot[i] = Nobody /\ SlotName[i] \in {NoName, NameOf[p]}

(* The search, without the semaphore.  The place after the last slot,      *)
(* which the loop looks at too, is a pointer and never looks free.         *)
Look(p) ==
  /\ pc[p] = "look" /\ at[p] < NSlots
  /\ IF Usable(p, at[p]) THEN Goto(p, "lock") /\ at' = at
                         ELSE Goto(p, "look") /\ at' = [at EXCEPT ![p] = @ + 1]
  /\ UNCHANGED << slot, permits, init, server, seg, result, times, crashes >>

NotFound(p) ==
  /\ pc[p] = "look" /\ at[p] = NSlots
  /\ Return(p, "ENQUEUE")
  /\ UNCHANGED << slot, permits, init, server, at, seg, times, crashes >>

(* Defect: the withdrawal goes ahead without the semaphore. *)
AcquireToClaimOnly(p) ==
  /\ pc[p] \in {"lock", "relock"} /\ (permits > 0 \/ pc[p] = "relock")
  /\ permits' = IF pc[p] = "lock" THEN permits - 1 ELSE permits
  /\ Goto(p, IF pc[p] = "lock" THEN "claim" ELSE "withdraw")
  /\ UNCHANGED << slot, init, server, at, seg, result, times, crashes >>

(* semop (srvr->server_semid, &busy, 1), for the claim and the withdrawal *)
Acquire(p) ==
  /\ pc[p] \in {"lock", "relock"} /\ permits > 0
  /\ permits' = permits - 1
  /\ Goto(p, IF pc[p] = "lock" THEN "claim" ELSE "withdraw")
  /\ UNCHANGED << slot, init, server, at, seg, result, times, crashes >>

(* Defect: the slot is not looked at again under the semaphore. *)
ClaimUnchecked(p) ==
  /\ pc[p] = "claim"
  /\ Goto(p, "put")
  /\ UNCHANGED << slot, permits, init, server, at, seg, result, times, crashes >>

(* Is the slot still free?  Only the semaphore keeps it so until Put. *)
Claim(p) ==
  /\ pc[p] = "claim"
  /\ Goto(p, IF slot[at[p]] = Nobody THEN "put" ELSE "lost")
  /\ UNCHANGED << slot, permits, init, server, at, seg, result, times, crashes >>

Put(p) ==
  /\ pc[p] = "put"
  /\ slot' = [slot EXCEPT ![at[p]] = p]
  /\ Goto(p, "claimed")
  /\ UNCHANGED << permits, init, server, at, seg, result, times, crashes >>

(* Defect: the semaphore is not given back by a process that lost the slot. *)
ReleaseIfClaimed(p) ==
  /\ pc[p] \in {"claimed", "lost", "withdrawn"}
  /\ permits' = IF pc[p] = "lost" THEN permits ELSE permits + 1
  /\ CASE pc[p] = "claimed"   -> Goto(p, "signal") /\ UNCHANGED << at, result >>
       [] pc[p] = "lost"      -> Goto(p, "look") /\ at' = [at EXCEPT ![p] = @ + 1] /\ UNCHANGED result
       [] pc[p] = "withdrawn" -> Return(p, "TIMEOUT") /\ UNCHANGED at
  /\ UNCHANGED << slot, init, server, seg, times, crashes >>

Release(p) ==
  /\ pc[p] \in {"claimed", "lost", "withdrawn"}
  /\ permits' = permits + 1
  /\ CASE pc[p] = "claimed"   -> Goto(p, "signal") /\ UNCHANGED << at, result >>
       [] pc[p] = "lost"      -> Goto(p, "look") /\ at' = [at EXCEPT ![p] = @ + 1] /\ UNCHANGED result
       [] pc[p] = "withdrawn" -> Return(p, "TIMEOUT") /\ UNCHANGED at
  /\ UNCHANGED << slot, init, server, seg, times, crashes >>

(* kill (server_pid, SIGALRM), which only the server's user may send.  If  *)
(* there is no such process the slot is emptied, whoever is in it.         *)
Signal(p) ==
  /\ pc[p] = "signal"
  /\ IF p \in Own /\ server.pc = "down"
       THEN Return(p, "DIED") /\ slot' = [slot EXCEPT ![at[p]] = Nobody]
       ELSE Goto(p, "wait") /\ UNCHANGED << slot, result >>
  /\ UNCHANGED << permits, init, server, at, seg, times, crashes >>

SeeDone(p) ==
  /\ pc[p] = "wait" /\ seg[p].done
  /\ Return(p, "GOOD")
  /\ UNCHANGED << slot, permits, init, server, at, seg, times, crashes >>

(* client_wait has passed. *)
GiveUp(p) ==
  /\ pc[p] = "wait" /\ ~ seg[p].done
  /\ Punctual => server.for # p
  /\ Goto(p, "relock")
  /\ UNCHANGED << slot, permits, init, server, at, seg, result, times, crashes >>

(* Defect: the request is left in the slot. *)
WithdrawNot(p) ==
  /\ pc[p] = "withdraw"
  /\ Goto(p, "withdrawn")
  /\ UNCHANGED << slot, permits, init, server, at, seg, result, times, crashes >>

(* Is the request still in the slot? *)
Withdraw(p) ==
  /\ pc[p] = "withdraw"
  /\ Goto(p, IF slot[at[p]] = p THEN "take" ELSE "withdrawn")
  /\ UNCHANGED << slot, permits, init, server, at, seg, result, times, crashes >>

Take(p) ==
  /\ pc[p] = "take"
  /\ slot' = [slot EXCEPT ![at[p]] = Nobody]
  /\ Goto(p, "withdrawn")
  /\ UNCHANGED << permits, init, server, at, seg, result, times, crashes >>

(* cs_off: the segment is removed. *)
Leave(p) ==
  /\ pc[p] = "idle"
  /\ Goto(p, "dead")
  /\ seg' = [seg EXCEPT ![p].there = FALSE]
  /\ UNCHANGED << slot, permits, init, server, at, result, times, crashes >>

KillProc(p) ==
  /\ p \in Mortal /\ ~ Gone(p)
  /\ Goto(p, "dead")
  /\ UNCHANGED << slot, permits, init, server, at, seg, result, times, crashes >>
------------------------------------------------------------------------------
(* comserv_scan *)

(* There is a segment in the slot and it can be attached. *)
Servable(i) == \E p \in Procs : slot[i] = p /\ seg[p].there

(* A slot is empty, or the segment in it is no more: the scan goes on. *)
Pass ==
  /\ server.pc = "scan" /\ server.cur < NSlots
  /\ ~ Servable(server.cur)
  /\ server' = [server EXCEPT !.cur = @ + 1]
  /\ UNCHANGED << slot, permits, init, pc, at, seg, result, times, crashes >>

(* The segment is found in the table, or attached and entered. *)
PickUp ==
  /\ server.pc = "scan" /\ server.cur < NSlots
  /\ Servable(server.cur)
  /\ Punctual => pc[slot[server.cur]] \notin {"relock", "withdraw", "take", "withdrawn"}
  /\ server' = [server EXCEPT !.pc = "serve", !.for = slot[server.cur]]
  /\ seg' = [seg EXCEPT ![slot[server.cur]].known = TRUE]
  /\ UNCHANGED << slot, permits, init, pc, at, result, times, crashes >>

(* client_handler reads the command in the segment ... *)
ReadCommand ==
  /\ server.pc = "serve"
  /\ server' = [server EXCEPT !.pc = "handle", !.stale = FALSE]
  /\ UNCHANGED << slot, permits, init, pc, at, seg, result, times, crashes >>

(* ... and carries it out.  Its answer goes where the answer of the        *)
(* process's present request would go.                                     *)
Handle ==
  /\ server.pc = "handle"
  /\ server' = [server EXCEPT !.pc = "done"]
  /\ seg' = [seg EXCEPT ![server.for].ans = IF server.stale THEN "stale" ELSE "fit"]
  /\ times' = IF server.stale \/ server.for \notin Watched \/ times[server.for] = 2 THEN times
              ELSE [times EXCEPT ![server.for] = @ + 1]
  /\ UNCHANGED << slot, permits, init, pc, at, result, crashes >>

SetDone ==
  /\ server.pc = "done"
  /\ server' = [server EXCEPT !.pc = "clear"]
  /\ seg' = [seg EXCEPT ![server.for].done = TRUE]
  /\ UNCHANGED << slot, permits, init, pc, at, result, times, crashes >>

(* Defect: one request more than MAXPROC is served in a scan. *)
AfterScanOneMore(did) ==
  IF did > MaxProc THEN [Scanning(0, 0) EXCEPT !.pc = "check"] ELSE Scanning(server.cur + 1, did)

AfterScan(did) ==
  IF did >= MaxProc THEN [Scanning(0, 0) EXCEPT !.pc = "check"] ELSE Scanning(server.cur + 1, did)

(* Defect: the slot keeps the request. *)
ClearNot ==
  /\ server.pc = "clear"
  /\ server' = AfterScan(server.did + 1)
  /\ UNCHANGED << slot, permits, init, pc, at, seg, result, times, crashes >>

(* The slot is emptied, whoever is in it by now. *)
Clear ==
  /\ server.pc = "clear"
  /\ slot' = [slot EXCEPT ![server.cur] = Nobody]
  /\ server' = AfterScan(server.did + 1)
  /\ UNCHANGED << permits, init, pc, at, seg, result, times, crashes >>

EndScan ==
  /\ server.pc = "scan" /\ server.cur = NSlots
  /\ server' = [server EXCEPT !.pc = "check"]
  /\ UNCHANGED << slot, permits, init, pc, at, seg, result, times, crashes >>

(* check_clients, once a second, finds out that a process of the server's  *)
(* user has died, and removes its segment.                                 *)
Reap(p) ==
  /\ server.pc = "check"
  /\ p \in Own /\ pc[p] = "dead" /\ seg[p].known /\ seg[p].there
  /\ seg' = [seg EXCEPT ![p].there = FALSE]
  /\ server' = Scanning(0, 0)
  /\ UNCHANGED << slot, permits, init, pc, at, result, times, crashes >>

Rescan ==
  /\ server.pc = "check"
  /\ server' = Scanning(0, 0)
  /\ UNCHANGED << slot, permits, init, pc, at, seg, result, times, crashes >>

KillServer ==
  /\ server.pc # "down" /\ crashes < MaxCrashes
  /\ server' = ServerDown
  /\ crashes' = crashes + 1
  /\ UNCHANGED << slot, permits, init, pc, at, seg, result, times >>

(* comserv_init on the segment left by the previous server: init is reset, *)
(* the slots are emptied, ...                                              *)
Reinit ==
  /\ server.pc = "down"
  /\ init' = FALSE
  /\ slot' = [i \in Slots |-> Nobody]
  /\ server' = [ServerDown EXCEPT !.pc = "opening"]
  /\ seg' = [p \in Procs |-> [seg[p] EXCEPT !.known = FALSE]]
  /\ UNCHANGED << permits, pc, at, result, times, crashes >>

(* ... the semaphore is raised and init set. *)
Reopen ==
  /\ server.pc = "opening"
  /\ permits' = permits + 1
  /\ init' = TRUE
  /\ server' = Scanning(0, 0)
  /\ UNCHANGED << slot, pc, at, seg, result, times, crashes >>
------------------------------------------------------------------------------
Client(p) ==
  \/ StartProc(p) \/ Begin(p) \/ BeginTooEarly(p) \/ Look(p) \/ NotFound(p)
  \/ Acquire(p) \/ Claim(p) \/ Put(p) \/ Release(p) \/ Signal(p) \/ SeeDone(p)
  \/ GiveUp(p) \/ Withdraw(p) \/ Take(p) \/ Leave(p) \/ KillProc(p)

Scan == Pass \/ PickUp \/ ReadCommand \/ Handle \/ SetDone \/ Clear \/ EndScan \/ Rescan

Server == Scan \/ (\E p \in Procs : Reap(p)) \/ KillServer \/ Reinit \/ Reopen

Next == Server \/ \E p \in Procs : Client(p)

Spec == Init /\ [][Next]_vars
------------------------------------------------------------------------------
(* The server goes on scanning.  A process in cs_svc goes on too, gets the *)
(* semaphore some time if others keep giving it back, and stops waiting.   *)
(* Nobody has to make a request.                                           *)
Fairness ==
  /\ WF_vars(Scan)
  /\ \A p \in Procs :
       /\ WF_vars(Look(p) \/ NotFound(p) \/ Claim(p) \/ Put(p) \/ Release(p) \/ Signal(p))
       /\ WF_vars(Withdraw(p) \/ Take(p))
       /\ WF_vars(SeeDone(p)) /\ WF_vars(GiveUp(p))
       /\ SF_vars(Acquire(p))

FairSpec == Spec /\ Fairness

------------------------------------------------------------------------------
Labels ==
  {"off", "idle", "look", "lock", "claim", "put", "claimed", "lost", "signal", "wait", "relock",
   "withdraw", "take", "withdrawn", "dead"}

Places ==
  [pc : {"down", "opening", "scan", "serve", "handle", "done", "clear", "check"},
   cur : 0 .. NSlots, for : Procs \cup {Nobody}, did : 0 .. MaxProc - 1, stale : BOOLEAN]

Segments == [done : BOOLEAN, ans : {"none", "fit", "stale"}, there : BOOLEAN, known : BOOLEAN]

TypeOK ==
  /\ slot \in [Slots -> Procs \cup {Nobody}]
  /\ permits \in Nat
  /\ init \in BOOLEAN
  /\ server \in Places
  /\ pc \in [Procs -> Labels]
  /\ at \in [Procs -> 0 .. NSlots]
  /\ seg \in [Procs -> Segments]
  /\ result \in [Procs -> {"none", "GOOD", "TIMEOUT", "ENQUEUE", "INIT", "DIED"}]
  /\ times \in [Procs -> 0 .. 2]
  /\ crashes \in 0 .. MaxCrashes

Inside == {p \in Procs : pc[p] \in {"claim", "put", "claimed", "lost", "withdraw", "take", "withdrawn"}}

(* The semaphore admits one process at a time to the slots: it is taken    *)
(* and given back on three different paths of cs_svc, the one of a process *)
(* that found its slot gone among them.                                    *)
OneInside ==
  /\ \A p, q \in Inside : p = q
  /\ Inside # {} => permits = 0
  /\ permits <= 1

(* As long as the server has not been started a second time. *)
OneInsideAtFirst == crashes = 0 => OneInside

(* Every start of the server raises the semaphore again and nothing ever   *)
(* sets it: each admits one more process, unless one was killed inside.    *)
PermitsBounded == permits + Cardinality(Inside) <= 1 + crashes

InQueue(p) == pc[p] \in {"claimed", "signal", "wait"} /\ ~ seg[p].done => slot[at[p]] = p

(* A request is in its slot from the moment cs_svc has put it there ("now  *)
(* in queue") until it is answered, although the server empties slots      *)
(* without the semaphore.                                                  *)
QueuedUntilAnswered == crashes = 0 => \A p \in Procs : InQueue(p)

(* What is in a slot is a request somebody waits for, or whose process has *)
(* been killed, or the one just answered: nothing is left over to be       *)
(* carried out when nobody asked.                                          *)
NoLeftover ==
  server.pc # "down" =>
    \A i \in Slots : \A p \in Procs : slot[i] = p =>
      \/ pc[p] = "dead"
      \/ at[p] = i /\ pc[p] \in {"claimed", "signal", "wait", "relock", "withdraw", "take"}
      \/ server.pc = "clear" /\ server.cur = i /\ server.for = p

(* A call that succeeds has been carried out, once; one that fails has     *)
(* not, and will not be, as long as the server is not killed.              *)
Promised(p) == crashes = 0 /\ ~ Gone(p) /\ p \in Watched

Asking == [p \in Procs |-> Promised(p) /\ pc[p] # "idle"]
Times == [p \in Procs |-> IF Promised(p) THEN times[p] ELSE 0]
Result == [p \in Procs |-> CASE ~ Promised(p) \/ result[p] = "none" -> "none"
                             [] Promised(p) /\ result[p] = "GOOD" -> "good"
                             [] OTHER -> "failed"]
Stands == crashes = 0

Reply == INSTANCE RequestReply WITH asking <- Asking, times <- Times, result <- Result, stands <- Stands

ImplementsRequestReply == Reply!Spec

(* A process was killed inside, and the semaphore with it. *)
LockLost == permits + Cardinality(Inside) = 0 /\ \E p \in Procs : pc[p] = "dead"

(* cs_svc returns, whatever the server does: it gives up after             *)
(* client_wait, and it gets the semaphore unless that is lost for good.    *)
CallReturns == \A p \in Procs : (pc[p] = "look") ~> (pc[p] \in {"idle", "dead"} \/ LockLost)

(* A request in one of the slots that every scan reaches does not stay     *)
(* there for good, its process dead or not, as long as its segment can be  *)
(* attached.  (A scan ends after MAXPROC requests and the next begins at   *)
(* the first slot again: the slots after those can be starved.)            *)
SlotsDrain ==
  \A i \in 0 .. MaxProc - 1 : \A p \in Procs :
    (slot[i] = p) ~> (slot[i] # p \/ ~ seg[p].there)
==============================================================================
