-------------------------- MODULE ServiceQueueProofs ---------------------------
(***************************************************************************)
(* Proofs about ServiceQueue for any processes, any number of slots and    *)
(* any number of crashes: its types, what the semaphore guarantees, what   *)
(* is in the slots, and that a call is a request and its reply.            *)
(***************************************************************************)
EXTENDS ServiceQueue, FiniteSetTheorems, TLAPS

USE ServiceQueueAssumption DEF Slots

(* From the search on, a process is at one of the slots; the server is at  *)
(* a slot and has a process while it serves.                               *)
Placed == \A p \in Procs : pc[p] \notin {"off", "idle", "look", "dead"} => at[p] \in Slots

Serving ==
  server.pc \in {"serve", "handle", "done", "clear"} => server.for \in Procs /\ server.cur \in Slots

TInv == TypeOK /\ Placed /\ Serving

(* Segments and places of the scan with one or two fields changed. *)
LEMMA SegmentWith ==
  ASSUME NEW s \in [Procs -> Segments], NEW p \in Procs, NEW b \in BOOLEAN,
         NEW a \in {"none", "fit", "stale"}
  PROVE  /\ [s EXCEPT ![p].done = b] \in [Procs -> Segments]
         /\ [s EXCEPT ![p].done = b, ![p].ans = a] \in [Procs -> Segments]
         /\ [s EXCEPT ![p].ans = a] \in [Procs -> Segments]
         /\ [s EXCEPT ![p].there = b] \in [Procs -> Segments]
         /\ [s EXCEPT ![p].known = b] \in [Procs -> Segments]
<1>1. s[p] \in Segments
  OBVIOUS
<1>2. [s[p] EXCEPT !.done = b, !.ans = a] \in Segments
  BY <1>1, Zenon DEF Segments
<1>3. [s EXCEPT ![p].done = b, ![p].ans = a] \in [Procs -> Segments]
  BY <1>2
<1>4. [s EXCEPT ![p].done = b] \in [Procs -> Segments]
  BY SMT DEF Segments
<1>5. [s EXCEPT ![p].ans = a] \in [Procs -> Segments]
  BY SMT DEF Segments
<1>6. [s EXCEPT ![p].there = b] \in [Procs -> Segments]
  BY SMT DEF Segments
<1>7. [s EXCEPT ![p].known = b] \in [Procs -> Segments]
  BY SMT DEF Segments
<1> QED BY <1>3, <1>4, <1>5, <1>6, <1>7

LEMMA PlaceWith ==
  ASSUME NEW s \in Places, NEW l \in {"serve", "handle", "done", "clear", "check"},
         NEW f \in Procs \cup {Nobody}, NEW b \in BOOLEAN
  PROVE  /\ [s EXCEPT !.stale = b] \in Places
         /\ [s EXCEPT !.pc = l] \in Places
         /\ [s EXCEPT !.pc = l, !.for = f] \in Places
         /\ [s EXCEPT !.pc = l, !.stale = b] \in Places
<1>1. [s EXCEPT !.stale = b] \in Places
  BY SMT DEF Places
<1>2. [s EXCEPT !.pc = l] \in Places
  BY SMT DEF Places
<1>3. [s EXCEPT !.pc = l, !.for = f] \in Places
  BY Zenon DEF Places
<1>4. [s EXCEPT !.pc = l, !.stale = b] \in Places
  BY Zenon DEF Places
<1> QED BY <1>1, <1>2, <1>3, <1>4

LEMMA ScanningPlace ==
  ASSUME NEW c \in 0 .. NSlots, NEW d \in 0 .. MaxProc - 1
  PROVE  Scanning(c, d) \in Places
BY SMT DEF Places, Scanning

LEMMA PlaceNext ==
  ASSUME NEW s \in Places, s.cur < NSlots
  PROVE  [s EXCEPT !.cur = @ + 1] \in Places
BY SMT DEF Places

LEMMA DownPlace == ServerDown \in Places /\ [ServerDown EXCEPT !.pc = "opening"] \in Places
<1>1. 0 \in 0 .. NSlots /\ 0 \in 0 .. MaxProc - 1
  OBVIOUS
<1> QED BY <1>1, Zenon DEF ServerDown, Places

LEMMA NewSegmentType == NewSegment \in Segments
BY Zenon DEF NewSegment, Segments

(* The search for a slot. *)
LEMMA SearchTypes ==
  ASSUME TInv, NEW p \in Procs,
         StartProc(p) \/ Begin(p) \/ BeginTooEarly(p) \/ Look(p) \/ NotFound(p)
  PROVE  TInv'
<1>1. CASE StartProc(p)
  BY <1>1 DEF StartProc, Goto, TInv, TypeOK, Placed, Serving, Labels
<1>2. CASE Begin(p)
  <2>1. seg' \in [Procs -> Segments]
    BY <1>2, SegmentWith DEF Begin, TInv, TypeOK
  <2>2. server' \in Places /\ Serving'
    <3>1. server' \in Places
      BY <1>2, PlaceWith DEF Begin, TInv, TypeOK
    <3>2. Serving'
      BY <1>2 DEF Begin, TInv, TypeOK, Serving, Places
    <3> QED BY <3>1, <3>2
  <2>3. Placed'
    BY <1>2 DEF Begin, Goto, TInv, TypeOK, Placed, Labels
  <2>4. /\ slot' \in [Slots -> Procs \cup {Nobody}] /\ permits' \in Nat /\ init' \in BOOLEAN
        /\ pc' \in [Procs -> Labels] /\ at' \in [Procs -> 0 .. NSlots] /\ crashes' \in 0 .. MaxCrashes
    BY <1>2 DEF Begin, Goto, TInv, TypeOK, Placed, Labels
  <2>5. result' \in [Procs -> {"none", "GOOD", "TIMEOUT", "ENQUEUE", "INIT", "DIED"}] /\ times' \in [Procs -> 0 .. 2]
    BY <1>2 DEF Begin, Goto, TInv, TypeOK
  <2> QED BY <2>1, <2>2, <2>3, <2>4, <2>5 DEF TInv, TypeOK
<1>3. CASE BeginTooEarly(p)
  <2>1. seg' \in [Procs -> Segments]
    BY <1>3, SegmentWith DEF BeginTooEarly, TInv, TypeOK
  <2>2. server' \in Places /\ Serving'
    <3>1. server' \in Places
      BY <1>3, PlaceWith DEF BeginTooEarly, TInv, TypeOK
    <3>2. Serving'
      BY <1>3 DEF BeginTooEarly, TInv, TypeOK, Serving, Places
    <3> QED BY <3>1, <3>2
  <2>3. Placed'
    BY <1>3 DEF BeginTooEarly, Return, Goto, TInv, TypeOK, Placed, Labels
  <2>4. /\ slot' \in [Slots -> Procs \cup {Nobody}] /\ permits' \in Nat /\ init' \in BOOLEAN
        /\ pc' \in [Procs -> Labels] /\ at' \in [Procs -> 0 .. NSlots] /\ crashes' \in 0 .. MaxCrashes
    BY <1>3 DEF BeginTooEarly, Return, Goto, TInv, TypeOK, Placed, Labels
  <2>5. result' \in [Procs -> {"none", "GOOD", "TIMEOUT", "ENQUEUE", "INIT", "DIED"}] /\ times' \in [Procs -> 0 .. 2]
    BY <1>3 DEF BeginTooEarly, Return, Goto, TInv, TypeOK
  <2> QED BY <2>1, <2>2, <2>3, <2>4, <2>5 DEF TInv, TypeOK
<1>4. CASE Look(p)
  <2>1. UNCHANGED << slot, permits, init, server, seg, result, times, crashes >>
    BY <1>4 DEF Look
  <2>2. /\ pc[p] = "look"
        /\ \/ pc' = [pc EXCEPT ![p] = "lock"] /\ at' = at /\ at[p] \in Slots
           \/ pc' = [pc EXCEPT ![p] = "look"] /\ at' = [at EXCEPT ![p] = @ + 1] /\ at[p] \in Slots
    BY <1>4 DEF Look, Goto, TInv, TypeOK
  <2>3. pc \in [Procs -> Labels] /\ at \in [Procs -> 0 .. NSlots] /\ Placed
    BY DEF TInv, TypeOK
  <2>4. at[p] \in Slots => at[p] + 1 \in 0 .. NSlots
    OBVIOUS
  <2>5. pc' \in [Procs -> Labels] /\ at' \in [Procs -> 0 .. NSlots]
    BY <2>2, <2>3, <2>4 DEF Labels
  <2>6. Placed'
    <3>1. ASSUME NEW q \in Procs PROVE pc'[q] \notin {"off", "idle", "look", "dead"} => at'[q] \in Slots
      <4>1. CASE q = p
        BY <2>2, <2>3, <4>1
      <4>2. CASE q # p
        BY <2>2, <2>3, <4>2 DEF Placed
      <4> QED BY <4>1, <4>2
    <3> QED BY <3>1 DEF Placed
  <2> QED BY <2>1, <2>5, <2>6 DEF TInv, TypeOK, Serving
<1>5. CASE NotFound(p)
  BY <1>5 DEF NotFound, Return, Goto, TInv, TypeOK, Placed, Serving, Labels
<1> QED BY <1>1, <1>2, <1>3, <1>4, <1>5

(* What is done under the semaphore. *)
LEMMA ClaimTypes ==
  ASSUME TInv, NEW p \in Procs,
         Acquire(p) \/ Claim(p) \/ Put(p) \/ Release(p) \/ Withdraw(p) \/ Take(p)
  PROVE  TInv'
<1>1. CASE Acquire(p)
  BY <1>1 DEF Acquire, Goto, TInv, TypeOK, Placed, Serving, Labels
<1>2. CASE Claim(p)
  BY <1>2 DEF Claim, Goto, TInv, TypeOK, Placed, Serving, Labels
<1>3. CASE Put(p)
  BY <1>3 DEF Put, Goto, TInv, TypeOK, Placed, Serving, Labels
<1>4. CASE Release(p)
  <2>1. UNCHANGED << slot, init, server, seg, times, crashes >> /\ permits' \in Nat
    BY <1>4 DEF Release, TInv, TypeOK
  <2>2. CASE pc[p] = "claimed"
    BY <1>4, <2>1, <2>2 DEF Release, Goto, TInv, TypeOK, Placed, Serving, Labels
  <2>3. CASE pc[p] = "lost"
    <3>1. /\ pc' = [pc EXCEPT ![p] = "look"] /\ at' = [at EXCEPT ![p] = @ + 1]
          /\ UNCHANGED result
      BY <1>4, <2>3 DEF Release, Goto
    <3>2. at[p] \in Slots /\ at \in [Procs -> 0 .. NSlots]
      BY <2>3 DEF TInv, TypeOK, Placed
    <3>3. at[p] + 1 \in 0 .. NSlots
      BY <3>2
    <3>4. at' \in [Procs -> 0 .. NSlots] /\ \A q \in Procs : q # p => at'[q] = at[q]
      BY <3>1, <3>2, <3>3
    <3>5. TypeOK' /\ Placed'
      BY <2>1, <3>1, <3>4 DEF TInv, TypeOK, Placed, Labels
    <3> QED BY <2>1, <3>5 DEF TInv, Serving
  <2>4. CASE pc[p] = "withdrawn"
    BY <1>4, <2>1, <2>4 DEF Release, Return, Goto, TInv, TypeOK, Placed, Serving, Labels
  <2> QED BY <1>4, <2>2, <2>3, <2>4 DEF Release
<1>5. CASE Withdraw(p)
  BY <1>5 DEF Withdraw, Goto, TInv, TypeOK, Placed, Serving, Labels
<1>6. CASE Take(p)
  BY <1>6 DEF Take, Goto, TInv, TypeOK, Placed, Serving, Labels
<1> QED BY <1>1, <1>2, <1>3, <1>4, <1>5, <1>6

(* Waiting, and the end of a process. *)
LEMMA WaitTypes ==
  ASSUME TInv, NEW p \in Procs,
         Signal(p) \/ SeeDone(p) \/ GiveUp(p) \/ Leave(p) \/ KillProc(p)
  PROVE  TInv'
<1>1. CASE Signal(p)
  BY <1>1 DEF Signal, Return, Goto, TInv, TypeOK, Placed, Serving, Labels
<1>2. CASE SeeDone(p)
  BY <1>2 DEF SeeDone, Return, Goto, TInv, TypeOK, Placed, Serving, Labels
<1>3. CASE GiveUp(p)
  BY <1>3 DEF GiveUp, Goto, TInv, TypeOK, Placed, Serving, Labels
<1>4. CASE Leave(p)
  <2>1. seg' \in [Procs -> Segments]
    BY <1>4, SegmentWith DEF Leave, TInv, TypeOK
  <2>2. server' \in Places /\ Serving'
    BY <1>4 DEF Leave, TInv, TypeOK, Serving
  <2>3. Placed'
    BY <1>4 DEF Leave, Goto, TInv, TypeOK, Placed, Labels
  <2>4. /\ slot' \in [Slots -> Procs \cup {Nobody}] /\ permits' \in Nat /\ init' \in BOOLEAN
        /\ pc' \in [Procs -> Labels] /\ at' \in [Procs -> 0 .. NSlots] /\ crashes' \in 0 .. MaxCrashes
    BY <1>4 DEF Leave, Goto, TInv, TypeOK, Placed, Labels
  <2>5. result' \in [Procs -> {"none", "GOOD", "TIMEOUT", "ENQUEUE", "INIT", "DIED"}] /\ times' \in [Procs -> 0 .. 2]
    BY <1>4 DEF Leave, Goto, TInv, TypeOK
  <2> QED BY <2>1, <2>2, <2>3, <2>4, <2>5 DEF TInv, TypeOK
<1>5. CASE KillProc(p)
  BY <1>5 DEF KillProc, Goto, TInv, TypeOK, Placed, Serving, Labels
<1> QED BY <1>1, <1>2, <1>3, <1>4, <1>5

(* The steps of comserv_scan. *)
LEMMA ScanTypes ==
  ASSUME TInv, Scan
  PROVE  TInv'
<1>1. CASE Pass
  <2>1. server' \in Places
    BY <1>1, PlaceNext DEF Pass, TInv, TypeOK
  <2>2. Serving'
    BY <1>1 DEF Pass, TInv, TypeOK, Serving, Places
  <2>3. seg' \in [Procs -> Segments]
    BY <1>1 DEF Pass, TInv, TypeOK
  <2>4. Placed'
    BY <1>1 DEF Pass, TInv, Placed
  <2> QED BY <1>1, <2>1, <2>2, <2>3, <2>4 DEF Pass, TInv, TypeOK
<1>2. CASE PickUp
  <2>1. server' \in Places
    <3>1. slot[server.cur] \in Procs
      BY <1>2 DEF PickUp, Servable, TInv, TypeOK, Places
    <3> QED BY <1>2, <3>1, PlaceWith DEF PickUp, TInv, TypeOK
  <2>2. Serving'
    BY <1>2 DEF PickUp, Servable, TInv, TypeOK, Serving, Places
  <2>3. seg' \in [Procs -> Segments]
    BY <1>2, SegmentWith DEF PickUp, TInv, TypeOK
  <2>4. Placed'
    BY <1>2 DEF PickUp, TInv, Placed
  <2> QED BY <1>2, <2>1, <2>2, <2>3, <2>4 DEF PickUp, TInv, TypeOK
<1>3. CASE ReadCommand
  <2>1. server' \in Places
    BY <1>3, PlaceWith DEF ReadCommand, TInv, TypeOK
  <2>2. Serving'
    BY <1>3 DEF ReadCommand, TInv, TypeOK, Serving, Places
  <2>3. seg' \in [Procs -> Segments]
    BY <1>3 DEF ReadCommand, TInv, TypeOK
  <2>4. Placed'
    BY <1>3 DEF ReadCommand, TInv, Placed
  <2> QED BY <1>3, <2>1, <2>2, <2>3, <2>4 DEF ReadCommand, TInv, TypeOK
<1>4. CASE Handle
  <2>1. server' \in Places
    BY <1>4, PlaceWith DEF Handle, TInv, TypeOK
  <2>2. Serving'
    BY <1>4 DEF Handle, TInv, TypeOK, Serving, Places
  <2>3. seg' \in [Procs -> Segments]
    BY <1>4, SegmentWith DEF Handle, TInv, TypeOK
  <2>4. Placed'
    BY <1>4 DEF Handle, TInv, Placed
  <2>5. times' \in [Procs -> 0 .. 2]
    <3>1. times \in [Procs -> 0 .. 2]
      BY DEF TInv, TypeOK
    <3>2. CASE UNCHANGED times
      BY <3>1, <3>2
    <3>3. CASE server.for \in Watched /\ times[server.for] # 2
      <4>1. server.for \in Procs /\ times[server.for] + 1 \in 0 .. 2
        BY <3>1, <3>3
      <4> QED BY <1>4, <3>1, <3>3, <4>1 DEF Handle
    <3> QED BY <1>4, <3>2, <3>3 DEF Handle
  <2> QED BY <1>4, <2>1, <2>2, <2>3, <2>4, <2>5 DEF Handle, TInv, TypeOK
<1>5. CASE SetDone
  <2>1. server' \in Places
    BY <1>5, PlaceWith DEF SetDone, TInv, TypeOK
  <2>2. Serving'
    BY <1>5 DEF SetDone, TInv, TypeOK, Serving, Places
  <2>3. seg' \in [Procs -> Segments]
    BY <1>5, SegmentWith DEF SetDone, TInv, TypeOK
  <2>4. Placed'
    BY <1>5 DEF SetDone, TInv, Placed
  <2> QED BY <1>5, <2>1, <2>2, <2>3, <2>4 DEF SetDone, TInv, TypeOK
<1>6. CASE Clear
  <2>1. server' \in Places
    <3>1. server.did \in 0 .. MaxProc - 1 /\ server.cur \in Slots
      BY <1>6 DEF Clear, TInv, TypeOK, Serving, Places
    <3>2. CASE server.did + 1 >= MaxProc
      <4>1. server' = [Scanning(0, 0) EXCEPT !.pc = "check"]
        BY <1>6, <3>2 DEF Clear, AfterScan
      <4>2. Scanning(0, 0) \in Places
        BY ScanningPlace
      <4> QED BY <4>1, <4>2, PlaceWith
    <3>3. CASE server.did + 1 < MaxProc
      <4>1. server' = Scanning(server.cur + 1, server.did + 1)
        BY <1>6, <3>1, <3>3 DEF Clear, AfterScan
      <4> QED BY <3>1, <3>3, <4>1, ScanningPlace
    <3> QED BY <3>1, <3>2, <3>3
  <2>2. Serving'
    BY <1>6 DEF Clear, AfterScan, Scanning, TInv, TypeOK, Serving, Places
  <2>3. seg' \in [Procs -> Segments]
    BY <1>6 DEF Clear, TInv, TypeOK
  <2>4. Placed'
    BY <1>6 DEF Clear, TInv, Placed
  <2> QED BY <1>6, <2>1, <2>2, <2>3, <2>4 DEF Clear, TInv, TypeOK
<1>7. CASE EndScan
  <2>1. server' \in Places
    BY <1>7, PlaceWith DEF EndScan, TInv, TypeOK
  <2>2. Serving'
    BY <1>7 DEF EndScan, TInv, TypeOK, Serving, Places
  <2>3. seg' \in [Procs -> Segments]
    BY <1>7 DEF EndScan, TInv, TypeOK
  <2>4. Placed'
    BY <1>7 DEF EndScan, TInv, Placed
  <2> QED BY <1>7, <2>1, <2>2, <2>3, <2>4 DEF EndScan, TInv, TypeOK
<1>8. CASE Rescan
  <2>1. server' \in Places
    BY <1>8, ScanningPlace DEF Rescan
  <2>2. Serving'
    BY <1>8 DEF Rescan, Scanning, TInv, TypeOK, Serving, Places
  <2>3. seg' \in [Procs -> Segments]
    BY <1>8 DEF Rescan, TInv, TypeOK
  <2>4. Placed'
    BY <1>8 DEF Rescan, TInv, Placed
  <2> QED BY <1>8, <2>1, <2>2, <2>3, <2>4 DEF Rescan, TInv, TypeOK
<1> QED BY <1>1, <1>2, <1>3, <1>4, <1>5, <1>6, <1>7, <1>8 DEF Scan

(* The rest of the server: check_clients, crash and restart. *)
LEMMA ServerTypes ==
  ASSUME TInv, (\E p \in Procs : Reap(p)) \/ KillServer \/ Reinit \/ Reopen
  PROVE  TInv'
<1>1. CASE \E p \in Procs : Reap(p)
  <2>1. server' \in Places
    BY <1>1, ScanningPlace DEF Reap
  <2>2. Serving'
    BY <1>1 DEF Reap, Scanning, TInv, TypeOK, Serving, Places
  <2>3. seg' \in [Procs -> Segments]
    <3>1. PICK p \in Procs : Reap(p)
      BY <1>1
    <3> QED BY <3>1, SegmentWith DEF Reap, TInv, TypeOK
  <2>4. Placed'
    BY <1>1 DEF Reap, TInv, Placed
  <2> QED BY <1>1, <2>1, <2>2, <2>3, <2>4 DEF Reap, TInv, TypeOK
<1>2. CASE KillServer
  <2>1. server' \in Places
    BY <1>2, DownPlace DEF KillServer
  <2>2. Serving'
    BY <1>2 DEF KillServer, ServerDown, TInv, TypeOK, Serving, Places
  <2>3. seg' \in [Procs -> Segments]
    BY <1>2 DEF KillServer, TInv, TypeOK
  <2>4. Placed'
    BY <1>2 DEF KillServer, TInv, Placed
  <2> QED BY <1>2, <2>1, <2>2, <2>3, <2>4 DEF KillServer, TInv, TypeOK
<1>3. CASE Reinit
  <2>1. server' \in Places
    BY <1>3, DownPlace DEF Reinit
  <2>2. Serving'
    BY <1>3 DEF Reinit, ServerDown, TInv, TypeOK, Serving, Places
  <2>3. seg' \in [Procs -> Segments]
    <3>1. \A s \in Segments : \A b \in BOOLEAN : [s EXCEPT !.known = b] \in Segments
      BY SMT DEF Segments
    <3>2. \A p \in Procs : [seg[p] EXCEPT !.known = FALSE] \in Segments
      BY <3>1 DEF TInv, TypeOK
    <3> QED BY <1>3, <3>2 DEF Reinit
  <2>4. Placed'
    BY <1>3 DEF Reinit, TInv, Placed
  <2> QED BY <1>3, <2>1, <2>2, <2>3, <2>4 DEF Reinit, TInv, TypeOK
<1>4. CASE Reopen
  <2>1. server' \in Places
    BY <1>4, ScanningPlace DEF Reopen
  <2>2. Serving'
    BY <1>4 DEF Reopen, Scanning, TInv, TypeOK, Serving, Places
  <2>3. seg' \in [Procs -> Segments]
    BY <1>4 DEF Reopen, TInv, TypeOK
  <2>4. Placed'
    BY <1>4 DEF Reopen, TInv, Placed
  <2> QED BY <1>4, <2>1, <2>2, <2>3, <2>4 DEF Reopen, TInv, TypeOK
<1> QED BY <1>1, <1>2, <1>3, <1>4

(* Every variable keeps its type, and no process and no scan leaves the    *)
(* array of slots (service.c, cs_svc; comserv_subs.c, comserv_scan).       *)
THEOREM QueueTypes == Spec => [](TypeOK /\ Placed /\ Serving)
<1>1. Init => TInv
  <2> SUFFICES ASSUME Init PROVE TInv
    OBVIOUS
  <2>1. server \in Places /\ Serving
    BY ScanningPlace DEF Init, Serving, Scanning
  <2>2. seg \in [Procs -> Segments]
    BY NewSegmentType DEF Init
  <2> QED BY <2>1, <2>2 DEF Init, TInv, TypeOK, Placed, Labels
<1>2. TInv /\ [Next]_vars => TInv'
  <2> SUFFICES ASSUME TInv, [Next]_vars PROVE TInv'
    OBVIOUS
  <2>1. CASE UNCHANGED vars
    BY <2>1 DEF vars, TInv, TypeOK, Placed, Serving
  <2>2. CASE Server
    BY <2>2, ScanTypes, ServerTypes DEF Server
  <2>3. ASSUME NEW p \in Procs, Client(p) PROVE TInv'
    BY <2>3, SearchTypes, ClaimTypes, WaitTypes DEF Client
  <2> QED BY <2>1, <2>2, <2>3 DEF Next
<1> QED BY <1>1, <1>2, PTL DEF Spec, TInv

------------------------------------------------------------------------------
(* The semaphore: what it still admits and who is inside never exceed what *)
(* the starts of the server put into it.  A server that is down, or not    *)
(* open yet, has still to raise it.                                        *)
Raise == IF server.pc \in {"down", "opening"} THEN 1 ELSE 0

SInv ==
  /\ IsFiniteSet(Inside)
  /\ permits + Cardinality(Inside) + Raise <= 1 + crashes

LEMMA NumbersTyped ==
  ASSUME TInv, SInv
  PROVE  permits \in Nat /\ crashes \in Nat /\ Cardinality(Inside) \in Nat
BY FS_CardinalityType DEF TInv, TypeOK, SInv

LEMMA AcquireKeeps ==
  ASSUME TInv, SInv, NEW p \in Procs, Acquire(p)
  PROVE  SInv'
<1>1. pc \in [Procs -> Labels] /\ pc[p] \in {"lock", "relock"}
  BY DEF Acquire, TInv, TypeOK
<1>2. pc' = [pc EXCEPT ![p] = IF pc[p] = "lock" THEN "claim" ELSE "withdraw"]
  BY DEF Acquire, Goto
<1>3. Inside' = Inside \cup {p} /\ p \notin Inside
  BY <1>1, <1>2 DEF Inside
<1>4. IsFiniteSet(Inside') /\ Cardinality(Inside') = Cardinality(Inside) + 1
  BY <1>3, FS_AddElement DEF SInv
<1> QED BY <1>4, NumbersTyped DEF Acquire, SInv, Raise

LEMMA ReleaseKeeps ==
  ASSUME TInv, SInv, NEW p \in Procs, Release(p)
  PROVE  SInv'
<1>1. pc \in [Procs -> Labels] /\ pc[p] \in {"claimed", "lost", "withdrawn"}
  BY DEF Release, TInv, TypeOK
<1>2. \E l \in {"signal", "look", "idle"} : pc' = [pc EXCEPT ![p] = l]
  BY <1>1 DEF Release, Return, Goto
<1>3. Inside' = Inside \ {p} /\ p \in Inside
  BY <1>1, <1>2 DEF Inside
<1>4. IsFiniteSet(Inside') /\ Cardinality(Inside') = Cardinality(Inside) - 1
  BY <1>3, FS_RemoveElement DEF SInv
<1> QED BY <1>4, NumbersTyped DEF Release, SInv, Raise

LEMMA KillKeeps ==
  ASSUME TInv, SInv, NEW p \in Procs, KillProc(p)
  PROVE  SInv'
<1>1. Inside' \subseteq Inside
  BY DEF KillProc, Goto, TInv, TypeOK, Inside
<1>2. IsFiniteSet(Inside') /\ Cardinality(Inside') <= Cardinality(Inside)
  BY <1>1, FS_Subset DEF SInv
<1>3. Cardinality(Inside') \in Nat
  BY <1>2, FS_CardinalityType
<1> QED BY <1>2, <1>3, NumbersTyped DEF KillProc, SInv, Raise

(* Whoever moves between two labels on the same side stays there. *)
LEMMA SideKept ==
  ASSUME TInv, SInv, Inside' = Inside, UNCHANGED << permits, crashes >>,
         server'.pc \in {"down", "opening"} => server.pc \in {"down", "opening"}
  PROVE  SInv'
BY NumbersTyped DEF SInv, Raise

LEMMA OthersKeep ==
  ASSUME TInv, SInv, NEW p \in Procs,
         \/ StartProc(p) \/ Begin(p) \/ BeginTooEarly(p) \/ Look(p) \/ NotFound(p)
         \/ Claim(p) \/ Put(p) \/ Signal(p) \/ SeeDone(p) \/ GiveUp(p)
         \/ Withdraw(p) \/ Take(p) \/ Leave(p)
  PROVE  SInv'
<1>1. UNCHANGED << permits, crashes >>
  BY DEF StartProc, Begin, BeginTooEarly, Look, NotFound, Claim, Put, Signal, SeeDone, GiveUp,
         Withdraw, Take, Leave
<1>2. server'.pc = server.pc
  <2>1. CASE UNCHANGED server
    BY <2>1
  <2>2. CASE server' = [server EXCEPT !.stale = TRUE]
    BY <2>2 DEF TInv, TypeOK, Places
  <2> QED BY <2>1, <2>2
       DEF StartProc, Begin, BeginTooEarly, Look, NotFound, Claim, Put, Signal, SeeDone, GiveUp,
           Withdraw, Take, Leave
<1>3. pc \in [Procs -> Labels]
  BY DEF TInv, TypeOK
<1>4. Inside' = Inside
  <2>1. CASE Claim(p) \/ Put(p) \/ Withdraw(p) \/ Take(p)
    BY <1>3, <2>1 DEF Claim, Put, Withdraw, Take, Goto, Inside
  <2>2. CASE StartProc(p) \/ Begin(p) \/ BeginTooEarly(p) \/ Look(p) \/ NotFound(p)
    BY <1>3, <2>2 DEF StartProc, Begin, BeginTooEarly, Look, NotFound, Return, Goto, Inside
  <2>3. CASE Signal(p) \/ SeeDone(p) \/ GiveUp(p) \/ Leave(p)
    BY <1>3, <2>3 DEF Signal, SeeDone, GiveUp, Leave, Return, Goto, Inside
  <2> QED BY <2>1, <2>2, <2>3
<1> QED BY <1>1, <1>2, <1>4, SideKept

LEMMA ServerKeeps ==
  ASSUME TInv, SInv, Server
  PROVE  SInv'
<1>1. UNCHANGED pc
  BY DEF Server, Scan, Pass, PickUp, ReadCommand, Handle, SetDone, Clear, EndScan, Rescan, Reap,
         KillServer, Reinit, Reopen
<1>2. Inside' = Inside
  BY <1>1 DEF Inside
<1>3. CASE Scan \/ \E p \in Procs : Reap(p)
  <2>1. UNCHANGED << permits, crashes >>
    BY <1>3 DEF Scan, Pass, PickUp, ReadCommand, Handle, SetDone, Clear, EndScan, Rescan, Reap
  <2>2. server \in Places
    BY DEF TInv, TypeOK
  <2>3. server'.pc \in {"down", "opening"} => server.pc \in {"down", "opening"}
    <3>1. CASE Pass
      BY <2>2, <3>1 DEF Pass, Places
    <3>2. CASE PickUp
      BY <2>2, <3>2 DEF PickUp, Places
    <3>3. CASE ReadCommand \/ Handle \/ SetDone \/ EndScan
      BY <2>2, <3>3 DEF ReadCommand, Handle, SetDone, EndScan, Places
    <3>4. CASE Clear
      <4>1. server' = [Scanning(0, 0) EXCEPT !.pc = "check"]
              \/ server' = Scanning(server.cur + 1, server.did + 1)
        BY <3>4 DEF Clear, AfterScan
      <4> QED BY <4>1 DEF Scanning
    <3>5. CASE Rescan \/ \E p \in Procs : Reap(p)
      BY <3>5 DEF Rescan, Reap, Scanning
    <3> QED BY <1>3, <3>1, <3>2, <3>3, <3>4, <3>5 DEF Scan
  <2> QED BY <1>2, <2>1, <2>3, SideKept
<1>4. CASE KillServer
  BY <1>2, <1>4, NumbersTyped DEF KillServer, ServerDown, SInv, Raise
<1>5. CASE Reinit
  BY <1>2, <1>5, NumbersTyped DEF Reinit, ServerDown, SInv, Raise
<1>6. CASE Reopen
  BY <1>2, <1>6, NumbersTyped DEF Reopen, Scanning, SInv, Raise
<1> QED BY <1>3, <1>4, <1>5, <1>6 DEF Server

LEMMA SemaphoreInvariant == Spec => [](TInv /\ SInv)
<1>1. Init => SInv
  <2> SUFFICES ASSUME Init PROVE SInv
    OBVIOUS
  <2>1. Inside = {}
    BY DEF Init, Inside
  <2> QED BY <2>1, FS_EmptySet DEF Init, Scanning, SInv, Raise
<1>2. TInv /\ SInv /\ [Next]_vars => SInv'
  <2> SUFFICES ASSUME TInv, SInv, [Next]_vars PROVE SInv'
    OBVIOUS
  <2>1. CASE UNCHANGED vars
    BY <2>1 DEF vars, SInv, Inside, Raise
  <2>2. CASE Server
    BY <2>2, ServerKeeps
  <2>3. ASSUME NEW p \in Procs, Client(p) PROVE SInv'
    BY <2>3, AcquireKeeps, ReleaseKeeps, KillKeeps, OthersKeep DEF Client
  <2> QED BY <2>1, <2>2, <2>3 DEF Next
<1>3. Spec => []TInv
  BY QueueTypes DEF TInv
<1> QED BY <1>1, <1>2, <1>3, PTL DEF Spec

(* Each start of the server admits one process more to the slots, and      *)
(* nothing else does (comserv_subs.c, the semop of comserv_init).          *)
THEOREM PermitsCorrect == Spec => []PermitsBounded
<1>1. TInv /\ SInv => PermitsBounded
  <2> SUFFICES ASSUME TInv, SInv PROVE PermitsBounded
    OBVIOUS
  <2> QED BY NumbersTyped DEF SInv, PermitsBounded, Raise
<1> QED BY <1>1, SemaphoreInvariant, PTL

(* Two different elements count as two. *)
LEMMA TwoCount ==
  ASSUME NEW S, IsFiniteSet(S), NEW p \in S, NEW q \in S, p # q
  PROVE  Cardinality(S) >= 2
<1>1. IsFiniteSet(S \ {p}) /\ Cardinality(S \ {p}) = Cardinality(S) - 1
  BY FS_RemoveElement
<1>2. Cardinality(S \ {p}) # 0
  BY <1>1, FS_EmptySet
<1> QED BY <1>1, <1>2, FS_CardinalityType

(* One process at a time is at the slots until the server is started a     *)
(* second time (service.c, the semop calls of cs_svc).                     *)
THEOREM OneAtATime == Spec => []OneInsideAtFirst
<1>1. TInv /\ SInv => OneInsideAtFirst
  <2> SUFFICES ASSUME TInv, SInv, crashes = 0 PROVE OneInside
    BY DEF OneInsideAtFirst
  <2>1. permits + Cardinality(Inside) <= 1 /\ permits \in Nat /\ Cardinality(Inside) \in Nat
    BY NumbersTyped DEF SInv, Raise
  <2>2. \A p, q \in Inside : p = q
    BY <2>1, TwoCount DEF SInv
  <2>3. Inside # {} => permits = 0
    BY <2>1, FS_EmptySet DEF SInv
  <2> QED BY <2>1, <2>2, <2>3 DEF OneInside
<1> QED BY <1>1, SemaphoreInvariant, PTL
------------------------------------------------------------------------------
(* What is in the slots, when no service outlasts the wait of its client   *)
(* (Punctual).                                                             *)
Waiting(p) == pc[p] \in {"claimed", "signal", "wait"}

(* What is in a slot belongs to a process that waits at it, or withdraws   *)
(* from it, or is dead, or has just been answered. *)
LeftAt(p) ==
  \A i \in Slots : slot[i] = p =>
    \/ pc[p] = "dead"
    \/ at[p] = i /\ (Waiting(p) \/ pc[p] \in {"relock", "withdraw", "take"})
    \/ server.pc = "clear" /\ server.cur = i /\ server.for = p

(* A process that is served waits for it where the server is, unless dead. *)
ServedAt(p) ==
  server.pc \in {"serve", "handle", "done"} /\ server.for = p =>
    pc[p] = "dead" \/ (Waiting(p) /\ at[p] = server.cur /\ ~ seg[p].done)

(* An answered request is not in its slot once the server has gone on.     *)
AnsweredAt(p) ==
  Waiting(p) /\ seg[p].done /\ slot[at[p]] = p =>
    server.pc = "clear" /\ server.cur = at[p] /\ server.for = p

(* A process on its way into a slot, or out of it without an answer, has   *)
(* not been answered. *)
Unanswered(p) ==
  pc[p] \in {"look", "lock", "claim", "put", "lost", "relock", "withdraw", "take"} => ~ seg[p].done

LeftInv(p) ==
  Unanswered(p) /\ (server.pc # "down" => LeftAt(p) /\ ServedAt(p) /\ AnsweredAt(p))

LInv == \A p \in Procs : LeftInv(p)

(* What a step of a process does not touch. *)
LEMMA ClientFrame ==
  ASSUME TInv, NEW p \in Procs, Client(p)
  PROVE  /\ \A q \in Procs : q # p => pc'[q] = pc[q] /\ at'[q] = at[q] /\ seg'[q] = seg[q]
         /\ server'.pc = server.pc /\ server'.cur = server.cur /\ server'.for = server.for
         /\ crashes' = crashes
<1>1. /\ pc \in [Procs -> Labels] /\ at \in [Procs -> 0 .. NSlots] /\ seg \in [Procs -> Segments]
      /\ server \in Places
  BY DEF TInv, TypeOK
<1>2. CASE StartProc(p) \/ Begin(p) \/ BeginTooEarly(p)
  BY <1>1, <1>2 DEF StartProc, Begin, BeginTooEarly, Goto, Return, Places
<1>3. CASE Look(p) \/ NotFound(p) \/ Acquire(p) \/ Claim(p) \/ Put(p)
  BY <1>1, <1>3 DEF Look, NotFound, Acquire, Claim, Put, Goto, Return
<1>4. CASE Release(p)
  BY <1>1, <1>4 DEF Release, Goto, Return
<1>5. CASE Signal(p) \/ SeeDone(p) \/ GiveUp(p) \/ Withdraw(p) \/ Take(p) \/ Leave(p) \/ KillProc(p)
  BY <1>1, <1>5 DEF Signal, SeeDone, GiveUp, Withdraw, Take, Leave, KillProc, Goto, Return
<1> QED BY <1>2, <1>3, <1>4, <1>5 DEF Client

(* What it does to the slots. *)
LEMMA ClientSlots ==
  ASSUME TInv, NEW p \in Procs, Client(p)
  PROVE  \/ slot' = slot
         \/ pc[p] = "put" /\ slot' = [slot EXCEPT ![at[p]] = p]
         \/ pc[p] = "take" /\ slot' = [slot EXCEPT ![at[p]] = Nobody]
         \/ pc[p] = "signal" /\ server.pc = "down" /\ slot' = [slot EXCEPT ![at[p]] = Nobody]
<1>1. CASE StartProc(p) \/ Begin(p) \/ BeginTooEarly(p)
  BY <1>1 DEF StartProc, Begin, BeginTooEarly
<1>2. CASE Look(p) \/ NotFound(p) \/ Acquire(p) \/ Claim(p) \/ Put(p)
  BY <1>2 DEF Look, NotFound, Acquire, Claim, Put
<1>3. CASE Release(p)
  BY <1>3 DEF Release
<1>4. CASE Signal(p) \/ SeeDone(p) \/ GiveUp(p) \/ Withdraw(p) \/ Take(p) \/ Leave(p) \/ KillProc(p)
  BY <1>4 DEF Signal, SeeDone, GiveUp, Withdraw, Take, Leave, KillProc
<1> QED BY <1>1, <1>2, <1>3, <1>4 DEF Client

(* The other processes: they are in no slot they were not in. *)
LEMMA OtherLeftKept ==
  ASSUME TInv, LInv, NEW p \in Procs, Client(p), NEW q \in Procs, q # p
  PROVE  LeftInv(q)'
<1>1. slot \in [Slots -> Procs \cup {Nobody}] /\ at \in [Procs -> 0 .. NSlots]
  BY DEF TInv, TypeOK
<1>2. \A i \in Slots : slot'[i] = q => slot[i] = q
  BY <1>1, ClientSlots
<1>3. pc[q] \in {"claimed", "signal", "wait"} => at[q] \in Slots
  BY DEF TInv, Placed
<1>4. /\ pc'[q] = pc[q] /\ at'[q] = at[q] /\ seg'[q] = seg[q]
      /\ server'.pc = server.pc /\ server'.cur = server.cur /\ server'.for = server.for
  BY ClientFrame
<1>5. Unanswered(q)'
  BY <1>4 DEF LInv, LeftInv, Unanswered
<1>6. ASSUME server'.pc # "down" PROVE LeftAt(q)' /\ ServedAt(q)' /\ AnsweredAt(q)'
  <2>1. LeftAt(q) /\ ServedAt(q) /\ AnsweredAt(q)
    BY <1>4, <1>6 DEF LInv, LeftInv
  <2>2. LeftAt(q)'
    BY <1>2, <1>4, <2>1 DEF LeftAt, Waiting
  <2>3. ServedAt(q)'
    BY <1>4, <2>1 DEF ServedAt, Waiting
  <2>4. AnsweredAt(q)'
    BY <1>2, <1>3, <1>4, <2>1 DEF AnsweredAt, Waiting
  <2> QED BY <2>2, <2>3, <2>4
<1> QED BY <1>5, <1>6 DEF LeftInv

(* The process itself. *)
LEMMA SelfLeftKept ==
  ASSUME Punctual, TInv, LInv, NEW p \in Procs, Client(p)
  PROVE  LeftInv(p)'
<1>1. /\ pc \in [Procs -> Labels] /\ at \in [Procs -> 0 .. NSlots] /\ seg \in [Procs -> Segments]
      /\ slot \in [Slots -> Procs \cup {Nobody}]
  BY DEF TInv, TypeOK
<1>2. server'.pc = server.pc /\ server'.cur = server.cur /\ server'.for = server.for
  BY ClientFrame
<1>3. pc[p] \notin {"off", "idle", "look", "dead"} => at[p] \in Slots
  BY DEF TInv, Placed
<1>4. LeftInv(p)
  BY DEF LInv
<1>5. CASE StartProc(p) \/ Leave(p) \/ KillProc(p)
  <2>1. /\ pc'[p] = "dead" \/ (pc[p] = "off" /\ pc'[p] = "idle")
        /\ at' = at /\ slot' = slot
    <3>1. CASE StartProc(p)
      BY <1>1, <3>1, Zenon DEF StartProc, Goto
    <3>2. CASE Leave(p) \/ KillProc(p)
      BY <1>1, <3>2, Zenon DEF Leave, KillProc, Goto
    <3> QED BY <1>5, <3>1, <3>2
  <2>2. seg'[p].done = seg[p].done
    BY <1>1, <1>5 DEF StartProc, Leave, KillProc, Segments
  <2> QED BY <1>2, <1>4, <2>1, <2>2
       DEF LeftInv, Unanswered, LeftAt, ServedAt, AnsweredAt, Waiting
<1>6. CASE Begin(p) \/ BeginTooEarly(p)
  <2>1. pc[p] = "idle" /\ pc'[p] \in {"idle", "look"} /\ ~ seg'[p].done /\ slot' = slot
    BY <1>1, <1>6 DEF Begin, BeginTooEarly, Goto, Return, Segments
  <2> QED BY <1>2, <1>4, <2>1
       DEF LeftInv, Unanswered, LeftAt, ServedAt, AnsweredAt, Waiting
<1>7. CASE Look(p) \/ NotFound(p)
  <2>1. pc[p] = "look" /\ pc'[p] \in {"idle", "look", "lock"} /\ seg' = seg /\ slot' = slot
    BY <1>1, <1>7 DEF Look, NotFound, Goto, Return
  <2> QED BY <1>2, <1>4, <2>1
       DEF LeftInv, Unanswered, LeftAt, ServedAt, AnsweredAt, Waiting
<1>8. CASE Acquire(p) \/ Claim(p) \/ GiveUp(p)
  <2>1. /\ \/ pc[p] = "lock" /\ pc'[p] = "claim"
           \/ pc[p] = "relock" /\ pc'[p] = "withdraw"
           \/ pc[p] = "claim" /\ pc'[p] \in {"put", "lost"}
           \/ pc[p] = "wait" /\ pc'[p] = "relock" /\ ~ seg[p].done /\ server.for # p
        /\ at' = at /\ seg' = seg /\ slot' = slot
    BY <1>1, <1>8 DEF Acquire, Claim, GiveUp, Goto
  <2> QED BY <1>2, <1>4, <2>1
       DEF LeftInv, Unanswered, LeftAt, ServedAt, AnsweredAt, Waiting
<1>9. CASE Put(p)
  <2>1. /\ pc[p] = "put" /\ pc'[p] = "claimed" /\ at' = at /\ seg' = seg
        /\ slot' = [slot EXCEPT ![at[p]] = p] /\ at[p] \in Slots
    BY <1>1, <1>3, <1>9 DEF Put, Goto
  <2>2. \A i \in Slots : i # at[p] => slot'[i] = slot[i]
    BY <1>1, <2>1
  <2> QED BY <1>2, <1>4, <2>1, <2>2
       DEF LeftInv, Unanswered, LeftAt, ServedAt, AnsweredAt, Waiting
<1>10. CASE Release(p)
  <2>1. /\ \/ pc[p] = "claimed" /\ pc'[p] = "signal" /\ at' = at
           \/ pc[p] = "lost" /\ pc'[p] = "look"
           \/ pc[p] = "withdrawn" /\ pc'[p] = "idle"
        /\ seg' = seg /\ slot' = slot
    BY <1>1, <1>10 DEF Release, Goto, Return
  <2> QED BY <1>2, <1>4, <2>1
       DEF LeftInv, Unanswered, LeftAt, ServedAt, AnsweredAt, Waiting
<1>11. CASE Signal(p)
  <2>1. /\ pc[p] = "signal" /\ at' = at /\ seg' = seg
        /\ \/ pc'[p] = "idle" /\ server.pc = "down"
           \/ pc'[p] = "wait" /\ slot' = slot
    BY <1>1, <1>11 DEF Signal, Goto, Return
  <2> QED BY <1>2, <1>4, <2>1
       DEF LeftInv, Unanswered, LeftAt, ServedAt, AnsweredAt, Waiting
<1>12. CASE SeeDone(p)
  <2>1. pc[p] = "wait" /\ pc'[p] = "idle" /\ seg[p].done /\ at' = at /\ seg' = seg /\ slot' = slot
    BY <1>1, <1>12 DEF SeeDone, Goto, Return
  <2> QED BY <1>2, <1>4, <2>1
       DEF LeftInv, Unanswered, LeftAt, ServedAt, AnsweredAt, Waiting
<1>13. CASE Withdraw(p)
  <2>1. /\ pc[p] = "withdraw" /\ at' = at /\ seg' = seg /\ slot' = slot
        /\ \/ pc'[p] = "take"
           \/ pc'[p] = "withdrawn" /\ slot[at[p]] # p
    BY <1>1, <1>13 DEF Withdraw, Goto
  <2> QED BY <1>2, <1>4, <2>1
       DEF LeftInv, Unanswered, LeftAt, ServedAt, AnsweredAt, Waiting
<1>14. CASE Take(p)
  <2>1. /\ pc[p] = "take" /\ pc'[p] = "withdrawn" /\ at' = at /\ seg' = seg
        /\ slot' = [slot EXCEPT ![at[p]] = Nobody]
    BY <1>1, <1>14 DEF Take, Goto
  <2>2. \A i \in Slots : slot'[i] = p => slot[i] = p /\ i # at[p]
    BY <1>1, <1>3, <2>1
  <2> QED BY <1>2, <1>4, <2>1, <2>2
       DEF LeftInv, Unanswered, LeftAt, ServedAt, AnsweredAt, Waiting
<1> QED BY <1>5, <1>6, <1>7, <1>8, <1>9, <1>10, <1>11, <1>12, <1>13, <1>14 DEF Client

(* The server. *)
LEMMA ServerLeftKept ==
  ASSUME Punctual, TInv, LInv, Server, NEW p \in Procs
  PROVE  LeftInv(p)'
<1>1. /\ seg \in [Procs -> Segments] /\ slot \in [Slots -> Procs \cup {Nobody}] /\ server \in Places
      /\ pc[p] \notin {"off", "idle", "look", "dead"} => at[p] \in Slots
  BY DEF TInv, TypeOK, Placed
<1>2. LeftInv(p)
  BY DEF LInv
<1>3. CASE Pass \/ EndScan
  <2>1. UNCHANGED << slot, pc, at, seg >> /\ server.pc = "scan" /\ server'.pc \in {"scan", "check"}
    BY <1>1, <1>3 DEF Pass, EndScan, Places
  <2> QED BY <1>2, <2>1 DEF LeftInv, Unanswered, LeftAt, ServedAt, AnsweredAt, Waiting
<1>4. CASE PickUp
  <2>1. /\ UNCHANGED << slot, pc, at >> /\ server.pc = "scan" /\ server'.pc = "serve"
        /\ server'.cur = server.cur /\ server'.for = slot[server.cur] /\ server.cur \in Slots
        /\ pc[slot[server.cur]] \notin {"relock", "withdraw", "take", "withdrawn"}
    BY <1>1, <1>4 DEF PickUp, Places
  <2>2. seg'[p].done = seg[p].done
    BY <1>1, <1>4 DEF PickUp, Segments
  <2>3. ServedAt(p)'
    <3> SUFFICES ASSUME slot[server.cur] = p, pc[p] # "dead"
                 PROVE  Waiting(p) /\ at[p] = server.cur /\ ~ seg[p].done
      BY <2>1, <2>2, Zenon DEF ServedAt, Waiting
    <3>1. at[p] = server.cur /\ Waiting(p)
      BY <1>2, <2>1 DEF LeftInv, LeftAt
    <3>2. ~ seg[p].done
      BY <1>2, <2>1, <3>1 DEF LeftInv, AnsweredAt
    <3> QED BY <3>1, <3>2
  <2>4. LeftAt(p)' /\ AnsweredAt(p)' /\ Unanswered(p)'
    BY <1>2, <2>1, <2>2 DEF LeftInv, Unanswered, LeftAt, AnsweredAt, Waiting
  <2> QED BY <2>3, <2>4 DEF LeftInv
<1>5. CASE ReadCommand \/ Handle
  <2>1. /\ UNCHANGED << slot, pc, at >> /\ server.pc \in {"serve", "handle"}
        /\ server'.pc \in {"handle", "done"}
        /\ server'.cur = server.cur /\ server'.for = server.for
    BY <1>1, <1>5, Zenon DEF ReadCommand, Handle, Places
  <2>2. seg'[p].done = seg[p].done
    BY <1>1, <1>5 DEF ReadCommand, Handle, Segments
  <2> QED BY <1>2, <2>1, <2>2 DEF LeftInv, Unanswered, LeftAt, ServedAt, AnsweredAt, Waiting
<1>6. CASE SetDone
  <2>1. /\ UNCHANGED << slot, pc, at >> /\ server.pc = "done" /\ server'.pc = "clear"
        /\ server'.cur = server.cur /\ server'.for = server.for
    BY <1>1, <1>6 DEF SetDone, Places
  <2>2. p # server.for => seg'[p].done = seg[p].done
    BY <1>1, <1>6 DEF SetDone
  <2> QED BY <1>2, <2>1, <2>2 DEF LeftInv, Unanswered, LeftAt, ServedAt, AnsweredAt, Waiting
<1>7. CASE Clear
  <2>1. UNCHANGED << pc, at, seg >> /\ server.pc = "clear" /\ server.cur \in Slots
    BY <1>7 DEF Clear, TInv, Serving
  <2>2. server'.pc \in {"scan", "check"}
    <3>1. \/ server' = [Scanning(0, 0) EXCEPT !.pc = "check"]
          \/ server' = Scanning(server.cur + 1, server.did + 1)
      BY <1>7 DEF Clear, AfterScan
    <3> QED BY <3>1 DEF Scanning
  <2>3. \A i \in Slots : slot'[i] = p => slot[i] = p /\ i # server.cur
    BY <1>1, <1>7, <2>1 DEF Clear
  <2> QED BY <1>1, <1>2, <2>1, <2>2, <2>3 DEF LeftInv, Unanswered, LeftAt, ServedAt, AnsweredAt, Waiting
<1>8. CASE Rescan \/ \E q \in Procs : Reap(q)
  <2>1. UNCHANGED << slot, pc, at >> /\ server.pc = "check" /\ server'.pc = "scan"
    BY <1>8 DEF Rescan, Reap, Scanning
  <2>2. seg'[p].done = seg[p].done
    BY <1>1, <1>8 DEF Rescan, Reap, Segments
  <2> QED BY <1>2, <2>1, <2>2 DEF LeftInv, Unanswered, LeftAt, ServedAt, AnsweredAt, Waiting
<1>9. CASE KillServer
  BY <1>2, <1>9 DEF KillServer, ServerDown, LeftInv, Unanswered
<1>10. CASE Reinit
  <2>1. /\ UNCHANGED << pc, at >> /\ server'.pc = "opening"
        /\ \A i \in Slots : slot'[i] = Nobody
    BY <1>10 DEF Reinit, ServerDown
  <2>2. seg'[p].done = seg[p].done
    BY <1>1, <1>10 DEF Reinit, Segments
  <2> QED BY <1>1, <1>2, <2>1, <2>2 DEF LeftInv, Unanswered, LeftAt, ServedAt, AnsweredAt, Waiting
<1>11. CASE Reopen
  <2>1. UNCHANGED << slot, pc, at, seg >> /\ server.pc = "opening" /\ server'.pc = "scan"
    BY <1>11 DEF Reopen, Scanning
  <2> QED BY <1>2, <2>1 DEF LeftInv, Unanswered, LeftAt, ServedAt, AnsweredAt, Waiting
<1> QED BY <1>3, <1>4, <1>5, <1>6, <1>7, <1>8, <1>9, <1>10, <1>11 DEF Server, Scan

LEMMA LeftInvariant == ASSUME Punctual PROVE Spec => [](TInv /\ LInv)
<1>1. Init => LInv
  BY DEF Init, Scanning, NewSegment, LInv, LeftInv, Unanswered, LeftAt, ServedAt, AnsweredAt, Waiting
<1>2. TInv /\ LInv /\ [Next]_vars => LInv'
  <2> SUFFICES ASSUME TInv, LInv, [Next]_vars PROVE LInv'
    OBVIOUS
  <2>1. CASE UNCHANGED vars
    BY <2>1 DEF vars, LInv, LeftInv, Unanswered, LeftAt, ServedAt, AnsweredAt, Waiting
  <2>2. CASE Server
    BY <2>2, ServerLeftKept DEF LInv
  <2>3. ASSUME NEW p \in Procs, Client(p) PROVE LInv'
    BY <2>3, OtherLeftKept, SelfLeftKept DEF LInv
  <2> QED BY <2>1, <2>2, <2>3 DEF Next
<1>3. Spec => []TInv
  BY QueueTypes DEF TInv
<1> QED BY <1>1, <1>2, <1>3, PTL DEF Spec

(* If no service outlasts the wait of its client, nothing is left in a     *)
(* slot that nobody waits for, whatever is killed and started again        *)
(* (service.c, the withdrawal; comserv_subs.c, the clearing of the slot).  *)
THEOREM NothingLeftOver == ASSUME Punctual PROVE Spec => []NoLeftover
<1>1. LInv => NoLeftover
  BY DEF LInv, LeftInv, LeftAt, Waiting, NoLeftover
<1> QED BY <1>1, LeftInvariant, PTL
------------------------------------------------------------------------------
(* Requests stay in their slots until they are answered, as long as the    *)
(* first server runs.                                                      *)

(* A slot found free is free still when the process puts its segment       *)
(* there, one found held is held still when it takes it back; the request  *)
(* being served stays where it is, and its process does not withdraw it;   *)
(* when the slot is cleared, the process has its answer.                   *)
HeldInv(p) ==
  /\ pc[p] = "put" => slot[at[p]] = Nobody
  /\ pc[p] = "take" => slot[at[p]] = p
  /\ server.pc \in {"serve", "handle", "done", "clear"} /\ server.for = p =>
       slot[server.cur] = p /\ pc[p] \notin {"relock", "withdraw", "take", "withdrawn"}
  /\ server.pc = "clear" /\ server.for = p /\ Waiting(p) /\ at[p] = server.cur => seg[p].done
  /\ Waiting(p) /\ ~ seg[p].done => slot[at[p]] = p

Up == server.pc \notin {"down", "opening"}

HInv == crashes = 0 => Up /\ \A p \in Procs : HeldInv(p)

LEMMA OtherHeldKept ==
  ASSUME Punctual, TInv, HInv, OneInsideAtFirst, NEW p \in Procs, Client(p), crashes' = 0,
         NEW q \in Procs, q # p
  PROVE  HeldInv(q)'
<1>1. slot \in [Slots -> Procs \cup {Nobody}]
  BY DEF TInv, TypeOK
<1>2. /\ pc'[q] = pc[q] /\ at'[q] = at[q] /\ seg'[q] = seg[q]
      /\ server'.pc = server.pc /\ server'.cur = server.cur /\ server'.for = server.for
      /\ crashes = 0
  BY ClientFrame
<1>3. Up /\ HeldInv(p) /\ HeldInv(q)
  BY <1>2 DEF HInv
<1>4. /\ pc[p] \notin {"off", "idle", "look", "dead"} => at[p] \in Slots
      /\ pc[q] \notin {"off", "idle", "look", "dead"} => at[q] \in Slots
      /\ server.pc \in {"serve", "handle", "done", "clear"} => server.cur \in Slots
  BY DEF TInv, Placed, Serving
<1>5. pc[p] \in {"put", "take"} => pc[q] # "put" /\ pc[q] # "take"
  BY <1>2 DEF OneInsideAtFirst, OneInside, Inside
<1>6. ASSUME NEW i \in Slots, slot[i] = q PROVE slot'[i] = q
  <2>1. pc[p] \in {"put", "take"} => at[p] # i
    BY <1>3, <1>6, ServiceQueueAssumption DEF HeldInv
  <2> QED BY <1>1, <1>3, <1>6, <2>1, ClientSlots DEF Up
<1>7. pc[q] = "put" => slot'[at[q]] = Nobody
  BY <1>1, <1>3, <1>4, <1>5, ClientSlots DEF HeldInv, Up
<1> QED BY <1>2, <1>3, <1>4, <1>6, <1>7 DEF HeldInv, Waiting

LEMMA SelfHeldKept ==
  ASSUME Punctual, TInv, HInv, NEW p \in Procs, Client(p), crashes' = 0
  PROVE  HeldInv(p)'
<1>1. /\ pc \in [Procs -> Labels] /\ at \in [Procs -> 0 .. NSlots] /\ seg \in [Procs -> Segments]
      /\ slot \in [Slots -> Procs \cup {Nobody}]
  BY DEF TInv, TypeOK
<1>2. /\ server'.pc = server.pc /\ server'.cur = server.cur /\ server'.for = server.for
      /\ crashes = 0
  BY ClientFrame
<1>3. /\ pc[p] \notin {"off", "idle", "look", "dead"} => at[p] \in Slots
      /\ server.pc \in {"serve", "handle", "done", "clear"} => server.cur \in Slots
  BY DEF TInv, Placed, Serving
<1>4. Up /\ HeldInv(p)
  BY <1>2 DEF HInv
<1>5. CASE StartProc(p) \/ Leave(p) \/ KillProc(p)
  <2>1. /\ pc'[p] = "dead" \/ pc'[p] = "idle"
        /\ at' = at /\ slot' = slot
    <3>1. CASE StartProc(p)
      BY <1>1, <3>1, Zenon DEF StartProc, Goto
    <3>2. CASE Leave(p) \/ KillProc(p)
      BY <1>1, <3>2 DEF Leave, KillProc, Goto
    <3> QED BY <1>5, <3>1, <3>2
  <2> QED BY <1>2, <1>4, <2>1 DEF HeldInv, Waiting
<1>6. CASE Begin(p) \/ BeginTooEarly(p)
  <2>1. pc[p] = "idle" /\ pc'[p] \in {"idle", "look"} /\ slot' = slot
    BY <1>1, <1>6 DEF Begin, BeginTooEarly, Goto, Return
  <2> QED BY <1>2, <1>4, <2>1 DEF HeldInv, Waiting
<1>7. CASE Look(p) \/ NotFound(p)
  <2>1. pc[p] = "look" /\ pc'[p] \in {"idle", "look", "lock"} /\ seg' = seg /\ slot' = slot
    BY <1>1, <1>7 DEF Look, NotFound, Goto, Return
  <2> QED BY <1>2, <1>4, <2>1 DEF HeldInv, Waiting
<1>8. CASE Acquire(p) \/ Claim(p) \/ GiveUp(p)
  <2>1. /\ \/ pc[p] = "lock" /\ pc'[p] = "claim"
           \/ pc[p] = "relock" /\ pc'[p] = "withdraw"
           \/ pc[p] = "claim" /\ pc'[p] = "put" /\ slot[at[p]] = Nobody
           \/ pc[p] = "claim" /\ pc'[p] = "lost"
           \/ pc[p] = "wait" /\ pc'[p] = "relock" /\ ~ seg[p].done /\ server.for # p
        /\ at' = at /\ seg' = seg /\ slot' = slot
    BY <1>1, <1>8 DEF Acquire, Claim, GiveUp, Goto
  <2> QED BY <1>2, <1>4, <2>1 DEF HeldInv, Waiting
<1>9. CASE Put(p)
  <2>1. /\ pc[p] = "put" /\ pc'[p] = "claimed" /\ at' = at /\ seg' = seg
        /\ slot' = [slot EXCEPT ![at[p]] = p] /\ at[p] \in Slots /\ slot[at[p]] = Nobody
    BY <1>1, <1>3, <1>4, <1>9 DEF Put, Goto, HeldInv
  <2>2. slot'[at[p]] = p /\ \A i \in Slots : slot[i] = p => slot'[i] = p
    BY <1>1, <2>1
  <2> QED BY <1>2, <1>3, <1>4, <2>1, <2>2, ServiceQueueAssumption DEF HeldInv, Waiting
<1>10. CASE Release(p)
  <2>1. /\ \/ pc[p] = "claimed" /\ pc'[p] = "signal" /\ at' = at
           \/ pc[p] = "lost" /\ pc'[p] = "look"
           \/ pc[p] = "withdrawn" /\ pc'[p] = "idle"
        /\ seg' = seg /\ slot' = slot
    BY <1>1, <1>10 DEF Release, Goto, Return
  <2> QED BY <1>2, <1>4, <2>1 DEF HeldInv, Waiting
<1>11. CASE Signal(p)
  <2>1. pc[p] = "signal" /\ pc'[p] = "wait" /\ at' = at /\ seg' = seg /\ slot' = slot
    BY <1>1, <1>4, <1>11 DEF Signal, Goto, Return, Up
  <2> QED BY <1>2, <1>4, <2>1 DEF HeldInv, Waiting
<1>12. CASE SeeDone(p)
  <2>1. pc[p] = "wait" /\ pc'[p] = "idle" /\ seg[p].done /\ at' = at /\ seg' = seg /\ slot' = slot
    BY <1>1, <1>12 DEF SeeDone, Goto, Return
  <2> QED BY <1>2, <1>4, <2>1 DEF HeldInv, Waiting
<1>13. CASE Withdraw(p)
  <2>1. /\ pc[p] = "withdraw" /\ at' = at /\ seg' = seg /\ slot' = slot
        /\ \/ pc'[p] = "take" /\ slot[at[p]] = p
           \/ pc'[p] = "withdrawn"
    BY <1>1, <1>13 DEF Withdraw, Goto
  <2> QED BY <1>2, <1>4, <2>1 DEF HeldInv, Waiting
<1>14. CASE Take(p)
  <2>1. /\ pc[p] = "take" /\ pc'[p] = "withdrawn" /\ at' = at /\ seg' = seg
    BY <1>1, <1>14 DEF Take, Goto
  <2> QED BY <1>2, <1>4, <2>1 DEF HeldInv, Waiting
<1> QED BY <1>5, <1>6, <1>7, <1>8, <1>9, <1>10, <1>11, <1>12, <1>13, <1>14 DEF Client

LEMMA ServerHeldKept ==
  ASSUME Punctual, TInv, HInv, Server, crashes' = 0
  PROVE  Up' /\ \A p \in Procs : HeldInv(p)'
<1>1. /\ seg \in [Procs -> Segments] /\ slot \in [Slots -> Procs \cup {Nobody}] /\ server \in Places
      /\ \A p \in Procs : pc[p] \notin {"off", "idle", "look", "dead"} => at[p] \in Slots
      /\ crashes \in Nat
  BY DEF TInv, TypeOK, Placed
<1>2. crashes = 0 /\ Up
  BY <1>1 DEF HInv, Server, Scan, Pass, PickUp, ReadCommand, Handle, SetDone, Clear, EndScan, Rescan,
              Reap, KillServer, Reinit, Reopen
<1>3. \A p \in Procs : HeldInv(p)
  BY <1>2 DEF HInv
<1>4. CASE Pass \/ EndScan
  <2>1. UNCHANGED << slot, pc, at, seg >> /\ server.pc = "scan" /\ server'.pc \in {"scan", "check"}
    BY <1>1, <1>4 DEF Pass, EndScan, Places
  <2> QED BY <1>3, <2>1 DEF HeldInv, Waiting, Up
<1>5. CASE PickUp
  <2>1. /\ UNCHANGED << slot, pc, at >> /\ server.pc = "scan" /\ server'.pc = "serve"
        /\ server'.cur = server.cur /\ server'.for = slot[server.cur] /\ server.cur \in Slots
        /\ pc[slot[server.cur]] \notin {"relock", "withdraw", "take", "withdrawn"}
    BY <1>1, <1>5 DEF PickUp, Places
  <2>2. \A p \in Procs : seg'[p].done = seg[p].done
    BY <1>1, <1>5 DEF PickUp, Segments
  <2> QED BY <1>3, <2>1, <2>2 DEF HeldInv, Waiting, Up
<1>6. CASE ReadCommand \/ Handle
  <2>1. /\ UNCHANGED << slot, pc, at >> /\ server.pc \in {"serve", "handle"}
        /\ server'.pc \in {"handle", "done"}
        /\ server'.cur = server.cur /\ server'.for = server.for
    BY <1>1, <1>6, Zenon DEF ReadCommand, Handle, Places
  <2>2. \A p \in Procs : seg'[p].done = seg[p].done
    BY <1>1, <1>6 DEF ReadCommand, Handle, Segments
  <2> QED BY <1>3, <2>1, <2>2 DEF HeldInv, Waiting, Up
<1>7. CASE SetDone
  <2>1. /\ UNCHANGED << slot, pc, at >> /\ server.pc = "done" /\ server'.pc = "clear"
        /\ server'.cur = server.cur /\ server'.for = server.for
    BY <1>1, <1>7 DEF SetDone, Places
  <2>2. \A p \in Procs : p # server.for => seg'[p] = seg[p]
    BY <1>1, <1>7 DEF SetDone
  <2>3. seg'[server.for].done
    BY <1>1, <1>7, <2>1 DEF SetDone, TInv, Serving, Segments
  <2> QED BY <1>3, <2>1, <2>2, <2>3 DEF HeldInv, Waiting, Up
<1>8. CASE Clear
  <2>1. /\ UNCHANGED << pc, at, seg >> /\ server.pc = "clear" /\ server.cur \in Slots
        /\ server.for \in Procs
    BY <1>8 DEF Clear, TInv, Serving
  <2>2. server'.pc \in {"scan", "check"}
    <3>1. \/ server' = [Scanning(0, 0) EXCEPT !.pc = "check"]
          \/ server' = Scanning(server.cur + 1, server.did + 1)
      BY <1>8 DEF Clear, AfterScan
    <3> QED BY <3>1 DEF Scanning
  <2>3. slot'[server.cur] = Nobody /\ \A i \in Slots : i # server.cur => slot'[i] = slot[i]
    BY <1>1, <1>8, <2>1 DEF Clear
  <2>4. slot[server.cur] = server.for
    BY <1>3, <2>1 DEF HeldInv
  <2>5. ASSUME NEW p \in Procs PROVE HeldInv(p)'
    <3>1. pc[p] = "put" => slot'[at[p]] = Nobody
      BY <1>1, <1>3, <2>1, <2>3 DEF HeldInv
    <3>2. pc[p] = "take" => slot'[at[p]] = p
      BY <1>1, <1>3, <2>1, <2>3, <2>4 DEF HeldInv
    <3>3. Waiting(p) /\ ~ seg[p].done => slot'[at[p]] = p
      BY <1>1, <1>3, <2>1, <2>3, <2>4 DEF HeldInv, Waiting
    <3> QED BY <2>1, <2>2, <3>1, <3>2, <3>3 DEF HeldInv, Waiting
  <2> QED BY <2>2, <2>5 DEF Up
<1>9. CASE Rescan \/ \E q \in Procs : Reap(q)
  <2>1. UNCHANGED << slot, pc, at >> /\ server.pc = "check" /\ server'.pc = "scan"
    BY <1>9 DEF Rescan, Reap, Scanning
  <2>2. \A p \in Procs : seg'[p].done = seg[p].done
    BY <1>1, <1>9 DEF Rescan, Reap, Segments
  <2> QED BY <1>3, <2>1, <2>2 DEF HeldInv, Waiting, Up
<1>10. CASE KillServer
  BY <1>1, <1>2, <1>10 DEF KillServer
<1>11. CASE Reinit \/ Reopen
  BY <1>2, <1>11 DEF Reinit, Reopen, Up
<1> QED BY <1>4, <1>5, <1>6, <1>7, <1>8, <1>9, <1>10, <1>11 DEF Server, Scan

(* If no service outlasts the wait of its client, a request stays in its   *)
(* slot until it is answered, as long as the server is not started a       *)
(* second time, although the server empties slots without the semaphore.   *)
THEOREM RequestsStay == ASSUME Punctual PROVE Spec => []QueuedUntilAnswered
<1>1. Init => HInv
  BY DEF Init, Scanning, NewSegment, HInv, HeldInv, Waiting, Up
<1>2. TInv /\ OneInsideAtFirst /\ HInv /\ [Next]_vars => HInv'
  <2> SUFFICES ASSUME TInv, OneInsideAtFirst, HInv, [Next]_vars, crashes' = 0
               PROVE  Up' /\ \A p \in Procs : HeldInv(p)'
    BY DEF HInv
  <2>1. CASE UNCHANGED vars
    BY <2>1 DEF vars, HInv, HeldInv, Waiting, Up
  <2>2. CASE Server
    BY <2>2, ServerHeldKept
  <2>3. ASSUME NEW p \in Procs, Client(p) PROVE Up' /\ \A q \in Procs : HeldInv(q)'
    <3>1. Up'
      BY <2>3, ClientFrame DEF HInv, Up
    <3> QED BY <2>3, <3>1, OtherHeldKept, SelfHeldKept
  <2> QED BY <2>1, <2>2, <2>3 DEF Next
<1>3. HInv => QueuedUntilAnswered
  BY DEF HInv, HeldInv, Waiting, QueuedUntilAnswered, InQueue
<1>4. Spec => []TInv
  BY QueueTypes DEF TInv
<1> QED BY <1>1, <1>2, <1>3, <1>4, OneAtATime, PTL DEF Spec
------------------------------------------------------------------------------
(* What the promises of cs_svc rest on: how often the request of a watched *)
(* process has been carried out, at every point of cs_svc and of the scan. *)
Unserved == {"look", "lock", "claim", "put", "lost", "relock", "withdraw", "take", "withdrawn"}

CountInv(p) ==
  /\ pc[p] = "off" => times[p] = 0 /\ result[p] = "none"
  /\ pc[p] \in Unserved => times[p] = 0
  /\ Waiting(p) => times[p] = IF seg[p].done \/ (server.for = p /\ server.pc = "done") THEN 1 ELSE 0
  /\ server.pc = "handle" /\ server.for = p /\ pc[p] # "dead" => ~ server.stale

CInv == crashes = 0 => init /\ Up /\ \A p \in Watched : CountInv(p)

(* Nor does it touch the others' history. *)
LEMMA ClientHistory ==
  ASSUME TInv, NEW p \in Procs, Client(p), NEW q \in Procs, q # p
  PROVE  times'[q] = times[q] /\ result'[q] = result[q]
<1>1. times \in [Procs -> 0 .. 2] /\ result \in [Procs -> {"none", "GOOD", "TIMEOUT", "ENQUEUE", "INIT", "DIED"}]
  BY DEF TInv, TypeOK
<1>2. UNCHANGED times \/ times' = [times EXCEPT ![p] = 0]
  BY DEF Client, StartProc, Begin, BeginTooEarly, Look, NotFound, Acquire, Claim, Put, Release, Signal, SeeDone,
         GiveUp, Withdraw, Take, Leave, KillProc
<1>3. UNCHANGED result \/ \E r : result' = [result EXCEPT ![p] = r]
  <2>1. CASE BeginTooEarly(p) \/ NotFound(p) \/ Signal(p) \/ SeeDone(p) \/ Release(p)
    BY <2>1, Zenon DEF BeginTooEarly, NotFound, Signal, SeeDone, Release, Return
  <2>2. CASE ~ (BeginTooEarly(p) \/ NotFound(p) \/ Signal(p) \/ SeeDone(p) \/ Release(p))
    BY <2>2 DEF Client, StartProc, Begin, Look, Acquire, Claim, Put, GiveUp, Withdraw, Take, Leave, KillProc
  <2> QED BY <2>1, <2>2
<1> QED BY <1>1, <1>2, <1>3

LEMMA OtherCountKept ==
  ASSUME TInv, CInv, NEW p \in Procs, Client(p), crashes' = 0, NEW q \in Watched, q # p
  PROVE  CountInv(q)'
<1>1. /\ pc'[q] = pc[q] /\ seg'[q] = seg[q] /\ crashes = 0
      /\ server'.pc = server.pc /\ server'.for = server.for
  BY ClientFrame, ServiceQueueAssumption
<1>2. times'[q] = times[q] /\ result'[q] = result[q]
  BY ClientHistory, ServiceQueueAssumption
<1>3. server'.stale = server.stale \/ server.for = p
  <2>1. UNCHANGED server \/ server.for = p
    BY DEF Client, StartProc, Begin, BeginTooEarly, Look, NotFound, Acquire, Claim, Put, Release, Signal, SeeDone,
           GiveUp, Withdraw, Take, Leave, KillProc
  <2> QED BY <2>1
<1>4. CountInv(q)
  BY <1>1 DEF CInv
<1> QED BY <1>1, <1>2, <1>3, <1>4 DEF CountInv, Waiting

LEMMA SelfCountKept ==
  ASSUME Punctual, TInv, LInv, CInv, NEW p \in Watched, Client(p), crashes' = 0
  PROVE  CountInv(p)'
<1>1. /\ pc \in [Procs -> Labels] /\ seg \in [Procs -> Segments] /\ times \in [Procs -> 0 .. 2] /\ p \in Procs
      /\ server \in Places
  BY ServiceQueueAssumption DEF TInv, TypeOK
<1>2. crashes = 0 /\ server'.pc = server.pc /\ server'.for = server.for
  BY <1>1, ClientFrame
<1>3. init /\ Up /\ CountInv(p)
  BY <1>2 DEF CInv
<1>4. Unanswered(p) /\ ServedAt(p)
  BY <1>1, <1>3 DEF LInv, LeftInv, Up
<1>5. CASE StartProc(p) \/ Leave(p) \/ KillProc(p)
  <2>1. UNCHANGED << server, times, result >> /\ pc'[p] \in {"idle", "dead"} /\ (StartProc(p) => pc[p] = "off")
    <3>1. CASE StartProc(p)
      BY <1>1, <3>1, Zenon DEF StartProc, Goto
    <3>2. CASE Leave(p) \/ KillProc(p)
      <4>1. pc' = [pc EXCEPT ![p] = "dead"]
        BY <3>2 DEF Leave, KillProc, Goto
      <4>2. pc[p] # "off"
        BY <3>2 DEF Leave, KillProc, Gone
      <4> QED BY <1>1, <3>2, <4>1, <4>2 DEF Leave, KillProc, StartProc
    <3> QED BY <1>5, <3>1, <3>2
  <2>2. pc[p] = "off" => ~ (server.pc = "handle" /\ server.for = p)
    BY <1>4 DEF ServedAt, Waiting
  <2>3. StartProc(p) \/ pc'[p] = "dead"
    BY <1>1, <1>5 DEF Leave, KillProc, Goto
  <2> QED BY <1>2, <1>3, <2>1, <2>2, <2>3 DEF CountInv, Waiting, Unserved
<1>6. CASE Begin(p) \/ BeginTooEarly(p)
  <2>1. /\ pc[p] = "idle" /\ pc'[p] \in {"idle", "look"} /\ times' = [times EXCEPT ![p] = 0]
    BY <1>1, <1>6 DEF Begin, BeginTooEarly, Goto, Return
  <2>2. times'[p] = 0
    BY <1>1, <2>1
  <2>3. ~ (server.pc = "handle" /\ server.for = p)
    BY <1>4, <2>1 DEF ServedAt, Waiting
  <2> QED BY <1>2, <2>1, <2>2, <2>3 DEF CountInv, Waiting
<1>7. CASE Look(p) \/ NotFound(p)
  <2>1. pc[p] = "look" /\ pc'[p] \in {"idle", "look", "lock"} /\ UNCHANGED << server, seg, times >>
    BY <1>1, <1>7 DEF Look, NotFound, Goto, Return
  <2> QED BY <1>3, <2>1 DEF CountInv, Waiting, Unserved
<1>8. CASE Acquire(p) \/ Claim(p)
  <2>1. /\ pc[p] \in {"lock", "relock", "claim"} /\ pc'[p] \in {"claim", "withdraw", "put", "lost"}
        /\ UNCHANGED << server, seg, times >>
    BY <1>1, <1>8 DEF Acquire, Claim, Goto
  <2> QED BY <1>3, <2>1 DEF CountInv, Waiting, Unserved
<1>9. CASE Put(p)
  <2>1. pc[p] = "put" /\ pc'[p] = "claimed" /\ UNCHANGED << server, seg, times >>
    BY <1>1, <1>9 DEF Put, Goto
  <2>2. ~ seg[p].done /\ ~ (server.for = p /\ server.pc = "done") /\ times[p] = 0
    BY <1>3, <1>4, <2>1 DEF Unanswered, ServedAt, Waiting, CountInv, Unserved
  <2> QED BY <1>3, <2>1, <2>2 DEF CountInv, Unserved
<1>10. CASE Release(p)
  <2>1. /\ \/ pc[p] = "claimed" /\ pc'[p] = "signal"
           \/ pc[p] = "lost" /\ pc'[p] = "look"
           \/ pc[p] = "withdrawn" /\ pc'[p] = "idle"
        /\ UNCHANGED << server, seg, times >>
    BY <1>1, <1>10 DEF Release, Goto, Return
  <2> QED BY <1>3, <2>1 DEF CountInv, Waiting, Unserved
<1>11. CASE Signal(p) \/ SeeDone(p)
  <2>1. /\ \/ pc[p] = "signal" /\ pc'[p] = "wait"
           \/ pc'[p] = "idle"
        /\ pc[p] # "dead" /\ UNCHANGED << server, seg, times >>
    BY <1>1, <1>11 DEF Signal, SeeDone, Goto, Return
  <2> QED BY <1>3, <2>1 DEF CountInv, Waiting, Unserved
<1>12. CASE GiveUp(p)
  <2>1. pc[p] = "wait" /\ pc'[p] = "relock" /\ ~ seg[p].done /\ server.for # p /\ UNCHANGED << server, seg, times >>
    BY <1>1, <1>12 DEF GiveUp, Goto
  <2> QED BY <1>3, <2>1 DEF CountInv, Waiting, Unserved
<1>13. CASE Withdraw(p) \/ Take(p)
  <2>1. pc[p] \in {"withdraw", "take"} /\ pc'[p] \in {"take", "withdrawn"} /\ UNCHANGED << server, seg, times >>
    BY <1>1, <1>13 DEF Withdraw, Take, Goto
  <2> QED BY <1>3, <2>1 DEF CountInv, Waiting, Unserved
<1> QED BY <1>5, <1>6, <1>7, <1>8, <1>9, <1>10, <1>11, <1>12, <1>13 DEF Client

LEMMA ServerCountKept ==
  ASSUME TInv, LInv, CInv, Server, crashes' = 0
  PROVE  init' /\ Up' /\ \A p \in Watched : CountInv(p)'
<1>1. /\ seg \in [Procs -> Segments] /\ server \in Places /\ times \in [Procs -> 0 .. 2] /\ Watched \subseteq Procs
      /\ crashes \in Nat
  BY ServiceQueueAssumption DEF TInv, TypeOK
<1>2. crashes = 0 /\ UNCHANGED << pc, result >>
  BY <1>1 DEF Server, Scan, Pass, PickUp, ReadCommand, Handle, SetDone, Clear, EndScan, Rescan,
              Reap, KillServer, Reinit, Reopen
<1>3. init /\ Up /\ \A p \in Watched : CountInv(p)
  BY <1>2 DEF CInv
<1>4. \A p \in Watched : Unanswered(p) /\ ServedAt(p)
  BY <1>1, <1>3 DEF LInv, LeftInv, Up
<1>5. CASE Pass \/ EndScan
  <2>1. UNCHANGED << init, seg, times >> /\ server.pc = "scan" /\ server'.pc \in {"scan", "check"}
    BY <1>1, <1>5 DEF Pass, EndScan, Places
  <2> QED BY <1>2, <1>3, <2>1 DEF CountInv, Waiting, Up
<1>6. CASE PickUp
  <2>1. UNCHANGED << init, times >> /\ server.pc = "scan" /\ server'.pc = "serve"
    BY <1>1, <1>6 DEF PickUp, Places
  <2>2. \A p \in Procs : seg'[p].done = seg[p].done
    BY <1>1, <1>6 DEF PickUp, Segments
  <2> QED BY <1>1, <1>2, <1>3, <2>1, <2>2 DEF CountInv, Waiting, Up
<1>7. CASE ReadCommand
  <2>1. /\ UNCHANGED << init, times, seg >> /\ server.pc = "serve" /\ server'.pc = "handle" /\ ~ server'.stale
        /\ server'.for = server.for
    BY <1>1, <1>7, Zenon DEF ReadCommand, Places
  <2> QED BY <1>1, <1>2, <1>3, <2>1 DEF CountInv, Waiting, Up
<1>8. CASE Handle
  <2>1. UNCHANGED init /\ server.pc = "handle" /\ server'.pc = "done" /\ server'.for = server.for
        /\ server.for \in Procs
    BY <1>1, <1>8, Zenon DEF Handle, Places, TInv, Serving
  <2>2. \A p \in Procs : seg'[p].done = seg[p].done
    BY <1>1, <1>8 DEF Handle, Segments
  <2>3. ASSUME NEW p \in Watched PROVE CountInv(p)'
    <3>1. CASE p = server.for /\ pc[p] # "dead"
      <4>1. Waiting(p) /\ ~ seg[p].done /\ ~ server.stale /\ times[p] = 0
        BY <1>3, <1>4, <2>1, <3>1 DEF ServedAt, CountInv
      <4>2. times' = [times EXCEPT ![p] = times[p] + 1]
        BY <1>8, <3>1, <4>1 DEF Handle
      <4>3. times'[p] = 1
        BY <1>1, <4>1, <4>2
      <4> QED BY <1>1, <1>2, <2>1, <2>2, <3>1, <4>1, <4>3 DEF CountInv, Waiting, Unserved
    <3>2. CASE p = server.for /\ pc[p] = "dead"
      BY <1>2, <2>1, <3>2 DEF CountInv, Waiting, Unserved
    <3>3. CASE p # server.for
      <4>1. times'[p] = times[p]
        BY <1>1, <1>8, <2>1, <3>3 DEF Handle
      <4> QED BY <1>1, <1>2, <1>3, <2>1, <2>2, <3>3, <4>1 DEF CountInv, Waiting
    <3> QED BY <3>1, <3>2, <3>3
  <2> QED BY <1>3, <2>1, <2>3 DEF Up
<1>9. CASE SetDone
  <2>1. UNCHANGED << init, times >> /\ server.pc = "done" /\ server'.pc = "clear" /\ server'.for = server.for
        /\ server.for \in Procs
    BY <1>1, <1>9 DEF SetDone, Places, TInv, Serving
  <2>2. seg'[server.for].done /\ \A p \in Procs : p # server.for => seg'[p] = seg[p]
    BY <1>1, <1>9, <2>1 DEF SetDone, Segments
  <2> QED BY <1>1, <1>2, <1>3, <2>1, <2>2 DEF CountInv, Waiting, Up
<1>10. CASE Clear
  <2>1. UNCHANGED << init, times, seg >> /\ server.pc = "clear"
    BY <1>10 DEF Clear
  <2>2. server'.pc \in {"scan", "check"}
    <3>1. \/ server' = [Scanning(0, 0) EXCEPT !.pc = "check"]
          \/ server' = Scanning(server.cur + 1, server.did + 1)
      BY <1>10 DEF Clear, AfterScan
    <3> QED BY <3>1 DEF Scanning
  <2> QED BY <1>2, <1>3, <2>1, <2>2 DEF CountInv, Waiting, Up
<1>11. CASE Rescan \/ \E q \in Procs : Reap(q)
  <2>1. UNCHANGED << init, times >> /\ server.pc = "check" /\ server'.pc = "scan"
    BY <1>11 DEF Rescan, Reap, Scanning
  <2>2. \A p \in Procs : seg'[p].done = seg[p].done
    BY <1>1, <1>11 DEF Rescan, Reap, Segments
  <2> QED BY <1>1, <1>2, <1>3, <2>1, <2>2 DEF CountInv, Waiting, Up
<1>12. CASE KillServer
  BY <1>1, <1>2, <1>12 DEF KillServer
<1>13. CASE Reinit \/ Reopen
  BY <1>3, <1>13 DEF Reinit, Reopen, Up
<1> QED BY <1>5, <1>6, <1>7, <1>8, <1>9, <1>10, <1>11, <1>12, <1>13 DEF Server, Scan

LEMMA CountInvariant == ASSUME Punctual PROVE Spec => [](TInv /\ LInv /\ CInv)
<1>1. Init => CInv
  BY ServiceQueueAssumption DEF Init, Scanning, CInv, CountInv, Waiting, Up, Unserved
<1>2. TInv /\ LInv /\ CInv /\ [Next]_vars => CInv'
  <2> SUFFICES ASSUME TInv, LInv, CInv, [Next]_vars, crashes' = 0
               PROVE  init' /\ Up' /\ \A p \in Watched : CountInv(p)'
    BY DEF CInv
  <2>1. CASE UNCHANGED vars
    BY <2>1 DEF vars, CInv, CountInv, Waiting, Up
  <2>2. CASE Server
    BY <2>2, ServerCountKept
  <2>3. ASSUME NEW p \in Procs, Client(p) PROVE init' /\ Up' /\ \A q \in Watched : CountInv(q)'
    <3>1. init' /\ Up'
      <4>1. UNCHANGED init
        BY <2>3 DEF Client, StartProc, Begin, BeginTooEarly, Look, NotFound, Acquire, Claim, Put, Release, Signal,
                    SeeDone, GiveUp, Withdraw, Take, Leave, KillProc
      <4> QED BY <2>3, <4>1, ClientFrame DEF CInv, Up
    <3> QED BY <2>3, <3>1, OtherCountKept, SelfCountKept
  <2> QED BY <2>1, <2>2, <2>3 DEF Next
<1> QED BY <1>1, <1>2, LeftInvariant, PTL DEF Spec

(* What RequestReply sees of a process does not change. *)
Same(p) == (Asking'[p] <=> Asking[p]) /\ Times'[p] = Times[p] /\ Result'[p] = Result[p]

(* A step that shows of one process at most is a step of RequestReply if   *)
(* it is one for that process.                                             *)
LEMMA StepOfOne ==
  ASSUME Stands, Stands', NEW p \in Procs, \A q \in Procs : q # p => Same(q),
         \/ Same(p)
         \/ ~ Asking[p] /\ Asking'[p] /\ Times'[p] = 0 /\ Result'[p] = Result[p]
         \/ Asking[p] /\ Asking'[p] /\ Times[p] = 0 /\ Times'[p] = 1 /\ Result'[p] = Result[p]
         \/ Asking[p] /\ ~ Asking'[p] /\ Times[p] = 1 /\ Times'[p] = 1 /\ Result'[p] = "good"
         \/ Asking[p] /\ ~ Asking'[p] /\ Times[p] = 0 /\ Times'[p] = 0 /\ Result'[p] = "failed"
         \/ ~ Asking'[p] /\ Times'[p] = 0 /\ Result'[p] = "none"
  PROVE  [Reply!Next]_(Reply!vars)
<1>1. /\ Asking = [q \in Procs |-> Asking[q]] /\ Asking' = [q \in Procs |-> Asking'[q]]
      /\ Times = [q \in Procs |-> Times[q]] /\ Times' = [q \in Procs |-> Times'[q]]
      /\ Result = [q \in Procs |-> Result[q]] /\ Result' = [q \in Procs |-> Result'[q]]
  BY DEF Asking, Times, Result
<1>2. \A q \in Procs : Asking[q] \in BOOLEAN /\ Asking'[q] \in BOOLEAN
  BY DEF Asking
<1>3. \A q \in Procs : q # p => Asking'[q] = Asking[q] /\ Times'[q] = Times[q] /\ Result'[q] = Result[q]
  BY <1>2 DEF Same
<1>4. \A b \in BOOLEAN : Asking'[p] = b => Asking' = [Asking EXCEPT ![p] = b]
  BY <1>1, <1>3
<1>5. \A t : Times'[p] = t => Times' = [Times EXCEPT ![p] = t]
  BY <1>1, <1>3
<1>6. \A r : Result'[p] = r => Result' = [Result EXCEPT ![p] = r]
  BY <1>1, <1>3
<1>7. Stands' = Stands
  BY DEF Stands
<1>8. CASE Same(p)
  <2>1. Asking' = Asking /\ Times' = Times /\ Result' = Result
    BY <1>1, <1>2, <1>3, <1>8 DEF Same
  <2> QED BY <1>7, <2>1 DEF Reply!vars
<1>9. CASE ~ Asking[p] /\ Asking'[p] /\ Times'[p] = 0 /\ Result'[p] = Result[p]
  <2>1. Asking' = [Asking EXCEPT ![p] = TRUE] /\ Times' = [Times EXCEPT ![p] = 0] /\ Result' = Result
    BY <1>1, <1>2, <1>3, <1>4, <1>5, <1>9
  <2>2. Reply!Ask(p)
    BY <1>9, <2>1 DEF Reply!Ask
  <2> QED BY <1>7, <2>2 DEF Reply!Next
<1>10. CASE Asking[p] /\ Asking'[p] /\ Times[p] = 0 /\ Times'[p] = 1 /\ Result'[p] = Result[p]
  <2>1. Asking' = Asking /\ Times' = [Times EXCEPT ![p] = 1] /\ Result' = Result
    BY <1>1, <1>2, <1>3, <1>5, <1>10
  <2>2. Reply!Answer(p)
    BY <1>10, <2>1 DEF Reply!Answer
  <2> QED BY <1>7, <2>2 DEF Reply!Next
<1>11. CASE Asking[p] /\ ~ Asking'[p] /\ Times[p] = 1 /\ Times'[p] = 1 /\ Result'[p] = "good"
  <2>1. Asking' = [Asking EXCEPT ![p] = FALSE] /\ Times' = Times /\ Result' = [Result EXCEPT ![p] = "good"]
    BY <1>1, <1>2, <1>3, <1>4, <1>6, <1>11
  <2>2. Reply!Succeed(p)
    BY <1>11, <2>1 DEF Reply!Succeed
  <2> QED BY <1>7, <2>2 DEF Reply!Next
<1>12. CASE Asking[p] /\ ~ Asking'[p] /\ Times[p] = 0 /\ Times'[p] = 0 /\ Result'[p] = "failed"
  <2>1. Asking' = [Asking EXCEPT ![p] = FALSE] /\ Times' = Times /\ Result' = [Result EXCEPT ![p] = "failed"]
    BY <1>1, <1>2, <1>3, <1>4, <1>6, <1>12
  <2>2. Reply!Fail(p)
    BY <1>12, <2>1 DEF Reply!Fail
  <2> QED BY <1>7, <2>2 DEF Reply!Next
<1>13. CASE ~ Asking'[p] /\ Times'[p] = 0 /\ Result'[p] = "none"
  <2>1. /\ Asking' = [Asking EXCEPT ![p] = FALSE] /\ Times' = [Times EXCEPT ![p] = 0]
        /\ Result' = [Result EXCEPT ![p] = "none"]
    BY <1>2, <1>4, <1>5, <1>6, <1>13
  <2>2. Reply!Vanish(p)
    BY <2>1 DEF Reply!Vanish
  <2> QED BY <1>7, <2>2 DEF Reply!Next
<1> QED BY <1>8, <1>9, <1>10, <1>11, <1>12, <1>13

LEMMA ClientReplies ==
  ASSUME Punctual, TInv, LInv, CInv, NEW p \in Procs, Client(p), crashes = 0
  PROVE  [Reply!Next]_(Reply!vars)
<1>1. /\ pc \in [Procs -> Labels] /\ times \in [Procs -> 0 .. 2]
      /\ result \in [Procs -> {"none", "GOOD", "TIMEOUT", "ENQUEUE", "INIT", "DIED"}]
  BY DEF TInv, TypeOK
<1>2. crashes' = 0
  BY ClientFrame
<1>3. ASSUME NEW q \in Procs, q # p PROVE Same(q)
  <2>1. pc'[q] = pc[q] /\ times'[q] = times[q] /\ result'[q] = result[q]
    BY <1>3, ClientFrame, ClientHistory
  <2>2. Promised(q)' <=> Promised(q)
    BY <1>2, <2>1 DEF Promised, Gone
  <2> QED BY <2>1, <2>2 DEF Same, Asking, Times, Result
<1>4. ASSUME p \notin Watched PROVE Same(p)
  BY <1>4 DEF Same, Promised, Asking, Times, Result
<1>5. ASSUME p \in Watched PROVE init /\ Up /\ CountInv(p)
  BY <1>5 DEF CInv
<1>6. ASSUME p \in Watched, ~ Gone(p), ~ Gone(p)'
      PROVE  /\ Asking[p] <=> pc[p] # "idle"
             /\ Asking'[p] <=> pc'[p] # "idle"
             /\ Times[p] = times[p] /\ Times'[p] = times'[p]
             /\ result'[p] = result[p] => Result'[p] = Result[p]
             /\ result'[p] = "GOOD" => Result'[p] = "good"
             /\ result'[p] \in {"TIMEOUT", "ENQUEUE", "INIT", "DIED"} => Result'[p] = "failed"
  <2>1. Promised(p) /\ Promised(p)'
    BY <1>2, <1>6 DEF Promised
  <2> QED BY <2>1 DEF Asking, Times, Result
<1>7. CASE p \in Watched /\ StartProc(p)
  <2>1. /\ pc[p] = "off" /\ pc'[p] = "idle" /\ UNCHANGED << times, result >>
        /\ times[p] = 0 /\ result[p] = "none"
    BY <1>1, <1>5, <1>7, Zenon DEF StartProc, Goto, CountInv
  <2>2. ~ Promised(p)
    BY <2>1 DEF Promised, Gone
  <2> QED BY <1>2, <1>3, <2>1, <2>2, StepOfOne DEF Stands, Same, Asking, Times, Result
<1>8. CASE p \in Watched /\ (Leave(p) \/ KillProc(p))
  <2>1. pc'[p] = "dead"
    BY <1>1, <1>8 DEF Leave, KillProc, Goto
  <2>2. ~ Promised(p)'
    BY <2>1 DEF Promised, Gone
  <2>3. ~ Asking'[p] /\ Times'[p] = 0 /\ Result'[p] = "none"
    BY <2>2 DEF Asking, Times, Result
  <2> QED BY <1>2, <1>3, <2>3, StepOfOne DEF Stands
<1>9. CASE p \in Watched /\ Begin(p)
  <2>1. pc[p] = "idle" /\ pc'[p] = "look" /\ times'[p] = 0 /\ UNCHANGED result
    BY <1>1, <1>9 DEF Begin, Goto
  <2> QED BY <1>2, <1>3, <1>6, <1>9, <2>1, StepOfOne DEF Stands, Gone
<1>10. CASE p \in Watched /\ BeginTooEarly(p)
  BY <1>5, <1>10 DEF BeginTooEarly
<1>11. CASE p \in Watched /\ (Look(p) \/ Acquire(p) \/ Claim(p) \/ Put(p) \/ GiveUp(p) \/ Withdraw(p) \/ Take(p))
  <2>1. /\ pc[p] \notin {"off", "idle", "dead"} /\ pc'[p] \notin {"off", "idle", "dead"}
        /\ UNCHANGED << times, result >>
    <3>1. CASE Look(p)
      BY <1>1, <3>1 DEF Look, Goto
    <3>2. CASE Acquire(p) \/ Claim(p) \/ Put(p)
      BY <1>1, <3>2 DEF Acquire, Claim, Put, Goto
    <3>3. CASE GiveUp(p) \/ Withdraw(p) \/ Take(p)
      BY <1>1, <3>3 DEF GiveUp, Withdraw, Take, Goto
    <3> QED BY <1>11, <3>1, <3>2, <3>3
  <2>2. Same(p)
    BY <1>6, <1>11, <2>1 DEF Gone, Same
  <2> QED BY <1>2, <1>3, <2>2, StepOfOne DEF Stands
<1>12. CASE p \in Watched /\ (NotFound(p) \/ (Release(p) /\ pc[p] = "withdrawn"))
  <2>1. /\ pc[p] \in {"look", "withdrawn"} /\ pc'[p] = "idle" /\ times' = times /\ times[p] = 0
        /\ result'[p] \in {"TIMEOUT", "ENQUEUE"}
    <3>1. CASE NotFound(p)
      BY <1>1, <1>5, <1>12, <3>1 DEF NotFound, Return, Goto, CountInv, Unserved
    <3>2. CASE Release(p) /\ pc[p] = "withdrawn"
      BY <1>1, <1>5, <1>12, <3>2 DEF Release, Return, Goto, CountInv, Unserved
    <3> QED BY <1>12, <3>1, <3>2
  <2> QED BY <1>2, <1>3, <1>6, <1>12, <2>1, StepOfOne DEF Stands, Gone
<1>13. CASE p \in Watched /\ Release(p) /\ pc[p] # "withdrawn"
  <2>1. /\ pc[p] \in {"claimed", "lost"} /\ pc'[p] \in {"signal", "look"} /\ UNCHANGED << times, result >>
    BY <1>1, <1>13 DEF Release, Goto
  <2>2. Same(p)
    BY <1>6, <1>13, <2>1 DEF Gone, Same
  <2> QED BY <1>2, <1>3, <2>2, StepOfOne DEF Stands
<1>14. CASE p \in Watched /\ Signal(p)
  <2>1. pc[p] = "signal" /\ pc'[p] = "wait" /\ UNCHANGED << times, result >>
    BY <1>1, <1>5, <1>14 DEF Signal, Goto, Up
  <2>2. Same(p)
    BY <1>6, <1>14, <2>1 DEF Gone, Same
  <2> QED BY <1>2, <1>3, <2>2, StepOfOne DEF Stands
<1>15. CASE p \in Watched /\ SeeDone(p)
  <2>1. pc[p] = "wait" /\ pc'[p] = "idle" /\ times' = times /\ times[p] = 1 /\ result'[p] = "GOOD"
    BY <1>1, <1>5, <1>15 DEF SeeDone, Return, Goto, CountInv, Waiting
  <2> QED BY <1>2, <1>3, <1>6, <1>15, <2>1, StepOfOne DEF Stands, Gone
<1>16. CASE p \notin Watched
  BY <1>2, <1>3, <1>4, <1>16, StepOfOne DEF Stands
<1> QED BY <1>7, <1>8, <1>9, <1>10, <1>11, <1>12, <1>13, <1>14, <1>15, <1>16 DEF Client

LEMMA ServerReplies ==
  ASSUME TInv, LInv, CInv, Server, crashes = 0
  PROVE  [Reply!Next]_(Reply!vars)
<1>1. times \in [Procs -> 0 .. 2] /\ server \in Places
  BY DEF TInv, TypeOK
<1>2. CASE UNCHANGED << times, crashes >>
  <2>1. UNCHANGED << pc, result >>
    BY DEF Server, Scan, Pass, PickUp, ReadCommand, Handle, SetDone, Clear, EndScan, Rescan, Reap,
           KillServer, Reinit, Reopen
  <2>2. \A p \in Procs : Promised(p)' <=> Promised(p)
    BY <1>2, <2>1 DEF Promised, Gone
  <2>3. Asking' = Asking /\ Times' = Times /\ Result' = Result /\ Stands' = Stands
    BY <1>2, <2>1, <2>2 DEF Asking, Times, Result, Stands
  <2> QED BY <2>3 DEF Reply!vars
<1>3. CASE Handle
  <2>1. PICK p \in Procs : p = server.for
    BY <1>3 DEF Handle, TInv, Serving
  <2>2. UNCHANGED << pc, result, crashes >> /\ server.pc = "handle" /\ p = server.for
    BY <1>3, <2>1 DEF Handle
  <2>3. ASSUME NEW q \in Procs, q # p PROVE Same(q)
    <3>1. times'[q] = times[q]
      BY <1>1, <1>3, <2>2, <2>3 DEF Handle
    <3>2. Promised(q)' <=> Promised(q)
      BY <2>2 DEF Promised, Gone
    <3> QED BY <2>2, <3>1, <3>2 DEF Same, Asking, Times, Result
  <2>4. Promised(p)' <=> Promised(p)
    BY <2>2 DEF Promised, Gone
  <2>5. CASE ~ Promised(p)
    <3>1. Same(p)
      BY <2>2, <2>4, <2>5 DEF Same, Asking, Times, Result
    <3> QED BY <2>2, <2>3, <3>1, StepOfOne DEF Stands
  <2>6. CASE Promised(p)
    <3>1. p \in Watched /\ pc[p] # "dead" /\ CountInv(p) /\ ServedAt(p)
      BY <2>2, <2>6 DEF Promised, Gone, CInv, LInv, LeftInv
    <3>2. Waiting(p) /\ ~ seg[p].done /\ ~ server.stale /\ times[p] = 0
      BY <2>2, <3>1 DEF ServedAt, CountInv
    <3>3. times' = [times EXCEPT ![p] = times[p] + 1]
      BY <1>3, <2>2, <3>1, <3>2 DEF Handle
    <3>4. times'[p] = 1
      BY <1>1, <2>2, <3>2, <3>3
    <3>5. Asking[p] /\ Asking'[p] /\ Times[p] = 0 /\ Times'[p] = 1 /\ Result'[p] = Result[p]
      BY <2>2, <2>4, <2>6, <3>2, <3>4 DEF Waiting, Asking, Times, Result
    <3> QED BY <2>2, <2>3, <3>5, StepOfOne DEF Stands
  <2> QED BY <2>5, <2>6
<1>4. CASE KillServer
  <2>1. crashes' = 1 /\ \A p \in Procs : ~ Promised(p)'
    BY <1>4 DEF KillServer, Promised
  <2>2. /\ Asking' = [p \in Procs |-> FALSE] /\ Times' = [p \in Procs |-> 0]
        /\ Result' = [p \in Procs |-> "none"]
    BY <2>1, Zenon DEF Asking, Times, Result
  <2>3. Stands' = FALSE
    BY <2>1 DEF Stands
  <2> QED BY <2>2, <2>3 DEF Reply!Collapse, Reply!Next
<1> QED BY <1>2, <1>3, <1>4 DEF Server, Scan, Pass, PickUp, ReadCommand, SetDone, Clear, EndScan, Rescan, Reap, Reinit, Reopen

(* After the first crash nothing is promised any more. *)
LEMMA NothingPromised ==
  ASSUME TInv, [Next]_vars, crashes # 0
  PROVE  UNCHANGED Reply!vars
<1>1. crashes' # 0
  <2>1. crashes' = crashes \/ crashes' = crashes + 1
    <3>1. CASE Server
      BY <3>1 DEF Server, Scan, Pass, PickUp, ReadCommand, Handle, SetDone, Clear, EndScan, Rescan, Reap,
                  KillServer, Reinit, Reopen
    <3>2. CASE \E p \in Procs : Client(p)
      BY <3>2, ClientFrame
    <3>3. CASE UNCHANGED vars
      BY <3>3 DEF vars
    <3> QED BY <3>1, <3>2, <3>3 DEF Next
  <2> QED BY <2>1 DEF TInv, TypeOK
<1>2. \A p \in Procs : ~ Promised(p) /\ ~ Promised(p)'
  BY <1>1 DEF Promised
<1>3. Asking' = Asking /\ Times' = Times /\ Result' = Result /\ Stands' = Stands
  BY <1>1, <1>2 DEF Asking, Times, Result, Stands
<1> QED BY <1>3 DEF Reply!vars

(* If no service outlasts the wait of its client, then, until the server   *)
(* is killed, a call that succeeds has been carried out exactly once and   *)
(* one that fails has not been and will not be, whoever else calls or is   *)
(* killed meanwhile (service.c, cs_svc; comserv_subs.c, comserv_scan).     *)
THEOREM RefinesRequestReply == ASSUME Punctual PROVE Spec => ImplementsRequestReply
<1>1. Init => Reply!Init
  <2> SUFFICES ASSUME Init PROVE Reply!Init
    OBVIOUS
  <2>1. Stands /\ \A p \in Procs : ~ Promised(p)
    BY DEF Init, Stands, Promised, Gone
  <2>2. Asking = [p \in Procs |-> FALSE] /\ Times = [p \in Procs |-> 0] /\ Result = [p \in Procs |-> "none"]
    BY <2>1 DEF Asking, Times, Result
  <2> QED BY <2>1, <2>2 DEF Reply!Init, Stands
<1>2. TInv /\ LInv /\ CInv /\ [Next]_vars => [Reply!Next]_(Reply!vars)
  <2> SUFFICES ASSUME TInv, LInv, CInv, [Next]_vars PROVE [Reply!Next]_(Reply!vars)
    OBVIOUS
  <2>1. CASE crashes # 0
    BY <2>1, NothingPromised
  <2>2. CASE crashes = 0 /\ Server
    BY <2>2, ServerReplies
  <2>3. CASE crashes = 0 /\ \E p \in Procs : Client(p)
    BY <2>3, ClientReplies
  <2>4. CASE UNCHANGED vars
    <3>1. Asking' = Asking /\ Times' = Times /\ Result' = Result /\ Stands' = Stands
      BY <2>4 DEF vars, Asking, Times, Result, Stands, Promised, Gone
    <3> QED BY <3>1 DEF Reply!vars
  <2> QED BY <2>1, <2>2, <2>3, <2>4 DEF Next
<1> QED BY <1>1, <1>2, CountInvariant, PTL DEF Spec, ImplementsRequestReply, Reply!Spec
==============================================================================
