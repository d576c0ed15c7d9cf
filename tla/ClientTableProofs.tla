--------------------------- MODULE ClientTableProofs ---------------------------
(***************************************************************************)
(* Proofs about ClientTable for tables of any length, any configuration    *)
(* that fits, any programs and processes: a process has one entry, and     *)
(* its place in the data moves with it.                                    *)
(***************************************************************************)
EXTENDS ClientTable, FiniteSetTheorems, WellFoundedInduction, TLAPS

Place == [scan : -1 .. MaxRecords, top : BOOLEAN]

Entry == [name : Programs \cup {""}, memid : Procs \cup {NoProc}, attached : BOOLEAN, quiet : BOOLEAN, last : Place]

Segment == [state : {"new", "live", "dead"}, asking : BOOLEAN,
            want : {"ATTACH", "FIRST", "NEXT"}, next_data : 0 .. MaxRecords]

(* Whoever is attached is a process, which was started. *)
Attached ==
  /\ \A i \in Places : clients[i].attached => clients[i].memid \in Procs
  /\ \A i \in InUse : clients[i].attached => seg[clients[i].memid].state # "new"
  /\ highclient = 0 => ~ clients[0].attached

(* The processes of a program follow each other. *)
InTurn ==
  \A p \in Procs :
    /\ seg[p].state = "new" => ~ seg[p].asking /\ seg[p].want = "ATTACH"
    /\ seg[p].state # "new" => \A q \in Earlier(p) : seg[q].state = "dead" /\ ~ seg[q].asking

(* The entry i of p, and where its next request goes on from: not past     *)
(* what p was given.                                                       *)
Holds(i, p) ==
  /\ clients[i].memid = p /\ clients[i].attached
  /\ seg[p].want = "NEXT" => clients[i].last.scan <= seg[p].next_data

(* A process that was served and not dropped, and can still ask, has one.  *)
Held ==
  \A p \in Procs \ dropped :
    (seg[p].state = "live" \/ seg[p].asking) /\ seg[p].want # "ATTACH" => \E i \in InUse : Holds(i, p)

TableInv == TypeOK /\ OneEntryEach /\ Attached /\ InTurn /\ Held
------------------------------------------------------------------------------
LEMMA Sizes ==
  /\ MaxClients \in Nat /\ MaxClients > 0 /\ MaxRecords \in Nat
  /\ 0 \in 0 .. MaxRecords /\ -1 \in -1 .. MaxRecords /\ 0 \in Places
  /\ \A p \in Procs : Name(p) \in Programs /\ p[2] \in Nat /\ p = << p[1], p[2] >>
BY ClientTableAssumption DEF Name, Places

(* The reserved entries are the first of the table. *)
LEMMA Reserved ==
  ASSUME NEW r \in Configured
  PROVE  Cardinality(DOMAIN r) \in 0 .. MaxClients /\ \A i \in DOMAIN r : i \in Nat /\ r[i] \in Programs
<1>1. PICK n \in 0 .. MaxClients : r \in [0 .. n - 1 -> Programs]
  BY ClientTableAssumption
<1>2. n \in Nat /\ DOMAIN r = 0 .. n - 1
  BY <1>1, Sizes
<1>3. Cardinality(0 .. n - 1) = n
  <2>1. 0 \in Int /\ n - 1 \in Int
    BY <1>2
  <2>2. Cardinality(0 .. n - 1) = IF 0 > n - 1 THEN 0 ELSE (n - 1) - 0 + 1
    BY <2>1, FS_Interval, Zenon
  <2> QED BY <1>2, <2>2
<1> QED BY <1>1, <1>2, <1>3

LEMMA Types ==
  ASSUME TypeOK
  PROVE  /\ clients \in [Places -> Entry] /\ seg \in [Procs -> Segment]
         /\ resclient \in Nat /\ resclient <= MaxClients
         /\ highclient \in Nat /\ resclient <= highclient /\ highclient <= MaxClients
         /\ clientpoll \in Places /\ nextRec \in 0 .. MaxRecords /\ dropped \subseteq Procs
         /\ reserved \in Configured /\ InUse \subseteq Places
<1>1. reserved \in Configured
  BY DEF TypeOK
<1>2. resclient \in 0 .. MaxClients
  BY <1>1, Reserved DEF resclient
<1>3. highclient \in resclient .. MaxClients
  BY DEF TypeOK
<1> HIDE DEF resclient
<1>4. clients \in [Places -> Entry] /\ seg \in [Procs -> Segment]
  BY DEF TypeOK, Entry, Place, Segment
<1>5. clientpoll \in Places /\ nextRec \in 0 .. MaxRecords /\ dropped \subseteq Procs
  BY DEF TypeOK
<1> QED BY <1>1, <1>2, <1>3, <1>4, <1>5, Sizes DEF InUse, Places

LEMMA FirstOf ==
  ASSUME NEW S \in SUBSET Nat, S # {}
  PROVE  First(S) \in S
<1> DEFINE R == OpToRel(<, Nat)
<1>1. IsWellFoundedOn(R, Nat)
  BY NatLessThanWellFounded
<1>2. PICK i \in S : \A j \in S : << j, i >> \notin R
  <2> HIDE DEF R
  <2> QED BY <1>1, WFMin
<1>3. \A j \in S : ~ (j < i)
  BY <1>2 DEF OpToRel
<1>4. \E n \in S : \A j \in S : n <= j
  BY <1>3
<1> QED BY <1>4, Zenon DEF First

(* The entry that a request of p is served at: its own, one free to take   *)
(* or of a predecessor, or one behind those in use.                        *)
LEMMA WhereServed ==
  ASSUME TypeOK, NEW p \in Procs, NEW i, i = EntryFor(p)
  PROVE  \/ i \in Known(p)
         \/ Known(p) = {} /\ i \in Named(p)
         \/ Known(p) = {} /\ i = highclient
<1>1. Known(p) \subseteq Nat /\ Named(p) \subseteq Nat
  BY Types DEF Known, Named, InUse, Places
<1>2. CASE Known(p) # {}
  BY <1>1, <1>2, FirstOf DEF EntryFor
<1>3. CASE Known(p) = {} /\ Named(p) # {}
  BY <1>1, <1>3, FirstOf DEF EntryFor
<1>4. CASE Known(p) = {} /\ Named(p) = {}
  BY <1>4 DEF EntryFor
<1> QED BY <1>2, <1>3, <1>4

(* client_handler goes from a place that is not past what the client was   *)
(* given to one that is not, and on by one record at most.                 *)
LEMMA PlaceAfter ==
  ASSUME TypeOK, NEW p \in Procs, NEW last \in Place
  PROVE  /\ LastAfter(p, last) \in Place
         /\ NextAfter(p, last) \in 0 .. MaxRecords
         /\ seg[p].want = "FIRST" => LastAfter(p, last).scan <= NextAfter(p, last)
         /\ seg[p].want = "NEXT" /\ last.scan <= seg[p].next_data =>
              /\ LastAfter(p, last).scan <= NextAfter(p, last)
              /\ NextAfter(p, last) <= seg[p].next_data + 1
<1> DEFINE n == seg[p].next_data
           from == WalkFrom(last)
           to == WalkTo(p, last)
<1>1. /\ nextRec \in Int /\ 0 <= nextRec /\ nextRec <= MaxRecords /\ MaxRecords \in Nat
      /\ n \in Int /\ 0 <= n /\ n <= MaxRecords
      /\ seg[p].want \in {"ATTACH", "FIRST", "NEXT"}
      /\ last.scan \in Int /\ -1 <= last.scan /\ last.scan <= MaxRecords
  BY Types, Sizes DEF Segment, Place
<1>2. from \in Int /\ 0 <= from /\ from <= MaxRecords /\ (from = last.scan \/ from = 0)
  BY <1>1 DEF WalkFrom
<1>3. to = IF from < n THEN n ELSE from
  BY DEF WalkTo
<1> HIDE DEF from, n
<1>4. to \in Int /\ 0 <= to /\ to <= MaxRecords /\ n <= to /\ (last.scan <= n => to = n)
  BY <1>1, <1>2, <1>3
<1> HIDE DEF to
<1>5. CASE seg[p].want = "ATTACH"
  BY <1>1, <1>5 DEF LastAfter, NextAfter, n
<1>6. CASE seg[p].want = "FIRST"
  <2>1. LastAfter(p, last) = NoLast /\ NoLast \in Place /\ NoLast.scan = -1
    BY <1>1, <1>6 DEF LastAfter, NoLast, Place
  <2>2. NextAfter(p, last) = IF 0 < nextRec THEN 1 ELSE n
    BY <1>6 DEF NextAfter, ReadFrom, n
  <2>3. NextAfter(p, last) \in 0 .. MaxRecords
    BY <1>1, <2>2
  <2> QED BY <1>6, <2>1, <2>3
<1>7. CASE seg[p].want = "NEXT"
  <2>1. LastAfter(p, last) = IF to = from THEN last ELSE [scan |-> to, top |-> to = nextRec]
    BY <1>7 DEF LastAfter, to, from
  <2>2. NextAfter(p, last) = IF to < nextRec THEN to + 1 ELSE n
    BY <1>7 DEF NextAfter, ReadFrom, to, n
  <2>3. NextAfter(p, last) \in 0 .. MaxRecords
    BY <1>1, <1>4, <2>2
  <2>4. LastAfter(p, last) \in Place
    BY <1>1, <1>4, <2>1 DEF Place
  <2>5. ASSUME last.scan <= n
        PROVE  LastAfter(p, last).scan <= NextAfter(p, last) /\ NextAfter(p, last) <= n + 1
    <3>1. to = n
      BY <1>4, <2>5
    <3>2. LastAfter(p, last).scan <= n
      BY <1>1, <2>1, <2>5, <3>1
    <3>3. LastAfter(p, last).scan \in Int
      BY <1>1, <1>4, <2>1
    <3>4. n <= NextAfter(p, last) /\ NextAfter(p, last) <= n + 1 /\ NextAfter(p, last) \in Int
      BY <1>1, <2>2, <3>1
    <3> QED BY <1>1, <3>2, <3>3, <3>4
  <2> QED BY <1>7, <2>3, <2>4, <2>5 DEF n
<1> QED BY <1>1, <1>5, <1>6, <1>7
------------------------------------------------------------------------------
LEMMA EntryTyped ==
  ASSUME NEW name \in Programs \cup {""}, NEW m \in Procs \cup {NoProc}, NEW a \in BOOLEAN, NEW q \in BOOLEAN,
         NEW last \in Place
  PROVE  [name |-> name, memid |-> m, attached |-> a, quiet |-> q, last |-> last] \in Entry
BY DEF Entry

LEMMA TableInit ==
  ASSUME Init
  PROVE  TableInv
<1>1. reserved \in Configured /\ resclient \in 0 .. MaxClients /\ highclient = resclient
  BY Reserved DEF Init, resclient
<1>2. \A i \in Places : clients[i] = Unused(IF i \in DOMAIN reserved THEN reserved[i] ELSE "")
  BY DEF Init
<1>3. \A i \in DOMAIN reserved : reserved[i] \in Programs
  BY <1>1, Reserved
<1>4. ASSUME NEW i \in Places PROVE clients[i] \in Entry /\ ~ clients[i].attached
  <2> DEFINE name == IF i \in DOMAIN reserved THEN reserved[i] ELSE ""
  <2>1. name \in Programs \cup {""}
    BY <1>3
  <2>2. clients[i] = Unused(name)
    BY <1>2
  <2> HIDE DEF name
  <2>3. NoLast \in Place
    BY Sizes DEF NoLast, Place
  <2>4. Unused(name) = [name |-> name, memid |-> NoProc, attached |-> FALSE, quiet |-> FALSE, last |-> NoLast]
    BY DEF Unused
  <2>5. Unused(name) \in Entry
    <3>1. NoProc \in Procs \cup {NoProc} /\ FALSE \in BOOLEAN
      OBVIOUS
    <3> QED BY <2>1, <2>3, <2>4, <3>1, EntryTyped
  <2>6. ~ Unused(name).attached
    BY <2>4
  <2> QED BY <2>2, <2>5, <2>6
<1>5. TypeOK
  <2>1. clients \in [Places -> Entry]
    BY <1>4 DEF Init
  <2>2. seg \in [Procs -> Segment]
    BY Sizes DEF Init, Segment
  <2>3. highclient \in resclient .. MaxClients
    <3>1. resclient \in Int /\ resclient <= MaxClients /\ MaxClients \in Int
      BY <1>1, Sizes
    <3>2. resclient \in resclient .. MaxClients
      <4> HIDE DEF resclient
      <4> QED BY <3>1
    <3> QED BY <1>1, <3>2
  <2>4. clientpoll \in Places /\ nextRec \in 0 .. MaxRecords /\ dropped \subseteq Procs
    BY Sizes DEF Init
  <2> QED BY <1>1, <2>1, <2>2, <2>3, <2>4 DEF TypeOK, Entry, Place, Segment
<1>6. InUse \subseteq Places /\ \A i \in InUse : i < resclient
  BY <1>1, Types, <1>5 DEF InUse
<1>7. OneEntryEach
  <2>1. \A i \in InUse : ~ (i >= resclient)
    BY <1>1 DEF InUse
  <2> QED BY <1>4, <1>6, <2>1 DEF OneEntryEach
<1>8. Attached
  <2>1. 0 \in Places
    BY Sizes DEF Places
  <2> QED BY <1>4, <1>6, <2>1 DEF Attached
<1>9. InTurn /\ Held
  BY DEF Init, InTurn, Held
<1> QED BY <1>5, <1>7, <1>8, <1>9 DEF TableInv

(* Processes start, ask and end; time goes by and records come. *)
LEMMA QuietStep ==
  ASSUME TableInv,
         \/ NewRecord
         \/ \E p \in Procs : Start(p) \/ Ask(p) \/ End(p) \/ Refused(p)
         \/ \E i \in Places : FallQuiet(i)
  PROVE  TableInv'
<1>0. TypeOK /\ OneEntryEach /\ Attached /\ InTurn /\ Held
  BY DEF TableInv
<1>1. /\ clients \in [Places -> Entry] /\ seg \in [Procs -> Segment] /\ InUse \subseteq Places
      /\ nextRec \in 0 .. MaxRecords
  BY <1>0, Types
<1>2. /\ UNCHANGED << reserved, highclient, clientpoll, dropped >> /\ nextRec' \in 0 .. MaxRecords
  <2>1. CASE NewRecord
    <3>1. nextRec + 1 \in 0 .. MaxRecords
      BY <1>1, <2>1, Sizes DEF NewRecord
    <3> QED BY <2>1, <3>1 DEF NewRecord
  <2> QED BY <1>1, <2>1 DEF Start, Ask, End, Refused, FallQuiet
<1>3. /\ clients' \in [Places -> Entry]
      /\ \A i \in Places : /\ clients'[i].name = clients[i].name /\ clients'[i].memid = clients[i].memid
                           /\ clients'[i].attached = clients[i].attached /\ clients'[i].last = clients[i].last
  <2>1. CASE \E i \in Places : FallQuiet(i)
    <3>1. PICK k \in Places : clients' = [clients EXCEPT ![k].quiet = TRUE]
      BY <2>1 DEF FallQuiet
    <3>2. clients' = [clients EXCEPT ![k] = [clients[k] EXCEPT !.quiet = TRUE]] /\ clients[k] \in Entry
      BY <1>1, <3>1
    <3>3. [clients[k] EXCEPT !.quiet = TRUE] \in Entry
      BY <3>2 DEF Entry
    <3> QED BY <1>1, <3>2, <3>3 DEF Entry
  <2>2. CASE clients' = clients
    BY <1>1, <2>2
  <2> QED BY <2>1, <2>2 DEF NewRecord, Start, Ask, End, Refused
<1>4. /\ seg' \in [Procs -> Segment]
      /\ \A p \in Procs :
           /\ seg'[p].want = seg[p].want /\ seg'[p].next_data = seg[p].next_data
           /\ seg[p].state # "new" => seg'[p].state # "new"
           /\ (seg[p].state = "dead" => seg'[p].state = "dead")
           /\ seg[p].state # "live" /\ ~ seg[p].asking /\ seg'[p].state # "live" => ~ seg'[p].asking
           /\ seg'[p].state = "new" => seg[p].state = "new"
           /\ seg[p].state = "new" /\ seg'[p].state # "new" =>
                \A q \in Earlier(p) : seg[q].state = "dead" /\ ~ seg[q].asking
           /\ seg[p].state # "new" => (seg'[p].state = "live" \/ seg'[p].asking => seg[p].state = "live" \/ seg[p].asking)
  <2>1. ASSUME NEW p \in Procs, Start(p) \/ Ask(p) \/ End(p) \/ Refused(p)
        PROVE  /\ seg' \in [Procs -> Segment]
               /\ \A q \in Procs : q # p => seg'[q] = seg[q]
               /\ seg'[p].want = seg[p].want /\ seg'[p].next_data = seg[p].next_data
               /\ \/ /\ seg[p].state = "new" /\ seg'[p].state = "live" /\ seg'[p].asking = seg[p].asking
                     /\ \A q \in Earlier(p) : seg[q].state = "dead" /\ ~ seg[q].asking
                  \/ seg[p].state = "live" /\ seg'[p].state \in {"live", "dead"}
                  \/ seg'[p].state = seg[p].state /\ ~ seg'[p].asking
    <3>0. seg[p] \in Segment
      BY <1>1
    <3>1. CASE Start(p)
      BY <1>1, <3>0, <3>1 DEF Start, Segment
    <3>2. CASE Ask(p)
      BY <1>1, <3>0, <3>2 DEF Ask, Segment
    <3>3. CASE End(p)
      BY <1>1, <3>0, <3>3 DEF End, Segment
    <3>4. CASE Refused(p)
      BY <1>1, <3>0, <3>4 DEF Refused, Segment
    <3> QED BY <2>1, <3>1, <3>2, <3>3, <3>4
  <2>2. CASE seg' = seg
    BY <1>1, <2>2
  <2>3. CASE \E p \in Procs : Start(p) \/ Ask(p) \/ End(p) \/ Refused(p)
    BY <1>1, <2>1, <2>3
  <2> QED BY <2>2, <2>3 DEF NewRecord, FallQuiet
<1>5. TypeOK'
  BY <1>0, <1>2, <1>3, <1>4 DEF TypeOK, Entry, Place, Segment, resclient
<1>6. OneEntryEach'
  BY <1>0, <1>1, <1>2, <1>3 DEF OneEntryEach, InUse, resclient
<1>7. Attached'
  <2>1. \A i \in Places : clients'[i].attached => clients'[i].memid \in Procs
    BY <1>0, <1>3 DEF Attached
  <2>2. ASSUME NEW i \in InUse, clients'[i].attached PROVE seg'[clients'[i].memid].state # "new"
    <3>1. i \in Places /\ clients'[i].memid = clients[i].memid /\ clients[i].attached
      BY <1>1, <1>3, <2>2
    <3> QED BY <1>0, <1>4, <3>1 DEF Attached
  <2>3. highclient = 0 => ~ clients'[0].attached
    BY <1>0, <1>3, Sizes DEF Attached
  <2> QED BY <1>2, <2>1, <2>2, <2>3 DEF Attached, InUse
<1>8. InTurn'
  BY <1>0, <1>1, <1>4 DEF InTurn, Earlier, Segment
<1>9. Held'
  <2> SUFFICES ASSUME NEW p \in Procs \ dropped, seg'[p].state = "live" \/ seg'[p].asking, seg'[p].want # "ATTACH"
               PROVE  \E i \in InUse : Holds(i, p)'
    BY <1>2 DEF Held, InUse
  <2>1. (seg[p].state = "live" \/ seg[p].asking) /\ seg[p].want # "ATTACH" /\ seg'[p].want = seg[p].want
    BY <1>0, <1>4 DEF InTurn
  <2>2. PICK i \in InUse : Holds(i, p)
    BY <1>0, <2>1 DEF Held
  <2>3. Holds(i, p)'
    BY <1>1, <1>3, <1>4, <2>2 DEF Holds
  <2> QED BY <2>3
<1> QED BY <1>5, <1>6, <1>7, <1>8, <1>9 DEF TableInv

(* comserv_scan serves p at entry i. *)
LEMMA ServedStep ==
  ASSUME TableInv, NEW p \in Procs, Served(p)
  PROVE  TableInv' /\ (p \notin dropped => GoesOn(p)) /\ \A q \in Procs \ {p} : GoesOn(q)
<1>0. TypeOK /\ OneEntryEach /\ Attached /\ InTurn /\ Held
  BY DEF TableInv
<1> DEFINE i == EntryFor(p)
           last == LastAfter(p, clients[i].last)
           next == NextAfter(p, clients[i].last)
           want == IF seg[p].want = "ATTACH" THEN "FIRST" ELSE "NEXT"
<1>1. /\ clients \in [Places -> Entry] /\ seg \in [Procs -> Segment] /\ InUse \subseteq Places
      /\ highclient \in Nat /\ highclient <= MaxClients /\ resclient \in Nat /\ resclient <= highclient
      /\ MaxClients \in Nat /\ InUse = 0 .. highclient - 1 /\ Places = 0 .. MaxClients - 1
  BY <1>0, Types, Sizes DEF InUse, Places
<1>2. \/ i \in Known(p)
      \/ Known(p) = {} /\ i \in Named(p)
      \/ Known(p) = {} /\ i = highclient
  BY <1>0, WhereServed
<1>3. /\ seg[p].asking /\ i < MaxClients
      /\ clients' = [clients EXCEPT ![i] = Entered(p, LastAfter(p, @.last))]
      /\ highclient' = IF i = highclient THEN highclient + 1 ELSE highclient
      /\ seg' = [seg EXCEPT ![p].asking = FALSE, ![p].want = IF @ = "ATTACH" THEN "FIRST" ELSE "NEXT",
                            ![p].next_data = next]
      /\ UNCHANGED << reserved, clientpoll, nextRec, dropped >>
  BY DEF Served
<1> HIDE DEF i
<1>4. i \in Places /\ (i \in InUse \/ i = highclient)
  BY <1>1, <1>2, <1>3 DEF Known, Named
<1>5. clients[i].last \in Place
  BY <1>1, <1>4 DEF Entry
<1>6. last \in Place /\ next \in 0 .. MaxRecords
  BY <1>0, <1>5, PlaceAfter
<1>7. \A j \in Places : clients'[j] = IF j = i THEN Entered(p, last) ELSE clients[j]
  BY <1>1, <1>3, <1>4
<1>8. /\ \A q \in Procs : q # p => seg'[q] = seg[q]
      /\ seg'[p] = [state |-> seg[p].state, asking |-> FALSE, want |-> want, next_data |-> next]
  <2> HIDE DEF next
  <2> QED BY <1>1, <1>3 DEF Segment
<1> HIDE DEF last, next
<1>15. InUse' = InUse \cup {i} /\ highclient' \in Nat /\ highclient <= highclient' /\ highclient' <= MaxClients
       /\ 0 < highclient'
  <2> DEFINE h == IF i = highclient THEN highclient + 1 ELSE highclient
  <2>1. h \in Nat /\ highclient <= h /\ h <= MaxClients /\ 0 < h /\ 0 .. h - 1 = (0 .. highclient - 1) \cup {i}
    BY <1>1, <1>3, <1>4
  <2>2. highclient' = h
    BY <1>3
  <2> HIDE DEF h
  <2>3. InUse' = 0 .. h - 1
    BY <2>2, Zenon DEF InUse
  <2> QED BY <1>1, <2>1, <2>2, <2>3
<1>16. \A j \in InUse : j # i /\ clients[j].attached => clients[j].memid # p
  BY <1>0, <1>2, <1>4 DEF OneEntryEach, Known
<1>17. ASSUME i \in InUse, clients[i].attached, clients[i].memid # p
       PROVE  seg[clients[i].memid].state = "dead" /\ ~ seg[clients[i].memid].asking
  <2> DEFINE q == clients[i].memid
  <2>1. i \in Named(p)
    BY <1>1, <1>2, <1>17 DEF Known, InUse
  <2>2. clients[i].name = Name(p) /\ q \in Procs /\ clients[i].name = Name(q) /\ seg[q].state # "new"
    BY <1>0, <1>4, <1>17, <2>1 DEF Named, OneEntryEach, Attached
  <2>3. q # p /\ seg[p].state # "new"
    BY <1>0, <1>3, <1>17 DEF InTurn
  <2> HIDE DEF q
  <2>4. q[1] = p[1] /\ q[2] # p[2] /\ q[2] \in Nat /\ p[2] \in Nat
    BY <2>2, <2>3, Sizes DEF Name
  <2>5. CASE q[2] < p[2]
    BY <1>0, <2>2, <2>3, <2>4, <2>5 DEF InTurn, Earlier, q
  <2>6. CASE p[2] < q[2]
    BY <1>0, <1>3, <2>2, <2>4, <2>6 DEF InTurn, Earlier
  <2> QED BY <2>4, <2>5, <2>6
<1>18. Entered(p, last) = [name |-> Name(p), memid |-> p, attached |-> TRUE, quiet |-> FALSE, last |-> last]
  BY DEF Entered
<1>21. seg[p].state # "new"
  BY <1>0, <1>3 DEF InTurn
<1>9. TypeOK'
  <2>1. Entered(p, last) \in Entry
    <3>1. Name(p) \in Programs \cup {""} /\ p \in Procs \cup {NoProc} /\ TRUE \in BOOLEAN /\ FALSE \in BOOLEAN
      BY Sizes
    <3> QED BY <1>6, <1>18, <3>1, EntryTyped
  <2>2. clients' \in [Places -> Entry]
    BY <1>1, <1>3, <1>4, <1>7, <2>1 DEF last
  <2>3. seg' \in [Procs -> Segment]
    <3>1. seg'[p] \in Segment
      <4>1. want \in {"ATTACH", "FIRST", "NEXT"} /\ seg[p].state \in {"new", "live", "dead"}
        BY <1>1 DEF Segment
      <4> QED BY <1>6, <1>8, <4>1 DEF Segment
    <3>2. seg' = [q \in Procs |-> seg'[q]]
      BY <1>1, <1>3
    <3> QED BY <1>1, <1>8, <3>1, <3>2
  <2>4. highclient' \in resclient .. MaxClients
    BY <1>1, <1>15
  <2> QED BY <1>0, <1>3, <2>2, <2>3, <2>4 DEF TypeOK, Entry, Place, Segment, resclient
<1>10. OneEntryEach'
  <2>1. \A j \in InUse' : clients'[j].attached /\ j # i => clients'[j] = clients[j] /\ j \in InUse
    BY <1>1, <1>4, <1>7, <1>15
  <2>2. ASSUME NEW j \in InUse', NEW k \in InUse', clients'[j].attached, clients'[k].attached,
               clients'[j].memid = clients'[k].memid
        PROVE  j = k
    BY <1>0, <1>4, <1>7, <1>16, <1>18, <2>1, <2>2 DEF OneEntryEach
  <2>3. ASSUME NEW j \in InUse', clients'[j].attached PROVE clients'[j].name = Name(clients'[j].memid)
    BY <1>0, <1>4, <1>7, <1>18, <2>1, <2>3 DEF OneEntryEach
  <2>4. ASSUME NEW j \in InUse', j >= resclient PROVE clients'[j].attached
    <3>1. CASE j = i
      BY <1>4, <1>7, <1>18, <3>1
    <3>2. CASE j # i
      <4>1. j \in InUse /\ j \in Places
        BY <1>1, <1>15, <3>2
      <4> QED BY <1>0, <1>7, <2>4, <3>2, <4>1 DEF OneEntryEach
    <3> QED BY <3>1, <3>2
  <2> QED BY <1>3, <2>2, <2>3, <2>4 DEF OneEntryEach, Name, resclient
<1>11. Attached'
  <2>1. \A j \in Places : clients'[j].attached => clients'[j].memid \in Procs
    BY <1>0, <1>7, <1>18 DEF Attached
  <2>2. ASSUME NEW j \in InUse', clients'[j].attached PROVE seg'[clients'[j].memid].state # "new"
    <3>1. CASE j = i
      <4>1. clients'[j].memid = p /\ seg'[p].state = seg[p].state
        BY <1>4, <1>7, <1>8, <1>18, <3>1
      <4> QED BY <1>21, <4>1
    <3>2. CASE j # i
      <4>1. j \in InUse /\ j \in Places /\ clients'[j] = clients[j]
        BY <1>1, <1>7, <1>15, <3>2
      <4> QED BY <1>0, <1>8, <1>16, <2>2, <3>2, <4>1 DEF Attached
    <3> QED BY <3>1, <3>2
  <2> QED BY <1>15, <2>1, <2>2 DEF Attached, Places
<1>12. InTurn'
  <2>1. \A q \in Procs : /\ seg'[q].state = seg[q].state /\ (seg'[q].asking => seg[q].asking)
                         /\ seg[q].state = "new" => seg'[q].want = seg[q].want
    <3> SUFFICES ASSUME NEW q \in Procs
                 PROVE  /\ seg'[q].state = seg[q].state /\ (seg'[q].asking => seg[q].asking)
                        /\ seg[q].state = "new" => seg'[q].want = seg[q].want
      OBVIOUS
    <3>1. CASE q = p
      BY <1>8, <1>21, <3>1
    <3>2. CASE q # p
      BY <1>8, <3>2
    <3> QED BY <3>1, <3>2
  <2> QED BY <1>0, <2>1 DEF InTurn, Earlier
<1>19. clients'[i].memid = p /\ clients'[i].attached /\ clients'[i].last = last
  BY <1>4, <1>7, <1>18
<1>20. i \in Known(p) => clients[i].memid = p /\ clients[i].attached /\ i \in InUse
  BY DEF Known
<1>22. ASSUME p \notin dropped, seg[p].want = "NEXT" PROVE clients[i].last.scan <= seg[p].next_data
  <2>1. PICK j \in InUse : Holds(j, p)
    BY <1>0, <1>3, <1>22 DEF Held
  <2>2. j = i
    BY <1>16, <2>1 DEF Holds
  <2> QED BY <1>22, <2>1, <2>2 DEF Holds
<1>13. Held'
  <2> SUFFICES ASSUME NEW q \in Procs \ dropped, seg'[q].state = "live" \/ seg'[q].asking, seg'[q].want # "ATTACH"
               PROVE  \E j \in InUse' : Holds(j, q)'
    BY <1>3 DEF Held
  <2>1. CASE q # p
    <3>1. seg'[q] = seg[q]
      BY <1>8, <2>1
    <3>2. PICK j \in InUse : Holds(j, q)
      BY <1>0, <3>1 DEF Held
    <3>3. j # i
      BY <1>17, <2>1, <3>1, <3>2 DEF Holds
    <3>4. clients'[j] = clients[j] /\ j \in InUse'
      BY <1>1, <1>7, <1>15, <3>2, <3>3
    <3> QED BY <3>1, <3>2, <3>4 DEF Holds
  <2>2. CASE q = p
    <3>1. ASSUME want = "NEXT" PROVE last.scan <= next
      <4>1. seg[p].want \in {"FIRST", "NEXT"}
        BY <1>1, <3>1 DEF Segment
      <4> QED BY <1>0, <1>5, <1>22, <2>2, <4>1, PlaceAfter DEF last, next
    <3> QED BY <1>8, <1>15, <1>19, <2>2, <3>1 DEF Holds
  <2> QED BY <2>1, <2>2
<1>14. (p \notin dropped => GoesOn(p)) /\ \A q \in Procs \ {p} : GoesOn(q)
  <2>1. ASSUME p \notin dropped, seg[p].want = "NEXT" PROVE seg'[p].next_data <= seg[p].next_data + 1
    <3>1. next <= seg[p].next_data + 1
      BY <1>0, <1>5, <1>22, <2>1, PlaceAfter DEF next
    <3> QED BY <1>8, <3>1
  <2>2. ASSUME NEW q \in Procs \ {p} PROVE seg'[q].next_data <= seg[q].next_data + 1
    <3>1. seg'[q] = seg[q] /\ seg[q].next_data \in Int
      BY <1>1, <1>8, Sizes DEF Segment
    <3> QED BY <3>1
  <2> QED BY <2>1, <2>2 DEF GoesOn
<1> QED BY <1>9, <1>10, <1>11, <1>12, <1>13, <1>14 DEF TableInv

(* detach_client at entry i, and where the entry was before that is at j   *)
(* after it.                                                               *)
Was(i, j) == IF Transient(i) /\ j >= i THEN j + 1 ELSE j

LEMMA DetachTable ==
  ASSUME TableInv, NEW i \in InUse, clients[i].attached, Detach(i)
  PROVE  /\ clients' \in [Places -> Entry]
         /\ highclient' \in Int /\ resclient <= highclient' /\ highclient' <= MaxClients
         /\ \A j \in InUse' : j \in Places /\ j \in Nat
         /\ \A j \in InUse' : Was(i, j) # i => clients'[j] = clients[Was(i, j)] /\ Was(i, j) \in InUse
         /\ \A j \in InUse' : Was(i, j) = i => ~ clients'[j].attached /\ j < resclient
         /\ \A k \in InUse : k # i => \E j \in InUse' : Was(i, j) = k
         /\ \A j \in Places : clients'[j].attached => clients'[j].memid \in Procs
         /\ highclient' = 0 => ~ clients'[0].attached
<1>0. TypeOK /\ OneEntryEach /\ Attached
  BY DEF TableInv
<1>1. /\ clients \in [Places -> Entry] /\ InUse \subseteq Places
      /\ highclient \in Nat /\ highclient <= MaxClients /\ resclient \in Nat /\ resclient <= highclient
      /\ MaxClients \in Nat /\ InUse = 0 .. highclient - 1 /\ Places = 0 .. MaxClients - 1
      /\ i \in Nat /\ i < highclient
  BY <1>0, Types, Sizes DEF InUse, Places
<1>2. \A j \in Places : clients[j].attached => clients[j].memid \in Procs
  BY <1>0 DEF Attached
<1>3. CASE Transient(i)
  <2> DEFINE h == highclient - 1
             M == MovedUp(i)
             gone == IF i = h THEN FALSE ELSE M[h].attached
  <2>1. clients' = [M EXCEPT ![h].attached = IF i = h THEN FALSE ELSE @] /\ highclient' = h
    BY <1>3 DEF Detach, Shorter
  <2>2. \A j \in Places : M[j] = IF j \in i .. h - 1 THEN clients[j + 1] ELSE clients[j]
    <3>1. highclient - 2 = h - 1
      BY <1>1
    <3> QED BY <3>1 DEF MovedUp
  <2>3. /\ h \in Nat /\ h \in Places /\ resclient <= h /\ h < MaxClients /\ i <= h
        /\ \A j \in i .. h - 1 : j + 1 \in Places
    <3>1. i >= resclient
      BY <1>3 DEF Transient
    <3> HIDE DEF resclient
    <3>2. h \in Nat /\ resclient <= h /\ h < MaxClients /\ i <= h
      BY <1>1, <3>1
    <3> HIDE DEF h
    <3> QED BY <1>1, <3>2
  <2>4. M \in [Places -> Entry]
    BY <1>1, <2>3 DEF MovedUp
  <2> HIDE DEF M, h
  <2>5. \A j \in Places : clients'[j] = IF j = h THEN [M[h] EXCEPT !.attached = gone] ELSE M[j]
    BY <2>1, <2>3, <2>4
  <2>6. clients' \in [Places -> Entry]
    <3>1. M[h] \in Entry /\ gone \in BOOLEAN
      BY <2>3, <2>4 DEF Entry
    <3>2. [M[h] EXCEPT !.attached = gone] \in Entry
      BY <3>1 DEF Entry
    <3> QED BY <2>1, <2>3, <2>4, <2>5, <3>2
  <2>7. InUse' = 0 .. h - 1
    BY <2>1, Zenon DEF InUse
  <2>8. ASSUME NEW j \in 0 .. h - 1
        PROVE  j \in Places /\ j \in Nat /\ Was(i, j) # i /\ clients'[j] = clients[Was(i, j)] /\ Was(i, j) \in InUse
    <3>1. j \in Nat /\ j < h /\ j \in Places /\ j # h
      BY <1>1, <2>3
    <3>2. Was(i, j) = IF j >= i THEN j + 1 ELSE j
      BY <1>3, <3>1 DEF Was
    <3>3. clients'[j] = IF j \in i .. h - 1 THEN clients[j + 1] ELSE clients[j]
      BY <2>2, <2>5, <3>1
    <3> QED BY <1>1, <2>3, <3>1, <3>2, <3>3 DEF h
  <2>9. ASSUME NEW k \in InUse, k # i PROVE \E j \in 0 .. h - 1 : Was(i, j) = k
    <3>1. k \in Nat /\ k <= h
      BY <1>1, <2>9 DEF h
    <3>2. CASE k < i
      BY <1>1, <2>3, <3>1, <3>2 DEF Was
    <3>3. CASE k > i
      <4>1. k - 1 \in 0 .. h - 1 /\ k - 1 >= i /\ k - 1 \in Int
        BY <1>1, <2>3, <3>1, <3>3
      <4>2. Was(i, k - 1) = (k - 1) + 1
        BY <1>3, <4>1 DEF Was
      <4> QED BY <3>1, <4>1, <4>2
    <3> QED BY <1>1, <2>9, <3>1, <3>2, <3>3
  <2>10. ASSUME NEW j \in Places, clients'[j].attached PROVE clients'[j].memid \in Procs
    <3>1. \A m \in Places : M[m].attached => M[m].memid \in Procs
      BY <1>2, <2>2, <2>3
    <3>2. CASE j = h
      <4>1. M[h] \in Entry
        BY <2>3, <2>4
      <4>2. clients'[h].memid = M[h].memid /\ clients'[h].attached = gone
        BY <2>3, <2>5, <4>1 DEF Entry
      <4> QED BY <2>3, <2>10, <3>1, <3>2, <4>2
    <3> QED BY <2>5, <2>10, <3>1, <3>2
  <2>11. highclient' = 0 => ~ clients'[0].attached
    <3> SUFFICES ASSUME h = 0 PROVE ~ clients'[0].attached
      BY <2>1
    <3>1. i = h /\ M[h] \in Entry /\ gone = FALSE
      BY <1>1, <2>3, <2>4
    <3> QED BY <2>3, <2>5, <3>1 DEF Entry
  <2>12. highclient' \in Int /\ resclient <= highclient' /\ highclient' <= MaxClients
    <3>1. h \in Int /\ resclient <= h /\ h <= MaxClients
      BY <1>1, <2>3
    <3> QED BY <2>1, <3>1
  <2>13. /\ \A j \in InUse' : j \in Places /\ j \in Nat /\ Was(i, j) # i
         /\ \A j \in InUse' : clients'[j] = clients[Was(i, j)] /\ Was(i, j) \in InUse
         /\ \A k \in InUse : k # i => \E j \in InUse' : Was(i, j) = k
    BY <2>7, <2>8, <2>9
  <2> QED BY <2>6, <2>10, <2>11, <2>12, <2>13
<1>4. CASE ~ Transient(i)
  <2>1. clients' = [clients EXCEPT ![i].attached = FALSE] /\ highclient' = highclient
    BY <1>4 DEF Detach
  <2>2. i \in Places /\ clients[i] \in Entry /\ i < resclient
    BY <1>1, <1>4 DEF Transient
  <2>3. \A j \in Places : clients'[j] = IF j = i THEN [clients[i] EXCEPT !.attached = FALSE] ELSE clients[j]
    BY <1>1, <2>1, <2>2
  <2>4. [clients[i] EXCEPT !.attached = FALSE] \in Entry /\ ~ [clients[i] EXCEPT !.attached = FALSE].attached
    BY <2>2 DEF Entry
  <2>5. clients' \in [Places -> Entry]
    BY <1>1, <2>1, <2>3, <2>4
  <2>6. InUse' = InUse
    BY <2>1 DEF InUse
  <2>7. \A j \in InUse : Was(i, j) = j /\ j \in Nat
    BY <1>1, <1>4 DEF Was
  <2>8. \A j \in Places : clients'[j].attached => clients'[j].memid \in Procs
    BY <1>2, <2>3, <2>4
  <2>9. highclient # 0
    BY <1>1
  <2> QED BY <1>1, <2>1, <2>2, <2>3, <2>4, <2>5, <2>6, <2>7, <2>8, <2>9
<1> QED BY <1>3, <1>4

LEMMA WasApart ==
  ASSUME NEW i \in Nat, NEW j \in Nat, NEW k \in Nat
  PROVE  j <= Was(i, j) /\ (Was(i, j) = Was(i, k) => j = k)
BY DEF Was

(* check_clients looks at the next entry. *)
LEMMA PollStep ==
  ASSUME TableInv, CheckClients
  PROVE  TableInv' /\ \A q \in Procs : GoesOn(q)
<1>0. TypeOK /\ OneEntryEach /\ Attached /\ InTurn /\ Held
  BY DEF TableInv
<1> DEFINE i == NextPoll
           p == clients[i].memid
<1>1. /\ clients \in [Places -> Entry] /\ seg \in [Procs -> Segment] /\ InUse \subseteq Places
      /\ highclient \in Nat /\ highclient <= MaxClients /\ resclient \in Nat /\ resclient <= highclient
      /\ MaxClients \in Nat /\ InUse = 0 .. highclient - 1 /\ Places = 0 .. MaxClients - 1
      /\ clientpoll \in Nat /\ dropped \subseteq Procs
  BY <1>0, Types, Sizes DEF InUse, Places
<1>2. /\ clientpoll' = i /\ UNCHANGED << reserved, nextRec >>
      /\ IF Removable(i) THEN Detach(i) ELSE UNCHANGED << clients, highclient, seg, dropped >>
  BY DEF CheckClients
<1>3. i \in Places /\ (i < highclient \/ i = 0) /\ i \in Nat
  BY <1>1, Sizes DEF NextPoll
<1> HIDE DEF i
<1>4. CASE ~ Removable(i)
  <2>1. UNCHANGED << clients, highclient, seg, dropped, reserved, nextRec >> /\ clientpoll' \in Places
    BY <1>2, <1>3, <1>4
  <2>2. TypeOK'
    BY <1>0, <2>1 DEF TypeOK, resclient
  <2>3. OneEntryEach' /\ Attached' /\ InTurn' /\ Held'
    BY <1>0, <2>1 DEF OneEntryEach, Attached, InTurn, Held, Holds, InUse, resclient
  <2>4. ASSUME NEW q \in Procs PROVE GoesOn(q)
    <3>1. seg[q].next_data \in Int /\ seg' = seg
      BY <1>1, <2>1, Sizes DEF Segment
    <3> QED BY <3>1 DEF GoesOn
  <2> QED BY <2>2, <2>3, <2>4 DEF TableInv
<1>5. CASE Removable(i)
  <2>1. Detach(i) /\ clients[i].attached
    BY <1>2, <1>5 DEF Removable
  <2>2. i \in InUse /\ i \in Nat /\ p \in Procs
    <3>1. highclient # 0 \/ i # 0
      BY <1>0, <2>1 DEF Attached
    <3> QED BY <1>0, <1>1, <1>3, <2>1, <3>1 DEF Attached
  <2>3. /\ clients' \in [Places -> Entry]
        /\ highclient' \in Int /\ resclient <= highclient' /\ highclient' <= MaxClients
        /\ \A j \in InUse' : j \in Places /\ j \in Nat
        /\ \A j \in InUse' : Was(i, j) # i => clients'[j] = clients[Was(i, j)] /\ Was(i, j) \in InUse
        /\ \A j \in InUse' : Was(i, j) = i => ~ clients'[j].attached /\ j < resclient
        /\ \A k \in InUse : k # i => \E j \in InUse' : Was(i, j) = k
        /\ \A j \in Places : clients'[j].attached => clients'[j].memid \in Procs
        /\ highclient' = 0 => ~ clients'[0].attached
    BY <2>1, <2>2, DetachTable
  <2>4. /\ dropped' = dropped \cup {p}
        /\ seg' = IF Name(p) \notin Foreign THEN [seg EXCEPT ![p].asking = FALSE] ELSE seg
    BY <2>1 DEF Detach
  <2>5. \A q \in Procs \ {p} : seg'[q] = seg[q]
    BY <1>1, <2>4
  <2> HIDE DEF p
  <2>6. seg' \in [Procs -> Segment] /\ seg'[p].state = seg[p].state /\ seg'[p].want = seg[p].want
        /\ seg'[p].next_data = seg[p].next_data /\ (seg'[p].asking => seg[p].asking)
    <3>1. CASE Name(p) \notin Foreign
      <4>1. seg[p] \in Segment /\ seg' = [seg EXCEPT ![p] = [seg[p] EXCEPT !.asking = FALSE]]
        BY <1>1, <2>2, <2>4, <3>1
      <4>2. [seg[p] EXCEPT !.asking = FALSE] \in Segment
        BY <4>1 DEF Segment
      <4> QED BY <1>1, <2>2, <4>1, <4>2 DEF Segment
    <3>2. CASE Name(p) \in Foreign
      BY <1>1, <2>4, <3>2
    <3> QED BY <3>1, <3>2
  <2>7. \A j \in InUse' : clients'[j].attached => clients'[j] = clients[Was(i, j)] /\ Was(i, j) \in InUse /\ Was(i, j) # i
    BY <2>3
  <2>8. TypeOK'
    <3>1. highclient' \in resclient .. MaxClients
      BY <1>1, <2>3
    <3>2. clientpoll' \in Places /\ dropped' \subseteq Procs
      BY <1>1, <1>2, <1>3, <2>2, <2>4
    <3> QED BY <1>0, <1>2, <2>3, <2>6, <3>1, <3>2 DEF TypeOK, Entry, Place, Segment, resclient
  <2>9. OneEntryEach'
    <3>1. ASSUME NEW j \in InUse', NEW k \in InUse', clients'[j].attached, clients'[k].attached,
                 clients'[j].memid = clients'[k].memid
          PROVE  j = k
      <4>1. Was(i, j) = Was(i, k)
        BY <1>0, <2>7, <3>1 DEF OneEntryEach
      <4> QED BY <2>2, <2>3, <4>1, WasApart
    <3>2. ASSUME NEW j \in InUse', clients'[j].attached PROVE clients'[j].name = Name(clients'[j].memid)
      BY <1>0, <2>7, <3>2 DEF OneEntryEach
    <3>3. ASSUME NEW j \in InUse', j >= resclient PROVE clients'[j].attached
      <4>1. j \in Nat /\ Was(i, j) # i
        BY <1>1, <2>3, <3>3
      <4>2. Was(i, j) \in InUse /\ Was(i, j) >= resclient /\ clients'[j] = clients[Was(i, j)]
        BY <1>1, <2>2, <2>3, <3>3, <4>1, WasApart
      <4> QED BY <1>0, <4>2 DEF OneEntryEach
    <3> QED BY <1>2, <3>1, <3>2, <3>3 DEF OneEntryEach, Name, resclient
  <2>10. Attached'
    <3>1. ASSUME NEW j \in InUse', clients'[j].attached PROVE seg'[clients'[j].memid].state # "new"
      <4>1. clients'[j] = clients[Was(i, j)] /\ Was(i, j) \in InUse
        BY <2>7, <3>1
      <4>2. clients'[j].memid \in Procs /\ seg[clients'[j].memid].state # "new"
        BY <1>0, <1>1, <3>1, <4>1 DEF Attached
      <4> QED BY <2>5, <2>6, <4>2
    <3> QED BY <2>3, <3>1 DEF Attached, Places
  <2>11. InTurn'
    <3>1. \A q \in Procs : /\ seg'[q].state = seg[q].state /\ (seg'[q].asking => seg[q].asking)
                           /\ seg'[q].want = seg[q].want
      BY <2>5, <2>6
    <3> QED BY <1>0, <3>1 DEF InTurn, Earlier
  <2>12. Held'
    <3> SUFFICES ASSUME NEW q \in Procs \ (dropped \cup {p}), seg'[q].state = "live" \/ seg'[q].asking,
                        seg'[q].want # "ATTACH"
                 PROVE  \E j \in InUse' : Holds(j, q)'
      BY <2>4 DEF Held
    <3>1. seg'[q] = seg[q]
      BY <2>5
    <3>2. PICK k \in InUse : Holds(k, q)
      BY <1>0, <3>1 DEF Held
    <3>3. k # i
      BY <3>2 DEF Holds, p
    <3>4. PICK j \in InUse' : Was(i, j) = k
      BY <2>3, <3>3
    <3>5. clients'[j] = clients[k]
      BY <2>3, <3>3, <3>4
    <3> QED BY <3>1, <3>2, <3>5 DEF Holds
  <2>13. ASSUME NEW q \in Procs PROVE GoesOn(q)
    <3>1. seg[q].next_data \in Int
      BY <1>1, Sizes DEF Segment
    <3>2. seg'[q].next_data = seg[q].next_data
      BY <2>5, <2>6
    <3> QED BY <3>1, <3>2 DEF GoesOn
  <2> QED BY <2>8, <2>9, <2>10, <2>11, <2>12, <2>13 DEF TableInv
<1> QED BY <1>4, <1>5
------------------------------------------------------------------------------
LEMMA TableStep ==
  ASSUME TableInv, [Next]_vars
  PROVE  TableInv' /\ \A p \in Procs \ dropped : GoesOn(p)
<1>1. ASSUME NEW p \in Procs, Served(p) PROVE TableInv' /\ \A q \in Procs \ dropped : GoesOn(q)
  BY <1>1, ServedStep
<1>2. CASE CheckClients
  BY <1>2, PollStep
<1>3. CASE NewRecord \/ (\E p \in Procs : Start(p) \/ Ask(p) \/ End(p) \/ Refused(p)) \/ (\E i \in Places : FallQuiet(i))
  <2>1. TableInv'
    BY <1>3, QuietStep
  <2>2. ASSUME NEW q \in Procs PROVE GoesOn(q)
    <3>1. seg \in [Procs -> Segment]
      BY Types DEF TableInv
    <3>2. seg'[q].next_data = seg[q].next_data /\ seg[q].next_data \in Int
      BY <1>3, <3>1, Sizes DEF NewRecord, Start, Ask, End, Refused, FallQuiet, Segment
    <3> QED BY <3>2 DEF GoesOn
  <2> QED BY <2>1, <2>2
<1>4. CASE UNCHANGED vars
  <2>1. UNCHANGED << reserved, clients, highclient, clientpoll, nextRec, seg, dropped >>
    BY <1>4 DEF vars
  <2>2. TableInv'
    BY <2>1 DEF TableInv, TypeOK, OneEntryEach, Attached, InTurn, Held, Holds, InUse, resclient
  <2>3. ASSUME NEW q \in Procs PROVE GoesOn(q)
    <3>1. seg[q].next_data \in Int /\ seg' = seg
      BY <2>1, Types, Sizes DEF TableInv, Segment
    <3> QED BY <3>1 DEF GoesOn
  <2> QED BY <2>2, <2>3
<1> QED BY <1>1, <1>2, <1>3, <1>4 DEF Next

LEMMA TableAlways == Spec => []TableInv
<1>1. Init => TableInv
  BY TableInit
<1>2. TableInv /\ [Next]_vars => TableInv'
  BY TableStep
<1> QED BY <1>1, <1>2, PTL DEF Spec

(* The variables of the table and of the segments keep their types: the    *)
(* entries in use are never fewer than the reserved ones and never more    *)
(* than the table has, and the index of check_clients stays inside it.     *)
THEOREM TableTypes == Spec => []TypeOK
<1>1. TableInv => TypeOK
  BY DEF TableInv
<1> QED BY <1>1, TableAlways, PTL

(* comserv_scan, detach_client: a process has one entry, under its own     *)
(* name, however entries come, go and move up, and nobody's entry is left  *)
(* among those that come and go.                                           *)
THEOREM OneEach == Spec => []OneEntryEach
<1>1. TableInv => OneEntryEach
  BY DEF TableInv
<1> QED BY <1>1, TableAlways, PTL

(* A process that was not dropped is never sent on past records it was not *)
(* given, although last[] is kept in entries that move and are taken over. *)
THEOREM PlaceKept == Spec => KeepsPlace
<1>1. TableInv /\ [Next]_vars => \A p \in Procs \ dropped : GoesOn(p)
  BY TableStep
<1>2. TableInv /\ [Next]_vars => [\A p \in Procs \ dropped : GoesOn(p)]_vars
  BY <1>1
<1> QED BY <1>2, TableAlways, PTL DEF Spec, KeepsPlace
==============================================================================
