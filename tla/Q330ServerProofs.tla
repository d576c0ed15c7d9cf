-------------------------- MODULE Q330ServerProofs --------------------------
(***************************************************************************)
(* Proofs about Q330Server for any numbers of faults and commands, any     *)
(* losses and repetitions: the library never takes itself for registered   *)
(* without a socket, and, where the digitizer's data port is programmed,   *)
(* runs only on a link unless it was wanted too early.                     *)
(***************************************************************************)
EXTENDS Q330Server, SequenceTheorems, TLAPS

Linked == {"RUNWAIT", "RUN"}
LinkStates == {"READCFG", "READTOK", "DECTOK"} \cup Linked
Setup == {"RQFGLS", "RQGID", "RQSTAT"}

Queued(s) == {s[i] : i \in DOMAIN s}
Pending(L) == {m.cmd : m \in L.asked}

(* What can answer a command. *)
Fitting(c) ==
  CASE c = "RQSRV" -> {"SRVCH", "TMSERV"}
    [] c = "SRVRSP" -> {"CACK", "INVREG"}
    [] c = "PING" -> {"PING"}
    [] c = "DSRV" -> {"CACK", "NOTR"}
    [] c = "RQFGLS" -> {"FGLS", "NOTR"}
    [] c = "RQGID" -> {"GID", "NOTR"}
    [] c = "RQSTAT" -> {"STAT", "STAT_TOKEN", "STAT_FULL", "NOTR"}
    [] c = "RQMEM" -> {"MEM", "SNV", "NOTR"}

(* Only the transmission that is waited for is matched, and nothing is     *)
(* under way without a socket.                                             *)
Matched(L) ==
  /\ \A m \in L.asked : m.last => L.cphase = "wait" /\ L.cmdq # << >> /\ m.cmd = Head(L.cmdq)
  /\ L.answer # None => L.cphase = "wait" /\ L.cmdq # << >> /\ L.answer \in Fitting(Head(L.cmdq))
  /\ ~ L.open => L.asked = {} /\ L.answer = None

Waits(L) == L.cphase # "idle" => L.cmdq # << >>

Sound(L) == L \in Tq330 /\ QueuedOnce(L) /\ Matched(L)

MemLast(s) == \A i \in DOMAIN s : s[i] = "RQMEM" => i = Len(s)

(* Each state of the library has its commands. *)
Coherent(L) ==
  /\ L.state = "REG" => /\ Queued(L.cmdq) \subseteq {"RQSRV", "SRVRSP"}
                        /\ L.cmdq # << >> => Tail(L.cmdq) = << >>
  /\ L.state = "DEREG" => Queued(L.cmdq) \subseteq {"DSRV"}
  /\ L.state = "PING" => Queued(L.cmdq) \subseteq {"PING"}
  /\ L.state \in {"READCFG", "RUN"} => Queued(L.cmdq) \subseteq Setup
  /\ L.state = "READTOK" => Queued(L.cmdq) \subseteq Setup \cup {"RQMEM"} /\ MemLast(L.cmdq)
  /\ L.state \in {"DECTOK", "RUNWAIT"} => L.cmdq = << >>

Socketed(L) == L.registered => L.open /\ L.state \notin {"IDLE", "WAIT", "REG", "PING"}

(* A ping begins with no command queued. *)
PingFirst(L) ==
  /\ L.target = "PING" /\ L.state = "IDLE" => L.cphase = "idle"
  /\ L.ping = "req" => L.state = "PING" /\ L.target = "PING" /\ L.cmdq = << >>

Targets == {"IDLE", "TERM", "PING", "WAIT"} \cup Linked

(* A challenge that is still being answered belongs to a registration that *)
(* is under way or stands, and who is told that it is not registered is    *)
(* not.                                                                    *)
Registering(L, p) ==
  /\ "SRVRSP" \in Pending(L) /\ ~ p => L.state \in {"REG", "TERM"} /\ L.answer # "CACK"
  /\ L.answer = "NOTR" /\ L.state # "TERM" => ~ p

(* q: the main thread is between the ping and the registration. *)
LibInv(L, p, q) ==
  /\ Sound(L) /\ Waits(L) /\ Coherent(L) /\ Socketed(L) /\ PingFirst(L)
  /\ L.target \in Targets /\ (L.target = "PING" => q) /\ p \in BOOLEAN /\ Registering(L, p)

(* What keeps the library from running without a link: unregistered it is  *)
(* bound for another state, and the digitizer tells it nothing else.       *)
Leaving(L, p) ==
  ~ L.registered /\ L.state \in LinkStates =>
    /\ L.state \in {"READCFG", "READTOK", "RUN"} /\ L.target \notin Linked
    /\ L.answer \in {None, "NOTR"} /\ (L.open => ~ p)

OnLink(L, p) ==
  /\ L.state = "RUN" /\ L.target = "RUNWAIT" => L.liberr = "tokens"
  /\ L.state = "DEREG" => L.target \notin Linked
  /\ Leaving(L, p)
-----------------------------------------------------------------------------
(* Queues of commands. *)
LEMMA Appended ==
  ASSUME NEW s \in Seq(Commands), NEW c \in Commands
  PROVE  /\ Append(s, c) \in Seq(Commands) /\ Append(s, c) # << >>
         /\ Head(Append(s, c)) = IF s = << >> THEN c ELSE Head(s)
         /\ s = << >> => Tail(Append(s, c)) = << >>
         /\ Queued(Append(s, c)) = Queued(s) \cup {c}
         /\ (\A i, j \in DOMAIN s : s[i] = s[j] => i = j) /\ c \notin Queued(s) =>
              \A i, j \in DOMAIN Append(s, c) : Append(s, c)[i] = Append(s, c)[j] => i = j
         /\ c \notin Queued(s) /\ (c = "RQMEM" \/ s = << >>) /\ "RQMEM" \notin Queued(s) => MemLast(Append(s, c))
<1> DEFINE t == Append(s, c)
<1>1. /\ t \in Seq(Commands) /\ t # << >> /\ Len(t) = Len(s) + 1
      /\ \A i \in 1 .. Len(s) : t[i] = s[i]
      /\ t[Len(s) + 1] = c
  BY AppendProperties
<1>2. Len(s) \in Nat /\ DOMAIN s = 1 .. Len(s) /\ DOMAIN t = 1 .. Len(s) + 1
  BY <1>1, LenProperties
<1>3. Head(t) = (IF s = << >> THEN c ELSE Head(s)) /\ (s = << >> => Tail(t) = << >>)
  BY HeadTailAppend
<1>4. Queued(t) = Queued(s) \cup {c}
  BY <1>1, <1>2 DEF Queued
<1> HIDE DEF t
<1>5. ASSUME \A i, j \in DOMAIN s : s[i] = s[j] => i = j, c \notin Queued(s),
             NEW i \in DOMAIN t, NEW j \in DOMAIN t, t[i] = t[j]
      PROVE  i = j
  BY <1>1, <1>2, <1>5 DEF Queued
<1>6. ASSUME c \notin Queued(s), "RQMEM" \notin Queued(s), NEW i \in DOMAIN t, t[i] = "RQMEM" PROVE i = Len(t)
  BY <1>1, <1>2, <1>6 DEF Queued
<1> QED BY <1>1, <1>3, <1>4, <1>5, <1>6 DEF t, MemLast

LEMMA Removed ==
  ASSUME NEW s \in Seq(Commands), s # << >>
  PROVE  /\ Head(s) \in Commands /\ Head(s) \in Queued(s) /\ Tail(s) \in Seq(Commands)
         /\ Queued(Tail(s)) \subseteq Queued(s)
         /\ (\A i, j \in DOMAIN s : s[i] = s[j] => i = j) =>
              /\ Head(s) \notin Queued(Tail(s))
              /\ \A i, j \in DOMAIN Tail(s) : Tail(s)[i] = Tail(s)[j] => i = j
         /\ MemLast(s) => MemLast(Tail(s)) /\ (Head(s) = "RQMEM" => Tail(s) = << >>)
<1> DEFINE t == Tail(s)
<1>1. /\ Head(s) \in Commands /\ t \in Seq(Commands) /\ Len(t) = Len(s) - 1
      /\ \A i \in 1 .. Len(t) : t[i] = s[i + 1]
  BY HeadTailProperties
<1>2. Len(s) \in Nat /\ DOMAIN s = 1 .. Len(s) /\ DOMAIN t = 1 .. Len(t) /\ Len(s) # 0
  BY <1>1, LenProperties, EmptySeq
<1>3. Head(s) = s[1]
  <2>1. Len(s) \in Nat /\ SubSeq(s, 1, Len(s)) = s /\ 1 \in 1 .. Len(s)
    BY <1>2, SubSeqFull
  <2> QED BY <1>2, <2>1, HeadTailOfSubSeq
<1>4. t = << >> <=> Len(t) = 0
  BY <1>1, EmptySeq
<1> HIDE DEF t
<1>5. 1 \in DOMAIN s /\ \A i \in DOMAIN t : i + 1 \in DOMAIN s /\ t[i] = s[i + 1]
  BY <1>1, <1>2
<1>8. Head(s) \in Queued(s) /\ Queued(t) \subseteq Queued(s)
  BY <1>3, <1>5, Zenon DEF Queued
<1>6. ASSUME \A i, j \in DOMAIN s : s[i] = s[j] => i = j
      PROVE  Head(s) \notin Queued(t) /\ \A i, j \in DOMAIN t : t[i] = t[j] => i = j
  BY <1>1, <1>2, <1>3, <1>5, <1>6 DEF Queued
<1>7. ASSUME MemLast(s) PROVE MemLast(t) /\ (Head(s) = "RQMEM" => t = << >>)
  BY <1>1, <1>2, <1>3, <1>4, <1>7 DEF MemLast
<1> QED BY <1>1, <1>6, <1>7, <1>8 DEF t

LEMMA NoneQueued ==
  /\ << >> \in Seq(Commands) /\ Queued(<< >>) = {} /\ MemLast(<< >>)
  /\ \A s \in Seq(Commands) : Queued(s) = {} => s = << >>
<1>1. << >> \in Seq(Commands) /\ Len(<< >>) = 0 /\ DOMAIN << >> = {}
  BY EmptySeq
<1>2. ASSUME NEW s \in Seq(Commands), Queued(s) = {} PROVE s = << >>
  BY <1>2, Removed
<1> QED BY <1>1, <1>2 DEF Queued, MemLast
------------------------------------------------------------------------------
(* What the functions of the library that deal with commands leave alone,  *)
(* and what they make of the rest.                                         *)
Alike(L, M) ==
  /\ M.state = L.state /\ M.target = L.target /\ M.liberr = L.liberr
  /\ M.registered = L.registered /\ M.open = L.open /\ M.reboot_done = L.reboot_done
  /\ M.have_config = L.have_config /\ M.ping = L.ping

LEMMA OutdatedIs ==
  ASSUME NEW L \in Tq330
  PROVE  /\ Outdated(L) \in Tq330 /\ Alike(L, Outdated(L))
         /\ Outdated(L).cmdq = L.cmdq /\ Outdated(L).cphase = L.cphase /\ Outdated(L).answer = None
         /\ \A m \in Outdated(L).asked : ~ m.last
         /\ Pending(Outdated(L)) = Pending(L)
         /\ L.asked = {} => Outdated(L).asked = {}
<1> DEFINE old == {[m EXCEPT !.last = FALSE] : m \in L.asked}
<1>1. L.asked \subseteq Sent
  BY DEF Tq330
<1>2. old \subseteq Sent /\ \A m \in old : ~ m.last
  BY <1>1 DEF Sent
<1>3. {m.cmd : m \in old} = Pending(L)
  <2>1. \A m \in L.asked : [m EXCEPT !.last = FALSE].cmd = m.cmd
    BY <1>1 DEF Sent
  <2>2. {m.cmd : m \in old} \subseteq Pending(L)
    BY <2>1, Zenon DEF Pending
  <2>3. Pending(L) \subseteq {m.cmd : m \in old}
    BY <2>1, Zenon DEF Pending
  <2> QED BY <2>2, <2>3
<1>4. L.asked = {} => old = {}
  OBVIOUS
<1> HIDE DEF old
<1>5. Outdated(L) = [L EXCEPT !.asked = old, !.answer = None]
  BY Zenon DEF Outdated, old
<1>6. None \in Answers
  BY DEF Answers
<1>7. Outdated(L) \in Tq330
  BY <1>2, <1>5, <1>6 DEF Tq330
<1>8. Alike(L, Outdated(L)) /\ Outdated(L).cmdq = L.cmdq /\ Outdated(L).cphase = L.cphase
      /\ Outdated(L).answer = None /\ Outdated(L).asked = old
  BY <1>5 DEF Tq330, Alike
<1> QED BY <1>2, <1>3, <1>4, <1>7, <1>8 DEF Pending

LEMMA ClosedIs ==
  ASSUME NEW L \in Tq330
  PROVE  /\ CloseSockets(L) \in Tq330 /\ Matched(CloseSockets(L))
         /\ CloseSockets(L) = [L EXCEPT !.open = FALSE, !.asked = {}, !.answer = None]
         /\ CloseSockets(L).asked = {} /\ Pending(CloseSockets(L)) = {} /\ CloseSockets(L).answer = None
<1>1. None \in Answers
  BY DEF Answers
<1>2. CloseSockets(L) \in Tq330
  BY <1>1 DEF Tq330, CloseSockets
<1>3. CloseSockets(L).asked = {} /\ CloseSockets(L).answer = None
  BY DEF Tq330, CloseSockets
<1> QED BY <1>2, <1>3, Zenon DEF CloseSockets, Matched, Pending

LEMMA PurgedIs ==
  ASSUME NEW L \in Tq330, Matched(L)
  PROVE  /\ Sound(PurgeCmdq(L)) /\ Waits(PurgeCmdq(L)) /\ Alike(L, PurgeCmdq(L))
         /\ PurgeCmdq(L).cmdq = << >> /\ PurgeCmdq(L).cphase = "idle" /\ PurgeCmdq(L).answer = None
         /\ Pending(PurgeCmdq(L)) = Pending(L)
<1> DEFINE O == Outdated(L)
           M == PurgeCmdq(L)
<1>1. O \in Tq330 /\ Alike(L, O) /\ O.answer = None /\ Pending(O) = Pending(L)
      /\ (\A m \in O.asked : ~ m.last) /\ (L.asked = {} => O.asked = {})
  BY OutdatedIs
<1>2. M = [O EXCEPT !.cmdq = << >>, !.cphase = "idle"]
  BY DEF PurgeCmdq
<1> HIDE DEF O, M
<1>3. M \in Tq330
  BY <1>1, <1>2, NoneQueued DEF Tq330
<1>4. Alike(O, M) /\ M.cmdq = << >> /\ M.cphase = "idle" /\ M.answer = O.answer /\ M.asked = O.asked
  BY <1>1, <1>2 DEF Tq330, Alike
<1>5. QueuedOnce(M)
  BY <1>4 DEF QueuedOnce
<1>6. Alike(L, M)
  BY <1>1, <1>4 DEF Alike
<1>7. Matched(M)
  BY <1>1, <1>4, <1>6 DEF Matched, Alike
<1>8. Pending(M) = Pending(L)
  BY <1>1, <1>4 DEF Pending
<1> QED BY <1>1, <1>3, <1>4, <1>5, <1>6, <1>7, <1>8 DEF M, Sound, Waits

LEMMA ClearedIs ==
  ASSUME NEW L, Sound(L)
  PROVE  /\ Sound(ClearCmsg(L)) /\ Waits(ClearCmsg(L)) /\ Alike(L, ClearCmsg(L))
         /\ ClearCmsg(L).cmdq = (IF L.cmdq = << >> THEN << >> ELSE Tail(L.cmdq))
         /\ ClearCmsg(L).cphase = "idle" /\ ClearCmsg(L).answer = None
         /\ Pending(ClearCmsg(L)) = Pending(L)
<1> DEFINE O == Outdated(L)
           M == ClearCmsg(L)
           rest == IF L.cmdq = << >> THEN << >> ELSE Tail(L.cmdq)
<1>1. /\ O \in Tq330 /\ Alike(L, O) /\ O.answer = None /\ Pending(O) = Pending(L) /\ O.cmdq = L.cmdq
      /\ (\A m \in O.asked : ~ m.last) /\ (L.asked = {} => O.asked = {})
  BY OutdatedIs DEF Sound
<1>2. rest \in Seq(Commands) /\ \A i, j \in DOMAIN rest : rest[i] = rest[j] => i = j
  <2>1. L.cmdq \in Seq(Commands)
    BY DEF Sound, Tq330
  <2> QED BY <2>1, Removed DEF Sound, QueuedOnce
<1>3. M = [O EXCEPT !.cmdq = IF O.cmdq = << >> THEN O.cmdq ELSE Tail(O.cmdq), !.cphase = "idle"]
  BY DEF ClearCmsg
<1>4. M = [O EXCEPT !.cmdq = rest, !.cphase = "idle"]
  BY <1>1, <1>3
<1> HIDE DEF O, M, rest
<1>5. M \in Tq330
  BY <1>1, <1>2, <1>4 DEF Tq330
<1>6. Alike(O, M) /\ M.cmdq = rest /\ M.cphase = "idle" /\ M.answer = O.answer /\ M.asked = O.asked
  BY <1>1, <1>4 DEF Tq330, Alike
<1>7. QueuedOnce(M)
  BY <1>2, <1>6 DEF QueuedOnce
<1>8. Alike(L, M)
  BY <1>1, <1>6 DEF Alike
<1>9. Matched(M)
  BY <1>1, <1>6, <1>8 DEF Matched, Alike, Sound
<1>10. Pending(M) = Pending(L)
  BY <1>1, <1>6 DEF Pending
<1> QED BY <1>1, <1>5, <1>6, <1>7, <1>8, <1>9, <1>10 DEF M, rest, Sound, Waits

LEMMA SentIs ==
  ASSUME NEW L \in Tq330, QueuedOnce(L), ~ L.open => L.asked = {},
         L.cphase = "wait" \/ L.cmdq = << >> => Matched(L)
  PROVE  /\ Sound(SendNext(L)) /\ Alike(L, SendNext(L)) /\ SendNext(L).cmdq = L.cmdq
         /\ L.cphase = "idle" \/ Waits(L) => Waits(SendNext(L))
         /\ SendNext(L).answer \in {L.answer, None}
         /\ L.cphase # "wait" /\ L.cmdq # << >> => SendNext(L).answer = None
         /\ Pending(SendNext(L)) \subseteq Pending(L) \cup Queued(L.cmdq)
<1>1. CASE L.cphase = "wait" \/ L.cmdq = << >>
  BY <1>1 DEF SendNext, Alike, Waits, Sound
<1>2. CASE ~ (L.cphase = "wait" \/ L.cmdq = << >>)
  <2> DEFINE O == Outdated(L)
             M == SendNext(L)
             sent == IF O.open THEN O.asked \cup {[cmd |-> Head(O.cmdq), last |-> TRUE]} ELSE O.asked
  <2>1. /\ O \in Tq330 /\ Alike(L, O) /\ O.answer = None /\ Pending(O) = Pending(L) /\ O.cmdq = L.cmdq
        /\ (\A m \in O.asked : ~ m.last) /\ (L.asked = {} => O.asked = {})
    BY OutdatedIs
  <2>2. Head(L.cmdq) \in Commands /\ Head(L.cmdq) \in Queued(L.cmdq)
    BY <1>2, Removed DEF Tq330
  <2>3. O.asked \subseteq Sent
    BY <2>1 DEF Tq330
  <2>4. sent \subseteq Sent
    <3>1. [cmd |-> Head(O.cmdq), last |-> TRUE] \in Sent
      BY <2>1, <2>2 DEF Sent
    <3> QED BY <2>3, <3>1
  <2>5. \A m \in sent : m.last => m.cmd = Head(L.cmdq)
    BY <2>1
  <2>6. ~ L.open => sent = {}
    BY <2>1 DEF Alike
  <2>7. {m.cmd : m \in sent} \subseteq Pending(L) \cup Queued(L.cmdq)
    BY <2>1, <2>2 DEF Pending
  <2>8. M = [O EXCEPT !.cphase = "wait", !.asked = sent]
    <3>1. M = [O EXCEPT !.cphase = "wait",
                 !.asked = IF L.open THEN O.asked \cup {[cmd |-> Head(L.cmdq), last |-> TRUE]} ELSE O.asked]
      BY <1>2, Zenon DEF SendNext
    <3>2. O.open = L.open
      BY <2>1 DEF Alike
    <3> QED BY <2>1, <3>1, <3>2
  <2> HIDE DEF O, M, sent
  <2>9. M \in Tq330
    BY <2>1, <2>4, <2>8 DEF Tq330
  <2>10. Alike(O, M) /\ M.cmdq = O.cmdq /\ M.cphase = "wait" /\ M.answer = O.answer /\ M.asked = sent
    BY <2>1, <2>8 DEF Tq330, Alike
  <2>11. QueuedOnce(M)
    BY <2>1, <2>10 DEF QueuedOnce
  <2>12. Alike(L, M)
    BY <2>1, <2>10 DEF Alike
  <2>13. Matched(M)
    BY <1>2, <2>1, <2>5, <2>6, <2>10, <2>12 DEF Matched, Alike
  <2>14. Pending(M) \subseteq Pending(L) \cup Queued(L.cmdq)
    BY <2>7, <2>10 DEF Pending
  <2> QED BY <1>2, <2>1, <2>9, <2>10, <2>11, <2>12, <2>13, <2>14 DEF M, Sound, Waits
<1> QED BY <1>1, <1>2

LEMMA NewIs ==
  ASSUME NEW L, Sound(L), NEW c \in Commands
  PROVE  /\ Sound(NewCmd(L, c)) /\ Waits(NewCmd(L, c)) /\ Alike(L, NewCmd(L, c))
         /\ NewCmd(L, c).cmdq = (IF c \in Queued(L.cmdq) THEN L.cmdq ELSE Append(L.cmdq, c))
         /\ Queued(NewCmd(L, c).cmdq) = Queued(L.cmdq) \cup {c}
         /\ NewCmd(L, c).answer \in {L.answer, None}
         /\ Pending(NewCmd(L, c)) \subseteq Pending(L) \cup Queued(L.cmdq) \cup {c}
<1>0. L.cmdq \in Seq(Commands)
  BY DEF Sound, Tq330
<1>1. CASE c \in Queued(L.cmdq)
  <2>1. NewCmd(L, c) = L
    BY <1>1 DEF NewCmd, Queued
  <2>2. L.cmdq # << >>
    BY <1>1, NoneQueued
  <2> QED BY <1>1, <2>1, <2>2 DEF Alike, Waits
<1>2. CASE c \notin Queued(L.cmdq)
  <2> DEFINE s == Append(L.cmdq, c)
             K == [L EXCEPT !.cmdq = s]
  <2>1. /\ s \in Seq(Commands) /\ s # << >> /\ Queued(s) = Queued(L.cmdq) \cup {c}
        /\ Head(s) = (IF L.cmdq = << >> THEN c ELSE Head(L.cmdq))
        /\ \A i, j \in DOMAIN s : s[i] = s[j] => i = j
    BY <1>0, <1>2, Appended DEF Sound, QueuedOnce
  <2>2. NewCmd(L, c) = SendNext(K)
    BY <1>2 DEF NewCmd, Queued
  <2> HIDE DEF s
  <2>3. K \in Tq330
    BY <2>1 DEF Sound, Tq330
  <2>4. Alike(L, K) /\ K.cmdq = s /\ K.cphase = L.cphase /\ K.answer = L.answer /\ K.asked = L.asked
    BY DEF Sound, Tq330, Alike
  <2> HIDE DEF K
  <2>5. Sound(K) /\ Waits(K)
    BY <2>1, <2>3, <2>4 DEF Sound, Matched, QueuedOnce, Waits, Alike
  <2>6. Pending(K) = Pending(L)
    BY <2>4 DEF Pending
  <2>7. /\ Sound(SendNext(K)) /\ Alike(K, SendNext(K)) /\ SendNext(K).cmdq = s /\ Waits(SendNext(K))
        /\ SendNext(K).answer \in {L.answer, None}
        /\ Pending(SendNext(K)) \subseteq Pending(L) \cup Queued(s)
    BY <2>4, <2>5, <2>6, SentIs DEF Sound, Matched
  <2>8. Alike(L, SendNext(K))
    BY <2>4, <2>7 DEF Alike
  <2> QED BY <1>2, <2>1, <2>2, <2>7, <2>8 DEF s
<1> QED BY <1>1, <1>2
------------------------------------------------------------------------------
(* The invariant of the library, function by function. *)
LEMMA Untouched ==
  ASSUME NEW L, Sound(L), NEW M \in Tq330,
         M.cmdq = L.cmdq, M.cphase = L.cphase, M.asked = L.asked, M.answer = L.answer, M.open = L.open
  PROVE  Sound(M) /\ (Waits(L) => Waits(M)) /\ Pending(M) = Pending(L)
BY DEF Sound, Matched, QueuedOnce, Waits, Pending

LEMMA StateIs ==
  ASSUME NEW L, Sound(L), NEW s \in LibStates
  PROVE  /\ Sound(NewState(L, s)) /\ (Waits(L) => Waits(NewState(L, s)))
         /\ Pending(NewState(L, s)) = Pending(L) /\ NewState(L, s) = [L EXCEPT !.state = s]
<1>1. NewState(L, s) \in Tq330
  BY DEF Sound, Tq330, NewState
<1>2. /\ NewState(L, s).cmdq = L.cmdq /\ NewState(L, s).cphase = L.cphase /\ NewState(L, s).asked = L.asked
      /\ NewState(L, s).answer = L.answer /\ NewState(L, s).open = L.open
  BY DEF Sound, Tq330, NewState
<1> QED BY <1>1, <1>2, Untouched DEF NewState

LEMMA ChangedIs ==
  ASSUME NEW L, Sound(L), NEW s \in LibStates, NEW why \in Reasons
  PROVE  /\ Sound(ChangeState(L, s, why)) /\ (Waits(L) => Waits(ChangeState(L, s, why)))
         /\ Pending(ChangeState(L, s, why)) = Pending(L)
         /\ ChangeState(L, s, why) = [L EXCEPT !.target = s, !.liberr = why]
<1> DEFINE M == ChangeState(L, s, why)
<1>1. M \in Tq330
  BY DEF Sound, Tq330, ChangeState
<1>2. /\ M.cmdq = L.cmdq /\ M.cphase = L.cphase /\ M.asked = L.asked
      /\ M.answer = L.answer /\ M.open = L.open
  BY DEF Sound, Tq330, ChangeState
<1> QED BY <1>1, <1>2, Untouched DEF ChangeState

(* A new target, while no ping is about to be sent. *)
LEMMA ChangeKeeps ==
  ASSUME NEW L, NEW p, NEW q, LibInv(L, p, q), L.ping # "req", NEW s \in Targets \ {"PING"}, NEW why \in Reasons
  PROVE  /\ LibInv(ChangeState(L, s, why), p, q)
         /\ OnLink(L, p) /\ s \notin Linked => OnLink(ChangeState(L, s, why), p)
<1> DEFINE M == ChangeState(L, s, why)
<1>1. s \in LibStates
  BY DEF Targets, Linked, LibStates
<1>2. Sound(M) /\ Waits(M) /\ Pending(M) = Pending(L)
  BY <1>1, ChangedIs DEF LibInv
<1>3. /\ M.cmdq = L.cmdq /\ M.cphase = L.cphase /\ M.answer = L.answer /\ M.open = L.open
      /\ M.state = L.state /\ M.target = s /\ M.registered = L.registered /\ M.ping = L.ping
  BY DEF LibInv, Sound, Tq330, ChangeState
<1> HIDE DEF M
<1>4. LibInv(M, p, q)
  BY <1>2, <1>3 DEF LibInv, Coherent, Socketed, PingFirst, Registering
<1>5. OnLink(L, p) /\ s \notin Linked => OnLink(M, p)
  BY <1>3 DEF OnLink, Leaving, Linked
<1> QED BY <1>4, <1>5 DEF M

(* Fewer commands, none of them waited for. *)
LEMMA ClearKeeps ==
  ASSUME NEW L, NEW p, NEW q, LibInv(L, p, q)
  PROVE  LibInv(ClearCmsg(L), p, q) /\ (OnLink(L, p) => OnLink(ClearCmsg(L), p))
<1> DEFINE M == ClearCmsg(L)
<1>1. /\ Sound(M) /\ Waits(M) /\ Alike(L, M) /\ M.cphase = "idle" /\ M.answer = None /\ Pending(M) = Pending(L)
      /\ M.cmdq = (IF L.cmdq = << >> THEN << >> ELSE Tail(L.cmdq))
  BY ClearedIs DEF LibInv
<1>2. Queued(M.cmdq) \subseteq Queued(L.cmdq) /\ (MemLast(L.cmdq) => MemLast(M.cmdq))
      /\ (L.state = "REG" => M.cmdq = << >>)
  BY <1>1, Removed, NoneQueued DEF LibInv, Sound, Tq330, Coherent
<1> HIDE DEF M
<1>3. Coherent(M)
  <2>1. L.cmdq = << >> => M.cmdq = << >>
    BY <1>1
  <2> QED BY <1>1, <1>2, <2>1 DEF LibInv, Coherent, Alike
<1>4. LibInv(M, p, q)
  BY <1>1, <1>3 DEF LibInv, Alike, Socketed, PingFirst, Registering, None
<1>5. OnLink(L, p) => OnLink(M, p)
  BY <1>1 DEF OnLink, Leaving, Alike
<1> QED BY <1>4, <1>5 DEF M

LEMMA PurgeKeeps ==
  ASSUME NEW L, NEW p, NEW q, LibInv(L, p, q)
  PROVE  LibInv(PurgeCmdq(L), p, q) /\ (OnLink(L, p) => OnLink(PurgeCmdq(L), p))
<1> DEFINE M == PurgeCmdq(L)
<1>1. /\ Sound(M) /\ Waits(M) /\ Alike(L, M) /\ M.cphase = "idle" /\ M.answer = None /\ Pending(M) = Pending(L)
      /\ M.cmdq = << >>
  BY PurgedIs DEF LibInv, Sound
<1> HIDE DEF M
<1>2. Coherent(M)
  BY <1>1, NoneQueued DEF Coherent
<1>3. LibInv(M, p, q)
  BY <1>1, <1>2 DEF LibInv, Alike, Socketed, PingFirst, Registering, None
<1>4. OnLink(L, p) => OnLink(M, p)
  BY <1>1 DEF OnLink, Leaving, Alike
<1> QED BY <1>3, <1>4 DEF M

(* Leaving a link: a deregistration. *)
LEMMA DeregKeeps ==
  ASSUME NEW L, NEW p, NEW q, LibInv(L, p, q), L.state \in LinkStates
  PROVE  /\ LibInv(StartDeregistration(L), p, q)
         /\ OnLink(L, p) /\ L.target \notin Linked => OnLink(StartDeregistration(L), p)
<1> DEFINE A == NewState(L, "DEREG")
           B == PurgeCmdq(A)
           C == NewCmd(B, "DSRV")
           M == StartDeregistration(L)
<1>1. "DEREG" \in LibStates /\ "DSRV" \in Commands
  BY DEF LibStates, Commands
<1>2. Sound(A) /\ Pending(A) = Pending(L)
  BY <1>1, StateIs DEF LibInv
<1>3. A.state = "DEREG" /\ A.target = L.target /\ A.open = L.open /\ A.ping = L.ping
  BY DEF NewState, LibInv, Sound, Tq330
<1> HIDE DEF A
<1>4. /\ Sound(B) /\ Alike(A, B) /\ B.cmdq = << >> /\ B.answer = None /\ Pending(B) = Pending(A)
  BY <1>2, PurgedIs DEF Sound
<1> HIDE DEF B
<1>5. /\ Sound(C) /\ Waits(C) /\ Alike(B, C) /\ Queued(C.cmdq) = Queued(B.cmdq) \cup {"DSRV"} /\ C.answer = None
      /\ Pending(C) \subseteq Pending(B) \cup Queued(B.cmdq) \cup {"DSRV"}
  BY <1>1, <1>4, NewIs
<1>6. M = [C EXCEPT !.have_config = FALSE]
  BY Zenon DEF StartDeregistration, A, B, C
<1> HIDE DEF C, M
<1>7. M \in Tq330
  BY <1>5, <1>6 DEF Sound, Tq330
<1>8. /\ M.cmdq = C.cmdq /\ M.cphase = C.cphase /\ M.asked = C.asked /\ M.answer = C.answer /\ M.open = C.open
      /\ M.state = C.state /\ M.target = C.target /\ M.ping = C.ping
  BY <1>5, <1>6 DEF Sound, Tq330
<1>9. Sound(M) /\ Waits(M) /\ Pending(M) = Pending(C)
  BY <1>5, <1>7, <1>8, Untouched
<1>10. M.state = "DEREG" /\ M.target = L.target /\ M.open = L.open /\ M.ping = L.ping /\ M.answer = None
  BY <1>3, <1>4, <1>5, <1>8 DEF Alike
<1>11. Queued(M.cmdq) \subseteq {"DSRV"} /\ Pending(M) \subseteq Pending(L) \cup {"DSRV"}
  BY <1>2, <1>4, <1>5, <1>8, <1>9, NoneQueued
<1>12. M.registered => L.registered
  BY <1>3, <1>4, <1>5, <1>6 DEF Alike, Sound, Tq330, A, NewState, LibInv
<1>13. LibInv(M, p, q)
  BY <1>9, <1>10, <1>11, <1>12 DEF LibInv, Coherent, Socketed, PingFirst, Registering, LinkStates, Linked, None
<1>14. OnLink(L, p) /\ L.target \notin Linked => OnLink(M, p)
  BY <1>10 DEF OnLink, Leaving, LinkStates, Linked
<1> QED BY <1>13, <1>14 DEF M

(* The tokens are read again. *)
LEMMA CfgKeeps ==
  ASSUME NEW L, NEW p, NEW q, LibInv(L, p, q), L.state \in {"READCFG", "READTOK", "RUNWAIT", "RUN"}
  PROVE  /\ LibInv(CfgStart(L), p, q)
         /\ OnLink(L, p) /\ (L.registered \/ L.target \notin Linked) => OnLink(CfgStart(L), p)
<1> DEFINE A == NewState(L, "READTOK")
           M == CfgStart(L)
<1>1. "READTOK" \in LibStates /\ "RQMEM" \in Commands
  BY DEF LibStates, Commands
<1>2. Sound(A) /\ Pending(A) = Pending(L)
  BY <1>1, StateIs DEF LibInv
<1>3. /\ A.state = "READTOK" /\ A.target = L.target /\ A.open = L.open /\ A.ping = L.ping
      /\ A.registered = L.registered /\ A.cmdq = L.cmdq /\ A.answer = L.answer
  BY DEF NewState, LibInv, Sound, Tq330
<1> HIDE DEF A
<1>4. /\ Sound(M) /\ Waits(M) /\ Alike(A, M) /\ Queued(M.cmdq) = Queued(L.cmdq) \cup {"RQMEM"}
      /\ M.cmdq = (IF "RQMEM" \in Queued(L.cmdq) THEN L.cmdq ELSE Append(L.cmdq, "RQMEM"))
      /\ M.answer \in {L.answer, None} /\ Pending(M) \subseteq Pending(L) \cup Queued(L.cmdq) \cup {"RQMEM"}
  BY <1>1, <1>2, <1>3, NewIs DEF CfgStart, A
<1> HIDE DEF M
<1>5. Queued(L.cmdq) \subseteq Setup \cup {"RQMEM"} /\ (L.state # "READTOK" => "RQMEM" \notin Queued(L.cmdq))
  BY NoneQueued DEF LibInv, Coherent, Setup
<1>6. MemLast(M.cmdq)
  <2>1. CASE "RQMEM" \in Queued(L.cmdq)
    BY <1>4, <1>5, <2>1 DEF LibInv, Coherent
  <2>2. CASE "RQMEM" \notin Queued(L.cmdq)
    BY <1>1, <1>4, <2>2, Appended DEF LibInv, Sound, Tq330
  <2> QED BY <2>1, <2>2
<1>7. L.ping # "req" /\ "SRVRSP" \notin Setup
  BY DEF LibInv, PingFirst, Setup
<1>8. M.state = "READTOK" /\ M.target = L.target /\ M.open = L.open /\ M.ping = L.ping /\ M.registered = L.registered
  BY <1>3, <1>4 DEF Alike
<1>9. LibInv(M, p, q)
  BY <1>4, <1>5, <1>6, <1>7, <1>8 DEF LibInv, Coherent, Socketed, PingFirst, Registering, None
<1>10. OnLink(L, p) /\ (L.registered \/ L.target \notin Linked) => OnLink(M, p)
  BY <1>4, <1>8 DEF OnLink, Leaving, LinkStates, Linked
<1> QED BY <1>9, <1>10 DEF M

LEMMA DeallocKeeps ==
  ASSUME NEW L, NEW p, NEW q, LibInv(L, p, q), L.state \in Linked
  PROVE  /\ LibInv(StartDeallocation(L), p, q)
         /\ OnLink(L, p) /\ (L.target \notin Linked \/ (L.state = "RUN" /\ L.target = "RUNWAIT")) =>
              OnLink(StartDeallocation(L), p)
<1>1. L.state \in LinkStates /\ L.state \in {"READCFG", "READTOK", "RUNWAIT", "RUN"}
  BY DEF LinkStates, Linked
<1>2. CASE L.liberr = "tokens"
  <2>1. StartDeallocation(L) = CfgStart(L)
    BY <1>2 DEF StartDeallocation
  <2>2. OnLink(L, p) => L.registered \/ L.target \notin Linked
    BY <1>1 DEF OnLink, Leaving
  <2> QED BY <1>1, <2>1, <2>2, CfgKeeps
<1>3. CASE L.liberr = "notr"
  <2> DEFINE A == [NewState(L, "WAIT") EXCEPT !.registered = FALSE]
             M == StartDeallocation(L)
  <2>1. A \in Tq330 /\ A = [L EXCEPT !.state = "WAIT", !.registered = FALSE]
    BY DEF LibInv, Sound, Tq330, NewState, LibStates
  <2> HIDE DEF A
  <2>2. M = CloseSockets(A)
    BY <1>3, Zenon DEF StartDeallocation, A
  <2>3. M \in Tq330 /\ Matched(M) /\ M = [A EXCEPT !.open = FALSE, !.asked = {}, !.answer = None] /\ Pending(M) = {}
    BY <2>1, <2>2, ClosedIs
  <2> HIDE DEF M
  <2>4. /\ M.state = "WAIT" /\ M.registered = FALSE /\ M.target = L.target /\ M.answer = None
        /\ M.cmdq = L.cmdq /\ M.cphase = L.cphase /\ M.ping = L.ping
    BY <2>1, <2>3 DEF LibInv, Sound, Tq330
  <2>5. Sound(M) /\ Waits(M)
    BY <2>3, <2>4 DEF LibInv, Sound, QueuedOnce, Waits
  <2>6. L.ping # "req"
    BY <1>1 DEF LibInv, PingFirst, Linked
  <2>7. LibInv(M, p, q) /\ OnLink(M, p)
    BY <2>3, <2>4, <2>5, <2>6 DEF LibInv, Coherent, Socketed, PingFirst, Registering, OnLink, Leaving, LinkStates, Linked, None
  <2> QED BY <2>7 DEF M
<1>4. CASE L.liberr \notin {"tokens", "notr"}
  <2>1. StartDeallocation(L) = StartDeregistration(L)
    BY <1>4 DEF StartDeallocation
  <2>2. OnLink(L, p) => ~ (L.state = "RUN" /\ L.target = "RUNWAIT")
    BY <1>4 DEF OnLink
  <2> QED BY <1>1, <2>1, <2>2, DeregKeeps
<1> QED BY <1>2, <1>3, <1>4

(* Setting out for a link or a ping, from rest. *)
LEMMA RegistrationKeeps ==
  ASSUME NEW L, NEW p, NEW q, LibInv(L, p, q), L.state \in {"IDLE", "WAIT"}, NEW ok \in BOOLEAN
  PROVE  LibInv(StartRegistration(L, ok), p, q) /\ OnLink(StartRegistration(L, ok), p)
<1> DEFINE A == CloseSockets(L)
           M == StartRegistration(L, ok)
<1>1. A \in Tq330 /\ Matched(A) /\ A = [L EXCEPT !.open = FALSE, !.asked = {}, !.answer = None] /\ A.asked = {}
      /\ A.answer = None
  BY ClosedIs DEF LibInv, Sound
<1>2. /\ A.state = L.state /\ A.target = L.target /\ A.open = FALSE /\ A.cmdq = L.cmdq /\ A.cphase = L.cphase
      /\ A.ping = L.ping
  BY <1>1 DEF LibInv, Sound, Tq330
<1> HIDE DEF A
<1>3. L.ping # "req"
  BY DEF LibInv, PingFirst
<1>4. CASE ok
  <2> DEFINE B == [NewState([A EXCEPT !.open = TRUE], "REG") EXCEPT !.registered = FALSE, !.have_config = FALSE, !.cmdq = << >>]
  <2>1. M = NewCmd(B, "RQSRV")
    BY <1>4, Zenon DEF StartRegistration, ContinueRegistration, A
  <2>2. B \in Tq330
    BY <1>1, NoneQueued DEF Tq330, NewState, LibStates
  <2>3. /\ B.state = "REG" /\ B.target = L.target /\ B.registered = FALSE /\ B.cmdq = << >> /\ B.asked = {}
        /\ B.answer = None /\ B.ping = L.ping /\ B.open = TRUE
    BY <1>1, <1>2 DEF Tq330, NewState
  <2> HIDE DEF B
  <2>4. Sound(B) /\ Pending(B) = {}
    BY <2>2, <2>3 DEF Sound, QueuedOnce, Matched, Pending
  <2>5. "RQSRV" \in Commands
    BY DEF Commands
  <2>6. /\ Sound(M) /\ Waits(M) /\ Alike(B, M) /\ M.cmdq = Append(<< >>, "RQSRV") /\ Queued(M.cmdq) = {"RQSRV"}
        /\ M.answer = None /\ Pending(M) \subseteq {"RQSRV"}
    <3>1. Queued(<< >>) = {}
      BY NoneQueued
    <3>2. /\ Sound(NewCmd(B, "RQSRV")) /\ Waits(NewCmd(B, "RQSRV")) /\ Alike(B, NewCmd(B, "RQSRV"))
          /\ NewCmd(B, "RQSRV").cmdq = (IF "RQSRV" \in Queued(B.cmdq) THEN B.cmdq ELSE Append(B.cmdq, "RQSRV"))
          /\ Queued(NewCmd(B, "RQSRV").cmdq) = Queued(B.cmdq) \cup {"RQSRV"}
          /\ NewCmd(B, "RQSRV").answer \in {B.answer, None}
          /\ Pending(NewCmd(B, "RQSRV")) \subseteq Pending(B) \cup Queued(B.cmdq) \cup {"RQSRV"}
      BY <2>4, <2>5, NewIs
    <3>3. Queued(B.cmdq) = {}
      BY <2>3, <3>1
    <3> QED BY <2>1, <2>3, <2>4, <3>2, <3>3
  <2>7. Tail(M.cmdq) = << >>
    BY <2>5, <2>6, Appended, NoneQueued
  <2> HIDE DEF M
  <2>8. /\ M.state = "REG" /\ M.target = L.target /\ M.registered = FALSE /\ M.ping = L.ping
    BY <2>3, <2>6 DEF Alike
  <2>9. LibInv(M, p, q) /\ OnLink(M, p)
    BY <1>3, <2>6, <2>7, <2>8 DEF LibInv, Coherent, Socketed, PingFirst, Registering, OnLink, Leaving, LinkStates, Linked, None
  <2> QED BY <2>9 DEF M
<1>5. CASE ~ ok
  <2>1. M = [ChangeState(A, "WAIT", "other") EXCEPT !.registered = FALSE]
    BY <1>5, Zenon DEF StartRegistration, A
  <2>2. M \in Tq330
    <3>1. A \in Tq330
      BY <1>1
    <3>2. ChangeState(A, "WAIT", "other") \in Tq330
      BY <3>1 DEF Tq330, ChangeState, LibStates, Reasons
    <3> QED BY <2>1, <3>2 DEF Tq330
  <2>3. /\ M.state = L.state /\ M.target = "WAIT" /\ M.registered = FALSE /\ M.ping = L.ping /\ M.cmdq = L.cmdq
        /\ M.cphase = L.cphase /\ M.asked = {} /\ M.answer = None /\ M.open = FALSE
    BY <1>1, <1>2, <2>1 DEF Tq330, ChangeState
  <2> HIDE DEF M
  <2>4. Sound(M) /\ Waits(M) /\ Pending(M) = {}
    BY <2>2, <2>3 DEF LibInv, Sound, QueuedOnce, Matched, Waits, Pending
  <2>5. LibInv(M, p, q) /\ OnLink(M, p)
    BY <1>3, <2>3, <2>4 DEF LibInv, Coherent, Socketed, PingFirst, Registering, OnLink, Leaving, LinkStates, Linked, Targets, None
  <2> QED BY <2>5 DEF M
<1> QED BY <1>4, <1>5

LEMMA StartPingKeeps ==
  ASSUME NEW L, NEW p, NEW q, LibInv(L, p, q), L.state = "IDLE", L.target = "PING", NEW ok \in BOOLEAN
  PROVE  LibInv(StartPing(L, ok), p, q) /\ OnLink(StartPing(L, ok), p)
<1> DEFINE A == CloseSockets(L)
           M == StartPing(L, ok)
<1>1. A \in Tq330 /\ A = [L EXCEPT !.open = FALSE, !.asked = {}, !.answer = None]
  BY ClosedIs DEF LibInv, Sound
<1>2. L.cphase = "idle" /\ L.ping # "req" /\ ~ L.registered
  BY DEF LibInv, PingFirst, Socketed
<1> HIDE DEF A
<1>3. CASE ok
  <2>1. M = [A EXCEPT !.open = TRUE, !.state = "PING", !.registered = FALSE,
                      !.have_config = FALSE, !.ping = "req", !.cmdq = << >>]
    BY <1>3, Zenon DEF StartPing, A
  <2>2. M \in Tq330
    <3>1. A \in Tq330 /\ << >> \in Seq(Commands)
      BY <1>1, NoneQueued
    <3> QED BY <2>1, <3>1 DEF Tq330, LibStates
  <2>3. /\ M.state = "PING" /\ M.target = "PING" /\ M.registered = FALSE /\ M.ping = "req" /\ M.cmdq = << >>
        /\ M.cphase = "idle" /\ M.asked = {} /\ M.answer = None /\ M.open = TRUE
    BY <1>1, <1>2, <2>1 DEF LibInv, Sound, Tq330
  <2> HIDE DEF M
  <2>4. Sound(M) /\ Waits(M) /\ Pending(M) = {}
    BY <2>2, <2>3 DEF Sound, QueuedOnce, Matched, Waits, Pending
  <2>5. LibInv(M, p, q) /\ OnLink(M, p)
    BY <2>3, <2>4, NoneQueued DEF LibInv, Coherent, Socketed, PingFirst, Registering, OnLink, Leaving, LinkStates, Linked, None
  <2> QED BY <2>5 DEF M
<1>4. CASE ~ ok
  <2>1. M = ChangeState(A, "IDLE", "other")
    BY <1>4, Zenon DEF StartPing, A
  <2>2. M \in Tq330
    <3>1. A \in Tq330
      BY <1>1
    <3>2. ChangeState(A, "IDLE", "other") \in Tq330
      BY <3>1 DEF Tq330, ChangeState, LibStates, Reasons
    <3> QED BY <2>1, <3>2 DEF Tq330
  <2>3. /\ M.state = "IDLE" /\ M.target = "IDLE" /\ M.registered = FALSE /\ M.ping = L.ping /\ M.cmdq = L.cmdq
        /\ M.cphase = "idle" /\ M.asked = {} /\ M.answer = None /\ M.open = FALSE
    BY <1>1, <1>2, <2>1 DEF LibInv, Sound, Tq330, ChangeState
  <2> HIDE DEF M
  <2>4. Sound(M) /\ Waits(M) /\ Pending(M) = {}
    BY <2>2, <2>3 DEF LibInv, Sound, QueuedOnce, Matched, Waits, Pending
  <2>5. LibInv(M, p, q) /\ OnLink(M, p)
    BY <1>2, <2>3, <2>4 DEF LibInv, Coherent, Socketed, PingFirst, Registering, OnLink, Leaving, LinkStates, Linked, Targets, None
  <2> QED BY <2>5 DEF M
<1> QED BY <1>3, <1>4

(* At rest, or at its end, without a link. *)
LEMMA RestKeeps ==
  ASSUME NEW L, NEW p, NEW q, LibInv(L, p, q), NEW M \in Tq330, NEW s \in Targets \ {"PING"}, M.state = s, M.target = s,
         s \notin Linked, M.registered => s = "TERM" /\ L.registered /\ M.open = L.open,
         M.open = L.open \/ ~ M.open,
         M.asked = (IF M.open THEN L.asked ELSE {}), M.answer = (IF M.open THEN L.answer ELSE None),
         M.cmdq = L.cmdq, M.cphase = L.cphase, M.ping = L.ping, L.ping # "req",
         L.state # "TERM", s # "TERM" /\ "SRVRSP" \in Pending(M) => L.state # "REG"
  PROVE  LibInv(M, p, q) /\ OnLink(M, p)
<1>1. Sound(M) /\ Waits(M)
  BY DEF LibInv, Sound, Matched, QueuedOnce, Waits
<1>2. Pending(M) \subseteq Pending(L) /\ M.answer \in {L.answer, None}
  BY DEF Pending
<1>3. s \in {"IDLE", "WAIT", "TERM"}
  BY DEF Targets, Linked
<1>4. LibInv(M, p, q)
  BY <1>1, <1>2, <1>3 DEF LibInv, Coherent, Socketed, PingFirst, Registering, Targets, None
<1>5. OnLink(M, p)
  BY <1>3 DEF OnLink, Leaving, LinkStates, Linked
<1> QED BY <1>4, <1>5

(* lib_timer, following the target. *)
LEMMA RetargetKeeps ==
  ASSUME NEW L, NEW p, NEW q, LibInv(L, p, q), L.state \notin {L.target, "TERM"}, NEW ok \in BOOLEAN
  PROVE  LibInv(Retargeted(L, ok), p, q) /\ (OnLink(L, p) => OnLink(Retargeted(L, ok), p))
<1> DEFINE M == Retargeted(L, ok)
<1>0. L \in Tq330 /\ L.state \in LibStates /\ L.target \in Targets
  BY DEF LibInv, Sound, Tq330
<1>1. CASE L.target \in {"WAIT", "IDLE"}
  <2>0. L.target \in Targets \ {"PING"} /\ L.target \notin Linked /\ L.target \in LibStates
    BY <1>1 DEF Targets, Linked, LibStates
  <2>1. CASE L.state \in {"IDLE", "WAIT"}
    <3>1. M = NewState(L, L.target)
      BY <1>1, <2>1 DEF Retargeted
    <3>2. /\ M \in Tq330 /\ M.state = L.target /\ M.target = L.target /\ M.registered = L.registered /\ M.open = L.open
          /\ M.asked = L.asked /\ M.answer = L.answer /\ M.cmdq = L.cmdq /\ M.cphase = L.cphase /\ M.ping = L.ping
      BY <1>0, <2>0, <3>1 DEF Tq330, NewState
    <3>3. L.ping # "req" /\ ~ L.registered /\ (~ L.open => L.asked = {} /\ L.answer = None)
      BY <2>1 DEF LibInv, PingFirst, Socketed, Sound, Matched
    <3> HIDE DEF M
    <3> QED BY <2>0, <2>1, <3>2, <3>3, RestKeeps DEF M
  <2>2. CASE L.state = "REG"
    <3> DEFINE C == CloseSockets(L)
    <3>1. M = NewState(C, L.target)
      BY <1>1, <2>2, Zenon DEF Retargeted
    <3>2. C \in Tq330 /\ C = [L EXCEPT !.open = FALSE, !.asked = {}, !.answer = None]
      BY <1>0, ClosedIs
    <3>3. /\ C.target = L.target /\ C.registered = L.registered /\ C.open = FALSE /\ C.asked = {}
          /\ C.answer = None /\ C.cmdq = L.cmdq /\ C.cphase = L.cphase /\ C.ping = L.ping
      BY <1>0, <3>2 DEF Tq330
    <3> HIDE DEF C
    <3>4. C \in Tq330
      BY <3>2
    <3>5. /\ M \in Tq330 /\ M.state = L.target /\ M.target = L.target /\ M.registered = L.registered /\ M.open = FALSE
          /\ M.asked = {} /\ M.answer = None /\ M.cmdq = L.cmdq /\ M.cphase = L.cphase /\ M.ping = L.ping
      BY <2>0, <3>1, <3>3, <3>4 DEF Tq330, NewState
    <3>6. L.ping # "req" /\ ~ L.registered
      BY <2>2 DEF LibInv, PingFirst, Socketed
    <3>7. Pending(M) = {}
      BY <3>5 DEF Pending
    <3> HIDE DEF M
    <3> QED BY <2>0, <2>2, <3>5, <3>6, <3>7, RestKeeps DEF M
  <2>3. CASE L.state \in {"READCFG", "READTOK", "DECTOK"}
    <3>1. M = StartDeregistration(L)
      BY <1>1, <2>3 DEF Retargeted
    <3>2. L.state \in LinkStates
      BY <2>3 DEF LinkStates
    <3> QED BY <2>0, <3>1, <3>2, DeregKeeps
  <2>4. CASE L.state \in {"RUNWAIT", "RUN"}
    <3>1. M = StartDeallocation(L)
      BY <1>1, <2>4 DEF Retargeted
    <3>2. L.state \in Linked
      BY <2>4 DEF Linked
    <3> QED BY <2>0, <3>1, <3>2, DeallocKeeps
  <2>5. CASE L.state = "PING"
    <3> DEFINE A == [NewState(L, L.target) EXCEPT !.registered = FALSE]
    <3>1. M = CloseSockets(A)
      BY <1>1, <2>5, Zenon DEF Retargeted
    <3>2. A \in Tq330
      BY <1>0, <2>0 DEF Tq330, NewState
    <3>3. /\ A.state = L.target /\ A.target = L.target /\ A.registered = FALSE
          /\ A.cmdq = L.cmdq /\ A.cphase = L.cphase /\ A.ping = L.ping
      BY <1>0 DEF Tq330, NewState
    <3> HIDE DEF A
    <3>4. M \in Tq330 /\ M = [A EXCEPT !.open = FALSE, !.asked = {}, !.answer = None] /\ Pending(M) = {}
      BY <3>1, <3>2, ClosedIs
    <3>5. /\ M.state = L.target /\ M.target = L.target /\ M.registered = FALSE /\ M.open = FALSE /\ M.asked = {}
          /\ M.answer = None /\ M.cmdq = L.cmdq /\ M.cphase = L.cphase /\ M.ping = L.ping
      BY <3>2, <3>3, <3>4 DEF Tq330
    <3>6. L.ping # "req"
      BY <1>1 DEF LibInv, PingFirst
    <3> HIDE DEF M
    <3> QED BY <2>0, <2>5, <3>4, <3>5, <3>6, RestKeeps DEF M
  <2>6. CASE L.state = "DEREG"
    <3>1. M = L
      BY <1>1, <2>6 DEF Retargeted
    <3> QED BY <3>1
  <2> QED BY <1>0, <2>1, <2>2, <2>3, <2>4, <2>5, <2>6 DEF LibStates
<1>2. CASE L.target = "RUNWAIT"
  <2>1. CASE L.state = "DECTOK"
    <3>1. M = NewState(L, "RUNWAIT")
      BY <1>2, <2>1 DEF Retargeted
    <3>2. /\ M.state = "RUNWAIT" /\ M.target = L.target /\ M.registered = L.registered /\ M.open = L.open
          /\ M.answer = L.answer /\ M.cmdq = L.cmdq /\ M.ping = L.ping
      BY <1>0, <3>1 DEF Tq330, NewState
    <3>3. Sound(M) /\ Waits(M) /\ Pending(M) = Pending(L)
      BY <3>1, StateIs DEF LibInv, LibStates
    <3> HIDE DEF M
    <3>4. LibInv(M, p, q) /\ (OnLink(L, p) => OnLink(M, p))
      BY <1>2, <2>1, <3>2, <3>3 DEF LibInv, Coherent, Socketed, PingFirst, Registering, OnLink, Leaving, LinkStates, Linked
    <3> QED BY <3>4 DEF M
  <2>2. CASE L.state = "RUN"
    <3>1. M = StartDeallocation(L)
      BY <1>2, <2>2 DEF Retargeted
    <3> QED BY <1>2, <2>2, <3>1, DeallocKeeps DEF Linked
  <2>3. CASE L.state \in {"IDLE", "WAIT"}
    <3>1. M = StartRegistration(L, ok)
      BY <1>2, <2>3 DEF Retargeted
    <3> QED BY <2>3, <3>1, RegistrationKeeps
  <2>4. CASE L.state \notin {"DECTOK", "RUN", "IDLE", "WAIT"}
    <3>1. M = L
      BY <1>2, <2>4 DEF Retargeted
    <3> QED BY <3>1
  <2> QED BY <2>1, <2>2, <2>3, <2>4
<1>3. CASE L.target = "RUN"
  <2>1. CASE L.state = "RUNWAIT"
    <3>1. M = NewState(L, "RUN")
      BY <1>3, <2>1 DEF Retargeted
    <3>2. /\ M.state = "RUN" /\ M.target = L.target /\ M.registered = L.registered /\ M.open = L.open
          /\ M.answer = L.answer /\ M.cmdq = L.cmdq /\ M.ping = L.ping
      BY <1>0, <3>1 DEF Tq330, NewState
    <3>3. Sound(M) /\ Waits(M) /\ Pending(M) = Pending(L)
      BY <3>1, StateIs DEF LibInv, LibStates
    <3> HIDE DEF M
    <3>4. LibInv(M, p, q) /\ (OnLink(L, p) => OnLink(M, p))
      BY <1>3, <2>1, <3>2, <3>3, NoneQueued DEF LibInv, Coherent, Socketed, PingFirst, Registering, OnLink, Leaving, LinkStates, Linked
    <3> QED BY <3>4 DEF M
  <2>2. CASE L.state # "RUNWAIT"
    <3>1. M = L
      BY <1>3, <2>2 DEF Retargeted
    <3> QED BY <3>1
  <2> QED BY <2>1, <2>2
<1>4. CASE L.target = "PING"
  <2>1. CASE L.state = "IDLE"
    <3>1. M = StartPing(L, ok)
      BY <1>4, <2>1 DEF Retargeted
    <3> QED BY <1>4, <2>1, <3>1, StartPingKeeps
  <2>2. CASE L.state # "IDLE"
    <3>1. M = L
      BY <1>4, <2>2 DEF Retargeted
    <3> QED BY <3>1
  <2> QED BY <2>1, <2>2
<1>5. CASE L.target = "TERM"
  <2>1. M = NewState(L, "TERM")
    BY <1>5 DEF Retargeted
  <2>2. /\ M \in Tq330 /\ M.state = "TERM" /\ M.target = "TERM" /\ M.registered = L.registered /\ M.open = L.open
        /\ M.asked = L.asked /\ M.answer = L.answer /\ M.cmdq = L.cmdq /\ M.cphase = L.cphase /\ M.ping = L.ping
    BY <1>0, <1>5, <2>1 DEF Tq330, NewState, LibStates
  <2>3. L.ping # "req" /\ (~ L.open => L.asked = {} /\ L.answer = None)
    BY <1>5 DEF LibInv, PingFirst, Sound, Matched
  <2>4. "TERM" \in Targets \ {"PING"} /\ "TERM" \notin Linked
    BY DEF Targets, Linked
  <2> HIDE DEF M
  <2> QED BY <2>2, <2>3, <2>4, RestKeeps DEF M
<1> QED BY <1>0, <1>1, <1>2, <1>3, <1>4, <1>5 DEF Targets, Linked
------------------------------------------------------------------------------
(* Commands queued and sent. *)
LEMMA QueueKeeps ==
  ASSUME NEW L, NEW p, NEW q, LibInv(L, p, q), NEW c \in Commands,
         \/ L.state = "REG" /\ L.cmdq = << >> /\ L.answer = None /\ c \in {"RQSRV", "SRVRSP"}
         \/ L.state \in {"READCFG", "RUN"} /\ c \in Setup
         \/ L.state = "PING" /\ L.ping # "req" /\ c = "PING"
  PROVE  LibInv(NewCmd(L, c), p, q) /\ (OnLink(L, p) => OnLink(NewCmd(L, c), p))
<1> DEFINE M == NewCmd(L, c)
<1>1. /\ Sound(M) /\ Waits(M) /\ Alike(L, M) /\ Queued(M.cmdq) = Queued(L.cmdq) \cup {c}
      /\ M.cmdq = (IF c \in Queued(L.cmdq) THEN L.cmdq ELSE Append(L.cmdq, c))
      /\ M.answer \in {L.answer, None} /\ Pending(M) \subseteq Pending(L) \cup Queued(L.cmdq) \cup {c}
  BY NewIs DEF LibInv
<1> HIDE DEF M
<1>2. L.state = "REG" => Tail(M.cmdq) = << >> /\ Queued(L.cmdq) = {}
  BY <1>1, Appended, NoneQueued DEF Setup
<1>3. L.state # "REG" => "SRVRSP" \notin Queued(L.cmdq) \cup {c}
  BY DEF LibInv, Coherent, Setup
<1>4. Coherent(M)
  BY <1>1, <1>2 DEF LibInv, Coherent, Alike
<1>5. L.ping # "req"
  BY DEF LibInv, PingFirst
<1>6. Registering(M, p)
  BY <1>1, <1>3 DEF LibInv, Registering, Alike, None
<1>7. LibInv(M, p, q)
  BY <1>1, <1>4, <1>5, <1>6 DEF LibInv, Socketed, PingFirst, Alike
<1>8. OnLink(L, p) => OnLink(M, p)
  BY <1>1 DEF OnLink, Leaving, Alike
<1> QED BY <1>7, <1>8 DEF M

LEMMA SendKeeps ==
  ASSUME NEW L, NEW p, NEW q, LibInv(L, p, q), L.state \notin {"IDLE", "TERM", "WAIT"}, NEW K,
         \/ K = L /\ L.cphase # "wait"
         \/ K = [L EXCEPT !.cphase = "need"] /\ L.cmdq # << >>
  PROVE  LibInv(SendNext(K), p, q) /\ (OnLink(L, p) => OnLink(SendNext(K), p))
<1> DEFINE M == SendNext(K)
<1>1. K \in Tq330 /\ Alike(L, K) /\ K.cmdq = L.cmdq /\ K.asked = L.asked /\ K.answer = L.answer /\ K.cphase # "wait"
  BY DEF LibInv, Sound, Tq330, Alike
<1>2. QueuedOnce(K) /\ (~ K.open => K.asked = {}) /\ Waits(K) /\ Pending(K) = Pending(L)
  BY <1>1 DEF LibInv, Sound, QueuedOnce, Matched, Waits, Pending, Alike
<1>3. K.cphase = "wait" \/ K.cmdq = << >> => Matched(K)
  BY <1>1 DEF LibInv, Sound
<1>4. L.cmdq = << >> => L.answer = None
  BY DEF LibInv, Sound, Matched
<1> HIDE DEF M
<1>5. /\ Sound(M) /\ Waits(M) /\ Alike(K, M) /\ M.cmdq = L.cmdq /\ M.answer = None
      /\ Pending(M) \subseteq Pending(L) \cup Queued(L.cmdq)
  BY <1>1, <1>2, <1>3, <1>4, SentIs DEF M
<1>6. Alike(L, M)
  BY <1>1, <1>5 DEF Alike
<1>7. L.state # "REG" => "SRVRSP" \notin Queued(L.cmdq)
  <2>1. L.state \in LibStates
    BY DEF LibInv, Sound, Tq330
  <2> QED BY <2>1, NoneQueued DEF LibInv, Coherent, Setup, LibStates
<1>8. LibInv(M, p, q)
  BY <1>5, <1>6, <1>7 DEF LibInv, Coherent, Socketed, PingFirst, Registering, Alike, None
<1>9. OnLink(L, p) => OnLink(M, p)
  BY <1>5, <1>6 DEF OnLink, Leaving, Alike
<1> QED BY <1>8, <1>9 DEF M

(* The end of a ping. *)
PingOver(L) == [L EXCEPT !.ping = "idle", !.target = IF L.state = "PING" THEN "IDLE" ELSE @]

LEMMA PingOverKeeps ==
  ASSUME NEW L, NEW p, NEW q, LibInv(L, p, q)
  PROVE  LibInv(PingOver(L), p, q) /\ (OnLink(L, p) => OnLink(PingOver(L), p))
<1> DEFINE M == PingOver(L)
<1>1. M \in Tq330
  BY DEF LibInv, Sound, Tq330, PingOver, LibStates
<1>2. /\ M.cmdq = L.cmdq /\ M.cphase = L.cphase /\ M.asked = L.asked /\ M.answer = L.answer /\ M.open = L.open
      /\ M.state = L.state /\ M.registered = L.registered /\ M.ping = "idle" /\ M.liberr = L.liberr
      /\ M.target = (IF L.state = "PING" THEN "IDLE" ELSE L.target)
  BY DEF LibInv, Sound, Tq330, PingOver
<1> HIDE DEF M
<1>3. Sound(M) /\ (Waits(L) => Waits(M)) /\ Pending(M) = Pending(L)
  BY <1>1, <1>2, Untouched DEF LibInv
<1>4. LibInv(M, p, q)
  BY <1>2, <1>3 DEF LibInv, Coherent, Socketed, PingFirst, Registering, Targets
<1>5. OnLink(L, p) => OnLink(M, p)
  BY <1>2 DEF OnLink, Leaving, LinkStates, Linked
<1> QED BY <1>4, <1>5 DEF M

LEMMA CommandTimeoutKeeps ==
  ASSUME NEW p, NEW q, LibInv(lib, p, q), CommandTimeout
  PROVE  LibInv(lib', p, q) /\ (OnLink(lib, p) => OnLink(lib', p))
<1>1. lib.state \notin {"IDLE", "TERM", "WAIT"} /\ lib.cphase = "wait" /\ lib.cmdq # << >>
  BY DEF CommandTimeout, Busy, LibInv, Waits
<1>2. CASE Head(lib.cmdq) = "PING"
  <2> DEFINE A == ClearCmsg(lib)
             B == IF lib.ping = "sent" THEN PingOver(A) ELSE A
  <2>1. LibInv(A, p, q) /\ (OnLink(lib, p) => OnLink(A, p)) /\ A.cphase = "idle" /\ A.state = lib.state /\ A.ping = lib.ping
    BY ClearKeeps, ClearedIs DEF LibInv, Alike
  <2>2. lib' = SendNext(B)
    BY <1>2, <2>1, Zenon DEF CommandTimeout, PingOver
  <2> HIDE DEF A
  <2>3. LibInv(B, p, q) /\ (OnLink(A, p) => OnLink(B, p))
    BY <2>1, PingOverKeeps
  <2>4. B.cphase = "idle" /\ B.state = lib.state
    BY <2>1 DEF PingOver, LibInv, Sound, Tq330
  <2> HIDE DEF B
  <2> QED BY <1>1, <2>1, <2>2, <2>3, <2>4, SendKeeps
<1>3. CASE Head(lib.cmdq) # "PING"
  <2>1. lib' = SendNext([lib EXCEPT !.cphase = "need"])
    BY <1>3 DEF CommandTimeout
  <2> QED BY <1>1, <2>1, SendKeeps
<1> QED BY <1>2, <1>3

LEMMA SendPingKeeps ==
  ASSUME NEW p, NEW q, LibInv(lib, p, q), SendPing
  PROVE  LibInv(lib', p, q) /\ (OnLink(lib, p) => OnLink(lib', p))
<1> DEFINE A == [lib EXCEPT !.ping = "sent"]
<1>1. lib.state = "PING" /\ lib.cmdq = << >>
  BY DEF SendPing, LibInv, PingFirst
<1>2. A \in Tq330
  BY DEF LibInv, Sound, Tq330
<1>3. /\ A.cmdq = lib.cmdq /\ A.cphase = lib.cphase /\ A.asked = lib.asked /\ A.answer = lib.answer /\ A.open = lib.open
      /\ A.state = lib.state /\ A.registered = lib.registered /\ A.ping = "sent" /\ A.liberr = lib.liberr
      /\ A.target = lib.target
  BY DEF LibInv, Sound, Tq330
<1>4. lib' = NewCmd(A, "PING") /\ "PING" \in Commands
  BY DEF SendPing, Commands
<1> HIDE DEF A
<1>5. Sound(A) /\ Waits(A) /\ Pending(A) = Pending(lib)
  BY <1>2, <1>3, Untouched DEF LibInv
<1>6. LibInv(A, p, q)
  BY <1>3, <1>5 DEF LibInv, Coherent, Socketed, PingFirst, Registering
<1>7. OnLink(lib, p) => OnLink(A, p)
  BY <1>3 DEF OnLink, Leaving
<1> QED BY <1>1, <1>3, <1>4, <1>6, <1>7, QueueKeeps

LEMMA SendFailsKeeps ==
  ASSUME NEW p, NEW q, LibInv(lib, p, q), SendFails
  PROVE  LibInv(lib', p, q) /\ (OnLink(lib, p) => OnLink(lib', p))
<1> DEFINE A == PurgeCmdq(lib)
           B == ChangeState(A, "WAIT", "notr")
           C == CloseSockets(B)
<1>1. lib.state \notin {"IDLE", "TERM", "WAIT"} /\ lib.cmdq # << >>
  BY DEF SendFails, Busy, LibInv, Sound, Matched
<1>2. Sound(A) /\ Alike(lib, A) /\ A.cmdq = << >> /\ A.cphase = "idle"
  BY PurgedIs DEF LibInv, Sound
<1> HIDE DEF A
<1>3. "WAIT" \in LibStates /\ "notr" \in Reasons
  BY DEF LibStates, Reasons
<1>4. Sound(B) /\ B = [A EXCEPT !.target = "WAIT", !.liberr = "notr"]
  <2>1. Sound(A)
    BY <1>2
  <2>2. Sound(ChangeState(A, "WAIT", "notr"))
    BY <1>3, <2>1, ChangedIs
  <2> QED BY <2>2 DEF ChangeState
<1>5. B.state = lib.state /\ B.target = "WAIT" /\ B.cmdq = << >> /\ B.cphase = "idle" /\ B.ping = lib.ping
  BY <1>2, <1>4 DEF Sound, Tq330, Alike
<1> HIDE DEF B
<1>6. C \in Tq330 /\ C = [B EXCEPT !.open = FALSE, !.asked = {}, !.answer = None]
  BY <1>4, ClosedIs DEF Sound
<1>7. C.state = lib.state /\ C.target = "WAIT" /\ C.cmdq = << >> /\ C.cphase = "idle" /\ C.ping = lib.ping
      /\ C.open = FALSE /\ C.asked = {} /\ C.answer = None
  BY <1>4, <1>5, <1>6 DEF Sound, Tq330
<1>8. lib' = [C EXCEPT !.registered = FALSE]
  BY Zenon DEF SendFails, A, B, C
<1>9. C \in Tq330
  BY <1>6
<1> HIDE DEF C
<1>10. lib' \in Tq330
  BY <1>8, <1>9 DEF Tq330
<1>11. /\ lib'.state = lib.state /\ lib'.target = "WAIT" /\ lib'.cmdq = << >> /\ lib'.cphase = "idle" /\ lib'.ping = lib.ping
       /\ lib'.open = FALSE /\ lib'.asked = {} /\ lib'.answer = None /\ lib'.registered = FALSE
  BY <1>7, <1>8, <1>9 DEF Tq330
<1>12. Sound(lib') /\ Waits(lib') /\ Pending(lib') = {}
  BY <1>10, <1>11 DEF Sound, QueuedOnce, Matched, Waits, Pending
<1>13. LibInv(lib', p, q)
  BY <1>1, <1>11, <1>12, NoneQueued DEF LibInv, Coherent, Socketed, PingFirst, Registering, Targets, None
<1>14. OnLink(lib', p)
  BY <1>1, <1>11 DEF LibInv, Coherent, OnLink, Leaving, LinkStates, Linked
<1> QED BY <1>13, <1>14
------------------------------------------------------------------------------
(* The registration is given up, and nothing is being answered that hangs  *)
(* on it.                                                                  *)
Forgotten(L) == [L EXCEPT !.registered = FALSE]

LEMMA ForgottenKeeps ==
  ASSUME NEW L, NEW p, NEW q, LibInv(L, p, q)
  PROVE  /\ LibInv(Forgotten(L), p, q)
         /\ OnLink(L, p) /\ (L.state \in LinkStates =>
                                  /\ L.state \in {"READCFG", "READTOK", "RUN"} /\ L.target \notin Linked
                                  /\ L.answer \in {None, "NOTR"} /\ (L.open => ~ p))
            => OnLink(Forgotten(L), p)
<1> DEFINE M == Forgotten(L)
<1>1. M \in Tq330
  BY DEF LibInv, Sound, Tq330, Forgotten
<1>2. /\ M.cmdq = L.cmdq /\ M.cphase = L.cphase /\ M.asked = L.asked /\ M.answer = L.answer /\ M.open = L.open
      /\ M.state = L.state /\ M.registered = FALSE /\ M.ping = L.ping /\ M.liberr = L.liberr /\ M.target = L.target
  BY DEF LibInv, Sound, Tq330, Forgotten
<1> HIDE DEF M
<1>3. Sound(M) /\ Waits(M) /\ Pending(M) = Pending(L)
  BY <1>1, <1>2, Untouched DEF LibInv
<1>4. LibInv(M, p, q)
  BY <1>2, <1>3 DEF LibInv, Coherent, Socketed, PingFirst, Registering
<1>5. OnLink(L, p) /\ (L.state \in LinkStates =>
                          /\ L.state \in {"READCFG", "READTOK", "RUN"} /\ L.target \notin Linked
                          /\ L.answer \in {None, "NOTR"} /\ (L.open => ~ p))
      => OnLink(M, p)
  BY <1>2 DEF OnLink, Leaving
<1> QED BY <1>4, <1>5 DEF M

(* Flags that nothing here depends on. *)
LEMMA FlagsKeep ==
  ASSUME NEW L, NEW p, NEW q, LibInv(L, p, q), NEW M \in Tq330, M.state = L.state, M.target = L.target,
         M.liberr = L.liberr, M.registered = L.registered, M.open = L.open, M.ping = L.ping,
         M.cmdq = L.cmdq, M.cphase = L.cphase, M.asked = L.asked, M.answer = L.answer
  PROVE  LibInv(M, p, q) /\ (OnLink(L, p) => OnLink(M, p))
<1>1. Sound(M) /\ Waits(M) /\ Pending(M) = Pending(L)
  BY Untouched DEF LibInv
<1>2. LibInv(M, p, q)
  BY <1>1 DEF LibInv, Coherent, Socketed, PingFirst, Registering
<1>3. OnLink(L, p) => OnLink(M, p)
  BY DEF OnLink, Leaving
<1> QED BY <1>2, <1>3

(* The end of a deregistration, answered or not: A has no command left.    *)
LEMMA EndKeeps ==
  ASSUME NEW L, NEW p, NEW q, LibInv(L, p, q), L.state = "DEREG",
         NEW A, Sound(A), Alike(L, A), A.cmdq = << >>, A.cphase = "idle",
         NEW M, M = CloseSockets([NewState(A, L.target) EXCEPT !.registered = FALSE])
  PROVE  LibInv(M, p, q) /\ (OnLink(L, p) => OnLink(M, p))
<1> DEFINE B == [NewState(A, L.target) EXCEPT !.registered = FALSE]
<1>1. L.target \in LibStates
  BY DEF LibInv, Sound, Tq330
<1>2. A \in Tq330
  BY DEF Sound
<1>3. B \in Tq330
  BY <1>1, <1>2 DEF Tq330, NewState
<1>4. /\ B.state = L.target /\ B.target = L.target /\ B.registered = FALSE /\ B.cmdq = << >> /\ B.cphase = "idle"
      /\ B.ping = L.ping /\ B.liberr = L.liberr
  BY <1>2 DEF Tq330, NewState, Alike
<1> HIDE DEF B
<1>5. /\ M \in Tq330 /\ Matched(M) /\ M = [B EXCEPT !.open = FALSE, !.asked = {}, !.answer = None] /\ Pending(M) = {}
  BY <1>3, ClosedIs DEF B
<1>6. /\ M.state = L.target /\ M.target = L.target /\ M.registered = FALSE /\ M.cmdq = << >> /\ M.cphase = "idle"
      /\ M.ping = L.ping /\ M.liberr = L.liberr /\ M.answer = None /\ M.open = FALSE
  BY <1>3, <1>4, <1>5 DEF Tq330
<1>7. Sound(M) /\ Waits(M)
  <2>1. M \in Tq330 /\ Matched(M)
    BY <1>5
  <2>2. QueuedOnce(A) /\ M.cmdq = A.cmdq
    BY <1>6 DEF Sound
  <2>3. QueuedOnce(M)
    BY <2>2 DEF QueuedOnce
  <2> QED BY <1>6, <2>1, <2>3 DEF Sound, Waits
<1>8. L.ping # "req"
  BY DEF LibInv, PingFirst
<1>9. LibInv(M, p, q)
  BY <1>5, <1>6, <1>7, <1>8, NoneQueued DEF LibInv, Coherent, Socketed, PingFirst, Registering, Targets, Linked, None
<1>10. OnLink(L, p) => OnLink(M, p)
  BY <1>6 DEF LibInv, OnLink, Leaving, LinkStates, Linked, Targets
<1> QED BY <1>9, <1>10

LEMMA DeregTimeoutKeeps ==
  ASSUME NEW p, NEW q, LibInv(lib, p, q), DeregTimeout
  PROVE  LibInv(lib', p, q) /\ (OnLink(lib, p) => OnLink(lib', p))
<1> DEFINE A == PurgeCmdq(lib)
<1>1. Sound(A) /\ Alike(lib, A) /\ A.cmdq = << >> /\ A.cphase = "idle"
  BY PurgedIs DEF LibInv, Sound
<1> HIDE DEF A
<1>2. lib.state = "DEREG" /\ lib' = CloseSockets([NewState(A, lib.target) EXCEPT !.registered = FALSE])
  BY Zenon DEF DeregTimeout, A
<1> QED BY <1>1, <1>2, EndKeeps

(* A new target when nothing is being sent any more. *)
LEMMA GivenUpKeeps ==
  ASSUME NEW L, NEW p, NEW q, LibInv(L, p, q), L.ping # "req", NEW why \in Reasons
  PROVE  /\ LibInv(ChangeState(PurgeCmdq(L), "WAIT", why), p, q)
         /\ OnLink(L, p) => OnLink(ChangeState(PurgeCmdq(L), "WAIT", why), p)
<1> DEFINE A == PurgeCmdq(L)
<1>1. LibInv(A, p, q) /\ (OnLink(L, p) => OnLink(A, p))
  BY PurgeKeeps
<1>2. A.ping # "req"
  BY PurgedIs DEF LibInv, Sound, Alike
<1>3. "WAIT" \in Targets \ {"PING"} /\ "WAIT" \notin Linked
  BY DEF Targets, Linked
<1> HIDE DEF A
<1>4. LibInv(ChangeState(A, "WAIT", why), p, q) /\ (OnLink(A, p) => OnLink(ChangeState(A, "WAIT", why), p))
  BY <1>1, <1>2, <1>3, ChangeKeeps
<1> QED BY <1>1, <1>4 DEF A

LEMMA RegTimeoutKeeps ==
  ASSUME NEW p, NEW q, LibInv(lib, p, q), RegTimeout
  PROVE  LibInv(lib', p, q) /\ (OnLink(lib, p) => OnLink(lib', p))
<1> DEFINE A == ChangeState(PurgeCmdq(lib), "WAIT", "other")
<1>1. lib.state = "REG" /\ lib' = Forgotten(A)
  BY Zenon DEF RegTimeout, Forgotten
<1>2. lib.ping # "req" /\ "other" \in Reasons
  BY <1>1 DEF LibInv, PingFirst, Reasons
<1>3. LibInv(A, p, q) /\ (OnLink(lib, p) => OnLink(A, p))
  BY <1>2, GivenUpKeeps
<1>4. A.state = "REG"
  <2>1. PurgeCmdq(lib) \in Tq330 /\ PurgeCmdq(lib).state = "REG"
    BY <1>1, PurgedIs DEF LibInv, Sound, Alike
  <2> QED BY <2>1 DEF ChangeState, Tq330
<1> HIDE DEF A
<1> QED BY <1>1, <1>3, <1>4, ForgottenKeeps DEF LinkStates, Linked

LEMMA LinkTimeoutsKeep ==
  ASSUME NEW p, NEW q, LibInv(lib, p, q), DataTimeout \/ StatusTimeout \/ ConnectTimeOver \/ WaitOver
  PROVE  LibInv(lib', p, q) /\ (OnLink(lib, p) => OnLink(lib', p))
<1>1. lib.ping # "req"
  BY DEF LibInv, PingFirst, DataTimeout, StatusTimeout, ConnectTimeOver, WaitOver
<1>2. {"notr", "other", "none"} \subseteq Reasons
  BY DEF Reasons
<1>3. CASE DataTimeout
  BY <1>1, <1>2, <1>3, GivenUpKeeps DEF DataTimeout
<1>4. CASE StatusTimeout
  BY <1>1, <1>2, <1>4, GivenUpKeeps DEF StatusTimeout
<1>5. CASE ConnectTimeOver
  <2>1. "WAIT" \in Targets \ {"PING"} /\ "WAIT" \notin Linked
    BY DEF Targets, Linked
  <2> QED BY <1>1, <1>2, <1>5, <2>1, ChangeKeeps DEF ConnectTimeOver
<1>6. CASE WaitOver
  <2>1. "RUNWAIT" \in Targets \ {"PING"} /\ "none" \in Reasons
    BY <1>2 DEF Targets, Linked
  <2>2. lib.state = "WAIT" /\ lib' = ChangeState(lib, "RUNWAIT", "none")
    BY <1>6 DEF WaitOver
  <2>3. LibInv(lib', p, q)
    BY <1>1, <2>1, <2>2, ChangeKeeps
  <2>4. lib'.state = "WAIT"
    BY <2>2 DEF LibInv, Sound, Tq330, ChangeState
  <2> QED BY <2>3, <2>4 DEF OnLink, Leaving, LinkStates, Linked
<1> QED BY <1>3, <1>4, <1>5, <1>6

LEMMA SendQueuedKeeps ==
  ASSUME NEW p, NEW q, LibInv(lib, p, q), SendQueued \/ RequestStatus
  PROVE  LibInv(lib', p, q) /\ (OnLink(lib, p) => OnLink(lib', p))
<1>1. CASE SendQueued
  BY <1>1, SendKeeps DEF SendQueued, Busy
<1>2. CASE RequestStatus
  <2>1. lib.state = "RUN" /\ lib' = NewCmd(lib, "RQSTAT")
    BY <1>2 DEF RequestStatus
  <2>2. "RQSTAT" \in Commands /\ "RQSTAT" \in Setup
    BY DEF Commands, Setup
  <2> QED BY <2>1, <2>2, QueueKeeps
<1> QED BY <1>1, <1>2
------------------------------------------------------------------------------
(* The library hears from the digitizer. *)

(* What the command that is waited for says of the state. *)
LEMMA HeadSays ==
  ASSUME NEW L, NEW p, NEW q, LibInv(L, p, q), L.state \notin {"IDLE", "TERM", "WAIT"}, L.cmdq # << >>
  PROVE  /\ Head(L.cmdq) \in Commands /\ L.ping # "req"
         /\ Head(L.cmdq) \in {"RQSRV", "SRVRSP"} => L.state = "REG" /\ Tail(L.cmdq) = << >>
         /\ Head(L.cmdq) = "DSRV" => L.state = "DEREG" /\ Tail(L.cmdq) = << >>
         /\ Head(L.cmdq) = "PING" => L.state = "PING"
         /\ Head(L.cmdq) \in Setup => L.state \in {"READCFG", "READTOK", "RUN"}
         /\ Head(L.cmdq) = "RQMEM" => L.state = "READTOK" /\ Tail(L.cmdq) = << >>
<1> DEFINE h == Head(L.cmdq)
           rest == Tail(L.cmdq)
<1>1. L.state \in LibStates /\ L.cmdq \in Seq(Commands)
  BY DEF LibInv, Sound, Tq330
<1>2. /\ h \in Commands /\ h \in Queued(L.cmdq) /\ rest \in Seq(Commands)
      /\ Queued(rest) \subseteq Queued(L.cmdq) /\ h \notin Queued(rest)
      /\ MemLast(L.cmdq) => (h = "RQMEM" => rest = << >>)
  BY <1>1, Removed DEF LibInv, Sound, QueuedOnce
<1>3. Queued(rest) = {} => rest = << >>
  BY <1>2, NoneQueued
<1> HIDE DEF h, rest
<1>4. L.ping # "req"
  BY DEF LibInv, PingFirst
<1>5. L.state \notin {"DECTOK", "RUNWAIT"}
  BY DEF LibInv, Coherent
<1>6. CASE L.state = "REG"
  BY <1>2, <1>4, <1>6 DEF LibInv, Coherent, Setup, h, rest
<1>7. CASE L.state = "DEREG"
  <2>1. Queued(L.cmdq) \subseteq {"DSRV"}
    BY <1>7 DEF LibInv, Coherent
  <2>2. h = "DSRV" /\ Queued(rest) = {}
    BY <1>2, <2>1
  <2> QED BY <1>2, <1>3, <1>4, <1>7, <2>2 DEF Setup, h, rest
<1>8. CASE L.state = "PING"
  BY <1>2, <1>4, <1>8 DEF LibInv, Coherent, Setup, h
<1>9. CASE L.state \in {"READCFG", "RUN"}
  BY <1>2, <1>4, <1>9 DEF LibInv, Coherent, Setup, h
<1>10. CASE L.state = "READTOK"
  BY <1>2, <1>4, <1>10 DEF LibInv, Coherent, Setup, h, rest
<1> QED BY <1>1, <1>5, <1>6, <1>7, <1>8, <1>9, <1>10 DEF LibStates

(* The answer is taken from the socket. *)
Taken(L) == [L EXCEPT !.answer = None]

LEMMA TakenKeeps ==
  ASSUME NEW L, NEW p, NEW q, LibInv(L, p, q)
  PROVE  /\ LibInv(Taken(L), p, q) /\ (OnLink(L, p) => OnLink(Taken(L), p))
         /\ Alike(L, Taken(L)) /\ Taken(L).cmdq = L.cmdq /\ Taken(L).answer = None /\ Taken(L).asked = L.asked
<1> DEFINE M == Taken(L)
<1>1. M \in Tq330
  BY DEF LibInv, Sound, Tq330, Taken, Answers
<1>2. Alike(L, M) /\ M.cmdq = L.cmdq /\ M.cphase = L.cphase /\ M.asked = L.asked /\ M.answer = None
  BY DEF LibInv, Sound, Tq330, Taken, Alike
<1> HIDE DEF M
<1>3. Sound(M) /\ Waits(M) /\ Pending(M) = Pending(L)
  BY <1>1, <1>2 DEF LibInv, Sound, QueuedOnce, Matched, Waits, Pending, Alike
<1>4. LibInv(M, p, q)
  BY <1>2, <1>3 DEF LibInv, Coherent, Socketed, PingFirst, Registering, Alike, None
<1>5. OnLink(L, p) => OnLink(M, p)
  BY <1>2 DEF OnLink, Leaving, Alike
<1> QED BY <1>2, <1>4, <1>5 DEF M

(* A refusal: whoever is told that the digitizer does not know him leaves. *)
LEMMA RefusedKeeps ==
  ASSUME NEW L, NEW p, NEW q, LibInv(L, p, q), L.ping # "req", L.answer = None, NEW c, NEW r \in Errors,
         r \in {"TMSERV", "INVREG"} => L.state \notin LinkStates,
         r = "NOTR" => ~ p /\ L.state \notin {"DECTOK", "RUNWAIT"}
  PROVE  LibInv(Refused(L, c, r), p, q) /\ (OnLink(L, p) => OnLink(Refused(L, c, r), p))
<1> DEFINE Left(why) == ChangeState(L, "WAIT", why)
<1>1. ASSUME NEW why \in Reasons
      PROVE  /\ LibInv(Left(why), p, q) /\ (OnLink(L, p) => OnLink(Left(why), p))
             /\ Left(why).state = L.state /\ Left(why).target = "WAIT" /\ Left(why).answer = None
  <2>1. "WAIT" \in Targets \ {"PING"} /\ "WAIT" \notin Linked
    BY DEF Targets, Linked
  <2>2. Left(why).state = L.state /\ Left(why).target = "WAIT" /\ Left(why).answer = None
    BY DEF LibInv, Sound, Tq330, ChangeState
  <2> QED BY <2>1, <2>2, ChangeKeeps
<1>2. "notr" \in Reasons /\ "other" \in Reasons /\ "WAIT" \notin Linked
  BY DEF Reasons, Linked
<1>3. CASE r \in {"NOTR", "TMSERV"}
  <2> DEFINE A == Left("notr")
  <2>1. Refused(L, c, r) = Forgotten(A)
    BY <1>3 DEF Refused, Forgotten
  <2>2. /\ LibInv(A, p, q) /\ (OnLink(L, p) => OnLink(A, p))
        /\ A.state = L.state /\ A.target = "WAIT" /\ A.answer = None
    BY <1>1, <1>2
  <2> HIDE DEF A
  <2>3. A.state \in LinkStates => A.state \in {"READCFG", "READTOK", "RUN"} /\ ~ p
    BY <1>3, <2>2 DEF LinkStates, Linked
  <2> QED BY <1>2, <2>1, <2>2, <2>3, ForgottenKeeps
<1>4. CASE r = "INVREG"
  <2> DEFINE A == Left("other")
  <2>1. Refused(L, c, r) = Forgotten(A)
    BY <1>4 DEF Refused, Forgotten
  <2>2. /\ LibInv(A, p, q) /\ (OnLink(L, p) => OnLink(A, p)) /\ A.state = L.state
    BY <1>1, <1>2
  <2> HIDE DEF A
  <2> QED BY <1>4, <2>1, <2>2, ForgottenKeeps
<1>5. CASE r = "SNV"
  <2>1. Refused(L, c, r) \in {L, Left("other")}
    BY <1>5 DEF Refused
  <2> QED BY <1>1, <1>2, <2>1
<1> QED BY <1>3, <1>4, <1>5 DEF Errors
(* The registration is accepted. *)
LEMMA RebootKeeps ==
  ASSUME NEW L, NEW p, NEW q, LibInv(L, p, q), L.state = "REG", L.cmdq = << >>, L.answer = None, L.open,
         "SRVRSP" \in Pending(L) => p
  PROVE  LET M == Lib330Reboot([L EXCEPT !.registered = TRUE]) IN LibInv(M, p, q) /\ OnLink(M, p)
<1> DEFINE A == [[L EXCEPT !.registered = TRUE] EXCEPT !.reboot_done = FALSE, !.state = "READCFG"]
           B == NewCmd(A, "RQFGLS")
           C == NewCmd(B, "RQGID")
           M == NewCmd(C, "RQSTAT")
<1>1. A \in Tq330
  BY DEF LibInv, Sound, Tq330, LibStates
<1>2. /\ A.state = "READCFG" /\ A.registered = TRUE /\ A.open = L.open /\ A.cmdq = L.cmdq /\ A.cphase = L.cphase
      /\ A.asked = L.asked /\ A.answer = L.answer /\ A.ping = L.ping /\ A.target = L.target
  BY DEF LibInv, Sound, Tq330
<1>3. Lib330Reboot([L EXCEPT !.registered = TRUE]) = M
  BY Zenon DEF Lib330Reboot
<1> HIDE DEF A
<1>4. Sound(A) /\ Waits(A) /\ Pending(A) = Pending(L)
  BY <1>1, <1>2, Untouched DEF LibInv
<1>5. L.ping # "req"
  BY DEF LibInv, PingFirst
<1>6. LibInv(A, p, q) /\ OnLink(A, p)
  BY <1>2, <1>4, <1>5, NoneQueued DEF LibInv, Coherent, Socketed, PingFirst, Registering, OnLink, Leaving, None
<1>7. Setup \subseteq Commands /\ {"RQFGLS", "RQGID", "RQSTAT"} \subseteq Setup
  BY DEF Setup, Commands
<1>8. LibInv(B, p, q) /\ OnLink(B, p) /\ B.state = "READCFG"
  BY <1>2, <1>4, <1>6, <1>7, QueueKeeps, NewIs DEF Alike
<1> HIDE DEF B
<1>9. LibInv(C, p, q) /\ OnLink(C, p) /\ C.state = "READCFG"
  <2>1. Sound(B)
    BY <1>8 DEF LibInv
  <2> QED BY <1>7, <1>8, <2>1, QueueKeeps, NewIs DEF Alike
<1> HIDE DEF C
<1>10. LibInv(M, p, q) /\ OnLink(M, p)
  BY <1>7, <1>9, QueueKeeps
<1> QED BY <1>3, <1>10

LEMMA StatusKeeps ==
  ASSUME NEW L, NEW p, NEW q, LibInv(L, p, q), L.state \in {"READCFG", "READTOK", "RUN"}, NEW r
  PROVE  /\ LibInv(StatusRead(L, r), p, q)
         /\ OnLink(L, p) /\ L.registered => OnLink(StatusRead(L, r), p)
<1> DEFINE M == CASE r = "STAT_TOKEN" -> ChangeState(L, "RUNWAIT", "tokens")
                  [] r = "STAT_FULL" /\ L.state = "RUN" -> ChangeState(L, "WAIT", "other")
                  [] OTHER -> L
           N == ClearCmsg(M)
           S == [N EXCEPT !.reboot_done = TRUE]
<1>1. L.ping # "req"
  BY DEF LibInv, PingFirst
<1>2. LibInv(M, p, q) /\ M.state = L.state /\ M.registered = L.registered /\ (OnLink(L, p) /\ L.registered => OnLink(M, p))
  <2>1. CASE r = "STAT_TOKEN"
    <3> DEFINE T == ChangeState(L, "RUNWAIT", "tokens")
    <3>1. M = T
      BY <2>1
    <3>2. "RUNWAIT" \in Targets \ {"PING"} /\ "tokens" \in Reasons
      BY DEF Targets, Linked, Reasons
    <3>3. LibInv(T, p, q)
      BY <1>1, <3>2, ChangeKeeps
    <3>4. T.state = L.state /\ T.registered = L.registered /\ T.liberr = "tokens"
      BY DEF LibInv, Sound, Tq330, ChangeState
    <3> HIDE DEF T, M
    <3>5. L.registered => OnLink(T, p)
      BY <3>4 DEF OnLink, Leaving
    <3> QED BY <3>1, <3>3, <3>4, <3>5
  <2>2. CASE r = "STAT_FULL" /\ L.state = "RUN"
    <3> DEFINE T == ChangeState(L, "WAIT", "other")
    <3>1. M = T
      BY <2>2
    <3>2. "WAIT" \in Targets \ {"PING"} /\ "WAIT" \notin Linked /\ "other" \in Reasons
      BY DEF Targets, Linked, Reasons
    <3>3. LibInv(T, p, q) /\ (OnLink(L, p) => OnLink(T, p))
      BY <1>1, <3>2, ChangeKeeps
    <3>4. T.state = L.state /\ T.registered = L.registered
      BY DEF LibInv, Sound, Tq330, ChangeState
    <3> HIDE DEF T, M
    <3> QED BY <3>1, <3>3, <3>4
  <2>3. CASE r # "STAT_TOKEN" /\ ~ (r = "STAT_FULL" /\ L.state = "RUN")
    <3>1. M = L
      BY <2>3
    <3> QED BY <3>1
  <2> QED BY <2>1, <2>2, <2>3
<1>3. StatusRead(L, r) = IF N.reboot_done THEN N ELSE CfgStart(S)
  BY Zenon DEF StatusRead
<1> HIDE DEF M
<1>4. LibInv(N, p, q) /\ N.state = L.state /\ N.registered = L.registered /\ (OnLink(L, p) /\ L.registered => OnLink(N, p))
  BY <1>2, ClearKeeps, ClearedIs DEF LibInv, Alike
<1> HIDE DEF N
<1>5. S \in Tq330
  BY <1>4 DEF LibInv, Sound, Tq330
<1>6. /\ S.state = N.state /\ S.target = N.target /\ S.liberr = N.liberr /\ S.registered = N.registered
      /\ S.open = N.open /\ S.ping = N.ping /\ S.cmdq = N.cmdq /\ S.cphase = N.cphase /\ S.asked = N.asked
      /\ S.answer = N.answer
  BY <1>4 DEF LibInv, Sound, Tq330
<1> HIDE DEF S
<1>7. LibInv(S, p, q) /\ (OnLink(N, p) => OnLink(S, p))
  BY <1>4, <1>5, <1>6, FlagsKeep
<1>8. LibInv(CfgStart(S), p, q) /\ (OnLink(S, p) /\ S.registered => OnLink(CfgStart(S), p))
  BY <1>4, <1>6, <1>7, CfgKeeps
<1> QED BY <1>3, <1>4, <1>6, <1>7, <1>8

(* The tokens are read. *)
LEMMA TokensRead ==
  ASSUME NEW L, NEW p, NEW q, LibInv(L, p, q), L.state = "READTOK", L.cmdq = << >>
  PROVE  /\ LibInv(NewState(L, "DECTOK"), p, q)
         /\ OnLink(L, p) /\ L.registered => OnLink(NewState(L, "DECTOK"), p)
<1> DEFINE M == NewState(L, "DECTOK")
<1>1. /\ M.state = "DECTOK" /\ M.target = L.target /\ M.registered = L.registered /\ M.open = L.open
      /\ M.answer = L.answer /\ M.cmdq = L.cmdq /\ M.ping = L.ping
  BY DEF LibInv, Sound, Tq330, NewState
<1>2. Sound(M) /\ Waits(M) /\ Pending(M) = Pending(L)
  BY StateIs DEF LibInv, LibStates
<1> HIDE DEF M
<1>3. LibInv(M, p, q)
  BY <1>1, <1>2 DEF LibInv, Coherent, Socketed, PingFirst, Registering
<1>4. OnLink(L, p) /\ L.registered => OnLink(M, p)
  BY <1>1 DEF OnLink, Leaving
<1> QED BY <1>3, <1>4 DEF M

(* have_config is set: the answer to C1_RQGID, and to C1_RQFGLS when data  *)
(* are enabled.                                                            *)
LEMMA ConfigRead ==
  ASSUME NEW L, NEW p, NEW q, LibInv(L, p, q)
  PROVE  LibInv([L EXCEPT !.have_config = TRUE], p, q) /\ (OnLink(L, p) => OnLink([L EXCEPT !.have_config = TRUE], p))
<1> DEFINE M == [L EXCEPT !.have_config = TRUE]
<1>1. M \in Tq330
  BY DEF LibInv, Sound, Tq330
<1>2. /\ M.state = L.state /\ M.target = L.target /\ M.liberr = L.liberr /\ M.registered = L.registered
      /\ M.open = L.open /\ M.ping = L.ping /\ M.cmdq = L.cmdq /\ M.cphase = L.cphase /\ M.asked = L.asked
      /\ M.answer = L.answer
  BY DEF LibInv, Sound, Tq330
<1> HIDE DEF M
<1>3. LibInv(M, p, q) /\ (OnLink(L, p) => OnLink(M, p))
  BY <1>1, <1>2, FlagsKeep
<1> QED BY <1>3 DEF M
LEMMA ResponseKeeps ==
  ASSUME NEW p, NEW q, LibInv(lib, p, q), Response
  PROVE  LibInv(lib', p, q) /\ (DataEnabled /\ OnLink(lib, p) => OnLink(lib', p))
<1> DEFINE c == Head(lib.cmdq)
           r == lib.answer
           K == Taken(lib)
           D == ClearCmsg(K)
<1>1. /\ lib.state \notin {"IDLE", "TERM", "WAIT"} /\ lib.open /\ r # None /\ lib.cmdq # << >> /\ r \in Fitting(c)
      /\ lib' = Answered(K, c, r)
  BY DEF Response, Busy, LibInv, Sound, Matched, Taken
<1>2. /\ c \in Commands /\ lib.ping # "req"
      /\ c \in {"RQSRV", "SRVRSP"} => lib.state = "REG" /\ Tail(lib.cmdq) = << >>
      /\ c = "DSRV" => lib.state = "DEREG" /\ Tail(lib.cmdq) = << >>
      /\ c = "PING" => lib.state = "PING"
      /\ c \in Setup => lib.state \in {"READCFG", "READTOK", "RUN"}
      /\ c = "RQMEM" => lib.state = "READTOK" /\ Tail(lib.cmdq) = << >>
  BY <1>1, HeadSays
<1>3. /\ LibInv(K, p, q) /\ (OnLink(lib, p) => OnLink(K, p))
      /\ Alike(lib, K) /\ K.cmdq = lib.cmdq /\ K.answer = None /\ Pending(K) = Pending(lib)
  BY TakenKeeps DEF Pending
<1> HIDE DEF K
<1>4. /\ LibInv(D, p, q) /\ (OnLink(lib, p) => OnLink(D, p)) /\ Alike(lib, D) /\ D.answer = None
      /\ D.cmdq = Tail(lib.cmdq) /\ Pending(D) = Pending(lib) /\ D.cphase = "idle"
  <2>1. /\ Alike(K, D) /\ D.answer = None /\ D.cmdq = (IF K.cmdq = << >> THEN << >> ELSE Tail(K.cmdq))
        /\ Pending(D) = Pending(K) /\ D.cphase = "idle"
    BY <1>3, ClearedIs DEF LibInv
  <2>2. LibInv(D, p, q) /\ (OnLink(K, p) => OnLink(D, p))
    BY <1>3, ClearKeeps
  <2> QED BY <1>1, <1>3, <2>1, <2>2 DEF Alike
<1>5. Answered(K, c, r) =
        CASE r \in Errors -> Refused(IF c = "RQMEM" THEN K ELSE D, c, r)
          [] c = "RQSRV" /\ r = "SRVCH" -> NewCmd(D, "SRVRSP")
          [] c = "SRVRSP" /\ r = "CACK" -> Lib330Reboot([D EXCEPT !.registered = TRUE])
          [] c = "DSRV" /\ r = "CACK" -> Deregistered(K)
          [] c = "RQFGLS" /\ r = "FGLS" -> IF DataEnabled THEN [D EXCEPT !.have_config = TRUE] ELSE StartDeregistration(K)
          [] c = "RQGID" /\ r = "GID" -> [D EXCEPT !.have_config = TRUE]
          [] c = "RQSTAT" /\ r \in {"STAT", "STAT_TOKEN", "STAT_FULL"} -> StatusRead(K, r)
          [] c = "RQMEM" /\ r = "MEM" -> IF K.state = "READTOK" THEN NewState(D, "DECTOK") ELSE D
          [] c = "PING" /\ r = "PING" -> ClearCmsg(IF K.ping = "sent" THEN PingOver(K) ELSE K)
          [] OTHER -> K
  BY Zenon DEF Answered, PingOver
<1>6. lib.state \in {"READCFG", "READTOK", "RUN"} => lib.state \in LinkStates
  BY DEF LinkStates, Linked
<1> HIDE DEF D
<1>7. CASE r \in Errors
  <2> DEFINE F == IF c = "RQMEM" THEN K ELSE D
  <2>1. lib' = Refused(F, c, r)
    BY <1>1, <1>5, <1>7 DEF Errors
  <2>2. LibInv(F, p, q) /\ (OnLink(lib, p) => OnLink(F, p)) /\ F.ping # "req" /\ F.answer = None /\ F.state = lib.state
    BY <1>2, <1>3, <1>4 DEF Alike
  <2>3. r \in {"TMSERV", "INVREG"} => lib.state \notin LinkStates
    BY <1>1, <1>2 DEF Fitting, LinkStates, Linked, Commands
  <2>4. r = "NOTR" => ~ p
    BY <1>1 DEF LibInv, Registering
  <2>5. lib.state \notin {"DECTOK", "RUNWAIT"}
    BY <1>1 DEF LibInv, Coherent
  <2> HIDE DEF F
  <2> QED BY <1>7, <2>1, <2>2, <2>3, <2>4, <2>5, RefusedKeeps
<1>8. CASE c = "RQSRV" /\ r = "SRVCH"
  <2>1. lib' = NewCmd(D, "SRVRSP")
    BY <1>1, <1>5, <1>8 DEF Errors
  <2>2. D.state = "REG" /\ D.cmdq = << >> /\ "SRVRSP" \in Commands
    BY <1>2, <1>4, <1>8 DEF Alike, Commands
  <2> QED BY <1>4, <2>1, <2>2, QueueKeeps
<1>9. CASE c = "SRVRSP" /\ r = "CACK"
  <2>1. lib' = Lib330Reboot([D EXCEPT !.registered = TRUE])
    BY <1>1, <1>5, <1>9 DEF Errors
  <2>2. D.state = "REG" /\ D.cmdq = << >> /\ D.open
    BY <1>1, <1>2, <1>4, <1>9 DEF Alike
  <2>3. "SRVRSP" \in Pending(D) => p
    BY <1>4, <1>9 DEF LibInv, Registering
  <2> QED BY <1>4, <2>1, <2>2, <2>3, RebootKeeps
<1>10. CASE c = "DSRV" /\ r = "CACK"
  <2>1. lib' = Deregistered(K)
    BY <1>1, <1>5, <1>10 DEF Errors
  <2>2. lib' = CloseSockets([NewState(D, lib.target) EXCEPT !.registered = FALSE])
    BY <1>3, <2>1 DEF Deregistered, Alike, D
  <2>3. lib.state = "DEREG" /\ D.cmdq = << >> /\ Sound(D)
    BY <1>2, <1>4, <1>10 DEF LibInv
  <2> QED BY <1>4, <2>2, <2>3, EndKeeps
<1>11. CASE c = "RQFGLS" /\ r = "FGLS"
  <2>1. lib' = IF DataEnabled THEN [D EXCEPT !.have_config = TRUE] ELSE StartDeregistration(K)
    BY <1>1, <1>5, <1>11 DEF Errors
  <2>2. K.state \in LinkStates
    BY <1>2, <1>3, <1>6, <1>11 DEF Alike, Setup
  <2> QED BY <1>3, <1>4, <2>1, <2>2, ConfigRead, DeregKeeps
<1>12. CASE c = "RQGID" /\ r = "GID"
  <2>1. lib' = [D EXCEPT !.have_config = TRUE]
    BY <1>1, <1>5, <1>12 DEF Errors
  <2> QED BY <1>4, <2>1, ConfigRead
<1>13. CASE c = "RQSTAT" /\ r \in {"STAT", "STAT_TOKEN", "STAT_FULL"}
  <2>1. lib' = StatusRead(K, r)
    BY <1>1, <1>5, <1>13 DEF Errors
  <2>2. K.state \in {"READCFG", "READTOK", "RUN"} /\ K.state = lib.state /\ K.registered = lib.registered
    BY <1>2, <1>3, <1>13 DEF Alike, Setup
  <2>3. OnLink(lib, p) => K.registered
    BY <1>1, <1>6, <1>13, <2>2 DEF OnLink, Leaving
  <2> QED BY <1>3, <2>1, <2>2, <2>3, StatusKeeps
<1>14. CASE c = "RQMEM" /\ r = "MEM"
  <2>1. D.state = "READTOK" /\ K.state = "READTOK" /\ D.cmdq = << >>
    BY <1>2, <1>3, <1>4, <1>14 DEF Alike
  <2>2. lib' = NewState(D, "DECTOK")
    BY <1>1, <1>5, <1>14, <2>1 DEF Errors
  <2>3. OnLink(lib, p) => D.registered
    BY <1>1, <1>2, <1>4, <1>6, <1>14 DEF OnLink, Leaving, Alike
  <2> QED BY <1>4, <2>1, <2>2, <2>3, TokensRead
<1>15. CASE c = "PING" /\ r = "PING"
  <2> DEFINE F == IF K.ping = "sent" THEN PingOver(K) ELSE K
  <2>1. lib' = ClearCmsg(F)
    BY <1>1, <1>5, <1>15 DEF Errors
  <2>2. LibInv(F, p, q) /\ (OnLink(K, p) => OnLink(F, p))
    BY <1>3, PingOverKeeps
  <2> HIDE DEF F
  <2> QED BY <1>3, <2>1, <2>2, ClearKeeps
<1> QED BY <1>1, <1>2, <1>7, <1>8, <1>9, <1>10, <1>11, <1>12, <1>13, <1>14, <1>15 DEF Fitting, Errors, Commands
------------------------------------------------------------------------------
(* The digitizer answers, or forgets. *)
LEMMA RepliesAre ==
  ASSUME NEW c \in Commands, port \in BOOLEAN, NEW r \in Replies(c)
  PROVE  /\ r.text \in Fitting(c) /\ r.text \in Answers \ {None} /\ r.port \in BOOLEAN
         /\ r.text = "NOTR" => ~ port
         /\ r.port # port => (c = "SRVRSP" /\ r.port) \/ (c = "DSRV" /\ ~ r.port)
         /\ c = "SRVRSP" /\ r.text = "CACK" => r.port
         /\ ~ port /\ c \notin {"RQSRV", "SRVRSP", "PING"} => r.text = "NOTR"
<1> DEFINE Reply(x, bad, p) == [text |-> x, fault |-> bad, port |-> p]
<1>1. /\ c = "RQSRV" => r \in {Reply("SRVCH", FALSE, port), Reply("TMSERV", TRUE, port)}
      /\ c = "SRVRSP" => r \in {Reply("CACK", FALSE, TRUE), Reply("INVREG", TRUE, port)}
      /\ c = "PING" => r \in {Reply("PING", FALSE, port)}
  BY DEF Replies
<1>2. c \notin {"RQSRV", "SRVRSP", "PING"} /\ ~ port => r \in {Reply("NOTR", FALSE, port)}
  BY DEF Replies
<1>3. port => /\ c = "DSRV" => r \in {Reply("CACK", FALSE, FALSE)}
              /\ c = "RQFGLS" => r \in {Reply("FGLS", FALSE, port)}
              /\ c = "RQGID" => r \in {Reply("GID", FALSE, port)}
              /\ c = "RQSTAT" => r \in {Reply("STAT", FALSE, port), Reply("STAT_TOKEN", TRUE, port),
                                       Reply("STAT_FULL", TRUE, port)}
              /\ c = "RQMEM" => r \in {Reply("MEM", FALSE, port), Reply("SNV", TRUE, port)}
  BY DEF Replies
<1>4. /\ c = "RQSRV" => r.text \in {"SRVCH", "TMSERV"} /\ r.port = port
      /\ c = "SRVRSP" => (r.text = "CACK" /\ r.port = TRUE) \/ (r.text = "INVREG" /\ r.port = port)
      /\ c = "PING" => r.text = "PING" /\ r.port = port
  BY <1>1
<1>5. c \notin {"RQSRV", "SRVRSP", "PING"} /\ ~ port => r.text = "NOTR" /\ r.port = port
  BY <1>2
<1>6. port => /\ c = "DSRV" => r.text = "CACK" /\ r.port = FALSE
              /\ c = "RQFGLS" => r.text = "FGLS"
              /\ c = "RQGID" => r.text = "GID"
              /\ c = "RQSTAT" => r.text \in {"STAT", "STAT_TOKEN", "STAT_FULL"}
              /\ c = "RQMEM" => r.text \in {"MEM", "SNV"}
  BY <1>3
<1>7. c \notin {"SRVRSP", "DSRV"} => r.port = port
  <2>1. /\ c = "RQFGLS" => r \in {Reply("NOTR", FALSE, port), Reply("FGLS", FALSE, port)}
        /\ c = "RQGID" => r \in {Reply("NOTR", FALSE, port), Reply("GID", FALSE, port)}
        /\ c = "RQSTAT" => r \in {Reply("NOTR", FALSE, port), Reply("STAT", FALSE, port),
                                  Reply("STAT_TOKEN", TRUE, port), Reply("STAT_FULL", TRUE, port)}
        /\ c = "RQMEM" => r \in {Reply("NOTR", FALSE, port), Reply("MEM", FALSE, port), Reply("SNV", TRUE, port)}
    BY DEF Replies
  <2>2. c \in {"RQFGLS", "RQGID", "RQSTAT", "RQMEM"} => r.port = port
    BY <2>1
  <2> QED BY <1>4, <2>2 DEF Commands
<1>8. r.port \in BOOLEAN
  BY <1>4, <1>5, <1>6, <1>7
<1>9. r.text \in Fitting(c)
  BY <1>4, <1>5, <1>6 DEF Fitting, Commands
<1>10. r.text \in Answers \ {None}
  BY <1>4, <1>5, <1>6 DEF Answers, Errors, Commands, None
<1>11. /\ r.text = "NOTR" => ~ port
       /\ c = "SRVRSP" /\ r.text = "CACK" => r.port
       /\ ~ port /\ c \notin {"RQSRV", "SRVRSP", "PING"} => r.text = "NOTR"
  BY <1>4, <1>5, <1>6 DEF Commands
<1> QED BY <1>4, <1>5, <1>6, <1>7, <1>8, <1>9, <1>10, <1>11

(* The state is no more than what remains under way. *)
LEMMA UnderWayIs ==
  ASSUME NEW L, Sound(L), NEW S \in SUBSET L.asked, NEW a \in Answers,
         a # None => L.cphase = "wait" /\ L.cmdq # << >> /\ a \in Fitting(Head(L.cmdq)) /\ L.open,
         NEW M \in Tq330, Alike(L, M), M.cmdq = L.cmdq, M.cphase = L.cphase, M.answer = a, M.asked = S
  PROVE  Sound(M) /\ (Waits(L) => Waits(M))
BY DEF Sound, QueuedOnce, Matched, Waits, Alike

LEMMA ServeKeeps ==
  ASSUME NEW q, LibInv(lib, port, q), Serve
  PROVE  LibInv(lib', port', q) /\ (OnLink(lib, port) => OnLink(lib', port'))
<1>0. PICK m \in lib.asked : \E r \in Replies(m.cmd) :
      /\ lib' = [lib EXCEPT !.asked = UnderWay(lib, m), !.answer = IF m.last THEN r.text ELSE @]
      /\ port' = r.port
  BY DEF Serve
<1>1. PICK r \in Replies(m.cmd) :
      /\ lib' = [lib EXCEPT !.asked = UnderWay(lib, m), !.answer = IF m.last THEN r.text ELSE lib.answer]
      /\ port' = r.port
  BY <1>0
<1> DEFINE a == IF m.last THEN r.text ELSE lib.answer
           S == UnderWay(lib, m)
<1>2. m.cmd \in Commands /\ m.cmd \in Pending(lib) /\ port \in BOOLEAN /\ lib.answer \in Answers /\ lib.state \in LibStates
  BY DEF LibInv, Sound, Tq330, Sent, Pending
<1>3. /\ r.text \in Fitting(m.cmd) /\ r.text \in Answers \ {None} /\ r.port \in BOOLEAN
      /\ r.text = "NOTR" => ~ port
      /\ r.port # port => (m.cmd = "SRVRSP" /\ r.port) \/ (m.cmd = "DSRV" /\ ~ r.port)
      /\ m.cmd = "SRVRSP" /\ r.text = "CACK" => r.port
      /\ ~ port /\ m.cmd \notin {"RQSRV", "SRVRSP", "PING"} => r.text = "NOTR"
  BY <1>2, RepliesAre
<1>4. /\ lib.open /\ (m.last => lib.cphase = "wait" /\ lib.cmdq # << >> /\ m.cmd = Head(lib.cmdq))
      /\ lib.answer # None => lib.cphase = "wait" /\ lib.cmdq # << >> /\ lib.answer \in Fitting(Head(lib.cmdq))
  BY DEF LibInv, Sound, Matched
<1>5. a \in Answers /\ (a # None => lib.cphase = "wait" /\ lib.cmdq # << >> /\ a \in Fitting(Head(lib.cmdq)) /\ lib.open)
  BY <1>2, <1>3, <1>4
<1>6. S \in SUBSET lib.asked /\ (m.cmd = "DSRV" => \A n \in S : n.cmd # "SRVRSP")
  BY DEF UnderWay
<1>7. lib' = [lib EXCEPT !.asked = S, !.answer = a]
  BY <1>1
<1> HIDE DEF S, a
<1>8. /\ Sound(lib') /\ Waits(lib') /\ Alike(lib, lib') /\ lib'.cmdq = lib.cmdq /\ lib'.cphase = lib.cphase
      /\ lib'.answer = a /\ Pending(lib') \subseteq Pending(lib) /\ (m.cmd = "DSRV" => "SRVRSP" \notin Pending(lib'))
  <2>1. Sound(lib) /\ Waits(lib) /\ S \in SUBSET lib.asked /\ a \in Answers
    BY <1>5, <1>6 DEF LibInv
  <2>2. /\ Sound(lib') /\ Waits(lib') /\ Alike(lib, lib') /\ lib'.cmdq = lib.cmdq /\ lib'.cphase = lib.cphase
        /\ lib'.answer = a /\ lib'.asked = S
    <3>1. S \subseteq Sent /\ lib \in Tq330
      BY <2>1 DEF Sound, Tq330
    <3>2. lib' \in Tq330
      BY <2>1, <3>1, <1>7 DEF Tq330
    <3>3. Alike(lib, lib') /\ lib'.cmdq = lib.cmdq /\ lib'.cphase = lib.cphase /\ lib'.answer = a /\ lib'.asked = S
      BY <3>1, <1>7 DEF Tq330, Alike
    <3>4. Sound(lib') /\ (Waits(lib) => Waits(lib'))
      BY <1>5, <2>1, <3>2, <3>3, UnderWayIs
    <3> QED BY <2>1, <3>3, <3>4
  <2> QED BY <1>6, <2>2 DEF Pending
<1>9. lib.state \notin {"IDLE", "TERM", "WAIT"} /\ lib.cmdq # << >> =>
         /\ Head(lib.cmdq) \in {"RQSRV", "SRVRSP"} => lib.state = "REG"
         /\ Head(lib.cmdq) = "PING" => lib.state = "PING"
         /\ lib.state = "REG" => Head(lib.cmdq) \in {"RQSRV", "SRVRSP"}
  <2>1. Head(lib.cmdq) \in Queued(lib.cmdq) \/ lib.cmdq = << >>
    BY Removed DEF LibInv, Sound, Tq330
  <2> QED BY <2>1, HeadSays DEF LibInv, Coherent
<1>10. Registering(lib', port')
  <2>1. ASSUME "SRVRSP" \in Pending(lib'), ~ port' PROVE lib'.state \in {"REG", "TERM"} /\ lib'.answer # "CACK"
    <3>1. "SRVRSP" \in Pending(lib) /\ m.cmd # "DSRV"
      BY <1>6, <1>8, <2>1
    <3>2. ~ port
      BY <1>1, <1>2, <1>3, <2>1, <3>1
    <3>3. lib.state \in {"REG", "TERM"} /\ lib.answer # "CACK"
      BY <3>1, <3>2 DEF LibInv, Registering
    <3>4. m.last => r.text # "CACK"
      BY <1>1, <1>2, <1>3, <2>1, <3>1 DEF Fitting, Commands
    <3> QED BY <1>8, <3>3, <3>4 DEF Alike, a
  <2>2. ASSUME lib'.answer = "NOTR", lib'.state # "TERM" PROVE ~ port'
    <3>1. lib.state # "TERM"
      BY <1>8, <2>2 DEF Alike
    <3>2. ~ port
      BY <1>3, <1>8, <2>2, <3>1 DEF a, LibInv, Registering
    <3>3. CASE m.cmd = "SRVRSP"
      <4>1. lib.state = "REG"
        BY <1>2, <3>1, <3>2, <3>3 DEF LibInv, Registering
      <4>2. a = "NOTR" /\ lib.cmdq # << >> /\ a \in Fitting(Head(lib.cmdq))
        BY <1>5, <1>8, <2>2 DEF None
      <4> QED BY <1>9, <4>1, <4>2 DEF Fitting
    <3>4. CASE m.cmd # "SRVRSP"
      BY <1>1, <1>2, <1>3, <3>2, <3>4
    <3> QED BY <3>3, <3>4
  <2> QED BY <2>1, <2>2 DEF Registering
<1>11. LibInv(lib', port', q)
  BY <1>1, <1>3, <1>8, <1>10 DEF LibInv, Alike, Coherent, Socketed, PingFirst
<1>12. ASSUME Leaving(lib, port), ~ lib.registered, lib.state \in LinkStates
       PROVE  lib'.answer \in {None, "NOTR"} /\ ~ port'
  <2>1. lib.state \in {"READCFG", "READTOK", "RUN"} /\ lib.answer \in {None, "NOTR"} /\ ~ port
    BY <1>4, <1>12 DEF Leaving
  <2>2. m.cmd # "SRVRSP"
    BY <1>2, <2>1 DEF LibInv, Registering
  <2>3. ~ port'
    BY <1>1, <1>2, <1>3, <2>1, <2>2
  <2>4. m.last => m.cmd \notin {"RQSRV", "SRVRSP", "PING"}
    BY <1>4, <1>9, <2>1
  <2> QED BY <1>3, <1>8, <2>1, <2>3, <2>4 DEF a
<1>13. OnLink(lib, port) => OnLink(lib', port')
  BY <1>8, <1>12 DEF OnLink, Leaving, Alike
<1> QED BY <1>11, <1>13

LEMMA PortLostKeeps ==
  ASSUME NEW q, LibInv(lib, port, q), PortLost
  PROVE  LibInv(lib', port', q) /\ (OnLink(lib, port) => OnLink(lib', port'))
<1> DEFINE S == {m \in lib.asked : m.cmd # "SRVRSP"}
<1>1. lib' = [lib EXCEPT !.asked = S] /\ port' = FALSE
  BY DEF PortLost
<1>2. S \in SUBSET lib.asked /\ \A n \in S : n.cmd # "SRVRSP"
  OBVIOUS
<1>3. lib.answer \in Answers
  BY DEF LibInv, Sound, Tq330
<1>4. lib.answer # None => lib.cphase = "wait" /\ lib.cmdq # << >> /\ lib.answer \in Fitting(Head(lib.cmdq)) /\ lib.open
  BY DEF LibInv, Sound, Matched
<1>5. lib' = [lib EXCEPT !.asked = S, !.answer = lib.answer]
  BY <1>1 DEF LibInv, Sound, Tq330
<1> HIDE DEF S
<1>6. /\ Sound(lib') /\ Waits(lib') /\ Alike(lib, lib') /\ lib'.cmdq = lib.cmdq /\ lib'.cphase = lib.cphase
      /\ lib'.answer = lib.answer /\ "SRVRSP" \notin Pending(lib')
  <2>1. Sound(lib) /\ Waits(lib) /\ S \in SUBSET lib.asked
    BY <1>2 DEF LibInv
  <2>2. /\ Sound(lib') /\ Waits(lib') /\ Alike(lib, lib') /\ lib'.cmdq = lib.cmdq /\ lib'.cphase = lib.cphase
        /\ lib'.answer = lib.answer /\ lib'.asked = S
    <3>1. S \subseteq Sent /\ lib \in Tq330
      BY <2>1 DEF Sound, Tq330
    <3>2. lib' \in Tq330
      BY <2>1, <3>1, <1>5 DEF Tq330
    <3>3. Alike(lib, lib') /\ lib'.cmdq = lib.cmdq /\ lib'.cphase = lib.cphase /\ lib'.answer = lib.answer /\ lib'.asked = S
      BY <3>1, <1>5 DEF Tq330, Alike
    <3>4. Sound(lib') /\ (Waits(lib) => Waits(lib'))
      BY <1>3, <1>4, <2>1, <3>2, <3>3, UnderWayIs
    <3> QED BY <2>1, <3>3, <3>4
  <2> QED BY <1>2, <2>2 DEF Pending
<1>7. LibInv(lib', port', q)
  BY <1>1, <1>2, <1>6 DEF LibInv, Alike, Coherent, Socketed, PingFirst, Registering
<1>8. OnLink(lib, port) => OnLink(lib', port')
  BY <1>1, <1>6 DEF OnLink, Leaving, Alike
<1> QED BY <1>7, <1>8
LEMMA SessionKeeps ==
  ASSUME NEW q, LibInv(lib, port, q), SessionPrompt \/ SessionSlow
  PROVE  LibInv(lib', port', q) /\ (DataEnabled /\ OnLink(lib, port) => OnLink(lib', port'))
<1>1. CASE Retarget
  <2>1. PICK ok \in BOOLEAN : lib' = Retargeted(lib, ok)
    BY <1>1 DEF Retarget
  <2>2. lib.state \notin {lib.target, "TERM"} /\ port' = port
    BY <1>1 DEF Retarget
  <2> QED BY <2>1, <2>2, RetargetKeeps
<1>2. CASE SendPing
  <2>1. port' = port
    BY <1>2 DEF SendPing
  <2> QED BY <1>2, <2>1, SendPingKeeps
<1>3. CASE SendQueued \/ RequestStatus
  <2>1. port' = port
    BY <1>3 DEF SendQueued, RequestStatus
  <2> QED BY <1>3, <2>1, SendQueuedKeeps
<1>4. CASE Response
  <2>1. port' = port
    BY <1>4 DEF Response
  <2> QED BY <1>4, <2>1, ResponseKeeps
<1>5. CASE WaitOver \/ DataTimeout \/ StatusTimeout \/ ConnectTimeOver
  <2>1. port' = port
    BY <1>5 DEF WaitOver, DataTimeout, StatusTimeout, ConnectTimeOver
  <2> QED BY <1>5, <2>1, LinkTimeoutsKeep
<1>6. CASE CommandTimeout
  <2>1. port' = port
    BY <1>6 DEF CommandTimeout
  <2> QED BY <1>6, <2>1, CommandTimeoutKeeps
<1>7. CASE SendFails
  <2>1. port' = port
    BY <1>7 DEF SendFails
  <2> QED BY <1>7, <2>1, SendFailsKeeps
<1>8. CASE DeregTimeout
  <2>1. port' = port
    BY <1>8 DEF DeregTimeout
  <2> QED BY <1>8, <2>1, DeregTimeoutKeeps
<1>9. CASE RegTimeout
  <2>1. port' = port
    BY <1>9 DEF RegTimeout
  <2> QED BY <1>9, <2>1, RegTimeoutKeeps
<1>10. CASE Serve
  BY <1>10, ServeKeeps
<1>11. CASE PortLost
  BY <1>11, PortLostKeeps
<1> QED BY <1>1, <1>2, <1>3, <1>4, <1>5, <1>6, <1>7, <1>8, <1>9, <1>10, <1>11 DEF SessionPrompt, SessionSlow
------------------------------------------------------------------------------
(* The calls of the main thread. *)

(* A new library, and one whose fields are cleared whatever it is doing. *)
LEMMA CreatedIs ==
  ASSUME NEW p \in BOOLEAN, NEW q
  PROVE  LibInv(Created, p, q) /\ OnLink(Created, p)
<1>1. << >> \in Seq(Commands) /\ Queued(<< >>) = {} /\ DOMAIN << >> = {}
  BY NoneQueued, EmptySeq
<1>2. Created \in Tq330
  BY <1>1 DEF Created, Tq330, LibStates, Reasons, Answers, None
<1>3. /\ Created.state = "IDLE" /\ Created.target = "IDLE" /\ Created.registered = FALSE /\ Created.ping = "idle"
      /\ Created.cmdq = << >> /\ Created.cphase = "idle" /\ Created.asked = {} /\ Created.answer = None
  BY DEF Created
<1>4. Sound(Created) /\ Waits(Created) /\ Pending(Created) = {}
  BY <1>1, <1>2, <1>3 DEF Sound, QueuedOnce, Matched, Waits, Pending
<1> QED BY <1>3, <1>4 DEF LibInv, Coherent, Socketed, PingFirst, Registering, OnLink, Leaving, LinkStates, Linked, Targets, None

LEMMA ClearedKeeps ==
  ASSUME NEW L, NEW p, NEW q, LibInv(L, p, q), NEW s \in Targets, NEW n, s = "PING" => n,
         NEW M, M = [Cleared(L) EXCEPT !.target = s]
  PROVE  LibInv(M, p, n) /\ (~ AtWork(L) => OnLink(M, p))
<1> DEFINE A == PurgeCmdq(L)
<1>1. /\ Sound(A) /\ Waits(A) /\ Alike(L, A) /\ A.cphase = "idle" /\ A.answer = None /\ Pending(A) = Pending(L)
      /\ A.cmdq = << >>
  BY PurgedIs DEF LibInv, Sound
<1>2. M = [[A EXCEPT !.registered = FALSE, !.reboot_done = FALSE, !.ping = "idle", !.have_config = FALSE] EXCEPT !.target = s]
  BY Zenon DEF Cleared
<1> HIDE DEF A
<1>3. A \in Tq330 /\ s \in LibStates
  BY <1>1 DEF Sound, Targets, Linked, LibStates
<1>4. M \in Tq330
  BY <1>2, <1>3 DEF Tq330
<1>5. /\ M.cmdq = A.cmdq /\ M.cphase = A.cphase /\ M.asked = A.asked /\ M.answer = A.answer /\ M.open = A.open
      /\ M.state = A.state /\ M.target = s /\ M.registered = FALSE /\ M.ping = "idle"
  BY <1>2, <1>3 DEF Tq330
<1>6. Sound(M) /\ Waits(M) /\ Pending(M) = Pending(A)
  BY <1>1, <1>4, <1>5, Untouched
<1>7. /\ M.cmdq = << >> /\ M.cphase = "idle" /\ M.answer = None /\ M.state = L.state /\ Pending(M) = Pending(L)
  BY <1>1, <1>5, <1>6 DEF Alike
<1>8. LibInv(M, p, n)
  BY <1>5, <1>6, <1>7, NoneQueued DEF LibInv, Coherent, Socketed, PingFirst, Registering, None
<1>9. ~ AtWork(L) => OnLink(M, p)
  BY <1>7 DEF OnLink, Leaving, AtWork, LinkStates, Linked
<1> QED BY <1>8, <1>9

(* The types of what the main thread keeps, and the library's invariant. *)
MainTypeOK ==
  /\ faults \in 0 .. MaxFaults
  /\ main \in Places /\ ret \in Places
  /\ {iface, g_reset, first_pass, areSuspended} \subseteq BOOLEAN
  /\ commands \in 0 .. MaxCommands
  /\ early \in BOOLEAN

ServerInv == MainTypeOK /\ LibInv(lib, port, main = "register")

LinkInv == ServerInv /\ (early \/ OnLink(lib, port))

LEMMA TypeKept == MainTypeOK /\ [Next]_vars => MainTypeOK'
<1> SUFFICES ASSUME MainTypeOK, [Next]_vars PROVE MainTypeOK'
  OBVIOUS
<1>0. MaxFaults \in Nat /\ MaxCommands \in Nat
  BY Q330SessionAssumption, Q330ServerAssumption
<1> USE DEF MainTypeOK
<1>1. CASE UNCHANGED vars
  BY <1>1 DEF vars, flags, session
<1>2. CASE Top \/ Drain \/ SleepOver \/ Ping \/ Register
  BY <1>2 DEF Top, Drain, SleepOver, Ping, Register, Goto, Call, flags, session, Places
<1>3. CASE Await \/ AwaitTimeout \/ Ready \/ Flow \/ SeeRunwait
  BY <1>3 DEF Await, AwaitTimeout, Ready, Flow, SeeRunwait, Delete, StartDeregistrationCall, Goto, Call, flags, session, Places
<1>4. CASE NearFull \/ Reset \/ Suspended \/ Resume
  BY <1>4 DEF NearFull, Reset, Suspended, Resume, Scanning, StartDeregistrationCall, Goto, Call, flags, session, Places
<1>5. CASE Suspend \/ Terminate
  BY <1>0, <1>5 DEF Suspend, Terminate, Stop, Scanning, Delete, StartDeregistrationCall, Goto, Call, flags, Places
<1>6. CASE DeleteIdle \/ DeleteTerm
  BY <1>6 DEF DeleteIdle, DeleteTerm, Goto, Call, flags, session, Places
<1>7. CASE Library(SessionPrompt) \/ Library(SessionSlow)
  <2>1. faults' \in 0 .. MaxFaults
    <3>1. faults' = faults \/ Fault
      BY <1>7 DEF Library, SessionPrompt, SessionSlow, Retarget, SendPing, SendQueued, RequestStatus, Response, WaitOver,
                  CommandTimeout, SendFails, DeregTimeout, RegTimeout, DataTimeout, StatusTimeout, ConnectTimeOver, Serve, PortLost
    <3> QED BY <1>0, <3>1 DEF Fault
  <2> QED BY <1>7, <2>1 DEF Library, flags
<1> QED BY <1>1, <1>2, <1>3, <1>4, <1>5, <1>6, <1>7 DEF Next, MainNext
(* A new target from the main thread, which is not between the ping and    *)
(* the registration then.                                                  *)
LEMMA CallKeeps ==
  ASSUME ServerInv, main # "register", NEW s \in Targets \ {"PING"}, NEW why \in Reasons,
         Call(ChangeState(lib, s, why)), main' # "register"
  PROVE  /\ LibInv(lib', port', main' = "register")
         /\ OnLink(lib, port) /\ s \notin Linked => OnLink(lib', port')
<1>1. LibInv(lib, port, FALSE)
  BY DEF ServerInv, LibInv
<1>2. lib.ping # "req"
  BY <1>1 DEF LibInv, PingFirst
<1>3. lib' = ChangeState(lib, s, why) /\ port' = port
  BY DEF Call
<1>4. LibInv(lib', port', FALSE) /\ (OnLink(lib, port) /\ s \notin Linked => OnLink(lib', port'))
  BY <1>1, <1>2, <1>3, ChangeKeeps
<1> QED BY <1>4 DEF LibInv

LEMMA MainKeeps ==
  ASSUME ServerInv, MainNext
  PROVE  /\ LibInv(lib', port', main' = "register")
         /\ early \/ OnLink(lib, port) => early' \/ OnLink(lib', port')
<1>1. /\ {"IDLE", "TERM", "RUN"} \subseteq Targets \ {"PING"} /\ "IDLE" \notin Linked /\ "TERM" \notin Linked
      /\ {"none", "other"} \subseteq Reasons
  BY DEF Targets, Linked, Reasons
<1>2. LibInv(lib, port, main = "register") /\ port \in BOOLEAN /\ early \in BOOLEAN
  BY DEF ServerInv, MainTypeOK, LibInv
<1>3. CASE lib' = lib /\ port' = port /\ early' = early /\ main # "register"
  BY <1>2, <1>3 DEF LibInv
<1>4. CASE Top
  <2>1. main # "register" /\ main' # "register" /\ early' = early
    BY <1>4 DEF Top, Goto
  <2>2. CASE iface
    BY <1>2, <1>4, <2>1, <2>2 DEF Top, session, LibInv
  <2>3. CASE ~ iface
    <3>1. lib' = Created /\ port' = port
      BY <1>4, <2>3 DEF Top, Call
    <3> QED BY <1>2, <3>1, CreatedIs
  <2> QED BY <2>2, <2>3
<1>5. CASE Ping
  <2>1. lib' = [Cleared(lib) EXCEPT !.target = "PING"] /\ port' = port /\ main' = "register" /\ early' = (early \/ AtWork(lib))
    BY <1>5 DEF Ping, Goto, Call, LibUnregPing
  <2>2. "PING" \in Targets
    BY DEF Targets
  <2>3. LibInv(lib', port, TRUE) /\ (~ AtWork(lib) => OnLink(lib', port))
    BY <1>2, <2>1, <2>2, ClearedKeeps
  <2> QED BY <2>1, <2>3
<1>6. CASE Register
  <2>1. lib' = [Cleared(lib) EXCEPT !.target = "RUNWAIT"] /\ port' = port /\ main' = "await" /\ early' = (early \/ AtWork(lib))
    BY <1>6 DEF Register, Goto, Call, LibRegister
  <2>2. "RUNWAIT" \in Targets
    BY DEF Targets, Linked
  <2>3. LibInv(lib', port, FALSE) /\ (~ AtWork(lib) => OnLink(lib', port))
    BY <1>2, <2>1, <2>2, ClearedKeeps
  <2> QED BY <2>1, <2>3 DEF LibInv
<1>7. CASE Flow
  <2>1. main # "register" /\ main' # "register" /\ Call(ChangeState(lib, "RUN", "none")) /\ early' = (early \/ lib.state # "RUNWAIT")
    BY <1>7 DEF Flow, Goto
  <2>2. LibInv(lib', port', main' = "register")
    BY <1>1, <2>1, CallKeeps
  <2>3. ASSUME OnLink(lib, port), lib.state = "RUNWAIT" PROVE OnLink(lib', port')
    <3>1. lib.registered
      BY <2>3 DEF OnLink, Leaving, LinkStates, Linked
    <3>2. lib'.state = "RUNWAIT" /\ lib'.registered = lib.registered
      BY <1>2, <2>1, <2>3 DEF Call, ChangeState, LibInv, Sound, Tq330
    <3> QED BY <3>1, <3>2 DEF OnLink, Leaving
  <2> QED BY <2>1, <2>2, <2>3
<1>8. CASE Call(ChangeState(lib, "IDLE", "none")) /\ early' = early /\ main # "register" /\ main' # "register"
  BY <1>1, <1>8, CallKeeps
<1>9. CASE DeleteIdle
  <2>1. Call(ChangeState(lib, "TERM", "other")) /\ early' = early /\ main # "register" /\ main' # "register"
    BY <1>9 DEF DeleteIdle, Goto
  <2> QED BY <1>1, <2>1, CallKeeps
<1>10. CASE Drain \/ SleepOver \/ Await \/ SeeRunwait \/ NearFull \/ Suspended \/ Resume \/ DeleteTerm
  <2>1. lib' = lib /\ port' = port /\ early' = early /\ main # "register"
    BY <1>10 DEF Drain, SleepOver, Await, SeeRunwait, NearFull, Suspended, Resume, Scanning, DeleteTerm, session
  <2> QED BY <1>3, <2>1
<1>11. CASE AwaitTimeout \/ Reset \/ Suspend \/ Terminate
  <2>1. Call(ChangeState(lib, "IDLE", "none")) /\ early' = early /\ main # "register" /\ main' # "register"
    BY <1>11 DEF AwaitTimeout, Reset, Suspend, Terminate, Scanning, Delete, StartDeregistrationCall, Goto
  <2> QED BY <1>8, <2>1
<1>12. CASE Ready
  <2>1. CASE lib.state = "RUNWAIT"
    <3>1. lib' = lib /\ port' = port /\ early' = early /\ main # "register"
      BY <1>12, <2>1 DEF Ready, session
    <3> QED BY <1>3, <3>1
  <2>2. CASE lib.state # "RUNWAIT"
    <3>1. Call(ChangeState(lib, "IDLE", "none")) /\ early' = early /\ main # "register" /\ main' # "register"
      BY <1>12, <2>2 DEF Ready, Delete, StartDeregistrationCall, Goto
    <3> QED BY <1>8, <3>1
  <2> QED BY <2>1, <2>2
<1> QED BY <1>4, <1>5, <1>6, <1>7, <1>9, <1>10, <1>11, <1>12 DEF MainNext

LEMMA LibraryKeeps ==
  ASSUME ServerInv, Library(SessionPrompt) \/ Library(SessionSlow)
  PROVE  /\ LibInv(lib', port', main' = "register")
         /\ DataEnabled /\ (early \/ OnLink(lib, port)) => early' \/ OnLink(lib', port')
<1>1. (SessionPrompt \/ SessionSlow) /\ main' = main /\ early' = (early /\ AtWork(lib'))
  BY DEF Library
<1>2. LibInv(lib, port, main = "register") /\ early \in BOOLEAN
  BY DEF ServerInv, MainTypeOK
<1>3. /\ LibInv(lib', port', main = "register")
      /\ DataEnabled /\ OnLink(lib, port) => OnLink(lib', port')
  BY <1>1, <1>2, SessionKeeps
<1>4. ~ AtWork(lib') => OnLink(lib', port')
  BY DEF AtWork, OnLink, Leaving, LinkStates, Linked
<1> QED BY <1>1, <1>2, <1>3, <1>4

LEMMA ServerInitial == Init => LinkInv
<1> SUFFICES ASSUME Init PROVE LinkInv
  OBVIOUS
<1>1. MaxFaults \in Nat /\ MaxCommands \in Nat
  BY Q330SessionAssumption, Q330ServerAssumption
<1>2. MainTypeOK
  <2>1. faults \in 0 .. MaxFaults /\ commands \in 0 .. MaxCommands
    BY <1>1 DEF Init, SessionInit
  <2>2. main \in Places /\ ret \in Places
    BY DEF Init, Places
  <2>3. {iface, g_reset, first_pass, areSuspended} \subseteq BOOLEAN /\ early \in BOOLEAN
    BY DEF Init
  <2> QED BY <2>1, <2>2, <2>3 DEF MainTypeOK
<1>3. LibInv(lib, port, main = "register") /\ OnLink(lib, port)
  BY CreatedIs DEF Init, SessionInit
<1> QED BY <1>2, <1>3 DEF LinkInv, ServerInv

LEMMA ServerKept == ServerInv /\ [Next]_vars => ServerInv'
<1> SUFFICES ASSUME ServerInv, [Next]_vars PROVE ServerInv'
  OBVIOUS
<1>1. MainTypeOK'
  BY TypeKept DEF ServerInv
<1>2. LibInv(lib', port', main' = "register")
  <2>1. CASE UNCHANGED vars
    BY <2>1 DEF ServerInv, vars, session
  <2>2. CASE MainNext
    BY <2>2, MainKeeps
  <2>3. CASE Library(SessionPrompt) \/ Library(SessionSlow)
    BY <2>3, LibraryKeeps
  <2> QED BY <2>1, <2>2, <2>3 DEF Next
<1> QED BY <1>1, <1>2 DEF ServerInv

LEMMA LinkKept == DataEnabled /\ LinkInv /\ [Next]_vars => LinkInv'
<1> SUFFICES ASSUME DataEnabled, LinkInv, [Next]_vars PROVE LinkInv'
  OBVIOUS
<1>1. ServerInv'
  BY ServerKept DEF LinkInv
<1>2. early' \/ OnLink(lib', port')
  <2>1. CASE UNCHANGED vars
    BY <2>1 DEF LinkInv, vars, session
  <2>2. CASE MainNext
    BY <2>2, MainKeeps DEF LinkInv
  <2>3. CASE Library(SessionPrompt) \/ Library(SessionSlow)
    BY <2>3, LibraryKeeps DEF LinkInv
  <2> QED BY <2>1, <2>2, <2>3 DEF Next
<1> QED BY <1>1, <1>2 DEF LinkInv

(* Types of the variables: among others, no command is ever queued twice,  *)
(* whatever is lost, refused or called in the middle.                      *)
THEOREM ServerTypes == Spec => []TypeOK
<1>1. Init => ServerInv
  BY ServerInitial DEF LinkInv
<1>2. ServerInv => TypeOK
  BY DEF ServerInv, MainTypeOK, LibInv, Sound, TypeOK, SessionTypeOK
<1> QED BY <1>1, <1>2, ServerKept, PTL DEF Spec

(* The library never takes itself for registered without a socket.         *)
THEOREM Sockets == Spec => []RegisteredHasSocket
<1>1. Init => ServerInv
  BY ServerInitial DEF LinkInv
<1>2. ServerInv => RegisteredHasSocket
  BY DEF ServerInv, LibInv, Socketed, RegisteredHasSocket
<1> QED BY <1>1, <1>2, ServerKept, PTL DEF Spec

(* Where the digitizer's data port is programmed, the library runs on a    *)
(* registration, unless a link was wanted while it was leaving the last.   *)
THEOREM RunsOnLink ==
  ASSUME DataEnabled
  PROVE  Spec => []RunsOnLinkUnlessEarly
<1>1. LinkInv /\ [Next]_vars => LinkInv'
  BY LinkKept
<1>2. LinkInv => RunsOnLinkUnlessEarly
  BY DEF LinkInv, OnLink, Leaving, RunsOnLinkUnlessEarly, LinkStates, Linked
<1> QED BY <1>1, <1>2, ServerInitial, PTL DEF Spec
=============================================================================
