---------------------------- MODULE SlidingWindow ----------------------------
(***************************************************************************)
(* The data port of a Q330 as lib330 receives it: lib330/libslider.c and   *)
(* the timers of lib_timer in lib330/libcmds.c that belong to it.  The     *)
(* digitizer sends numbered packets over UDP; the library keeps those that *)
(* come early in pkt_bufs, hands over what is in sequence, and answers     *)
(* with a DT_DACK that holds a number and a bitmap.                        *)
(*                                                                         *)
(* Packets are counted 0, 1, 2, ... here; the number n travels as the word *)
(* n % SeqMod, and that word is all the receiver sees of it.  The channel  *)
(* loses, repeats and reorders packets of both directions.                 *)
(*                                                                         *)
(* Outside src/: the digitizer, modelled from what the receiver relies on. *)
(* It sends nothing before it got a DT_OPEN, keeps a packet until it and   *)
(* all before it were acknowledged, and sends again what was not.          *)
(***************************************************************************)
EXTENDS Integers, Sequences, FiniteSets

CONSTANTS
  SeqMod,      (* numbers of a word: 65536                                   *)
  NBufs,       (* buffers of pkt_bufs: 256                                   *)
  WinBufs,     (* WINBUFS, bits of an acknowledgement: 128                   *)
  AckCnt,      (* log.ack_cnt, packets per acknowledgement                   *)
  AckTo,       (* log.ack_to, the longest delay of an acknowledgement        *)
  OpenAfter,   (* ack_timeout, after which a DT_OPEN is sent: 10 s           *)
  SendWin,     (* log.window, packets the digitizer has under way            *)
  MaxAge,      (* a packet arrives before that many newer ones were sent      *)
  First,       (* the number of the first packet                             *)
  Last,        (* bound: the number after the last packet                    *)
  MaxBreaks    (* bound: how often the link is set up again or reception stops  *)
               (* for a while                                                *)

ASSUME SlidingWindowAssumption ==
  /\ {SeqMod, NBufs, SendWin} \subseteq Nat \ {0}
  /\ WinBufs \in Nat \ {0, 1}   \* InWindow takes a window of one for all words
  /\ {AckCnt, AckTo, OpenAfter, MaxAge, First, Last, MaxBreaks} \subseteq Nat
  /\ First <= Last
  /\ SeqMod % NBufs = 0          \* "sequence and 255" keeps numbers apart
  /\ WinBufs <= NBufs
  /\ SendWin <= WinBufs
  /\ SendWin + WinBufs <= SeqMod
  /\ MaxAge + WinBufs <= SeqMod  \* or an old packet looks like a new one

WinWrap == WinBufs - 1

Empty == -1
Bits == 1 .. WinBufs - 1

VARIABLES
  \* the receiver
  link_recv,    (* link parameters were received, the window is set up        *)
  running,      (* libstate = LIBSTATE_RUN and no freeze_timer                *)
  last_packet,  (* the word expected next                                     *)
  pkt_bufs,     (* the packet in each buffer, Empty if not valid              *)
  dataout,      (* the buffer for outgoing messages                           *)
  ack_counter,
  ack_delay,    (* the delay of an acknowledgement is running                 *)
  due, batch,   (* history: what was handed to proc_insequence                *)
  \* the digitizer
  opened,       (* it was asked for data                                      *)
  kept,         (* the oldest packet it keeps                                 *)
  fresh,        (* the packet it makes next                                   *)
  acked,        (* the packets after kept that were acknowledged              *)
  \* the channel
  data, acks,   (* what is under way in each direction                        *)
  breaks

receiver == << link_recv, running, last_packet, pkt_bufs, dataout, ack_counter, ack_delay, due, batch >>
digitizer == << opened, kept, fresh, acked >>
channel == << data, acks >>
vars == << receiver, digitizer, channel, breaks >>

Word(n) == n % SeqMod
Open == [kind |-> "open"]

(* n is history: the number that low stands for. *)
Dack(n, bits) == [kind |-> "dack", low |-> Word(n), bits |-> bits, n |-> n]

Init ==
  /\ link_recv = FALSE /\ running = FALSE
  /\ last_packet = 0
  /\ pkt_bufs = [i \in 0 .. NBufs - 1 |-> Empty]
  /\ dataout = Open
  /\ ack_counter = 0 /\ ack_delay = FALSE
  /\ due = First /\ batch = << >>
  /\ opened = FALSE /\ kept = First /\ fresh = First /\ acked = {}
  /\ data = {} /\ acks = {}
  /\ breaks = 0
------------------------------------------------------------------------------
(* The receiver *)

Buffer(w) == w % NBufs

(* Defect: a window as wide as the buffers. *)
InWindowTooWide(seq) == Word(seq - last_packet) <= NBufs

(* Is the word seq one of the WINWRAP + 1 from last_packet on? *)
InWindow(seq) ==
  LET hw == Word(last_packet + WinWrap) IN
  IF hw > last_packet THEN seq >= last_packet /\ seq <= hw
                      ELSE seq >= last_packet \/ seq <= hw

(* How many buffers from word w on are valid without a gap. *)
Ready(bufs, w) ==
  CHOOSE k \in 0 .. NBufs :
     /\ \A i \in 0 .. k - 1 : bufs[Buffer(w + i)] # Empty
     /\ k < NBufs => bufs[Buffer(w + k)] = Empty

(* Defect: bit i stands for w + i. *)
HeldBitsOneOff(bufs, w) == {i \in Bits : bufs[Buffer(w + i)] # Empty}

(* The bitmap of an acknowledgement: bit 0 stands for the word before w,   *)
(* bit i for w + i - 1.                                                    *)
HeldBits(bufs, w) == {i \in Bits : bufs[Buffer(w + i - 1)] # Empty}

(* Defect: valid is not cleared. *)
DrainedNot(bufs, gone) == bufs

Drained(bufs, gone) == [b \in DOMAIN bufs |-> IF b \in gone THEN Empty ELSE bufs[b]]

(* Defect: the counter runs on and no acknowledgement goes out. *)
SendDackNoReset(bufs) ==
  LET k == Ready(bufs, last_packet)
      taken == [i \in 1 .. k |-> bufs[Buffer(last_packet + i - 1)]]
      left == Drained(bufs, {Buffer(last_packet + i) : i \in 0 .. k - 1}) IN
  /\ pkt_bufs' = left
  /\ last_packet' = Word(last_packet + k)
  /\ due' = IF k > 0 THEN taken[k] + 1 ELSE due
  /\ batch' = IF k > 0 THEN taken ELSE batch
  /\ ack_counter' = ack_counter + 1
  /\ UNCHANGED << dataout, ack_delay, acks >>

(* send_dack hands over what is in sequence, writes a DT_DACK into dataout *)
(* and sends it at every AckCnt-th call, or lets the delay send it.        *)
SendDack(bufs) ==
  LET k == Ready(bufs, last_packet)
      taken == [i \in 1 .. k |-> bufs[Buffer(last_packet + i - 1)]]
      left == Drained(bufs, {Buffer(last_packet + i) : i \in 0 .. k - 1})
      next == Word(last_packet + k)
      after == IF k > 0 THEN taken[k] + 1 ELSE due
      msg == [Dack(after - 1, HeldBits(left, next)) EXCEPT !.low = Word(next - 1)]
      now == ack_counter + 1 >= AckCnt IN
  /\ pkt_bufs' = left
  /\ last_packet' = next
  /\ due' = after
  /\ batch' = IF k > 0 THEN taken ELSE batch
  /\ dataout' = msg
  /\ ack_counter' = IF now THEN 0 ELSE ack_counter + 1
  /\ ack_delay' = (~ now /\ AckTo > 0)
  /\ acks' = IF now THEN acks \cup {msg} ELSE acks

(* Defect: only packets in the window are answered. *)
ProcessDataGoodOnly(n) ==
  /\ n \in data
  /\ data' \in {data, data \ {n}}
  /\ IF link_recv /\ running /\ InWindow(Word(n))
     THEN /\ SendDack([pkt_bufs EXCEPT ![Buffer(Word(n))] = n])
          /\ UNCHANGED << link_recv, running >>
     ELSE UNCHANGED << receiver, acks >>
  /\ UNCHANGED << digitizer, breaks >>

(* process_data: out of the window or not, the packet is answered. *)
ProcessData(n) ==
  /\ n \in data
  /\ data' \in {data, data \ {n}}
  /\ IF link_recv /\ running
     THEN /\ SendDack(IF InWindow(Word(n)) THEN [pkt_bufs EXCEPT ![Buffer(Word(n))] = n] ELSE pkt_bufs)
          /\ UNCHANGED << link_recv, running >>
     ELSE UNCHANGED << receiver, acks >>
  /\ UNCHANGED << digitizer, breaks >>

(* dack_out, when ack_delay has run down: whatever is in dataout goes out. *)
DackOut ==
  /\ ack_delay /\ link_recv
  /\ ack_delay' = FALSE
  /\ acks' = acks \cup {dataout}
  /\ UNCHANGED << link_recv, running, last_packet, pkt_bufs, dataout, ack_counter, due, batch, data >>
  /\ UNCHANGED << digitizer, breaks >>

(* The delay also runs down while there is no link; then nothing is sent. *)
DelayLapses ==
  /\ ack_delay /\ ~ link_recv
  /\ ack_delay' = FALSE
  /\ UNCHANGED << link_recv, running, last_packet, pkt_bufs, dataout, ack_counter, due, batch >>
  /\ UNCHANGED << digitizer, channel, breaks >>

(* send_dopen puts a DT_OPEN where an acknowledgement may be waiting. *)
SendDopen ==
  /\ dataout' = Open
  /\ ack_counter' = 0
  /\ acks' = acks \cup {Open}

(* lib_timer: no packet came for ack_timeout seconds.  A delay that is     *)
(* shorter has run down before.                                            *)
AckTimeout ==
  /\ running /\ (ack_delay => AckTo >= OpenAfter)
  /\ SendDopen
  /\ UNCHANGED << link_recv, running, last_packet, pkt_bufs, ack_delay, due, batch, data >>
  /\ UNCHANGED << digitizer, breaks >>

(* lib_timer: the library goes from RUNWAIT to RUN. *)
Run ==
  /\ link_recv /\ ~ running
  /\ running' = TRUE
  /\ SendDopen
  /\ UNCHANGED << link_recv, last_packet, pkt_bufs, ack_delay, due, batch, data >>
  /\ UNCHANGED << digitizer, breaks >>

(* From RUN back to RUNWAIT, the link kept: new tokens are read. *)
Pause ==
  /\ running /\ breaks < MaxBreaks
  /\ running' = FALSE
  /\ breaks' = breaks + 1
  /\ UNCHANGED << link_recv, last_packet, pkt_bufs, dataout, ack_counter, ack_delay, due, batch >>
  /\ UNCHANGED << digitizer, channel >>

(* reset_link, when the link parameters arrive and there is no link. *)
ResetLink ==
  /\ ~ link_recv
  /\ link_recv' = TRUE
  /\ last_packet' = Word(kept)
  /\ pkt_bufs' = [b \in DOMAIN pkt_bufs |-> Empty]
  /\ ack_counter' = 0 /\ ack_delay' = FALSE
  /\ due' = kept
  /\ UNCHANGED << running, dataout, batch >>
  /\ UNCHANGED << digitizer, channel, breaks >>

(* lib_continue_registration: the library registers again.  The exchange   *)
(* that follows outlasts every packet under way.                           *)
Unlink ==
  /\ link_recv /\ breaks < MaxBreaks
  /\ link_recv' = FALSE /\ running' = FALSE
  /\ opened' = FALSE /\ acked' = {}
  /\ data' = {} /\ acks' = {}
  /\ breaks' = breaks + 1
  /\ UNCHANGED << last_packet, pkt_bufs, dataout, ack_counter, ack_delay, due, batch >>
  /\ UNCHANGED << kept, fresh >>
------------------------------------------------------------------------------
(* The digitizer and the channel *)

SendNew ==
  /\ opened /\ fresh < Last /\ fresh < kept + SendWin
  /\ fresh' = fresh + 1
  /\ data' = {n \in data : n + MaxAge > fresh} \cup {fresh}
  /\ acks' = {a \in acks : a.kind = "dack" => a.n + MaxAge > fresh}
  /\ UNCHANGED << receiver, opened, kept, acked, breaks >>

Resend(n) ==
  /\ opened /\ n \in kept .. fresh - 1 /\ n \notin acked /\ n \notin data
  /\ data' = data \cup {n}
  /\ UNCHANGED << receiver, digitizer, acks, breaks >>

(* An acknowledgement whose number is not expected is ignored. *)
GetDack(a) ==
  /\ a \in acks /\ a.kind = "dack"
  /\ acks' \in {acks, acks \ {a}}
  /\ \E n \in kept - 1 .. fresh - 1 :
        LET all == acked \cup (kept .. n) \cup {n + i : i \in a.bits}
            k == CHOOSE k \in kept .. fresh :
                   /\ kept .. k - 1 \subseteq all
                   /\ k < fresh => k \notin all IN
        /\ Word(n) = a.low
        /\ kept' = k
        /\ acked' = all \cap (k .. fresh - 1)
  /\ UNCHANGED << receiver, opened, fresh, data, breaks >>

GetOpen ==
  /\ Open \in acks
  /\ acks' \in {acks, acks \ {Open}}
  /\ opened' = TRUE
  /\ UNCHANGED << receiver, kept, fresh, acked, data, breaks >>

Lose ==
  /\ \/ \E n \in data : data' = data \ {n} /\ acks' = acks
     \/ \E a \in acks : acks' = acks \ {a} /\ data' = data
  /\ UNCHANGED << receiver, digitizer, breaks >>

Next ==
  \/ \E n \in data : ProcessData(n)
  \/ DackOut \/ DelayLapses \/ AckTimeout \/ Run \/ Pause \/ ResetLink \/ Unlink
  \/ SendNew \/ \E n \in First .. Last - 1 : Resend(n)
  \/ \E a \in acks : GetDack(a)
  \/ GetOpen \/ Lose

Spec == Init /\ [][Next]_vars

(* The library's timers and its thread run, the digitizer goes on sending  *)
(* the oldest packet it keeps, and a packet or an acknowledgement that is  *)
(* sent again and again gets through at some time.                         *)
FairSpec ==
  /\ Spec
  /\ WF_vars(DackOut) /\ WF_vars(ResetLink) /\ WF_vars(Run)
  /\ WF_vars(AckTimeout /\ ~ opened)      \* no packet comes, so it expires
  /\ WF_vars(SendNew) /\ WF_vars(\E n \in {kept} : Resend(n))
  /\ SF_vars(\E n \in {kept} \cap data : ProcessData(n) /\ link_recv /\ running)
  /\ SF_vars(\E a \in acks : GetDack(a) /\ kept' > kept)
  /\ SF_vars(GetOpen /\ ~ opened)
------------------------------------------------------------------------------
(* Properties *)

(* Types of the variables. *)
TypeOK ==
  /\ link_recv \in BOOLEAN /\ running \in BOOLEAN
  /\ last_packet \in 0 .. SeqMod - 1
  /\ pkt_bufs \in [0 .. NBufs - 1 -> {Empty} \cup (First .. Last - 1)]
  /\ dataout.kind \in {"open", "dack"} /\ \A a \in acks : a.kind \in {"open", "dack"}
  /\ ack_counter \in Nat /\ (ack_counter = 0 \/ ack_counter < AckCnt)
  /\ ack_delay \in BOOLEAN /\ opened \in BOOLEAN
  /\ kept \in First .. fresh /\ fresh \in First .. Last /\ due \in First .. fresh
  /\ acked \subseteq kept + 1 .. fresh - 1 /\ data \subseteq First .. fresh - 1
  /\ breaks \in 0 .. MaxBreaks

(* A valid buffer holds one of the WINBUFS packets from the one due on, in *)
(* the buffer of its number: none is left over from 256 packets ago or     *)
(* from before the link was reset (valid is cleared in send_dack and       *)
(* reset_link, the window keeps others out).                               *)
BuffersInWindow ==
  link_recv =>
    /\ last_packet = Word(due)
    /\ \A b \in DOMAIN pkt_bufs : pkt_bufs[b] # Empty =>
          /\ pkt_bufs[b] \in due .. due + WinWrap
          /\ Buffer(pkt_bufs[b]) = b

(* A packet the digitizer takes for acknowledged was handed over or lies   *)
(* in a buffer, whatever acknowledgements were lost, doubled or late.      *)
AckedIsHeld ==
  \A n \in acked \cup (First .. kept - 1) : n < due \/ pkt_bufs[Buffer(n)] = n

(* Packets are handed over in order, none left out, none twice, and the    *)
(* digitizer lets go of a packet only after that (OrderedFeed).            *)
Feed == INSTANCE OrderedFeed
ImplementsOrderedFeed == Feed!Spec

(* Every packet the digitizer makes is handed over in the end, and then    *)
(* acknowledged, though packets of both directions are lost, doubled and   *)
(* reordered and acknowledgements are held back.                           *)
AllArrive == <>(kept = Last)
=============================================================================
