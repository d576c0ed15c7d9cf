--------------------------- MODULE DropOldestQueue ---------------------------
(***************************************************************************)
(* What the servers expect of a PacketQueue (include/PacketQueue.h): a     *)
(* first-in first-out buffer of at most Capacity packets between the       *)
(* datalogger thread and the main thread.  Adding to a full buffer is      *)
(* always accepted and gives up exactly the oldest unread packet, taking   *)
(* from an empty one yields NoPacket.  Only making the buffer anew loses   *)
(* more.                                                                   *)
(***************************************************************************)
EXTENDS Naturals, Sequences

CONSTANTS
  Packets,   (* the packets a datalogger can hand over           *)
  NoPacket,  (* what dequeueing an empty buffer returns          *)
  Capacity   (* how many packets the buffer holds                *)

VARIABLES
  fifo,      (* the packets still to be read, oldest first       *)
  returned   (* the result of the latest dequeue                 *)

vars == << fifo, returned >>

Init == fifo = << >> /\ returned = NoPacket

Put(p) ==
  /\ fifo' = Append(IF Len(fifo) = Capacity THEN Tail(fifo) ELSE fifo, p)
  /\ UNCHANGED returned

Take ==
  /\ fifo # << >>
  /\ returned' = Head(fifo)
  /\ fifo' = Tail(fifo)

TakeNothing ==
  /\ fifo = << >>
  /\ returned' = NoPacket
  /\ UNCHANGED fifo

MakeAnew == fifo' = << >> /\ returned' = NoPacket

Next == (\E p \in Packets : Put(p)) \/ Take \/ TakeNothing \/ MakeAnew

Spec == Init /\ [][Next]_vars
==============================================================================
