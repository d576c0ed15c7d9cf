----------------------------- MODULE OrderedFeed -----------------------------
(***************************************************************************)
(* What the sliding window promises to the code that takes the packets of  *)
(* one data port apart: packets arrive in the order of their numbers, none *)
(* left out and none twice, and the digitizer throws a packet away only    *)
(* once it was handed over.  When the link is set up anew the feed goes on *)
(* from the oldest packet the digitizer still has.                         *)
(***************************************************************************)
EXTENDS Integers, Sequences

VARIABLES
  due,    (* the number of the packet to be handed over next               *)
  batch,  (* the numbers of the packets handed over last                   *)
  kept    (* the number of the oldest packet the digitizer still has       *)

vars == << due, batch, kept >>

Init == due \in Nat /\ batch = << >> /\ kept = due

HandOver ==
  /\ batch' # << >>
  /\ batch' = [i \in 1 .. Len(batch') |-> due + i - 1]
  /\ due' = due + Len(batch')
  /\ UNCHANGED kept

Discard ==
  /\ kept' \in kept + 1 .. due
  /\ UNCHANGED << due, batch >>

StartOver ==
  /\ due' = kept
  /\ UNCHANGED << batch, kept >>

Next == HandOver \/ Discard \/ StartOver

Spec == Init /\ [][Next]_vars
=============================================================================
