------------------------------ MODULE MCDelivery -----------------------------
(***************************************************************************)
(* Instances of Delivery: a ring of data records and a ring of messages,   *)
(* shorter or as long.  Count, Mask and Wanted are functions, so their     *)
(* values are written here.                                                *)
(***************************************************************************)
EXTENDS Delivery, TLC

CONSTANTS data, msg, k1, k2   (* model values, named in every cfg *)

TwoRings == data :> 3 @@ msg :> 2

EvenRings == data :> 3 @@ msg :> 3

OneRing == data :> 3

AllRings == [c \in Clients |-> Queues]

AllKinds == [c \in Clients |-> Kinds]

FirstKind == [c \in Clients |-> {k1}]
==============================================================================
