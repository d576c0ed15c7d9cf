---------------------------- MODULE RequestReply ----------------------------
(***************************************************************************)
(* What a client program may rely on when it calls cs_svc: the call either *)
(* succeeds, and then the server has carried out this very request exactly *)
(* once since it was made, or fails, and then it has not carried it out    *)
(* and never will.  The promise stands until the server is killed.         *)
(***************************************************************************)
EXTENDS Naturals

CONSTANTS Procs   (* the client processes *)

VARIABLES
  asking,   (* the process is in a call                                      *)
  times,    (* how often its request was carried out                         *)
  result,   (* how its last call ended                                       *)
  stands    (* the server that was there first is still there                *)

vars == << asking, times, result, stands >>

Init ==
  /\ asking = [p \in Procs |-> FALSE]
  /\ times = [p \in Procs |-> 0]
  /\ result = [p \in Procs |-> "none"]
  /\ stands = TRUE

Ask(p) ==
  /\ ~ asking[p]
  /\ asking' = [asking EXCEPT ![p] = TRUE]
  /\ times' = [times EXCEPT ![p] = 0]
  /\ UNCHANGED result

Answer(p) ==
  /\ asking[p] /\ times[p] = 0
  /\ times' = [times EXCEPT ![p] = 1]
  /\ UNCHANGED << asking, result >>

Succeed(p) ==
  /\ asking[p] /\ times[p] = 1
  /\ asking' = [asking EXCEPT ![p] = FALSE]
  /\ result' = [result EXCEPT ![p] = "good"]
  /\ UNCHANGED times

Fail(p) ==
  /\ asking[p] /\ times[p] = 0
  /\ asking' = [asking EXCEPT ![p] = FALSE]
  /\ result' = [result EXCEPT ![p] = "failed"]
  /\ UNCHANGED times

(* The process is no more; nothing is promised to it. *)
Vanish(p) ==
  /\ asking' = [asking EXCEPT ![p] = FALSE]
  /\ times' = [times EXCEPT ![p] = 0]
  /\ result' = [result EXCEPT ![p] = "none"]

(* The server is no more; nothing is promised to anybody. *)
Collapse ==
  /\ stands' = FALSE
  /\ asking' = [p \in Procs |-> FALSE]
  /\ times' = [p \in Procs |-> 0]
  /\ result' = [p \in Procs |-> "none"]

Next ==
  \/ /\ stands
     /\ \E p \in Procs : Ask(p) \/ Answer(p) \/ Succeed(p) \/ Fail(p) \/ Vanish(p)
     /\ UNCHANGED stands
  \/ Collapse

Spec == Init /\ [][Next]_vars
=============================================================================
