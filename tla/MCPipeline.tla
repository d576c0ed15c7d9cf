------------------------------ MODULE MCPipeline ------------------------------
(***************************************************************************)
(* Model checking of the packet queue with any caller, and of the queue    *)
(* between the library's thread and the main thread, one in each           *)
(* behaviour: they have the queue in common and the same properties of it. *)
(***************************************************************************)
EXTENDS Pipeline

CONSTANTS p1, p2

VARIABLE part  (* which moves: "queue" or "pipeline" *)

allVars == << part, pipeVars >>

(* Where the pipeline is not looked at it is suspended for good. *)
MCInit ==
  \/ part = "pipeline" /\ FlowInit
  \/ /\ part = "queue" /\ Init
     /\ main = "scan" /\ blocked = FALSE /\ flow = "off" /\ late = 0 /\ callback = "idle"
     /\ throttling = FALSE /\ passed = FALSE /\ suspended = TRUE

(* One marked packet, in the queue once at most, shows any mistake in the *)
(* order: the rest are alike.                                             *)
Offered == {p \in Packets \cup {NoPacket} : p = p2 => \A i \in Slots : queue[i] # p2}

InQueue(A) == part = "queue" /\ A /\ UNCHANGED << part, flowVars >>
InPipeline(A) == part = "pipeline" /\ A /\ UNCHANGED part

MCNext ==
  \/ \E p \in Offered : InQueue(EnqueuePacket(p))
  \/ InQueue(DequeuePacket) \/ InQueue(Reconstruct)
  \/ InPipeline(FlowNext)

(* Pipeline!FlowFairness, in its part. *)
MCSpec ==
  /\ MCInit /\ [][MCNext]_allVars
  /\ WF_allVars(InPipeline(\E p \in Records : flow = "run" /\ Deliver(p)))
  /\ WF_allVars(InPipeline(LookFree \/ DelayOver \/ StopDone))
  /\ SF_allVars(InPipeline(DelayOver /\ callback' = "idle"))
  /\ WF_allVars(InPipeline(Move \/ Emptied \/ Blocked \/ Near \/ Sleep \/ Scan \/ StartOver \/ Suspended))
  /\ SF_allVars(InPipeline((Sleep \/ Scan) /\ blocked /\ ~ blocked'))
  /\ SF_allVars(InPipeline(Start))
==============================================================================
