------------------------------- MODULE Pipeline -------------------------------
(***************************************************************************)
(* The way of a packet from the datalogger library to the rings, and what  *)
(* holds it up: miniseed_callback in the library's thread puts packets in  *)
(* the packet queue and delays the library when little of it is free; the  *)
(* main thread moves them to the rings unless a ring blocks, and ends the  *)
(* data flow when the queue is nearly full (q330serv.C, lib330Interface.C; *)
(* q8serv and lib660Interface are the same code, mserv and                 *)
(* libmsmcastInterface delay without hysteresis).                          *)
(*                                                                         *)
(* Every method of the queue is one step, and so is the rest of each       *)
(* thread between two of them.  The rings are abstracted to whether one of *)
(* them blocks: queueing a record may make it so, and a scan of the        *)
(* clients, whose requests acknowledge records, may end it.  Time enters   *)
(* in one place: the ten delays of a callback, one second, last at least   *)
(* one pass of the main loop that began after the packet was queued.       *)
(***************************************************************************)
EXTENDS PacketQueue

CONSTANTS
  Records,  (* the packets the library delivers                               *)
  Late      (* bound: packets it delivers after it was told to stop           *)

(* The thresholds the constructor computes from the size of the queue. *)
throttle_free   == (2 * QueueSize) \div 10
unthrottle_free == (8 * QueueSize) \div 10
min_free        == QueueSize \div 10

(* The library stops soon enough after it was told to.                     *)
ASSUME PipelineAssumption ==
  /\ Records \subseteq Packets
  /\ Late \in Nat /\ Late < min_free

VARIABLES
  main,        (* where the main thread is                                    *)
  blocked,     (* comserv_anyQueueBlocking                                    *)
  flow,        (* whether the library delivers: "off", "run" or "stopping"    *)
  late,        (* packets delivered while it is stopping                      *)
  callback,    (* where miniseed_callback is                                  *)
  throttling,  (* the static flag in it                                       *)
  passed,      (* whether the main loop made a pass since the packet came     *)
  suspended    (* areSuspended                                                *)

libVars == << callback, throttling >>
flowVars == << main, blocked, flow, late, libVars, passed, suspended >>
pipeVars == << vars, flowVars >>

FlowInit ==
  /\ Init
  /\ main = "top" /\ blocked = FALSE
  /\ flow = "off" /\ late = 0
  /\ callback = "idle" /\ throttling = FALSE /\ passed = FALSE
  /\ suspended = FALSE

numFree == QueueSize - nqueued
------------------------------------------------------------------------------
(* The library's thread: miniseed_callback *)

Deliver(p) ==
  /\ callback = "idle"
  /\ flow = "run" \/ (flow = "stopping" /\ late < Late)
  /\ EnqueuePacket(p)
  /\ callback' = "look" /\ passed' = FALSE
  /\ late' = IF flow = "stopping" THEN late + 1 ELSE late
  /\ UNCHANGED << main, blocked, flow, throttling, suspended >>

(* Defects: no delay is ever begun, and none is ever ended. *)
NeverThrottled == throttling /\ numFree < unthrottle_free

NeverUnthrottled == throttling \/ numFree < throttle_free

Throttled == IF throttling THEN numFree < unthrottle_free ELSE numFree < throttle_free

(* Defect: whether to delay is decided before the flag is brought up to    *)
(* date.                                                                   *)
LookFreeLate ==
  /\ callback = "look"
  /\ throttling' = Throttled
  /\ callback' = IF throttling THEN "delay" ELSE "idle"
  /\ UNCHANGED << vars, main, blocked, flow, late, passed, suspended >>

LookFree ==
  /\ callback = "look"
  /\ throttling' = Throttled
  /\ callback' = IF throttling' THEN "delay" ELSE "idle"
  /\ UNCHANGED << vars, main, blocked, flow, late, passed, suspended >>

(* The loop that registers, waits or suspends makes no passes. *)
Looping == main \in {"scan", "drain", "near"}

(* A tenth of a second later it looks again, ten times at most. *)
DelayOver ==
  /\ callback = "delay"
  /\ callback' \in {"look"} \cup (IF Looping => passed THEN {"idle"} ELSE {})
  /\ UNCHANGED << vars, main, blocked, flow, late, throttling, passed, suspended >>

(* The library is idle, on its own thread, after its last callback. *)
StopDone ==
  /\ flow = "stopping" /\ callback = "idle"
  /\ flow' = "off" /\ late' = 0
  /\ UNCHANGED << vars, main, blocked, libVars, passed, suspended >>
------------------------------------------------------------------------------
(* The main thread *)

Draining == main \in {"top", "drain"}

(* processPacketQueue, one packet; comserv_queue may fill a ring.          *)
Move ==
  /\ Draining /\ nqueued > 0 /\ ~ blocked
  /\ DequeuePacket
  /\ blocked' \in BOOLEAN
  /\ UNCHANGED << main, flow, late, libVars, passed, suspended >>

(* It returns 1. *)
Emptied ==
  /\ Draining /\ nqueued = 0
  /\ main' = IF main = "top" THEN "start" ELSE "scan"
  /\ passed' = TRUE
  /\ UNCHANGED << vars, blocked, flow, late, libVars, suspended >>

(* It returns 0. *)
Blocked ==
  /\ Draining /\ nqueued > 0 /\ blocked
  /\ main' = IF main = "top" THEN "sleep" ELSE "near"
  /\ UNCHANGED << vars, blocked, flow, late, libVars, passed, suspended >>

(* queueNearFull, and the end of the loop if so: startDeregistration.      *)
Near ==
  /\ main = "near"
  /\ passed' = TRUE
  /\ IF numFree < min_free
       THEN main' = "top" /\ flow' = (IF flow = "run" THEN "stopping" ELSE flow)
       ELSE main' = "scan" /\ UNCHANGED flow
  /\ UNCHANGED << vars, blocked, late, libVars, suspended >>

(* comserv_scan: acknowledgements and time-outs can end the blocking.      *)
Acknowledge == blocked' \in {blocked, FALSE}

(* Defect: the server sleeps without serving its clients. *)
SleepIdly ==
  /\ main = "sleep" /\ main' = "top"
  /\ UNCHANGED << vars, blocked, flow, late, libVars, passed, suspended >>

(* Five seconds with a scan every quarter, then the queue is tried again.  *)
Sleep ==
  /\ main = "sleep" /\ main' = "top"
  /\ Acknowledge
  /\ UNCHANGED << vars, flow, late, libVars, passed, suspended >>

Scan ==
  /\ main = "scan" /\ main' = "drain"
  /\ Acknowledge
  /\ UNCHANGED << vars, flow, late, libVars, passed, suspended >>

(* Registration succeeds.  Clients are scanned meanwhile.  While the last  *)
(* deregistration goes on it starts over, and the library delivers again.  *)
Start ==
  /\ main = "start" /\ main' = "scan"
  /\ Acknowledge
  /\ flow' = "run" /\ late' = 0
  /\ UNCHANGED << vars, libVars, passed, suspended >>

(* Registration fails: the interface is deleted once its library is idle,  *)
(* and its packet queue with it; the flag in the callback is static.       *)
StartOver ==
  /\ main = "start" /\ flow = "off" /\ main' = "top"
  /\ Reconstruct
  /\ Acknowledge
  /\ UNCHANGED << flow, late, libVars, passed, suspended >>

(* CSCM_SUSPEND: no client is scanned and no packet moved until the        *)
(* library is idle.                                                        *)
Suspend ==
  /\ main = "scan" /\ main' = "suspending"
  /\ flow' = (IF flow = "run" THEN "stopping" ELSE flow)
  /\ UNCHANGED << vars, blocked, late, libVars, passed, suspended >>

Suspended ==
  /\ main = "suspending" /\ flow = "off" /\ main' = "drain"
  /\ suspended' = TRUE
  /\ UNCHANGED << vars, blocked, flow, late, libVars, passed >>

(* CSCM_RESUME: g_reset ends the loop after one more pass, here at once.   *)
Resume ==
  /\ main = "scan" /\ suspended /\ main' = "top"
  /\ suspended' = FALSE
  /\ flow' = (IF flow = "run" THEN "stopping" ELSE flow)
  /\ UNCHANGED << vars, blocked, late, libVars, passed >>

FlowNext ==
  \/ \E p \in Records : Deliver(p)
  \/ LookFree \/ DelayOver \/ StopDone
  \/ Move \/ Emptied \/ Blocked \/ Near \/ Sleep \/ Scan \/ Start \/ StartOver
  \/ Suspend \/ Suspended \/ Resume

FlowSpec == FlowInit /\ [][FlowNext]_pipeVars

(* Both threads run and data keep coming.  A ring does not block for good: *)
(* clients acknowledge or time out (Delivery!NeverWedged).  Registration   *)
(* succeeds if it is tried often enough.                                   *)
FlowFairness ==
  /\ WF_pipeVars(\E p \in Records : flow = "run" /\ Deliver(p))
  /\ WF_pipeVars(LookFree \/ DelayOver \/ StopDone)
  /\ SF_pipeVars(DelayOver /\ callback' = "idle")      \* ten delays at most
  /\ WF_pipeVars(Move \/ Emptied \/ Blocked \/ Near \/ Sleep \/ Scan \/ StartOver \/ Suspended)
  /\ SF_pipeVars((Sleep \/ Scan) /\ blocked /\ ~ blocked')
  /\ SF_pipeVars(Start)
------------------------------------------------------------------------------
(* Types of the variables. *)
FlowTypeOK ==
  /\ main \in {"top", "sleep", "start", "scan", "drain", "near", "suspending"}
  /\ flow \in {"off", "run", "stopping"} /\ late \in 0 .. Late
  /\ callback \in {"idle", "look", "delay"}
  /\ blocked \in BOOLEAN /\ throttling \in BOOLEAN
  /\ passed \in BOOLEAN /\ suspended \in BOOLEAN
  /\ callback = "delay" => throttling

(* A callback never finds the queue full, so that the oldest packet would  *)
(* be given up for the new one: the two thresholds, the delay and the      *)
(* halt, each looked at in another thread than the one that moves the      *)
(* count, stop the library before.  PipelineAssumption is needed: one more *)
(* late packet and the oldest is lost.                                     *)
NoneGivenUp ==
  [][callback = "idle" /\ callback' = "look" => nqueued < QueueSize]_pipeVars

(* Data flow again and again, unless suspended; and without delay, if the  *)
(* rings do not block: no delay outlives its reason.                       *)
Recovers ==
  /\ []<>(flow = "run" \/ suspended)
  /\ []<>(blocked \/ suspended \/ (flow = "run" /\ ~ throttling))
==============================================================================
