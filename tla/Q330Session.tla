----------------------------- MODULE Q330Session -----------------------------
(***************************************************************************)
(* lib330 registered with a Q330: the states of the library, the commands  *)
(* it queues and repeats, and the digitizer's answers (lib330/libcmds.c,   *)
(* libstrucs.c, libtokens.c, q330io.c), over UDP and without the baler     *)
(* simulation.                                                             *)
(*                                                                         *)
(* The library's thread runs one handler at a time and the fields of the   *)
(* record lib are its own, but for target and liberr: the main thread of   *)
(* the server writes those too, and the library writes them back when      *)
(* something goes wrong.  lib_timer is taken apart, since the main thread  *)
(* may write the target between any two of its parts.                      *)
(*                                                                         *)
(* Outside src/: the Q330.  It answers what it gets, refuses all but a     *)
(* registration from a port that is not registered, and may lose the       *)
(* registration.                                                           *)
(***************************************************************************)
EXTENDS Integers, Sequences, FiniteSets

CONSTANTS
  DataEnabled,  (* the Q330's data port is programmed (lp_off # 0)           *)
  MaxFaults     (* bound: refusals, lost registrations, failed calls and     *)
                (* changes of the digitizer's configuration                  *)

ASSUME Q330SessionAssumption == DataEnabled \in BOOLEAN /\ MaxFaults \in Nat

VARIABLES
  lib,    (* the library: tq330                                              *)
  port,   (* the digitizer's port is registered to this library              *)
  faults

session == << lib, port, faults >>

LibStates == {"IDLE", "TERM", "PING", "REG", "READCFG", "READTOK", "DECTOK",
              "RUNWAIT", "RUN", "DEREG", "WAIT"}
Reasons == {"none", "tokens", "notr", "other"}
Commands == {"RQSRV", "SRVRSP", "DSRV", "RQFGLS", "RQGID", "RQSTAT", "RQMEM", "PING"}

None == "none"

(* A library just created (lib_create_330). *)
Created ==
  [state |-> "IDLE", target |-> "IDLE", liberr |-> "none",
   registered |-> FALSE,
   open |-> FALSE,            \* cpath and dpath are sockets
   reboot_done |-> FALSE,
   have_config |-> FALSE,
   ping |-> "idle",           \* client_ping
   cmdq |-> << >>,            \* cmdq[cmdout .. cmdin - 1]
   cphase |-> "idle",
   asked |-> {},              \* requests under way: command, and whether it is the last sent
   answer |-> None]           \* an answer under way whose number is lastctrlseq
------------------------------------------------------------------------------
(* The functions of the library, from library to library *)

NewState(L, s) == [L EXCEPT !.state = s]

ChangeState(L, s, why) == [L EXCEPT !.target = s, !.liberr = why]

(* The answer to an older transmission does not carry lastctrlseq.         *)
Outdated(L) == [L EXCEPT !.asked = {[m EXCEPT !.last = FALSE] : m \in @}, !.answer = None]

(* A new socket has a new port: what was under way for the old one is lost. *)
CloseSockets(L) == [L EXCEPT !.open = FALSE, !.asked = {}, !.answer = None]

PurgeCmdq(L) == [Outdated(L) EXCEPT !.cmdq = << >>, !.cphase = "idle"]

ClearCmsg(L) == [Outdated(L) EXCEPT !.cmdq = IF @ = << >> THEN @ ELSE Tail(@), !.cphase = "idle"]

(* lib_send_next_cmd: ENOBUFS is SendFails. *)
SendNext(L) ==
  IF L.cphase = "wait" \/ L.cmdq = << >> THEN L
  ELSE LET M == Outdated(L) IN
       [M EXCEPT !.cphase = "wait",
                 !.asked = IF L.open THEN @ \cup {[cmd |-> Head(L.cmdq), last |-> TRUE]} ELSE @]

(* Defect: no look whether the command is queued. *)
NewCmdTwice(L, c) == SendNext([L EXCEPT !.cmdq = Append(@, c)])

(* A command that is queued, or was sent and not answered, is not queued again. *)
NewCmd(L, c) ==
  IF \E i \in DOMAIN L.cmdq : L.cmdq[i] = c THEN L
  ELSE SendNext([L EXCEPT !.cmdq = Append(@, c)])

Lib330Reboot(L) ==
  LET M == [L EXCEPT !.reboot_done = FALSE, !.state = "READCFG"] IN
  NewCmd(NewCmd(NewCmd(M, "RQFGLS"), "RQGID"), "RQSTAT")

StartDeregistration(L) ==
  [NewCmd(PurgeCmdq(NewState(L, "DEREG")), "DSRV") EXCEPT !.have_config = FALSE]

CfgStart(L) == NewCmd(NewState(L, "READTOK"), "RQMEM")

(* LIBSTATE_DEALLOC does not outlast start_deallocation. *)
StartDeallocation(L) ==
  CASE L.liberr = "tokens" -> CfgStart(L)
    [] L.liberr = "notr" -> CloseSockets([NewState(L, "WAIT") EXCEPT !.registered = FALSE])
    [] OTHER -> StartDeregistration(L)

ContinueRegistration(L) ==
  NewCmd([NewState(L, "REG") EXCEPT !.registered = FALSE, !.have_config = FALSE, !.cmdq = << >>], "RQSRV")

(* lib_start_registration and lib_start_ping; ok: open_sockets succeeds.   *)
StartRegistration(L, ok) ==
  IF ok THEN ContinueRegistration([CloseSockets(L) EXCEPT !.open = TRUE])
  ELSE [ChangeState(CloseSockets(L), "WAIT", "other") EXCEPT !.registered = FALSE]

StartPing(L, ok) ==
  IF ok THEN [CloseSockets(L) EXCEPT !.open = TRUE, !.state = "PING", !.registered = FALSE,
                                     !.have_config = FALSE, !.ping = "req", !.cmdq = << >>]
  ELSE ChangeState(CloseSockets(L), "IDLE", "other")
------------------------------------------------------------------------------
(* lib_timer: the library follows the target. *)

(* Defect: the states of a ping are forgotten. *)
RetargetedNoPing(L, ok) ==
  CASE L.target \in {"WAIT", "IDLE"} /\ L.state \in {"IDLE", "WAIT"} -> NewState(L, L.target)
    [] L.target \in {"WAIT", "IDLE"} /\ L.state = "REG" -> NewState(CloseSockets(L), L.target)
    [] L.target \in {"WAIT", "IDLE"} /\ L.state \in {"READCFG", "READTOK", "DECTOK"} -> StartDeregistration(L)
    [] L.target \in {"WAIT", "IDLE"} /\ L.state \in {"RUNWAIT", "RUN"} -> StartDeallocation(L)
    [] L.target = "RUNWAIT" /\ L.state = "DECTOK" -> NewState(L, "RUNWAIT")
    [] L.target = "RUNWAIT" /\ L.state = "RUN" -> StartDeallocation(L)
    [] L.target = "RUNWAIT" /\ L.state \in {"IDLE", "WAIT"} -> StartRegistration(L, ok)
    [] L.target = "RUN" /\ L.state = "RUNWAIT" -> NewState(L, "RUN")
    [] L.target = "PING" /\ L.state = "IDLE" -> StartPing(L, ok)
    [] L.target = "TERM" -> NewState(L, "TERM")
    [] OTHER -> L

Retargeted(L, ok) ==
  CASE L.target \in {"WAIT", "IDLE"} /\ L.state \in {"IDLE", "WAIT"} -> NewState(L, L.target)
    [] L.target \in {"WAIT", "IDLE"} /\ L.state = "REG" -> NewState(CloseSockets(L), L.target)
    [] L.target \in {"WAIT", "IDLE"} /\ L.state \in {"READCFG", "READTOK", "DECTOK"} -> StartDeregistration(L)
    [] L.target \in {"WAIT", "IDLE"} /\ L.state \in {"RUNWAIT", "RUN"} -> StartDeallocation(L)
    [] L.target \in {"WAIT", "IDLE"} /\ L.state = "PING" ->
         CloseSockets([NewState(L, L.target) EXCEPT !.registered = FALSE])
    [] L.target = "RUNWAIT" /\ L.state = "DECTOK" -> NewState(L, "RUNWAIT")
    [] L.target = "RUNWAIT" /\ L.state = "RUN" -> StartDeallocation(L)
    [] L.target = "RUNWAIT" /\ L.state \in {"IDLE", "WAIT"} -> StartRegistration(L, ok)
    [] L.target = "RUN" /\ L.state = "RUNWAIT" -> NewState(L, "RUN")
    [] L.target = "PING" /\ L.state = "IDLE" -> StartPing(L, ok)
    [] L.target = "TERM" -> NewState(L, "TERM")   \* libthread ends
    [] OTHER -> L

Fault == faults < MaxFaults /\ faults' = faults + 1

Retarget ==
  /\ lib.state \notin {lib.target, "TERM"}
  /\ \E ok \in BOOLEAN :
        /\ lib' = Retargeted(lib, ok)
        /\ IF ok THEN faults' = faults ELSE Fault
  /\ lib' # lib
  /\ UNCHANGED port

(* The states in which lib_timer goes past its early return. *)
Busy == lib.state \notin {"IDLE", "TERM", "WAIT"}

(* reg_wait_timer has run down. *)
WaitOver ==
  /\ lib.state = "WAIT"
  /\ lib' = ChangeState(lib, "RUNWAIT", "none")
  /\ UNCHANGED << port, faults >>

(* No answer within ctrlrecnt: a ping is given up, others are sent again.  *)
CommandTimeout ==
  /\ Busy /\ lib.cphase = "wait"
  /\ lib' = IF Head(lib.cmdq) = "PING"
            THEN LET L == ClearCmsg(lib) IN
                 SendNext(IF L.ping = "sent"
                          THEN [L EXCEPT !.ping = "idle",
                                         !.target = IF L.state = "PING" THEN "IDLE" ELSE @]
                          ELSE L)
            ELSE SendNext([lib EXCEPT !.cphase = "need"])
  /\ UNCHANGED << port, faults >>

SendPing ==
  /\ Busy /\ lib.ping = "req"
  /\ lib' = NewCmd([lib EXCEPT !.ping = "sent"], "PING")
  /\ UNCHANGED << port, faults >>

(* The call at the end of lib_timer. *)
SendQueued ==
  /\ Busy /\ lib.cphase = "idle" /\ lib.cmdq # << >>
  /\ lib' = SendNext(lib)
  /\ UNCHANGED << port, faults >>

(* sendto fails with ENOBUFS. *)
SendFails ==
  /\ Busy /\ \E m \in lib.asked : m.last
  /\ Fault
  /\ lib' = [CloseSockets(ChangeState(PurgeCmdq(lib), "WAIT", "notr")) EXCEPT !.registered = FALSE]
  /\ UNCHANGED port

(* Defect: the request is sent again instead. *)
DeregTimeoutResends ==
  /\ lib.state = "DEREG"
  /\ lib' = NewCmd(PurgeCmdq(lib), "DSRV")
  /\ UNCHANGED << port, faults >>

(* The answer to C1_DSRV did not come in five seconds. *)
DeregTimeout ==
  /\ lib.state = "DEREG"
  /\ lib' = CloseSockets([NewState(PurgeCmdq(lib), lib.target) EXCEPT !.registered = FALSE])
  /\ UNCHANGED << port, faults >>

RegTimeout ==
  /\ lib.state = "REG"
  /\ lib' = [ChangeState(PurgeCmdq(lib), "WAIT", "other") EXCEPT !.registered = FALSE]
  /\ UNCHANGED << port, faults >>

(* data_timer: ten minutes without data. *)
DataTimeout ==
  /\ lib.state = "RUN"
  /\ lib' = ChangeState(PurgeCmdq(lib), "WAIT", "notr")
  /\ UNCHANGED << port, faults >>

(* status_timer: five minutes without status. *)
StatusTimeout ==
  /\ lib.state \in {"READCFG", "READTOK", "DECTOK", "RUNWAIT", "RUN"}
  /\ lib' = ChangeState(PurgeCmdq(lib), "WAIT", "other")
  /\ UNCHANGED << port, faults >>

(* opt_conntime: the library has run long enough for now. *)
ConnectTimeOver ==
  /\ lib.state = "RUN" /\ lib.target # "WAIT"
  /\ lib' = ChangeState(lib, "WAIT", "other")
  /\ UNCHANGED << port, faults >>

RequestStatus ==
  /\ lib.state = "RUN" /\ lib.have_config
  /\ lib' = NewCmd(lib, "RQSTAT") /\ lib' # lib
  /\ UNCHANGED << port, faults >>
------------------------------------------------------------------------------
(* lib_command_response *)

Errors == {"NOTR", "TMSERV", "INVREG", "SNV"}

(* Defect: the target is left. *)
RefusedKeepsTarget(L, c, r) ==
  CASE r \in {"NOTR", "TMSERV", "INVREG"} -> [L EXCEPT !.registered = FALSE]
    [] r = "SNV" /\ c = "RQMEM" /\ L.state = "READTOK" -> ChangeState(L, "WAIT", "other")
    [] OTHER -> L

(* C1_CERR to the command c; L no longer waits, but for C1_RQMEM.          *)
Refused(L, c, r) ==
  CASE r \in {"NOTR", "TMSERV"} -> [ChangeState(L, "WAIT", "notr") EXCEPT !.registered = FALSE]
    [] r = "INVREG" -> [ChangeState(L, "WAIT", "other") EXCEPT !.registered = FALSE]
    [] r = "SNV" /\ c = "RQMEM" /\ L.state = "READTOK" -> ChangeState(L, "WAIT", "other")
    [] OTHER -> L

StatusRead(L, r) ==
  LET M == CASE r = "STAT_TOKEN" -> ChangeState(L, "RUNWAIT", "tokens")
             [] r = "STAT_FULL" /\ L.state = "RUN" -> ChangeState(L, "WAIT", "other")
             [] OTHER -> L
      N == ClearCmsg(M) IN
  IF N.reboot_done THEN N ELSE CfgStart([N EXCEPT !.reboot_done = TRUE])

(* Defect: registered is left. *)
DeregisteredStays(L) == CloseSockets(NewState(ClearCmsg(L), L.target))

Deregistered(L) == CloseSockets([NewState(ClearCmsg(L), L.target) EXCEPT !.registered = FALSE])

Answered(L, c, r) ==
  CASE r \in Errors -> Refused(IF c = "RQMEM" THEN L ELSE ClearCmsg(L), c, r)
    [] c = "RQSRV" /\ r = "SRVCH" -> NewCmd(ClearCmsg(L), "SRVRSP")
    [] c = "SRVRSP" /\ r = "CACK" -> Lib330Reboot([ClearCmsg(L) EXCEPT !.registered = TRUE])
    [] c = "DSRV" /\ r = "CACK" -> Deregistered(L)
    [] c = "RQFGLS" /\ r = "FGLS" ->
         IF DataEnabled THEN [ClearCmsg(L) EXCEPT !.have_config = TRUE] ELSE StartDeregistration(L)
    [] c = "RQGID" /\ r = "GID" -> [ClearCmsg(L) EXCEPT !.have_config = TRUE]
    [] c = "RQSTAT" /\ r \in {"STAT", "STAT_TOKEN", "STAT_FULL"} -> StatusRead(L, r)
    [] c = "RQMEM" /\ r = "MEM" ->
         IF L.state = "READTOK" THEN NewState(ClearCmsg(L), "DECTOK") ELSE ClearCmsg(L)
    [] c = "PING" /\ r = "PING" ->
         ClearCmsg(IF L.ping = "sent"
                   THEN [L EXCEPT !.ping = "idle", !.target = IF L.state = "PING" THEN "IDLE" ELSE @]
                   ELSE L)
    [] OTHER -> L

Response ==
  /\ Busy /\ lib.open /\ lib.answer # None /\ lib.cphase = "wait"
  /\ lib' = Answered([lib EXCEPT !.answer = None], Head(lib.cmdq), lib.answer)
  /\ UNCHANGED << port, faults >>
------------------------------------------------------------------------------
(* The digitizer *)

(* What it answers, whether it is a fault of this run to do so, and whether *)
(* the port is registered then.                                            *)
Replies(c) ==
  LET Reply(r, bad, p) == [text |-> r, fault |-> bad, port |-> p] IN
  IF ~ port /\ c \notin {"RQSRV", "SRVRSP", "PING"} THEN {Reply("NOTR", FALSE, port)} ELSE
  CASE c = "RQSRV" -> {Reply("SRVCH", FALSE, port), Reply("TMSERV", TRUE, port)}
    [] c = "SRVRSP" -> {Reply("CACK", FALSE, TRUE), Reply("INVREG", TRUE, port)}
    [] c = "PING" -> {Reply("PING", FALSE, port)}
    [] c = "DSRV" -> {Reply("CACK", FALSE, FALSE)}
    [] c = "RQFGLS" -> {Reply("FGLS", FALSE, port)}
    [] c = "RQGID" -> {Reply("GID", FALSE, port)}
    [] c = "RQSTAT" -> {Reply("STAT", FALSE, port), Reply("STAT_TOKEN", TRUE, port), Reply("STAT_FULL", TRUE, port)}
    [] c = "RQMEM" -> {Reply("MEM", FALSE, port), Reply("SNV", TRUE, port)}

(* With the registration the challenge it was given for is void: responses *)
(* to it that are still under way register nobody.                         *)
UnderWay(L, m) == {n \in L.asked : n # m /\ (m.cmd = "DSRV" => n.cmd # "SRVRSP")}

(* An answer to a request that was sent again meanwhile is not matched.    *)
Serve ==
  \E m \in lib.asked : \E r \in Replies(m.cmd) :
     /\ lib' = [lib EXCEPT !.asked = UnderWay(lib, m), !.answer = IF m.last THEN r.text ELSE @]
     /\ port' = r.port
     /\ IF r.fault THEN Fault ELSE faults' = faults

(* The digitizer is restarted, or registered by somebody else. *)
PortLost ==
  /\ port /\ Fault
  /\ port' = FALSE
  /\ lib' = [lib EXCEPT !.asked = {m \in @ : m.cmd # "SRVRSP"}]
------------------------------------------------------------------------------
(* Calls of the main thread: libclient.c and libstrucs.c.  The fields are  *)
(* set to zero under the library's thread, which may not be idle.          *)

Cleared(L) ==
  [PurgeCmdq(L) EXCEPT !.registered = FALSE, !.reboot_done = FALSE, !.ping = "idle", !.have_config = FALSE]

LibUnregPing(L) == [Cleared(L) EXCEPT !.target = "PING"]

LibRegister(L) == [Cleared(L) EXCEPT !.target = "RUNWAIT"]
------------------------------------------------------------------------------
SessionInit == lib = Created /\ port = FALSE /\ faults = 0

(* What the library does at once, and what takes a round trip or longer.   *)
SessionPrompt == Retarget \/ SendPing \/ SendQueued \/ RequestStatus \/ Response

SessionSlow ==
  \/ WaitOver \/ CommandTimeout \/ SendFails \/ DeregTimeout \/ RegTimeout \/ DataTimeout
  \/ StatusTimeout \/ ConnectTimeOver \/ Serve \/ PortLost
------------------------------------------------------------------------------
(* Requests under way, and answers to the last of them. *)
Sent == [cmd : Commands, last : BOOLEAN]
Answers == {None, "SRVCH", "CACK", "PING", "FGLS", "GID", "STAT", "STAT_TOKEN", "STAT_FULL", "MEM"} \cup Errors

Tq330 ==
  [state : LibStates, target : LibStates, liberr : Reasons,
   registered : BOOLEAN, open : BOOLEAN, reboot_done : BOOLEAN, have_config : BOOLEAN,
   ping : {"idle", "req", "sent"}, cmdq : Seq(Commands), cphase : {"idle", "need", "wait"},
   asked : SUBSET Sent, answer : Answers]

(* Types of the variables; no command is queued twice. *)
QueuedOnce(L) == \A i, j \in DOMAIN L.cmdq : L.cmdq[i] = L.cmdq[j] => i = j

SessionTypeOK ==
  /\ lib \in Tq330 /\ QueuedOnce(lib)
  /\ port \in BOOLEAN
  /\ faults \in 0 .. MaxFaults
=============================================================================
