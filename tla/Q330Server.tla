----------------------------- MODULE Q330Server -----------------------------
(***************************************************************************)
(* The main thread of q330serv over lib330 (q330serv_src/q330serv.C and    *)
(* lib330Interface.C): it registers with the digitizer, lets data flow,    *)
(* resets when there is no room for data, and obeys the clients' commands  *)
(* SUSPEND, RESUME and TERMINATE.  What scan_comserv_clients does for      *)
(* clients otherwise, and the data, are the subject of other modules.      *)
(*                                                                         *)
(* The main thread and the library's thread share the library's target     *)
(* state: the main thread writes what it wants, the library writes what it *)
(* must do instead.                                                        *)
(***************************************************************************)
EXTENDS Q330Session

CONSTANTS
  WaitForClients,  (* WaitForClients of the configuration is not 0            *)
  Requests,        (* what clients ask for: "SUSPEND", "RESUME", "TERMINATE"  *)
  MaxCommands      (* bound: how often they ask the server to stop            *)

ASSUME Q330ServerAssumption ==
  /\ WaitForClients \in BOOLEAN /\ MaxCommands \in Nat
  /\ Requests \subseteq {"SUSPEND", "RESUME", "TERMINATE"}

VARIABLES
  main,        (* where the main thread is                                    *)
  ret,         (* where it goes on after a suspension or a deletion           *)
  iface,       (* g_libInterface exists                                       *)
  g_reset, first_pass, areSuspended,
  commands,
  early        (* history: the link was wanted while the library was at work  *)

flags == << iface, g_reset, first_pass, areSuspended >>
vars == << session, main, ret, flags, commands, early >>

Places == {"top", "drain", "sleep", "ping", "register", "await", "ready", "run", "flow",
           "suspend", "delete", "term", "exit"}

Init ==
  /\ SessionInit
  /\ main = "top" /\ ret = "top" /\ iface = FALSE
  /\ g_reset = FALSE /\ first_pass = TRUE /\ areSuspended = FALSE
  /\ commands = 0 /\ early = FALSE

Goto(p) == main' = p

(* Nothing but the library's target changes under the main thread.         *)
Call(L) == lib' = L /\ UNCHANGED << port, faults >>

AtWork(L) == L.state \notin {"IDLE", "WAIT", "PING", "TERM"}

StartDeregistrationCall == Call(ChangeState(lib, "IDLE", "none"))

(* delete g_libInterface: the destructor's first step. *)
Delete(then) == Goto("delete") /\ ret' = then /\ StartDeregistrationCall

------------------------------------------------------------------------------
(* Begin the main loop: a new library if there is none. *)
Top ==
  /\ main = "top"
  /\ Goto("drain") /\ g_reset' = FALSE /\ iface' = TRUE
  /\ IF iface THEN UNCHANGED session ELSE Call(Created)
  /\ UNCHANGED << ret, first_pass, areSuspended, commands, early >>

(* processPacketQueue succeeds or not. *)
Drain ==
  /\ main = "drain"
  /\ Goto("ping") \/ Goto("sleep")
  /\ UNCHANGED << session, ret, flags, commands, early >>

SleepOver ==
  /\ main = "sleep"
  /\ Goto("top")
  /\ UNCHANGED << session, ret, flags, commands, early >>

(* startRegistration: an unregistered ping, at once followed by lib_register. *)
Ping ==
  /\ main = "ping"
  /\ Goto("register") /\ Call(LibUnregPing(lib))
  /\ early' = (early \/ AtWork(lib))
  /\ UNCHANGED << ret, flags, commands >>

Register ==
  /\ main = "register"
  /\ Goto("await") /\ Call(LibRegister(lib))
  /\ early' = (early \/ AtWork(lib))
  /\ UNCHANGED << ret, flags, commands >>

(* waitForState(LIBSTATE_RUNWAIT, 120, ...) *)
Await ==
  /\ main = "await" /\ lib.state = "RUNWAIT"
  /\ Goto("ready")
  /\ UNCHANGED << session, ret, flags, commands, early >>

AwaitTimeout ==
  /\ main = "await" /\ lib.state # "RUNWAIT"
  /\ Delete("top")
  /\ UNCHANGED << flags, commands, early >>

Ready ==
  /\ main = "ready"
  /\ first_pass' = FALSE
  /\ IF lib.state = "RUNWAIT" THEN Goto("flow") /\ UNCHANGED << session, ret >> ELSE Delete("top")
  /\ UNCHANGED << iface, g_reset, areSuspended, commands, early >>

(* startDataFlow, after the state was looked at. *)
Flow ==
  /\ main = "flow"
  /\ Goto("run") /\ Call(ChangeState(lib, "RUN", "none"))
  /\ early' = (early \/ lib.state # "RUNWAIT")
  /\ UNCHANGED << ret, flags, commands >>

SeeRunwait ==
  /\ main = "run" /\ lib.state = "RUNWAIT"
  /\ Goto("flow")
  /\ UNCHANGED << session, ret, flags, commands, early >>

(* A ring blocks and the packet queue is nearly full. *)
NearFull ==
  /\ main = "run" /\ g_reset' = TRUE /\ ~ g_reset
  /\ UNCHANGED << session, main, ret, iface, first_pass, areSuspended, commands, early >>

Reset ==
  /\ main = "run" /\ g_reset
  /\ Goto("top") /\ StartDeregistrationCall
  /\ UNCHANGED << ret, flags, commands, early >>

(* scan_comserv_clients is called here. *)
Scanning ==
  /\ main \in {"sleep", "await", "run"} \/ (main = "ready" /\ first_pass /\ WaitForClients)
  /\ UNCHANGED early

(* A client asks the server to stop, for a while or for good. *)
Stop(command) ==
  /\ command \in Requests
  /\ commands < MaxCommands /\ commands' = commands + 1

(* It waits until the library is idle, and calls no comserv_scan meanwhile. *)
Suspend ==
  /\ Scanning /\ Stop("SUSPEND")
  /\ Goto("suspend") /\ ret' = main /\ StartDeregistrationCall
  /\ UNCHANGED flags

Suspended ==
  /\ main = "suspend" /\ lib.state = "IDLE"
  /\ Goto(ret) /\ areSuspended' = TRUE
  /\ UNCHANGED << session, ret, iface, g_reset, first_pass, commands, early >>

Resume ==
  /\ Scanning /\ "RESUME" \in Requests /\ areSuspended
  /\ g_reset' = TRUE /\ areSuspended' = FALSE
  /\ UNCHANGED << session, main, ret, iface, first_pass, commands >>

(* cleanupAndExit *)
Terminate ==
  /\ Scanning /\ Stop("TERMINATE")
  /\ Delete("exit")
  /\ UNCHANGED flags

(* The destructor waits for the library to be idle, then for its thread.   *)
DeleteIdle ==
  /\ main = "delete" /\ lib.state = "IDLE"
  /\ Goto("term") /\ Call(ChangeState(lib, "TERM", "other"))
  /\ UNCHANGED << ret, flags, commands, early >>

DeleteTerm ==
  /\ main = "term" /\ lib.state = "TERM"
  /\ Goto(ret) /\ iface' = FALSE
  /\ UNCHANGED << session, ret, g_reset, first_pass, areSuspended, commands, early >>

MainNext ==
  \/ Top \/ Drain \/ SleepOver \/ Ping \/ Register \/ Await \/ AwaitTimeout \/ Ready \/ Flow \/ SeeRunwait
  \/ NearFull \/ Reset \/ Suspend \/ Suspended \/ Resume \/ Terminate \/ DeleteIdle \/ DeleteTerm

(* Between two statements of the main thread without a wait, the library   *)
(* may be called once, but there is no time for more.                      *)
Between == {"register", "flow"}

Library(A) ==
  /\ iface /\ A
  /\ early' = (early /\ AtWork(lib'))
  /\ UNCHANGED << main, ret, flags, commands >>

Next == MainNext \/ Library(SessionPrompt) \/ (main \notin Between /\ Library(SessionSlow))

Spec == Init /\ [][Next]_vars

(* Both threads run, and time goes by in every wait that has a limit.      *)
(* Nobody promises that the digitizer answers, that data flow or that a    *)
(* client ever gives a command.                                            *)
FairSpec ==
  /\ Spec
  /\ WF_vars(Top) /\ WF_vars(Drain) /\ WF_vars(SleepOver) /\ WF_vars(Ping) /\ WF_vars(Register)
  /\ WF_vars(Await) /\ WF_vars(AwaitTimeout) /\ WF_vars(Ready) /\ WF_vars(Flow) /\ WF_vars(SeeRunwait)
  /\ WF_vars(Reset) /\ WF_vars(Suspended) /\ WF_vars(DeleteIdle) /\ WF_vars(DeleteTerm)
  /\ WF_vars(Library(Retarget)) /\ WF_vars(Library(WaitOver)) /\ WF_vars(Library(SendPing))
  /\ WF_vars(Library(CommandTimeout)) /\ WF_vars(Library(DeregTimeout))
  /\ WF_vars(Library(RegTimeout)) /\ WF_vars(Library(StatusTimeout))
------------------------------------------------------------------------------
(* Properties *)

(* Types of the variables. *)
TypeOK ==
  /\ SessionTypeOK
  /\ main \in Places /\ ret \in Places
  /\ {iface, g_reset, first_pass, areSuspended} \subseteq BOOLEAN
  /\ commands \in 0 .. MaxCommands

(* The library never takes itself for registered without a socket to talk  *)
(* through: sockets are closed in eight places, and registered is cleared  *)
(* apart from it.                                                          *)
RegisteredHasSocket == lib.registered => lib.open

(* The library only runs, and is only kept running, on a registration that *)
(* exists, or else no data come until the data timer expires after ten     *)
(* minutes.  Excepted is a link that was asked for while the library was   *)
(* still leaving the last one: a reset does not wait for the library to be *)
(* idle, and startDataFlow may overwrite the state a time-out has asked    *)
(* for, whereupon the end of the deregistration is taken for the start.    *)
RunsOnLinkUnlessEarly ==
  lib.state \in {"RUNWAIT", "RUN"} /\ lib.target \in {"RUNWAIT", "RUN"} => lib.registered \/ early

(* Whoever waits for the library to be idle does not wait for ever, unless *)
(* the library has overwritten the target state it was given.              *)
StopEndsOrOverruled ==
  main \in {"suspend", "delete"} ~> main \notin {"suspend", "delete"} \/ lib.target # "IDLE"

(* Whatever the library begins with the digitizer ends, in a link or in    *)
(* none: a lost answer, a refusal and a new target in the middle included. *)
Settles ==
  lib.state \in {"PING", "REG", "READCFG", "READTOK", "DECTOK", "DEREG"}
    ~> lib.state \in {"RUNWAIT", "IDLE", "WAIT", "TERM"}

(* CSCM_TERMINATE "Terminates the server" (comserv.ascii). *)
TerminateEnds == main = "delete" /\ ret = "exit" ~> main = "exit"
=============================================================================
