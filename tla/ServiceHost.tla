---------------------------- MODULE ServiceHost ----------------------------
(***************************************************************************)
(* A Windows service hosted by mwfl: ServiceEntry on the thread of          *)
(* ServiceMain, the application's Run on a worker, and ServiceControl on    *)
(* the dispatcher thread, to which the service control manager (SCM)        *)
(* delivers one control at a time.  Both of the first and the last report   *)
(* through NotifyState, which writes the fields of one global status and    *)
(* then hands it over, without a lock: its writes are separate steps, in    *)
(* any order.                                                               *)
(*                                                                          *)
(* Shutdown is handled as Stop is.  Power, session and custom controls      *)
(* change nothing here and are left out, as is everything that manages      *)
(* installed services, and console hosting.                                 *)
(***************************************************************************)
EXTENDS Integers

CONSTANTS
  SupportsPause,  \* ServiceDefinition::supports_pause
  MaxCheckpoint,  \* bound on the checkpoints of a pending stop
  NoReport        \* a thread that is not inside NotifyState

VARIABLES
  wire,        \* the status the SCM was last given
  status,      \* active_status
  handle,      \* is active_status_handle set?
  report,      \* what each thread's NotifyState is reporting
  unwritten,   \* the fields of it that NotifyState has still to write
  entry,       \* where ServiceEntry is
  checkpoint,  \* checkpoint
  timedOut,    \* stop_timed_out
  control,     \* the control ServiceControl is handling
  phase,       \* and where it is
  paused,      \* ServiceRuntimeState::paused
  stop,        \* has the stop token been signalled?
  runOutcome,  \* what Run returned
  overlap      \* history: was a control still handled when Run's end was taken up?

serviceEntry == <<entry, checkpoint, timedOut>>
serviceControl == <<control, phase>>
runtimeState == <<paused, stop>>
serviceVars == <<wire, status, handle, report, unwritten,
                 serviceEntry, serviceControl, runtimeState, runOutcome, overlap>>

Thread == {"main", "dispatcher"}
Control == {"Stop", "Pause", "Continue"}
ServiceState == {"Stopped", "StartPending", "Running", "PausePending",
                 "Paused", "ContinuePending", "StopPending"}
Exit == {"success", "error", "timeout"}

Field == {"state", "accepted", "exit", "checkpoint"}
Status == [state : ServiceState, accepted : SUBSET Control, exit : Exit,
           checkpoint : 0..MaxCheckpoint]

ServiceAssumption ==
  /\ SupportsPause \in BOOLEAN
  /\ MaxCheckpoint \in Nat \ {0}
  /\ NoReport \notin Status

ServiceTypeOK ==
  /\ {wire, status} \subseteq Status
  /\ {handle, timedOut, paused, stop, overlap} \subseteq BOOLEAN
  /\ report \in [Thread -> Status \cup {NoReport}]
  /\ unwritten \in [Thread -> SUBSET Field]
  /\ entry \in {"start", "starting", "running", "waiting", "stopped", "gone"}
  /\ checkpoint \in 0..MaxCheckpoint
  /\ control \in Control \cup {"Interrogate", "none"}
  /\ phase \in {"callback", "effect", "return"}
  /\ runOutcome \in Exit \cup {"none"}

StoppedStatus ==
  [state |-> "Stopped", accepted |-> {}, exit |-> "success", checkpoint |-> 0]

ServiceInit ==
  /\ wire = StoppedStatus /\ status = StoppedStatus
  /\ handle = FALSE
  /\ report = [t \in Thread |-> NoReport]
  /\ unwritten = [t \in Thread |-> {}]
  /\ entry = "start" /\ checkpoint = 1 /\ timedOut = FALSE
  /\ control = "none" /\ phase = "callback"
  /\ paused = FALSE /\ stop = FALSE
  /\ runOutcome = "none" /\ overlap = FALSE

-----------------------------------------------------------------------------
(* NotifyState.                                                             *)

(* Seeded fault: every state accepts controls.                              *)
AcceptedInAnyState(state) ==
  {"Stop"} \cup (IF SupportsPause THEN {"Pause", "Continue"} ELSE {})

Accepted(state) ==
  IF state # "Running" THEN {}
  ELSE {"Stop"} \cup (IF SupportsPause THEN {"Pause", "Continue"} ELSE {})

StatusFor(state, exit, c) ==
  [state |-> state, accepted |-> Accepted(state), exit |-> exit, checkpoint |-> c]

Returned(t) == report[t] = NoReport

(* Thread t calls NotifyState, which returns at once if there is no handle. *)
Notify(t, s) ==
  /\ report' = [report EXCEPT ![t] = IF handle' THEN s ELSE NoReport]
  /\ unwritten' = [unwritten EXCEPT ![t] = IF handle' THEN Field ELSE {}]
  /\ UNCHANGED <<wire, status>>

WriteField(t) ==
  \E f \in unwritten[t] :
    /\ status' = [status EXCEPT ![f] = report[t][f]]
    /\ unwritten' = [unwritten EXCEPT ![t] = @ \ {f}]
    /\ UNCHANGED <<wire, handle, report, serviceEntry, serviceControl,
                   runtimeState, runOutcome, overlap>>

SetServiceStatus(t) ==
  /\ ~Returned(t) /\ unwritten[t] = {}
  /\ wire' = IF handle THEN status ELSE wire
  /\ report' = [report EXCEPT ![t] = NoReport]
  /\ UNCHANGED <<status, handle, unwritten, serviceEntry, serviceControl,
                 runtimeState, runOutcome, overlap>>

-----------------------------------------------------------------------------
(* ServiceEntry, on the thread of ServiceMain.                              *)

EntryStep(from, to) ==
  /\ entry = from /\ Returned("main")
  /\ entry' = to
  /\ UNCHANGED <<serviceControl, runtimeState, runOutcome>>

Register ==
  /\ EntryStep("start", "starting")
  /\ handle' = TRUE
  /\ Notify("main", StatusFor("StartPending", "success", 1))
  /\ UNCHANGED <<checkpoint, timedOut, overlap>>

StartRunning ==
  /\ EntryStep("starting", "running")
  /\ UNCHANGED <<handle, checkpoint, timedOut, overlap>>
  /\ Notify("main", StatusFor("Running", "success", 0))

SpawnWorker ==
  /\ EntryStep("running", "waiting")
  /\ UNCHANGED <<wire, status, handle, report, unwritten, checkpoint, timedOut, overlap>>

(* The worker may outlive the return of Run: its thread has still to end.   *)
StillWaiting ==
  /\ EntryStep("waiting", "waiting")
  /\ stop /\ checkpoint < MaxCheckpoint
  /\ timedOut' \in {timedOut, TRUE}
  /\ checkpoint' = checkpoint + 1
  /\ UNCHANGED <<handle, overlap>>
  /\ Notify("main", StatusFor("StopPending",
                              IF timedOut' THEN "timeout" ELSE "success", checkpoint'))

ExitCode ==
  IF timedOut /\ runOutcome = "success" THEN "timeout" ELSE runOutcome

(* The worker has ended: Stopped is reported, whether a stop was asked for  *)
(* or not, and whatever ServiceControl is doing.                            *)
Join ==
  /\ EntryStep("waiting", "stopped")
  /\ runOutcome # "none"
  /\ overlap' = (control # "none")
  /\ UNCHANGED <<handle, checkpoint, timedOut>>
  /\ Notify("main", StatusFor("Stopped", ExitCode, 0))

Unregister ==
  /\ EntryStep("stopped", "gone")
  /\ handle' = FALSE
  /\ UNCHANGED <<wire, status, report, unwritten, checkpoint, timedOut, overlap>>

(* Run returns, or throws, after a stop or by itself.                       *)
RunReturns ==
  /\ entry = "waiting" /\ runOutcome = "none"
  /\ runOutcome' \in {"success", "error"}
  /\ UNCHANGED <<wire, status, handle, report, unwritten, serviceEntry,
                 serviceControl, runtimeState, overlap>>

-----------------------------------------------------------------------------
(* ServiceControl, on the dispatcher thread.                                *)

(* The SCM sends a control the last status accepts, and asks for the status *)
(* itself unless the service is starting or stopping; the handler finds the *)
(* runtime state unless ServiceEntry has reset it.                          *)
Deliver(c) ==
  /\ control = "none"
  /\ wire.state \notin {"Stopped", "StartPending", "StopPending"}
  /\ c \in wire.accepted \cup {"Interrogate"}
  /\ entry \notin {"stopped", "gone"}
  /\ control' = c /\ phase' = "callback"
  /\ UNCHANGED <<wire, status, handle, report, unwritten, serviceEntry,
                 runtimeState, runOutcome, overlap>>

ControlStep(from) ==
  /\ control # "none" /\ phase = from /\ Returned("dispatcher")
  /\ UNCHANGED <<handle, serviceEntry, runOutcome, overlap>>

Interrogate ==
  /\ ControlStep("callback") /\ control = "Interrogate"
  /\ wire' = IF handle THEN status ELSE wire
  /\ control' = "none"
  /\ UNCHANGED <<status, report, unwritten, phase, runtimeState>>

(* The application's OnControl fails.                                       *)
Refuse ==
  /\ ControlStep("callback") /\ control # "Interrogate"
  /\ control' = "none"
  /\ UNCHANGED <<wire, status, report, unwritten, phase, runtimeState>>

PendingState ==
  [Stop |-> "StopPending", Pause |-> "PausePending", Continue |-> "ContinuePending"]

(* Seeded fault: stop is requested before StopPending is reported.          *)
AcceptStopFirst ==
  /\ ControlStep("callback") /\ control # "Interrogate"
  /\ Notify("dispatcher", StatusFor(PendingState[control], "success", 1))
  /\ stop' = (stop \/ control = "Stop")
  /\ phase' = "effect"
  /\ UNCHANGED <<control, paused>>

Accept ==
  /\ ControlStep("callback") /\ control # "Interrogate"
  /\ Notify("dispatcher", StatusFor(PendingState[control], "success", 1))
  /\ phase' = "effect"
  /\ UNCHANGED <<control, runtimeState>>

(* Seeded fault: the stop token is not signalled.                           *)
ForgetStop ==
  /\ ControlStep("effect") /\ control = "Stop"
  /\ control' = "none"
  /\ UNCHANGED <<wire, status, report, unwritten, phase, runtimeState>>

RequestStop ==
  /\ ControlStep("effect") /\ control = "Stop"
  /\ stop' = TRUE
  /\ control' = "none"
  /\ UNCHANGED <<wire, status, report, unwritten, phase, paused>>

PauseOrContinue ==
  /\ ControlStep("effect") /\ control \in {"Pause", "Continue"}
  /\ paused' = (control = "Pause")
  /\ Notify("dispatcher", StatusFor(IF paused' THEN "Paused" ELSE "Running", "success", 0))
  /\ phase' = "return"
  /\ UNCHANGED <<control, stop>>

ControlReturns ==
  /\ ControlStep("return")
  /\ control' = "none"
  /\ UNCHANGED <<wire, status, report, unwritten, phase, runtimeState>>

-----------------------------------------------------------------------------
NotifySteps(t) == WriteField(t) \/ SetServiceStatus(t)

ServiceEntry ==
  \/ Register \/ StartRunning \/ SpawnWorker
  \/ StillWaiting \/ Join \/ Unregister

ServiceControl ==
  \/ Interrogate \/ Refuse \/ Accept
  \/ RequestStop \/ PauseOrContinue \/ ControlReturns

ServiceNext ==
  \/ ServiceEntry \/ ServiceControl \/ RunReturns
  \/ \E t \in Thread : NotifySteps(t)
  \/ \E c \in Control \cup {"Interrogate"} : Deliver(c)

(* Both threads are scheduled, and Run returns after stop is requested; the *)
(* SCM need not send anything.                                              *)
ServiceSpec ==
  /\ ServiceInit /\ [][ServiceNext]_serviceVars
  /\ WF_serviceVars(ServiceEntry) /\ WF_serviceVars(ServiceControl)
  /\ \A t \in Thread : WF_serviceVars(NotifySteps(t))
  /\ WF_serviceVars(stop /\ RunReturns)

-----------------------------------------------------------------------------
(* Properties.                                                              *)

(* Two threads never write the global status at the same time, unless the   *)
(* end of Run was taken up within a control.                                *)
ReportsDoNotRace == overlap \/ \E t \in Thread : Returned(t)

(* That takes a Run that ends by itself: once a stop is requested, by        *)
(* ServiceControl, no control is being handled.                             *)
StopIsTheLastControl == overlap \/ (stop => control = "none")

(* The transitions ServiceStateMachine allows.                              *)
Allowed ==
  [Stopped |-> {"StartPending"},
   StartPending |-> {"Running", "StopPending"},
   Running |-> {"PausePending", "StopPending"},
   PausePending |-> {"Paused", "StopPending"},
   Paused |-> {"ContinuePending", "StopPending"},
   ContinuePending |-> {"Running", "StopPending"},
   StopPending |-> {"Stopped"}]

(* A service nobody asked to stop goes to Stopped at once.                  *)
StopsByItself ==
  ~stop /\ wire.state \in {"Running", "Paused"} /\ wire'.state = "Stopped"

(* The SCM sees the transitions of ServiceStateMachine, except that a       *)
(* running service which is told to continue also goes through              *)
(* ContinuePending, and that a Run which ends by itself skips StopPending;  *)
(* where it ends within a control nothing is claimed.                       *)
ReportsFollowStateMachine ==
  [][\/ overlap
     \/ wire'.state \in Allowed[wire.state] \cup {wire.state}
     \/ wire.state = "Running" /\ wire'.state = "ContinuePending"
     \/ StopsByItself]_wire

(* What the SCM is told of a stopped service is what Run returned, or that  *)
(* the stop took too long: no other thread's report replaces the exit code. *)
ExitIsReported ==
  ~overlap /\ wire.state = "Stopped" /\ entry \in {"stopped", "gone"} =>
    wire.exit = IF runOutcome = "success" /\ timedOut THEN "timeout" ELSE runOutcome

(* The two threads that report never write the status together, and so the  *)
(* exit the SCM is told of is the one of Run, unless Run ends by itself      *)
(* while ServiceControl handles a control.                                  *)
ReportsAreTrue ==
  ServiceTypeOK /\ ReportsDoNotRace /\ StopIsTheLastControl /\ ExitIsReported

(* A stop the service has acknowledged ends in Stopped, or Run had ended by *)
(* itself before the control that acknowledged it was over.                 *)
StopEndsInStopped == wire.state = "StopPending" ~> wire.state = "Stopped" \/ overlap

(* Start, stop, shutdown, pause and continue are controls the host maps to  *)
(* its callbacks: a paused service can be continued and stopped.            *)
PausedServiceAcceptsControls ==
  wire.state = "Paused" => {"Continue", "Stop"} \subseteq wire.accepted
=============================================================================
