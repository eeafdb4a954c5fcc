----------------------------- MODULE MCPlatform -----------------------------
(***************************************************************************)
(* Small instances of the components that share no state with another:      *)
(* initialization and the WebView2 host that uses it, service host, update  *)
(* handoff and update checker, settings store, pipes, message filters,      *)
(* message pump, process output, Direct3D host, property sheet and log      *)
(* file.  A behaviour runs the one it has chosen at first and leaves the    *)
(* others as they started, so that the states of the run are those of each, *)
(* one after the other.                                                     *)
(***************************************************************************)
EXTENDS WebView2Host, UpdateHandoff, SettingsStore, ServiceHost, ProcessOutput, D3DHost,
        PropertySheet, BoundedFileSink, MessageFilters, TLC

CONSTANTS
  enabled, caption, v1, v2,                           \* settings
  c1, c2, c3, NoClient,                               \* pipe listener
  f1, f2, f3, NoFrame,                                \* pipe frames
  main, tool, NoWindow,                               \* message pump
  NoCheck                                             \* update checker

MCSetting == {enabled, caption}
MCRequired == {enabled}
MCVersion == {v1, v2}
MCFrame == {f1, f2, f3}
MCFrameSize == f1 :> 0 @@ f2 :> 2 @@ f3 :> 3

VARIABLES
  focus,                                              \* the component that runs
  instance, holder, accept, client, faults,
  sent, sending, pipe, reading, received, writer, reader,
  queue, quit, pump, message, owner, life, recovery, worker, work, woken,
    signalled, input,
  checked, running, result, fetch, starting, ready, dialogs, grayed, started,
    answered

Listener == INSTANCE PipeListener WITH
  Client <- {c1, c2, c3}, Patient <- {c1, c2}, Deserting <- {c3}, MaxFaults <- 2

Frames == INSTANCE PipeFrames WITH
  Frame <- MCFrame, Size <- MCFrameSize, Header <- 2, MaximumSize <- 2,
  Capacity <- 2, Reuse <- FALSE

Pump == INSTANCE MessagePump WITH
  Window <- {main, tool}, Quitting <- {main}, Handle <- {1, 2},
  MaxQueue <- 2, MaxInput <- 4

Checker == INSTANCE UpdateChecker WITH MaxChecks <- 3, window <- checked

ASSUME HostAssumption /\ ServiceAssumption /\ ProcessAssumption /\ SheetAssumption
       /\ SinkAssumption /\ FilterAssumption

ofHostAlone == <<hostState, resources, creation, frames, reported, mishap>>
listenerVars == <<instance, holder, accept, client, faults>>
frameVars == <<sent, sending, pipe, reading, received, writer, reader>>
pumpVars == <<queue, quit, pump, message, owner, life, recovery, worker, work, woken,
              signalled, input>>
checkerVars == <<checked, running, result, fetch, starting, ready, dialogs, grayed,
                 started, answered>>
allVars ==
  <<focus, hostVars, serviceVars, handoffVars, storeVars, listenerVars,
    frameVars, filterVars, pumpVars, processVars, d3dVars, checkerVars, sheetVars,
    sinkVars>>

PlatformInit ==
  /\ focus \in {"initialization", "webview2", "service", "update", "settings",
                "listener", "frames", "filters", "pump", "process", "d3d", "checker",
                "sheet", "log"}
  /\ HostInit /\ ServiceInit
  /\ HandoffInit /\ StoreInit
  /\ Listener!PipeInit /\ Frames!FrameInit
  /\ FilterInit
  /\ Pump!PumpInit
  /\ ProcessInit /\ (focus = "process" \/ output = <<>>)
  /\ D3DInit /\ Checker!CheckerInit /\ SheetInit /\ SinkInit

(* The other components stay as they are; WebView2 and initialization have  *)
(* the coordinator in common.                                               *)
Others ==
  /\ UNCHANGED focus
  /\ IF focus \in {"initialization", "webview2"} THEN TRUE ELSE UNCHANGED vars
  /\ IF focus = "webview2" THEN TRUE ELSE UNCHANGED ofHostAlone
  /\ IF focus = "service" THEN TRUE ELSE UNCHANGED serviceVars
  /\ IF focus = "update" THEN TRUE ELSE UNCHANGED handoffVars
  /\ IF focus = "settings" THEN TRUE ELSE UNCHANGED storeVars
  /\ IF focus = "listener" THEN TRUE ELSE UNCHANGED listenerVars
  /\ IF focus = "frames" THEN TRUE ELSE UNCHANGED frameVars
  /\ IF focus = "filters" THEN TRUE ELSE UNCHANGED filterVars
  /\ IF focus = "pump" THEN TRUE ELSE UNCHANGED pumpVars
  /\ IF focus = "process" THEN TRUE ELSE UNCHANGED processVars
  /\ IF focus = "d3d" THEN TRUE ELSE UNCHANGED d3dVars
  /\ IF focus = "checker" THEN TRUE ELSE UNCHANGED checkerVars
  /\ IF focus = "sheet" THEN TRUE ELSE UNCHANGED sheetVars
  /\ IF focus = "log" THEN TRUE ELSE UNCHANGED sinkVars

PlatformNext ==
  \/ focus = "initialization" /\ Next /\ Others
  \/ focus = "webview2" /\ HostNext /\ Others
  \/ focus = "service" /\ ServiceNext /\ Others
  \/ focus = "update" /\ HandoffNext /\ Others
  \/ focus = "settings" /\ StoreNext /\ Others
  \/ focus = "listener" /\ Listener!PipeNext /\ Others
  \/ focus = "frames" /\ Frames!FrameNext /\ Others
  \/ focus = "filters" /\ FilterNext /\ Others
  \/ focus = "pump" /\ Pump!PumpNext /\ Others
  \/ focus = "process" /\ ProcessNext /\ Others
  \/ focus = "d3d" /\ D3DNext /\ Others
  \/ focus = "checker" /\ Checker!CheckerNext /\ Others
  \/ focus = "sheet" /\ SheetNext /\ Others
  \/ focus = "log" /\ SinkNext /\ Others

(* The fairness of each component, while it is the one that runs.           *)
PlatformSpec ==
  /\ PlatformInit /\ [][PlatformNext]_allVars
  /\ WF_hostVars(focus = "webview2" /\ ~crashed /\ Complete)
  /\ WF_hostVars(focus = "webview2" /\ ~crashed /\ Continue)
  /\ WF_serviceVars(focus = "service" /\ ServiceEntry)
  /\ WF_serviceVars(focus = "service" /\ ServiceControl)
  /\ \A t \in Thread : WF_serviceVars(focus = "service" /\ NotifySteps(t))
  /\ WF_serviceVars(focus = "service" /\ stop /\ RunReturns)
  /\ WF_listenerVars(focus = "listener" /\ Listener!Accept)
  /\ WF_listenerVars(focus = "listener" /\ Listener!ClientArrives)
  /\ WF_listenerVars(focus = "listener" /\ Listener!HandOver)
  /\ \A c \in {c1, c2, c3} : SF_listenerVars(focus = "listener" /\ Listener!OpenPipe(c))
  /\ WF_pumpVars(focus = "pump" /\ Pump!Runs)
  /\ WF_processVars(focus = "process" /\ Launch)
  /\ WF_processVars(focus = "process" /\ ChildWrites)
  /\ WF_processVars(focus = "process" /\ ChildExits)
  /\ WF_processVars(focus = "process" /\ HelperExits)
  /\ \A s \in Stream :
       /\ WF_processVars(focus = "process" /\ Drain(s))
       /\ WF_processVars(focus = "process" /\ DrainEnds(s))
  /\ WF_processVars(focus = "process" /\ WaitEnds)
  /\ WF_processVars(focus = "process" /\ Collect)
  /\ SF_d3dVars(focus = "d3d" /\ RecoversAtLast)
  /\ WF_checkerVars(focus = "checker" /\ Checker!Progress)

-----------------------------------------------------------------------------
(* The properties: those of the components that are extended, as they stand *)
(* there, and these, each stated with its component.                        *)

(* What has begun ends: WebView2Host reports every attempt to begin, once;  *)
(* ServiceHost ends in Stopped when it has acknowledged a stop; a child's   *)
(* output is collected, a lost Direct3D device created again, and a check   *)
(* for updates answered; work that woke its window and signals are served,  *)
(* and a handler that throws ends the application as failed.                *)
EveryOperationEnds ==
  /\ focus = "webview2" => EachAttemptIsReported
  /\ StopEndsInStopped /\ CollectEnds /\ LossIsRecovered
  /\ Checker!EveryCheckIsAnswered
  /\ Pump!WorkAndSignalsAreServed /\ Pump!FailureEndsApplication

(* PipeListener and PipeFrames: a client that keeps trying is served, and   *)
(* ReadFrame returns the frames written, whole and in order.                *)
PipesServe ==
  /\ []Listener!PipeTypeOK /\ Listener!EveryClientIsServed
  /\ [][Frames!FramesArriveWhole']_frameVars
=============================================================================
