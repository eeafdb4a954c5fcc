---------------------------- MODULE WebView2Host ----------------------------
(***************************************************************************)
(* mwfl::WebView2Host: a window that creates a WebView2 environment and     *)
(* then a controller asynchronously, coordinated by an AsyncInitialization. *)
(* All calls, completions and callbacks are on one thread; the calls on its *)
(* stack are the frames below.  Completions arrive from the message loop,   *)
(* and the initialized callback may call the host again, so a callback is   *)
(* running between the step that invokes it and the step that returns.      *)
(*                                                                          *)
(* Navigation, focus, layout and the other events only ask for the state    *)
(* and are left out.                                                        *)
(***************************************************************************)
EXTENDS AsyncInitialization, Sequences

CONSTANT MaxDepth    \* bound on callbacks that call the host again

HostAssumption == MaxDepth \in Nat

VARIABLES
  hostState,     \* state
  controller,    \* does the host hold a controller?
  subscribed,    \* are its events registered?
  native,        \* the creation the WebView2 loader is working on
  ticket,        \* the ticket its completion handler has captured
  frames,        \* the calls on the stack, the innermost first
  reported,      \* how often each attempt's initialized callback was invoked
  crashed,       \* has the host used a null controller?
  restarted      \* has the application called Restart in the last callback?

resources == <<controller, subscribed>>
creation == <<native, ticket>>
mishap == <<crashed, restarted>>
hostVars == <<vars, hostState, resources, creation, frames, reported, mishap>>

HostState == {"empty", "created", "initializing", "ready", "failed", "closed"}
Frame == {"initialize", "fail", "dispatch"}

HostTypeOK ==
  /\ TypeOK
  /\ hostState \in HostState
  /\ {controller, subscribed, crashed, restarted} \subseteq BOOLEAN
  /\ native \in {"none", "environment", "controller"}
  /\ ticket \in Ticket \cup {NoTicket}
  /\ frames \in Seq(Frame) /\ Len(frames) <= MaxDepth + 1
  /\ reported \in [Ticket -> Nat]

HostInit ==
  /\ Init
  /\ hostState = "empty"
  /\ controller = FALSE /\ subscribed = FALSE
  /\ native = "none" /\ ticket = NoTicket
  /\ frames = <<>>
  /\ reported = [t \in Ticket |-> 0]
  /\ crashed = FALSE /\ restarted = FALSE

Running(f) == frames # <<>> /\ Head(frames) = f

(* The application runs: from the message loop or from a callback.          *)
ApplicationRuns == frames = <<>> \/ Running("fail") \/ Running("dispatch")

InvokeInitialized(t) == reported' = [reported EXCEPT ![t] = @ + 1]

-----------------------------------------------------------------------------
(* The application's calls.                                                 *)

Create ==
  /\ ApplicationRuns /\ hostState = "empty"
  /\ hostState' = "created"
  /\ UNCHANGED <<vars, resources, creation, frames, reported, mishap>>

(* Initialize up to the call of Begin; CreationFails or CreateEnvironment    *)
(* goes on.                                                                 *)
BeginInitialize ==
  /\ ApplicationRuns /\ Len(frames) < MaxDepth
  /\ Begin
  /\ hostState' = "initializing"
  /\ frames' = <<"initialize">> \o frames
  /\ UNCHANGED <<creation, reported, crashed>>

(* Begin returns no ticket while Dispatch is on the stack.                  *)
BeginRefused ==
  /\ ApplicationRuns /\ dispatching
  /\ hostState' = "failed"
  /\ UNCHANGED <<vars, creation, frames, reported, crashed>>

Initialize ==
  /\ hostState \in {"created", "failed"}
  /\ BeginInitialize \/ BeginRefused
  /\ UNCHANGED <<resources, restarted>>

HostRestart ==
  /\ hostState \in {"ready", "failed"}
  /\ BeginInitialize \/ BeginRefused
  /\ controller' = FALSE /\ subscribed' = FALSE
  /\ restarted' = TRUE

(* Seeded fault: the attempt under way is not cancelled.                    *)
HostCloseLeavesTicket ==
  /\ ApplicationRuns /\ hostState # "closed"
  /\ hostState' = "closed"
  /\ controller' = FALSE /\ subscribed' = FALSE
  /\ UNCHANGED <<vars, creation, frames, reported, mishap>>

HostClose ==
  /\ ApplicationRuns /\ hostState # "closed"
  /\ Close
  /\ hostState' = "closed"
  /\ controller' = FALSE /\ subscribed' = FALSE
  /\ UNCHANGED <<creation, frames, reported, mishap>>

-----------------------------------------------------------------------------
(* Fail, whose callers are the frames in from.                              *)
HostFails(t, from) ==
  /\ Fail(t)
  /\ hostState' = "failed"
  /\ InvokeInitialized(t)
  /\ frames' = <<"fail">> \o from

(* There is no runtime, or it refuses to create an environment.             *)
CreationFails ==
  /\ Running("initialize")
  /\ HostFails(generation, Tail(frames))
  /\ UNCHANGED <<resources, creation, mishap>>

CreateEnvironment ==
  /\ Running("initialize")
  /\ native' = "environment" /\ ticket' = generation
  /\ frames' = Tail(frames)
  /\ UNCHANGED <<vars, hostState, resources, reported, mishap>>

(* The loader completes what it is working on.                              *)
Completes(what) == frames = <<>> /\ native = what

(* Seeded fault: only the owner is checked, and Close does not clear it.    *)
CompletedLateUnchecked ==
  /\ frames = <<>> /\ native # "none"
  /\ hostState # "initializing"
  /\ native' = "none"
  /\ controller' = (native = "controller") /\ subscribed' = controller'
  /\ UNCHANGED <<vars, hostState, ticket, frames, reported, mishap>>

CompletedLate ==
  /\ frames = <<>> /\ native # "none"
  /\ hostState # "initializing"
  /\ native' = "none"
  /\ UNCHANGED <<vars, hostState, resources, ticket, frames, reported, mishap>>

(* Seeded fault: the application is not told of a failed environment.       *)
EnvironmentFailsSilently ==
  /\ Completes("environment") /\ hostState = "initializing"
  /\ native' = "none"
  /\ Fail(ticket)
  /\ hostState' = "failed"
  /\ UNCHANGED <<resources, ticket, frames, reported, mishap>>

(* The environment failed, or refuses to create a controller.               *)
EnvironmentFails ==
  /\ Completes("environment") /\ hostState = "initializing"
  /\ native' = "none"
  /\ HostFails(ticket, frames)
  /\ UNCHANGED <<resources, ticket, mishap>>

(* Seeded fault: that no controller is being created goes unnoticed.        *)
EnvironmentCompletedUnchecked ==
  /\ Completes("environment") /\ hostState = "initializing"
  /\ native' \in {"controller", "none"}
  /\ UNCHANGED <<vars, hostState, resources, ticket, frames, reported, mishap>>

EnvironmentCompleted ==
  /\ Completes("environment") /\ hostState = "initializing"
  /\ native' = "controller"
  /\ UNCHANGED <<vars, hostState, resources, ticket, frames, reported, mishap>>

(* The controller failed, or has no web view and is kept until it is        *)
(* replaced.                                                                *)
ControllerFails ==
  /\ Completes("controller") /\ hostState = "initializing"
  /\ native' = "none"
  /\ controller' \in {controller, TRUE}
  /\ HostFails(ticket, frames)
  /\ UNCHANGED <<subscribed, ticket, mishap>>

ControllerCompleted ==
  /\ Completes("controller") /\ hostState = "initializing"
  /\ native' = "none"
  /\ Dispatch(ticket)
  /\ controller' = TRUE /\ subscribed' = TRUE
  /\ hostState' = "ready"
  /\ InvokeInitialized(ticket)
  /\ frames' = <<"dispatch">> \o frames
  /\ restarted' = FALSE
  /\ UNCHANGED <<ticket, crashed>>

(* The initialized callback returns or throws.  When it threw out of a      *)
(* Dispatch that was not cancelled meanwhile, the controller is closed.     *)
ReturnFromFail ==
  /\ Running("fail")
  /\ frames' = Tail(frames)
  /\ UNCHANGED <<vars, hostState, resources, creation, reported, mishap>>

ReturnFromDispatch(threw) ==
  /\ Running("dispatch")
  /\ Return(threw)
  /\ frames' = Tail(frames)
  /\ IF threw /\ Live(frame)
     THEN /\ crashed' = ~controller
          /\ controller' = FALSE /\ subscribed' = FALSE
          /\ hostState' = "failed"
     ELSE UNCHANGED <<hostState, resources, crashed>>
  /\ UNCHANGED <<creation, reported, restarted>>

-----------------------------------------------------------------------------
Complete ==
  \/ CompletedLate \/ EnvironmentFails \/ EnvironmentCompleted
  \/ ControllerFails \/ ControllerCompleted

Continue ==
  \/ CreationFails \/ CreateEnvironment \/ ReturnFromFail
  \/ \E threw \in BOOLEAN : ReturnFromDispatch(threw)

HostNext ==
  /\ ~crashed
  /\ Create \/ Initialize \/ HostRestart \/ HostClose \/ Complete \/ Continue

(* The loader completes what it was asked for, and calls return.            *)
HostSpec ==
  /\ HostInit /\ [][HostNext]_hostVars
  /\ WF_hostVars(~crashed /\ Complete) /\ WF_hostVars(~crashed /\ Continue)

-----------------------------------------------------------------------------
(* Properties.                                                              *)

(* A host that is initializing waits for the completion of the attempt it   *)
(* began last, and for no other: the handlers compare the host's state, not *)
(* their ticket.                                                            *)
InitializingAwaitsItsOwnCompletion ==
  hostState = "initializing" =>
    /\ Live(generation)
    /\ \/ Running("initialize")
       \/ native # "none" /\ ticket = generation

(* A ready host has a controller with its events, and the coordinator       *)
(* agrees: nothing the callback did before it threw leaves it half ready.   *)
ReadyIsUsable ==
  hostState = "ready" =>
    /\ controller /\ subscribed
    /\ state = "succeeded" \/ Running("dispatch")

(* The rollback after a callback that threw finds the controller it closes, *)
(* unless this callback called Restart, which has released it: docs/api.md  *)
(* tells applications to post a message instead.                            *)
RollbackFindsController == crashed => restarted

(* What the host, the loader and the coordinator each remember of an        *)
(* attempt agrees, whichever completion, failure or callback comes next.    *)
HostIsConsistent ==
  /\ HostTypeOK
  /\ InitializingAwaitsItsOwnCompletion /\ ReadyIsUsable /\ RollbackFindsController

(* After Close no completion brings back a controller or calls back.        *)
ClosedForGood ==
  [][hostState = "closed" => UNCHANGED <<hostState, resources, reported>>]_hostVars

(* The application hears of every attempt, and once: an attempt that has    *)
(* begun is reported and never again, unless the application closes the     *)
(* host before.                                                             *)
EachAttemptIsReported ==
  \A t \in Ticket :
    t \in issued ~> \/ [](reported[t] = 1)
                    \/ hostState = "closed" /\ reported[t] <= 1
=============================================================================
