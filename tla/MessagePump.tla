---------------------------- MODULE MessagePump ----------------------------
(***************************************************************************)
(* mwfl::WaitAwareMessagePump with the windows and the workers it serves.   *)
(* The pump drains the message queue, then waits for a handle, a message or *)
(* its timeout.  A worker publishes work and wakes its window through a     *)
(* WindowWakeup, which reads the window's handle and posts to it in two     *)
(* steps.  A window handler may throw: the window then closes itself and    *)
(* the application ends as failed.                                          *)
(*                                                                          *)
(* The system gives a destroyed window's handle to the next window, so a    *)
(* message carries the window it was meant for.                             *)
(***************************************************************************)
EXTENDS Integers, Sequences, SequencesExt

CONSTANTS
  Window,       \* windows one thread creates, one after the other
  NoWindow,
  Quitting,     \* those with quit_on_destroy
  Handle,       \* what the pump waits for besides messages: 1..n in order
  MaxQueue,     \* messages the queue takes
  MaxInput      \* bound on messages of the user, signals and published work

VARIABLES
  queue,     \* posted messages: [kind, window]
  quit,      \* has WM_QUIT been posted?
  pump,      \* "peek", "dispatch", "after", "wait", "succeeded" or "failed"
  message,   \* the message dispatched
  owner,     \* the window that has the handle
  life,      \* each window: "new", "alive" or "gone"
  recovery,  \* recovery_requested_ of each
  worker,    \* each window's worker: "idle", "published" or "loaded"
  work,      \* work published and not taken
  woken,     \* work for which TryWake returned true
  signalled, \* signalled handles
  input      \* user messages, signals and publications so far

pumpVars == <<queue, quit, pump, message, owner, life, recovery, worker, work, woken, signalled, input>>

NoMessage == [kind |-> "none", window |-> NoWindow]
Ended == pump \in {"succeeded", "failed"}

PumpInit ==
  /\ queue = <<>> /\ quit = FALSE
  /\ pump = "peek" /\ message = NoMessage
  /\ owner = NoWindow
  /\ life = [w \in Window |-> "new"]
  /\ recovery = [w \in Window |-> FALSE]
  /\ worker = [w \in Window |-> "idle"]
  /\ work = {} /\ woken = {} /\ signalled = {}
  /\ input = 0

-----------------------------------------------------------------------------
(* The workers.  TryWake fails for a window that is not there and for a     *)
(* full queue; what reaches another window is not taken for its own.        *)
Publish(w) ==
  /\ worker[w] = "idle" /\ life[w] = "alive" /\ input < MaxInput
  /\ input' = input + 1
  /\ work' = work \cup {w}
  /\ worker' = [worker EXCEPT ![w] = "published"]
  /\ UNCHANGED <<queue, quit, pump, message, owner, life, recovery, woken, signalled>>

LoadWindow(w) ==
  /\ worker[w] = "published"
  /\ worker' = [worker EXCEPT ![w] = IF life[w] = "alive" THEN "loaded" ELSE "idle"]
  /\ UNCHANGED <<queue, quit, pump, message, owner, life, recovery, work, woken, signalled, input>>

PostWake(w) ==
  /\ worker[w] = "loaded"
  /\ worker' = [worker EXCEPT ![w] = "idle"]
  /\ IF owner # NoWindow /\ Len(queue) < MaxQueue
     THEN /\ queue' = Append(queue, [kind |-> "wake", window |-> w])
          /\ woken' = IF w \in work THEN woken \cup {w} ELSE woken
     ELSE UNCHANGED <<queue, woken>>
  /\ UNCHANGED <<quit, pump, message, owner, life, recovery, work, signalled, input>>

(* The user closes the window or does something else.                       *)
Input(kind) ==
  /\ owner # NoWindow /\ input < MaxInput /\ Len(queue) < MaxQueue
  /\ input' = input + 1
  /\ queue' = Append(queue, [kind |-> kind, window |-> owner])
  /\ UNCHANGED <<quit, pump, message, owner, life, recovery, worker, work, woken, signalled>>

Signal(h) ==
  /\ h \notin signalled /\ input < MaxInput /\ ~Ended
  /\ input' = input + 1
  /\ signalled' = signalled \cup {h}
  /\ UNCHANGED <<queue, quit, pump, message, owner, life, recovery, worker, work, woken>>

-----------------------------------------------------------------------------
(* Run.                                                                     *)

(* The application creates its next window, before Run or from a handler.   *)
CreateWindow(w) ==
  /\ pump = "peek" /\ owner = NoWindow /\ life[w] = "new" /\ ~quit
  /\ owner' = w
  /\ life' = [life EXCEPT ![w] = "alive"]
  /\ UNCHANGED <<queue, quit, pump, message, recovery, worker, work, woken, signalled, input>>

(* WM_QUIT comes only after all other messages.                             *)
PeekMessage ==
  /\ pump = "peek"
  /\ IF queue # <<>>
     THEN /\ message' = Head(queue)
          /\ queue' = Tail(queue)
          /\ pump' = "dispatch"
     ELSE /\ pump' = IF ~quit THEN "wait"
                     ELSE IF \E w \in Quitting : recovery[w] THEN "failed" ELSE "succeeded"
          /\ UNCHANGED <<message, queue>>
  /\ UNCHANGED <<quit, owner, life, recovery, worker, work, woken, signalled, input>>

(* WM_DESTROY and WM_NCDESTROY: the wakeup loses its window, the messages   *)
(* still in the queue their target.                                         *)
Destroyed(w) ==
  /\ owner' = NoWindow
  /\ life' = [life EXCEPT ![w] = "gone"]
  /\ queue' = <<>>
  /\ quit' = (quit \/ w \in Quitting)
  /\ UNCHANGED <<recovery, worker, work, woken>>

(* RecoverFromDispatchFailure: the window posts itself WM_CLOSE.            *)
Recovering(w) ==
  /\ recovery' = [recovery EXCEPT ![w] = TRUE]
  /\ IF w \notin Quitting THEN UNCHANGED <<queue, quit>>
     ELSE IF Len(queue) < MaxQueue
          THEN queue' = Append(queue, [kind |-> "close", window |-> w]) /\ UNCHANGED quit
          ELSE quit' = TRUE /\ UNCHANGED queue
  /\ UNCHANGED <<owner, life, worker, work, woken>>

Ignored == UNCHANGED <<queue, quit, owner, life, recovery, worker, work, woken>>

(* Seeded fault: a window that recovers is asked, like any other.           *)
CloseAsks == Destroyed(owner) \/ Ignored \/ Recovering(owner)

(* A window that recovers is destroyed by WM_CLOSE without being asked.     *)
Close ==
  IF recovery[owner] THEN Destroyed(owner)
  ELSE Destroyed(owner) \/ Ignored \/ Recovering(owner)

(* OnWakeup takes the published work, or throws.                            *)
Wakeup ==
  IF message.window # owner THEN Ignored
  ELSE \/ /\ work' = work \ {owner}
          /\ woken' = woken \ {owner}
          /\ UNCHANGED <<queue, quit, owner, life, recovery, worker>>
       \/ Recovering(owner)

Dispatch ==
  /\ pump = "dispatch"
  /\ pump' = "after" /\ message' = NoMessage
  /\ IF owner = NoWindow THEN Ignored
     ELSE CASE message.kind = "wake"  -> Wakeup
            [] message.kind = "close" -> Close
            [] message.kind = "other" -> Ignored \/ Recovering(owner)
  /\ UNCHANGED <<signalled, input>>

(* after_dispatch; an exception of a callback ends Run.                     *)
AfterDispatch ==
  /\ pump = "after"
  /\ pump' \in {"peek", "failed"}
  /\ UNCHANGED <<queue, quit, message, owner, life, recovery, worker, work, woken, signalled, input>>

(* Seeded fault: the result of the last handle is taken for a message.      *)
WaitForgetsLast ==
  /\ pump = "wait"
  /\ pump' \in {"peek", "failed"}
  /\ signalled' = IF signalled = {} \/ pump' = "failed" THEN signalled
                  ELSE LET h == CHOOSE h \in signalled : \A k \in signalled : h <= k
                       IN  IF h + 1 \in Handle THEN signalled \ {h} ELSE signalled
  /\ UNCHANGED <<queue, quit, message, owner, life, recovery, worker, work, woken, input>>

(* MsgWaitForMultipleObjectsEx: the first signalled handle, else a message  *)
(* that is in the queue, however long, else the timeout.  next_interval,    *)
(* on_signal and on_idle may throw too.                                     *)
Wait ==
  /\ pump = "wait"
  /\ pump' \in {"peek", "failed"}
  /\ signalled' = IF signalled = {} \/ pump' = "failed" THEN signalled
                  ELSE signalled \ {CHOOSE h \in signalled : \A k \in signalled : h <= k}
  /\ UNCHANGED <<queue, quit, message, owner, life, recovery, worker, work, woken, input>>

Runs == PeekMessage \/ Dispatch \/ AfterDispatch \/ Wait

PumpNext ==
  \/ \E w \in Window : Publish(w) \/ LoadWindow(w) \/ PostWake(w) \/ CreateWindow(w)
  \/ \E kind \in {"close", "other"} : Input(kind)
  \/ \E h \in Handle : Signal(h)
  \/ Runs

PumpSpec == PumpInit /\ [][PumpNext]_pumpVars

(* The thread that runs the pump is scheduled, and a wait ends.             *)
PumpFairness == WF_pumpVars(Runs)

-----------------------------------------------------------------------------
(* Properties.                                                              *)

(* Work whose worker was told that it woke the window is taken, unless the  *)
(* window, the pump or a handler fails first, and a signal is served        *)
(* although messages and other handles come first.                          *)
WorkAndSignalsAreServed ==
  /\ \A w \in Window :
       w \in woken ~> w \notin woken \/ life[w] = "gone" \/ recovery[w] \/ Ended
  /\ \A h \in Handle : h \in signalled ~> h \notin signalled \/ Ended

(* A handler that throws in a window that ends the application ends it, and *)
(* as failed: its close cannot be refused any more.                         *)
FailureEndsApplication ==
  \A w \in Quitting : recovery[w] ~> pump = "failed"
=============================================================================
