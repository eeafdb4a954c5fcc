--------------------------- MODULE UpdateChecker ---------------------------
(***************************************************************************)
(* app_support::UpdateChecker: a worker thread asks for the latest release  *)
(* and posts a message to the window it is attached to, which presents the  *)
(* result.  A dialog of Present runs a message loop, so that Present may    *)
(* run within Present; it disables the window, and with it the menu.  A     *)
(* checker is attached once.                                                *)
(***************************************************************************)
EXTENDS Naturals, FiniteSets

CONSTANTS
  MaxChecks,   \* bound on the checks that are started
  NoCheck

VARIABLES
  window,      \* "none", "attached", or "destroying", "gone"
  running,
  result,      \* pending: the check it is the result of
  fetch,       \* the worker: "none", "fetching", "stored" or "done"
  starting,    \* the UI thread is in Start and joins the former worker
  ready,       \* kUpdateReadyMessages in the queue
  dialogs,     \* dialogs of Present that are up
  grayed,      \* is "Check for Updates" disabled in the menu?
  started,     \* number of checks that were started; they count from 1
  answered     \* the checks that were presented, or replaced by a later one

checkerVars ==
  <<window, running, result, fetch, starting, ready, dialogs, grayed, started, answered>>

CheckerInit ==
  /\ window = "none"
  /\ running = FALSE
  /\ result = NoCheck
  /\ fetch = "none"
  /\ starting = FALSE
  /\ ready = 0
  /\ dialogs = 0
  /\ grayed = FALSE
  /\ started = 0
  /\ answered = {}

Handling == window = "attached" /\ ~starting

-----------------------------------------------------------------------------
(* Start: running is set and the menu follows; then a former worker, which  *)
(* may still have its message to post, is joined.                           *)
Start ==
  /\ ~running /\ started < MaxChecks
  /\ running' = TRUE
  /\ grayed' = TRUE
  /\ starting' = TRUE
  /\ UNCHANGED <<result, fetch, ready, dialogs, started, answered>>

(* Attach starts a check when one is due; while a dialog is up, no command  *)
(* arrives.                                                                 *)
Attach(due) ==
  /\ window = "none"
  /\ window' = "attached"
  /\ IF due THEN Start
     ELSE UNCHANGED <<running, result, fetch, starting, ready, dialogs, grayed, started, answered>>

CheckNow == Handling /\ dialogs = 0 /\ ~grayed /\ Start /\ UNCHANGED window

(* Switching automatic checks on starts one too, whatever the menu shows.   *)
ToggleAutomaticChecks == Handling /\ dialogs = 0 /\ Start /\ UNCHANGED window

Joined ==
  /\ starting /\ fetch \in {"none", "done"}
  /\ starting' = FALSE
  /\ started' = started + 1
  /\ fetch' = "fetching"
  /\ UNCHANGED <<window, running, result, ready, dialogs, grayed, answered>>

-----------------------------------------------------------------------------
(* The worker.  The window may have asked it to stop, and is not told.      *)
Fetched ==
  /\ fetch = "fetching"
  /\ IF window = "destroying" THEN fetch' = "done" /\ UNCHANGED <<running, result, answered>>
     ELSE /\ result' = started
          /\ running' = FALSE
          /\ answered' = answered \cup ({result} \ {NoCheck})
          /\ fetch' = "stored"
  /\ UNCHANGED <<window, starting, ready, dialogs, grayed, started>>

Posted ==
  /\ fetch = "stored"
  /\ fetch' = "done"
  /\ ready' = IF window = "attached" THEN ready + 1 ELSE ready
  /\ UNCHANGED <<window, running, result, starting, dialogs, grayed, started, answered>>

-----------------------------------------------------------------------------
(* Seeded fault: with no result to present, the menu is not refreshed.      *)
PresentRefreshesLast(asks) ==
  /\ Handling /\ ready > 0
  /\ ready' = ready - 1
  /\ result' = NoCheck
  /\ answered' = answered \cup ({result} \ {NoCheck})
  /\ grayed' = IF result = NoCheck \/ asks THEN grayed ELSE running
  /\ dialogs' = IF asks THEN dialogs + 1 ELSE dialogs
  /\ asks => result # NoCheck
  /\ UNCHANGED <<window, running, fetch, starting, started>>

(* The result is taken and the menu refreshed, then it may be shown.        *)
Present(asks) ==
  /\ Handling /\ ready > 0
  /\ ready' = ready - 1
  /\ result' = NoCheck
  /\ answered' = answered \cup ({result} \ {NoCheck})
  /\ grayed' = running
  /\ dialogs' = IF asks THEN dialogs + 1 ELSE dialogs
  /\ asks => result # NoCheck
  /\ UNCHANGED <<window, running, fetch, starting, started>>

(* The dialog that was opened last closes; TaskDialogIndirect's answer      *)
(* refreshes the menu.                                                      *)
DialogCloses(refreshes) ==
  /\ Handling /\ dialogs > 0
  /\ dialogs' = dialogs - 1
  /\ grayed' = IF refreshes THEN running ELSE grayed
  /\ UNCHANGED <<window, running, result, fetch, starting, ready, started, answered>>

(* WM_NCDESTROY forgets the window, asks the worker to stop and joins it.   *)
DestroyWindow ==
  /\ Handling /\ dialogs = 0
  /\ window' = IF fetch \in {"none", "done"} THEN "gone" ELSE "destroying"
  /\ ready' = 0
  /\ UNCHANGED <<running, result, fetch, starting, dialogs, grayed, started, answered>>

Destroyed ==
  /\ window = "destroying" /\ fetch = "done"
  /\ window' = "gone"
  /\ UNCHANGED <<running, result, fetch, starting, ready, dialogs, grayed, started, answered>>

CheckerNext ==
  \/ \E due \in BOOLEAN : Attach(due)
  \/ CheckNow \/ ToggleAutomaticChecks \/ Joined
  \/ Fetched \/ Posted
  \/ \E answer \in BOOLEAN : Present(answer) \/ DialogCloses(answer)
  \/ DestroyWindow \/ Destroyed

(* The UI thread and the worker run, the server answers or times out, and   *)
(* the user closes a dialog.                                                *)
Progress ==
  \/ Joined \/ Fetched \/ Posted \/ Destroyed
  \/ \E answer \in BOOLEAN : Present(answer)

CheckerSpec == CheckerInit /\ [][CheckerNext]_checkerVars /\ WF_checkerVars(Progress)

-----------------------------------------------------------------------------
(* Properties.                                                              *)

(* A check that was started ends with its result presented, unless a later  *)
(* one replaces it or the window goes; and the command that was disabled    *)
(* for it comes back, also when the next check was started between a result *)
(* and its message.                                                         *)
EveryCheckIsAnswered ==
  /\ \A c \in 1..MaxChecks : started >= c ~> c \in answered \/ window \in {"destroying", "gone"}
  /\ grayed ~> ~grayed \/ window \in {"destroying", "gone"}
=============================================================================
