# Verification of mwfl

mwfl is a C++ library for native Windows desktop applications: windows and
controls, document workspaces with tabs, docking layouts, and hosts for things
whose life is harder than a control's: WebView2, a Windows service, named pipes,
a graphics device, updates, settings.  Most of it forwards to the operating
system.  This project models the parts that decide something themselves, and in
which a wrong order of legal steps would lose a document, an update or a stop
request.

The modules are TLA+, checked with TLC and, in part, proved with TLAPS.
`PROJECT.json` lists the runs, the theorems, the hazards and, for every
definition, the source lines it stands for.

    tlc -config documents.cfg MCDocuments.tla
    tlapm CoordinatedCloseProofs.tla

1. [Inventory](#1-inventory)
2. [Modules](#2-modules)
3. [Runs](#3-runs)
4. [Proofs](#4-proofs)
5. [Where the code and its documentation disagree](#5-where-the-code-and-its-documentation-disagree)
6. [What is not modelled](#6-what-is-not-modelled)
7. [Plan](#7-plan)

## 1. Inventory

Almost everything in mwfl belongs to the thread that created it.  What makes the
behaviour hard is therefore seldom two threads.  It is re-entrancy (a callback or a
window message calls back into an object that is in the middle of an
operation), late completions, failures half way, and crashes between two calls
to the system.

### Components with control state of their own

| Component | State | Operations | Interacts with |
|---|---|---|---|
| Document workspace (`document_workspace.h/.cpp`) | open documents in tab order, active document, bounded history of closed ones, revision counter | Add, Close, CloseMany, Move, Activate, SetDirty, SetUndoState, SetViewState, Rename, ReopenRecentlyClosed, RestoreRecentlyClosed, ClearRecentlyClosed | read and changed by coordinated close, transfer, tabs, sessions |
| Document transfer (same files) | a plan with the revisions it saw | Prepare-, Accept-, Commit-, RollbackTransfer, TransferDocument | two workspaces; the application's calls in between |
| Coordinated close (`document_coordination.h/.cpp`) | a plan: the documents, their dirty flags, the choices, a revision | BuildCoordinatedClosePlan, ExecuteCoordinatedClose, CommitCoordinatedCloseAfterSaves, RouteActiveDocument | save callbacks, which may call the workspace |
| Document tabs (`document_tabs.h/.cpp`) | document-to-page bindings, the native strip, page parents and visibility | Attach, Detach, BindPage, UnbindPage, Synchronize, ActivateNativeSelection, TransferDocumentWithPage | workspaces, SetParent and the messages it sends |
| Document-workspace program (`examples/document_workspace/application.cpp`, `document_session.cpp`) | two workspaces, contents and file stamps by document, the next identifier, modal questions, the session file | New, Open, Save, Save As, Close, Reopen, reorder, move between windows, closing of either window; capture and restore of a session | the workspace and transfer, files, other programs, message loops of dialogs |
| Text and files (`text_history`, `text_file`, `recent_files`, the notepad application) | undo entries with a saved position, a file and the stamp it had, a bounded list | Record, Undo, Redo, MarkSaved; save and load; Add | the file system, other programs, a second launch |
| MDI (`mdi.h/.cpp`) | a model of children with an active one; the ChildStates of native children | Add, Remove, Activate, TransferTo; CreateChild, CloseChild, ChildDestroyed | messages sent while a child is created or destroyed |
| Docking workspace (`docking_*.h/.cpp`, its reference application) | tree of splits and groups, panels, floating and hidden ones, revision; a drag session; an auto-hide state | every mutation, Propose, Commit, Replace; Begin, Update, Drop, Cancel; PointerEnter, Focus, Advance | native adoption of panels; floating windows |
| Message pump and window core (`message_pump`, `wakeup.h`, `window.h`) | filter list, message queue, waited handles, a published worker's wakeup | AddFilter, RemoveFilter, PreTranslate, Run, Wake, SafeWindowProc | filters that change the list while it is walked; handlers that throw |
| Asynchronous initialization (`async.h`) | state, generation, dispatching flag | Begin, Cancel, Fail, Dispatch, Close | tickets held by native completion handlers; used by the WebView2 host |
| WebView2 host (`webview2.h/.cpp`) | host state, controller, subscriptions, coordinator | Create, Initialize, Restart, Close, the completion handlers | the WebView2 loader, the initialized callback |
| Direct3D host (`d3d_host.h/.cpp`) | state, device, buffers with a size, a pending resize | Create, Render, Resize, DiscardDevice, Destroy | the driver, the render callback |
| Property sheets (`property_sheet.h/.cpp`) | pages with created, dirty and applied, a result | Show, notifications, Cancel, SetDirty | comctl32's sheet, the pages' callbacks |
| Service host (`service.h/.cpp`) | global status, runtime state (paused, stop token), exit | ServiceEntry, ServiceControl, Run, NotifyState, ServiceManager, console hosting | the service control manager (SCM) on its own thread |
| IPC pipes (`ipc.h/.cpp`) | a byte stream, busy flags for reading and writing, a listener's instance | Accept, ConnectPipe, ReadFrame, WriteFrame | overlapped I/O, deadlines, stop tokens |
| Processes (`process.h/.cpp`) | handle, job, pipes of a child | Launch, CollectOutput, Wait | child and its helpers, two reading threads |
| Updates (`deployment.h/.cpp`, `app_support_update_checker.cpp`) | target, backup and staged file; a worker, a menu command | VerifyUpdate, StageUpdate, ApplyUpdate; Start, Present, Detach | the file system; the window's message loop and dialogs |
| Settings store (`settings_store.h/.cpp`) | registry values, schema marker | Save, Load, RemoveOwned | the registry, other versions of the program |
| Log file (`diagnostics.h/.cpp`) | a bounded file and its rotated ones | Write | the file system |
| Hot-corners program (`examples/hot_corners`, `tray_icon.h/.cpp`) | settings with the actions of each monitor, monitors, a dwell tracker, pause; a tray icon's state and cached tooltip | OnTimer, commands, display changes, TaskbarCreated, close; Add, UpdateTooltip, Recreate, Remove | displays, pointer, registry, the shell |

Standard controls, layout, commands, Direct2D, printing, shell, OLE, security and
scheduler code wrap one native call per operation and decide little; the build,
templates and site are no run-time behaviour.  They are listed in
`PROJECT.json` and in section 6.

### What is hard in each, and what makes it correct

**Document workspace.**  Sequential, but with three different rules for the next
active document and with a history that rename, reopen and restore all touch.
Correct means: no two open documents with one identifier or one file under any
spelling, an active document that is open, a history that is distinct and
bounded, and a revision that no visible change escapes, because everything
below compares revisions to find out whether it is stale.

**Transfer, coordinated close, tabs.**  All three look at a workspace, let others
run, and act.  Others are save handlers that edit, messages sent by `SetParent`, or
another window's user.  Correct means: a document is never lost, is in two
windows only while a transfer is open or after a reported failure, unsaved work
goes only where the user said so, and page, binding and document move together.

**Document-workspace program.**  A question asked about one document is answered when another is
active, or after the other window has changed what it was about; a session holds
identifiers and stamps that the next start must reconcile with new documents and with files that
others wrote.  Correct means: unsaved text goes only by an answer about it, an identifier
names one document across restarts, and the session gives back what was saved.

**Text and files.**  A question or a file dialog runs a message loop, so a second
launch's activation opens a file in the middle of a command, and the Replace dialog, which
stays enabled, edits the text the question is about; other programs
write the file between the checks of a save; the saved position of the undo history
moves when the history is trimmed.  Correct means: text that was changed goes
only where the user said No, what looks saved is what is on disk or was loaded, and a
foreign change is noticed before it is overwritten.

**MDI.**  A child's handler runs inside `WM_MDICREATE` and `WM_DESTROY` and calls the
host and model again.  Correct means: exactly one state for each native child, and
no call through a state that has gone.

**Docking.**  A tree that must stay a tree under every mutation, windows that must
follow it or all go back, and timers, pointer and focus that may come in any
order.  Correct means: every panel in one place, a mutation moves one panel, after a
drag the windows' parents are the layout's, and a panel never slides out under its
user.

**Initialization and the WebView2 host.**  Completion handlers outlive the attempt
they belong to and even the host.  They are dispatched late, twice, or from inside
their own callback, which may restart, close or throw.  Correct means: a result is
that of the last attempt, each attempt is reported exactly once, a ready host is
usable, and a closed host is silent.

**Direct3D host.**  The device is lost at any call, and a resize or destruction comes
from inside the render callback.  Correct means: between frames, state, device,
buffers and window agree, and a lost device is created again.

**Service host.**  Two threads with an unlocked global status and a stop request
between them, and an application's Run that may return or throw at any time.  Correct
means: they never report at once, the SCM sees a legal
sequence of states, and an acknowledged stop ends in Stopped with the exit code
of the run.

**Pump.**  Filters that add and remove filters during the walk; a wakeup that reads a
window's handle and posts to it in two steps while the window goes; handlers that
throw, and close handlers that refuse.  Correct means: a filter is asked once, work
that woke its window is served, and a failure ends the application as failed.

**IPC and processes.**  A timeout in the middle of a frame leaves the stream out of
step; a cancelled accept may have a client.  A child writes more than is kept and a
helper keeps its pipe.  Correct means: whole frames in order or a broken
connection, a client that keeps trying is served, and CollectOutput ends with all of the output
it has room for.

**Hot corners.**  A timer compares the pointer with displays that come and go, and monitors
are known by their position in order.  The shell forgets its icons when it restarts, and
refuses changes.  Correct means: an action is sent once for a stay of the whole
dwell in an outer corner, counted from the last thing that changed what is watched;
choices stay with their monitors; the icon shows what is cached.

**Updates, settings and the log.**  Crashes and failures between calls that are
each atomic.  Correct means: some whole version survives, what is reported is
what was left, a Load returns what the last completed Save was given, the newest records are
kept, and a check for updates is answered.

## 2. Modules

| Module | Models | Uses |
|---|---|---|
| `WorkspaceModel` | the operations of `DocumentWorkspaceModel` as functions from one workspace value to the next, each with its condition (`CanAdd`, `Added`, ...) | `SequencesExt` |
| `DocumentWorkspace` | one workspace as a state machine, an action per public operation | `WorkspaceModel` |
| `WorkspaceWindows` | what the modules of several windows share: windows, the bound on revisions | `WorkspaceModel` |
| `DocumentTransfer` | workspaces in windows and the transfer calls between them | `WorkspaceWindows` |
| `CoordinatedClose` | closing all documents, by save callbacks or after asynchronous saves | `DocumentWorkspace` |
| `DocumentApplication` | the document-workspace program: its two windows, questions, files and session | `WorkspaceModel` |
| `DocumentTabs` | tab strips, pages and TransferDocumentWithPage | `WorkspaceWindows` |
| `TextHistory` | the undo history as a value and the functions on it | `SequencesExt` |
| `Notepad` | the notepad application: its commands, questions and dialogs, the atomic save, activations of a second launch, other programs | `TextHistory` |
| `MdiHost` | `MdiWorkspaceModel` and `MdiHost`, with the native calls that are on the stack | `SequencesExt` |
| `DockLayouts` | layouts as values: what `Validate` requires, the layout each mutation makes | |
| `DockLayout` | `DockLayoutModel` as a state machine | `DockLayouts` |
| `DockDrag` | a drag session, the adoption of the panels' windows and its rollback | |
| `DockAutoHide` | the auto-hide controller on a clock of ticks | |
| `DockingApplication` | the commands of the reference application, floating window, session | `DockLayouts` |
| `OneShotAttempts` | what an initialization promises, without generations or shared flags | |
| `AsyncInitialization` | `AsyncInitialization` of `async.h`, shown to implement it | `OneShotAttempts` |
| `WebView2Host` | the host and its completion handlers | `AsyncInitialization` |
| `D3DHost` | the Direct3D host: frames, deferred resizes, loss and recovery | |
| `PropertySheet` | sheets: pages, notifications, results | |
| `ServiceHost` | ServiceEntry, ServiceControl and NotifyState on two threads | |
| `PipeListener` | Accept and ConnectPipe with clients that retry | |
| `PipeFrames` | WriteFrame and ReadFrame, byte by byte | |
| `MessageFilters` | one message's walk through filters that change the list | |
| `MessagePump` | the wait-aware pump, windows, wakeups of a worker, handlers that throw | |
| `ProcessOutput` | CollectOutput: two drains, deadline, stop, the child and a helper | |
| `UpdateHandoff` | VerifyUpdate, StageUpdate, ApplyUpdate on three files | |
| `UpdateChecker` | worker, menu and dialogs of the update checker | |
| `SettingsStore` | Save, Load and RemoveOwned, one step per registry call | |
| `BoundedFileSink` | the rotating log file, one step per rename | |
| `HotCorners` | the hot-corners program, its registry settings and its tray icon | |
| `WorkspaceLemmas`, `CoordinatedCloseProofs`, `DocumentTransferProofs`, `DocumentTabsProofs`, `NotepadMdiProofs`, `DockingProofs`, `PlatformProofs`, `HostProofs` | theorems and their proofs, section 4 | the modules they are about |
| `MCDocuments`, `MCDocumentWindows`, `MCDocumentTabs`, `MCCoordinatedClose`, `MCDocumentApplication`, `MCDocking`, `MCPlatform` | small instances for TLC: sets of model values, symmetries, and the components of a run | |

**The workspace as a value.**  `WorkspaceModel` has no variables.  A workspace is a
record of `documents` (a sequence of id, path, dirty flag), `active`,
`revision` and `recentlyClosed`.  That the operations are functions on this
record is what lets five modules use the same translation of the C++ class: one with
one workspace, two with several, one that acts on it from callbacks, and the
proofs.  Paths are values with a function `Canonical` that says which spellings
name one file, as `SamePath` does.  Titles, encodings, view state and undo
availability are left out; that setting them counts a revision is not
(`PresentationSet`).  `DockLayouts` and `TextHistory` are values in the same way.

**Calls and callbacks.**  A C++ call without a callback is one step.  A call that
runs application code in between is cut where it does:
`ExecuteCoordinatedClose` at each save handler, `TransferDocumentWithPage` and the
docking adapter at each `SetParent`, `Dispatch` at its callback, `CreateChild` inside
`WM_MDICREATE`, a frame at its render callback, the notepad at each message box.
Between the two halves every application action may happen that the code lets
happen there, which is exactly what a re-entrant callback or a sent message may
do.  The locals of the interrupted call are a record (`plan`, `call`, `transfer`,
`frame`), or a sequence of them where calls nest, with the fields the code keeps
across the callback and no others: that `page_index` is such a local is how
the second disagreement of section 5 shows.

**Notepad.**  A document is dirty when the history is away from its saved position;
`NoTextLost` compares what the editor holds with what was saved or loaded last, which is a
variable of the model and not of the program.  A save is the five steps of
`WriteTextFileAtomic`: check the stamp, write a temporary file, check again,
replace, ask for the new stamp.  The Replace dialog is modeless and stays
enabled while a question disables the window, so `ReplaceSelection` may change the text under one; each
call remembers (`edited`, a history field as `stale` is) that this happened to the document now open.
Another program may write between any two, and
`ForeignChangeNoticed` says exactly which interval is left: between the second check and
the replacement.  `ReplaceAllSpec` adds the Replace All
button of that dialog, see section 5.

**The document-workspace program.**  A question (message box or file dialog) disables
the window it belongs to and runs a message loop, in which the other window goes on
and may ask as well.  The questions are therefore a stack, `asking`: only the innermost can be
answered, and each remembers what its call has in locals, no more.  A text is the version of
the file it came from, or 0 when it is in no file; `FileStamp` compares versions.  `leftOpen` is no
variable of the program: it remembers what was open and saved when the session was
last written, so that `SessionGivesBack` can compare it with what the next start restores.
Tabs and pages follow the workspaces here; how they do is `DocumentTabs`.  The library's own state
machine is `DocumentWorkspace`, where any document of `Addable` may come; the program uses its
operations, with identifiers from `nextId`.

**MDI.**  Frames on the stack are a sequence of creations and destructions.  Handlers
create, close, transfer and remove other children at every depth the bound
allows.  `RefusingSpec` adds handlers that answer `WM_CREATE` with -1, see
section 5.

**Docking.**  A layout is a record: the groups, each with its role, its tabs in order and the one in
front; the tree of each host as the leaves that hold groups and the splits above them; the floating
hosts; which panels are hidden at which edge, and the active one.
`Valid` is all that `Validate` requires: `WellFormed`, what it asks of panels, groups and the tree, and its limits
on titles and counts (`PanelsFit`, `TreeFits`), which are constants.  `AddPanel` is the one mutation that is not
validated, and so the one that can leave a layout `Validate` refuses.  `MutationsStayValid` says of every state
that each mutation whose own checks pass makes
a layout that `Validate` accepts, unless it adds a group past a limit or AddPanel has gone past those on panels:
Propose, Commit and Replace then cannot fail for a reason the caller did not hear.
A drag keeps of a layout only the parent of each window; `WindowsFollowLayout`, a part of
`DragIsConsistent`, says that after it, whichever SetParent failed and whatever the messages destroyed, the windows
that are alive are where the committed layout has them, or the rollback failed too.

**The WebView2 host** extends `AsyncInitialization`: the coordinator's variables are part of
its state, and its actions call the coordinator's, as the code calls it.  What is checked is that
host, loader and coordinator agree after any order of calls, completions and callbacks (`HostIsConsistent`).  The
loader works on at most one creation at a time: `Restart` and `Initialize` are refused
while initializing, and `Close` is final.  A host whose rollback dereferences a
controller that is gone (`crashed`) stops; see section 5.

**The Direct3D host** is cut once, at the render callback.  `Stop` is the place where
`CreateDeviceAndSwapChain` may end.  The callbacks that create and discard resources are
assumed not to call the host.  What the application itself discards
(`discarded`) is excepted from `BetweenFrames`.

**The service host** writes the status field by field and hands it to the SCM in a
last step, because `NotifyState` takes no lock.  Controls are delivered when the last
status the SCM was given accepts them; interrogation is, in every state but
starting and stopped.  `ServiceStateMachine::Allowed` is the table of the property
`ReportsFollowStateMachine`.  The application's Run may return or throw at any time, asked to or not.
`overlap` is a history variable: whether a control was being handled at the moment ServiceEntry took
the end of Run up.  It says where the properties claim nothing; see section 5.

**Pump.**  A window's handle is reused by the next window, so a message carries the
window it was meant for: a wakeup read before and posted after a destruction reaches
the wrong window, and the work must still be served when the right one is woken
again.  `FilterSpec` with `SelfRemoval = "alone"` lets a filter remove only itself in its own
turn; with `"any"` it may remove itself together with others, or be added again: section 5.

**Pipes.**  A frame is its bytes; a transfer moves some of them and may end at its
deadline, by stop, or when the other end closes, having moved what it moved.
`FramesArriveWhole` is the abstract promise: what the reader has received is a prefix
of what was sent, and after a frame that broke off nothing more is received.  It holds for a
caller that gives a connection up after an error; with `Reuse` TRUE a caller reads on,
and the next length is payload.  `PipeListener` follows the system's rule that a
pipe instance whose client left before it was accepted answers `ERROR_NO_DATA` until it
is disconnected, which Accept does not do; clients in `Deserting` leave so.

**Updates.**  A file's content is a version, a partial copy, or something that was
never signed.  A rename is atomic, a copy is not, and every one may fail; the
updater may crash anywhere outside `idle`.  Two steps are outside the library and
say so in the map: removing a staged file that a crash left, without which
`StageUpdate` refuses for ever, and putting back a target that a crash left in the
backup.  The **checker** is a thread beside the window: `Start` joins the former
worker, whose message may still be in the queue, and Present runs inside Present when a
dialog pumps messages.

**Settings.**  A value is the number of the Save that wrote it.  Save and RemoveOwned are given any subset
of the names and leave the others' values (`settings_store.h:54-56`), so a Load may return values of
several Saves; `last` remembers what the last completed one was given.  A registry call that
fails ends the operation, which is the same to the registry as a crash there.
The **log** counts bytes in records of one size; a record is its number, so that order
and loss can be seen.

**Hot corners.**  Displays are rectangles of whole numbers, and corners are found in them as the
code does.  `quiet` and `acted` are history variables that count the watch apart from
`DwellTracker`; `chosen` and `kept` remember what the user chose and what was saved, apart
from selectors, settings and registry.  The shell may restart at any time and lose the icon before
its message comes; a change of the tooltip may be refused.

**Seeded faults.**  Some operators are introduced by a comment "Seeded fault": a
plausible mistake in the operator that follows, with the same parameters.  No
specification uses them.  Replacing the operator by its fault makes TLC
find one property violated (`PROJECT.json`, "mutants"), which shows that the
property can fail and that the run reaches the case.

## 3. Runs

Five runs pass and seven find what section 5 describes.  Components that share no
state need no product of their states: a run's `focus` is chosen in the initial
state and says which one a behaviour runs; the others keep their initial
values.  An MC module EXTENDS the components that theorems are about, so that a run checks the
very definition a theorem states (`MCDocking` all five of its components), and takes the
others by INSTANCE.  The states of the run are then the sum of the components', each
property is stated over its component's own variables, and fairness is that of
the focused component (`WF_v(focus = "x" /\ A)` is vacuous elsewhere).  Components that do
interact are composed in the module: the WebView2 host with its coordinator,
close and transfer with the workspace, tabs with workspaces and pages, the
application with layouts, notepad with history and file, pump with wakeup and
windows.

Every bound is a CONSTANT of the configuration or of an INSTANCE in the MC module.
Deadlock is not checked where a bound, a finished service or a closed host ends
the behaviour, which is in all of them; what must eventually happen is a liveness
property.

| Run | Components | Bounds, and why they are enough |
|---|---|---|
| `documents` | workspace, notepad, MDI | Three documents, so that closing one leaves a before and an after; two spellings of one file and no path; a history shorter than the documents; six operations, as many as the longest known interaction (add twice, close, rename, reopen, close).  Two texts and files, three entries of undo (so that trimming happens), three file stamps, commands nested twice, Replace under each question; a recent list of one, so that opening the other file pushes the first out while a command still points to it.  Three children in two models, five operations |
| `coordinated_close` | coordinated close over a workspace; document-workspace program | Two documents, dirty or not, saved or discarded, two orders; handlers that fail, edit, and call any operation; synchronous and asynchronous closes.  Four revisions: two additions, one edit or operation before the plan and one after it (five pass as well, in more than twice the states).  The program with two windows, two files of which one exists at first, a history of two entries in each window, four commands over three starts, three file versions; New and Open give identifiers up to 4, a start in which nothing comes back gives three more, so 10 suffice: opened, closed, edited or moved, written, restored, and the same once again |
| `document_windows` | tabs and pages; transfer | Two windows, two documents, one file in two spellings, four revisions each; every application action inside SetParent but re-binding, which is another run |
| `docking` | layout model, reference application, drag, auto-hide; hot-corners program | Three panels and one more with a title that is too long, so that AddPanel can go past both limits (three panels, its title); three groups, five nodes, two floating hosts of which one is allowed, one edge, six mutations; the application with its own identifiers, unbounded; two panels and parents, three layout changes; two hidden panels, delays of different lengths.  Displays: one, a second to its right, or one to its lower left (which comes first in order); the pointer in a corner that is outer or inner with them; two dwells; three commands, display changes or restarts of the shell (choose, unplug, plug in) |
| `platform` | initialization, WebView2 host, service host, update handoff, update checker, settings, pipe listener, pipe frames, filters, pump, process output, Direct3D host, property sheet, log file | Five generations (three attempts with a cancel or close between them, and stale tickets of all), callbacks nested three deep; four checkpoints; three updates in a row: one that leaves a backup, one that fails, one that follows it; three checks; two settings of which one is required, any of them given to a Save, two schema versions, three Saves; three clients, two that retry for ever and one that may leave, two faults; frames of zero bytes, of the limit and one over it; four filters, three changes in a pass; two windows, handles and messages; pipe and buffer of one byte; three pages; three rotated files, nine records, three mishaps |
| `close_reentrant_clear`, `document_tabs_reentrant_unbind`, `mdi_refused`, `docking_float`, `notepad_replace_all`, `service_paused`, `message_filters` | one each | violated, section 5 |

What the passing runs show:

- **documents**: `WorkspaceConsistent`, `RevisionTracksDocuments` and
  `ActiveFallsToNeighbour`.  The history is well formed as far as it was
  built by closing; `RestoreRecentlyClosed` compares entries up to the bound only, and
  the model cuts where the code cuts.  `CleanMeansSaved`, `NoTextLost` and
  `ForeignChangeNoticed` of the notepad under nested activations and foreign writes;
  `HostOwnsItsWindows` of MDI whatever the handlers call.  All of them are
  also proved (section 4).
- **coordinated_close**: `NoUnsavedWorkLost` relates what is really in each document
  (`unsaved`, a history variable that edits set and successful saves clear) to what the
  close drops.  An edit is the handler of the document-workspace program
  (`application.cpp:137-149`): `SetDirty(true)`, then `SetUndoState`, each of which counts a
  revision only if it changes something (`document_workspace.cpp:175-192`).  So an edit of a document that is
  clean, or whose undo state changes, makes the plan stale, and one of a document still to be
  saved is saved with it.  One kind goes by: after its save for this close, an edit of a document
  whose dirty flag is still set (the plan clears no flags) and whose undo state stays.  `unnoticed`
  collects those, and the property says that nothing else is lost (section 5).  A
  handler that clears the dirty flag itself makes the close return
  `stale_workspace`: nothing is lost, nothing closes.
  In the program, `DocumentsKeepTheirContents` says that no two documents of the two
  workspaces and their histories share an identifier (a session brings old ones back), and that
  contents belong to each.  `DiscardedAsAnswered` relates a disappearance of unsaved
  text to the question that was answered for it, the questions of closing both windows
  counting for all documents.  `SessionGivesBack`: what was open and saved when
  the session was written is open again, in its window and with the text of its file, if the
  file is still that version.  It excepts a workspace whose history names a file that is open
  (section 5).
- **document_windows**: `EveryDocumentHasOneOwner`: the plan's record is the one the source still
  has when it lets go, a transfer that ends leaves one owner or says it could not, and no
  document is lost on the way; `PagesAreConsistent` and `PagesMoveAndShow`: page, binding and
  document move together and both strips show it; `FailedTransferRestores`: an ordinary failure
  leaves the destination as found, the page with the source and the bindings alone.  In the tabs
  model a document that the messages close at its destination while it arrives
  is gone from both windows, as the user closed it; the call reports
  `projection_failure`.
- **docking**: `LayoutsStayWellFormed` (the tree is sound whatever comes, also past the limits, and only they
  refuse a mutation that applies), `OnlyOnePanelMoves` (a mutation, or the commit of a drag, moves
  one panel at most; every other keeps its group and edge), `ToolsCanReturn` (in whatever order its commands came, the
  application's two tools can be brought back to their groups),
  `DragIsConsistent` (`WindowsFollowLayout`) and `SlideIsConsistent` (`NeverLeavesItsUser`:
  nothing slides out while pointer or focus is inside).  Hot corners: `FiresAsWatched` and `ChoicesAndIconAreKept`.  The first compares the
  corner with what lies beyond it by two points across its sides, and not with the code's
  test of edges.
- **platform**:
  - `KeepsPromise` is the refinement of `OneShotAttempts`;
    `ResultBelongsToLastAttempt` is proved as well.  `ClosedForGood` is
    silence after Close; the completion handlers compare the
    host's state and never their ticket, and `HostIsConsistent` shows why this is enough.
  - `ReportsAreTrue` and `ReportsFollowStateMachine`: reports of two threads do not mix
    because stop is requested only after `StopPending` was reported and the SCM
    delivers one control at a time.  A Run that ends by itself, which the code handles, may break this:
    if a control is being handled at that moment (`overlap`), both
    threads write the status at once, and the properties claim nothing from there on (section 5).
    Where it ends between controls they hold, with a step from Running or Paused to
    Stopped that skips StopPending.  A control CONTINUE sent
    to a service that is running goes through ContinuePending, a transition
    `ServiceStateMachine` rejects; the property makes that one exception explicit.
  - `UpdateIsSafe` with failing rollbacks included.  A failed update whose undoing
    failed too leaves its version in the backup, and the property says so.
  - `LoadReturnsLastSave`: of the names the last completed Save was given, Load has that Save's values; of the
    others older ones.  An interrupted `RemoveOwned` leaves the marker over part of a
    Save; Load then succeeds if only optional values are missing.  `LogKeepsNewest`: a rotation that fails or is broken off, again and
    again, keeps order and the newest records, and each mishap costs at most one older file.
  - `PipesServe` (clients are served unless the instance has been deserted, frames arrive whole); `FiltersSeeMessageOnce`: whatever filters
    register and remove while one of them is asked, none sees a message twice and none that stays is
    left out, as long as one that removes itself does nothing else (section 5); `OutputIsComplete`: what CollectOutput reports as completed is the exit
    code and all the child wrote, up to the maximum; `BetweenFrames`: the state of the Direct3D
    host is true of device, buffers and window.
  - `EveryOperationEnds` is the liveness of the run: an initialization is reported, a stop ends in
    Stopped (unless Run ended by itself within its control), CollectOutput returns, a lost device is recovered, work that woke its window and signals are
    served by the pump, a handler that throws ends the application as failed, and a check for updates is
    presented or replaced, with the menu command coming back, also when a check begins between
    a result and its message.
  - `ResultIsTrue`: a sheet OK closed was accepted and one that was cancelled was not,
    although pages had been applied before another refused; pages, the sheet's
    model and its Apply button agree on what is dirty.

Fairness is assumed where a property says that something happens, and of the
following only:

- WebView2 host: the loader completes what it was asked for, and calls that are on the
  stack go on.  No fairness is given to Begin, Cancel or Close.
- Service host: both threads are scheduled, and Run returns once stop is
  requested.  The SCM need not send anything.
- Pipe listener: the server calls Accept again, hands each connection over, and the
  system lets a waiting client arrive.  A client's attempt to open the pipe is
  strongly fair: `ConnectPipe` retries until its deadline, and the instance is free again and
  again rather than always.
- Pump: its thread runs.  Messages are bounded (`MaxInput`), because without a bound
  the handles do starve: the code drains the queue before it waits.
- Process output: the child writes and exits, its helper exits at last; both reading
  threads and the parent run.
- Update checker: the UI thread and the worker run, and the request ends or times out.  The
  user need not close dialogs.
- Direct3D: strong fairness of a recovery that succeeds: a window is painted, and a
  driver that does not always fail is found working at last.

## 4. Proofs

The third column names the property of section 3 that a theorem states; a theorem without
one is a part of another or says more than the runs ask.

| Theorem | Says | Property |
|---|---|---|
| **`CoordinatedCloseProofs`** | | |
| `TypeCorrect`, `DocumentsStayDistinct`, `HistoryStaysWellFormed`, `ActiveStaysOpen` | the parts of the next | |
| `WorkspaceStaysConsistent` | documents and history distinct, the active document open | `WorkspaceConsistent` |
| `RevisionTracks` | a changed workspace has a greater revision | `RevisionTracksDocuments` |
| `NeighbourTakesOver` | the nearest document left takes over from an active one that closes | `ActiveFallsToNeighbour` |
| `CommitSeesWhatWasInspected` | a close that commits closes the documents the user was asked about | `CommitSeesInspectedDocuments` |
| `CloseLeavesNothing` | a close that succeeds has closed all | `CloseIsAllOrNothing` |
| `CloseLosesNoWork` | it loses only what the user gave up, or edited unnoticed after its save | `NoUnsavedWorkLost` |
| `ProgramInvariance` | the inductive invariant of the next three | |
| `DocumentsKeepContents` | an identifier means one document of the program, and its contents are kept | `DocumentsKeepTheirContents` |
| `NothingDiscardedUnasked` | unsaved changes go only through the answer to a question about them | `DiscardedAsAnswered` |
| `SessionReturns` | what the session took is open again, with its text | `SessionGivesBack` |
| **`DocumentTransferProofs`** | | |
| `TransferTypeCorrect`, `TransferLosesNothing`, `TransferKeepsOneOwner`, `TransferMovesCurrentMetadata`, `RollbackRestores` | the parts of the next | |
| `DocumentsHaveOneOwner` | no document is lost, none stays in two windows, the record that moves is the current one, and a rollback restores the destination | `EveryDocumentHasOneOwner` |
| **`DocumentTabsProofs`** | | |
| `PagesStayConsistent` | no two windows bind a page, and a bound page is a sibling of its tabs | `PagesAreConsistent` |
| `PagesMove` | document, page and binding move together, and both windows then show what they have | `PagesMoveAndShow` |
| `FailureLeavesNothing` | a transfer that fails leaves workspaces, page and bindings as they were | `FailedTransferRestores` |
| **`NotepadMdiProofs`** | | |
| `NotepadConsistent` | the inductive invariant of the next three | |
| `CleanDocumentsAreSaved` | what has no star is what was saved or loaded | `CleanMeansSaved` |
| `ChangedTextIsKept` | changed text goes only by undo, redo or No to a question about it, Replace apart | `NoTextLost` |
| `ForeignChangesAreNoticed` | no foreign change is overwritten but one after the second check | `ForeignChangeNoticed` |
| `MdiConsistent` | the inductive invariant of the next | |
| `HostKeepsItsWindows` | one ChildState per native child, models usable | `HostOwnsItsWindows` |
| `FiltersConsistent` | the inductive invariant of the next | |
| `MessagesAreSeenOnce` | filters that change their list see a message once, and none that stays misses it | `FiltersSeeMessageOnce` |
| **`DockingProofs`** | | |
| `DragTypeCorrect` | types of a drag | |
| `DragLeavesNoHalf` | the windows are where the layout has their panels | `DragIsConsistent` |
| `DragMovesOnePanel` | a commit moves the dragged panel and undoes no other change | |
| `SlideStaysWithItsUser` | no panel slides out under pointer or focus | `SlideIsConsistent` |
| `LayoutStaysWellFormed` | after every mutation the layout is a sound tree, the active panel is shown, and only a limit refuses a mutation that applies | `LayoutsStayWellFormed` |
| `OnePanelMoves` | a step moves one panel at most | `OnlyOnePanelMoves` |
| `ToolsReturn` | the application's tools and their groups are always known, so its commands can bring each tool back | `ToolsCanReturn` |
| `ActionsAreDue` | an action fires after a whole dwell in an outer corner, once until the pointer leaves | `FiresAsWatched` |
| `ChoicesSurvive` | what the user chose is what was saved or is offered, and the icon says what the program is | `ChoicesAndIconAreKept` |
| **`PlatformProofs`** | | |
| `InitializationTypeCorrect`, `CallbackOnce` | types of the coordinator; a callback runs once | |
| `ResultCorrect` | a result is that of the last attempt | `ResultBelongsToLastAttempt` |
| `InitializationRefines` | the coordinator implements `OneShotAttempts` | `KeepsPromise` |
| `AVersionSurvives`, `OutcomeStaysTrue` | the parts of the next, with its types | |
| `UpdateStaysSafe` | a whole version survives, and what is reported is what was left | `UpdateIsSafe` |
| `LoadIsOfLastSave` | a Load returns what the last completed Save was given, and older values of the other names | `LoadReturnsLastSave` |
| `MarkerIsTrue` | where the marker stands, it names the last Save, which has completed, and no value is a later one's | |
| `NewestRecordsAreKept` | the files hold the newest records in order, and each mishap costs one older file at most | `LogKeepsNewest` |
| **`HostProofs`** | | |
| `HostConsistent` | host, loader and coordinator agree | `HostIsConsistent` |
| `ReportedOnce` | an attempt is reported at most once | |
| `StaysClosed` | nothing comes back after Close | `ClosedForGood` |
| `ServiceReportsAreTrue` | unless Run ends by itself within a control: two threads' reports never mix; the exit code is Run's | `ReportsAreTrue` |
| `ServiceFollowsStateMachine` | on the same condition: the SCM sees transitions of `ServiceStateMachine` | `ReportsFollowStateMachine` |
| `D3DStateIsTrue` | between frames the state is true of device, buffers, window | `BetweenFrames` |
| `OutputIsWhole` | a completed result is complete | `OutputIsComplete` |
| `SheetResultIsTrue` | a sheet's result and marks are true | `ResultIsTrue` |

They hold for every value of the constants: any set of documents, windows, panels, pages, paths
and settings, any `Canonical`, any bound on the history, on generations, on nested
callbacks, checkpoints, pipe sizes and updates.  What they assume of the constants is named
in the module that declares them, and TLC evaluates it in the runs.  Some hypotheses say
more than that a constant has its type:

- The drag theorems assume `OnlyEnds`: what a message inside SetParent may call is Cancel or the
  destruction of a window.  One that changes the layout there, or begins another drag, has windows
  moved for a layout that is not the model's; the run leaves it out for the same reason.
- The theorems on pages assume `~ReentrantBindings`: the messages of SetParent may open, close,
  move and activate documents and create and destroy pages, but not bind or unbind.  Without it
  they are false: the call keeps the index of a binding, and section 5 has the run where another is
  removed in its place.
- `LayoutAssumption` says of the layouts that may be restored that each is typed and valid and shows its
  active panel, as one that was saved does; `Replace` validates it again.  `ApplicationAssumption` says that the
  reference application's own names differ.
- The displays of the hot-corners program are finitely many rectangles that do not overlap, as
  `EnumDisplayMonitors` gives them.
- The theorems on message filters assume that a filter which removes itself while it is asked changes nothing else
  (`SelfRemoval = "alone"`).  Otherwise they are false, see section 5.
- `SlideAssumption` takes delays and animation within `MaximumDuration`, which
  `DockAutoHideOptions::IsValid` checks.

`SheetAssumption` says that the pages are numbers with a least one in every non-empty set of
them; every finite set of integers is such, which cannot be proved here, being induction.

**Lemmas on workspaces.**  `WorkspaceLemmas` says what the library's `InsertAt`, `RemoveAt` and
the like return, element by element, without induction, and then has one lemma
per operation of `WorkspaceModel`: a well-formed workspace goes to a well-formed one, a changed one has
a greater revision, and which identifiers it opens and closes.  Well-formed is the conjunction of type,
distinct documents, distinct and bounded history, and open active document; none of these is
inductive alone.  That the active document stays open needs that documents are distinct (Close
removes one of them by position), and distinctness after Reopen needs the
history's type.  Four proof modules stand on these lemmas.  Who takes over from a closed active document
is a search, and needs no induction either: `Min` and `Max` of a set of positions are bounds
of it (`MinMaxProperties`, from counting ranks), and identifiers name one position each.

**Coordinated close** (`CloseInv`).  None of the four properties is inductive, because
each speaks of one step, the commit, and what makes it right was established when the plan was made and
kept while handlers ran.  `PlanCoversInspected` says what the plan was
made of: every dirty document is to be saved or was given up.  `RevisionNamesInspected` is the bridge: while the revision is
the plan's, the workspace is the inspected one, which is `RevisionTracks` seen
from a remembered state.  `LoopMakesProgress` counts: what the loop has left and what is saved make up what was to be saved.
For lost work, `UnsavedIsDirty` carries the contents back to flags, and `SavedStaysSaved` says
that a document saved for this close was not edited again while the revision stands, but for those in
`unnoticed`, which an edit enters exactly when it leaves the workspace as it is.

**The document-workspace program** (`ProgramInv`).  `Agree` says that identifiers are distinct over
both workspaces and both histories, not in each alone: a move takes a document from one to the
other, and a start takes both from one file.  `ListsInv` adds that each has contents and is below
`nextId`, so that a new document's is fresh, and that a text is either in no file (0) or the version
of its stamp (`TextsOK`): contents saved under a stamp other than that of the text would be
restored as something else.  Every command is one lemma (`...Effect`) that says which
identifiers it opens, which it closes and which unsaved documents go with them; the invariant and
`NothingDiscardedUnasked` both follow from it.  `Orderly` is about the stack of
questions: one per window, and the document a question is about is still in the window that
asked.  It holds because what the other window may do to a window that waits is to
add to it and to activate, never to take away, which `QuestionsElsewhere` says once for all commands.  The answer
may then act on a document it was not about, but it drops none.
`SessionAgrees` carries the same separation through the file, so that it holds after a start whatever
crashed before; the lists that come back are sublists of those that were written (`RestoredOK`).
`LeftInv` says that what was open and saved is in the session with the version it had; with
`ProbeOfCaptured`, that the probe refuses a captured workspace only when its history names an open
file, `SessionReturns` follows.  Contents are compared per start, as identifiers of an earlier run
mean nothing but through the file.

**Transfer** (`TransferInv`).  A plan is a copy: of a record of the source, and of two
revisions.  Between its steps every workspace may do what it likes.  The invariant therefore speaks
of the plan under the condition that a revision has not changed: `PlanIsCurrent` (then its record is
still in the source), `AcceptedIsAdded` (then the destination is what Accept made of it, which
is what a rollback takes back), `AcceptedIsAccountedFor` (then the document is open in the
destination, or, if the destination stands, in another window).  The last is what keeps
the document when a source commits: it commits under an unchanged revision of its own, and the destination has it.
`discarded`, a history variable of documents that the user closed, is on the other side
of each.

**Tabs** (`TabsInv`).  Inside SetParent anything may happen to the two workspaces and to the page.
`CallHoldsItsPage` says what does not: the binding is at the index the call found it at, nobody
else has one for that page unless an earlier transfer was torn, and the page is the source's or gone.  It is why a commit
takes the right binding away and why the page ends with one window.  `CallRemembersBefore`
is the transfer's `AcceptedIsAdded` seen from a call: a destination of the expected
revision is what the adoption made of it, so closing the document restores it.  `BoundOnce`
(no adapter binds a page twice) makes removal by index removal of the page.  That both
strips then show disjoint sets of pages counts them: Synchronize compares lengths only, and
`SynchronizedBindings` shows that as many bindings as distinct documents, each of them bound, are
exactly theirs.

**Notepad** (`NotepadInv`).  `HistoryAgrees` ties three copies together: the editor shows the
current entry of the history, the star says that this is not the saved entry, and the saved entry, while
the history still has it, is the text that was saved.  Record may cut the redo branch and
drop the oldest entry, and `RecordedProperties` says that the saved entry then either stays
the same text or is forgotten.  `CallsAreSound` is about the stack: only the innermost call
is half way through something; each one below it waits for an answer, which is
why an activation may replace the document under it, as long as it learns of that (`stale`), and why Replace
may change it (`edited`): a call that is neither has no reason to doubt that the text is the one it asked about.
A call that is confirmed has been told No or has nothing to lose; one between the second check and the
replacement still sees the stamp it checked, unless the file changed late or is gone.

**MDI** (`MdiInv`).  The property with one conjunct more, that the host's list has no child
twice: `ChildDestroyed` erases the first match, and only then is that the window's own state.  Frames
on the stack need no invariant: what a returning frame does to a child that is gone is nothing.

**Message filters** (`FilterInv`).  The loop keeps an index into a list that its callbacks change.
`StillToAsk` says whom it stands for: those below the filter that is asked, wherever that is by now,
or, when it has removed itself, those below the index.  Nobody there was asked, everybody there was registered when
the message came, and who was registered and has stayed is there or was asked (`Accounted`).  A new filter
comes last and so above them (`AppendKeepsOrder`); a removed one leaves the others in order
(`RemovalKeepsOrder`).  The index alone is right only if a filter that removes itself has changed nothing
before and changes nothing after, which is the hypothesis `SelfRemoval = "alone"`; without it section
5 has the counterexample.

**Drag** (`DragInv`).  `WindowsFollowLayout` does not hold while windows move; what holds then
(`AdoptionFollowsPlan`) is that those still to be moved are where the layout has them, those moved
are where the proposal wants them, and a rollback's list has the former place of each.  `AdoptedIsWhole`
turns the second into the property when Commit follows.  **Auto-hide**
(`SlideIsConsistent`) is inductive as it stands, because it says of every state of the slide, and not only of
the one where a panel goes, who may be inside and how far the animation is.

**Layout** (`LayoutInv`).  `IsState` is type, `Sound` and a shown active panel; `Sound` is `WellFormed` but for that panel,
taken apart into panels that are placed once (`PanelsPlacedOnce`), tabs that have a front (`FrontsFit`) and
the tree (`Tree`).  The parts are proved apart because a mutation disturbs
one of them at a time: each is a panel taken out (`Taken`), then perhaps an empty group floated or put beside
another, then the panel added again.  Taking out and adding touch tabs only, and
`RemoveAt` and `InsertAt` are stated element by element for them; floating and splitting touch the tree
only (`FloatKeepsTree`, `BesideKeepsTree`).  That every node is reached from the root is the difficult
part: `NodesReachable` says that a set of nodes which has the roots and is closed under children is
all of them, so each lemma takes a closed set of the new tree back to a closed one of the old.  `MutationsStayValid` is proved for every sound layout, not for
the reachable ones, which is what lets `LayoutStaysWellFormed`, `ToolsReturn` and the layout of
the first start rest on the same lemmas.  `OthersKept` follows through the same three parts that no
other panel changes its `Place`.

**Docking application** (`AppInv`).  `AtHome` says what no command takes away: both tools are among the
panels, hidden or not, and their groups and that of the documents exist and have their roles.  Commands remove
panels and never groups, and what is restored is a layout the program itself saved.

**Hot corners.**  `ChoiceInv` ties four copies together: the list of settings has the length of the list
of monitors, the selectors show what it says for the monitor that is shown, the registry holds what was saved.
It needs that displays lie side by side (`SideBySide`): then sorting them gives each monitor one place, and
a choice belongs to a place.  `WatchInv` says that the tracker has aged as long as
the watch, counted apart from it in `quiet`; `ActionsAreDue` adds what
a corner that is exposed to no display means for points across its sides.  `IconInv` is the
icon's part, over restarts of the shell.

**Log** (`SinkInv`).  `LogKeepsNewest` speaks of all files at once, and a rotation moves them one by one.
The invariant counts records as a set and not file by file: each file is ordered and older than the one before
(`LogInOrder`), rotated files are full or empty (`RotatedAreFull`), and empty places below a file that is
not empty are as many as mishaps have made (`HolesAreMishaps`).  A rename moves a hole up; one that
fails makes one.  The number of records held then follows from counting files.

**Coordinator** (`AttemptInv`).  The invariant adds to the properties that an attempt that is live
has no verdict yet (`LiveIsUndecided`), and that a live attempt whose callback has run
is the one on the stack (`LiveRunsOnStack`).  The second is what makes the callback run
once: it could run twice only if it were live and had left the stack.  The
refinement maps each generation to an attempt; a step of the coordinator is the
corresponding step of `OneShotAttempts` or leaves its variables alone.

**WebView2 host** (`HostInv`).  Completion handlers compare the host's state and never
their ticket.  That this is enough rests on what is on the stack: nothing runs above an
Initialize that has not returned (`CallsNest`, `InitializeIsInnermost`), a Dispatch is on it alone
(`DispatchRunsAlone`), host and coordinator close together, and tickets are issued in
order (`IssuedInOrder`).  `RollbackFindsController` accounts for the one null pointer: the rollback after a
throwing callback has a controller to close unless that callback called Restart.

**Service** (`ServiceInv`).  Two threads write one status without a lock.  The invariant
says for every place of ServiceEntry and ServiceControl what it is reporting (`EntryReports`,
`ControlReports`), what the SCM was last told there (`QuietBefore`, `QuietAfter`, `BusyBetween`),
and that each field of the status is the report's unless the thread has yet to write it (`Reporting`).  That the
threads do not meet (`NoRace`) then follows: before the first Running no control is accepted,
after the stop none is in progress.  A Run that ends by itself is the third case; where no control is under way
ServiceEntry finds the dispatcher quiet and its own clauses go on, and where one is, `overlap` ends the claim.

**Direct3D host** (`D3DInv`).  `BetweenFrames` says nothing during a frame, when messages resize,
lose and destroy.  `DeviceIsAsStated` holds then too: buffers have the window's size unless a
resize waits for the frame's end, and `FramesBelong` ties the frame's state to the window.

**CollectOutput** (`ProcessInv`).  `NothingIsLost` accounts for each byte: written is what is in
the pipe and what was read, and of that the first `Maximum` are kept.  `EndIsTheEnd`: a drain that saw
its pipe empty and without writers sees nothing follow, as only holders of an end write.

**Property sheet** (`SheetInv`).  OK asks the pages one at a time.  `ResultFollows` says of the
pages still to be asked what the result will be; `PagesAgree` that flag, model and the sheet's mark of
a page are one, but for a page whose callback threw and whose sheet is about to be cancelled.

**Updates** (`HandoffInv`).  `InstallationSurvives` is not inductive: that a commit which fails, or a crash
right after it, leaves a version depends on what the backup holds at that moment.
`Whereabouts` says, for each place the updater can be in, which file holds the version
it found and which the one it installs.  Each step then has one lemma line, a rename
moving one clause of `Whereabouts` to the next, and a crash needs nothing more.

**Settings** (`StoreInv`).  A Save is always unmarked while it writes (`SaveWritesUnmarked`), and has
written every name it was given before it marks; RemoveOwned only takes values away; a Load reads under a
marker of its own version (`LoadReadsMarked`), which stays, since one operation runs at
a time.  So whatever stops where, a marker says that the last Save begun is the last completed
(`MarkerNamesLastSave`), and no value under it is newer.

Only model-checked:

- liveness and everything with ENABLED, which TLAPS does not do: `EveryOperationEnds`, the liveness
  part of `PipesServe`;
- the order of bytes in `FramesArriveWhole`, which is induction over bytes.

## 5. Where the code and its documentation disagree

Shown by runs that find a violation:

1. **A paused service cannot be continued or stopped** (`service_paused`,
   `service.cpp:66`).  `NotifyState` reports no accepted control in any state but
   Running, so after Paused the SCM delivers neither CONTINUE, which
   `ServiceControl` handles, nor STOP.
2. **A stale binding index** (`document_tabs_reentrant_unbind`, `document_tabs.cpp:213`).
   `page_index` is looked up before `SetParent` runs messages and is used to erase
   after it.  If one of them unbinds an earlier page, another document's binding goes, or
   the index is past the end.
3. **A mutation without a revision** (`close_reentrant_clear`, `document_workspace.h:103`).
   `ClearRecentlyClosed` counts no revision, so a close commits after a re-entrant
   mutation that `document_coordination.h:128` says leaves all documents open.
4. **A refused MDI child costs another its state** (`mdi_refused`, `mdi.cpp:255`).
   When a handler answers `WM_CREATE` with -1, `ChildDestroyed` has already erased
   the child's state; `CreateChild` then pops the last one, which belongs to
   another window.
5. **Replace All is not an edit** (`notepad_replace_all`,
   `examples/notepad/application.cpp:667`).  It sets the editor's text, for which a
   multiline edit control sends no EN_CHANGE; the history and the dirty flag do not
   change, and New, Open and Close drop the replacement without asking.
6. **A second Float Output shows an empty window** (`docking_float`,
   `examples/docking_workspace/application.cpp:596`).  Dock Output leaves the empty floating
   group in the layout; the next Float shows the floating window and is then refused with
   `duplicate_id`.
7. **The filter pass loses its place** (`message_filters`, `message_pump.cpp:63`).  The
   loop looks for its place by the pointer of the filter it has asked.  A filter that
   removes itself and is added again, or goes together with filters before it, makes the
   index name another, which is asked twice or not at all; the comment above says
   each is invoked at most once.

Met while modelling and not listed as findings, because the documentation warns of
the case or is silent about it:

- `examples/document_workspace/application.cpp:425`: Yes to "Save changes before closing?" saves the
  document that is active by then and closes the one that was asked about.  The box disables its own
  window only, so the other window can move a document in, which becomes active.
  The tutorial wants command routing to prevent "a stale tab callback from saving a newly
  active document by accident".  `DiscardedAsAnswered` counts the answer for the document
  that was asked about.
- `document_session.cpp:212`: open a file, close it, open it again; the session then names it among the
  open documents and in the history, the probe's `RestoreRecentlyClosed` refuses, and
  the whole workspace starts empty.  `document_session.h` says that missing or
  changed paths are skipped one by one.
- The same program: an edit made in the second window while the first asks "Close anyway?" is
  dropped with the rest; a document that was closed with No comes back from the history with its
  unsaved text marked clean; Reopen and Save As look for the file in one window only, so it can be open in
  both; a save whose Rename is refused leaves an untitled document that is marked clean.
- `webview2.cpp:286`: when the initialized callback calls Restart and then throws, the
  rollback calls `Close` on a controller that Restart has reset.  `docs/api.md` says that
  callbacks contain exceptions, and also that applications should post a message before
  they call Restart.  The model reaches it: `crashed`.
- `service.cpp:60`: if Run returns or throws by itself while ServiceControl handles a control, the two threads
  write the unlocked status together: StopPending can be written over Stopped, with an exit code that is
  not Run's, or be reported after it; ServiceEntry then clears the handle (`service.cpp:232-233`), and the SCM
  never hears of Stopped again.
- `ipc.cpp:277-283`: a client that connects and leaves before it is accepted makes ConnectNamedPipe
  fail with `ERROR_NO_DATA`.  Accept returns the error and neither disconnects the instance nor creates
  another, so each later Accept of this listener fails in the same way; the comment at 290-291 says that
  arming the next instance first "keeps PipeListener reusable", which is so once a client has been accepted.
- `document_workspace.cpp:175-192`: `SetDirty` and `SetUndoState` count a revision only if they
  change something, so an edit of a document that is already dirty and whose undo state stays, made between its save for a
  close and the commit, is not seen by the commit and is closed with the document (`unnoticed`).  The
  program's edit handler (`examples/document_workspace/application.cpp:137-149`) makes no other call.
- `docking_workspace.cpp:270-288`: `AddPanel` looks only whether the title is empty, while `Validate` refuses titles
  over 4096 characters and more than 4096 panels (349-352, 387-390).  After such an AddPanel the layout is one `Validate`
  refuses, and so is every mutation but a ClosePanel that mends it (`MutationsStayValid`); where two panels
  are too many, only Replace does.
- `examples/notepad/application.cpp:147-155`: the Replace dialog stays enabled under a question.  No then drops also what
  Replace has changed since the question was asked; and where an activation has opened another document under the question
  and Replace has changed that one, No, given for the first, drops it.
- `settings_store.h:54-56`: a Save of some names keeps the others, whoever wrote them: a Save of another schema version,
  or one that never completed, as the marker says only that the last Save did.
- `settings_store.cpp:198`: `RemoveOwned` deletes the marker last where Save
  deletes it first.
- `docking_drag.cpp`: an application that cancels or resets the session inside a SetParent of
  its own commit destroys the proposal Commit goes on with (`CommitDestroyed`).
- `mdi.cpp`: the close box of a child destroys it whether or not it is closable or
  dirty, because only `CloseChild` asks the model; a child the user activates with the
  mouse is not reported to the model.
- `d3d_host.cpp:178`: a window that is minimized after its device was lost is marked
  minimized, which overwrites `device_lost`, and nothing recovers the device afterwards;
  `LossIsRecovered` excepts it.  After `create_device_resources` has thrown, a resize marks the
  host ready without the application's resources.  `DiscardDevice` inside the render callback
  leaves the state `rendering`; after it in an occluded window, Render presents a null
  swap chain.
- `app_support_update_checker.cpp`: a checker that is attached again after its window
  was destroyed during a check finds `running` still set and never checks; the result of
  PostMessage is not looked at.
- `property_sheet.cpp:582`: if the owner is destroyed after OK has applied the first pages and another
  has refused, the result is still `accepted`.
- `diagnostics.cpp:145`: when the last rename of a rotation fails again and again, each record
  moves the older files on, and in the end only the newest is left.  A rotation count of 0
  lets the file grow without bound.
- `examples/hot_corners`: a tooltip that is refused while the shell is down is not kept, so the icon
  that is added afterwards says "Watching" while the program is paused; an icon that could not be
  added again is tried only at the shell's next restart.  A monitor that is removed loses its
  choices from memory, and when it comes back before a save, the next save writes defaults over
  them.  Choices belong to a monitor's place in the order from left to right: a display connected
  on the left inherits those of the one it moves on.  When the pointer cannot be read
  (a secure desktop) the dwell goes on.  `docs/release-manual-test.md:89` wants "the exposed step
  corners at the offset" of shifted displays active; `ExposedCorners` disables both
  corners of an edge that another display touches anywhere (`FiresAsWatched` says only that those
  which fire are outer).
- `text_file.cpp:263`: a foreign write between the second check and the replacement is
  overwritten; the interval is left as it is by design.

## 6. What is not modelled

- Memory and object lifetime: a destroyed host, a `std::function` replaced
  while it runs.  TLA+ has no objects; the models begin where the object exists.
- The generation counter's wrap after 2^64 attempts.
- `RouteActiveDocument`, which only reads; `ServiceManager`, console hosting and
  WaitWhilePaused; version queries and recovery registration;
  navigation, layout and focus of the WebView2 host.
- Two processes in the settings store at once.  The store documents no such use; Load reads
  the marker once and could see another process's Save in the middle.
- The text format of sessions and layouts (and so a session file that cannot be read, and the
  program's self test), encodings and text search; monitor changes and
  previews of docking; security descriptors of pipes; job limits and argument
  quoting of processes; arrangement and accelerators of MDI; closing a property sheet from one
  of its own callbacks; an MDI or render callback's exceptions beyond those stated in the modules.
- Window placement, status text and self test of the hot-corners program, and the tray icon's
  operations it does not use.
- Controls, commands, layout, Direct2D, imaging, printing, OLE, shell, security, help: wrappers
  of native calls.  Build, templates, site and the other examples.

## 7. Plan

What is left:

- Console hosting and ServiceManager in `ServiceHost`; the Direct2D host beside `D3DHost`;
   navigation controls and layout, as far as they keep state of their own.
