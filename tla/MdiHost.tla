------------------------------ MODULE MdiHost ------------------------------
(***************************************************************************)
(* mwfl::MdiWorkspaceModel and mwfl::MdiHost: a model of the documents in   *)
(* an MDI frame, and the native client window whose children show them.     *)
(*                                                                          *)
(* Everything runs on one thread, but a child's creation and destruction    *)
(* send messages to its handler, which may call the model and the host      *)
(* again.  The native calls on the stack are the frames below.  A second    *)
(* model takes what TransferTo gives it.                                    *)
(***************************************************************************)
EXTENDS Integers, SequencesExt

CONSTANTS
  Child,           \* the nonzero child identifiers
  NoChild,         \* an empty std::optional<MdiChildId>
  MaximumChildren,
  MaxRevisions      \* bound on the revisions of both models together

VARIABLES
  models,   \* "hosted", the model of the host, and "other"
  states,   \* children_: whose ChildState the host holds, in order
  windows,  \* the children whose native window exists
  frames,   \* native calls on the stack, the innermost first
  client    \* does the MDICLIENT exist?

mdiVars == <<models, states, windows, frames, client>>

Model == {"hosted", "other"}

MdiInit ==
  /\ models = [m \in Model |-> [children |-> <<>>, active |-> NoChild, revision |-> 0]]
  /\ states = <<>>
  /\ windows = {}
  /\ frames = <<>>
  /\ client = FALSE

-----------------------------------------------------------------------------
(* The model's operations, on its value.                                    *)

ChildIds(s) == {s[i].id : i \in DOMAIN s}

IndexOf(m, c) == CHOOSE i \in DOMAIN m.children : m.children[i].id = c

CanAddChild(m, c) == c \notin ChildIds(m.children) /\ Len(m.children) < MaximumChildren

AddedAt(m, i, entry) ==
  [children |-> InsertAt(m.children, i, entry), active |-> entry.id,
   revision |-> m.revision + 1]

ChildAdded(m, c) == AddedAt(m, Len(m.children) + 1, [id |-> c, closable |-> TRUE])

(* The active child is erased: the one that takes its place is activated.   *)
ChildRemoved(m, c) ==
  LET at == IndexOf(m, c)
      rest == RemoveAt(m.children, at)
  IN  [children |-> rest,
       active |-> IF m.active # c THEN m.active
                  ELSE IF rest = <<>> THEN NoChild
                  ELSE rest[IF at <= Len(rest) THEN at ELSE Len(rest)].id,
       revision |-> m.revision + 1]

ChildRemovedIfPresent(m, c) == IF c \in ChildIds(m.children) THEN ChildRemoved(m, c) ELSE m

ChildActivated(m, c) ==
  IF c \notin ChildIds(m.children) \/ m.active = c THEN m
  ELSE [m EXCEPT !.active = c, !.revision = @ + 1]

ChildMoved(m, c, i) ==
  IF IndexOf(m, c) = i THEN m
  ELSE [m EXCEPT !.children = InsertAt(RemoveAt(@, IndexOf(m, c)), i, @[IndexOf(m, c)]),
                 !.revision = @ + 1]

ClosableSet(m, c, closable) ==
  IF m.children[IndexOf(m, c)].closable = closable THEN m
  ELSE [m EXCEPT !.children[IndexOf(m, c)].closable = closable, !.revision = @ + 1]

-----------------------------------------------------------------------------
(* Code of the application runs: from the message loop, or from a handler   *)
(* that a creation or destruction has called.                               *)
ApplicationRuns == frames # <<>> => Head(frames).call # "destroyAll"

Revisions == models["hosted"].revision + models["other"].revision

Changed(m, value) ==
  /\ ApplicationRuns /\ Revisions < MaxRevisions
  /\ models' = [models EXCEPT ![m] = value]
  /\ UNCHANGED <<states, windows, frames, client>>

AddChild(m, c) == CanAddChild(models[m], c) /\ Changed(m, ChildAdded(models[m], c))

RemoveChild(m, c, force) ==
  /\ c \in ChildIds(models[m].children)
  /\ force \/ models[m].children[IndexOf(models[m], c)].closable
  /\ Changed(m, ChildRemoved(models[m], c))

MoveChild(m, c, i) ==
  /\ c \in ChildIds(models[m].children) /\ i \in DOMAIN models[m].children
  /\ Changed(m, ChildMoved(models[m], c, i))

(* SetClosable; Rename and SetDirty count a revision in the same way.       *)
SetClosable(m, c, closable) ==
  /\ c \in ChildIds(models[m].children)
  /\ Changed(m, ClosableSet(models[m], c, closable))

(* The entry is copied to the destination before it leaves the source.      *)
TransferTo(m, to, c, i) ==
  /\ ApplicationRuns /\ m # to /\ Revisions < MaxRevisions
  /\ c \in ChildIds(models[m].children) /\ CanAddChild(models[to], c)
  /\ i \in 1..Len(models[to].children) + 1
  /\ models' = [models EXCEPT
       ![to] = AddedAt(models[to], i, models[m].children[IndexOf(models[m], c)]),
       ![m] = ChildRemoved(models[m], c)]
  /\ UNCHANGED <<states, windows, frames, client>>

-----------------------------------------------------------------------------
(* The host.                                                                *)

Frame(call, c) == [call |-> call, child |-> c]

Create ==
  /\ frames = <<>> /\ ~client
  /\ client' = TRUE
  /\ UNCHANGED <<models, states, windows, frames>>

(* WM_MDICREATE makes the window and sends it messages; a creation that     *)
(* fails before its first message changes nothing.                          *)
CreateChild(c) ==
  /\ ApplicationRuns /\ client
  /\ c \in ChildIds(models["hosted"].children) /\ c \notin windows
  /\ states' = Append(states, c)
  /\ windows' = windows \cup {c}
  /\ frames' = <<Frame("create", c)>> \o frames
  /\ UNCHANGED <<models, client>>

ChildCreated ==
  /\ frames # <<>> /\ Head(frames).call = "create"
  /\ frames' = Tail(frames)
  /\ models' = [models EXCEPT !["hosted"] = ChildActivated(@, Head(frames).child)]
  /\ UNCHANGED <<states, windows, client>>

(* Activate activates in the model, then natively.                          *)
ActivateChild(c) ==
  /\ c \in windows /\ c \in ChildIds(models["hosted"].children)
  /\ Changed("hosted", ChildActivated(models["hosted"], c))

(* A window is destroyed once, and not before it has been created.          *)
Destroying(c) ==
  /\ c \in windows
  /\ \A i \in DOMAIN frames : frames[i].child # c
  /\ frames' = <<Frame("destroy", c)>> \o frames
  /\ UNCHANGED <<models, states, windows, client>>

CloseChild(c, force) ==
  /\ ApplicationRuns /\ client
  /\ c \in ChildIds(models["hosted"].children)
  /\ force \/ models["hosted"].children[IndexOf(models["hosted"], c)].closable
  /\ Destroying(c)

(* DestroyWindow, or the close box of the child.                            *)
DestroyWindow(c) == ApplicationRuns /\ Destroying(c)

(* Seeded fault: the last ChildState goes, whichever child it belongs to.   *)
LastForgotten(c) == IF states = <<>> THEN states ELSE Front(states)

(* The first ChildState of the child, if there is one.                      *)
Forgotten(c) ==
  IF c \in Range(states) THEN RemoveAt(states, CHOOSE i \in DOMAIN states : states[i] = c)
  ELSE states

(* WM_NCDESTROY reaches ChildDestroyed, which ignores a child it forgot.    *)
Gone(c) ==
  /\ windows' = windows \ {c}
  /\ models' = IF c \in Range(states)
               THEN [models EXCEPT !["hosted"] = ChildRemovedIfPresent(@, c)] ELSE models

ChildDestroyed ==
  /\ frames # <<>> /\ Head(frames).call = "destroy"
  /\ Gone(Head(frames).child)
  /\ states' = Forgotten(Head(frames).child)
  /\ frames' = Tail(frames)
  /\ UNCHANGED client

(* The handler refuses WM_CREATE: the window goes, its ChildState with it,  *)
(* and CreateChild then pops the last one.  (With none left that is         *)
(* undefined.)                                                              *)
HandlerRefuses ==
  /\ frames # <<>> /\ Head(frames).call = "create"
  /\ Gone(Head(frames).child)
  /\ states' = LET rest == Forgotten(Head(frames).child)
               IN  IF rest = <<>> THEN rest ELSE Front(rest)
  /\ frames' = Tail(frames)
  /\ UNCHANGED client

(* Destroy closes the last child until there is none.                       *)
Destroy ==
  /\ frames = <<>> /\ client
  /\ frames' = <<Frame("destroyAll", NoChild)>>
  /\ UNCHANGED <<models, states, windows, client>>

DestroyLast ==
  /\ frames # <<>> /\ Head(frames).call = "destroyAll" /\ states # <<>>
  /\ Destroying(Last(states))

Destroyed ==
  /\ frames # <<>> /\ Head(frames).call = "destroyAll" /\ states = <<>>
  /\ frames' = Tail(frames)
  /\ client' = FALSE
  /\ UNCHANGED <<models, states, windows>>

MdiNext ==
  \/ \E m \in Model, c \in Child :
       \/ AddChild(m, c)
       \/ \E force \in BOOLEAN : RemoveChild(m, c, force)
       \/ \E i \in 1..MaximumChildren : MoveChild(m, c, i)
       \/ \E closable \in BOOLEAN : SetClosable(m, c, closable)
       \/ \E to \in Model, i \in 1..MaximumChildren : TransferTo(m, to, c, i)
  \/ Create
  \/ \E c \in Child :
       \/ CreateChild(c) \/ ActivateChild(c) \/ DestroyWindow(c)
       \/ \E force \in BOOLEAN : CloseChild(c, force)
  \/ ChildCreated \/ ChildDestroyed
  \/ Destroy \/ DestroyLast \/ Destroyed

MdiSpec == MdiInit /\ [][MdiNext]_mdiVars

(* With handlers that refuse WM_CREATE, which breaks the property below.    *)
RefusingSpec == MdiInit /\ [][MdiNext \/ HandlerRefuses]_mdiVars

-----------------------------------------------------------------------------
(* Properties.                                                              *)

(* The host owns its children's windows: it holds one ChildState for each   *)
(* and none for a window that is gone, whatever a handler does while        *)
(* windows are created and destroyed; and each model stays usable, with     *)
(* distinct children of which one is active.                                *)
HostOwnsItsWindows ==
  /\ Range(states) = windows /\ Len(states) = Cardinality(windows)
  /\ ~client => windows = {}
  /\ \A m \in Model :
       LET ids == ChildIds(models[m].children)
       IN  /\ Cardinality(ids) = Len(models[m].children)
           /\ models[m].active \in IF ids = {} THEN {NoChild} ELSE ids
=============================================================================
