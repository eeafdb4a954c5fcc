------------------------- MODULE DocumentWorkspace -------------------------
(***************************************************************************)
(* One mwfl::DocumentWorkspaceModel driven by its application: every public *)
(* operation is an action, a call that fails is a stuttering step.          *)
(***************************************************************************)
EXTENDS WorkspaceModel

CONSTANTS
  Addable,             \* documents the application may add; it uses their paths
  RestorableHistory,   \* lists a session may hand to RestoreRecentlyClosed
  MaxRevision          \* bound on the revision counter

ASSUME AddableAssumption == Addable \subseteq WorkspaceDocument
ASSUME HistoryAssumption == RestorableHistory \subseteq Seq(WorkspaceDocument)
ASSUME RevisionAssumption == MaxRevision \in Nat

VARIABLE workspace

vars == <<workspace>>

TypeOK == workspace \in Workspace

Init == workspace = EmptyWorkspace

Add ==
  \E d \in Addable, k \in 1..Len(workspace.documents) + 1 :
    /\ CanAdd(workspace, d, k)
    /\ workspace' = Added(workspace, d, k)

Close ==
  \E id \in IdsOf(workspace.documents), remember \in BOOLEAN :
    workspace' = Closed(workspace, id, remember)

CloseMany ==
  \E ids \in SUBSET IdsOf(workspace.documents) :
    /\ CanCloseMany(workspace, ids)
    /\ workspace' = ClosedMany(workspace, ids)

Move ==
  \E id \in IdsOf(workspace.documents), k \in DOMAIN workspace.documents :
    /\ CanMove(workspace, id, k)
    /\ workspace' = Moved(workspace, id, k)

Activate ==
  \E id \in IdsOf(workspace.documents) : workspace' = Activated(workspace, id)

SetDirty ==
  \E id \in IdsOf(workspace.documents), dirty \in BOOLEAN :
    workspace' = DirtySet(workspace, id, dirty)

SetPresentation ==
  /\ workspace.documents # <<>>
  /\ workspace' = PresentationSet(workspace)

Rename ==
  \E id \in IdsOf(workspace.documents), p \in {d.path : d \in Addable} :
    /\ CanRename(workspace, id, p)
    /\ workspace' = Renamed(workspace, id, p)

ReopenRecentlyClosed ==
  \E k \in DOMAIN workspace.recentlyClosed :
    /\ CanReopen(workspace, k)
    /\ workspace' = Reopened(workspace, k)

RestoreRecentlyClosed ==
  \E s \in RestorableHistory :
    /\ CanRestoreRecentlyClosed(workspace, s)
    /\ workspace' = RecentlyClosedRestored(workspace, s)

ClearRecentlyClosed == workspace' = RecentlyClosedCleared(workspace)

(* What an application, or a callback of one of its operations, may call.   *)
Operation ==
  \/ Add \/ Close \/ CloseMany \/ Move \/ Activate \/ SetDirty
  \/ SetPresentation \/ Rename
  \/ ReopenRecentlyClosed \/ RestoreRecentlyClosed \/ ClearRecentlyClosed

Next == workspace.revision < MaxRevision /\ Operation

Spec == Init /\ [][Next]_vars

-----------------------------------------------------------------------------
(* Properties.                                                              *)

(* No two open documents have one identifier or one file, whatever renames, *)
(* moves, reopenings and restored histories came before (Add, Rename and    *)
(* ReopenRecentlyClosed each check only their own argument).                *)
OpenDocumentsDistinct == DistinctEntries(workspace.documents)

(* The history keeps its bound and never lists one document or file twice.  *)
RecentlyClosedWellFormed ==
  /\ DistinctEntries(workspace.recentlyClosed)
  /\ Len(workspace.recentlyClosed) <= MaximumRecentlyClosed

(* The active document is always an open one, and there is one unless the   *)
(* workspace is empty: Close, CloseMany and Reopen each pick the successor. *)
ActiveIsOpen ==
  IF workspace.documents = <<>> THEN workspace.active = NoDocument
  ELSE workspace.active \in IdsOf(workspace.documents)

(* What the operations of a workspace keep together: documents and history  *)
(* distinct, the history bounded and the active document open.              *)
WorkspaceConsistent ==
  TypeOK /\ OpenDocumentsDistinct /\ RecentlyClosedWellFormed /\ ActiveIsOpen

(* A revision names one state of the open documents: every step that        *)
(* changes them, their order or the active one also raises the revision,    *)
(* which transfer and close plans rely on to detect that they are stale.    *)
RevisionTracksDocuments ==
  [][ \/ UNCHANGED <<workspace.documents, workspace.active>>
      \/ workspace'.revision > workspace.revision ]_vars

(* Closing keeps the user's place: when the active document closes and      *)
(* others stay, the one that becomes active was the nearest one after it in *)
(* tab order or, with none after it, the nearest one before it.             *)
ActiveFallsToNeighbour ==
  [][ LET old == workspace.documents
          gone == IdsOf(old) \ IdsOf(workspace'.documents)
          was(id) == FindIndex(old, id)
          at == was(workspace.active)
          now == was(workspace'.active)
          between == (at + 1)..(now - 1) \cup (now + 1)..(at - 1)
      IN  workspace.active \in gone /\ workspace'.documents # <<>> =>
            /\ \A i \in between : old[i].id \in gone
            /\ now < at => \A i \in at..Len(old) : old[i].id \in gone ]_vars

=============================================================================
