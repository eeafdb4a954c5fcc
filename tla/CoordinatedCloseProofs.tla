----------------------- MODULE CoordinatedCloseProofs -----------------------
(***************************************************************************)
(* The invariants of one workspace, and the properties of closing documents *)
(* together, for every set of documents and paths, every equivalence of     *)
(* spellings and every bound on the history.                                *)
(*                                                                          *)
(* WellFormed(workspace), the conjunction of the invariants, is inductive:  *)
(* Add and Rename rely on the documents being distinct, Close and CloseMany *)
(* on the active document being open, ReopenRecentlyClosed on the history   *)
(* being distinct and within its bound.  A close plan adds what its         *)
(* callbacks do to the workspace while it is outstanding.                   *)
(***************************************************************************)
EXTENDS CoordinatedClose, DocumentApplication, WorkspaceLemmas

-----------------------------------------------------------------------------
(* One workspace.                                                           *)

(* What the application adds are documents.                                 *)
LEMMA AddableDocuments ==
  ASSUME NEW d \in Addable
  PROVE  d \in WorkspaceDocument /\ d.id \in DocumentId /\ d.path \in Path \cup {NoPath}
BY AddableAssumption DEF AddableAssumption, WorkspaceDocument

(* The empty workspace is well formed.                                      *)
LEMMA InitWellFormed == Init => WellFormed(workspace)
<1> SUFFICES ASSUME Init PROVE WellFormed(workspace)
  OBVIOUS
<1>1. workspace = [documents |-> <<>>, recentlyClosed |-> <<>>,
                   active |-> NoDocument, revision |-> 0]
  BY DEF Init, EmptyWorkspace
<1>2. workspace \in Workspace
  BY <1>1 DEF Workspace
<1>3. DistinctEntries(<<>>)
  BY DEF DistinctEntries
<1>4. HistoryOK(<<>>)
  BY <1>3, WorkspaceAssumption DEF HistoryOK
<1> QED
  BY <1>1, <1>2, <1>3, <1>4 DEF WellFormed, ActiveOpen

(* Each operation keeps the workspace well formed and, unless it leaves the *)
(* documents alone, counts a revision; none takes one back.                 *)
LEMMA StepWellFormed ==
  ASSUME WellFormed(workspace), [Next]_vars
  PROVE  /\ WellFormed(workspace)'
         /\ workspace'.revision >= workspace.revision
         /\ \/ UNCHANGED <<workspace.documents, workspace.active>>
            \/ workspace'.revision > workspace.revision
<1> DEFINE Goal == /\ WellFormed(workspace')
                   /\ workspace'.revision >= workspace.revision
                   /\ \/ UNCHANGED <<workspace.documents, workspace.active>>
                      \/ workspace'.revision > workspace.revision
<1>1. /\ workspace.revision \in Nat
      /\ workspace.revision >= workspace.revision
      /\ workspace.revision + 1 >= workspace.revision
      /\ workspace.revision + 2 >= workspace.revision
      /\ workspace.revision + 1 > workspace.revision
      /\ workspace.revision + 2 > workspace.revision
  BY WellFormedFields
<1>2. CASE Add
  <2>1. PICK d \in WorkspaceDocument, k \in 1..Len(workspace.documents) + 1 :
          CanAdd(workspace, d, k) /\ workspace' = Added(workspace, d, k)
    BY <1>2, AddableDocuments DEF Add
  <2> QED
    BY <1>1, <2>1, AddedWellFormed
<1>3. CASE Close
  <2>1. PICK id \in IdsOf(workspace.documents), remember \in BOOLEAN :
          workspace' = Closed(workspace, id, remember)
    BY <1>3 DEF Close
  <2> QED
    BY <1>1, <2>1, ClosedWellFormed
<1>4. CASE CloseMany
  <2>1. PICK ids \in SUBSET IdsOf(workspace.documents) :
          CanCloseMany(workspace, ids) /\ workspace' = ClosedMany(workspace, ids)
    BY <1>4 DEF CloseMany
  <2> QED
    BY <1>1, <2>1, ClosedManyWellFormed
<1>5. CASE Move
  <2>1. PICK id \in IdsOf(workspace.documents), k \in DOMAIN workspace.documents :
          workspace' = Moved(workspace, id, k)
    BY <1>5 DEF Move
  <2> QED
    BY <1>1, <2>1, MovedWellFormed
<1>6. CASE Activate
  <2>1. PICK id \in IdsOf(workspace.documents) : workspace' = Activated(workspace, id)
    BY <1>6 DEF Activate
  <2> QED
    BY <1>1, <2>1, ActivatedWellFormed
<1>7. CASE SetDirty
  <2>1. PICK id \in IdsOf(workspace.documents), dirty \in BOOLEAN :
          workspace' = DirtySet(workspace, id, dirty)
    BY <1>7 DEF SetDirty
  <2> QED
    BY <1>1, <2>1, DirtySetWellFormed
<1>8. CASE SetPresentation
  BY <1>1, <1>8, PresentationSetWellFormed DEF SetPresentation
<1>9. CASE Rename
  <2>1. PICK id \in IdsOf(workspace.documents), p \in Path \cup {NoPath} :
          CanRename(workspace, id, p) /\ workspace' = Renamed(workspace, id, p)
    BY <1>9, AddableDocuments DEF Rename
  <2> QED
    BY <1>1, <2>1, RenamedWellFormed
<1>10. CASE ReopenRecentlyClosed
  <2>1. PICK k \in DOMAIN workspace.recentlyClosed :
          CanReopen(workspace, k) /\ workspace' = Reopened(workspace, k)
    BY <1>10 DEF ReopenRecentlyClosed
  <2> QED
    BY <1>1, <2>1, ReopenedWellFormed
<1>11. CASE RestoreRecentlyClosed
  <2>1. PICK s \in RestorableHistory :
          /\ CanRestoreRecentlyClosed(workspace, s)
          /\ workspace' = RecentlyClosedRestored(workspace, s)
    BY <1>11 DEF RestoreRecentlyClosed
  <2> QED
    BY <1>1, <2>1, RecentlyClosedRestoredWellFormed, HistoryAssumption
<1>12. CASE ClearRecentlyClosed
  BY <1>1, <1>12, RecentlyClosedClearedWellFormed DEF ClearRecentlyClosed
<1>13. CASE UNCHANGED vars
  BY <1>1, <1>13 DEF vars
<1>14. Next => Operation
  BY DEF Next
<1> QED
  BY <1>2, <1>3, <1>4, <1>5, <1>6, <1>7, <1>8, <1>9, <1>10, <1>11, <1>12, <1>13, <1>14
  DEF Operation

(* The workspace is well formed in every reachable state.                   *)
THEOREM Invariance == Spec => []WellFormed(workspace)
<1>1. Init => WellFormed(workspace)
  BY InitWellFormed
<1>2. WellFormed(workspace) /\ [Next]_vars => WellFormed(workspace)'
  BY StepWellFormed
<1> QED
  BY <1>1, <1>2, PTL DEF Spec

(* Documents, history, active document and revision have their types.       *)
THEOREM TypeCorrect == Spec => []TypeOK
<1>1. WellFormed(workspace) => TypeOK
  BY DEF WellFormed, TypeOK
<1> QED
  BY <1>1, Invariance, PTL

(* No two open documents have one identifier or name one file.              *)
THEOREM DocumentsStayDistinct == Spec => []OpenDocumentsDistinct
<1>1. WellFormed(workspace) => OpenDocumentsDistinct
  BY DEF WellFormed, OpenDocumentsDistinct
<1> QED
  BY <1>1, Invariance, PTL

(* The history of closed documents is distinct and within its bound.        *)
THEOREM HistoryStaysWellFormed == Spec => []RecentlyClosedWellFormed
<1>1. WellFormed(workspace) => RecentlyClosedWellFormed
  BY DEF WellFormed, HistoryOK, RecentlyClosedWellFormed
<1> QED
  BY <1>1, Invariance, PTL

(* The active document is an open one.                                      *)
THEOREM ActiveStaysOpen == Spec => []ActiveIsOpen
<1>1. WellFormed(workspace) => ActiveIsOpen
  BY DEF WellFormed, ActiveOpen, ActiveIsOpen
<1> QED
  BY <1>1, Invariance, PTL

(* All of these at once.                                                    *)
THEOREM WorkspaceStaysConsistent == Spec => []WorkspaceConsistent
<1>1. WorkspaceConsistent <=> /\ TypeOK /\ OpenDocumentsDistinct
                              /\ RecentlyClosedWellFormed /\ ActiveIsOpen
  BY DEF WorkspaceConsistent
<1> QED
  BY <1>1, TypeCorrect, DocumentsStayDistinct, HistoryStaysWellFormed, ActiveStaysOpen, PTL

(* Whatever changes the open documents or the active one counts a revision. *)
THEOREM RevisionTracks == Spec => RevisionTracksDocuments
<1>1. WellFormed(workspace) /\ [Next]_vars
        => [ \/ UNCHANGED <<workspace.documents, workspace.active>>
             \/ workspace'.revision > workspace.revision ]_vars
  BY StepWellFormed
<1> QED
  BY <1>1, Invariance, PTL DEF Spec, RevisionTracksDocuments

(* The document that takes over from an active one that closes is the one   *)
(* after it in tab order, of those left, or else the last one left.         *)
FallsToNeighbour(w, v) ==
  LET old == w.documents
      gone == IdsOf(old) \ IdsOf(v.documents)
      was(id) == FindIndex(old, id)
      at == was(w.active)
      now == was(v.active)
      between == (at + 1)..(now - 1) \cup (now + 1)..(at - 1)
  IN  w.active \in gone /\ v.documents # <<>> =>
        /\ \A i \in between : old[i].id \in gone
        /\ now < at => \A i \in at..Len(old) : old[i].id \in gone

LEMMA NearestTakesOver ==
  ASSUME NEW w, WellFormed(w), NEW v, NEW gone,
         gone = IdsOf(w.documents) \ IdsOf(v.documents),
         NEW at \in DOMAIN w.documents, w.documents[at].id = w.active, w.active \in gone,
         NEW k \in DOMAIN w.documents, w.documents[k].id = v.active,
         \/ k > at /\ \A i \in (at + 1)..(k - 1) : w.documents[i].id \in gone
         \/ k < at /\ \A i \in (k + 1)..Len(w.documents) : w.documents[i].id \in gone
  PROVE  FallsToNeighbour(w, v)
<1>1. PICK s : s = w.documents
  OBVIOUS
<1>2. /\ s \in Seq(WorkspaceDocument) /\ Len(s) \in Nat /\ DOMAIN s = 1..Len(s)
      /\ \A i, j \in DOMAIN s : i # j => s[i].id # s[j].id
  BY <1>1, WellFormedFields DEF Entries, DistinctEntries
<1>3. FindIndex(s, w.active) = at
  BY <1>1, <1>2 DEF FindIndex
<1>4. FindIndex(s, v.active) = k
  BY <1>1, <1>2 DEF FindIndex
<1>5. at \in 1..Len(s) /\ k \in 1..Len(s)
  BY <1>1, <1>2
<1>6. \A i \in (at + 1)..(k - 1) \cup (k + 1)..(at - 1) : s[i].id \in gone
  BY <1>1, <1>2, <1>5
<1>7. k < at => \A i \in at..Len(s) : s[i].id \in gone
  BY <1>1, <1>2, <1>5
<1> QED BY <1>1, <1>3, <1>4, <1>6, <1>7 DEF FallsToNeighbour

LEMMA CloseFallsToNeighbour ==
  ASSUME NEW w, WellFormed(w), NEW id \in IdsOf(w.documents), NEW remember \in BOOLEAN,
         NEW v, v = Closed(w, id, remember)
  PROVE  FallsToNeighbour(w, v)
<1>1. PICK s, gone : s = w.documents /\ gone = IdsOf(s) \ IdsOf(v.documents)
  OBVIOUS
<1>2. s \in Seq(WorkspaceDocument) /\ Len(s) \in Nat /\ DOMAIN s = 1..Len(s)
  BY <1>1, WellFormedFields DEF Entries
<1>3. PICK at, rest : at = FindIndex(s, id) /\ rest = RemoveAt(s, at)
  OBVIOUS
<1>4. at \in 1..Len(s) /\ s[at].id = id
  BY <1>1, <1>2, <1>3, FindIndexProperties
<1>5. /\ Len(rest) = Len(s) - 1
      /\ \A j \in 1..Len(s) - 1 : rest[j] = s[IF j < at THEN j ELSE j + 1]
      /\ rest \in Seq(WorkspaceDocument)
  BY <1>2, <1>3, <1>4, RemoveAtProperties
<1>6. gone = {id}
  BY <1>1, ClosedWellFormed
<1>7. /\ v.documents = rest
      /\ v.active = IF w.active # id THEN w.active
                    ELSE IF rest = <<>> THEN NoDocument
                    ELSE rest[IF at <= Len(rest) THEN at ELSE Len(rest)].id
  BY <1>1, <1>3 DEF Closed
<1>8. SUFFICES ASSUME w.active = id, rest # <<>> PROVE FallsToNeighbour(w, v)
  BY <1>1, <1>6, <1>7 DEF FallsToNeighbour
<1>9. CASE at <= Len(rest)
  <2>1. PICK k : k = at + 1
    OBVIOUS
  <2>2. k \in 1..Len(s) /\ k > at /\ v.active = s[k].id /\ (at + 1)..(k - 1) = {}
    BY <1>2, <1>4, <1>5, <1>7, <1>8, <1>9, <2>1
  <2> QED BY <1>1, <1>2, <1>4, <1>6, <1>8, <2>2, NearestTakesOver
<1>10. CASE at > Len(rest)
  <2>1. PICK k : k = at - 1
    OBVIOUS
  <2>2. Len(rest) # 0
    BY <1>5, <1>8
  <2>3. k \in 1..Len(s) /\ k < at /\ (k + 1)..Len(s) = {at}
    BY <1>2, <1>4, <1>5, <1>10, <2>1, <2>2
  <2>4. v.active = s[k].id
    BY <1>2, <1>4, <1>5, <1>7, <1>8, <1>10, <2>1, <2>3
  <2>5. \A i \in (k + 1)..Len(s) : s[i].id \in gone
    BY <1>4, <1>6, <2>3
  <2> QED BY <1>1, <1>2, <1>4, <1>6, <1>8, <2>3, <2>4, <2>5, NearestTakesOver
<1> QED BY <1>4, <1>5, <1>9, <1>10

LEMMA CloseManyFallsToNeighbour ==
  ASSUME NEW w, WellFormed(w), NEW ids, CanCloseMany(w, ids),
         NEW v, v = ClosedMany(w, ids)
  PROVE  FallsToNeighbour(w, v)
<1>1. PICK s, gone : s = w.documents /\ gone = IdsOf(s) \ IdsOf(v.documents)
  OBVIOUS
<1>2. s \in Seq(WorkspaceDocument) /\ Len(s) \in Nat /\ DOMAIN s = 1..Len(s)
  BY <1>1, WellFormedFields DEF Entries
<1>3. gone = ids
  BY <1>1, ClosedManyWellFormed DEF CanCloseMany
<1>4. SUFFICES ASSUME w.active \in ids, v.documents # <<>> PROVE FallsToNeighbour(w, v)
  BY <1>1, <1>3 DEF FallsToNeighbour
<1>5. PICK at : at = FindIndex(s, w.active)
  OBVIOUS
<1>6. at \in 1..Len(s) /\ s[at].id = w.active
  BY <1>1, <1>2, <1>4, <1>5, FindIndexProperties DEF CanCloseMany
<1>7. PICK open, after : open = StaysOpen(w, ids) /\ after = {i \in open : i >= at}
  OBVIOUS
<1>8. /\ open \in SUBSET (1..Len(s)) /\ after \in SUBSET (1..Len(s))
      /\ open = {i \in 1..Len(s) : s[i].id \notin ids} /\ at \notin open
  BY <1>1, <1>2, <1>4, <1>6, <1>7 DEF StaysOpen
<1>9. /\ v.documents = Picked(s, open)
      /\ v.active = IF after # {} THEN s[Min(after)].id
                    ELSE IF open # {} THEN s[Max(open)].id ELSE NoDocument
  <2>1. w \in Workspace
    BY WellFormedFields
  <2>2. v.documents = Picked(s, open) /\ v.active = NextActive(w, ids)
    BY <1>1, <1>7, <2>1 DEF ClosedMany, Workspace
  <2> QED BY <1>1, <1>4, <1>5, <1>7, <2>2 DEF NextActive
<1>10. CASE after # {}
  <2>1. PICK k : k = Min(after)
    OBVIOUS
  <2>2. k \in after /\ \A i \in after : k <= i
    BY <1>2, <1>8, <1>10, <2>1, MinMaxProperties
  <2>3. k \in 1..Len(s) /\ k > at
    BY <1>6, <1>7, <1>8, <2>2
  <2>4. \A i \in (at + 1)..(k - 1) : s[i].id \in gone
    <3> TAKE i \in (at + 1)..(k - 1)
    <3>1. i \in 1..Len(s) /\ i >= at /\ ~(k <= i)
      BY <1>2, <1>6, <2>3
    <3> QED BY <1>3, <1>7, <1>8, <2>2, <3>1
  <2> QED BY <1>1, <1>2, <1>3, <1>4, <1>6, <1>9, <1>10, <2>1, <2>3, <2>4, NearestTakesOver
<1>11. CASE after = {}
  <2>1. open # {}
    <3>1. open = {} => Picked(s, open) = <<>>
      <4>1. Picked(s, {}) \in Seq(WorkspaceDocument) /\ Len(Picked(s, {})) = Cardinality({})
        BY <1>2, PickedProperties
      <4> QED BY <4>1, FS_EmptySet
    <3> QED BY <1>4, <1>9, <3>1
  <2>2. PICK k : k = Max(open)
    OBVIOUS
  <2>3. k \in open /\ \A i \in open : i <= k
    BY <1>2, <1>8, <2>1, <2>2, MinMaxProperties
  <2>4. k \in 1..Len(s) /\ k < at
    BY <1>6, <1>7, <1>8, <1>11, <2>3
  <2>5. \A i \in (k + 1)..Len(s) : s[i].id \in gone
    <3> TAKE i \in (k + 1)..Len(s)
    <3>1. i \in 1..Len(s) /\ ~(i <= k)
      BY <1>2, <2>4
    <3> QED BY <1>3, <1>8, <2>3, <3>1
  <2> QED BY <1>1, <1>2, <1>3, <1>4, <1>6, <1>9, <1>11, <2>1, <2>2, <2>4, <2>5,
             NearestTakesOver
<1> QED BY <1>10, <1>11

LEMMA StepFallsToNeighbour ==
  ASSUME WellFormed(workspace), [Next]_vars
  PROVE  FallsToNeighbour(workspace, workspace')
<1>1. PICK w, v : w = workspace /\ v = workspace'
  OBVIOUS
<1>2. WellFormed(w)
  BY <1>1
<1>3. ASSUME IdsOf(w.documents) \subseteq IdsOf(v.documents) PROVE FallsToNeighbour(w, v)
  BY <1>3 DEF FallsToNeighbour
<1>4. CASE Add
  <2>1. PICK d \in WorkspaceDocument, k \in 1..Len(w.documents) + 1 :
          CanAdd(w, d, k) /\ v = Added(w, d, k)
    BY <1>1, <1>4, AddableDocuments DEF Add
  <2> QED BY <1>1, <1>2, <1>3, <2>1, AddedWellFormed
<1>5. CASE Close
  <2>1. PICK id \in IdsOf(w.documents), remember \in BOOLEAN : v = Closed(w, id, remember)
    BY <1>1, <1>5 DEF Close
  <2> QED BY <1>1, <1>2, <2>1, CloseFallsToNeighbour
<1>6. CASE CloseMany
  <2>1. PICK ids : CanCloseMany(w, ids) /\ v = ClosedMany(w, ids)
    BY <1>1, <1>6 DEF CloseMany
  <2> QED BY <1>1, <1>2, <2>1, CloseManyFallsToNeighbour
<1>7. CASE Move
  <2>1. PICK id \in IdsOf(w.documents), k \in DOMAIN w.documents : v = Moved(w, id, k)
    BY <1>1, <1>7 DEF Move
  <2> QED BY <1>1, <1>2, <1>3, <2>1, MovedWellFormed
<1>8. CASE Activate
  <2>1. PICK id \in IdsOf(w.documents) : v = Activated(w, id)
    BY <1>1, <1>8 DEF Activate
  <2> QED BY <1>1, <1>2, <1>3, <2>1, ActivatedWellFormed
<1>9. CASE SetDirty
  <2>1. PICK id \in IdsOf(w.documents), dirty \in BOOLEAN : v = DirtySet(w, id, dirty)
    BY <1>1, <1>9 DEF SetDirty
  <2> QED BY <1>1, <1>2, <1>3, <2>1, DirtySetWellFormed
<1>10. CASE Rename
  <2>1. PICK id \in IdsOf(w.documents), p \in Path \cup {NoPath} :
          CanRename(w, id, p) /\ v = Renamed(w, id, p)
    BY <1>1, <1>10, AddableDocuments DEF Rename
  <2> QED BY <1>1, <1>2, <1>3, <2>1, RenamedWellFormed
<1>11. CASE ReopenRecentlyClosed
  <2>1. PICK k : CanReopen(w, k) /\ v = Reopened(w, k)
    BY <1>1, <1>11 DEF ReopenRecentlyClosed
  <2> QED BY <1>1, <1>2, <1>3, <2>1, ReopenedWellFormed
<1>12. CASE SetPresentation \/ RestoreRecentlyClosed \/ ClearRecentlyClosed
  <2>1. w \in Workspace
    BY <1>2, WellFormedFields
  <2>2. v.documents = w.documents
    BY <1>1, <1>12, <2>1 DEF SetPresentation, PresentationSet, RestoreRecentlyClosed,
       RecentlyClosedRestored, ClearRecentlyClosed, RecentlyClosedCleared, Workspace
  <2> QED BY <1>1, <1>3, <2>2
<1>13. CASE UNCHANGED vars
  BY <1>1, <1>3, <1>13 DEF vars
<1> QED
  BY <1>4, <1>5, <1>6, <1>7, <1>8, <1>9, <1>10, <1>11, <1>12, <1>13 DEF Next, Operation

(* Closing keeps the user's place: the nearest document after the active    *)
(* one takes over or, with none after it, the nearest one before it.        *)
THEOREM NeighbourTakesOver == Spec => ActiveFallsToNeighbour
<1>1. WellFormed(workspace) /\ [Next]_vars => [FallsToNeighbour(workspace, workspace')]_vars
  BY StepFallsToNeighbour
<1>2. [FallsToNeighbour(workspace, workspace')]_vars =>
        [ LET old == workspace.documents
              gone == IdsOf(old) \ IdsOf(workspace'.documents)
              was(id) == FindIndex(old, id)
              at == was(workspace.active)
              now == was(workspace'.active)
              between == (at + 1)..(now - 1) \cup (now + 1)..(at - 1)
          IN  workspace.active \in gone /\ workspace'.documents # <<>> =>
                /\ \A i \in between : old[i].id \in gone
                /\ now < at => \A i \in at..Len(old) : old[i].id \in gone ]_vars
  BY DEF FallsToNeighbour
<1> QED
  BY <1>1, <1>2, Invariance, PTL DEF Spec, ActiveFallsToNeighbour

-----------------------------------------------------------------------------
(* Coordinated close.                                                       *)

(* The identifiers of the dirty documents in s.                             *)
DirtyOf(s) == {s[i].id : i \in {k \in DOMAIN s : s[k].dirty}}

(* A document of t that s has too is as dirty in t as it is in s.           *)
KeepsFlags(s, t) ==
  \A i \in DOMAIN t : t[i].id \in IdsOf(s) =>
    \E j \in DOMAIN s : s[j].id = t[i].id /\ s[j].dirty = t[i].dirty

-----------------------------------------------------------------------------
(* The inductive invariant.                                                 *)

(* The plan stands for the workspace it was built from: it closes every     *)
(* document and has an answer for every dirty one.                          *)
PlanCoversInspected ==
  phase # "idle" =>
    /\ plan \in Plan
    /\ plan.revision = inspected.revision
    /\ plan.status = "ready" =>
         /\ plan.close = IdSequence(inspected.documents)
         /\ DirtyOf(inspected.documents) \subseteq Range(plan.save) \cup plan.discarded

(* A revision that is still current still names the same documents.         *)
RevisionNamesInspected ==
  /\ inspected.revision <= workspace.revision
  /\ inspected.revision = workspace.revision =>
       /\ workspace.documents = inspected.documents
       /\ workspace.active = inspected.active

(* While the save handler is called for one document after the other, each  *)
(* of the plan's documents was saved or remains.                            *)
LoopMakesProgress ==
  /\ phase \in {"calling", "written"} =>
       /\ plan.status = "ready"
       /\ remaining # <<>>
       /\ Range(plan.save) \subseteq saved \cup Range(remaining)
  /\ phase = "written" => Head(remaining) \in saved

(* Only a dirty document has contents that differ from the disk.            *)
UnsavedIsDirty == unsaved \subseteq DirtyOf(workspace.documents)

(* What was saved for a plan that is still current has been edited since    *)
(* only by edits that count no revision.                                    *)
SavedStaysSaved ==
  phase # "idle" /\ plan.revision = workspace.revision =>
    saved \cap unsaved \subseteq unnoticed

CloseInv ==
  /\ CloseTypeOK /\ WellFormed(workspace)
  /\ PlanCoversInspected /\ RevisionNamesInspected /\ LoopMakesProgress
  /\ UnsavedIsDirty /\ SavedStaysSaved

-----------------------------------------------------------------------------
(* Flags and the operations of a workspace.                                 *)

(* A sequence whose entries are taken from s keeps the flags of s.          *)
LEMMA SelectionKeepsFlags ==
  ASSUME NEW s, NEW t, \A i \in DOMAIN t : \E j \in DOMAIN s : t[i] = s[j]
  PROVE  KeepsFlags(s, t)
BY DEF KeepsFlags

(* Whatever is still there after an operation that keeps the flags and was  *)
(* dirty is dirty.                                                          *)
LEMMA DirtyStaysDirty ==
  ASSUME NEW s, DistinctEntries(s), NEW t, KeepsFlags(s, t), NEW U, U \subseteq DirtyOf(s)
  PROVE  U \cap IdsOf(t) \subseteq DirtyOf(t)
<1> SUFFICES ASSUME NEW id \in U, id \in IdsOf(t) PROVE id \in DirtyOf(t)
  OBVIOUS
<1>1. PICK k \in DOMAIN s : s[k].dirty /\ s[k].id = id
  BY DEF DirtyOf
<1>2. PICK i \in DOMAIN t : t[i].id = id
  BY DEF IdsOf
<1>3. PICK j \in DOMAIN s : s[j].id = t[i].id /\ s[j].dirty = t[i].dirty
  BY <1>1, <1>2 DEF KeepsFlags, IdsOf
<1>4. j = k
  BY <1>1, <1>2, <1>3 DEF DistinctEntries
<1> QED
  BY <1>1, <1>2, <1>3, <1>4 DEF DirtyOf

(* An entry of a sequence something was inserted into is that or an old one. *)
LEMMA InsertionValues ==
  ASSUME NEW s \in Seq(WorkspaceDocument), NEW k \in 1..Len(s) + 1,
         NEW d \in WorkspaceDocument
  PROVE  \A i \in DOMAIN InsertAt(s, k, d) :
           InsertAt(s, k, d)[i] = d \/ \E j \in DOMAIN s : InsertAt(s, k, d)[i] = s[j]
<1>1. /\ DOMAIN InsertAt(s, k, d) = 1..Len(s) + 1
      /\ \A j \in 1..Len(s) + 1 :
           InsertAt(s, k, d)[j] = IF j < k THEN s[j] ELSE IF j = k THEN d ELSE s[j - 1]
  BY InsertAtProperties
<1>2. DOMAIN s = 1..Len(s) /\ Len(s) \in Nat
  OBVIOUS
<1> SUFFICES ASSUME NEW i \in 1..Len(s) + 1, i # k
             PROVE  \E j \in DOMAIN s : InsertAt(s, k, d)[i] = s[j]
  BY <1>1
<1>3. CASE i < k
  <2>1. i \in DOMAIN s
    BY <1>2, <1>3
  <2> QED
    BY <1>1, <1>3, <2>1
<1>4. CASE i > k
  <2>1. i - 1 \in DOMAIN s
    BY <1>2, <1>4
  <2>2. InsertAt(s, k, d)[i] = s[i - 1]
    BY <1>1, <1>4
  <2> QED
    BY <2>1, <2>2
<1> QED
  BY <1>2, <1>3, <1>4

(* Add and ReopenRecentlyClosed: the new document is none of the old ones.  *)
LEMMA InsertionKeepsFlags ==
  ASSUME NEW s \in Seq(WorkspaceDocument), NEW k \in 1..Len(s) + 1,
         NEW d \in WorkspaceDocument, d.id \notin IdsOf(s)
  PROVE  KeepsFlags(s, InsertAt(s, k, d))
BY InsertionValues DEF KeepsFlags

(* Close.                                                                   *)
LEMMA RemovalKeepsFlags ==
  ASSUME NEW s \in Seq(WorkspaceDocument), NEW k \in 1..Len(s)
  PROVE  KeepsFlags(s, RemoveAt(s, k))
<1>1. /\ DOMAIN RemoveAt(s, k) = 1..Len(s) - 1
      /\ \A j \in 1..Len(s) - 1 : RemoveAt(s, k)[j] = s[IF j < k THEN j ELSE j + 1]
  BY RemoveAtProperties
<1>2. ASSUME NEW i \in DOMAIN RemoveAt(s, k)
      PROVE  \E j \in DOMAIN s : RemoveAt(s, k)[i] = s[j]
  <2>1. (IF i < k THEN i ELSE i + 1) \in DOMAIN s
    BY <1>1
  <2> QED
    BY <1>1, <2>1
<1> QED
  BY <1>2, SelectionKeepsFlags

(* CloseMany.                                                               *)
LEMMA PickingKeepsFlags ==
  ASSUME NEW s \in Entries, NEW K \in SUBSET (1..Len(s))
  PROVE  KeepsFlags(s, Picked(s, K))
<1>1. /\ Picked(s, K) \in Seq(WorkspaceDocument) /\ s \in Seq(WorkspaceDocument)
      /\ \A i \in 1..Len(Picked(s, K)) : \E k \in K : Picked(s, K)[i] = s[k]
  BY PickedDistinct DEF Entries
<1>2. \A i \in DOMAIN Picked(s, K) : \E j \in DOMAIN s : Picked(s, K)[i] = s[j]
  BY SMTT(60), <1>1
<1> QED
  BY <1>2, SelectionKeepsFlags

(* Move: the document is put back at another place.                         *)
LEMMA MovingKeepsFlags ==
  ASSUME NEW s \in Seq(WorkspaceDocument), NEW at \in 1..Len(s), NEW k \in 1..Len(s)
  PROVE  KeepsFlags(s, InsertAt(RemoveAt(s, at), k, s[at]))
<1>1. /\ RemoveAt(s, at) \in Seq(WorkspaceDocument) /\ Len(RemoveAt(s, at)) = Len(s) - 1
      /\ DOMAIN RemoveAt(s, at) = 1..Len(s) - 1
      /\ \A j \in 1..Len(s) - 1 : RemoveAt(s, at)[j] = s[IF j < at THEN j ELSE j + 1]
  BY RemoveAtProperties
<1>2. k \in 1..Len(RemoveAt(s, at)) + 1 /\ s[at] \in WorkspaceDocument /\ at \in DOMAIN s
  BY <1>1
<1>3. \A i \in DOMAIN RemoveAt(s, at) : \E j \in DOMAIN s : RemoveAt(s, at)[i] = s[j]
  <2>1. \A i \in 1..Len(s) - 1 : (IF i < at THEN i ELSE i + 1) \in DOMAIN s
    OBVIOUS
  <2> QED
    BY <1>1, <2>1
<1> DEFINE t == InsertAt(RemoveAt(s, at), k, s[at])
<1>4. \A i \in DOMAIN t :
        t[i] = s[at] \/ \E j \in DOMAIN RemoveAt(s, at) : t[i] = RemoveAt(s, at)[j]
  BY <1>1, <1>2, InsertionValues
<1> QED
  BY <1>2, <1>3, <1>4, SelectionKeepsFlags

(* SetDirty changes the flag of its document, and no other's.               *)
LEMMA DirtySetFlags ==
  ASSUME NEW w, WellFormed(w), NEW id \in IdsOf(w.documents), NEW dirty \in BOOLEAN
  PROVE  IF dirty THEN DirtyOf(w.documents) \cup {id} \subseteq
                         DirtyOf(DirtySet(w, id, dirty).documents)
         ELSE DirtyOf(w.documents) \ {id} \subseteq
                DirtyOf(DirtySet(w, id, dirty).documents)
<1> DEFINE s == w.documents
           at == FindIndex(s, id)
           t == [s EXCEPT ![at].dirty = dirty]
<1>1. w \in Workspace /\ s \in Seq(WorkspaceDocument) /\ DOMAIN s = 1..Len(s)
  BY WellFormedFields
<1>2. at \in DOMAIN s /\ s[at].id = id
  BY <1>1, FindIndexProperties
<1> HIDE DEF at
<1>3. CASE s[at].dirty = dirty
  <2>1. DirtySet(w, id, dirty) = w
    BY <1>3 DEF DirtySet, at
  <2> QED
    BY <1>2, <1>3, <2>1 DEF DirtyOf
<1>4. CASE s[at].dirty # dirty
  <2>1. DirtySet(w, id, dirty) = [w EXCEPT !.documents = t, !.revision = @ + 1]
    BY <1>4 DEF DirtySet, at
  <2>2. DirtySet(w, id, dirty).documents = t
    BY <1>1, <2>1 DEF Workspace
  <2>3. \A i \in DOMAIN s : s[i] \in WorkspaceDocument
    BY <1>1
  <2>4. /\ DOMAIN t = DOMAIN s /\ t[at].id = id /\ t[at].dirty = dirty
        /\ \A i \in DOMAIN s : i # at => t[i] = s[i]
    BY <1>2, <2>3 DEF WorkspaceDocument
  <2> HIDE DEF t
  <2>5. ASSUME NEW x \in DirtyOf(s), x # id PROVE x \in DirtyOf(t)
    <3>1. PICK i \in DOMAIN s : s[i].dirty /\ s[i].id = x
      BY <2>5 DEF DirtyOf
    <3>2. i # at
      BY <1>2, <2>5, <3>1
    <3> QED
      BY <2>4, <3>1, <3>2 DEF DirtyOf
  <2>6. dirty => id \in DirtyOf(t)
    BY <1>2, <2>4 DEF DirtyOf
  <2> QED
    BY <2>2, <2>5, <2>6
<1> QED
  BY <1>3, <1>4

(* Whatever the application calls keeps the flags of the documents that     *)
(* stay open, SetDirty apart.                                               *)
LEMMA OperationKeepsFlags ==
  ASSUME WellFormed(workspace), ModelOperation
  PROVE  KeepsFlags(workspace.documents, workspace'.documents)
<1> DEFINE s == workspace.documents
<1>1. /\ workspace \in Workspace /\ s \in Seq(WorkspaceDocument) /\ s \in Entries
      /\ DOMAIN s = 1..Len(s) /\ Len(s) \in Nat
  BY WellFormedFields
<1>2. KeepsFlags(s, s)
  BY SelectionKeepsFlags
<1>3. CASE Add
  <2>1. PICK d \in WorkspaceDocument, k \in 1..Len(s) + 1 :
          CanAdd(workspace, d, k) /\ workspace' = Added(workspace, d, k)
    BY <1>3, AddableDocuments DEF Add
  <2>2. workspace'.documents = InsertAt(s, k, d)
    BY <1>1, <2>1 DEF Added, Workspace
  <2> QED
    BY <1>1, <2>1, <2>2, InsertionKeepsFlags DEF CanAdd
<1>4. CASE Close
  <2>1. PICK id \in IdsOf(s), remember \in BOOLEAN :
          workspace' = Closed(workspace, id, remember)
    BY <1>4 DEF Close
  <2>2. workspace'.documents = RemoveAt(s, FindIndex(s, id))
    BY <2>1 DEF Closed
  <2> QED
    BY <1>1, <2>2, FindIndexProperties, RemovalKeepsFlags
<1>5. CASE CloseMany
  <2>1. PICK ids \in SUBSET IdsOf(s) : workspace' = ClosedMany(workspace, ids)
    BY <1>5 DEF CloseMany
  <2>2. workspace'.documents = Picked(s, StaysOpen(workspace, ids))
    BY <1>1, <2>1 DEF ClosedMany, Workspace
  <2>3. StaysOpen(workspace, ids) \in SUBSET (1..Len(s))
    BY <1>1 DEF StaysOpen
  <2> QED
    BY <1>1, <2>2, <2>3, PickingKeepsFlags
<1>6. CASE Move
  <2>1. PICK id \in IdsOf(s), k \in DOMAIN s : workspace' = Moved(workspace, id, k)
    BY <1>6 DEF Move
  <2> DEFINE at == FindIndex(s, id)
  <2>2. workspace'.documents = InsertAt(RemoveAt(s, at), k, s[at])
    BY <1>1, <2>1 DEF Moved, Workspace
  <2>3. at \in 1..Len(s) /\ k \in 1..Len(s)
    BY <1>1, FindIndexProperties
  <2> HIDE DEF at
  <2> QED
    BY <1>1, <2>2, <2>3, MovingKeepsFlags
<1>7. CASE Activate
  <2>1. workspace'.documents = s
    BY <1>1, <1>7 DEF Activate, Activated, Workspace
  <2> QED
    BY <1>2, <2>1
<1>8. CASE SetPresentation
  <2>1. workspace'.documents = s
    BY <1>1, <1>8 DEF SetPresentation, PresentationSet, Workspace
  <2> QED
    BY <1>2, <2>1
<1>9. CASE Rename
  <2>1. PICK id \in IdsOf(s), p \in Path \cup {NoPath} :
          workspace' = Renamed(workspace, id, p)
    BY <1>9, AddableDocuments DEF Rename
  <2> DEFINE at == FindIndex(s, id)
             t == [s EXCEPT ![at].path = p]
  <2>2. workspace'.documents = t
    BY <1>1, <2>1 DEF Renamed, Workspace
  <2>3. at \in 1..Len(s)
    BY <1>1, FindIndexProperties
  <2> HIDE DEF at
  <2>4. \A i \in DOMAIN s : s[i] \in WorkspaceDocument
    BY <1>1
  <2>5. DOMAIN t = DOMAIN s /\ \A i \in DOMAIN s : t[i].id = s[i].id /\ t[i].dirty = s[i].dirty
    BY <2>3, <2>4, <1>1 DEF WorkspaceDocument
  <2> HIDE DEF t
  <2>6. KeepsFlags(s, t)
    BY <2>5 DEF KeepsFlags
  <2> QED
    BY <2>2, <2>6
<1>10. CASE ReopenRecentlyClosed
  <2>1. PICK k \in DOMAIN workspace.recentlyClosed :
          CanReopen(workspace, k) /\ workspace' = Reopened(workspace, k)
    BY <1>10 DEF ReopenRecentlyClosed
  <2> DEFINE d == ReopenedDocument(workspace, k)
  <2>2. d \in WorkspaceDocument
    <3>1. workspace.recentlyClosed[k] \in WorkspaceDocument
      BY <1>1 DEF Workspace
    <3> QED
      BY <3>1 DEF ReopenedDocument, WorkspaceDocument
  <2>3. d.id \notin IdsOf(s)
    BY <2>1 DEF CanReopen, CanAdd
  <2> HIDE DEF d
  <2>4. workspace'.documents = InsertAt(s, Len(s) + 1, d)
    BY <1>1, <2>1 DEF Reopened, Added, Workspace, d
  <2>5. Len(s) + 1 \in 1..Len(s) + 1
    BY <1>1
  <2> QED
    BY <1>1, <2>2, <2>3, <2>4, <2>5, InsertionKeepsFlags
<1>11. CASE RestoreRecentlyClosed
  <2>1. workspace'.documents = s
    BY <1>1, <1>11 DEF RestoreRecentlyClosed, RecentlyClosedRestored, Workspace
  <2> QED
    BY <1>2, <2>1
<1>12. CASE ClearRecentlyClosed
  <2>1. workspace'.documents = s
    BY <1>1, <1>12 DEF ClearRecentlyClosed, RecentlyClosedCleared, Workspace
  <2> QED
    BY <1>2, <2>1
<1> QED
  BY <1>3, <1>4, <1>5, <1>6, <1>7, <1>8, <1>9, <1>10, <1>11, <1>12 DEF ModelOperation

-----------------------------------------------------------------------------
(* The inductive invariant holds initially.                                 *)
LEMMA CloseInitially == CloseInit => CloseInv
<1> SUFFICES ASSUME CloseInit PROVE CloseInv
  OBVIOUS
<1>1. WellFormed(workspace) /\ workspace \in Workspace /\ inspected = workspace
  BY InitWellFormed DEF CloseInit, Init, WellFormed
<1>2. workspace.revision \in Nat
  BY <1>1 DEF Workspace
<1>3. CloseTypeOK
  BY <1>1 DEF CloseInit, CloseTypeOK, TypeOK, Phase, Outcome
<1>4. phase = "idle" /\ unsaved = {}
  BY DEF CloseInit
<1> QED
  BY <1>1, <1>2, <1>3, <1>4
  DEF CloseInv, PlanCoversInspected, RevisionNamesInspected, LoopMakesProgress,
      UnsavedIsDirty, SavedStaysSaved

(* What an operation of the workspace does to it: it stays well formed, and *)
(* unless its documents and the active one stay, the revision rises.        *)
Advances ==
  /\ WellFormed(workspace')
  /\ workspace'.revision >= workspace.revision
  /\ \/ UNCHANGED <<workspace.documents, workspace.active>>
     \/ workspace'.revision > workspace.revision

(* A workspace that is left alone advances.                                 *)
LEMMA StutterAdvances == WellFormed(workspace) /\ UNCHANGED workspace => Advances
<1> SUFFICES ASSUME WellFormed(workspace), UNCHANGED workspace PROVE Advances
  OBVIOUS
<1>1. workspace.revision \in Nat
  BY WellFormedFields
<1> QED
  BY <1>1 DEF Advances

(* So does one whose document was marked dirty or clean.                    *)
LEMMA DirtySetAdvances ==
  ASSUME WellFormed(workspace), NEW id \in IdsOf(workspace.documents),
         NEW dirty \in BOOLEAN, workspace' = DirtySet(workspace, id, dirty)
  PROVE  Advances
<1>1. workspace.revision \in Nat /\ workspace.revision + 1 > workspace.revision
  BY WellFormedFields
<1>2. /\ WellFormed(workspace')
      /\ workspace' = workspace \/ workspace'.revision = workspace.revision + 1
  BY DirtySetWellFormed
<1> QED
  BY <1>1, <1>2 DEF Advances

(* A revision that is still current names the documents the plan was built  *)
(* from, whatever the workspace went through.                               *)
LEMMA AdvancingKeepsRevisionNames ==
  ASSUME CloseInv, Advances, UNCHANGED inspected
  PROVE  RevisionNamesInspected'
<1>1. inspected.revision \in Nat /\ workspace.revision \in Nat /\ workspace'.revision \in Nat
  BY WellFormedFields DEF CloseInv, CloseTypeOK, Workspace, Advances
<1>2. RevisionNamesInspected
  BY DEF CloseInv
<1> QED
  BY <1>1, <1>2 DEF RevisionNamesInspected, Advances

(* A step that leaves plan, phase and loop alone, and makes nothing unsaved *)
(* but what is noticed by the revision or noted, keeps the invariant.       *)
LEMMA SurroundingsKeepInvariant ==
  ASSUME CloseInv, Advances, UNCHANGED closeVars, UnsavedIsDirty',
         unsaved' \subseteq DocumentId, unnoticed' \subseteq DocumentId,
         \/ saved \cap unsaved' \subseteq (saved \cap unsaved) \cup unnoticed'
            /\ unnoticed \subseteq unnoticed'
         \/ workspace'.revision > workspace.revision
  PROVE  CloseInv'
<1>1. workspace' \in Workspace /\ WellFormed(workspace')
  BY WellFormedFields DEF Advances
<1>2. unsaved' \in SUBSET DocumentId /\ unnoticed' \in SUBSET DocumentId
  OBVIOUS
<1>3. CloseTypeOK'
  BY <1>1, <1>2 DEF CloseInv, CloseTypeOK, TypeOK, closeVars
<1>4. PlanCoversInspected' /\ LoopMakesProgress'
  BY DEF CloseInv, PlanCoversInspected, LoopMakesProgress, closeVars
<1>5. RevisionNamesInspected'
  BY AdvancingKeepsRevisionNames DEF closeVars
<1>6. SavedStaysSaved'
  <2> SUFFICES ASSUME phase # "idle", plan.revision = workspace'.revision
               PROVE  saved \cap unsaved' \subseteq unnoticed'
    BY DEF SavedStaysSaved, closeVars
  <2>1. /\ plan.revision = inspected.revision
        /\ inspected.revision <= workspace.revision
        /\ workspace'.revision >= workspace.revision
    BY DEF CloseInv, PlanCoversInspected, RevisionNamesInspected, Advances
  <2>2. inspected.revision \in Nat /\ workspace.revision \in Nat /\ workspace'.revision \in Nat
    BY <1>1 DEF CloseInv, CloseTypeOK, TypeOK, Workspace
  <2>3. workspace'.revision = workspace.revision
    BY <2>1, <2>2
  <2>4. saved \cap unsaved \subseteq unnoticed
    BY <2>3 DEF CloseInv, SavedStaysSaved
  <2>5. ~(workspace'.revision > workspace.revision)
    BY <2>2, <2>3
  <2> QED
    BY <2>4, <2>5
<1> QED
  BY <1>1, <1>3, <1>4, <1>5, <1>6 DEF CloseInv

(* The user and the application: Edit.                                      *)
LEMMA EditKeepsInvariant == CloseInv /\ Edit => CloseInv'
<1> SUFFICES ASSUME CloseInv, Edit PROVE CloseInv'
  OBVIOUS
<1>1. PICK id \in IdsOf(workspace.documents) :
        LET marked == DirtySet(workspace, id, TRUE)
        IN  /\ workspace' \in {marked, PresentationSet(marked)}
            /\ unsaved' = unsaved \cup {id}
            /\ unnoticed' = IF id \in saved /\ workspace' = workspace
                            THEN unnoticed \cup {id} ELSE unnoticed
            /\ UNCHANGED closeVars
  BY DEF Edit
<1> DEFINE marked == DirtySet(workspace, id, TRUE)
<1>2. WellFormed(workspace) /\ workspace.revision \in Nat
  BY WellFormedFields DEF CloseInv
<1>3. /\ WellFormed(marked)
      /\ marked = workspace \/ marked.revision = workspace.revision + 1
  BY <1>2, DirtySetWellFormed
<1>4. DirtyOf(workspace.documents) \cup {id} \subseteq DirtyOf(marked.documents)
  BY <1>2, DirtySetFlags
<1>5. id \in DocumentId
  BY <1>2, WellFormedFields, IdsAreDocumentIds
<1> HIDE DEF marked
<1>6. /\ WellFormed(PresentationSet(marked))
      /\ PresentationSet(marked).revision = marked.revision + 1
      /\ PresentationSet(marked).documents = marked.documents
  <2>1. marked \in Workspace
    BY <1>3, WellFormedFields
  <2>2. PresentationSet(marked).documents = marked.documents
    BY <2>1 DEF PresentationSet, Workspace
  <2> QED
    BY <1>3, <2>2, PresentationSetWellFormed
<1>7. /\ workspace' \in {marked, PresentationSet(marked)}
      /\ unsaved' = unsaved \cup {id} /\ UNCHANGED closeVars
      /\ unnoticed' = IF id \in saved /\ workspace' = workspace
                      THEN unnoticed \cup {id} ELSE unnoticed
  BY <1>1 DEF marked
<1>8. Advances /\ (workspace' = workspace \/ workspace'.revision > workspace.revision)
  BY <1>2, <1>3, <1>6, <1>7 DEF Advances
<1>9. UnsavedIsDirty' /\ unsaved' \subseteq DocumentId /\ unnoticed' \subseteq DocumentId
  BY <1>4, <1>5, <1>6, <1>7 DEF CloseInv, CloseTypeOK, UnsavedIsDirty
<1>10. \/ saved \cap unsaved' \subseteq (saved \cap unsaved) \cup unnoticed'
          /\ unnoticed \subseteq unnoticed'
       \/ workspace'.revision > workspace.revision
  BY <1>7, <1>8
<1> QED
  BY <1>7, <1>8, <1>9, <1>10, SurroundingsKeepInvariant

(* SaveOne: what was saved is clean, and no other document becomes so.      *)
LEMMA SaveOneKeepsInvariant == CloseInv /\ SaveOne => CloseInv'
<1> SUFFICES ASSUME CloseInv, SaveOne PROVE CloseInv'
  OBVIOUS
<1>1. PICK id \in IdsOf(workspace.documents) :
        /\ workspace' = DirtySet(workspace, id, FALSE)
        /\ unsaved' = unsaved \ {id}
        /\ UNCHANGED <<closeVars, unnoticed>>
  BY DEF SaveOne
<1>2. WellFormed(workspace)
  BY DEF CloseInv
<1>3. Advances
  BY <1>1, <1>2, DirtySetAdvances
<1>4. DirtyOf(workspace.documents) \ {id} \subseteq DirtyOf(workspace'.documents)
  BY <1>1, <1>2, DirtySetFlags
<1>5. UnsavedIsDirty' /\ unsaved' \subseteq unsaved
  BY <1>1, <1>4 DEF CloseInv, UnsavedIsDirty
<1>6. unsaved \subseteq DocumentId /\ unnoticed \subseteq DocumentId
  BY DEF CloseInv, CloseTypeOK
<1> QED
  BY <1>1, <1>3, <1>5, <1>6, SurroundingsKeepInvariant

(* Every other call of the application.                                     *)
LEMMA ModelOperationKeepsInvariant ==
  CloseInv /\ workspace.revision < MaxRevision /\ ModelOperation => CloseInv'
<1> SUFFICES ASSUME CloseInv, workspace.revision < MaxRevision, ModelOperation
             PROVE  CloseInv'
  OBVIOUS
<1>1. WellFormed(workspace) /\ DistinctEntries(workspace.documents)
  BY DEF CloseInv, WellFormed
<1>2. Next
  BY DEF Next, ModelOperation, Operation
<1>3. Advances
  BY <1>1, <1>2, StepWellFormed DEF Advances
<1>4. unsaved' = unsaved \cap IdsOf(workspace'.documents) /\ UNCHANGED <<closeVars, unnoticed>>
  BY DEF ModelOperation
<1>5. KeepsFlags(workspace.documents, workspace'.documents)
  BY <1>1, OperationKeepsFlags
<1>6. UnsavedIsDirty'
  BY <1>1, <1>4, <1>5, DirtyStaysDirty DEF CloseInv, UnsavedIsDirty
<1>7. unsaved \subseteq DocumentId /\ unnoticed \subseteq DocumentId
  BY DEF CloseInv, CloseTypeOK
<1> QED
  BY <1>3, <1>4, <1>6, <1>7, SurroundingsKeepInvariant

-----------------------------------------------------------------------------
(* The plan.                                                                *)

(* The identifiers of documents, in their order.                            *)
LEMMA IdSequenceProperties ==
  ASSUME NEW s \in Seq(WorkspaceDocument)
  PROVE  /\ IdSequence(s) \in Seq(DocumentId)
         /\ Range(IdSequence(s)) = IdsOf(s)
         /\ IdSequence(s) = <<>> <=> s = <<>>
<1>1. DOMAIN s = 1..Len(s) /\ Len(s) \in Nat /\ \A i \in DOMAIN s : s[i].id \in DocumentId
  <2>1. \A i \in DOMAIN s : s[i] \in WorkspaceDocument
    OBVIOUS
  <2> QED
    BY <2>1 DEF WorkspaceDocument
<1>2. IdSequence(s) = [i \in 1..Len(s) |-> s[i].id]
  BY <1>1 DEF IdSequence
<1>3. IdSequence(s) \in Seq(DocumentId) /\ Len(IdSequence(s)) = Len(s)
  BY <1>1, <1>2
<1>4. Range(IdSequence(s)) = IdsOf(s)
  BY <1>1, <1>2 DEF Range, IdsOf
<1>5. IdSequence(s) = <<>> <=> s = <<>>
  BY <1>1, <1>3
<1> QED
  BY <1>3, <1>4, <1>5

(* A plan that is ready closes every document, and every dirty one is saved *)
(* or was given up: an answer that is missing or says cancel stops the plan.*)
LEMMA ReadyPlanProperties ==
  ASSUME WellFormed(workspace), NEW asked \in SUBSET DocumentId,
         NEW decisions \in [asked -> Choice], StatusFor(decisions) = "ready"
  PROVE  /\ ReadyPlan(decisions) \in Plan
         /\ ReadyPlan(decisions).revision = workspace.revision
         /\ ReadyPlan(decisions).close = IdSequence(workspace.documents)
         /\ DirtyOf(workspace.documents) \subseteq
              Range(ReadyPlan(decisions).save) \cup ReadyPlan(decisions).discarded
<1> DEFINE s == workspace.documents
           toSave == {i \in DOMAIN s : s[i].id \in Chosen(decisions, "save")}
<1>1. /\ s \in Seq(WorkspaceDocument) /\ s \in Entries /\ DOMAIN s = 1..Len(s)
      /\ workspace.revision \in Nat
  BY WellFormedFields
<1>2. toSave \in SUBSET (1..Len(s))
  BY <1>1
<1>3. Picked(s, toSave) \in Seq(WorkspaceDocument) /\ IdsOf(Picked(s, toSave)) = {s[k].id : k \in toSave}
  BY <1>1, <1>2, PickedDistinct DEF Entries
<1>4. /\ IdSequence(Picked(s, toSave)) \in Seq(DocumentId)
      /\ Range(IdSequence(Picked(s, toSave))) = {s[k].id : k \in toSave}
  BY <1>3, IdSequenceProperties
<1>5. IdSequence(s) \in Seq(DocumentId)
  BY <1>1, IdSequenceProperties
<1>6. Undecided(decisions) = {} /\ Cancelled(decisions) = {}
  BY DEF StatusFor
<1>7. DirtyOf(s) \subseteq {s[k].id : k \in toSave} \cup Chosen(decisions, "discard")
  <2> SUFFICES ASSUME NEW i \in DOMAIN s, s[i].dirty, s[i].id \notin Chosen(decisions, "discard")
               PROVE  i \in toSave
    BY DEF DirtyOf
  <2>1. i \in DirtyAt
    BY DEF DirtyAt
  <2>2. s[i].id \in DOMAIN decisions
    BY <1>6, <2>1 DEF Undecided
  <2>3. decisions[s[i].id] # "cancel"
    BY <1>6, <2>1 DEF Cancelled
  <2>4. decisions[s[i].id] # "discard"
    BY <2>2 DEF Chosen
  <2>5. decisions[s[i].id] = "save"
    BY <2>2, <2>3, <2>4 DEF Choice
  <2> QED
    BY <2>2, <2>5 DEF Chosen
<1>8. Chosen(decisions, "discard") \in SUBSET DocumentId
  BY DEF Chosen
<1> HIDE DEF toSave
<1>9. ReadyPlan(decisions) =
        [status |-> "ready", revision |-> workspace.revision,
         save |-> IdSequence(Picked(s, toSave)), close |-> IdSequence(s),
         discarded |-> Chosen(decisions, "discard")]
  BY DEF ReadyPlan, toSave
<1> QED
  BY <1>1, <1>4, <1>5, <1>7, <1>8, <1>9 DEF Plan, PlanStatus

(* BuildPlan keeps the invariant.                                           *)
LEMMA BuildPlanKeepsInvariant == CloseInv /\ BuildPlan => CloseInv'
<1> SUFFICES ASSUME CloseInv, BuildPlan PROVE CloseInv'
  OBVIOUS
<1>a. WellFormed(workspace) /\ Known \in SUBSET DocumentId
  BY AddableDocuments, IdsAreDocumentIds, WellFormedFields DEF CloseInv, Known
<1>0. PICK asked \in SUBSET DocumentId :
        \E decisions \in [asked -> Choice] :
          plan' = IF StatusFor(decisions) = "ready" THEN ReadyPlan(decisions)
                  ELSE RejectedPlan(StatusFor(decisions))
  BY <1>a DEF BuildPlan
<1>1. PICK decisions \in [asked -> Choice] :
        plan' = IF StatusFor(decisions) = "ready" THEN ReadyPlan(decisions)
                ELSE RejectedPlan(StatusFor(decisions))
  BY <1>0
<1>2. /\ phase' = "planned" /\ inspected' = workspace
      /\ saved' = {} /\ remaining' = <<>> /\ outcome' = "none" /\ unnoticed' = {}
      /\ UNCHANGED <<workspace, unsaved>>
  BY DEF BuildPlan
<1>3. WellFormed(workspace) /\ workspace \in Workspace /\ workspace.revision \in Nat
  BY WellFormedFields DEF CloseInv
<1>4. /\ plan' \in Plan /\ plan'.revision = workspace.revision
      /\ plan'.status = "ready" =>
           /\ plan'.close = IdSequence(workspace.documents)
           /\ DirtyOf(workspace.documents) \subseteq Range(plan'.save) \cup plan'.discarded
  <2>1. CASE StatusFor(decisions) = "ready"
    BY <1>1, <1>3, <2>1, ReadyPlanProperties
  <2>2. CASE StatusFor(decisions) # "ready"
    <3>1. StatusFor(decisions) \in PlanStatus
      BY DEF StatusFor, PlanStatus
    <3>2. plan' = [status |-> StatusFor(decisions), revision |-> workspace.revision,
                   save |-> <<>>, close |-> <<>>, discarded |-> {}]
      BY <1>1, <2>2 DEF RejectedPlan
    <3> QED
      BY <1>3, <2>2, <3>1, <3>2 DEF Plan
  <2> QED
    BY <2>1, <2>2
<1>5. CloseTypeOK'
  BY <1>2, <1>3, <1>4 DEF CloseInv, CloseTypeOK, TypeOK, Phase, Outcome
<1>6. PlanCoversInspected'
  BY <1>2, <1>4 DEF PlanCoversInspected
<1> QED
  BY <1>2, <1>3, <1>5, <1>6
  DEF CloseInv, RevisionNamesInspected, LoopMakesProgress, UnsavedIsDirty, SavedStaysSaved

-----------------------------------------------------------------------------
(* The end of a close.                                                      *)

(* However a close ends, the plan is held as before it.                     *)
LEMMA EndKeepsInvariant ==
  ASSUME CloseInv, phase # "idle", NEW status \in Outcome, EndWith(status),
         Advances, unsaved' \subseteq unsaved, UnsavedIsDirty'
  PROVE  CloseInv'
<1>1. /\ phase' = "planned" /\ outcome' = status /\ remaining' = <<>> /\ saved' = {}
      /\ unnoticed' = {}
      /\ UNCHANGED <<plan, inspected>>
  BY DEF EndWith
<1>2. workspace' \in Workspace /\ WellFormed(workspace')
  BY WellFormedFields DEF Advances
<1>3. CloseTypeOK'
  BY <1>1, <1>2 DEF CloseInv, CloseTypeOK, TypeOK, Phase
<1>4. RevisionNamesInspected'
  BY <1>1, AdvancingKeepsRevisionNames
<1>5. PlanCoversInspected'
  BY <1>1 DEF CloseInv, PlanCoversInspected
<1> QED
  BY <1>1, <1>2, <1>3, <1>4, <1>5 DEF CloseInv, LoopMakesProgress, SavedStaysSaved

(* A close that ends early leaves the workspace alone.                      *)
LEMMA FailureKeepsInvariant ==
  ASSUME CloseInv, phase # "idle", NEW status \in Outcome, EndWith(status),
         UNCHANGED <<workspace, unsaved>>
  PROVE  CloseInv'
<1>1. Advances
  BY StutterAdvances DEF CloseInv
<1>2. UnsavedIsDirty'
  BY DEF CloseInv, UnsavedIsDirty
<1> QED
  BY <1>1, <1>2, EndKeepsInvariant

(* Closing every document leaves none, and none active.                     *)
LEMMA ClosingAll ==
  ASSUME NEW w, WellFormed(w)
  PROVE  /\ ClosedMany(w, IdsOf(w.documents)).documents = <<>>
         /\ ClosedMany(w, IdsOf(w.documents)).active = NoDocument
<1> DEFINE s == w.documents
<1>1. w \in Workspace /\ s \in Entries /\ DOMAIN s = 1..Len(s) /\ Len(s) \in Nat
  BY WellFormedFields
<1>2. StaysOpen(w, IdsOf(s)) = {}
  BY DEF StaysOpen, IdsOf
<1>3. Picked(s, {}) = <<>>
  BY <1>1, PickedDistinct
<1>4. NextActive(w, IdsOf(s)) = NoDocument
  <2>1. CASE s = <<>>
    <3>1. w.active = NoDocument /\ IdsOf(s) = {}
      BY <2>1, NoIds DEF WellFormed, ActiveOpen
    <3> QED
      BY <3>1 DEF NextActive
  <2>2. CASE s # <<>>
    <3>1. w.active \in IdsOf(s)
      BY <2>2 DEF WellFormed, ActiveOpen
    <3> QED
      BY <1>2, <3>1 DEF NextActive
  <2> QED
    BY <2>1, <2>2
<1>5. ClosedMany(w, IdsOf(s)) = [w EXCEPT !.documents = <<>>, !.active = NoDocument,
                                          !.revision = @ + 1]
  BY <1>2, <1>3, <1>4 DEF ClosedMany
<1> QED
  BY <1>1, <1>5 DEF Workspace

(* A commit of a current plan closes every document the plan was built from.*)
LEMMA CommitEffect ==
  ASSUME CloseInv, phase # "idle", plan.status = "ready", Commit, Current
  PROVE  /\ workspace.documents = inspected.documents
         /\ workspace.active = inspected.active
         /\ workspace'.documents = <<>> /\ workspace'.active = NoDocument
         /\ Advances /\ UnsavedIsDirty' /\ unsaved' \subseteq unsaved
         /\ EndWith("success")
<1> DEFINE s == workspace.documents
<1>1. /\ WellFormed(workspace) /\ s \in Seq(WorkspaceDocument) /\ s \in Entries
      /\ workspace \in Workspace /\ workspace.revision \in Nat
      /\ DistinctEntries(s) /\ DOMAIN s = 1..Len(s)
  BY WellFormedFields DEF CloseInv, WellFormed
<1>2. /\ EndWith("success")
      /\ workspace' = IF plan.close = <<>> THEN workspace
                      ELSE ClosedMany(workspace, Range(plan.close))
      /\ unsaved' = unsaved \cap IdsOf(workspace'.documents)
  BY DEF Commit
<1>3. s = inspected.documents /\ workspace.active = inspected.active
  BY DEF Current, CloseInv, PlanCoversInspected, RevisionNamesInspected
<1>4. /\ plan.close = <<>> <=> s = <<>>
      /\ Range(plan.close) = IdsOf(s)
  <2>1. plan.close = IdSequence(s)
    BY <1>3 DEF CloseInv, PlanCoversInspected
  <2> QED
    BY <1>1, <2>1, IdSequenceProperties
<1>5. /\ workspace'.documents = <<>> /\ workspace'.active = NoDocument /\ Advances
      /\ KeepsFlags(s, workspace'.documents)
  <2>1. CASE s = <<>>
    <3>1. UNCHANGED workspace /\ workspace.active = NoDocument
      BY <1>1, <1>2, <1>4, <2>1 DEF WellFormed, ActiveOpen
    <3>2. KeepsFlags(s, <<>>)
      BY DEF KeepsFlags
    <3> QED
      BY <1>1, <2>1, <3>1, <3>2, StutterAdvances
  <2>2. CASE s # <<>>
    <3>1. workspace' = ClosedMany(workspace, IdsOf(s))
      BY <1>2, <1>4, <2>2
    <3>2. IdsOf(s) # {}
      <4>1. 1 \in DOMAIN s
        BY <1>1, <2>2
      <4> QED
        BY <4>1 DEF IdsOf
    <3>3. CanCloseMany(workspace, IdsOf(s))
      BY <3>2 DEF CanCloseMany
    <3>4. WellFormed(workspace') /\ workspace'.revision = workspace.revision + 1
      BY <1>1, <3>1, <3>3, ClosedManyWellFormed
    <3>5. workspace'.documents = <<>> /\ workspace'.active = NoDocument
      BY <1>1, <3>1, ClosingAll
    <3>6. KeepsFlags(s, <<>>)
      BY DEF KeepsFlags
    <3> QED
      BY <1>1, <3>4, <3>5, <3>6 DEF Advances
  <2> QED
    BY <2>1, <2>2
<1>6. UnsavedIsDirty' /\ unsaved' \subseteq unsaved
  BY <1>1, <1>2, <1>5, DirtyStaysDirty DEF CloseInv, UnsavedIsDirty
<1> QED
  BY <1>2, <1>3, <1>5, <1>6

(* Commit keeps the invariant.                                              *)
LEMMA CommitKeepsInvariant ==
  ASSUME CloseInv, phase # "idle", plan.status = "ready", Commit
  PROVE  CloseInv'
<1>1. CASE Current
  BY <1>1, CommitEffect, EndKeepsInvariant DEF Outcome
<1>2. CASE ~Current
  <2>1. EndWith("stale_workspace") /\ UNCHANGED <<workspace, unsaved>>
    BY <1>2 DEF Commit
  <2> QED
    BY <2>1, FailureKeepsInvariant DEF Outcome
<1> QED
  BY <1>1, <1>2

-----------------------------------------------------------------------------
(* The saves before it.                                                     *)

(* Taking the head off a sequence.                                          *)
LEMMA HeadAndTail ==
  ASSUME NEW S, NEW s \in Seq(S), s # <<>>
  PROVE  /\ Head(s) \in S /\ Tail(s) \in Seq(S)
         /\ Range(s) = {Head(s)} \cup Range(Tail(s))
<1>1. /\ DOMAIN s = 1..Len(s) /\ Len(s) \in Nat /\ Len(s) >= 1
      /\ Head(s) = s[1] /\ Head(s) \in S
      /\ Tail(s) \in Seq(S) /\ Len(Tail(s)) = Len(s) - 1
      /\ DOMAIN Tail(s) = 1..Len(s) - 1
      /\ \A i \in 1..Len(s) - 1 : Tail(s)[i] = s[i + 1]
  OBVIOUS
<1>2. ASSUME NEW x \in Range(s) PROVE x \in {Head(s)} \cup Range(Tail(s))
  <2>1. PICK i \in 1..Len(s) : s[i] = x
    BY <1>1, <1>2 DEF Range
  <2>2. i = 1 \/ (i - 1 \in 1..Len(s) - 1 /\ (i - 1) + 1 = i)
    BY <1>1
  <2> QED
    BY <1>1, <2>1, <2>2 DEF Range
<1>3. \A i \in 1..Len(s) - 1 : i + 1 \in 1..Len(s)
  BY <1>1
<1>4. Range(Tail(s)) \subseteq Range(s)
  BY <1>1, <1>3 DEF Range
<1>5. Head(s) \in Range(s)
  BY <1>1 DEF Range
<1> QED
  BY <1>1, <1>2, <1>4, <1>5

(* A step of the close that leaves plan and workspace alone.                *)
LEMMA QuietStepKeepsInvariant ==
  ASSUME CloseInv, phase # "idle", UNCHANGED <<workspace, plan, inspected, outcome, unnoticed>>,
         phase' \in Phase \ {"idle"}, remaining' \in Seq(DocumentId),
         saved' \in SUBSET DocumentId, unsaved' \subseteq unsaved,
         SavedStaysSaved', LoopMakesProgress'
  PROVE  CloseInv'
<1>1. CloseTypeOK' /\ WellFormed(workspace')
  BY DEF CloseInv, CloseTypeOK, TypeOK
<1>2. PlanCoversInspected' /\ RevisionNamesInspected' /\ UnsavedIsDirty'
  BY DEF CloseInv, PlanCoversInspected, RevisionNamesInspected, UnsavedIsDirty
<1> QED
  BY <1>1, <1>2 DEF CloseInv

(* StartExecute.                                                            *)
LEMMA StartExecuteKeepsInvariant == CloseInv /\ StartExecute => CloseInv'
<1> SUFFICES ASSUME CloseInv, StartExecute PROVE CloseInv'
  OBVIOUS
<1>1. phase = "planned" /\ plan.status = "ready" /\ saved = {}
  BY DEF StartExecute, Ready
<1>2. CASE ~Current /\ EndWith("stale_workspace") /\ UNCHANGED <<workspace, unsaved>>
  BY <1>1, <1>2, FailureKeepsInvariant DEF Outcome
<1>3. CASE Commit
  BY <1>1, <1>3, CommitKeepsInvariant
<1>4. CASE /\ plan.save # <<>> /\ phase' = "calling" /\ remaining' = plan.save
           /\ UNCHANGED <<plan, saved, outcome, inspected, workspace, unsaved, unnoticed>>
  <2>1. plan.save \in Seq(DocumentId)
    BY <1>1 DEF CloseInv, PlanCoversInspected, Plan
  <2>2. LoopMakesProgress'
    BY <1>1, <1>4 DEF LoopMakesProgress
  <2>3. SavedStaysSaved' /\ saved' \in SUBSET DocumentId
    BY <1>1, <1>4 DEF CloseInv, CloseTypeOK, SavedStaysSaved
  <2> QED
    BY <1>1, <1>4, <2>1, <2>2, <2>3, QuietStepKeepsInvariant DEF Phase
<1> QED
  BY <1>2, <1>3, <1>4 DEF StartExecute

(* The save handler writes; it may clear the dirty flag.                    *)
LEMMA HandlerWritesKeepsInvariant == CloseInv /\ HandlerWrites => CloseInv'
<1> SUFFICES ASSUME CloseInv, HandlerWrites PROVE CloseInv'
  OBVIOUS
<1> DEFINE id == Head(remaining)
<1>1. /\ phase = "calling" /\ phase' = "written"
      /\ unsaved' = unsaved \ {id} /\ saved' = saved \cup {id}
      /\ workspace' \in {workspace} \cup
           IF CanClose(workspace, id) THEN {DirtySet(workspace, id, FALSE)} ELSE {}
      /\ UNCHANGED <<plan, remaining, outcome, inspected, unnoticed>>
  BY DEF HandlerWrites
<1>2. /\ WellFormed(workspace) /\ remaining \in Seq(DocumentId) /\ remaining # <<>>
      /\ plan.status = "ready" /\ Range(plan.save) \subseteq saved \cup Range(remaining)
  BY <1>1 DEF CloseInv, CloseTypeOK, LoopMakesProgress
<1>3. id \in DocumentId
  BY <1>2, HeadAndTail
<1> HIDE DEF id
<1>4. Advances /\ UnsavedIsDirty'
  <2>1. CASE workspace' = workspace
    <3>1. UnsavedIsDirty'
      BY <1>1, <2>1 DEF CloseInv, UnsavedIsDirty
    <3> QED
      BY <1>2, <2>1, <3>1, StutterAdvances
  <2>2. CASE id \in IdsOf(workspace.documents) /\ workspace' = DirtySet(workspace, id, FALSE)
    <3>1. DirtyOf(workspace.documents) \ {id} \subseteq DirtyOf(workspace'.documents)
      BY <1>2, <2>2, DirtySetFlags
    <3>2. UnsavedIsDirty'
      BY <1>1, <3>1 DEF CloseInv, UnsavedIsDirty
    <3>3. Advances
      BY <1>2, <2>2, DirtySetAdvances
    <3> QED
      BY <3>2, <3>3
  <2> QED
    BY <1>1, <2>1, <2>2 DEF CanClose
<1>5. workspace' \in Workspace /\ WellFormed(workspace')
  BY <1>4, WellFormedFields DEF Advances
<1>6. CloseTypeOK'
  BY <1>1, <1>3, <1>5 DEF CloseInv, CloseTypeOK, TypeOK, Phase
<1>7. RevisionNamesInspected'
  BY <1>1, <1>4, AdvancingKeepsRevisionNames
<1>8. PlanCoversInspected'
  BY <1>1 DEF CloseInv, PlanCoversInspected
<1>9. LoopMakesProgress'
  BY <1>1, <1>2 DEF LoopMakesProgress, id
<1>10. SavedStaysSaved'
  <2> SUFFICES ASSUME plan.revision = workspace'.revision
               PROVE  saved' \cap unsaved' \subseteq unnoticed
    BY <1>1 DEF SavedStaysSaved
  <2>1. /\ plan.revision = inspected.revision
        /\ inspected.revision <= workspace.revision
        /\ workspace'.revision >= workspace.revision
    BY <1>1, <1>4 DEF CloseInv, PlanCoversInspected, RevisionNamesInspected, Advances
  <2>2. inspected.revision \in Nat /\ workspace.revision \in Nat /\ workspace'.revision \in Nat
    BY <1>5 DEF CloseInv, CloseTypeOK, TypeOK, Workspace
  <2>3. plan.revision = workspace.revision
    BY <2>1, <2>2
  <2>4. saved \cap unsaved \subseteq unnoticed
    BY <1>1, <2>3 DEF CloseInv, SavedStaysSaved
  <2> QED
    BY <1>1, <2>4
<1> QED
  BY <1>4, <1>5, <1>6, <1>7, <1>8, <1>9, <1>10 DEF CloseInv

(* When the handler has returned for the last document, all are saved.      *)
LEMMA LoopEnds ==
  ASSUME CloseInv, phase = "written"
  PROVE  /\ remaining \in Seq(DocumentId) /\ Tail(remaining) \in Seq(DocumentId)
         /\ Range(plan.save) \subseteq saved \cup Range(Tail(remaining))
         /\ Tail(remaining) = <<>> => Range(plan.save) \subseteq saved
<1>1. /\ remaining \in Seq(DocumentId) /\ remaining # <<>> /\ Head(remaining) \in saved
      /\ Range(plan.save) \subseteq saved \cup Range(remaining)
  BY DEF CloseInv, CloseTypeOK, LoopMakesProgress
<1>2. /\ Tail(remaining) \in Seq(DocumentId)
      /\ Range(remaining) = {Head(remaining)} \cup Range(Tail(remaining))
  BY <1>1, HeadAndTail
<1>3. Tail(remaining) = <<>> => Range(Tail(remaining)) = {}
  BY DEF Range
<1> QED
  BY <1>1, <1>2, <1>3

(* It returns.                                                              *)
LEMMA HandlerReturnsKeepsInvariant == CloseInv /\ HandlerReturns => CloseInv'
<1> SUFFICES ASSUME CloseInv, HandlerReturns PROVE CloseInv'
  OBVIOUS
<1>1. phase = "written" /\ plan.status = "ready"
  BY DEF HandlerReturns, CloseInv, LoopMakesProgress
<1>2. CASE EndWith("stale_workspace") /\ UNCHANGED <<workspace, unsaved>>
  BY <1>1, <1>2, FailureKeepsInvariant DEF Outcome
<1>3. CASE Commit
  BY <1>1, <1>3, CommitKeepsInvariant
<1>4. CASE /\ Tail(remaining) # <<>>
           /\ phase' = "calling" /\ remaining' = Tail(remaining)
           /\ UNCHANGED <<plan, saved, outcome, inspected, workspace, unsaved, unnoticed>>
  <2>1. LoopMakesProgress' /\ remaining' \in Seq(DocumentId)
    BY <1>1, <1>4, LoopEnds DEF LoopMakesProgress
  <2>2. SavedStaysSaved' /\ saved' \in SUBSET DocumentId
    BY <1>1, <1>4 DEF CloseInv, CloseTypeOK, SavedStaysSaved
  <2> QED
    BY <1>1, <1>4, <2>1, <2>2, QuietStepKeepsInvariant DEF Phase
<1> QED
  BY <1>2, <1>3, <1>4 DEF HandlerReturns

(* One of the asynchronous saves.                                           *)
LEMMA AsynchronousSaveKeepsInvariant == CloseInv /\ AsynchronousSave => CloseInv'
<1> SUFFICES ASSUME CloseInv, AsynchronousSave PROVE CloseInv'
  OBVIOUS
<1>1. PICK id \in Range(plan.save) \ saved :
        saved' = saved \cup {id} /\ unsaved' = unsaved \ {id}
  BY DEF AsynchronousSave
<1>2. /\ phase = "planned" /\ plan.status = "ready"
      /\ UNCHANGED <<workspace, plan, phase, remaining, outcome, inspected, unnoticed>>
  BY DEF AsynchronousSave, Ready
<1>3. id \in DocumentId
  <2>1. plan.save \in Seq(DocumentId)
    BY <1>2 DEF CloseInv, PlanCoversInspected, Plan
  <2> QED
    BY <2>1 DEF Range
<1>4. saved' \in SUBSET DocumentId /\ remaining' \in Seq(DocumentId) /\ phase' \in Phase \ {"idle"}
  BY <1>1, <1>2, <1>3 DEF CloseInv, CloseTypeOK, Phase
<1>5. SavedStaysSaved' /\ LoopMakesProgress'
  BY <1>1, <1>2 DEF CloseInv, SavedStaysSaved, LoopMakesProgress
<1> QED
  BY <1>1, <1>2, <1>4, <1>5, QuietStepKeepsInvariant

-----------------------------------------------------------------------------
(* The theorems.                                                            *)

(* Every step keeps the invariant.                                          *)
LEMMA CloseStep == CloseInv /\ [CloseNext]_allVars => CloseInv'
<1> SUFFICES ASSUME CloseInv, [CloseNext]_allVars PROVE CloseInv'
  OBVIOUS
<1>1. CASE HandlerFails
  BY <1>1, FailureKeepsInvariant DEF HandlerFails, Outcome
<1>2. CASE CommitAfterSaves
  BY <1>2, CommitKeepsInvariant DEF CommitAfterSaves, Ready
<1>3. CASE Surroundings
  BY <1>3, EditKeepsInvariant, SaveOneKeepsInvariant, ModelOperationKeepsInvariant
  DEF Surroundings
<1>4. CASE UNCHANGED allVars
  BY <1>4 DEF allVars, closeVars, CloseInv, CloseTypeOK, TypeOK, PlanCoversInspected,
              RevisionNamesInspected, LoopMakesProgress, UnsavedIsDirty, SavedStaysSaved
<1> QED
  BY <1>1, <1>2, <1>3, <1>4, BuildPlanKeepsInvariant, StartExecuteKeepsInvariant,
     HandlerWritesKeepsInvariant, HandlerReturnsKeepsInvariant,
     AsynchronousSaveKeepsInvariant DEF CloseNext

LEMMA CloseInvariance == CloseSpec => []CloseInv
BY CloseInitially, CloseStep, PTL DEF CloseSpec

(* Plan, workspace and the rest keep their types.                           *)
LEMMA CloseTypeCorrect == CloseSpec => []CloseTypeOK
<1>1. CloseInv => CloseTypeOK
  BY DEF CloseInv
<1> QED
  BY <1>1, CloseInvariance, PTL

(* What a step that succeeds has found and leaves behind.                   *)
LEMMA SuccessIsCommit ==
  ASSUME CloseInv, [CloseNext]_allVars, Succeeds
  PROVE  /\ Commit /\ Current /\ phase # "idle" /\ plan.status = "ready"
         /\ Range(plan.save) \subseteq saved
<1>1. ~UNCHANGED outcome
  BY DEF Succeeds
<1>2. \A status \in Outcome \ {"success"} : ~EndWith(status)
  BY DEF EndWith, Succeeds
<1>3. ~BuildPlan /\ ~HandlerWrites /\ ~HandlerFails /\ ~AsynchronousSave
  BY <1>1, <1>2 DEF BuildPlan, Succeeds, HandlerWrites, HandlerFails, AsynchronousSave, Outcome
<1>4. ~Surroundings /\ ~UNCHANGED allVars
  BY <1>1 DEF Surroundings, Edit, SaveOne, ModelOperation, closeVars, allVars
<1>5. ~EndWith("stale_workspace")
  BY <1>2 DEF Outcome
<1>6. Commit => Current
  BY <1>5 DEF Commit
<1>7. CASE StartExecute
  <2>1. Commit /\ plan.save = <<>> /\ phase = "planned" /\ plan.status = "ready"
    BY <1>1, <1>5, <1>7 DEF StartExecute, Ready
  <2>2. Range(<<>>) = {}
    BY DEF Range
  <2> QED
    BY <1>6, <2>1, <2>2
<1>8. CASE HandlerReturns
  <2>1. Commit /\ Tail(remaining) = <<>> /\ phase = "written"
    BY <1>1, <1>5, <1>8 DEF HandlerReturns
  <2>2. plan.status = "ready"
    BY <2>1 DEF CloseInv, LoopMakesProgress
  <2> QED
    BY <1>6, <2>1, <2>2, LoopEnds
<1>9. CASE CommitAfterSaves
  BY <1>6, <1>9 DEF CommitAfterSaves, Ready
<1> QED
  BY <1>3, <1>4, <1>7, <1>8, <1>9 DEF CloseNext

(* ExecuteCoordinatedClose and CommitCoordinatedCloseAfterSaves: a close    *)
(* commits only if the documents are those the user was asked about.        *)
THEOREM CommitSeesWhatWasInspected == CloseSpec => CommitSeesInspectedDocuments
<1>1. CloseInv /\ [CloseNext]_allVars =>
        [Succeeds => /\ workspace.documents = inspected.documents
                     /\ workspace.active = inspected.active]_allVars
  BY SuccessIsCommit, CommitEffect
<1> QED
  BY <1>1, CloseInvariance, CloseTypeCorrect, PTL DEF CloseSpec, CommitSeesInspectedDocuments

(* A close that succeeds has closed every document.                         *)
THEOREM CloseLeavesNothing == CloseSpec => CloseIsAllOrNothing
<1>1. CloseInv /\ [CloseNext]_allVars =>
        [Succeeds => /\ workspace'.documents = <<>>
                     /\ workspace'.active = NoDocument]_allVars
  BY SuccessIsCommit, CommitEffect
<1> QED
  BY <1>1, CloseInvariance, PTL DEF CloseSpec, CloseIsAllOrNothing

(* A close that succeeds loses no contents but those the user gave up and   *)
(* those that were edited, after they had been saved for it, without        *)
(* counting a revision.                                                     *)
THEOREM CloseLosesNoWork == CloseSpec => NoUnsavedWorkLost
<1>1. CloseInv /\ [CloseNext]_allVars =>
        [Succeeds => unsaved \cap IdsOf(workspace.documents)
                       \subseteq plan.discarded \cup unnoticed]_allVars
  <2> SUFFICES ASSUME CloseInv, [CloseNext]_allVars, Succeeds
               PROVE  unsaved \subseteq plan.discarded \cup unnoticed
    OBVIOUS
  <2>1. /\ Commit /\ Current /\ phase # "idle" /\ plan.status = "ready"
        /\ Range(plan.save) \subseteq saved
    BY SuccessIsCommit
  <2>2. workspace.documents = inspected.documents
    BY <2>1, CommitEffect
  <2>3. unsaved \subseteq Range(plan.save) \cup plan.discarded
    BY <2>1, <2>2 DEF CloseInv, UnsavedIsDirty, PlanCoversInspected
  <2>4. saved \cap unsaved \subseteq unnoticed
    BY <2>1 DEF CloseInv, SavedStaysSaved, Current
  <2> QED
    BY <2>1, <2>3, <2>4
<1> QED
  BY <1>1, CloseInvariance, PTL DEF CloseSpec, NoUnsavedWorkLost

-----------------------------------------------------------------------------
(* The document-workspace program: what its saves and closes do to one of   *)
(* its two workspaces.                                                      *)

(* What saving does to the workspace.                                       *)
LEMMA SavedInKeeps ==
  ASSUME NEW w, Separate(w), NEW id \in IdsOf(w.documents), NEW p \in Path
  PROVE  Keeps(w, SavedIn(w, id, p), {})
<1> DEFINE u == IF CanRename(w, id, p) THEN Renamed(w, id, p) ELSE w
<1>1. Keeps(w, u, {})
  <2>1. CASE CanRename(w, id, p)
    BY <2>1, RenamedKeeps
  <2>2. CASE ~CanRename(w, id, p)
    BY <2>2 DEF Keeps
  <2> QED BY <2>1, <2>2
<1>2. SavedIn(w, id, p) = DirtySet(u, id, FALSE)
  BY DEF SavedIn
<1> HIDE DEF u
<1>3. Separate(u) /\ id \in IdsOf(u.documents)
  BY <1>1 DEF Keeps
<1>4. Keeps(u, DirtySet(u, id, FALSE), {})
  BY <1>3, DirtySetKeeps
<1>5. Keeps(w, DirtySet(u, id, FALSE), {} \cup {})
  BY <1>1, <1>4, KeepsChain
<1> QED BY <1>2, <1>5

(* Closing a document that may be in the other window by now.               *)
LEMMA ForgetKeeps ==
  ASSUME NEW w, Separate(w), NEW id
  PROVE  Keeps(w, Forget(w, id), {id})
<1>1. CASE CanClose(w, id)
  BY <1>1, ClosedKeeps DEF Forget, CanClose
<1>2. CASE ~CanClose(w, id)
  BY <1>2 DEF Forget, Keeps
<1> QED BY <1>1, <1>2

(* Closing all documents of a window.                                       *)
LEMMA AllClosedKeeps ==
  ASSUME NEW w, Separate(w)
  PROVE  Keeps(w, AllClosed(w), IdsOf(w.documents))
<1>1. CASE w.documents = <<>>
  BY <1>1 DEF AllClosed, Keeps
<1>2. CASE w.documents # <<>>
  <2> DEFINE v == ClosedMany(w, IdsOf(w.documents))
  <2>1. w.documents \in Seq(WorkspaceDocument) /\ DOMAIN w.documents = 1..Len(w.documents)
        /\ Len(w.documents) \in Nat
    BY WellFormedFields DEF Separate
  <2>2. IdsOf(w.documents) # {}
    <3>1. Len(w.documents) # 0
      BY <1>2, <2>1
    <3>2. 1 \in DOMAIN w.documents
      BY <2>1, <3>1
    <3> QED BY <3>2 DEF IdsOf
  <2>3. WellFormed(v) /\ IdsOf(v.documents) = IdsOf(w.documents) \ IdsOf(w.documents)
    BY <2>2, ClosedManyWellFormed DEF Separate, CanCloseMany
  <2>4. v.recentlyClosed = w.recentlyClosed
    BY DEF ClosedMany, Separate, WellFormed, Workspace
  <2>5. AllClosed(w) = v
    BY <1>2 DEF AllClosed
  <2> HIDE DEF v
  <2> QED BY <2>3, <2>4, <2>5, SameHistoryKeeps
<1> QED BY <1>1, <1>2

-----------------------------------------------------------------------------
(* Two workspaces that have no identifier in common.                        *)
AllOf(ms) == AllIds(ms[1]) \cup AllIds(ms[2])

Agree(ms) ==
  /\ ms \in [Index -> Workspace]
  /\ \A i \in Index : Separate(ms[i])
  /\ AllIds(ms[1]) \cap AllIds(ms[2]) = {}

(* No documents are closed but these.                                       *)
OnlyGone(gone) ==
  \A j \in Index : IdsOf(models[j].documents) \ gone[j] \subseteq IdsOf(models'[j].documents)

Nothing == [j \in Index |-> {}]

From(i, ids) == [j \in Index |-> IF j = i THEN ids ELSE {}]

(* A window takes over the result of an operation.                          *)
LEMMA BecomeFields ==
  ASSUME NEW i \in Index, NEW v, WellFormed(v), Become(i, v), models \in [Index -> Workspace]
  PROVE  /\ models' \in [Index -> Workspace]
         /\ WellFormed(models'[i]) /\ models'[i].documents = v.documents
         /\ models'[i].recentlyClosed = v.recentlyClosed
         /\ models'[i].active = v.active
         /\ \A j \in Index : j # i => models'[j] = models[j]
<1> DEFINE u == [v EXCEPT !.revision = 0]
<1>1. /\ WellFormed(u) /\ u.documents = v.documents
      /\ u.recentlyClosed = v.recentlyClosed /\ u.active = v.active
  BY RevisionForgotten
<1>2. models' = [models EXCEPT ![i] = u]
  BY DEF Become
<1> HIDE DEF u
<1>3. u \in Workspace
  BY <1>1 DEF WellFormed
<1>4. models'[i] = u /\ \A j \in Index : j # i => models'[j] = models[j]
  BY <1>2
<1>5. models' \in [Index -> Workspace]
  BY <1>2, <1>3
<1> QED BY <1>1, <1>4, <1>5

(* An operation that opens nothing new, in one of two workspaces.           *)
LEMMA BecomeKeeps ==
  ASSUME Agree(models), NEW i \in Index, NEW v, NEW gone, Keeps(models[i], v, gone),
         Become(i, v)
  PROVE  /\ Agree(models') /\ AllOf(models') \subseteq AllOf(models)
         /\ OnlyGone(From(i, gone))
         /\ models'[i].documents = v.documents /\ models'[i].active = v.active
<1>1. WellFormed(v) /\ Separate(v) /\ models \in [Index -> Workspace]
  BY DEF Keeps, Separate, Agree
<1>2. /\ models' \in [Index -> Workspace]
      /\ WellFormed(models'[i]) /\ models'[i].documents = v.documents
      /\ models'[i].recentlyClosed = v.recentlyClosed /\ models'[i].active = v.active
      /\ \A j \in Index : j # i => models'[j] = models[j]
  BY <1>1, BecomeFields
<1>3. Separate(models'[i]) /\ AllIds(models'[i]) = AllIds(v)
  BY <1>1, <1>2, SameListsSeparate
<1>4. \A j \in Index : Separate(models'[j]) /\ AllIds(models'[j]) \subseteq AllIds(models[j])
  BY <1>2, <1>3 DEF Agree, Keeps
<1>5. AllIds(models'[1]) \cap AllIds(models'[2]) = {} /\ AllOf(models') \subseteq AllOf(models)
  BY <1>4 DEF Agree, AllOf, Index
<1>6. OnlyGone(From(i, gone))
  BY <1>2 DEF OnlyGone, From, Keeps
<1> QED BY <1>2, <1>4, <1>5, <1>6 DEF Agree

(* One that opens a document nobody has.                                    *)
LEMMA BecomeAdds ==
  ASSUME Agree(models), NEW i \in Index, NEW v, Separate(v), NEW id,
         AllIds(v) = AllIds(models[i]) \cup {id}, id \notin AllOf(models),
         IdsOf(models[i].documents) \subseteq IdsOf(v.documents), Become(i, v)
  PROVE  /\ Agree(models') /\ AllOf(models') = AllOf(models) \cup {id}
         /\ OnlyGone(Nothing)
<1>1. WellFormed(v) /\ models \in [Index -> Workspace]
  BY DEF Separate, Agree
<1>2. /\ models' \in [Index -> Workspace]
      /\ WellFormed(models'[i]) /\ models'[i].documents = v.documents
      /\ models'[i].recentlyClosed = v.recentlyClosed
      /\ \A j \in Index : j # i => models'[j] = models[j]
  BY <1>1, BecomeFields
<1>3. Separate(models'[i]) /\ AllIds(models'[i]) = AllIds(models[i]) \cup {id}
  BY <1>1, <1>2, SameListsSeparate
<1>4. \A j \in Index : Separate(models'[j])
  BY <1>2, <1>3 DEF Agree
<1>5. AllIds(models'[1]) \cap AllIds(models'[2]) = {} /\ AllOf(models') = AllOf(models) \cup {id}
  <2>1. \A j \in Index : j # i => AllIds(models'[j]) = AllIds(models[j])
    BY <1>2
  <2>2. CASE i = 1
    BY <1>3, <2>1, <2>2 DEF Agree, AllOf, Index
  <2>3. CASE i = 2
    BY <1>3, <2>1, <2>3 DEF Agree, AllOf, Index
  <2> QED BY <2>2, <2>3 DEF Index
<1>6. OnlyGone(Nothing)
  BY <1>2 DEF OnlyGone, Nothing
<1> QED BY <1>2, <1>4, <1>5, <1>6 DEF Agree

-----------------------------------------------------------------------------
(* The session.                                                             *)
SnapshotOK(s) ==
  /\ Metadata(s.documents) \in Entries /\ HistoryOK(Metadata(s.recentlyClosed))
  /\ IdsOf(s.documents) \cap IdsOf(s.recentlyClosed) = {}

SessionAgrees(s) ==
  /\ s \in [Index -> Snapshot]
  /\ \A i \in Index : SnapshotOK(s[i])
  /\ AllIds(s[1]) \cap AllIds(s[2]) = {}
  /\ \E b \in Nat : AllOf(s) \subseteq 1..b

TextsOK ==
  \A id \in DOMAIN contents :
    contents[id] \in [text : Nat, stamp : Nat] /\ contents[id].text \in {0, contents[id].stamp}

(* An entry of the session as a clean document.                             *)
LEMMA MetadataProperties ==
  ASSUME NEW s \in Seq(Item)
  PROVE  /\ Metadata(s) \in Seq(WorkspaceDocument) /\ Len(Metadata(s)) = Len(s)
         /\ DOMAIN Metadata(s) = 1..Len(s) /\ DOMAIN s = 1..Len(s)
         /\ \A k \in 1..Len(s) :
              Metadata(s)[k] = [id |-> s[k].id, path |-> s[k].path, dirty |-> FALSE]
         /\ IdsOf(Metadata(s)) = IdsOf(s)
<1>1. DOMAIN s = 1..Len(s) /\ Len(s) \in Nat /\ \A k \in 1..Len(s) : s[k] \in Item
  OBVIOUS
<1>2. Metadata(s) = [k \in 1..Len(s) |-> [id |-> s[k].id, path |-> s[k].path, dirty |-> FALSE]]
  BY <1>1 DEF Metadata
<1>3. \A k \in 1..Len(s) :
        [id |-> s[k].id, path |-> s[k].path, dirty |-> FALSE] \in WorkspaceDocument
  BY <1>1 DEF Item, WorkspaceDocument
<1>4. Metadata(s) \in Seq(WorkspaceDocument)
  BY <1>1, <1>2, <1>3
<1>5. IdsOf(Metadata(s)) = IdsOf(s)
  BY <1>1, <1>2 DEF IdsOf
<1> QED BY <1>1, <1>2, <1>4, <1>5

(* What the validator keeps of a list, and that it keeps what is still      *)
(* there.                                                                   *)
LEMMA StillThereProperties ==
  ASSUME NEW s \in Seq(Item), Metadata(s) \in Entries
  PROVE  /\ Metadata(StillThere(s)) \in Entries
         /\ IdsOf(Metadata(StillThere(s))) \subseteq IdsOf(s)
         /\ Len(Metadata(StillThere(s))) <= Len(s)
         /\ \A k \in 1..Len(s) : disk[s[k].path] = s[k].stamp =>
              \E j \in DOMAIN Metadata(StillThere(s)) :
                Metadata(StillThere(s))[j] = [id |-> s[k].id, path |-> s[k].path, dirty |-> FALSE]
<1> DEFINE K == {k \in DOMAIN s : disk[s[k].path] = s[k].stamp}
           t == Picked(s, K)
<1>1. /\ Metadata(s) \in Seq(WorkspaceDocument) /\ Len(Metadata(s)) = Len(s)
      /\ DOMAIN s = 1..Len(s) /\ Len(s) \in Nat
      /\ \A k \in 1..Len(s) :
              Metadata(s)[k] = [id |-> s[k].id, path |-> s[k].path, dirty |-> FALSE]
      /\ IdsOf(Metadata(s)) = IdsOf(s)
  BY MetadataProperties
<1>2. K \in SUBSET (1..Len(s))
  BY <1>1
<1>3. StillThere(s) = t
  BY DEF StillThere
<1>4. \A k \in 1..Len(s) : disk[s[k].path] = s[k].stamp => k \in K
  BY <1>1
<1> HIDE DEF K
<1>5. /\ t \in Seq(Item) /\ Len(t) = Cardinality(K) /\ Cardinality(K) \in Nat
      /\ \A i \in 1..Cardinality(K) : Origin(K)[i] \in K /\ t[i] = s[Origin(K)[i]]
      /\ \A i, j \in 1..Cardinality(K) : i # j => Origin(K)[i] # Origin(K)[j]
      /\ \A k \in K : \E i \in 1..Cardinality(K) : Origin(K)[i] = k
  BY <1>2, PickedProperties
<1> HIDE DEF t
<1>6. /\ Metadata(t) \in Seq(WorkspaceDocument) /\ Len(Metadata(t)) = Cardinality(K)
      /\ DOMAIN Metadata(t) = 1..Cardinality(K)
      /\ \A i \in 1..Cardinality(K) :
           Metadata(t)[i] = [id |-> t[i].id, path |-> t[i].path, dirty |-> FALSE]
  BY <1>5, MetadataProperties
<1>a. PICK o, m : o = Origin(K) /\ m = Metadata(s)
  OBVIOUS
<1>7. \A i \in 1..Cardinality(K) : o[i] \in 1..Len(s) /\ Metadata(t)[i] = m[o[i]]
  <2> TAKE i \in 1..Cardinality(K)
  <2>1. o[i] \in 1..Len(s) /\ t[i] = s[o[i]]
    BY <1>a, <1>2, <1>5
  <2>2. m[o[i]] = [id |-> s[o[i]].id, path |-> s[o[i]].path, dirty |-> FALSE]
    BY <1>a, <1>1, <2>1
  <2> QED BY <1>6, <2>1, <2>2
<1>8. Metadata(t) \in Entries /\ IdsOf(Metadata(t)) \subseteq IdsOf(s)
  <2>1. PICK r : r = Metadata(t)
    OBVIOUS
  <2>2. /\ r \in Seq(WorkspaceDocument) /\ m \in Entries
        /\ \A i \in 1..Len(r) : o[i] \in 1..Len(m) /\ r[i] = m[o[i]]
        /\ \A i, j \in 1..Len(r) : i # j => o[i] # o[j]
    BY <1>a, <1>1, <1>5, <1>6, <1>7, <2>1
  <2>3. r \in Entries /\ IdsOf(r) = {m[o[i]].id : i \in 1..Len(r)}
    <3>1. PICK f : f = o
      OBVIOUS
    <3>2. \A i \in 1..Len(r) : f[i] \in 1..Len(m) /\ r[i] = m[f[i]]
      BY <2>2, <3>1
    <3>3. \A i, j \in 1..Len(r) : i # j => f[i] # f[j]
      BY <2>2, <3>1
    <3>4. r \in Seq(WorkspaceDocument) /\ m \in Entries
      BY <2>2
    <3>5. r \in Entries /\ IdsOf(r) = {m[f[i]].id : i \in 1..Len(r)}
      BY <3>2, <3>3, <3>4, SelectionDistinct
    <3> QED BY <3>1, <3>5
  <2>4. \A k \in 1..Len(m) : m[k].id \in IdsOf(s)
    <3>0. m \in Seq(WorkspaceDocument) /\ IdsOf(m) = IdsOf(s)
      BY <1>a, <1>1
    <3>1. IdsOf(m) = IdsOf(s) /\ DOMAIN m = 1..Len(m)
      BY <3>0
    <3>2. \A k \in 1..Len(m) : m[k].id \in IdsOf(m)
      BY <3>1 DEF IdsOf
    <3> QED BY <3>1, <3>2
  <2>5. IdsOf(r) \subseteq IdsOf(s)
    <3>1. \A i \in 1..Len(r) : m[o[i]].id \in IdsOf(s)
      BY <2>2, <2>4
    <3> QED BY <2>3, <3>1
  <2> QED BY <2>1, <2>3, <2>5
<1>9. Cardinality(K) <= Len(s)
  <2>1. IsFiniteSet(1..Len(s)) /\ Cardinality(1..Len(s)) = Len(s)
    <3>1. 1 \in Int /\ Len(s) \in Int
      BY <1>1
    <3>2. /\ IsFiniteSet(1..Len(s))
          /\ Cardinality(1..Len(s)) = IF 1 > Len(s) THEN 0 ELSE Len(s) - 1 + 1
      BY <3>1, FS_Interval
    <3> QED BY <1>1, <3>2
  <2> QED BY <1>2, <2>1, FS_Subset
<1>10. ASSUME NEW k \in 1..Len(s), disk[s[k].path] = s[k].stamp
       PROVE  \E j \in DOMAIN Metadata(t) :
                Metadata(t)[j] = [id |-> s[k].id, path |-> s[k].path, dirty |-> FALSE]
  <2>1. PICK i \in 1..Cardinality(K) : Origin(K)[i] = k
    BY <1>4, <1>5, <1>10
  <2>2. Metadata(t)[i] = m[k]
    BY <1>a, <1>7, <2>1
  <2> QED BY <2>1, <2>2, <1>a, <1>1, <1>6
<1> QED BY <1>3, <1>6, <1>8, <1>9, <1>10

(* A workspace restored from the session is one the model accepts.          *)
LEMMA RestoredSeparate ==
  ASSUME NEW s \in Snapshot, SnapshotOK(s)
  PROVE  Separate(RestoreWorkspaceSession(s)) /\ AllIds(RestoreWorkspaceSession(s)) \subseteq AllIds(s)
<1> DEFINE open == Metadata(StillThere(s.documents))
           recent == Metadata(StillThere(s.recentlyClosed))
           v == RestoreWorkspaceSession(s)
<1>1. s.documents \in Seq(Item) /\ s.recentlyClosed \in Seq(Item)
      /\ s.active \in DocumentId \cup {NoDocument}
  BY DEF Snapshot
<1>2. /\ Metadata(s.documents) \in Entries /\ Metadata(s.recentlyClosed) \in Entries
      /\ Len(s.recentlyClosed) <= MaximumRecentlyClosed /\ Len(s.recentlyClosed) \in Nat
  <2>1. Len(Metadata(s.recentlyClosed)) = Len(s.recentlyClosed)
    BY <1>1, MetadataProperties
  <2> QED BY <1>1, <2>1 DEF SnapshotOK, HistoryOK, Entries
<1>3. open \in Entries /\ IdsOf(open) \subseteq IdsOf(s.documents)
  BY <1>1, <1>2, StillThereProperties
<1>4. /\ recent \in Entries /\ IdsOf(recent) \subseteq IdsOf(s.recentlyClosed)
      /\ Len(recent) <= Len(s.recentlyClosed)
  BY <1>1, <1>2, StillThereProperties
<1>5. v = IF ~ProbeSucceeds(s) THEN EmptyWorkspace
          ELSE [documents |-> open, recentlyClosed |-> recent, revision |-> 0,
                active |-> IF s.active \in IdsOf(open) THEN s.active
                           ELSE IF open = <<>> THEN NoDocument ELSE open[1].id]
  BY DEF RestoreWorkspaceSession
<1> HIDE DEF open, recent, v
<1>6. HistoryOK(recent)
  <2>1. Len(recent) \in Nat /\ recent \in Seq(WorkspaceDocument) /\ DistinctEntries(recent)
    BY <1>4 DEF Entries
  <2>2. Len(recent) <= MaximumRecentlyClosed
    BY <1>2, <1>4, <2>1, WorkspaceAssumption
  <2> QED BY <2>1, <2>2 DEF HistoryOK
<1>7. CASE ~ProbeSucceeds(s)
  <2>1. v = EmptyWorkspace
    BY <1>5, <1>7
  <2>2. IdsOf(v.documents) = {} /\ IdsOf(v.recentlyClosed) = {}
    BY <2>1, NoIds DEF EmptyWorkspace
  <2>3. WellFormed(v)
    BY <2>1, EmptyWellFormed
  <2> QED BY <2>2, <2>3 DEF Separate, AllIds, v
<1>8. CASE ProbeSucceeds(s)
  <2>1. open \in Seq(WorkspaceDocument) /\ DistinctEntries(open) /\ DOMAIN open = 1..Len(open)
        /\ Len(open) \in Nat
    BY <1>3 DEF Entries
  <2>2. open # <<>> => open[1].id \in IdsOf(open)
    <3>1. open # <<>> => 1 \in DOMAIN open
      BY <2>1
    <3> QED BY <3>1 DEF IdsOf
  <2>3. IdsOf(open) \subseteq DocumentId
    BY <2>1, IdsAreDocumentIds
  <2>4. PICK a : a = IF s.active \in IdsOf(open) THEN s.active
                     ELSE IF open = <<>> THEN NoDocument ELSE open[1].id
    OBVIOUS
  <2>5. a \in DocumentId \cup {NoDocument}
    BY <2>2, <2>3, <2>4
  <2>6. IF open = <<>> THEN a = NoDocument ELSE a \in IdsOf(open)
    <3>1. open = <<>> => IdsOf(open) = {}
      BY NoIds
    <3> QED BY <2>2, <2>4, <3>1
  <2>7. v = [documents |-> open, recentlyClosed |-> recent, revision |-> 0, active |-> a]
    BY <1>5, <1>8, <2>4
  <2>8. WellFormed(v)
    BY <1>6, <2>1, <2>5, <2>6, <2>7 DEF WellFormed, Workspace, ActiveOpen, HistoryOK
  <2>9. v.documents = open /\ v.recentlyClosed = recent
    BY <2>7
  <2> QED BY <1>3, <1>4, <2>8, <2>9 DEF Separate, AllIds, SnapshotOK, v
<1> QED BY <1>7, <1>8

(* What the session says of a list: of its documents in a file, as they are.*)
ItemOf(d) == [id |-> d.id, path |-> d.path, stamp |-> contents[d.id].stamp]

(* What is written of a list keeps its identifiers and files apart.         *)
LEMMA DecoratedProperties ==
  ASSUME TextsOK, NEW s \in Entries
  PROVE  /\ Decorated(s) \in Seq(Item) /\ Len(Decorated(s)) <= Len(s)
         /\ Len(Decorated(s)) \in Nat
         /\ Metadata(Decorated(s)) \in Entries /\ IdsOf(Decorated(s)) \subseteq IdsOf(s)
         /\ \A k \in 1..Len(s) : Storable(s[k]) =>
              \E j \in 1..Len(Decorated(s)) : Decorated(s)[j] = ItemOf(s[k])
<1> DEFINE K == {k \in DOMAIN s : Storable(s[k])}
           t == Picked(s, K)
           n == Cardinality(K)
           r == Decorated(s)
<1>1. /\ s \in Seq(WorkspaceDocument) /\ DOMAIN s = 1..Len(s) /\ Len(s) \in Nat
      /\ \A k \in 1..Len(s) : s[k] \in WorkspaceDocument
  BY DEF Entries
<1>2. K \in SUBSET (1..Len(s)) /\ \A k \in K : Storable(s[k])
  BY <1>1
<1>3. \A k \in 1..Len(s) : Storable(s[k]) => k \in K
  BY <1>1
<1> HIDE DEF K
<1>4. /\ t \in Seq(WorkspaceDocument) /\ Len(t) = n /\ n \in Nat /\ DOMAIN t = 1..n
      /\ \A i \in 1..n : Origin(K)[i] \in K /\ t[i] = s[Origin(K)[i]]
      /\ \A k \in K : \E i \in 1..n : Origin(K)[i] = k
  BY <1>1, <1>2, PickedProperties
<1>5. t \in Entries /\ IdsOf(t) = {s[k].id : k \in K}
  BY <1>2, PickedDistinct
<1>6. n <= Len(s)
  BY <1>1, <1>2, PositionsCount
<1>7. r = [k \in 1..n |-> ItemOf(t[k])]
  <2>1. r = [k \in DOMAIN t |-> ItemOf(t[k])]
    BY DEF Decorated, ItemOf, K
  <2> HIDE DEF r, t, n
  <2> QED BY <1>4, <2>1
<1> HIDE DEF t, n, r
<1>8. \A k \in 1..n : /\ ItemOf(t[k]) \in Item
                      /\ ItemOf(t[k]).id = t[k].id /\ ItemOf(t[k]).path = t[k].path
  <2> TAKE k \in 1..n
  <2>1. PICK d : d = t[k]
    OBVIOUS
  <2>2. d \in WorkspaceDocument /\ Storable(d)
    BY <1>1, <1>2, <1>4, <2>1
  <2>3. d.id \in DocumentId /\ d.path \in Path /\ contents[d.id].stamp \in Nat
    BY <2>2 DEF WorkspaceDocument, Storable, TextsOK
  <2>4. ItemOf(d) \in Item /\ ItemOf(d).id = d.id /\ ItemOf(d).path = d.path
    BY <2>3 DEF ItemOf, Item
  <2> QED BY <2>1, <2>4
<1>9. /\ r \in Seq(Item) /\ Len(r) = n /\ DOMAIN r = 1..n
      /\ \A k \in 1..n : r[k] = ItemOf(t[k])
  <2>1. \A k \in 1..n : ItemOf(t[k]) \in Item
    BY <1>8
  <2>2. r \in [1..n -> Item]
    BY <1>7, <2>1
  <2>3. r \in Seq(Item)
    BY <1>4, <2>2
  <2> QED BY <1>4, <1>7, <2>3
<1>10. \A k \in 1..n : r[k].id = t[k].id /\ r[k].path = t[k].path
  BY <1>8, <1>9
<1>11. /\ Metadata(r) \in Seq(WorkspaceDocument) /\ Len(Metadata(r)) = n
       /\ \A k \in 1..n :
            Metadata(r)[k] = [id |-> r[k].id, path |-> r[k].path, dirty |-> FALSE]
  BY <1>9, MetadataProperties
<1>12. Metadata(r) \in Entries
  <2>1. \A k \in 1..n : Metadata(r)[k].id = t[k].id /\ Metadata(r)[k].path = t[k].path
    <3> TAKE k \in 1..n
    <3>1. Metadata(r)[k] = [id |-> r[k].id, path |-> r[k].path, dirty |-> FALSE]
      BY <1>11
    <3>2. Metadata(r)[k].id = r[k].id /\ Metadata(r)[k].path = r[k].path
      BY <3>1
    <3> QED BY <1>10, <3>2
  <2>2. PICK m : m = Metadata(r)
    OBVIOUS
  <2>3. m \in Seq(WorkspaceDocument) /\ Len(m) = Len(t)
        /\ \A k \in 1..Len(t) : m[k].id = t[k].id /\ m[k].path = t[k].path
    BY <1>4, <1>11, <2>1, <2>2
  <2> QED BY <1>5, <2>2, <2>3, SameNamesDistinct
<1>13. IdsOf(r) \subseteq IdsOf(s)
  <2>1. IdsOf(r) = IdsOf(t)
    BY <1>4, <1>9, <1>10 DEF IdsOf
  <2> QED BY <1>1, <1>2, <1>5, <2>1 DEF IdsOf
<1>14. ASSUME NEW k \in 1..Len(s), Storable(s[k])
       PROVE  \E j \in 1..n : r[j] = ItemOf(s[k])
  BY <1>3, <1>4, <1>9, <1>14
<1> QED BY <1>4, <1>6, <1>9, <1>12, <1>13, <1>14 DEF r

(* What is written of a workspace can be restored.                          *)
LEMMA CaptureOK ==
  ASSUME Agree(models), TextsOK, NEW i \in Index
  PROVE  LET s == CaptureWorkspaceSession(i)
         IN  /\ s \in Snapshot /\ SnapshotOK(s) /\ AllIds(s) \subseteq AllIds(models[i])
             /\ s.documents = Decorated(models[i].documents)
<1> DEFINE open == Decorated(models[i].documents)
           recent == Decorated(models[i].recentlyClosed)
           s == CaptureWorkspaceSession(i)
<1>1. PICK w : w = models[i]
  OBVIOUS
<1>2. /\ Separate(w) /\ w.documents \in Entries /\ w.recentlyClosed \in Entries
      /\ HistoryOK(w.recentlyClosed) /\ w.active \in DocumentId \cup {NoDocument}
  <2>1. Separate(w) /\ WellFormed(w)
    BY <1>1 DEF Agree, Separate
  <2> QED BY <2>1, WellFormedFields
<1>3. /\ open \in Seq(Item) /\ Metadata(open) \in Entries /\ IdsOf(open) \subseteq IdsOf(w.documents)
  BY <1>1, <1>2, DecoratedProperties
<1>4. /\ recent \in Seq(Item) /\ Metadata(recent) \in Entries
      /\ IdsOf(recent) \subseteq IdsOf(w.recentlyClosed)
      /\ Len(recent) <= Len(w.recentlyClosed) /\ Len(recent) \in Nat
  BY <1>1, <1>2, DecoratedProperties
<1>5. s = [documents |-> open, recentlyClosed |-> recent,
           active |-> IF w.active \in IdsOf(open) THEN w.active ELSE NoDocument]
  BY <1>1 DEF CaptureWorkspaceSession
<1>6. s.documents = open /\ s.recentlyClosed = recent /\ s \in Snapshot
  <2> HIDE DEF open, recent, s
  <2> QED BY <1>2, <1>3, <1>4, <1>5 DEF Snapshot
<1>7. HistoryOK(Metadata(recent))
  <2>1. PICK m : m = Metadata(recent)
    OBVIOUS
  <2>2. m \in Seq(WorkspaceDocument) /\ DistinctEntries(m) /\ Len(m) = Len(recent)
    BY <1>4, <2>1, MetadataProperties DEF Entries
  <2>3. Len(w.recentlyClosed) <= MaximumRecentlyClosed /\ Len(w.recentlyClosed) \in Nat
    BY <1>2 DEF HistoryOK
  <2>4. Len(m) <= MaximumRecentlyClosed
    BY <1>4, <2>2, <2>3, WorkspaceAssumption
  <2> QED BY <2>1, <2>2, <2>4 DEF HistoryOK
<1> HIDE DEF open, recent, s
<1>8. SnapshotOK(s) /\ AllIds(s) \subseteq AllIds(w)
  BY <1>2, <1>3, <1>4, <1>6, <1>7 DEF SnapshotOK, AllIds, Separate
<1> QED BY <1>1, <1>6, <1>8 DEF s, open

(* The session of two workspaces without an identifier in common.           *)
LEMMA CapturedAgrees ==
  ASSUME Agree(models), TextsOK, NEW b \in Nat, AllOf(models) \subseteq 1..b,
         NEW s, s = [i \in Index |-> CaptureWorkspaceSession(i)]
  PROVE  SessionAgrees(s)
<1>1. \A i \in Index : /\ s[i] \in Snapshot /\ SnapshotOK(s[i])
                       /\ AllIds(s[i]) \subseteq AllIds(models[i])
  BY CaptureOK
<1>2. s \in [Index -> Snapshot]
  BY <1>1
<1>3. AllIds(s[1]) \cap AllIds(s[2]) = {} /\ AllOf(s) \subseteq 1..b
  BY <1>1 DEF Agree, AllOf, Index
<1> QED BY <1>1, <1>2, <1>3 DEF SessionAgrees

(* The identifiers of all documents the program lists.                      *)
LEMMA ListedIds ==
  ASSUME NEW ms
  PROVE  AllOf(ms) = {d.id : d \in ListedIn(ms)}
<1>1. \A s : IdsOf(s) = {d.id : d \in Range(s)}
  BY DEF IdsOf, Range
<1>2. ListedIn(ms) = Range(ms[1].documents) \cup Range(ms[1].recentlyClosed)
                       \cup Range(ms[2].documents) \cup Range(ms[2].recentlyClosed)
  BY DEF ListedIn, Index
<1>3. AllOf(ms) = {d.id : d \in Range(ms[1].documents)} \cup {d.id : d \in Range(ms[1].recentlyClosed)}
                  \cup {d.id : d \in Range(ms[2].documents)}
                  \cup {d.id : d \in Range(ms[2].recentlyClosed)}
  BY <1>1 DEF AllOf, AllIds
<1> QED BY <1>2, <1>3

(* A document is known by its identifier.                                   *)
LEMMA ListedOnce ==
  ASSUME NEW ms, Agree(ms), NEW d \in ListedIn(ms), NEW e \in ListedIn(ms), d.id = e.id
  PROVE  d = e
<1>1. ASSUME NEW s, DistinctEntries(s), NEW a \in Range(s), NEW b \in Range(s), a.id = b.id
      PROVE  a = b
  BY <1>1 DEF DistinctEntries, Range
<1>2. \A s : \A a \in Range(s) : a.id \in IdsOf(s)
  BY DEF IdsOf, Range
<1>3. PICK i \in Index : d \in Range(ms[i].documents) \cup Range(ms[i].recentlyClosed)
  BY DEF ListedIn
<1>4. PICK j \in Index : e \in Range(ms[j].documents) \cup Range(ms[j].recentlyClosed)
  BY DEF ListedIn
<1>5. d.id \in AllIds(ms[i]) /\ e.id \in AllIds(ms[j])
  BY <1>2, <1>3, <1>4 DEF AllIds
<1>6. i = j
  BY <1>5 DEF Agree, Index
<1>7. /\ DistinctEntries(ms[i].documents) /\ DistinctEntries(ms[i].recentlyClosed)
      /\ IdsOf(ms[i].documents) \cap IdsOf(ms[i].recentlyClosed) = {}
  BY DEF Agree, Separate, WellFormed, HistoryOK
<1>8. CASE d \in Range(ms[i].documents)
  <2>1. e \in Range(ms[i].documents)
    BY <1>2, <1>4, <1>6, <1>7, <1>8
  <2> QED BY <1>1, <1>7, <1>8, <2>1
<1>9. CASE d \in Range(ms[i].recentlyClosed)
  <2>1. e \in Range(ms[i].recentlyClosed)
    BY <1>2, <1>4, <1>6, <1>7, <1>9
  <2> QED BY <1>1, <1>7, <1>9, <2>1
<1> QED BY <1>3, <1>8, <1>9

(* The next identifier is none of those given back.                         *)
LEMMA NextIdProperties ==
  ASSUME NEW ms, NEW b \in Nat, AllOf(ms) \subseteq 1..b
  PROVE  NextIdAfter(ms) \in Nat \ {0} /\ AllOf(ms) \subseteq 1..NextIdAfter(ms) - 1
<1> DEFINE T == {d.id : d \in ListedIn(ms)}
           m == Max({0} \cup T)
<1>1. T = AllOf(ms)
  BY ListedIds
<1>2. NextIdAfter(ms) = 1 + m
  BY DEF NextIdAfter
<1> HIDE DEF T
<1>3. m \in Nat /\ T \subseteq 1..m
  BY <1>1, GreatestId
<1> HIDE DEF m
<1> QED BY <1>1, <1>2, <1>3

(* The session names files.                                                 *)
LEMMA RestoredPaths ==
  ASSUME NEW s \in Snapshot
  PROVE  LET v == RestoreWorkspaceSession(s)
         IN  \A d \in Range(v.documents) \cup Range(v.recentlyClosed) : d.path \in Path
<1> DEFINE v == RestoreWorkspaceSession(s)
           open == Metadata(StillThere(s.documents))
           recent == Metadata(StillThere(s.recentlyClosed))
<1>1. ASSUME NEW t \in Seq(Item)
      PROVE  \A d \in Range(Metadata(StillThere(t))) : d.path \in Path
  <2> DEFINE K == {k \in DOMAIN t : disk[t[k].path] = t[k].stamp}
  <2>1. K \in SUBSET (1..Len(t))
    OBVIOUS
  <2>2. StillThere(t) = Picked(t, K)
    BY DEF StillThere
  <2> HIDE DEF K
  <2>3. StillThere(t) \in Seq(Item)
    BY <2>1, <2>2, PickedProperties
  <2>4. PICK r : r = StillThere(t)
    OBVIOUS
  <2>5. r \in Seq(Item) /\ DOMAIN r = 1..Len(r) /\ \A k \in 1..Len(r) : r[k].path \in Path
    <3>1. r \in Seq(Item) /\ DOMAIN r = 1..Len(r) /\ \A k \in 1..Len(r) : r[k] \in Item
      BY <2>3, <2>4
    <3> QED BY <3>1 DEF Item
  <2>6. DOMAIN Metadata(r) = 1..Len(r) /\ \A k \in 1..Len(r) : Metadata(r)[k].path = r[k].path
    <3>1. /\ DOMAIN Metadata(r) = 1..Len(r)
          /\ \A k \in 1..Len(r) :
                Metadata(r)[k] = [id |-> r[k].id, path |-> r[k].path, dirty |-> FALSE]
      BY <2>5, MetadataProperties
    <3>2. \A k \in 1..Len(r) :
            [id |-> r[k].id, path |-> r[k].path, dirty |-> FALSE].path = r[k].path
      OBVIOUS
    <3> QED BY <3>1, <3>2
  <2> QED BY <2>4, <2>5, <2>6 DEF Range
<1>2. \A d \in Range(open) \cup Range(recent) : d.path \in Path
  BY <1>1 DEF Snapshot
<1>3. v = IF ~ProbeSucceeds(s) THEN EmptyWorkspace
          ELSE [documents |-> open, recentlyClosed |-> recent, revision |-> 0,
                active |-> IF s.active \in IdsOf(open) THEN s.active
                           ELSE IF open = <<>> THEN NoDocument ELSE open[1].id]
  BY DEF RestoreWorkspaceSession
<1> HIDE DEF open, recent, v
<1>4. CASE ProbeSucceeds(s)
  <2>1. v.documents = open /\ v.recentlyClosed = recent
    BY <1>3, <1>4
  <2> QED BY <1>2, <2>1 DEF v
<1>5. CASE ~ProbeSucceeds(s)
  <2>1. v.documents = <<>> /\ v.recentlyClosed = <<>>
    BY <1>3, <1>5 DEF EmptyWorkspace
  <2>2. Range(<<>>) = {}
    BY DEF Range
  <2> QED BY <2>1, <2>2 DEF v
<1> QED BY <1>4, <1>5

(* The probe accepts a workspace whose history names no open file.          *)
LEMMA ProbeOfCaptured ==
  ASSUME NEW s \in Snapshot, SnapshotOK(s), ~Clashes(s)
  PROVE  ProbeSucceeds(s)
<1> DEFINE open == Metadata(s.documents)
           recent == Metadata(s.recentlyClosed)
           v == [EmptyWorkspace EXCEPT !.documents = open]
<1>1. s.documents \in Seq(Item) /\ s.recentlyClosed \in Seq(Item)
  BY DEF Snapshot
<1>2. PICK a, b : a = s.documents /\ b = s.recentlyClosed
  OBVIOUS
<1>3. /\ DOMAIN open = 1..Len(a) /\ DOMAIN a = 1..Len(a) /\ IdsOf(open) = IdsOf(a)
      /\ \A k \in 1..Len(a) : open[k].path = a[k].path
  <2>1. /\ DOMAIN open = 1..Len(a) /\ DOMAIN a = 1..Len(a) /\ IdsOf(open) = IdsOf(a)
        /\ \A k \in 1..Len(a) :
             open[k] = [id |-> a[k].id, path |-> a[k].path, dirty |-> FALSE]
    BY <1>1, <1>2, MetadataProperties
  <2>2. \A k : [id |-> a[k].id, path |-> a[k].path, dirty |-> FALSE].path = a[k].path
    OBVIOUS
  <2> QED BY <2>1, <2>2
<1>4. /\ DOMAIN recent = 1..Len(b) /\ DOMAIN b = 1..Len(b) /\ IdsOf(recent) = IdsOf(b)
      /\ \A k \in 1..Len(b) : recent[k].path = b[k].path
  <2>1. /\ DOMAIN recent = 1..Len(b) /\ DOMAIN b = 1..Len(b) /\ IdsOf(recent) = IdsOf(b)
        /\ \A k \in 1..Len(b) :
             recent[k] = [id |-> b[k].id, path |-> b[k].path, dirty |-> FALSE]
    BY <1>1, <1>2, MetadataProperties
  <2>2. \A k : [id |-> b[k].id, path |-> b[k].path, dirty |-> FALSE].path = b[k].path
    OBVIOUS
  <2> QED BY <2>1, <2>2
<1>5. DistinctEntries(open) /\ DistinctEntries(recent) /\ IdsOf(a) \cap IdsOf(b) = {}
  BY <1>2 DEF SnapshotOK, Entries, HistoryOK
<1>6. \A k \in 1..Len(b) : ~ContainsPath(a, b[k].path)
  BY <1>2, <1>4 DEF Clashes
<1> HIDE DEF open, recent
<1>7. v.documents = open
  BY DEF EmptyWorkspace
<1> HIDE DEF v
<1>8. CanRestoreRecentlyClosed(v, recent)
  <2> SUFFICES ASSUME NEW i \in 1..Len(b)
               PROVE  /\ recent[i].id \notin IdsOf(open)
                      /\ ~ContainsPath(open, recent[i].path)
                      /\ \A j \in 1..Len(b) : j < i /\ j <= MaximumRecentlyClosed =>
                           recent[j].id # recent[i].id
                           /\ ~SamePath(recent[j].path, recent[i].path)
    BY <1>4, <1>7 DEF CanRestoreRecentlyClosed
  <2>1. recent[i].id \in IdsOf(recent)
    BY <1>4 DEF IdsOf
  <2>2. ~ContainsPath(open, recent[i].path)
    BY <1>3, <1>4, <1>6 DEF ContainsPath
  <2>3. \A j \in 1..Len(b) : j < i => j # i
    OBVIOUS
  <2> QED BY <1>3, <1>4, <1>5, <2>1, <2>2, <2>3 DEF DistinctEntries
<1> QED BY <1>5, <1>7, <1>8 DEF ProbeSucceeds, open, recent, v

(* A document whose file is as it was is open again.                        *)
LEMMA GivenBack ==
  ASSUME NEW s \in Snapshot, SnapshotOK(s), ~Clashes(s), NEW k \in DOMAIN s.documents,
         disk[s.documents[k].path] = s.documents[k].stamp
  PROVE  \E d \in Range(RestoreWorkspaceSession(s).documents) :
           d.path = s.documents[k].path /\ ~d.dirty
<1> DEFINE open == Metadata(StillThere(s.documents))
<1>1. PICK a : a = s.documents
  OBVIOUS
<1>2. a \in Seq(Item) /\ Metadata(a) \in Entries /\ k \in 1..Len(a)
      /\ disk[a[k].path] = a[k].stamp
  BY <1>1 DEF Snapshot, SnapshotOK
<1>3. PICK j \in DOMAIN Metadata(StillThere(a)) :
         Metadata(StillThere(a))[j] = [id |-> a[k].id, path |-> a[k].path, dirty |-> FALSE]
  BY <1>2, StillThereProperties
<1>4. RestoreWorkspaceSession(s).documents = Metadata(StillThere(a))
  BY <1>1, ProbeOfCaptured DEF RestoreWorkspaceSession
<1>5. PICK m : m = Metadata(StillThere(a))
  OBVIOUS
<1>6. m[j].path = a[k].path /\ ~m[j].dirty /\ m[j] \in Range(m)
  BY <1>3, <1>5 DEF Range
<1> QED BY <1>1, <1>4, <1>5, <1>6

-----------------------------------------------------------------------------
(* The inductive invariant of the program.                                  *)

QuestionType ==
  [kind : {"saveAs", "close", "closeAll", "shutdown", "anyway"}, window : Index,
   save : DocumentId \cup {NoDocument}, close : DocumentId \cup {NoDocument},
   about : SUBSET DocumentId]

(* The document a question is about is still in the window that asked.      *)
QuestionOK(q, ms) ==
  /\ q.kind = "saveAs" => /\ q.save \in IdsOf(ms[q.window].documents)
                          /\ q.close \in q.about \cup {NoDocument}
  /\ q.kind = "close" => /\ q.close \in IdsOf(ms[q.window].documents)
                         /\ q.about = {q.close}
  /\ q.kind = "closeAll" => q.window = 2
  /\ q.kind \in {"shutdown", "anyway"} => q.window = 1

(* Each window asks one question at a time.                                 *)
Orderly(questions, ms) ==
  /\ questions \in Seq(QuestionType)
  /\ \A k \in 1..Len(questions) : QuestionOK(questions[k], ms)
  /\ \A j, k \in 1..Len(questions) : questions[j].window = questions[k].window => j = k

ListsInv ==
  /\ Agree(models) /\ nextId \in Nat \ {0}
  /\ AllOf(models) \subseteq DOMAIN contents \cap 1..nextId - 1
  /\ TextsOK

SessionInv == session = NoSession \/ SessionAgrees(session)

(* What was open and saved is in the session as it was.                     *)
LeftInv ==
  \A e \in leftOpen :
    /\ session # NoSession /\ e.window \in Index
    /\ \E k \in DOMAIN session[e.window].documents :
         LET d == session[e.window].documents[k]
         IN  d.path = e.path /\ d.stamp = e.version

ProgramInv ==
  /\ ProgramTypeOK /\ ListsInv /\ Orderly(asking, models) /\ SessionInv /\ LeftInv
  /\ ~ProgramRuns => models = [i \in Index |-> EmptyWorkspace]

(* The questions below the innermost one.                                   *)
LEMMA FrontOrderly ==
  ASSUME NEW q, NEW ms, Orderly(q, ms), q # <<>>
  PROVE  /\ Orderly(Front(q), ms) /\ q[Len(q)] \in QuestionType
         /\ QuestionOK(q[Len(q)], ms)
         /\ \A k \in 1..Len(Front(q)) : Front(q)[k].window # q[Len(q)].window
<1> DEFINE r == Front(q)
           n == Len(q)
<1>1. q \in Seq(QuestionType) /\ n \in Nat \ {0} /\ n \in 1..n
  BY DEF Orderly
<1>2. r = SubSeq(q, 1, n - 1)
  BY DEF Front
<1>3. \A k \in 1..n - 1 : k \in 1..n /\ k # n /\ q[k] \in QuestionType
  BY <1>1
<1>4. /\ r \in Seq(QuestionType) /\ Len(r) = n - 1
      /\ \A k \in 1..n - 1 : r[k] = q[k]
  <2>1. /\ r \in Seq(QuestionType) /\ Len(r) = (IF 1 <= n - 1 THEN n - 1 - 1 + 1 ELSE 0)
        /\ \A k \in 1..n - 1 - 1 + 1 : r[k] = q[1 + k - 1]
    BY <1>1, <1>2, <1>3, SubSeqProperties, 1 \in Int, n - 1 \in Int
  <2> HIDE DEF r, n
  <2> QED BY <1>1, <2>1
<1> HIDE DEF r, n
<1>5. \A k \in 1..n - 1 : QuestionOK(r[k], ms) /\ r[k].window # q[n].window
  <2> TAKE k \in 1..n - 1
  <2>1. r[k] = q[k] /\ k \in 1..n /\ k # n
    BY <1>3, <1>4
  <2> QED BY <2>1, <1>1 DEF Orderly, n
<1>6. \A j, k \in 1..n - 1 : r[j].window = r[k].window => j = k
  BY <1>3, <1>4 DEF Orderly, n
<1>7. Orderly(r, ms)
  BY <1>4, <1>5, <1>6 DEF Orderly
<1>8. q[n] \in QuestionType /\ QuestionOK(q[n], ms)
  BY <1>1 DEF Orderly, n
<1> QED BY <1>4, <1>5, <1>7, <1>8 DEF r, n

(* A window that has asked nothing asks.                                    *)
LEMMA AppendOrderly ==
  ASSUME NEW q, NEW ms, Orderly(q, ms), NEW r \in QuestionType, QuestionOK(r, ms),
         \A k \in 1..Len(q) : q[k].window # r.window
  PROVE  Orderly(Append(q, r), ms)
<1> DEFINE t == Append(q, r)
           n == Len(q)
<1>1. /\ n \in Nat /\ t \in Seq(QuestionType) /\ Len(t) = n + 1 /\ t[n + 1] = r
      /\ \A k \in 1..n : t[k] = q[k]
  BY DEF Orderly
<1>2. \A k \in 1..n + 1 : k \in 1..n \/ k = n + 1
  BY <1>1
<1> HIDE DEF t
<1>3. \A k \in 1..n + 1 : QuestionOK(t[k], ms)
  <2>1. \A k \in 1..n : QuestionOK(q[k], ms)
    BY DEF Orderly
  <2> QED BY <1>1, <1>2, <2>1
<1>4. \A j, k \in 1..n + 1 : t[j].window = t[k].window => j = k
  <2>1. \A j, k \in 1..n : q[j].window = q[k].window => j = k
    BY DEF Orderly
  <2> HIDE DEF n
  <2>2. \A k \in 1..n : q[k].window # r.window
    BY DEF n
  <2> QED BY <1>1, <1>2, <2>1, <2>2
<1> QED BY <1>1, <1>3, <1>4 DEF Orderly, t

(* Questions stay about what they were about while the windows that asked   *)
(* keep their documents.                                                    *)
LEMMA OrderlyStays ==
  ASSUME NEW q, NEW ms, NEW nt, Orderly(q, ms),
         \A k \in 1..Len(q) :
           IdsOf(ms[q[k].window].documents) \subseteq IdsOf(nt[q[k].window].documents)
  PROVE  Orderly(q, nt)
<1>1. \A k \in 1..Len(q) : QuestionOK(q[k], nt)
  <2> TAKE k \in 1..Len(q)
  <2>1. PICK r : r = q[k]
    OBVIOUS
  <2>2. QuestionOK(r, ms) /\ IdsOf(ms[r.window].documents) \subseteq IdsOf(nt[r.window].documents)
    BY <2>1 DEF Orderly
  <2>3. QuestionOK(r, nt)
    BY <2>2 DEF QuestionOK
  <2> QED BY <2>1, <2>3
<1> QED BY <1>1 DEF Orderly

(* The questions of the other windows stay as they were.                    *)
LEMMA QuestionsElsewhere ==
  ASSUME NEW q, Orderly(q, models), NEW i \in Index, NEW gone, OnlyGone(From(i, gone)),
         \A k \in 1..Len(q) : q[k].window # i
  PROVE  Orderly(q, models')
<1>1. ASSUME NEW k \in 1..Len(q)
      PROVE  IdsOf(models[q[k].window].documents) \subseteq IdsOf(models'[q[k].window].documents)
  <2>1. PICK j : j = q[k].window
    OBVIOUS
  <2>2. j \in Index /\ j # i
    <3>1. q[k] \in QuestionType
      BY DEF Orderly
    <3> QED BY <2>1, <3>1 DEF QuestionType
  <2>3. From(i, gone)[j] = {}
    BY <2>2 DEF From
  <2>4. IdsOf(models[j].documents) \ {} \subseteq IdsOf(models'[j].documents)
    BY <2>2, <2>3 DEF OnlyGone
  <2> QED BY <2>1, <2>4
<1>2. PICK nt : nt = models'
  OBVIOUS
<1> QED BY <1>1, <1>2, OrderlyStays

(* So do all when no document is closed.                                    *)
LEMMA QuestionsAnywhere ==
  ASSUME NEW q, Orderly(q, models), OnlyGone(Nothing)
  PROVE  Orderly(q, models')
<1>1. ASSUME NEW k \in 1..Len(q)
      PROVE  IdsOf(models[q[k].window].documents) \subseteq IdsOf(models'[q[k].window].documents)
  <2>1. PICK j : j = q[k].window
    OBVIOUS
  <2>2. j \in Index
    <3>1. q[k] \in QuestionType
      BY DEF Orderly
    <3> QED BY <2>1, <3>1 DEF QuestionType
  <2>3. IdsOf(models[j].documents) \ {} \subseteq IdsOf(models'[j].documents)
    BY <2>2 DEF OnlyGone, Nothing
  <2> QED BY <2>1, <2>3
<1>2. PICK nt : nt = models'
  OBVIOUS
<1> QED BY <1>1, <1>2, OrderlyStays

(* A window that can be used has asked nothing.                             *)
LEMMA EnabledAsksNothing ==
  ASSUME NEW i, Enabled(i), Orderly(asking, models)
  PROVE  \A k \in 1..Len(asking) : asking[k].window # i
BY DEF Enabled, Orderly

(* Documents with unsaved changes that are in no window afterwards.         *)
Lost == Dirty(models) \ (IdsOf(models'[1].documents) \cup IdsOf(models'[2].documents))

(* A document with unsaved changes is an open one.                          *)
LEMMA DirtyIsOpen ==
  ASSUME NEW i \in Index
  PROVE  DirtyIn(models, i) \subseteq IdsOf(models[i].documents)
BY DEF DirtyIn, IdsOf, Range

(* Nothing is lost when nothing is closed.                                  *)
LEMMA NothingLost ==
  ASSUME OnlyGone(Nothing)
  PROVE  Lost = {}
<1>1. \A i \in Index : DirtyIn(models, i) \subseteq IdsOf(models'[i].documents)
  <2> TAKE i \in Index
  <2>1. IdsOf(models[i].documents) \ {} \subseteq IdsOf(models'[i].documents)
    BY DEF OnlyGone, Nothing
  <2> QED BY <2>1, DirtyIsOpen
<1> QED BY <1>1 DEF Lost, Dirty, Index

(* Of one window only what was closed there can be lost.                    *)
LEMMA LostFrom ==
  ASSUME NEW i \in Index, NEW gone, OnlyGone(From(i, gone))
  PROVE  Lost \subseteq gone \cap DirtyIn(models, i)
<1>1. \A j \in Index : j # i => DirtyIn(models, j) \subseteq IdsOf(models'[j].documents)
  <2> SUFFICES ASSUME NEW j \in Index, j # i
               PROVE  DirtyIn(models, j) \subseteq IdsOf(models'[j].documents)
    OBVIOUS
  <2>1. From(i, gone)[j] = {}
    BY DEF From
  <2>2. IdsOf(models[j].documents) \ {} \subseteq IdsOf(models'[j].documents)
    BY <2>1 DEF OnlyGone
  <2> QED BY <2>2, DirtyIsOpen
<1>2. DirtyIn(models, i) \ gone \subseteq IdsOf(models'[i].documents)
  <2>1. From(i, gone)[i] = gone
    BY DEF From
  <2>2. IdsOf(models[i].documents) \ gone \subseteq IdsOf(models'[i].documents)
    BY <2>1 DEF OnlyGone
  <2> QED BY <2>2, DirtyIsOpen
<1> QED BY <1>1, <1>2 DEF Lost, Dirty, Index

(* The active document of a window is one of its documents.                 *)
LEMMA ActiveInWindow ==
  ASSUME Agree(models), NEW i \in Index, HasActive(i)
  PROVE  /\ models[i].active \in IdsOf(models[i].documents)
         /\ ActiveDocument(i) \in WorkspaceDocument
         /\ ActiveDocument(i).id = models[i].active
         /\ ActiveDocument(i) \in Range(models[i].documents)
<1>1. PICK w : w = models[i]
  OBVIOUS
<1>2. WellFormed(w) /\ w.documents \in Seq(WorkspaceDocument) /\ w.active # NoDocument
      /\ DOMAIN w.documents = 1..Len(w.documents)
  BY <1>1, WellFormedFields DEF Agree, Separate, HasActive
<1>3. w.active \in IdsOf(w.documents)
  BY <1>2 DEF WellFormed, ActiveOpen
<1>4. PICK at : at = FindIndex(w.documents, w.active)
  OBVIOUS
<1>5. at \in 1..Len(w.documents) /\ w.documents[at].id = w.active
  BY <1>2, <1>3, <1>4, FindIndexProperties
<1>6. ActiveDocument(i) = w.documents[at]
  BY <1>1, <1>4 DEF ActiveDocument, DocumentOf
<1> QED BY <1>1, <1>2, <1>3, <1>5, <1>6 DEF Range

(* A window with documents has an active one.                               *)
LEMMA OpenHasActive ==
  ASSUME Agree(models), NEW i \in Index, NEW id \in IdsOf(models[i].documents)
  PROVE  HasActive(i)
<1>1. PICK w : w = models[i]
  OBVIOUS
<1>2. WellFormed(w) /\ w.documents \in Seq(WorkspaceDocument)
  BY <1>1, WellFormedFields DEF Agree, Separate
<1>3. w.documents # <<>>
  BY <1>1, NoIds
<1>4. w.active \in IdsOf(w.documents) /\ IdsOf(w.documents) \subseteq DocumentId
  BY <1>2, <1>3, IdsAreDocumentIds DEF WellFormed, ActiveOpen
<1> QED BY <1>1, <1>4, WorkspaceAssumption DEF HasActive

(* Each of the two workspaces.                                              *)
LEMMA SeparateIn ==
  ASSUME Agree(models), NEW i \in Index
  PROVE  /\ Separate(models[i]) /\ AllIds(models[i]) \subseteq AllOf(models)
         /\ IdsOf(models[i].documents) \subseteq AllIds(models[i])
BY DEF Agree, AllOf, AllIds, Index

(* Steps that open nothing new.                                             *)
LEMMA ListsStay ==
  ASSUME ListsInv, Agree(models'), AllOf(models') \subseteq AllOf(models),
         DOMAIN contents \subseteq DOMAIN contents', TextsOK', nextId' = nextId
  PROVE  ListsInv'
BY DEF ListsInv

(* Contents that stay.                                                      *)
LEMMA TextsStay ==
  ASSUME TextsOK, contents' = contents
  PROVE  TextsOK' /\ DOMAIN contents \subseteq DOMAIN contents'
BY DEF TextsOK

(* An operation in one window, with no contents changed.                    *)
LEMMA WindowKeeps ==
  ASSUME ListsInv, NEW i \in Index, NEW v, NEW gone, Keeps(models[i], v, gone),
         Become(i, v), UNCHANGED <<contents, nextId>>
  PROVE  ListsInv' /\ OnlyGone(From(i, gone)) /\ models'[i].documents = v.documents
<1>1. /\ Agree(models') /\ AllOf(models') \subseteq AllOf(models)
      /\ OnlyGone(From(i, gone)) /\ models'[i].documents = v.documents
  BY BecomeKeeps DEF ListsInv
<1>2. TextsOK' /\ DOMAIN contents \subseteq DOMAIN contents'
  BY TextsStay DEF ListsInv
<1> QED BY <1>1, <1>2, ListsStay

(* Nothing is gone from a window, then from none.                           *)
LEMMA FromNothing ==
  ASSUME NEW i \in Index, OnlyGone(From(i, {}))
  PROVE  OnlyGone(Nothing)
<1>1. \A j \in Index : From(i, {})[j] = {} /\ Nothing[j] = {}
  BY DEF From, Nothing
<1> QED BY <1>1 DEF OnlyGone

(* No workspace changes.                                                    *)
LEMMA ModelsStay ==
  ASSUME models' = models
  PROVE  OnlyGone(Nothing)
BY DEF OnlyGone

(* No document changes.                                                     *)
LEMMA DocumentsStay ==
  ASSUME ListsInv, UNCHANGED documentVars
  PROVE  ListsInv' /\ OnlyGone(Nothing)
<1>1. models' = models /\ contents' = contents /\ nextId' = nextId
  BY DEF documentVars
<1>2. Agree(models') /\ AllOf(models') \subseteq AllOf(models)
  BY <1>1 DEF ListsInv
<1>3. TextsOK' /\ DOMAIN contents \subseteq DOMAIN contents'
  BY <1>1, TextsStay DEF ListsInv
<1> QED BY <1>1, <1>2, <1>3, ListsStay, ModelsStay

(* What a step leaves: the lists as the invariant wants them, questions     *)
(* about documents that are there, and no unsaved document gone but those   *)
(* the user was asked about.                                                *)
Effect ==
  ListsInv' /\ Orderly(asking', models') /\ (program' # "crashed" => Lost \subseteq Covered)

(* A step that closes nothing and asks nothing.                             *)
LEMMA QuietEffect ==
  ASSUME Orderly(asking, models), ListsInv', OnlyGone(Nothing), asking' = asking
  PROVE  Effect
BY QuestionsAnywhere, NothingLost DEF Effect

-----------------------------------------------------------------------------
(* Opening, editing and arranging documents.                                *)

(* NewDocument and OpenPath: an identifier nobody has.                      *)
LEMMA NewDocumentEffect ==
  ASSUME ListsInv, NEW i \in Index, NEW p \in Path \cup {NoPath},
         ~ContainsPath(models[i].documents, p), NEW version \in Nat,
         NewDocument(i, p, version)
  PROVE  ListsInv' /\ OnlyGone(Nothing)
<1> DEFINE d == [id |-> nextId, path |-> p, dirty |-> FALSE]
           k == Len(models[i].documents) + 1
           v == Activated(Added(models[i], d, k), d.id)
<1>1. nextId \in Nat /\ nextId >= 1 /\ nextId <= MaxNew /\ MaxNew \in Nat
  BY ProgramAssumption DEF ListsInv, NewDocument
<1>2. nextId \in DocumentId
  <2>1. nextId \in 1..MaxNew
    BY <1>1
  <2> QED BY <2>1, ProgramAssumption
<1>3. d \in WorkspaceDocument /\ d.id = nextId /\ d.path = p
  BY <1>2 DEF WorkspaceDocument
<1>4. Become(i, v) /\ nextId' = nextId + 1
  BY <1>3 DEF NewDocument
<1>5. d.id \notin AllOf(models)
  <2>1. AllOf(models) \subseteq 1..nextId - 1
    BY DEF ListsInv
  <2>2. nextId \notin 1..nextId - 1
    BY <1>1
  <2> QED BY <1>3, <2>1, <2>2
<1>6. Separate(models[i]) /\ d.id \notin AllIds(models[i]) /\ Agree(models)
  BY <1>5, SeparateIn DEF ListsInv
<1> HIDE DEF d
<1>7. CanAdd(models[i], d, k)
  <2>1. Len(models[i].documents) \in Nat
    BY <1>6, WellFormedFields DEF Separate
  <2>2. d.id \notin IdsOf(models[i].documents)
    BY <1>6, SeparateIn
  <2> QED BY <1>3, <2>1, <2>2 DEF CanAdd
<1>8. /\ Separate(v) /\ AllIds(v) = AllIds(models[i]) \cup {d.id}
      /\ IdsOf(v.documents) = IdsOf(models[i].documents) \cup {d.id}
  BY <1>3, <1>6, <1>7, AddedKeeps
<1> HIDE DEF v
<1>9. Agree(models') /\ AllOf(models') = AllOf(models) \cup {d.id} /\ OnlyGone(Nothing)
  BY <1>4, <1>5, <1>6, <1>8, BecomeAdds
<1>10. contents' = [id \in DOMAIN contents \cup {nextId} |->
                     IF id = nextId THEN [text |-> version, stamp |-> version]
                     ELSE contents[id]]
  BY DEF NewDocument
<1>11. DOMAIN contents' = DOMAIN contents \cup {nextId} /\ TextsOK'
  <2>1. [text |-> version, stamp |-> version] \in [text : Nat, stamp : Nat]
    OBVIOUS
  <2>2. TextsOK
    BY DEF ListsInv
  <2> QED BY <1>10, <2>1, <2>2 DEF TextsOK
<1>12. AllOf(models') \subseteq DOMAIN contents' \cap 1..nextId' - 1
  <2>1. AllOf(models) \subseteq DOMAIN contents \cap 1..nextId - 1
    BY DEF ListsInv
  <2>2. \A id \in 1..nextId - 1 : id \in 1..nextId
    BY <1>1
  <2>3. nextId \in 1..nextId /\ nextId' - 1 = nextId
    BY <1>1, <1>4
  <2> QED BY <1>3, <1>9, <1>11, <2>1, <2>2, <2>3
<1>13. nextId' \in Nat \ {0}
  BY <1>1, <1>4
<1> QED BY <1>9, <1>11, <1>12, <1>13 DEF ListsInv

(* New.                                                                     *)
LEMMA NewEffect ==
  ASSUME ProgramInv, NEW i \in Index, New(i)
  PROVE  Effect
<1>1. ListsInv /\ Orderly(asking, models) /\ asking' = asking /\ NewDocument(i, NoPath, 0)
  BY DEF ProgramInv, New
<1>2. ~ContainsPath(models[i].documents, NoPath)
  BY DEF ContainsPath, SamePath
<1>3. ListsInv' /\ OnlyGone(Nothing)
  BY <1>1, <1>2, NewDocumentEffect
<1> QED BY <1>1, <1>3, QuietEffect

(* OpenPath: the document is activated where it is, or opened.              *)
LEMMA OpenPathEffect ==
  ASSUME ProgramInv, NEW i \in Index, OpenPath(i)
  PROVE  Effect
<1>1. ListsInv /\ Orderly(asking, models) /\ asking' = asking /\ disk \in [Path -> 0..MaxClock]
      /\ Agree(models)
  BY DEF ProgramInv, ProgramTypeOK, ListsInv, OpenPath
<1> DEFINE holders(p) == {j \in Index : ContainsPath(models[j].documents, p)}
           at(s, p) == CHOOSE k \in DOMAIN s : SamePath(s[k].path, p)
<1>2. PICK p \in Path :
         \/ /\ holders(p) # {}
            /\ Become(Min(holders(p)),
                      Activated(models[Min(holders(p))],
                        models[Min(holders(p))].documents[
                          at(models[Min(holders(p))].documents, p)].id))
            /\ UNCHANGED <<contents, nextId>>
         \/ /\ holders(p) = {} /\ disk[p] # 0
            /\ NewDocument(i, p, disk[p])
  BY DEF OpenPath
<1>3. CASE holders(p) = {} /\ NewDocument(i, p, disk[p])
  <2>1. ~ContainsPath(models[i].documents, p) /\ disk[p] \in Nat
    BY <1>1, <1>3, ProgramAssumption
  <2>2. ListsInv' /\ OnlyGone(Nothing)
    BY <1>1, <1>3, <2>1, NewDocumentEffect
  <2> QED BY <1>1, <2>2, QuietEffect
<1>4. ASSUME holders(p) # {}, NEW j, j = Min(holders(p)), NEW s, s = models[j].documents,
             Become(j, Activated(models[j], s[at(s, p)].id)), UNCHANGED <<contents, nextId>>
      PROVE  Effect
  <2>1. j \in holders(p)
    <3>1. holders(p) \in SUBSET (1..2)
      BY DEF Index
    <3> HIDE DEF holders
    <3> QED BY <1>4, <3>1, MinMaxProperties
  <2>2. j \in Index /\ ContainsPath(s, p)
    BY <1>4, <2>1
  <2>3. at(s, p) \in DOMAIN s
    BY <2>2 DEF ContainsPath
  <2> HIDE DEF at
  <2>4. s[at(s, p)].id \in IdsOf(models[j].documents)
    BY <1>4, <2>3 DEF IdsOf
  <2>5. Separate(models[j])
    BY <1>1, <2>2, SeparateIn
  <2>6. Keeps(models[j], Activated(models[j], s[at(s, p)].id), {})
    BY <2>4, <2>5, ActivatedKeeps
  <2>7. ListsInv' /\ OnlyGone(From(j, {}))
    BY <1>1, <1>4, <2>2, <2>6, WindowKeeps
  <2> QED BY <1>1, <2>2, <2>7, FromNothing, QuietEffect
<1>5. PICK j : j = Min(holders(p))
  OBVIOUS
<1>6. PICK s : s = models[j].documents
  OBVIOUS
<1> HIDE DEF holders, at
<1> QED BY <1>2, <1>3, <1>4, <1>5, <1>6

(* The text changes.                                                        *)
LEMMA EditEffect ==
  ASSUME ProgramInv, NEW i \in Index, EditActive(i)
  PROVE  Effect
<1> DEFINE id == models[i].active
           v == DirtySet(models[i], id, TRUE)
<1>1. /\ ListsInv /\ Orderly(asking, models) /\ asking' = asking /\ HasActive(i)
      /\ Become(i, v) /\ contents' = [contents EXCEPT ![id].text = 0] /\ nextId' = nextId
      /\ Agree(models) /\ TextsOK
  BY DEF ProgramInv, ListsInv, EditActive
<1>2. id \in IdsOf(models[i].documents) /\ Separate(models[i])
  BY <1>1, ActiveInWindow, SeparateIn
<1>3. Keeps(models[i], v, {})
  BY <1>2, DirtySetKeeps
<1> HIDE DEF v
<1>4. Agree(models') /\ AllOf(models') \subseteq AllOf(models) /\ OnlyGone(From(i, {}))
  BY <1>1, <1>3, BecomeKeeps
<1>5. DOMAIN contents \subseteq DOMAIN contents' /\ TextsOK'
  <2> HIDE DEF id
  <2>1. DOMAIN contents' = DOMAIN contents
    BY <1>1
  <2>2. \A k \in DOMAIN contents :
          contents'[k] = IF k = id THEN [contents[id] EXCEPT !.text = 0] ELSE contents[k]
    BY <1>1
  <2>3. ASSUME NEW e \in [text : Nat, stamp : Nat]
        PROVE  LET f == [e EXCEPT !.text = 0]
               IN  f \in [text : Nat, stamp : Nat] /\ f.text = 0
    OBVIOUS
  <2>4. \A k \in DOMAIN contents :
          contents'[k] \in [text : Nat, stamp : Nat] /\ contents'[k].text \in {0, contents'[k].stamp}
    <3> TAKE k \in DOMAIN contents
    <3>1. contents[k] \in [text : Nat, stamp : Nat] /\ contents[k].text \in {0, contents[k].stamp}
      BY <1>1 DEF TextsOK
    <3>2. CASE k = id
      BY <2>2, <2>3, <3>1, <3>2
    <3>3. CASE k # id
      BY <2>2, <3>1, <3>3
    <3> QED BY <3>2, <3>3
  <2> QED BY <2>1, <2>4 DEF TextsOK
<1>6. ListsInv'
  BY <1>1, <1>4, <1>5, ListsStay
<1> QED BY <1>1, <1>4, <1>6, FromNothing, QuietEffect

(* Another tab.                                                             *)
LEMMA ActivateTabEffect ==
  ASSUME ProgramInv, NEW i \in Index, ActivateTab(i)
  PROVE  Effect
<1>1. /\ ListsInv /\ Orderly(asking, models) /\ asking' = asking
      /\ UNCHANGED <<contents, nextId>>
  BY DEF ProgramInv, ActivateTab
<1>2. PICK id \in IdsOf(models[i].documents) : Become(i, Activated(models[i], id))
  BY DEF ActivateTab
<1>3. Keeps(models[i], Activated(models[i], id), {})
  BY <1>1, SeparateIn, ActivatedKeeps DEF ListsInv
<1>4. ListsInv' /\ OnlyGone(From(i, {}))
  BY <1>1, <1>2, <1>3, WindowKeeps
<1> QED BY <1>1, <1>4, FromNothing, QuietEffect

(* Tabs change places.                                                      *)
LEMMA ReorderEffect ==
  ASSUME ProgramInv, NEW i \in Index, Reorder(i)
  PROVE  Effect
<1>1. /\ ListsInv /\ Orderly(asking, models) /\ asking' = asking
      /\ UNCHANGED <<contents, nextId>>
  BY DEF ProgramInv, Reorder
<1>2. PICK id, k : CanMove(models[i], id, k) /\ Become(i, Moved(models[i], id, k))
  BY DEF Reorder
<1>3. id \in IdsOf(models[i].documents) /\ Separate(models[i])
  BY <1>1, <1>2, SeparateIn DEF CanMove, ListsInv
<1>4. Keeps(models[i], Moved(models[i], id, k), {})
  BY <1>2, <1>3, MovedKeeps
<1>5. ListsInv' /\ OnlyGone(From(i, {}))
  BY <1>1, <1>2, <1>4, WindowKeeps
<1> QED BY <1>1, <1>5, FromNothing, QuietEffect

(* A closed document comes back.                                            *)
LEMMA ReopenEffect ==
  ASSUME ProgramInv, NEW i \in Index, ReopenClosed(i)
  PROVE  Effect
<1>1. /\ ListsInv /\ Orderly(asking, models) /\ asking' = asking
      /\ UNCHANGED <<contents, nextId>>
      /\ CanReopen(models[i], 1) /\ Become(i, Reopened(models[i], 1))
  BY DEF ProgramInv, ReopenClosed
<1>2. Keeps(models[i], Reopened(models[i], 1), {})
  BY <1>1, SeparateIn, ReopenedKeeps DEF ListsInv
<1>3. ListsInv' /\ OnlyGone(From(i, {}))
  BY <1>1, <1>2, WindowKeeps
<1> QED BY <1>1, <1>3, FromNothing, QuietEffect

(* A document goes to the other window.                                     *)
LEMMA MoveEffect ==
  ASSUME ProgramInv, NEW i \in Index, MoveActive(i)
  PROVE  Effect
<1> DEFINE d == ActiveDocument(i)
           j == 3 - i
           k == Len(models[j].documents) + 1
           u == Closed(models[i], d.id, FALSE)
           v == Activated(Added(models[j], d, k), d.id)
<1>1. /\ ListsInv /\ Agree(models) /\ Orderly(asking, models) /\ asking' = asking
      /\ UNCHANGED <<contents, nextId>> /\ Enabled(i) /\ HasActive(i)
      /\ CanAdd(models[j], d, k)
      /\ models' = [models EXCEPT ![i] = [u EXCEPT !.revision = 0],
                                  ![j] = [v EXCEPT !.revision = 0]]
  BY DEF ProgramInv, ListsInv, MoveActive
<1>2. j \in Index /\ j # i
  BY DEF Index
<1>3. d \in WorkspaceDocument /\ d.id \in IdsOf(models[i].documents)
  BY <1>1, ActiveInWindow
<1>4. Separate(models[i]) /\ Separate(models[j]) /\ d.id \in AllIds(models[i])
  BY <1>1, <1>2, <1>3, SeparateIn
<1>5. d.id \notin AllIds(models[j])
  BY <1>1, <1>2, <1>4 DEF Agree, Index
<1> HIDE DEF d
<1>6. /\ Separate(u) /\ AllIds(u) = AllIds(models[i]) \ {d.id}
      /\ IdsOf(u.documents) = IdsOf(models[i].documents) \ {d.id}
  BY <1>3, <1>4, ClosedKeeps DEF Keeps
<1>7. /\ Separate(v) /\ AllIds(v) = AllIds(models[j]) \cup {d.id}
      /\ IdsOf(v.documents) = IdsOf(models[j].documents) \cup {d.id}
  <2> HIDE DEF j
  <2> QED BY <1>1, <1>3, <1>4, <1>5, AddedKeeps
<1> HIDE DEF u, v, k
<1>8. PICK a, b : a = [u EXCEPT !.revision = 0] /\ b = [v EXCEPT !.revision = 0]
  OBVIOUS
<1>9. /\ WellFormed(a) /\ a.documents = u.documents /\ a.recentlyClosed = u.recentlyClosed
      /\ WellFormed(b) /\ b.documents = v.documents /\ b.recentlyClosed = v.recentlyClosed
  BY <1>6, <1>7, <1>8, RevisionForgotten DEF Separate
<1>10. /\ Separate(a) /\ AllIds(a) = AllIds(u) /\ a \in Workspace
       /\ Separate(b) /\ AllIds(b) = AllIds(v) /\ b \in Workspace
  <2>1. Separate(a) /\ AllIds(a) = AllIds(u)
    BY <1>6, <1>9, SameListsSeparate
  <2>2. Separate(b) /\ AllIds(b) = AllIds(v)
    BY <1>7, <1>9, SameListsSeparate
  <2> QED BY <1>9, <2>1, <2>2 DEF WellFormed
<1>11. models' \in [Index -> Workspace] /\ models'[i] = a /\ models'[j] = b
  <2>1. models \in [Index -> Workspace] /\ models' = [models EXCEPT ![i] = a, ![j] = b]
    BY <1>1, <1>8 DEF Agree
  <2> HIDE DEF j
  <2> QED BY <1>2, <1>10, <2>1
<1>12. \/ i = 1 /\ j = 2
       \/ i = 2 /\ j = 1
  BY DEF Index
<1> HIDE DEF j
<1>13. Agree(models') /\ AllOf(models') \subseteq AllOf(models)
  <2>1. \A n \in Index : Separate(models'[n])
    BY <1>10, <1>11, <1>12 DEF Index
  <2>2. AllIds(models'[1]) \cap AllIds(models'[2]) = {} /\ AllOf(models') \subseteq AllOf(models)
    <3>1. AllIds(models[1]) \cap AllIds(models[2]) = {}
      BY <1>1 DEF Agree
    <3>2. AllIds(models'[i]) = AllIds(models[i]) \ {d.id}
          /\ AllIds(models'[j]) = AllIds(models[j]) \cup {d.id}
      BY <1>6, <1>7, <1>10, <1>11
    <3> QED BY <1>4, <1>12, <3>1, <3>2 DEF AllOf
  <2> QED BY <1>11, <2>1, <2>2 DEF Agree
<1>14. OnlyGone(From(i, {d.id})) /\ d.id \in IdsOf(models'[j].documents)
  <2>1. /\ IdsOf(models'[i].documents) = IdsOf(models[i].documents) \ {d.id}
        /\ IdsOf(models'[j].documents) = IdsOf(models[j].documents) \cup {d.id}
    BY <1>6, <1>7, <1>9, <1>11
  <2>2. From(i, {d.id})[i] = {d.id} /\ From(i, {d.id})[j] = {}
    BY <1>2 DEF From
  <2>3. \A n \in Index : n = i \/ n = j
    BY <1>12 DEF Index
  <2> QED BY <2>1, <2>2, <2>3 DEF OnlyGone
<1>15. ListsInv'
  <2>1. TextsOK' /\ DOMAIN contents \subseteq DOMAIN contents'
    BY <1>1, TextsStay DEF ListsInv
  <2> QED BY <1>1, <1>13, <2>1, ListsStay
<1>16. Lost = {}
  <2>1. Lost \subseteq {d.id}
    BY <1>14, LostFrom
  <2>2. d.id \notin Lost
    BY <1>12, <1>14 DEF Lost
  <2> QED BY <2>1, <2>2
<1>17. Orderly(asking', models')
  BY <1>1, <1>14, EnabledAsksNothing, QuestionsElsewhere
<1> QED BY <1>15, <1>16, <1>17 DEF Effect

-----------------------------------------------------------------------------
(* Saving and closing.                                                      *)

(* The file is written, or not; then a document may be closed.              *)
LEMMA SaveEffect ==
  ASSUME ProgramTypeOK, ListsInv, NEW i \in Index, NEW id \in IdsOf(models[i].documents),
         NEW p \in Path, NEW toClose, SaveTo(i, id, p, toClose)
  PROVE  ListsInv' /\ OnlyGone(From(i, {toClose} \ {NoDocument}))
<1> DEFINE v == IF toClose = NoDocument THEN SavedIn(models[i], id, p)
                ELSE Forget(SavedIn(models[i], id, p), toClose)
           gone == {toClose} \ {NoDocument}
<1>1. CASE UNCHANGED documentVars
  <2>1. ListsInv' /\ OnlyGone(Nothing)
    BY <1>1, DocumentsStay
  <2> QED BY <2>1 DEF OnlyGone, Nothing
<1>2. CASE /\ contents' = ContentsSaved(id, clock + 1) /\ Become(i, v) /\ nextId' = nextId
  <2>1. Agree(models) /\ Separate(models[i]) /\ TextsOK /\ clock + 1 \in Nat
    BY SeparateIn, ProgramAssumption DEF ListsInv, ProgramTypeOK
  <2>2. Keeps(models[i], SavedIn(models[i], id, p), {})
    BY <2>1, SavedInKeeps
  <2>3. Keeps(models[i], v, gone)
    <3>1. CASE toClose = NoDocument
      BY <2>2, <3>1
    <3>2. CASE toClose # NoDocument
      <4>1. PICK s : s = SavedIn(models[i], id, p)
        OBVIOUS
      <4>2. Keeps(models[i], s, {}) /\ Separate(s)
        BY <2>2, <4>1 DEF Keeps
      <4>3. Keeps(s, Forget(s, toClose), {toClose})
        BY <4>2, ForgetKeeps
      <4>4. Keeps(models[i], Forget(s, toClose), {} \cup {toClose})
        BY <4>2, <4>3, KeepsChain
      <4>5. gone = {} \cup {toClose} /\ v = Forget(s, toClose)
        BY <3>2, <4>1
      <4> QED BY <4>4, <4>5
    <3> QED BY <3>1, <3>2
  <2> HIDE DEF v, gone
  <2>4. Agree(models') /\ AllOf(models') \subseteq AllOf(models) /\ OnlyGone(From(i, gone))
    BY <1>2, <2>1, <2>3, BecomeKeeps
  <2>5. DOMAIN contents' = DOMAIN contents /\ TextsOK'
    <3>1. PICK e : e = [text |-> clock + 1, stamp |-> clock + 1]
      OBVIOUS
    <3>2. e \in [text : Nat, stamp : Nat] /\ e.text = e.stamp
      BY <2>1, <3>1
    <3>3. contents' = [contents EXCEPT ![id] = e]
      BY <1>2, <3>1 DEF ContentsSaved
    <3> QED BY <2>1, <3>2, <3>3 DEF TextsOK
  <2>6. ListsInv'
    BY <1>2, <2>4, <2>5, ListsStay
  <2> QED BY <2>4, <2>6 DEF gone
<1>3. SaveTo(i, id, p, toClose) =>
        \/ UNCHANGED documentVars
        \/ contents' = ContentsSaved(id, clock + 1) /\ Become(i, v) /\ nextId' = nextId
  BY DEF SaveTo
<1> HIDE DEF v, gone
<1> QED BY <1>1, <1>2, <1>3 DEF gone

(* A window that asks nothing asks a question.                              *)
LEMMA AskEffect ==
  ASSUME ProgramInv, NEW r \in QuestionType, QuestionOK(r, models),
         UNCHANGED documentVars, NEW below, Orderly(below, models),
         \A k \in 1..Len(below) : below[k].window # r.window, asking' = Append(below, r)
  PROVE  Effect
<1>1. ListsInv' /\ OnlyGone(Nothing) /\ models' = models
  BY DocumentsStay DEF ProgramInv, documentVars
<1>2. Orderly(Append(below, r), models)
  BY AppendOrderly
<1>3. PICK q : q = Append(below, r)
  OBVIOUS
<1>4. Orderly(asking', models')
  BY <1>1, <1>2, <1>3, QuestionsAnywhere
<1> QED BY <1>1, <1>4, NothingLost DEF Effect

(* Save, or the question where to.                                          *)
LEMMA SaveActiveEffect ==
  ASSUME ProgramInv, NEW i \in Index, SaveActive(i)
  PROVE  Effect
<1> DEFINE d == ActiveDocument(i)
           r == Question("saveAs", i, d.id, NoDocument, {})
<1>1. /\ ListsInv /\ Agree(models) /\ ProgramTypeOK /\ Orderly(asking, models)
      /\ Enabled(i) /\ HasActive(i)
  BY DEF ProgramInv, ListsInv, SaveActive
<1>2. d \in WorkspaceDocument /\ d.id \in IdsOf(models[i].documents)
  BY <1>1, ActiveInWindow
<1>3. \A k \in 1..Len(asking) : asking[k].window # i
  BY <1>1, EnabledAsksNothing
<1>4. \/ d.path # NoPath /\ SaveTo(i, d.id, d.path, NoDocument) /\ asking' = asking
      \/ asking' = Append(asking, r) /\ UNCHANGED documentVars
  BY DEF SaveActive, Ask
<1> HIDE DEF d
<1>5. CASE d.path # NoPath /\ SaveTo(i, d.id, d.path, NoDocument) /\ asking' = asking
  <2>1. d.path \in Path
    BY <1>2, <1>5 DEF WorkspaceDocument
  <2>2. ListsInv' /\ OnlyGone(From(i, {NoDocument} \ {NoDocument}))
    BY <1>1, <1>2, <1>5, <2>1, SaveEffect
  <2>3. {NoDocument} \ {NoDocument} = {}
    OBVIOUS
  <2>4. OnlyGone(Nothing)
    BY <2>2, <2>3, FromNothing
  <2> QED BY <1>1, <1>5, <2>2, <2>4, QuietEffect
<1>6. CASE asking' = Append(asking, r) /\ UNCHANGED documentVars
  <2>1. r \in QuestionType
    BY <1>2 DEF QuestionType, Question, WorkspaceDocument
  <2>2. QuestionOK(r, models) /\ r.window = i
    BY <1>2 DEF QuestionOK, Question
  <2> HIDE DEF r
  <2> QED BY <1>1, <1>3, <1>6, <2>1, <2>2, AskEffect
<1> QED BY <1>4, <1>5, <1>6

(* A clean document is closed at once; the others are asked about.          *)
LEMMA CloseActiveEffect ==
  ASSUME ProgramInv, NEW i \in Index, CloseActive(i)
  PROVE  Effect
<1> DEFINE d == ActiveDocument(i)
           r == Question("close", i, NoDocument, d.id, {d.id})
<1>1. /\ ListsInv /\ Agree(models) /\ ProgramTypeOK /\ Orderly(asking, models)
      /\ Enabled(i) /\ HasActive(i) /\ UNCHANGED <<contents, nextId>>
  BY DEF ProgramInv, ListsInv, CloseActive
<1>2. /\ d \in WorkspaceDocument /\ d.id \in IdsOf(models[i].documents)
      /\ d \in Range(models[i].documents)
  BY <1>1, ActiveInWindow
<1>3. \A k \in 1..Len(asking) : asking[k].window # i
  BY <1>1, EnabledAsksNothing
<1>4. \/ asking' = Append(asking, r) /\ UNCHANGED documentVars
      \/ ~d.dirty /\ Become(i, Closed(models[i], d.id, TRUE)) /\ asking' = asking
  BY DEF CloseActive, Ask, documentVars
<1> HIDE DEF d
<1>5. CASE asking' = Append(asking, r) /\ UNCHANGED documentVars
  <2>1. r \in QuestionType
    BY <1>2 DEF QuestionType, Question, WorkspaceDocument
  <2>2. QuestionOK(r, models) /\ r.window = i
    BY <1>2 DEF QuestionOK, Question
  <2> HIDE DEF r
  <2> QED BY <1>1, <1>3, <1>5, <2>1, <2>2, AskEffect
<1>6. CASE ~d.dirty /\ Become(i, Closed(models[i], d.id, TRUE)) /\ asking' = asking
  <2>1. Separate(models[i])
    BY <1>1, SeparateIn
  <2>2. Keeps(models[i], Closed(models[i], d.id, TRUE), {d.id})
    BY <1>2, <2>1, ClosedKeeps
  <2>3. ListsInv' /\ OnlyGone(From(i, {d.id}))
    BY <1>1, <1>6, <2>2, WindowKeeps
  <2>4. d.id \notin DirtyIn(models, i)
    <3>1. DistinctEntries(models[i].documents)
      BY <2>1 DEF Separate, WellFormed
    <3>2. \A e \in Range(models[i].documents) : e.id = d.id => e = d
      BY <1>2, <3>1 DEF DistinctEntries, Range
    <3> QED BY <1>6, <3>2 DEF DirtyIn
  <2>5. Lost = {}
    BY <2>3, <2>4, LostFrom
  <2>6. Orderly(asking', models')
    BY <1>1, <1>3, <1>6, <2>3, QuestionsElsewhere
  <2> QED BY <2>3, <2>5, <2>6 DEF Effect
<1> QED BY <1>4, <1>5, <1>6

(* The innermost question and the ones below it.                            *)
LEMMA AnsweredQuestion ==
  ASSUME ProgramInv, NEW kind, Answered(kind)
  PROVE  /\ Orderly(Front(asking), models) /\ Top \in QuestionType
         /\ QuestionOK(Top, models) /\ Top.window \in Index /\ Top.kind = kind
         /\ \A k \in 1..Len(Front(asking)) : Front(asking)[k].window # Top.window
         /\ asking # <<>>
<1>1. Orderly(asking, models) /\ asking # <<>> /\ Top.kind = kind
  BY DEF ProgramInv, Answered
<1>2. /\ Orderly(Front(asking), models) /\ Top \in QuestionType /\ QuestionOK(Top, models)
      /\ \A k \in 1..Len(Front(asking)) : Front(asking)[k].window # Top.window
  BY <1>1, FrontOrderly DEF Top
<1> QED BY <1>1, <1>2 DEF QuestionType

(* The question is taken back.                                              *)
LEMMA CancelEffect ==
  ASSUME ProgramInv, NEW kind, Answered(kind), asking' = Front(asking), UNCHANGED documentVars
  PROVE  Effect
<1>1. ListsInv' /\ OnlyGone(Nothing)
  BY DocumentsStay DEF ProgramInv
<1>2. PICK q : q = Front(asking)
  OBVIOUS
<1>3. Orderly(asking', models')
  BY <1>1, <1>2, AnsweredQuestion, QuestionsAnywhere
<1> QED BY <1>1, <1>3, NothingLost DEF Effect

(* The answer closes documents in the window that asked.                    *)
LEMMA AnswerEffect ==
  ASSUME ProgramInv, NEW kind, Answered(kind), asking' = Front(asking), ListsInv',
         NEW gone, OnlyGone(From(Top.window, gone)),
         gone \cap DirtyIn(models, Top.window) \subseteq Covered
  PROVE  Effect
<1>1. PICK q, i : q = Front(asking) /\ i = Top.window
  OBVIOUS
<1>2. Orderly(q, models) /\ i \in Index /\ \A k \in 1..Len(q) : q[k].window # i
  BY <1>1, AnsweredQuestion
<1>3. OnlyGone(From(i, gone)) /\ gone \cap DirtyIn(models, i) \subseteq Covered
  BY <1>1
<1>4. Orderly(q, models')
  BY <1>2, <1>3, QuestionsElsewhere
<1>5. Lost \subseteq Covered
  BY <1>2, <1>3, LostFrom
<1> QED BY <1>1, <1>4, <1>5 DEF Effect

(* The answer to the question about one document.                           *)
LEMMA AnswerCloseEffect ==
  ASSUME ProgramInv, AnswerClose
  PROVE  Effect
<1> DEFINE d == ActiveDocument(Top.window)
           r == Question("saveAs", Top.window, d.id, Top.close, {Top.close})
<1>1. PICK i : i = Top.window
  OBVIOUS
<1>2. /\ Answered("close") /\ i \in Index /\ Top \in QuestionType
      /\ Top.close \in IdsOf(models[i].documents) /\ Top.about = {Top.close}
      /\ Orderly(Front(asking), models)
      /\ \A k \in 1..Len(Front(asking)) : Front(asking)[k].window # i
      /\ asking # <<>> /\ Top.kind = "close"
  <2>1. Answered("close")
    BY DEF AnswerClose
  <2>2. /\ i \in Index /\ Top \in QuestionType /\ QuestionOK(Top, models) /\ Top.kind = "close"
        /\ Orderly(Front(asking), models)
        /\ \A k \in 1..Len(Front(asking)) : Front(asking)[k].window # i
        /\ asking # <<>>
    BY <1>1, <2>1, AnsweredQuestion
  <2> QED BY <1>1, <2>1, <2>2 DEF QuestionOK
<1>3. Covered = {Top.close}
  BY <1>2 DEF Covered
<1>4. Agree(models) /\ ListsInv /\ ProgramTypeOK
  BY DEF ProgramInv, ListsInv
<1>5. d \in WorkspaceDocument /\ d.id \in IdsOf(models[i].documents)
  BY <1>1, <1>2, <1>4, OpenHasActive, ActiveInWindow
<1>6. \/ asking' = Front(asking) /\ UNCHANGED documentVars
      \/ /\ asking' = Front(asking) /\ UNCHANGED <<contents, nextId>>
         /\ Become(i, Forget(models[i], Top.close))
      \/ /\ d.path # NoPath /\ asking' = Front(asking)
         /\ SaveTo(i, d.id, d.path, Top.close)
      \/ asking' = Append(Front(asking), r) /\ UNCHANGED documentVars
  BY <1>1 DEF AnswerClose
<1> HIDE DEF d
<1>7. CASE asking' = Front(asking) /\ UNCHANGED documentVars
  BY <1>2, <1>7, CancelEffect
<1>8. CASE /\ asking' = Front(asking) /\ UNCHANGED <<contents, nextId>>
           /\ Become(i, Forget(models[i], Top.close))
  <2>1. Keeps(models[i], Forget(models[i], Top.close), {Top.close})
    BY <1>2, <1>4, SeparateIn, ForgetKeeps
  <2>2. ListsInv' /\ OnlyGone(From(i, {Top.close}))
    BY <1>2, <1>4, <1>8, <2>1, WindowKeeps
  <2> QED BY <1>1, <1>2, <1>3, <1>8, <2>2, AnswerEffect
<1>9. CASE /\ d.path # NoPath /\ asking' = Front(asking)
           /\ SaveTo(i, d.id, d.path, Top.close)
  <2>1. d.path \in Path
    BY <1>5, <1>9 DEF WorkspaceDocument
  <2>2. ListsInv' /\ OnlyGone(From(i, {Top.close} \ {NoDocument}))
    BY <1>2, <1>4, <1>5, <1>9, <2>1, SaveEffect
  <2> QED BY <1>1, <1>2, <1>3, <1>9, <2>2, AnswerEffect
<1>10. CASE asking' = Append(Front(asking), r) /\ UNCHANGED documentVars
  <2>1. r \in QuestionType
    <3>1. Top.close \in DocumentId
      <4>1. models[i].documents \in Seq(WorkspaceDocument)
        BY <1>2, <1>4, SeparateIn, WellFormedFields DEF Separate
      <4> QED BY <1>2, <4>1, IdsAreDocumentIds
    <3> QED BY <1>1, <1>2, <1>5, <3>1 DEF QuestionType, Question, WorkspaceDocument
  <2>2. QuestionOK(r, models) /\ r.window = i
    BY <1>1, <1>5 DEF QuestionOK, Question
  <2> HIDE DEF r
  <2> QED BY <1>2, <1>10, <2>1, <2>2, AskEffect
<1> QED BY <1>6, <1>7, <1>8, <1>9, <1>10

(* The answer to the question where to save.                                *)
LEMMA AnswerSaveAsEffect ==
  ASSUME ProgramInv, AnswerSaveAs
  PROVE  Effect
<1>1. Answered("saveAs") /\ asking' = Front(asking)
  BY DEF AnswerSaveAs
<1>2. PICK i : i = Top.window
  OBVIOUS
<1>3. /\ i \in Index /\ QuestionOK(Top, models) /\ Top.kind = "saveAs" /\ asking # <<>>
  BY <1>1, <1>2, AnsweredQuestion
<1>4. Top.save \in IdsOf(models[i].documents) /\ Top.close \in Top.about \cup {NoDocument}
  BY <1>2, <1>3 DEF QuestionOK
<1>5. CASE UNCHANGED documentVars
  BY <1>1, <1>5, CancelEffect
<1>6. CASE \E p \in Path : SaveTo(i, Top.save, p, Top.close)
  <2>1. PICK p \in Path : SaveTo(i, Top.save, p, Top.close)
    BY <1>6
  <2>2. ListsInv' /\ OnlyGone(From(i, {Top.close} \ {NoDocument}))
    BY <1>3, <1>4, <2>1, SaveEffect DEF ProgramInv
  <2>3. {Top.close} \ {NoDocument} \subseteq Covered
    BY <1>3, <1>4 DEF Covered
  <2>4. PICK gone : gone = {Top.close} \ {NoDocument}
    OBVIOUS
  <2> QED BY <1>1, <1>2, <2>2, <2>3, <2>4, AnswerEffect
<1> QED BY <1>2, <1>5, <1>6 DEF AnswerSaveAs

-----------------------------------------------------------------------------
(* Closing the windows.                                                     *)

(* Unsaved documents are documents.                                         *)
LEMMA UnsavedIds ==
  ASSUME Agree(models), NEW i \in Index
  PROVE  DirtyIn(models, i) \subseteq DocumentId /\ Dirty(models) \subseteq DocumentId
<1>1. \A j \in Index : DirtyIn(models, j) \subseteq DocumentId
  <2> TAKE j \in Index
  <2>1. models[j].documents \in Seq(WorkspaceDocument)
    BY SeparateIn, WellFormedFields DEF Separate
  <2> QED BY <2>1, DirtyIsOpen, IdsAreDocumentIds
<1> QED BY <1>1 DEF Dirty, Index

(* The second window closes its documents.                                  *)
LEMMA SecondaryEffect ==
  ASSUME ListsInv, SecondaryCloses
  PROVE  ListsInv' /\ OnlyGone(From(2, IdsOf(models[2].documents)))
<1>1. 2 \in Index
  BY DEF Index
<1>2. Separate(models[2])
  BY <1>1, SeparateIn DEF ListsInv
<1>3. Keeps(models[2], AllClosed(models[2]), IdsOf(models[2].documents))
  BY <1>2, AllClosedKeeps
<1>4. Become(2, AllClosed(models[2])) /\ UNCHANGED <<contents, nextId>>
  BY DEF SecondaryCloses
<1> QED BY <1>1, <1>3, <1>4, WindowKeeps

(* Closing the second window, or the question about it.                     *)
LEMMA ConfirmCloseAllEffect ==
  ASSUME ProgramInv, ConfirmCloseAll
  PROVE  Effect
<1> DEFINE r == Question("closeAll", 2, NoDocument, NoDocument, DirtyIn(models, 2))
<1>1. /\ ListsInv /\ Agree(models) /\ Orderly(asking, models) /\ Enabled(2) /\ 2 \in Index
  BY DEF ProgramInv, ListsInv, ConfirmCloseAll, Index
<1>2. \A k \in 1..Len(asking) : asking[k].window # 2
  BY <1>1, EnabledAsksNothing
<1>3. \/ DirtyIn(models, 2) = {} /\ SecondaryCloses /\ asking' = asking
      \/ asking' = Append(asking, r) /\ UNCHANGED documentVars
  BY DEF ConfirmCloseAll, Ask
<1>4. CASE DirtyIn(models, 2) = {} /\ SecondaryCloses /\ asking' = asking
  <2>1. ListsInv' /\ OnlyGone(From(2, IdsOf(models[2].documents)))
    BY <1>1, <1>4, SecondaryEffect
  <2>2. Lost = {}
    BY <1>1, <1>4, <2>1, LostFrom
  <2>3. Orderly(asking', models')
    BY <1>1, <1>2, <1>4, <2>1, QuestionsElsewhere
  <2> QED BY <2>1, <2>2, <2>3 DEF Effect
<1>5. CASE asking' = Append(asking, r) /\ UNCHANGED documentVars
  <2>1. r \in QuestionType
    BY <1>1, UnsavedIds DEF QuestionType, Question
  <2>2. QuestionOK(r, models) /\ r.window = 2
    BY DEF QuestionOK, Question
  <2> HIDE DEF r
  <2> QED BY <1>1, <1>2, <1>5, <2>1, <2>2, AskEffect
<1> QED BY <1>3, <1>4, <1>5

(* Its answer holds for the documents the question was about, or not at     *)
(* all.                                                                     *)
LEMMA AnswerCloseAllEffect ==
  ASSUME ProgramInv, AnswerCloseAll
  PROVE  Effect
<1>1. Answered("closeAll") /\ asking' = Front(asking)
  BY DEF AnswerCloseAll
<1>2. Top.window = 2 /\ Top.kind = "closeAll" /\ asking # <<>>
  BY <1>1, AnsweredQuestion DEF QuestionOK
<1>3. CASE UNCHANGED documentVars
  BY <1>1, <1>3, CancelEffect
<1>4. CASE Decided(Top.about) /\ SecondaryCloses
  <2>1. ListsInv' /\ OnlyGone(From(Top.window, IdsOf(models[2].documents)))
    BY <1>2, <1>4, SecondaryEffect DEF ProgramInv
  <2>2. DirtyIn(models, Top.window) = Covered
    BY <1>2, <1>4 DEF Covered, Decided
  <2>3. IdsOf(models[2].documents) \cap DirtyIn(models, Top.window) \subseteq Covered
    BY <2>2
  <2> QED BY <1>1, <2>1, <2>3, AnswerEffect
<1> QED BY <1>3, <1>4 DEF AnswerCloseAll

(* The process is gone.                                                     *)
LEMMA NobodyOpen ==
  ASSUME NEW ms, ms = [i \in Index |-> EmptyWorkspace]
  PROVE  Agree(ms) /\ AllOf(ms) = {}
<1>1. EmptyWorkspace \in Workspace /\ WellFormed(EmptyWorkspace)
  BY EmptyWellFormed
<1>2. AllIds(EmptyWorkspace) = {}
  BY NoIds DEF AllIds, EmptyWorkspace
<1>3. Separate(EmptyWorkspace)
  BY <1>1, <1>2 DEF Separate, AllIds
<1>4. ms[1] = EmptyWorkspace /\ ms[2] = EmptyWorkspace /\ ms \in [Index -> Workspace]
  BY <1>1 DEF Index
<1> QED BY <1>2, <1>3, <1>4 DEF Agree, AllOf, Index

(* The process is gone, and nothing unsaved without an answer.              *)
LEMMA EndEffect ==
  ASSUME NEW how, ProgramEnds(how), how = "crashed" \/ Dirty(models) \subseteq Covered
  PROVE  Effect
<1>1. /\ models' = [i \in Index |-> EmptyWorkspace] /\ contents' = <<>> /\ nextId' = 1
      /\ asking' = <<>> /\ program' = how
  BY DEF ProgramEnds
<1>2. Agree(models') /\ AllOf(models') = {}
  BY <1>1, NobodyOpen
<1>3. TextsOK'
  BY <1>1 DEF TextsOK
<1>4. ListsInv'
  BY <1>1, <1>2, <1>3 DEF ListsInv
<1>5. Orderly(asking', models')
  BY <1>1 DEF Orderly
<1> QED BY <1>1, <1>4, <1>5 DEF Effect, Lost

(* The session is written and the program ends, or asks.                    *)
LEMMA EndingEffect ==
  ASSUME ProgramInv, NEW below, Orderly(below, models),
         \A k \in 1..Len(below) : below[k].window # 1,
         Dirty(models) \subseteq Covered, SaveSessionAndEnd(below)
  PROVE  Effect
<1> DEFINE r == Question("anyway", 1, NoDocument, NoDocument, Dirty(models))
<1>1. CASE ProgramEnds("closed")
  BY <1>1, EndEffect
<1>2. CASE asking' = Append(below, r) /\ UNCHANGED documentVars
  <2>1. r \in QuestionType
    BY UnsavedIds DEF QuestionType, Question, Index, ProgramInv, ListsInv
  <2>2. QuestionOK(r, models) /\ r.window = 1
    BY DEF QuestionOK, Question
  <2> HIDE DEF r
  <2> QED BY <1>2, <2>1, <2>2, AskEffect
<1> QED BY <1>1, <1>2 DEF SaveSessionAndEnd

(* Closing the first window.                                                *)
LEMMA ConfirmShutdownEffect ==
  ASSUME ProgramInv, ConfirmShutdown
  PROVE  Effect
<1> DEFINE r == Question("shutdown", 1, NoDocument, NoDocument, {})
<1>1. Orderly(asking, models) /\ \A k \in 1..Len(asking) : asking[k].window # 1
  BY EnabledAsksNothing DEF ProgramInv, ConfirmShutdown
<1>2. CASE Dirty(models) = {} /\ SaveSessionAndEnd(asking)
  BY <1>1, <1>2, EndingEffect
<1>3. CASE asking' = Append(asking, r) /\ UNCHANGED documentVars
  <2>1. r \in QuestionType
    BY DEF QuestionType, Question, Index
  <2>2. QuestionOK(r, models) /\ r.window = 1
    BY DEF QuestionOK, Question
  <2> HIDE DEF r
  <2> QED BY <1>1, <1>3, <2>1, <2>2, AskEffect
<1> QED BY <1>2, <1>3 DEF ConfirmShutdown, Ask

(* The answer to the question about the shutdown.                           *)
LEMMA AnswerShutdownEffect ==
  ASSUME ProgramInv, AnswerShutdown
  PROVE  Effect
<1>1. Answered("shutdown")
  BY DEF AnswerShutdown
<1>2. PICK q : q = Front(asking)
  OBVIOUS
<1>3. /\ Orderly(q, models) /\ \A k \in 1..Len(q) : q[k].window # 1
      /\ Top.kind = "shutdown" /\ asking # <<>>
  BY <1>1, <1>2, AnsweredQuestion DEF QuestionOK
<1>4. Covered = Dirty(models)
  BY <1>3 DEF Covered
<1>5. CASE asking' = Front(asking) /\ UNCHANGED documentVars
  BY <1>1, <1>5, CancelEffect
<1>6. CASE SaveSessionAndEnd(q)
  BY <1>3, <1>4, <1>6, EndingEffect
<1> QED BY <1>2, <1>5, <1>6 DEF AnswerShutdown

(* The answer when the session was not written.                             *)
LEMMA AnswerAnywayEffect ==
  ASSUME ProgramInv, AnswerAnyway
  PROVE  Effect
<1>1. Answered("anyway")
  BY DEF AnswerAnyway
<1>2. Top.kind = "anyway" /\ asking # <<>>
  BY <1>1 DEF Answered
<1>3. Covered = Dirty(models)
  BY <1>2 DEF Covered
<1>4. CASE asking' = Front(asking) /\ UNCHANGED documentVars
  BY <1>1, <1>4, CancelEffect
<1>5. CASE ProgramEnds("closed")
  BY <1>3, <1>5, EndEffect
<1> QED BY <1>4, <1>5 DEF AnswerAnyway

-----------------------------------------------------------------------------
(* The program starts.                                                      *)

(* The workspaces given back have no identifier in common.                  *)
LEMMA RestoredOK ==
  ASSUME SessionInv
  PROVE  /\ Agree(Restored) /\ \E b \in Nat : AllOf(Restored) \subseteq 1..b
         /\ \A d \in ListedIn(Restored) : d.path \in Path
<1>1. CASE session = NoSession
  <2>1. Restored = [i \in Index |-> EmptyWorkspace]
    BY <1>1 DEF Restored
  <2>2. Agree(Restored) /\ AllOf(Restored) = {}
    BY <2>1, NobodyOpen
  <2>3. ListedIn(Restored) = {}
    <3>1. \A i \in Index : Range(Restored[i].documents) = {}
                           /\ Range(Restored[i].recentlyClosed) = {}
      BY <2>1 DEF EmptyWorkspace, Range
    <3> QED BY <3>1 DEF ListedIn
  <2> QED BY <2>2, <2>3
<1>2. CASE session # NoSession
  <2>1. SessionAgrees(session)
    BY <1>2 DEF SessionInv
  <2>2. \A i \in Index : Restored[i] = RestoreWorkspaceSession(session[i])
    BY <1>2 DEF Restored
  <2>3. ASSUME NEW i \in Index
        PROVE  /\ Separate(Restored[i]) /\ AllIds(Restored[i]) \subseteq AllIds(session[i])
               /\ \A d \in Range(Restored[i].documents) \cup Range(Restored[i].recentlyClosed) :
                    d.path \in Path
    <3>1. PICK s : s = session[i]
      OBVIOUS
    <3>2. s \in Snapshot /\ SnapshotOK(s)
      BY <2>1, <3>1 DEF SessionAgrees
    <3>3. Separate(RestoreWorkspaceSession(s)) /\ AllIds(RestoreWorkspaceSession(s)) \subseteq AllIds(s)
      BY <3>2, RestoredSeparate
    <3>4. \A d \in Range(RestoreWorkspaceSession(s).documents)
                     \cup Range(RestoreWorkspaceSession(s).recentlyClosed) : d.path \in Path
      BY <3>2, RestoredPaths
    <3> QED BY <2>2, <3>1, <3>3, <3>4
  <2>4. Restored \in [Index -> Workspace]
    <3>1. \A i \in Index : Restored[i] \in Workspace
      BY <2>3 DEF Separate, WellFormed
    <3>2. Restored = [i \in Index |-> Restored[i]]
      BY DEF Restored
    <3> QED BY <3>1, <3>2
  <2>5. AllIds(Restored[1]) \cap AllIds(Restored[2]) = {}
    BY <2>1, <2>3 DEF SessionAgrees, Index
  <2>6. \E b \in Nat : AllOf(Restored) \subseteq 1..b
    BY <2>1, <2>3 DEF SessionAgrees, AllOf, Index
  <2>7. \A d \in ListedIn(Restored) : d.path \in Path
    BY <2>3 DEF ListedIn
  <2> QED BY <2>3, <2>4, <2>5, <2>6, <2>7 DEF Agree
<1> QED BY <1>1, <1>2

(* A list in the place of an empty one.                                     *)
LEMMA ListGiven ==
  ASSUME NEW w, Separate(w), NEW s \in Entries, NEW a \in IdsOf(s), s # <<>>,
         IdsOf(s) \cap IdsOf(w.recentlyClosed) = {}
  PROVE  LET v == [w EXCEPT !.documents = s, !.active = a]
         IN  Separate(v) /\ AllIds(v) = IdsOf(s) \cup IdsOf(w.recentlyClosed)
<1>1. PICK v : v = [w EXCEPT !.documents = s, !.active = a]
  OBVIOUS
<1>2. w \in Workspace /\ s \in Seq(WorkspaceDocument) /\ DistinctEntries(s)
      /\ HistoryOK(w.recentlyClosed) /\ a \in DocumentId
  BY IdsAreDocumentIds DEF Separate, WellFormed, Entries
<1>3. v \in Workspace /\ v.documents = s /\ v.active = a /\ v.recentlyClosed = w.recentlyClosed
  BY <1>1, <1>2 DEF Workspace
<1>4. WellFormed(v)
  BY <1>2, <1>3 DEF WellFormed, ActiveOpen
<1>5. Separate(v) /\ AllIds(v) = IdsOf(s) \cup IdsOf(w.recentlyClosed)
  BY <1>3, <1>4 DEF Separate, AllIds
<1> QED BY <1>1, <1>5

(* The three untitled documents of an empty start.                          *)
LEMMA WelcomeAgrees ==
  ASSUME NEW ms, Agree(ms), NEW n \in Nat \ {0}, AllOf(ms) \subseteq 1..n - 1,
         n..n + 2 \subseteq DocumentId
  PROVE  /\ Agree(Welcome(ms, n))
         /\ AllOf(Welcome(ms, n)) \subseteq AllOf(ms) \cup n..n + 2
<1> DEFINE U(id) == [id |-> id, path |-> NoPath, dirty |-> FALSE]
           s == <<U(n), U(n + 1)>>
           t == <<U(n + 2)>>
           a == [ms[1] EXCEPT !.documents = s, !.active = n + 1]
           b == [ms[2] EXCEPT !.documents = t, !.active = n + 2]
           v == Welcome(ms, n)
<1>1. /\ n \in n..n + 2 /\ n + 1 \in n..n + 2 /\ n + 2 \in n..n + 2
      /\ n # n + 1 /\ n # n + 2 /\ n + 1 # n + 2
  OBVIOUS
<1>2. U(n) \in WorkspaceDocument /\ U(n + 1) \in WorkspaceDocument /\ U(n + 2) \in WorkspaceDocument
  BY <1>1 DEF WorkspaceDocument
<1>3. \A x \in WorkspaceDocument : x.path = NoPath => \A p : ~SamePath(x.path, p)
  BY DEF SamePath
<1>4. s \in Entries /\ s # <<>> /\ IdsOf(s) = {n, n + 1}
  <2>1. s \in Seq(WorkspaceDocument) /\ DOMAIN s = {1, 2} /\ s[1] = U(n) /\ s[2] = U(n + 1)
    BY <1>2
  <2>2. U(n).id = n /\ U(n + 1).id = n + 1 /\ U(n).path = NoPath /\ U(n + 1).path = NoPath
    OBVIOUS
  <2> HIDE DEF s, U
  <2>3. DistinctEntries(s)
    BY <1>1, <1>2, <1>3, <2>1, <2>2 DEF DistinctEntries
  <2>4. IdsOf(s) = {n, n + 1}
    BY <2>1, <2>2 DEF IdsOf
  <2>5. s # <<>>
    BY <2>4, NoIds
  <2> QED BY <2>1, <2>3, <2>4, <2>5 DEF Entries
<1>5. t \in Entries /\ t # <<>> /\ IdsOf(t) = {n + 2}
  <2>1. t \in Seq(WorkspaceDocument) /\ DOMAIN t = {1} /\ t[1] = U(n + 2)
    BY <1>2
  <2>2. U(n + 2).id = n + 2
    OBVIOUS
  <2> HIDE DEF t, U
  <2>3. DistinctEntries(t)
    BY <2>1 DEF DistinctEntries
  <2>4. IdsOf(t) = {n + 2}
    BY <2>1, <2>2 DEF IdsOf
  <2>5. t # <<>>
    BY <2>4, NoIds
  <2> QED BY <2>1, <2>3, <2>4, <2>5 DEF Entries
<1>6. v = [i \in Index |-> [ms[i] EXCEPT !.documents = IF i = 1 THEN s ELSE t, !.active = n + i]]
  BY DEF Welcome
<1> HIDE DEF s, t
<1>7. v[1] = a /\ v[2] = b
  BY <1>6 DEF Index
<1>8. n \notin AllOf(ms) /\ n + 1 \notin AllOf(ms) /\ n + 2 \notin AllOf(ms)
  <2>1. n \notin 1..n - 1 /\ n + 1 \notin 1..n - 1 /\ n + 2 \notin 1..n - 1
    OBVIOUS
  <2> QED BY <2>1
<1>9. Separate(ms[1]) /\ Separate(ms[2]) /\ AllIds(ms[1]) \cap AllIds(ms[2]) = {}
  BY DEF Agree, Index
<1> HIDE DEF v
<1>10. Separate(a) /\ AllIds(a) = {n, n + 1} \cup IdsOf(ms[1].recentlyClosed)
  <2>1. IdsOf(s) \cap IdsOf(ms[1].recentlyClosed) = {} /\ n + 1 \in IdsOf(s)
    BY <1>4, <1>8 DEF AllOf, AllIds
  <2> QED BY <1>4, <1>9, <2>1, ListGiven
<1>11. Separate(b) /\ AllIds(b) = {n + 2} \cup IdsOf(ms[2].recentlyClosed)
  <2>1. IdsOf(t) \cap IdsOf(ms[2].recentlyClosed) = {} /\ n + 2 \in IdsOf(t)
    BY <1>5, <1>8 DEF AllOf, AllIds
  <2> QED BY <1>5, <1>9, <2>1, ListGiven
<1> HIDE DEF a, b
<1>12. v \in [Index -> Workspace]
  <2>1. v[1] \in Workspace /\ v[2] \in Workspace
    BY <1>7, <1>10, <1>11 DEF Separate, WellFormed
  <2>2. v = [i \in Index |-> v[i]]
    BY DEF v, Welcome
  <2> QED BY <2>1, <2>2 DEF Index
<1>13. AllIds(v[1]) \cap AllIds(v[2]) = {}
  BY <1>1, <1>7, <1>8, <1>9, <1>10, <1>11 DEF AllOf, AllIds
<1>14. AllOf(v) \subseteq AllOf(ms) \cup n..n + 2
  BY <1>1, <1>7, <1>10, <1>11 DEF AllOf, AllIds
<1> QED BY <1>7, <1>10, <1>11, <1>12, <1>13, <1>14 DEF Agree, Index, v

(* The texts read at the start: under the identifiers given back.           *)
LEMMA TextsReadOK ==
  ASSUME NEW ms, \A d \in ListedIn(ms) : d.path \in Path,
         disk \in [Path -> 0..MaxClock]
  PROVE  /\ DOMAIN TextsRead(ms) = AllOf(ms)
         /\ \A id \in AllOf(ms) :
              /\ TextsRead(ms)[id] \in [text : Nat, stamp : Nat]
              /\ TextsRead(ms)[id].text = TextsRead(ms)[id].stamp
              /\ \E d \in ListedIn(ms) : d.id = id /\ TextsRead(ms)[id].text = disk[d.path]
<1> DEFINE chosen(id) == CHOOSE e \in ListedIn(ms) : e.id = id
           r == TextsRead(ms)
<1>1. AllOf(ms) = {d.id : d \in ListedIn(ms)}
  BY ListedIds
<1>2. r = [id \in {d.id : d \in ListedIn(ms)} |->
             [text |-> disk[chosen(id).path], stamp |-> disk[chosen(id).path]]]
  BY DEF TextsRead
<1>3. \A id \in AllOf(ms) : chosen(id) \in ListedIn(ms) /\ chosen(id).id = id
  BY <1>1
<1> HIDE DEF chosen, r
<1>4. DOMAIN r = AllOf(ms)
  BY <1>1, <1>2
<1>5. ASSUME NEW id \in AllOf(ms)
      PROVE  /\ r[id] \in [text : Nat, stamp : Nat] /\ r[id].text = r[id].stamp
             /\ \E d \in ListedIn(ms) : d.id = id /\ r[id].text = disk[d.path]
  <2>1. PICK d : d = chosen(id)
    OBVIOUS
  <2>2. d \in ListedIn(ms) /\ d.id = id
    BY <1>3, <2>1
  <2>3. disk[d.path] \in Nat
    BY <2>2, ProgramAssumption
  <2>4. PICK e : e = [text |-> disk[d.path], stamp |-> disk[d.path]]
    OBVIOUS
  <2>5. r[id] = e
    BY <1>1, <1>2, <2>1, <2>4
  <2>6. e \in [text : Nat, stamp : Nat] /\ e.text = disk[d.path] /\ e.stamp = disk[d.path]
    BY <2>3, <2>4
  <2> QED BY <2>2, <2>5, <2>6
<1> QED BY <1>4, <1>5 DEF r

(* The start: every document given back has its text.                       *)
LEMMA StartEffect ==
  ASSUME ProgramInv, ProgramStarts
  PROVE  Effect
<1> DEFINE n == NextIdAfter(Restored)
           read == TextsRead(Restored)
           empty == Restored[1].documents = <<>> /\ Restored[2].documents = <<>>
<1>1. /\ Agree(Restored) /\ \A d \in ListedIn(Restored) : d.path \in Path
      /\ disk \in [Path -> 0..MaxClock]
  BY RestoredOK DEF ProgramInv, ProgramTypeOK
<1>2. PICK b \in Nat : AllOf(Restored) \subseteq 1..b
  BY RestoredOK DEF ProgramInv
<1>3. n \in Nat \ {0} /\ AllOf(Restored) \subseteq 1..n - 1
  BY <1>2, NextIdProperties
<1>4. /\ DOMAIN read = AllOf(Restored)
      /\ \A id \in AllOf(Restored) :
           read[id] \in [text : Nat, stamp : Nat] /\ read[id].text = read[id].stamp
  BY <1>1, TextsReadOK
<1>5. /\ ~ProgramRuns /\ asking' = <<>>
      /\ empty => n..n + 2 \subseteq DocumentId
      /\ models' = IF empty THEN Welcome(Restored, n) ELSE Restored
      /\ contents' = IF empty
                     THEN [id \in DOMAIN read \cup n..n + 2 |->
                             IF id \in DOMAIN read THEN read[id] ELSE NoText]
                     ELSE read
      /\ nextId' = IF empty THEN n + 3 ELSE n
  BY DEF ProgramStarts
<1> HIDE DEF n, read, empty
<1>6. ListsInv'
  <2>1. CASE empty
    <3>1. /\ models' = Welcome(Restored, n) /\ nextId' = n + 3
          /\ contents' = [id \in DOMAIN read \cup n..n + 2 |->
                             IF id \in DOMAIN read THEN read[id] ELSE NoText]
          /\ n..n + 2 \subseteq DocumentId
      BY <1>5, <2>1
    <3>2. Agree(models') /\ AllOf(models') \subseteq AllOf(Restored) \cup n..n + 2
      BY <1>1, <1>3, <3>1, WelcomeAgrees
    <3>3. DOMAIN contents' = AllOf(Restored) \cup n..n + 2
      BY <1>4, <3>1
    <3>4. AllOf(Restored) \cup n..n + 2 \subseteq 1..nextId' - 1
      <4>1. 1..n - 1 \subseteq 1..n + 2 /\ n..n + 2 \subseteq 1..n + 2 /\ nextId' - 1 = n + 2
        BY <1>3, <3>1
      <4> QED BY <1>3, <4>1
    <3>5. TextsOK'
      <4>1. NoText \in [text : Nat, stamp : Nat] /\ NoText.text = 0
        BY DEF NoText
      <4> QED BY <1>4, <3>1, <4>1 DEF TextsOK
    <3>6. nextId' \in Nat \ {0}
      BY <1>3, <3>1
    <3> QED BY <3>2, <3>3, <3>4, <3>5, <3>6 DEF ListsInv
  <2>2. CASE ~empty
    <3>1. models' = Restored /\ nextId' = n /\ contents' = read
      BY <1>5, <2>2
    <3>2. TextsOK'
      BY <1>4, <3>1 DEF TextsOK
    <3> QED BY <1>1, <1>3, <1>4, <3>1, <3>2 DEF ListsInv
  <2> QED BY <2>1, <2>2
<1>7. Lost = {}
  <2>1. models = [i \in Index |-> EmptyWorkspace]
    BY <1>5 DEF ProgramInv
  <2>2. \A i \in Index : DirtyIn(models, i) = {}
    BY <2>1 DEF DirtyIn, EmptyWorkspace, Range
  <2> QED BY <2>2 DEF Lost, Dirty, Index
<1>8. Orderly(asking', models')
  BY <1>5 DEF Orderly
<1> QED BY <1>6, <1>7, <1>8 DEF Effect

-----------------------------------------------------------------------------
(* Every step.                                                              *)

(* Any step.                                                                *)
LEMMA ProgramStepEffect ==
  ASSUME ProgramInv, [ProgramNext]_programVars
  PROVE  Effect
<1>1. CASE UNCHANGED programVars
  <2>1. ListsInv' /\ OnlyGone(Nothing) /\ asking' = asking
    BY <1>1, DocumentsStay DEF ProgramInv, programVars
  <2> QED BY <2>1, QuietEffect DEF ProgramInv
<1>2. CASE ProgramStarts
  BY <1>2, StartEffect
<1>3. CASE ProgramCrashes
  BY <1>3, EndEffect DEF ProgramCrashes
<1>4. CASE ForeignWrite
  <2>1. ListsInv' /\ OnlyGone(Nothing) /\ asking' = asking
    BY <1>4, DocumentsStay DEF ProgramInv, ForeignWrite
  <2> QED BY <2>1, QuietEffect DEF ProgramInv
<1>5. CASE \E i \in Index : New(i) \/ OpenPath(i) \/ EditActive(i)
  BY <1>5, NewEffect, OpenPathEffect, EditEffect
<1>6. CASE \E i \in Index : ActivateTab(i) \/ Reorder(i) \/ MoveActive(i)
  BY <1>6, ActivateTabEffect, ReorderEffect, MoveEffect
<1>7. CASE \E i \in Index : ReopenClosed(i) \/ SaveActive(i) \/ CloseActive(i)
  BY <1>7, ReopenEffect, SaveActiveEffect, CloseActiveEffect
<1>8. CASE AnswerClose \/ AnswerSaveAs \/ ConfirmCloseAll \/ AnswerCloseAll
  BY <1>8, AnswerCloseEffect, AnswerSaveAsEffect, ConfirmCloseAllEffect, AnswerCloseAllEffect
<1>9. CASE ConfirmShutdown \/ AnswerShutdown \/ AnswerAnyway
  BY <1>9, ConfirmShutdownEffect, AnswerShutdownEffect, AnswerAnywayEffect
<1> QED
  BY <1>1, <1>2, <1>3, <1>4, <1>5, <1>6, <1>7, <1>8, <1>9 DEF ProgramNext

(* What a step does to the rest: the files, the session, which is written   *)
(* of what there is or left as it is, and the process itself.               *)
FilesOK == clock \in 1..MaxClock /\ disk \in [Path -> 0..MaxClock]

SessionStep == UNCHANGED <<session, leftOpen>> \/ SessionSaved

Rest ==
  /\ FilesOK' /\ SessionStep
  /\ program' \in {"running", "closed", "crashed"} /\ starts' \in 0..MaxStarts
  /\ windows' \subseteq Index
  /\ program' # "running" => models' = [i \in Index |-> EmptyWorkspace]

(* The process goes on.                                                     *)
LEMMA PlainRest ==
  ASSUME ProgramInv, UNCHANGED <<program, starts>>, windows' \subseteq windows,
         FilesOK', UNCHANGED <<session, leftOpen>>, ProgramRuns \/ UNCHANGED models
  PROVE  Rest
BY DEF Rest, SessionStep, ProgramInv, ProgramTypeOK, ProgramRuns

(* No file changes.                                                         *)
LEMMA FilesStay ==
  ASSUME ProgramInv, UNCHANGED filesVars
  PROVE  FilesOK' /\ UNCHANGED <<session, leftOpen>>
BY DEF ProgramInv, ProgramTypeOK, FilesOK, filesVars

(* A file is replaced.                                                      *)
LEMMA ReplacesRest ==
  ASSUME ProgramInv, NEW p \in Path, Replaces(p)
  PROVE  FilesOK' /\ UNCHANGED <<session, leftOpen>>
<1>1. clock + 1 \in 1..MaxClock /\ clock + 1 \in 0..MaxClock
  BY ProgramAssumption DEF Replaces, ProgramInv, ProgramTypeOK
<1> QED BY <1>1 DEF Replaces, ProgramInv, ProgramTypeOK, FilesOK

(* A save replaces at most a file.                                          *)
LEMMA SaveRest ==
  ASSUME ProgramInv, NEW i, NEW id, NEW p \in Path, NEW toClose, SaveTo(i, id, p, toClose)
  PROVE  FilesOK' /\ UNCHANGED <<session, leftOpen>>
BY FilesStay, ReplacesRest DEF SaveTo

(* The process ends.                                                        *)
LEMMA EndRest ==
  ASSUME ProgramInv, NEW how \in {"closed", "crashed"}, ProgramEnds(how), SessionStep
  PROVE  Rest
BY DEF Rest, ProgramEnds, ProgramInv, ProgramTypeOK, FilesOK

(* It ends, or asks.                                                        *)
LEMMA EndingRest ==
  ASSUME ProgramInv, ProgramRuns, NEW questions, SaveSessionAndEnd(questions)
  PROVE  Rest
<1>1. CASE SessionSaved /\ ProgramEnds("closed")
  BY <1>1, EndRest DEF SessionStep
<1>2. CASE UNCHANGED <<program, starts, documentVars, windows, filesVars>>
  BY <1>2, FilesStay, PlainRest
<1> QED BY <1>1, <1>2 DEF SaveSessionAndEnd

(* A command.                                                               *)
LEMMA CommandRest ==
  ASSUME ProgramInv, NEW i \in Index,
         \/ New(i) \/ OpenPath(i) \/ EditActive(i) \/ ActivateTab(i) \/ Reorder(i)
         \/ MoveActive(i) \/ ReopenClosed(i) \/ SaveActive(i) \/ CloseActive(i)
  PROVE  Rest
<1>1. ProgramRuns /\ UNCHANGED <<program, starts, windows>>
  BY DEF New, OpenPath, EditActive, ActivateTab, Reorder, MoveActive, ReopenClosed,
         SaveActive, CloseActive, Enabled
<1>2. FilesOK' /\ UNCHANGED <<session, leftOpen>>
  <2>1. CASE UNCHANGED filesVars
    BY <2>1, FilesStay
  <2>2. CASE SaveActive(i)
    <3>1. PICK d : d = ActiveDocument(i)
      OBVIOUS
    <3>2. d \in WorkspaceDocument
      BY <2>2, <3>1, ActiveInWindow DEF SaveActive, ProgramInv, ListsInv
    <3>3. \/ d.path # NoPath /\ SaveTo(i, d.id, d.path, NoDocument)
          \/ UNCHANGED filesVars
      BY <2>2, <3>1 DEF SaveActive
    <3> QED BY <2>1, <3>2, <3>3, SaveRest DEF WorkspaceDocument
  <2>3. UNCHANGED filesVars \/ SaveActive(i)
    BY DEF New, OpenPath, EditActive, ActivateTab, Reorder, MoveActive, ReopenClosed, CloseActive
  <2> QED BY <2>1, <2>2, <2>3
<1> QED BY <1>1, <1>2, PlainRest

(* An answer that may save.                                                 *)
LEMMA AnswerSaveRest ==
  ASSUME ProgramInv, AnswerClose \/ AnswerSaveAs
  PROVE  Rest
<1>1. ProgramRuns /\ UNCHANGED <<program, starts, windows>>
  BY DEF AnswerClose, AnswerSaveAs, Answered
<1>2. CASE AnswerClose
  <2>1. PICK i : i = Top.window
    OBVIOUS
  <2>2. PICK d : d = ActiveDocument(i)
    OBVIOUS
  <2>3. Answered("close")
    BY <1>2 DEF AnswerClose
  <2>4. i \in Index /\ Top.close \in IdsOf(models[i].documents)
    BY <2>1, <2>3, AnsweredQuestion DEF QuestionOK
  <2>5. d \in WorkspaceDocument
    BY <2>2, <2>4, OpenHasActive, ActiveInWindow DEF ProgramInv, ListsInv
  <2>6. \/ UNCHANGED filesVars
        \/ d.path # NoPath /\ SaveTo(i, d.id, d.path, Top.close)
    BY <1>2, <2>1, <2>2 DEF AnswerClose
  <2>7. d.path # NoPath => d.path \in Path
    BY <2>5 DEF WorkspaceDocument
  <2>8. FilesOK' /\ UNCHANGED <<session, leftOpen>>
    BY <2>6, <2>7, FilesStay, SaveRest
  <2> QED BY <1>1, <2>8, PlainRest
<1>3. CASE AnswerSaveAs
  <2>1. FilesOK' /\ UNCHANGED <<session, leftOpen>>
    BY <1>3, FilesStay, SaveRest DEF AnswerSaveAs
  <2> QED BY <1>1, <2>1, PlainRest
<1> QED BY <1>2, <1>3

(* Any step.                                                                *)
LEMMA ProgramStepRest ==
  ASSUME ProgramInv, [ProgramNext]_programVars
  PROVE  Rest
<1>1. CASE UNCHANGED programVars
  BY <1>1, FilesStay, PlainRest DEF programVars, documentVars
<1>2. CASE ProgramStarts
  <2>1. /\ UNCHANGED filesVars /\ program' = "running" /\ starts' = starts + 1
        /\ starts < MaxStarts /\ windows' = Index
    BY <1>2 DEF ProgramStarts
  <2>2. starts' \in 0..MaxStarts
    BY <2>1, ProgramAssumption DEF ProgramInv, ProgramTypeOK
  <2> QED BY <2>1, <2>2, FilesStay DEF Rest, SessionStep
<1>3. CASE ProgramCrashes
  BY <1>3, EndRest DEF ProgramCrashes, SessionStep
<1>4. CASE ForeignWrite
  <2>1. UNCHANGED <<program, starts, documentVars, windows>>
    BY <1>4 DEF ForeignWrite
  <2>2. PICK p \in Path : \/ Replaces(p)
                          \/ disk' = [disk EXCEPT ![p] = 0] /\ UNCHANGED <<clock, session, leftOpen>>
    BY <1>4 DEF ForeignWrite
  <2>3. CASE Replaces(p)
    BY <2>1, <2>3, ReplacesRest, PlainRest DEF documentVars
  <2>4. CASE disk' = [disk EXCEPT ![p] = 0] /\ UNCHANGED <<clock, session, leftOpen>>
    <3>1. FilesOK'
      BY <2>4, ProgramAssumption DEF FilesOK, ProgramInv, ProgramTypeOK
    <3> QED BY <2>1, <2>4, <3>1, PlainRest DEF documentVars
  <2> QED BY <2>2, <2>3, <2>4
<1>5. CASE \E i \in Index :
             \/ New(i) \/ OpenPath(i) \/ EditActive(i) \/ ActivateTab(i) \/ Reorder(i)
             \/ MoveActive(i) \/ ReopenClosed(i) \/ SaveActive(i) \/ CloseActive(i)
  BY <1>5, CommandRest
<1>6. CASE AnswerClose \/ AnswerSaveAs
  BY <1>6, AnswerSaveRest
<1>7. CASE ConfirmCloseAll \/ AnswerCloseAll
  <2>1. /\ ProgramRuns /\ UNCHANGED <<program, starts, filesVars>> /\ windows' \subseteq windows
    BY <1>7 DEF ConfirmCloseAll, AnswerCloseAll, Enabled, Answered, SecondaryCloses
  <2> QED BY <2>1, FilesStay, PlainRest
<1>8. CASE ConfirmShutdown \/ AnswerShutdown \/ AnswerAnyway
  <2>1. ProgramRuns
    BY <1>8 DEF ConfirmShutdown, AnswerShutdown, AnswerAnyway, Enabled, Answered
  <2>2. CASE UNCHANGED <<program, starts, documentVars, windows, filesVars>>
    BY <2>1, <2>2, FilesStay, PlainRest
  <2>3. CASE \E questions : SaveSessionAndEnd(questions)
    BY <2>1, <2>3, EndingRest
  <2>4. CASE ProgramEnds("closed") /\ UNCHANGED <<session, leftOpen>>
    BY <2>4, EndRest DEF SessionStep
  <2> QED BY <1>8, <2>2, <2>3, <2>4 DEF ConfirmShutdown, AnswerShutdown, AnswerAnyway
<1> QED
  BY <1>1, <1>2, <1>3, <1>4, <1>5, <1>6, <1>7, <1>8 DEF ProgramNext

(* What was open and saved is in the session just written.                  *)
LEMMA SavedSession ==
  ASSUME ProgramInv, SessionSaved
  PROVE  SessionInv' /\ LeftInv'
<1>1. /\ Agree(models) /\ TextsOK /\ nextId - 1 \in Nat /\ AllOf(models) \subseteq 1..nextId - 1
      /\ AllOf(models) \subseteq DOMAIN contents
  BY DEF ProgramInv, ListsInv
<1>2. PICK s : s = session'
  OBVIOUS
<1>3. s = [i \in Index |-> CaptureWorkspaceSession(i)]
  BY <1>2 DEF SessionSaved
<1>4. SessionAgrees(s)
  BY <1>1, <1>3, CapturedAgrees
<1>5. s # NoSession
  BY <1>4, ProgramAssumption DEF SessionAgrees
<1>6. ASSUME NEW i \in Index, NEW d \in Range(models[i].documents), OnDisk(d)
      PROVE  \E k \in DOMAIN s[i].documents :
               s[i].documents[k].path = d.path /\ s[i].documents[k].stamp = disk[d.path]
  <2>1. s[i].documents = Decorated(models[i].documents)
    BY <1>1, <1>3, CaptureOK
  <2>2. PICK t : t = models[i].documents
    OBVIOUS
  <2>3. t \in Entries /\ DOMAIN t = 1..Len(t)
    BY <1>1, <2>2, SeparateIn, WellFormedFields DEF Separate
  <2>4. PICK k \in 1..Len(t) : t[k] = d
    BY <1>6, <2>2, <2>3 DEF Range
  <2>5. d.id \in DOMAIN contents
    <3>1. d.id \in IdsOf(t)
      BY <2>3, <2>4 DEF IdsOf
    <3> QED BY <1>1, <2>2, <3>1, SeparateIn
  <2>6. contents[d.id].stamp = disk[d.path] /\ disk[d.path] # 0 /\ d.path # NoPath
    BY <1>1, <1>6, <2>5 DEF OnDisk, TextsOK
  <2>7. Storable(t[k])
    BY <2>4, <2>5, <2>6 DEF Storable
  <2>8. /\ Decorated(t) \in Seq(Item)
        /\ \E j \in 1..Len(Decorated(t)) : Decorated(t)[j] = ItemOf(t[k])
    BY <1>1, <2>3, <2>7, DecoratedProperties
  <2>9. PICK r : r = Decorated(t)
    OBVIOUS
  <2>10. PICK j \in 1..Len(r) : r[j] = ItemOf(d)
    BY <2>4, <2>8, <2>9
  <2>11. j \in DOMAIN r /\ r[j].path = d.path /\ r[j].stamp = disk[d.path]
    BY <2>6, <2>8, <2>9, <2>10 DEF ItemOf
  <2> QED BY <2>1, <2>2, <2>9, <2>11
<1>7. leftOpen' = UNION {{[window |-> i, path |-> d.path, version |-> disk[d.path]] :
                          d \in {e \in Range(models[i].documents) : OnDisk(e)}} : i \in Index}
  BY DEF SessionSaved
<1>8. ASSUME NEW e \in leftOpen'
      PROVE  e.window \in Index /\ \E k \in DOMAIN s[e.window].documents :
               s[e.window].documents[k].path = e.path /\ s[e.window].documents[k].stamp = e.version
  <2>1. PICK i \in Index : \E d \in Range(models[i].documents) :
          OnDisk(d) /\ e = [window |-> i, path |-> d.path, version |-> disk[d.path]]
    BY <1>7, <1>8
  <2>2. PICK d \in Range(models[i].documents) :
          OnDisk(d) /\ e = [window |-> i, path |-> d.path, version |-> disk[d.path]]
    BY <2>1
  <2>3. e.window = i /\ e.path = d.path /\ e.version = disk[d.path]
    BY <2>2
  <2> QED BY <1>6, <2>2, <2>3
<1>9. LeftInv'
  BY <1>2, <1>5, <1>8 DEF LeftInv
<1> QED BY <1>2, <1>4, <1>9 DEF SessionInv

(* The session agrees whenever it was written.                              *)
LEMMA SessionKept ==
  ASSUME ProgramInv, SessionStep
  PROVE  SessionInv' /\ LeftInv'
<1>1. CASE UNCHANGED <<session, leftOpen>>
  BY <1>1 DEF ProgramInv, SessionInv, LeftInv
<1>2. CASE SessionSaved
  BY <1>2, SavedSession
<1> QED BY <1>1, <1>2 DEF SessionStep

(* Types follow.                                                            *)
LEMMA AgreeTypes ==
  ASSUME NEW ms, Agree(ms)
  PROVE  \A i \in Index : ms[i].documents \in Seq(Document)
                          /\ ms[i].recentlyClosed \in Seq(Document)
<1>1. Document = WorkspaceDocument
  BY DEF Document, WorkspaceDocument
<1>2. \A i \in Index : ms[i].documents \in Seq(WorkspaceDocument)
                       /\ ms[i].recentlyClosed \in Seq(WorkspaceDocument)
  BY DEF Agree, Workspace
<1> QED BY <1>1, <1>2

(* Whatever the windows, questions, crashes and restarts: identifiers are   *)
(* not shared, every document has contents, questions are about documents   *)
(* that are there, and the session file can be restored.                    *)
THEOREM ProgramInvariance == ProgramSpec => []ProgramInv
<1>1. ProgramInit => ProgramInv
  <2> SUFFICES ASSUME ProgramInit PROVE ProgramInv
    OBVIOUS
  <2>1. /\ models = [i \in Index |-> EmptyWorkspace] /\ contents = <<>> /\ nextId = 1
        /\ asking = <<>> /\ session = NoSession /\ leftOpen = {}
    BY DEF ProgramInit
  <2>2. Agree(models) /\ AllOf(models) = {}
    BY <2>1, NobodyOpen
  <2>3. ListsInv
    BY <2>1, <2>2 DEF ListsInv, TextsOK
  <2>4. ProgramTypeOK
    <3>1. disk \in [Path -> 0..MaxClock]
      BY ProgramAssumption DEF ProgramInit
    <3> QED BY <2>2, <3>1, AgreeTypes, ProgramAssumption DEF ProgramInit, ProgramTypeOK
  <2>5. Orderly(asking, models)
    BY <2>1 DEF Orderly
  <2> QED BY <2>1, <2>3, <2>4, <2>5 DEF ProgramInv, SessionInv, LeftInv
<1>2. ProgramInv /\ [ProgramNext]_programVars => ProgramInv'
  <2> SUFFICES ASSUME ProgramInv, [ProgramNext]_programVars PROVE ProgramInv'
    OBVIOUS
  <2>1. Effect /\ Rest
    BY ProgramStepEffect, ProgramStepRest
  <2>2. ListsInv' /\ Orderly(asking', models') /\ Agree(models') /\ nextId' \in Nat
    BY <2>1 DEF Effect, ListsInv
  <2>3. ProgramTypeOK'
    <3>1. \A i \in Index : models'[i].documents \in Seq(Document)
                           /\ models'[i].recentlyClosed \in Seq(Document)
      BY <2>2, AgreeTypes
    <3> QED BY <2>1, <2>2, <3>1 DEF Rest, FilesOK, ProgramTypeOK
  <2>4. SessionInv' /\ LeftInv'
    BY <2>1, SessionKept DEF Rest
  <2> QED BY <2>1, <2>2, <2>3, <2>4 DEF ProgramInv, Rest, ProgramRuns
<1> QED
  BY <1>1, <1>2, PTL DEF ProgramSpec

-----------------------------------------------------------------------------
(* The properties of the program.                                           *)

OwnIds(s) == \A j, k \in 1..Len(s) : j # k => s[j].id # s[k].id

(* Lists that share no identifier, one after the other.                     *)
LEMMA JoinedIds ==
  ASSUME NEW S, NEW s \in Seq(S), NEW t \in Seq(S), OwnIds(s), OwnIds(t),
         IdsOf(s) \cap IdsOf(t) = {}
  PROVE  s \o t \in Seq(S) /\ OwnIds(s \o t) /\ IdsOf(s \o t) = IdsOf(s) \cup IdsOf(t)
<1> DEFINE u == s \o t
           m == Len(s)
           n == Len(t)
<1>1. /\ u \in Seq(S) /\ Len(u) = m + n /\ m \in Nat /\ n \in Nat
      /\ DOMAIN u = 1..m + n /\ DOMAIN s = 1..m /\ DOMAIN t = 1..n
      /\ \A k \in 1..m + n : u[k] = IF k <= m THEN s[k] ELSE t[k - m]
  <2>1. /\ u \in Seq(S) /\ Len(u) = m + n
        /\ \A k \in 1..m + n : u[k] = IF k <= m THEN s[k] ELSE t[k - m]
    BY ConcatProperties
  <2> QED BY <2>1
<1> HIDE DEF u, m, n
<1>2. ASSUME NEW k \in 1..m + n, k <= m
      PROVE  k \in 1..m /\ u[k] = s[k] /\ u[k].id \in IdsOf(s)
  <2>1. k \in 1..m /\ u[k] = s[k]
    BY <1>1, <1>2
  <2> QED BY <1>1, <2>1 DEF IdsOf
<1>3. ASSUME NEW k \in 1..m + n, ~(k <= m)
      PROVE  k - m \in 1..n /\ u[k] = t[k - m] /\ u[k].id \in IdsOf(t)
  <2>1. k - m \in 1..n /\ u[k] = t[k - m]
    <3>1. m \in Nat /\ n \in Nat
      BY <1>1
    <3>2. k \in Nat /\ k <= m + n /\ m < k
      BY <1>3, <3>1
    <3>3. k - m \in 1..n
      BY <3>1, <3>2
    <3> QED BY <1>1, <1>3, <3>3
  <2> QED BY <1>1, <2>1 DEF IdsOf
<1>4. OwnIds(u)
  <2> SUFFICES ASSUME NEW j \in 1..m + n, NEW k \in 1..m + n, j # k
               PROVE  u[j].id # u[k].id
    BY <1>1 DEF OwnIds
  <2>1. CASE j <= m /\ k <= m
    BY <1>2, <2>1 DEF OwnIds, m
  <2>2. CASE ~(j <= m) /\ ~(k <= m)
    <3>1. j - m # k - m
      BY <1>1
    <3> QED BY <1>3, <2>2, <3>1 DEF OwnIds, n
  <2>3. CASE (j <= m) # (k <= m)
    BY <1>2, <1>3, <2>3
  <2> QED BY <2>1, <2>2, <2>3
<1>5. IdsOf(u) = IdsOf(s) \cup IdsOf(t)
  <2>1. IdsOf(u) \subseteq IdsOf(s) \cup IdsOf(t)
    BY <1>1, <1>2, <1>3 DEF IdsOf
  <2>2. \A k \in 1..m : k \in 1..m + n /\ u[k] = s[k]
    BY <1>1
  <2>3. \A k \in 1..n : m + k \in 1..m + n /\ u[m + k] = t[k]
    BY <1>1
  <2>4. IdsOf(s) \subseteq IdsOf(u)
    BY <1>1, <2>2 DEF IdsOf
  <2>5. IdsOf(t) \subseteq IdsOf(u)
    BY <1>1, <2>3 DEF IdsOf
  <2> QED BY <2>1, <2>4, <2>5
<1> QED BY <1>1, <1>4, <1>5 DEF u, m, n

(* NextIdAfter, the moves between the windows and the restored session:     *)
(* every document of the program, open or remembered, has its own           *)
(* identifier, contents under it, and no new document is given it.          *)
THEOREM DocumentsKeepContents == ProgramSpec => []DocumentsKeepTheirContents
<1>1. ProgramInv => DocumentsKeepTheirContents
  <2> SUFFICES ASSUME ProgramInv PROVE DocumentsKeepTheirContents
    OBVIOUS
  <2> DEFINE Listed(i) == models[i].documents \o models[i].recentlyClosed
  <2>1. Agree(models) /\ AllOf(models) \subseteq DOMAIN contents \cap 1..nextId - 1
        /\ ProgramTypeOK
    BY DEF ProgramInv, ListsInv
  <2>2. ASSUME NEW i \in Index
        PROVE  Listed(i) \in Seq(WorkspaceDocument) /\ OwnIds(Listed(i))
               /\ IdsOf(Listed(i)) = AllIds(models[i])
    <3>1. PICK w : w = models[i]
      OBVIOUS
    <3>2. Separate(w)
      BY <2>1, <3>1, SeparateIn
    <3>3. /\ w.documents \in Seq(WorkspaceDocument) /\ w.recentlyClosed \in Seq(WorkspaceDocument)
          /\ DistinctEntries(w.documents) /\ DistinctEntries(w.recentlyClosed)
          /\ IdsOf(w.documents) \cap IdsOf(w.recentlyClosed) = {}
      BY <3>2 DEF Separate, WellFormed, Workspace, HistoryOK
    <3>4. OwnIds(w.documents) /\ OwnIds(w.recentlyClosed)
      BY <3>3 DEF OwnIds, DistinctEntries
    <3> QED BY <3>1, <3>3, <3>4, JoinedIds DEF AllIds
  <2>3. PICK s, t : s = Listed(1) /\ t = Listed(2)
    OBVIOUS
  <2>4. /\ s \in Seq(WorkspaceDocument) /\ OwnIds(s) /\ IdsOf(s) = AllIds(models[1])
        /\ t \in Seq(WorkspaceDocument) /\ OwnIds(t) /\ IdsOf(t) = AllIds(models[2])
    BY <2>2, <2>3 DEF Index
  <2>5. IdsOf(s) \cap IdsOf(t) = {}
    BY <2>1, <2>4 DEF Agree
  <2>6. s \o t \in Seq(WorkspaceDocument) /\ OwnIds(s \o t) /\ IdsOf(s \o t) = AllOf(models)
    BY <2>4, <2>5, JoinedIds DEF AllOf
  <2>7. PICK all : all = s \o t
    OBVIOUS
  <2>8. \A j, k \in DOMAIN all : j # k => all[j].id # all[k].id
    BY <2>6, <2>7 DEF OwnIds
  <2>9. IdsOf(all) \subseteq DOMAIN contents \cap 1..nextId - 1
    BY <2>1, <2>6, <2>7
  <2> QED BY <2>1, <2>3, <2>7, <2>8, <2>9 DEF DocumentsKeepTheirContents
<1> QED BY <1>1, ProgramInvariance, PTL

(* A document with unsaved changes leaves the program only through the      *)
(* answer to a question about it, whatever was done in the other window     *)
(* while the question was on the screen.                                    *)
THEOREM NothingDiscardedUnasked == ProgramSpec => DiscardedAsAnswered
<1>1. ProgramInv /\ [ProgramNext]_programVars =>
        [program' # "crashed" =>
           Dirty(models) \ (IdsOf(models'[1].documents) \cup IdsOf(models'[2].documents))
             \subseteq Covered]_programVars
  BY ProgramStepEffect DEF Effect, Lost
<1> QED
  BY <1>1, ProgramInvariance, PTL DEF ProgramSpec, DiscardedAsAnswered

(* Only a start makes the program run.                                      *)
LEMMA OnlyStartRuns ==
  ASSUME [ProgramNext]_programVars, ~ProgramRuns, program' = "running"
  PROVE  ProgramStarts
<1>1. program' # program
  BY DEF ProgramRuns
<1>2. ~UNCHANGED programVars /\ ~ForeignWrite
  BY <1>1 DEF programVars, ForeignWrite
<1>3. \A i \in Index :
        /\ ~New(i) /\ ~OpenPath(i) /\ ~EditActive(i) /\ ~ActivateTab(i) /\ ~Reorder(i)
        /\ ~MoveActive(i) /\ ~ReopenClosed(i) /\ ~SaveActive(i) /\ ~CloseActive(i)
  BY DEF New, OpenPath, EditActive, ActivateTab, Reorder, MoveActive, ReopenClosed,
         SaveActive, CloseActive, Enabled
<1>4. /\ ~AnswerClose /\ ~AnswerSaveAs /\ ~ConfirmCloseAll /\ ~AnswerCloseAll
      /\ ~ConfirmShutdown /\ ~AnswerShutdown /\ ~AnswerAnyway /\ ~ProgramCrashes
  BY DEF AnswerClose, AnswerSaveAs, ConfirmCloseAll, AnswerCloseAll, ConfirmShutdown,
         AnswerShutdown, AnswerAnyway, ProgramCrashes, Enabled, Answered
<1> QED BY <1>2, <1>3, <1>4 DEF ProgramNext

(* What the start opens, with its text.                                     *)
LEMMA StartGivesBack ==
  ASSUME ProgramInv, ProgramStarts, NEW e \in leftOpen, disk[e.path] = e.version,
         ~Clashes(session[e.window])
  PROVE  \E d \in Range(models'[e.window].documents) :
           d.path = e.path /\ ~d.dirty /\ contents'[d.id].text = e.version
<1>1. PICK i, s : i = e.window /\ s = session[i]
  OBVIOUS
<1>2. /\ session # NoSession /\ i \in Index
      /\ \E k \in DOMAIN s.documents :
           s.documents[k].path = e.path /\ s.documents[k].stamp = e.version
  BY <1>1 DEF ProgramInv, LeftInv
<1>3. s \in Snapshot /\ SnapshotOK(s) /\ ~Clashes(s)
  BY <1>1, <1>2 DEF ProgramInv, SessionInv, SessionAgrees
<1>4. \E d \in Range(RestoreWorkspaceSession(s).documents) : d.path = e.path /\ ~d.dirty
  <2>1. PICK k \in DOMAIN s.documents :
          s.documents[k].path = e.path /\ s.documents[k].stamp = e.version
    BY <1>2
  <2>2. disk[s.documents[k].path] = s.documents[k].stamp
    BY <2>1
  <2> QED BY <1>3, <2>1, <2>2, GivenBack
<1>5. Restored[i] = RestoreWorkspaceSession(s)
  BY <1>1, <1>2 DEF Restored
<1>6. PICK d \in Range(Restored[i].documents) : d.path = e.path /\ ~d.dirty
  BY <1>4, <1>5
<1>7. Restored[i].documents # <<>>
  <2>1. Range(<<>>) = {}
    BY DEF Range
  <2> QED BY <1>6, <2>1
<1>8. ~(Restored[1].documents = <<>> /\ Restored[2].documents = <<>>)
  BY <1>2, <1>7 DEF Index
<1>9. models' = Restored /\ contents' = TextsRead(Restored)
  BY <1>8 DEF ProgramStarts
<1>10. contents'[d.id].text = e.version
  <2>1. /\ Agree(Restored) /\ \A f \in ListedIn(Restored) : f.path \in Path
        /\ disk \in [Path -> 0..MaxClock]
    BY RestoredOK DEF ProgramInv, ProgramTypeOK
  <2>2. d \in ListedIn(Restored)
    BY <1>2, <1>6 DEF ListedIn
  <2>3. d.id \in AllOf(Restored)
    BY <2>2, ListedIds
  <2>4. PICK f \in ListedIn(Restored) :
          f.id = d.id /\ TextsRead(Restored)[d.id].text = disk[f.path]
    BY <2>1, <2>3, TextsReadOK
  <2>5. f = d
    BY <2>1, <2>2, <2>4, ListedOnce
  <2> QED BY <1>6, <1>9, <2>4, <2>5
<1> QED BY <1>1, <1>6, <1>9, <1>10

(* The session gives back what it took: a document that was open and saved  *)
(* when the program was closed, in a file nobody has touched since, is open *)
(* in its window after the next start, with that text.                      *)
THEOREM SessionReturns == ProgramSpec => SessionGivesBack
<1>1. ProgramInv /\ [ProgramNext]_programVars =>
        [~ProgramRuns /\ program' = "running" =>
           \A e \in leftOpen :
             disk[e.path] = e.version /\ ~Clashes(session[e.window]) =>
               \E d \in Range(models'[e.window].documents) :
                 d.path = e.path /\ ~d.dirty /\ contents'[d.id].text = e.version]_programVars
  <2> SUFFICES ASSUME ProgramInv, [ProgramNext]_programVars, ~ProgramRuns, program' = "running"
               PROVE  \A e \in leftOpen :
                        disk[e.path] = e.version /\ ~Clashes(session[e.window]) =>
                          \E d \in Range(models'[e.window].documents) :
                            d.path = e.path /\ ~d.dirty /\ contents'[d.id].text = e.version
    OBVIOUS
  <2>1. ProgramStarts
    BY OnlyStartRuns
  <2> QED BY <2>1, StartGivesBack
<1> QED
  BY <1>1, ProgramInvariance, PTL DEF ProgramSpec, SessionGivesBack
=============================================================================
