-------------------------- MODULE CoordinatedClose --------------------------
(***************************************************************************)
(* Closing a whole workspace: BuildCoordinatedClosePlan, then either        *)
(* ExecuteCoordinatedClose, which calls the application's save handler for  *)
(* one document after the other, or asynchronous saves followed by          *)
(* CommitCoordinatedCloseAfterSaves.  The user keeps editing and the        *)
(* application keeps calling the workspace while a plan is outstanding and  *)
(* from inside the save handler.                                            *)
(***************************************************************************)
EXTENDS DocumentWorkspace

CONSTANT NoPlan        \* no plan is held

VARIABLES
  plan,        \* the CoordinatedClosePlan the application holds
  phase,       \* where the close is
  remaining,   \* plan.save_before_close entries the loop has not finished
  saved,       \* documents the application saved for this plan
  outcome,     \* status of the last coordinated close
  unsaved,     \* documents whose contents differ from the disk
  unnoticed,   \* saved for this plan, then edited without counting a revision
  inspected    \* the workspace the plan was built from

closeVars == <<plan, phase, remaining, saved, outcome, inspected>>
allVars == <<workspace, closeVars, unsaved, unnoticed>>

Choice == {"save", "discard", "cancel"}
Phase == {"idle", "planned", "calling", "written"}
Outcome == {"none", "success", "stale_workspace", "save_failed"}
PlanStatus == {"ready", "invalid_argument", "incomplete_decisions", "cancelled"}

Plan == [status : PlanStatus, revision : Nat, save : Seq(DocumentId),
         close : Seq(DocumentId), discarded : SUBSET DocumentId]

CloseTypeOK ==
  /\ TypeOK
  /\ plan \in Plan \cup {NoPlan}
  /\ phase \in Phase
  /\ remaining \in Seq(DocumentId)
  /\ saved \in SUBSET DocumentId
  /\ outcome \in Outcome
  /\ unsaved \in SUBSET DocumentId
  /\ unnoticed \in SUBSET DocumentId
  /\ inspected \in Workspace

CloseInit ==
  /\ Init
  /\ plan = NoPlan /\ phase = "idle" /\ remaining = <<>> /\ saved = {}
  /\ outcome = "none" /\ unsaved = {} /\ unnoticed = {} /\ inspected = EmptyWorkspace

-----------------------------------------------------------------------------
(* The plan.                                                                *)

IdSequence(s) == [i \in DOMAIN s |-> s[i].id]

DirtyAt == {i \in DOMAIN workspace.documents : workspace.documents[i].dirty}

DirtyIds == {workspace.documents[i].id : i \in DirtyAt}

(* Positions, in tab order, of the dirty documents that stop the plan.      *)
Undecided(decisions) ==
  {i \in DirtyAt : workspace.documents[i].id \notin DOMAIN decisions}
Cancelled(decisions) ==
  {i \in DirtyAt \ Undecided(decisions) :
     decisions[workspace.documents[i].id] = "cancel"}

StatusFor(decisions) ==
  LET stops == Undecided(decisions) \cup Cancelled(decisions)
  IN  IF ~(DOMAIN decisions \subseteq DirtyIds) THEN "invalid_argument"
      ELSE IF stops = {} THEN "ready"
      ELSE IF Min(stops) \in Undecided(decisions) THEN "incomplete_decisions"
      ELSE "cancelled"

Chosen(decisions, choice) == {id \in DOMAIN decisions : decisions[id] = choice}

(* What the application may be asked about: open documents, and any other.  *)
Known == IdsOf(workspace.documents) \cup {d.id : d \in Addable}

(* Seeded fault: the plan closes only the documents that were asked about.  *)
ReadyPlanOfDecided(decisions) ==
  LET s == workspace.documents
      Decided(choice) == {i \in DOMAIN s : s[i].id \in Chosen(decisions, choice)}
  IN  [status |-> "ready", revision |-> workspace.revision,
       save |-> IdSequence(Picked(s, Decided("save"))),
       close |-> IdSequence(Picked(s, Decided("save") \cup Decided("discard"))),
       discarded |-> Chosen(decisions, "discard")]

ReadyPlan(decisions) ==
  LET s == workspace.documents
      toSave == {i \in DOMAIN s : s[i].id \in Chosen(decisions, "save")}
  IN  [status |-> "ready", revision |-> workspace.revision,
       save |-> IdSequence(Picked(s, toSave)), close |-> IdSequence(s),
       discarded |-> Chosen(decisions, "discard")]

(* Nothing reads the lists of a plan that is not ready.                     *)
RejectedPlan(status) ==
  [status |-> status, revision |-> workspace.revision,
   save |-> <<>>, close |-> <<>>, discarded |-> {}]

BuildPlan ==
  /\ phase \in {"idle", "planned"}
  /\ \E asked \in SUBSET Known : \E decisions \in [asked -> Choice] :
       plan' = IF StatusFor(decisions) = "ready" THEN ReadyPlan(decisions)
               ELSE RejectedPlan(StatusFor(decisions))
  /\ phase' = "planned"
  /\ inspected' = workspace
  /\ saved' = {} /\ remaining' = <<>> /\ outcome' = "none" /\ unnoticed' = {}
  /\ UNCHANGED <<workspace, unsaved>>

(* The application still holds the plan: after a failure it may try again.  *)
EndWith(status) ==
  /\ outcome' = status
  /\ phase' = "planned" /\ remaining' = <<>> /\ saved' = {} /\ unnoticed' = {}
  /\ UNCHANGED <<plan, inspected>>

Ready == phase = "planned" /\ plan.status = "ready"

(* Seeded fault: the revision is not compared.                              *)
CurrentAlways == TRUE

Current == workspace.revision = plan.revision

(* CommitCoordinatedCloseAfterSaves                                         *)
Commit ==
  \/ /\ ~Current
     /\ EndWith("stale_workspace") /\ UNCHANGED <<workspace, unsaved>>
  \/ /\ Current
     /\ EndWith("success")
     /\ workspace' = IF plan.close = <<>> THEN workspace
                     ELSE ClosedMany(workspace, Range(plan.close))
     /\ unsaved' = unsaved \cap IdsOf(workspace'.documents)

-----------------------------------------------------------------------------
(* ExecuteCoordinatedClose: one save callback at a time.                    *)

StartExecute ==
  /\ Ready /\ saved = {}
  /\ \/ /\ ~Current
        /\ EndWith("stale_workspace") /\ UNCHANGED <<workspace, unsaved>>
     \/ /\ Current /\ plan.save = <<>>
        /\ Commit
     \/ /\ Current /\ plan.save # <<>>
        /\ phase' = "calling" /\ remaining' = plan.save
        /\ UNCHANGED <<plan, saved, outcome, inspected, workspace, unsaved, unnoticed>>

(* The handler writes the document it was called for; a handler may also    *)
(* clear its dirty flag.                                                    *)
HandlerWrites ==
  /\ phase = "calling"
  /\ phase' = "written"
  /\ unsaved' = unsaved \ {Head(remaining)}
  /\ saved' = saved \cup {Head(remaining)}
  /\ workspace' \in {workspace} \cup
       IF CanClose(workspace, Head(remaining))
       THEN {DirtySet(workspace, Head(remaining), FALSE)} ELSE {}
  /\ UNCHANGED <<plan, remaining, outcome, inspected, unnoticed>>

(* It returns false or throws, before or after it wrote.                    *)
HandlerFails ==
  /\ phase \in {"calling", "written"}
  /\ EndWith("save_failed") /\ UNCHANGED <<workspace, unsaved>>

HandlerReturns ==
  /\ phase = "written"
  /\ \/ /\ ~Current
        /\ EndWith("stale_workspace") /\ UNCHANGED <<workspace, unsaved>>
     \/ /\ Current /\ Tail(remaining) # <<>>
        /\ phase' = "calling" /\ remaining' = Tail(remaining)
        /\ UNCHANGED <<plan, saved, outcome, inspected, workspace, unsaved, unnoticed>>
     \/ /\ Current /\ Tail(remaining) = <<>>
        /\ Commit

-----------------------------------------------------------------------------
(* The asynchronous workflow: the application completes the saves in any    *)
(* order and commits once all have succeeded.                               *)

AsynchronousSave ==
  /\ Ready
  /\ \E id \in Range(plan.save) \ saved :
       /\ saved' = saved \cup {id}
       /\ unsaved' = unsaved \ {id}
  /\ UNCHANGED <<workspace, plan, phase, remaining, outcome, inspected, unnoticed>>

CommitAfterSaves ==
  /\ Ready /\ saved = Range(plan.save)
  /\ Commit

-----------------------------------------------------------------------------
(* The user and the application, at any time a callback or message may run. *)

(* The edit handler sets the dirty flag and the undo state; each counts a   *)
(* revision only if it changes.                                             *)
Edit ==
  \E id \in IdsOf(workspace.documents) :
    LET marked == DirtySet(workspace, id, TRUE)
    IN  /\ workspace' \in {marked, PresentationSet(marked)}
        /\ unsaved' = unsaved \cup {id}
        /\ unnoticed' = IF id \in saved /\ workspace' = workspace
                        THEN unnoticed \cup {id} ELSE unnoticed
        /\ UNCHANGED closeVars

SaveOne ==
  \E id \in IdsOf(workspace.documents) :
    /\ workspace' = DirtySet(workspace, id, FALSE)
    /\ unsaved' = unsaved \ {id}
    /\ UNCHANGED <<closeVars, unnoticed>>

(* Closing one document is the user's own decision about its contents; one  *)
(* that is added dirty or reopened brings none of this session's edits.     *)
ModelOperation ==
  /\ \/ Add \/ Close \/ CloseMany \/ Move \/ Activate \/ SetPresentation \/ Rename
     \/ ReopenRecentlyClosed \/ RestoreRecentlyClosed \/ ClearRecentlyClosed
  /\ unsaved' = unsaved \cap IdsOf(workspace'.documents)
  /\ UNCHANGED <<closeVars, unnoticed>>

Surroundings ==
  /\ workspace.revision < MaxRevision
  /\ Edit \/ SaveOne \/ ModelOperation

CloseNext ==
  \/ BuildPlan
  \/ StartExecute \/ HandlerWrites \/ HandlerFails \/ HandlerReturns
  \/ AsynchronousSave \/ CommitAfterSaves
  \/ Surroundings

CloseSpec == CloseInit /\ [][CloseNext]_allVars

-----------------------------------------------------------------------------
(* Properties.                                                              *)

Succeeds == outcome # "success" /\ outcome' = "success"

(* What a coordinated close may discard: a document it closes with unsaved  *)
(* contents is one the user chose to discard, or one that was edited after  *)
(* it had been saved for this close, while its dirty flag was still set and *)
(* its undo state stayed.  That edit alone goes by the revision; one of a   *)
(* clean document, of one still to be saved, or one that changes a flag     *)
(* never gets lost.                                                         *)
NoUnsavedWorkLost ==
  [][Succeeds => unsaved \cap IdsOf(workspace.documents)
                   \subseteq plan.discarded \cup unnoticed]_allVars

(* A close that commits finds the documents exactly as they were when the   *)
(* user was asked (same documents, same order, same dirty flags): whatever  *)
(* callbacks and messages did meanwhile, a decision about one state of the  *)
(* workspace is never applied to another.  Its plan keeps its type.         *)
CommitSeesInspectedDocuments ==
  []CloseTypeOK /\
  [][Succeeds => /\ workspace.documents = inspected.documents
                 /\ workspace.active = inspected.active]_allVars

(* A coordinated close closes every document or none: one opened while it   *)
(* was under way is never left behind by a close that reports success.      *)
CloseIsAllOrNothing ==
  [][Succeeds => /\ workspace'.documents = <<>>
                 /\ workspace'.active = NoDocument]_allVars

(* document_coordination.h says of ExecuteCoordinatedClose that "any        *)
(* reentrant workspace mutation leaves all documents open": a close that    *)
(* commits when its last save handler returns has seen none.                *)
AnyReentrantMutationLeavesDocumentsOpen ==
  [][Succeeds /\ phase = "written" =>
       [workspace EXCEPT !.revision = 0] = [inspected EXCEPT !.revision = 0]]_allVars

=============================================================================
