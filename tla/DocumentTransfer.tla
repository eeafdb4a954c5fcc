-------------------------- MODULE DocumentTransfer --------------------------
(***************************************************************************)
(* Moving documents between two workspace windows with the explicit         *)
(* PrepareTransfer / AcceptTransfer / CommitTransfer / RollbackTransfer     *)
(* lifecycle.  The application may do anything else to either workspace     *)
(* between two of the calls; TransferDocument makes all of them in a row.   *)
(***************************************************************************)
EXTENDS WorkspaceWindows

CONSTANT NoTransfer   \* no plan is under way

VARIABLES
  workspaces,  \* [Window -> Workspace]
  transfer,    \* the DocumentTransferPlan under way
  outcome,     \* status of the last call that ended a transfer
  discarded,   \* documents the user closed
  before       \* the destination as AcceptTransfer found it

vars == <<workspaces, transfer, outcome, discarded, before>>

Outcome == {"none", "success", "rejected", "rolled_back", "rollback_failed"}

Transfer ==
  [source : Window, destination : Window, document : WorkspaceDocument,
   index : Nat, wasActive : BOOLEAN, sourceRevision : Nat,
   destinationRevision : Nat, accepted : BOOLEAN]

TransferAssumption == NoTransfer \notin Transfer /\ MaxRevision \in Nat

TypeOK ==
  /\ workspaces \in [Window -> Workspace]
  /\ transfer \in Transfer \cup {NoTransfer}
  /\ outcome \in Outcome
  /\ discarded \in SUBSET DocumentId
  /\ before \in Workspace

Init ==
  /\ workspaces = [w \in Window |-> EmptyWorkspace]
  /\ transfer = NoTransfer /\ outcome = "none" /\ discarded = {}
  /\ before = EmptyWorkspace

OpenIn(w) == IdsOf(workspaces[w].documents)

OpenAnywhere == UNION {OpenIn(w) : w \in Window}

(* The bound: nothing new starts once a revision has reached it.            *)
RevisionsBounded == \A w \in Window : workspaces[w].revision < MaxRevision

Become(w, value) == workspaces' = [workspaces EXCEPT ![w] = value]

-----------------------------------------------------------------------------
(* The transfer calls.                                                      *)

(* Where a plan inserts: index 0 stands for none given, the end by then.    *)
Insertion(w, index) == IF index = 0 THEN Len(w.documents) + 1 ELSE index

PlanFor(from, to, id, k) ==
  LET at == FindIndex(workspaces[from].documents, id)
  IN  [source |-> from, destination |-> to,
       document |-> workspaces[from].documents[at], index |-> k,
       wasActive |-> workspaces[from].active = id,
       sourceRevision |-> workspaces[from].revision,
       destinationRevision |-> 0, accepted |-> FALSE]

EndTransfer(status) ==
  /\ transfer' = NoTransfer /\ before' = EmptyWorkspace
  /\ outcome' = status

PrepareTransfer ==
  /\ transfer = NoTransfer /\ RevisionsBounded
  /\ \E from, to \in Window : \E id \in OpenIn(from) :
       \E k \in 0..Len(workspaces[to].documents) + 1 :
         /\ from # to
         /\ transfer' = PlanFor(from, to, id, k)
  /\ outcome' = "none"
  /\ UNCHANGED <<workspaces, discarded, before>>

(* A rejected plan is dropped.                                              *)
AcceptTransfer ==
  /\ transfer # NoTransfer /\ ~transfer.accepted
  /\ LET to == transfer.destination
         w == workspaces[to]
         k == Insertion(w, transfer.index)
     IN  IF CanAdd(w, transfer.document, k)
         THEN /\ Become(to, Added(w, transfer.document, k))
              /\ transfer' = [transfer EXCEPT !.accepted = TRUE,
                                !.destinationRevision = workspaces'[to].revision]
              /\ before' = w
              /\ UNCHANGED outcome
         ELSE UNCHANGED workspaces /\ EndTransfer("rejected")
  /\ UNCHANGED discarded

(* Seeded fault: the source is not checked for changes since the plan was   *)
(* made.                                                                    *)
CanCommitWhenStale == transfer.document.id \in OpenIn(transfer.source)

CanCommit ==
  /\ workspaces[transfer.source].revision = transfer.sourceRevision
  /\ transfer.document.id \in OpenIn(transfer.source)

CanRollBack ==
  /\ workspaces[transfer.destination].revision = transfer.destinationRevision
  /\ transfer.document.id \in OpenIn(transfer.destination)

(* The source lets go; a moved active document stays the active one.        *)
CommitTransfer ==
  /\ transfer # NoTransfer /\ transfer.accepted
  /\ CanCommit
  /\ LET from == transfer.source
         to == transfer.destination
         id == transfer.document.id
         left == Closed(workspaces[from], id, FALSE)
         arrived == IF transfer.wasActive /\ CanActivate(workspaces[to], id)
                    THEN Activated(workspaces[to], id) ELSE workspaces[to]
     IN  workspaces' = [workspaces EXCEPT ![from] = left, ![to] = arrived]
  /\ EndTransfer("success")
  /\ UNCHANGED discarded

(* A stale source keeps the document, so the destination gives it back,     *)
(* unless its own workspace has changed as well.                            *)
RollbackTransfer ==
  /\ transfer # NoTransfer /\ transfer.accepted
  /\ ~CanCommit
  /\ LET to == transfer.destination
     IN  IF CanRollBack
         THEN /\ Become(to, Closed(workspaces[to], transfer.document.id, FALSE))
              /\ EndTransfer("rolled_back")
         ELSE UNCHANGED workspaces /\ EndTransfer("rollback_failed")
  /\ UNCHANGED discarded

(* Seeded fault: the source lets go before the destination has accepted.    *)
TransferDocumentEagerly ==
  /\ transfer = NoTransfer /\ RevisionsBounded
  /\ \E from, to \in Window : \E id \in OpenIn(from) :
       \E k \in 1..Len(workspaces[to].documents) + 1 :
         LET d == PlanFor(from, to, id, k).document
             left == [workspaces EXCEPT ![from] = Closed(@, id, FALSE)]
         IN  /\ from # to
             /\ IF CanAdd(workspaces[to], d, k)
                THEN /\ workspaces' = [left EXCEPT ![to] = Added(@, d, k)]
                     /\ outcome' = "success"
                ELSE workspaces' = left /\ outcome' = "rejected"
  /\ UNCHANGED <<transfer, discarded, before>>

(* The four calls without a callback between them.                          *)
TransferDocument ==
  /\ transfer = NoTransfer /\ RevisionsBounded
  /\ \E from, to \in Window : \E id \in OpenIn(from) :
       \E k \in 1..Len(workspaces[to].documents) + 1 :
         LET plan == PlanFor(from, to, id, k)
             arrived == Added(workspaces[to], plan.document, k)
         IN  /\ from # to
             /\ IF CanAdd(workspaces[to], plan.document, k)
                THEN /\ workspaces' =
                          [workspaces EXCEPT
                             ![from] = Closed(workspaces[from], id, FALSE),
                             ![to] = IF plan.wasActive
                                     THEN Activated(arrived, id) ELSE arrived]
                     /\ outcome' = "success"
                ELSE UNCHANGED workspaces /\ outcome' = "rejected"
  /\ UNCHANGED <<transfer, discarded, before>>

-----------------------------------------------------------------------------
(* The application's other calls.  A document is opened in one window at a  *)
(* time: identifiers are the application's and it gives each to one file.   *)

Open ==
  \E w \in Window, d \in WorkspaceDocument :
    \E k \in 1..Len(workspaces[w].documents) + 1 :
      /\ d.id \notin OpenAnywhere /\ CanAdd(workspaces[w], d, k)
      /\ Become(w, Added(workspaces[w], d, k))
      /\ discarded' = discarded \ {d.id}

UserCloses ==
  \E w \in Window : \E id \in OpenIn(w) :
    /\ Become(w, Closed(workspaces[w], id, FALSE))
    /\ discarded' = discarded \cup {id}

Change ==
  /\ \E w \in Window : \E id \in OpenIn(w) :
       \/ Become(w, Activated(workspaces[w], id))
       \/ \E dirty \in BOOLEAN : Become(w, DirtySet(workspaces[w], id, dirty))
       \/ \E k \in DOMAIN workspaces[w].documents :
            CanMove(workspaces[w], id, k) /\ Become(w, Moved(workspaces[w], id, k))
       \/ \E p \in Path :
            CanRename(workspaces[w], id, p) /\ Become(w, Renamed(workspaces[w], id, p))
  /\ UNCHANGED discarded

Application ==
  /\ RevisionsBounded
  /\ Open \/ UserCloses \/ Change
  /\ UNCHANGED <<transfer, outcome, before>>

Next ==
  \/ PrepareTransfer \/ AcceptTransfer \/ CommitTransfer \/ RollbackTransfer
  \/ TransferDocument
  \/ Application

Spec == Init /\ [][Next]_vars

-----------------------------------------------------------------------------
(* Properties.                                                              *)

InTransit == IF transfer # NoTransfer /\ transfer.accepted
             THEN {transfer.document.id} ELSE {}

(* A transfer never loses a document: once open, it stays open in at least  *)
(* one window until the user closes it.                                     *)
NoDocumentLost ==
  [][\A id \in DocumentId :
       id \in OpenAnywhere /\ id \notin OpenAnywhere' => id \in discarded']_vars

(* Documents open in more than one window.                                  *)
Shared == {id \in OpenAnywhere : \E v, w \in Window :
                                    v # w /\ id \in OpenIn(v) /\ id \in OpenIn(w)}

(* A document has one owner: it comes to have two only while its transfer   *)
(* is between accept and commit, and a transfer that ends leaves it in one  *)
(* of the two windows, unless it reports that the rollback failed.          *)
SingleOwner ==
  [][/\ Shared' \subseteq Shared \cup InTransit'
     /\ InTransit # {} /\ transfer' = NoTransfer /\ outcome' # "rollback_failed" =>
          InTransit \cap IdsOf(workspaces'[transfer.source].documents)
                    \cap IdsOf(workspaces'[transfer.destination].documents) = {}]_vars

(* What the destination adopted is what the source gave up: the record the  *)
(* source removes at commit is the one the plan copied, not a later one.    *)
CommitMovesCurrentMetadata ==
  [][outcome # "success" /\ outcome' = "success" /\ transfer # NoTransfer =>
       transfer.document \in Range(workspaces[transfer.source].documents)]_vars

(* A transfer that is rolled back leaves the destination's tabs, their      *)
(* order and its active document as they were before it was accepted.       *)
RollbackRestoresDestination ==
  [][outcome # "rolled_back" /\ outcome' = "rolled_back" =>
       LET w == workspaces'[transfer.destination]
       IN  w.documents = before.documents /\ w.active = before.active]_vars

(* No document is lost, none has two owners, the source gives up what the   *)
(* destination adopted, and a rollback leaves nothing there; plan and       *)
(* windows stay well formed.                                                *)
EveryDocumentHasOneOwner ==
  /\ []TypeOK /\ NoDocumentLost /\ SingleOwner
  /\ CommitMovesCurrentMetadata /\ RollbackRestoresDestination
=============================================================================
