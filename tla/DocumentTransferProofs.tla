------------------------ MODULE DocumentTransferProofs ------------------------
(***************************************************************************)
(* Moving documents between any number of windows loses none and leaves     *)
(* each with one owner, whatever the application does between the calls.    *)
(* The calls compare revisions, and the inductive invariant says what an    *)
(* unchanged revision stands for: an unchanged source still has the plan's  *)
(* document, an unchanged destination is what AcceptTransfer made of it.    *)
(***************************************************************************)
EXTENDS DocumentTransfer, WorkspaceLemmas

AllWellFormed ==
  /\ workspaces \in [Window -> Workspace]
  /\ \A w \in Window : WellFormed(workspaces[w])
  /\ WellFormed(before)

PlanIsCurrent ==
  transfer # NoTransfer =>
    /\ transfer.source # transfer.destination
    /\ transfer.sourceRevision <= workspaces[transfer.source].revision
    /\ transfer.sourceRevision = workspaces[transfer.source].revision =>
         transfer.document \in Range(workspaces[transfer.source].documents)

(* What the plan's document is open in, or the user has closed it there.    *)
OpenOrDiscarded(w) == OpenIn(w) \cup discarded

PlannedIsAccountedFor ==
  transfer # NoTransfer => transfer.document.id \in OpenAnywhere \cup discarded

AcceptedIsAccountedFor ==
  transfer # NoTransfer /\ transfer.accepted =>
    /\ transfer.destinationRevision <= workspaces[transfer.destination].revision
    /\ transfer.sourceRevision = workspaces[transfer.source].revision =>
         transfer.document.id \in OpenOrDiscarded(transfer.destination)
    /\ transfer.destinationRevision = workspaces[transfer.destination].revision =>
         \E w \in Window \ {transfer.destination} :
           transfer.document.id \in OpenOrDiscarded(w)

(* The destination is as AcceptTransfer left it.                            *)
AcceptedIsAdded ==
  transfer # NoTransfer /\ transfer.accepted
    /\ transfer.destinationRevision = workspaces[transfer.destination].revision =>
    LET k == Insertion(before, transfer.index)
    IN  /\ CanAdd(before, transfer.document, k)
        /\ workspaces[transfer.destination] = Added(before, transfer.document, k)

TransferInv ==
  /\ TypeOK /\ AllWellFormed
  /\ PlanIsCurrent /\ PlannedIsAccountedFor
  /\ AcceptedIsAccountedFor /\ AcceptedIsAdded

-----------------------------------------------------------------------------
(* Documents and windows.                                                   *)

(* A document that a workspace holds is open in it.                         *)
LEMMA HeldIsOpen ==
  ASSUME NEW s \in Seq(WorkspaceDocument), NEW d \in Range(s)
  PROVE  d.id \in IdsOf(s)
BY DEF Range, IdsOf

LEMMA FoundIsHeld ==
  ASSUME NEW s \in Seq(WorkspaceDocument), NEW id \in IdsOf(s)
  PROVE  /\ s[FindIndex(s, id)] \in Range(s)
         /\ s[FindIndex(s, id)] \in WorkspaceDocument
         /\ s[FindIndex(s, id)].id = id
<1>1. FindIndex(s, id) \in 1..Len(s) /\ s[FindIndex(s, id)].id = id
  BY FindIndexProperties
<1> HIDE DEF FindIndex
<1> QED
  BY <1>1 DEF Range

LEMMA OpenAnywhereProperties ==
  /\ \A w \in Window : OpenIn(w) \subseteq OpenAnywhere
  /\ \A id \in OpenAnywhere : \E w \in Window : id \in OpenIn(w)
BY DEF OpenAnywhere

(* A changed workspace has the documents of w and counts as changed.        *)
ChangedFrom(w, v) ==
  /\ WellFormed(v) /\ IdsOf(v.documents) = IdsOf(w.documents)
  /\ v = w \/ v.revision > w.revision

LEMMA ChangeProperties ==
  ASSUME AllWellFormed, Change
  PROVE  \E w \in Window : \E v : Become(w, v) /\ ChangedFrom(workspaces[w], v)
<1>1. PICK w \in Window : \E id \in OpenIn(w) :
        \/ Become(w, Activated(workspaces[w], id))
        \/ \E dirty \in BOOLEAN : Become(w, DirtySet(workspaces[w], id, dirty))
        \/ \E k \in DOMAIN workspaces[w].documents :
             CanMove(workspaces[w], id, k) /\ Become(w, Moved(workspaces[w], id, k))
        \/ \E p \in Path :
             CanRename(workspaces[w], id, p) /\ Become(w, Renamed(workspaces[w], id, p))
  BY DEF Change
<1>2. PICK id \in OpenIn(w) :
        \/ Become(w, Activated(workspaces[w], id))
        \/ \E dirty \in BOOLEAN : Become(w, DirtySet(workspaces[w], id, dirty))
        \/ \E k \in DOMAIN workspaces[w].documents :
             CanMove(workspaces[w], id, k) /\ Become(w, Moved(workspaces[w], id, k))
        \/ \E p \in Path :
             CanRename(workspaces[w], id, p) /\ Become(w, Renamed(workspaces[w], id, p))
  BY <1>1
<1> DEFINE m == workspaces[w]
<1>3. WellFormed(m) /\ id \in IdsOf(m.documents)
  BY DEF AllWellFormed, OpenIn
<1>4. m.revision \in Nat /\ m.revision + 1 > m.revision
  BY <1>3, WellFormedFields
<1> HIDE DEF m
<1>5. ASSUME Become(w, Activated(m, id))
      PROVE  \E v : Become(w, v) /\ ChangedFrom(m, v)
  <2>1. ChangedFrom(m, Activated(m, id))
    BY <1>3, <1>4, ActivatedWellFormed DEF ChangedFrom
  <2> QED
    BY <1>5, <2>1
<1>6. ASSUME NEW dirty \in BOOLEAN, Become(w, DirtySet(m, id, dirty))
      PROVE  \E v : Become(w, v) /\ ChangedFrom(m, v)
  <2>1. ChangedFrom(m, DirtySet(m, id, dirty))
    BY <1>3, <1>4, DirtySetWellFormed DEF ChangedFrom
  <2> QED
    BY <1>6, <2>1
<1>7. ASSUME NEW k \in DOMAIN m.documents, Become(w, Moved(m, id, k))
      PROVE  \E v : Become(w, v) /\ ChangedFrom(m, v)
  <2>1. ChangedFrom(m, Moved(m, id, k))
    BY <1>3, <1>4, MovedWellFormed DEF ChangedFrom
  <2> QED
    BY <1>7, <2>1
<1>8. ASSUME NEW p \in Path, CanRename(m, id, p), Become(w, Renamed(m, id, p))
      PROVE  \E v : Become(w, v) /\ ChangedFrom(m, v)
  <2>1. ChangedFrom(m, Renamed(m, id, p))
    BY <1>3, <1>4, <1>8, RenamedWellFormed DEF ChangedFrom
  <2> QED
    BY <1>8, <2>1
<1>9. \E v : Become(w, v) /\ ChangedFrom(m, v)
  BY <1>2, <1>5, <1>6, <1>7, <1>8 DEF m
<1> QED
  BY <1>9 DEF m
-----------------------------------------------------------------------------
(* The application between the calls of a transfer.                         *)

(* One window changes to v, if at all with a new revision, and whatever it  *)
(* no longer shows was discarded; a document that was discarded and is      *)
(* still open somewhere stays discarded.                                    *)
ApplicationStep(w, v) ==
  /\ Become(w, v) /\ WellFormed(v)
  /\ v = workspaces[w] \/ v.revision > workspaces[w].revision
  /\ OpenIn(w) \subseteq IdsOf(v.documents) \cup discarded'
  /\ \A id \in IdsOf(v.documents) : id \in OpenAnywhere => id \in OpenIn(w)
  /\ \A id \in OpenAnywhere : id \in discarded => id \in discarded'
  /\ discarded \subseteq discarded' \cup IdsOf(v.documents)
  /\ discarded' \subseteq DocumentId

LEMMA ApplicationProperties ==
  ASSUME TransferInv, Application
  PROVE  \E w \in Window : \E v : ApplicationStep(w, v)
<1>1. workspaces \in [Window -> Workspace] /\ discarded \subseteq DocumentId
  BY DEF TransferInv, TypeOK
<1>2. \A w \in Window : WellFormed(workspaces[w])
  BY DEF TransferInv, AllWellFormed
<1>3. \A w \in Window : OpenIn(w) \subseteq DocumentId
  <2> SUFFICES ASSUME NEW w \in Window PROVE OpenIn(w) \subseteq DocumentId
    OBVIOUS
  <2>1. workspaces[w].documents \in Seq(WorkspaceDocument)
    BY <1>2, WellFormedFields
  <2> QED
    BY <2>1, IdsAreDocumentIds DEF OpenIn
<1>4. CASE Open
  <2>1. PICK w \in Window, d \in WorkspaceDocument :
          \E k \in 1..Len(workspaces[w].documents) + 1 :
            /\ d.id \notin OpenAnywhere /\ CanAdd(workspaces[w], d, k)
            /\ Become(w, Added(workspaces[w], d, k))
            /\ discarded' = discarded \ {d.id}
    BY <1>4 DEF Open
  <2>2. PICK k \in 1..Len(workspaces[w].documents) + 1 :
            /\ d.id \notin OpenAnywhere /\ CanAdd(workspaces[w], d, k)
            /\ Become(w, Added(workspaces[w], d, k))
            /\ discarded' = discarded \ {d.id}
    BY <2>1
  <2> DEFINE v == Added(workspaces[w], d, k)
  <2>3. /\ WellFormed(v) /\ v.revision = workspaces[w].revision + 1
        /\ IdsOf(v.documents) = OpenIn(w) \cup {d.id}
    BY <1>2, <2>2, AddedWellFormed DEF OpenIn
  <2>4. workspaces[w].revision + 1 > workspaces[w].revision
    BY <1>2, WellFormedFields
  <2> HIDE DEF v
  <2>5. ApplicationStep(w, v)
    BY <1>1, <2>2, <2>3, <2>4 DEF ApplicationStep, v
  <2> QED
    BY <2>5
<1>5. CASE UserCloses
  <2>1. PICK w \in Window : \E id \in OpenIn(w) :
          /\ Become(w, Closed(workspaces[w], id, FALSE))
          /\ discarded' = discarded \cup {id}
    BY <1>5 DEF UserCloses
  <2>2. PICK id \in OpenIn(w) : /\ Become(w, Closed(workspaces[w], id, FALSE))
                                /\ discarded' = discarded \cup {id}
    BY <2>1
  <2> DEFINE v == Closed(workspaces[w], id, FALSE)
  <2>3. /\ WellFormed(v) /\ v.revision = workspaces[w].revision + 1
        /\ IdsOf(v.documents) = OpenIn(w) \ {id}
    BY <1>2, <2>2, ClosedWellFormed DEF OpenIn
  <2>4. workspaces[w].revision + 1 > workspaces[w].revision
    BY <1>2, WellFormedFields
  <2> HIDE DEF v
  <2>5. ApplicationStep(w, v)
    BY <1>1, <1>3, <2>2, <2>3, <2>4 DEF ApplicationStep, v
  <2> QED
    BY <2>5
<1>6. CASE Change /\ UNCHANGED discarded
  <2>1. PICK w \in Window : \E v : Become(w, v) /\ ChangedFrom(workspaces[w], v)
    BY <1>6, ChangeProperties DEF TransferInv
  <2>2. PICK v : Become(w, v) /\ ChangedFrom(workspaces[w], v)
    BY <2>1
  <2>3. ApplicationStep(w, v)
    BY <1>1, <1>6, <2>2 DEF ApplicationStep, ChangedFrom, OpenIn
  <2> QED
    BY <2>3
<1>7. Change => UNCHANGED discarded
  BY DEF Change
<1> QED
  BY <1>4, <1>5, <1>6, <1>7 DEF Application

(* What every step of the application leaves alone.                         *)
LEMMA ApplicationKeeps ==
  ASSUME TransferInv, NEW w \in Window, NEW v, ApplicationStep(w, v)
  PROVE  /\ workspaces' \in [Window -> Workspace]
         /\ \A u \in Window : WellFormed(workspaces'[u])
         /\ \A u \in Window : \/ workspaces'[u] = workspaces[u]
                              \/ workspaces'[u].revision > workspaces[u].revision
         /\ \A u \in Window : OpenIn(u) \subseteq OpenOrDiscarded(u)'
         /\ \A u \in Window : \A id \in OpenIn(u)' : id \in OpenAnywhere => id \in OpenIn(u)
<1>1. workspaces \in [Window -> Workspace] /\ \A u \in Window : WellFormed(workspaces[u])
  BY DEF TransferInv, AllWellFormed
<1>2. v \in Workspace /\ WellFormed(v)
  BY DEF ApplicationStep, WellFormed
<1>3. \A u \in Window : workspaces'[u] = IF u = w THEN v ELSE workspaces[u]
  BY <1>1 DEF ApplicationStep, Become
<1>4. workspaces' \in [Window -> Workspace]
  BY <1>1, <1>2 DEF ApplicationStep, Become
<1>5. \A u \in Window : WellFormed(workspaces'[u])
  BY <1>1, <1>2, <1>3
<1>6. \A u \in Window : \/ workspaces'[u] = workspaces[u]
                        \/ workspaces'[u].revision > workspaces[u].revision
  BY <1>3 DEF ApplicationStep
<1>7. \A u \in Window : OpenIn(u)' = IF u = w THEN IdsOf(v.documents) ELSE OpenIn(u)
  BY <1>3 DEF OpenIn
<1>8. \A u \in Window : OpenIn(u) \subseteq OpenOrDiscarded(u)'
  BY <1>7 DEF OpenOrDiscarded, ApplicationStep
<1>9. \A u \in Window : \A id \in OpenIn(u)' : id \in OpenAnywhere => id \in OpenIn(u)
  BY <1>7 DEF ApplicationStep
<1> QED
  BY <1>4, <1>5, <1>6, <1>8, <1>9
LEMMA ApplicationPreserves == TransferInv /\ Application => TransferInv'
<1> SUFFICES ASSUME TransferInv, Application PROVE TransferInv'
  OBVIOUS
<1>1. PICK w \in Window : \E v : ApplicationStep(w, v)
  BY ApplicationProperties
<1>2. PICK v : ApplicationStep(w, v)
  BY <1>1
<1>3. /\ workspaces' \in [Window -> Workspace]
      /\ \A u \in Window : WellFormed(workspaces'[u])
      /\ \A u \in Window : \/ workspaces'[u] = workspaces[u]
                           \/ workspaces'[u].revision > workspaces[u].revision
      /\ \A u \in Window : OpenIn(u) \subseteq OpenOrDiscarded(u)'
  BY <1>2, ApplicationKeeps
<1>4. /\ discarded' \subseteq DocumentId
      /\ \A id \in OpenAnywhere : id \in discarded => id \in discarded'
      /\ discarded \subseteq OpenAnywhere' \cup discarded'
  <2>1. IdsOf(v.documents) \subseteq OpenAnywhere'
    <3>1. workspaces'[w] = v /\ w \in Window
      BY <1>1, <1>2 DEF ApplicationStep, Become, TransferInv, TypeOK
    <3> QED
      BY <3>1 DEF OpenAnywhere, OpenIn
  <2> QED
    BY <1>2, <2>1 DEF ApplicationStep
<1>5. UNCHANGED <<transfer, outcome, before>>
  BY DEF Application
<1>6. TypeOK' /\ AllWellFormed'
  BY <1>3, <1>4, <1>5 DEF TransferInv, TypeOK, AllWellFormed
<1>7. ASSUME NEW u \in Window, NEW r \in Nat, r <= workspaces[u].revision
      PROVE  /\ r <= workspaces'[u].revision
             /\ r = workspaces'[u].revision =>
                  workspaces'[u] = workspaces[u] /\ r = workspaces[u].revision
  <2>1. workspaces[u].revision \in Nat /\ workspaces'[u].revision \in Nat
    BY <1>3, WellFormedFields DEF TransferInv, AllWellFormed
  <2> QED
    BY <1>3, <1>7, <2>1
<1>8. CASE transfer = NoTransfer
  BY <1>5, <1>6, <1>8 DEF TransferInv, PlanIsCurrent, PlannedIsAccountedFor,
                          AcceptedIsAccountedFor, AcceptedIsAdded
<1>9. CASE transfer # NoTransfer
  <2>0. PICK from, to, d, id : /\ from = transfer.source /\ to = transfer.destination
                               /\ d = transfer.document /\ id = d.id
    OBVIOUS
  <2>1. /\ from \in Window /\ to \in Window /\ from # to
        /\ transfer.sourceRevision \in Nat /\ transfer.destinationRevision \in Nat
        /\ transfer.sourceRevision <= workspaces[from].revision
        /\ d \in WorkspaceDocument
    BY <1>9, <2>0 DEF TransferInv, TypeOK, Transfer, PlanIsCurrent
  <2>2. PlanIsCurrent'
    BY <1>5, <1>7, <1>9, <2>0, <2>1 DEF TransferInv, PlanIsCurrent
  <2>5. PlannedIsAccountedFor'
    <3>1. id \in OpenAnywhere \cup discarded
      BY <1>9, <2>0 DEF TransferInv, PlannedIsAccountedFor
    <3>2. OpenAnywhere \subseteq OpenAnywhere' \cup discarded'
      BY <1>3 DEF OpenAnywhere, OpenOrDiscarded
    <3>3. id \in OpenAnywhere' \cup discarded'
      BY <1>4, <3>1, <3>2
    <3> QED
      BY <1>5, <2>0, <3>3 DEF PlannedIsAccountedFor
  <2>3. AcceptedIsAdded'
    <3>1. transfer.accepted => transfer.destinationRevision <= workspaces[to].revision
      BY <1>9, <2>0 DEF TransferInv, AcceptedIsAccountedFor
    <3> QED
      BY <1>5, <1>7, <1>9, <2>0, <2>1, <3>1 DEF TransferInv, AcceptedIsAdded
  <2>4. AcceptedIsAccountedFor'
    <3> SUFFICES ASSUME transfer.accepted
        PROVE  /\ transfer.destinationRevision <= workspaces'[to].revision
               /\ transfer.sourceRevision = workspaces'[from].revision =>
                    id \in OpenOrDiscarded(to)'
               /\ transfer.destinationRevision = workspaces'[to].revision =>
                    \E u \in Window \ {to} : id \in OpenOrDiscarded(u)'
      BY <1>5, <2>0 DEF AcceptedIsAccountedFor, OpenOrDiscarded, OpenIn
    <3>1. /\ transfer.destinationRevision <= workspaces[to].revision
          /\ transfer.sourceRevision = workspaces[from].revision => id \in OpenOrDiscarded(to)
          /\ transfer.destinationRevision = workspaces[to].revision =>
               \E u \in Window \ {to} : id \in OpenOrDiscarded(u)
      BY <1>9, <2>0 DEF TransferInv, AcceptedIsAccountedFor
    <3>2. ASSUME transfer.sourceRevision = workspaces'[from].revision
          PROVE  id \in OpenOrDiscarded(to)'
      <4>1. transfer.sourceRevision = workspaces[from].revision
        BY <1>7, <2>1, <3>2
      <4>2. id \in OpenIn(from)
        <5>1. workspaces[from].documents \in Seq(WorkspaceDocument)
          BY <2>1, WellFormedFields DEF TransferInv, AllWellFormed
        <5>2. d \in Range(workspaces[from].documents)
          BY <1>9, <2>0, <4>1 DEF TransferInv, PlanIsCurrent
        <5> QED
          BY <2>0, <5>1, <5>2, HeldIsOpen DEF OpenIn
      <4> QED
        BY <1>3, <1>4, <2>1, <3>1, <4>1, <4>2, OpenAnywhereProperties DEF OpenOrDiscarded
    <3>3. ASSUME transfer.destinationRevision = workspaces'[to].revision
          PROVE  \E u \in Window \ {to} : id \in OpenOrDiscarded(u)'
      <4>1. transfer.destinationRevision = workspaces[to].revision
        BY <1>7, <2>1, <3>1, <3>3
      <4>2. id \in OpenIn(to)
        <5>1. PICK k : CanAdd(before, d, k) /\ workspaces[to] = Added(before, d, k)
          BY <1>9, <2>0, <4>1 DEF TransferInv, AcceptedIsAdded
        <5>2. k \in 1..Len(before.documents) + 1 /\ WellFormed(before)
          BY <5>1 DEF CanAdd, TransferInv, AllWellFormed
        <5>3. IdsOf(Added(before, d, k).documents) = IdsOf(before.documents) \cup {d.id}
          <6>1. d \in WorkspaceDocument /\ CanAdd(before, d, k)
            BY <2>1, <5>1
          <6> QED
            BY <5>2, <6>1, AddedWellFormed
        <5> QED
          BY <2>0, <5>1, <5>3 DEF OpenIn
      <4> QED
        BY <1>3, <1>4, <2>1, <3>1, <4>1, <4>2, OpenAnywhereProperties DEF OpenOrDiscarded
    <3>4. transfer.destinationRevision <= workspaces'[to].revision
      BY <1>7, <2>1, <3>1
    <3> QED
      BY <3>2, <3>3, <3>4
  <2> QED
    BY <1>6, <2>2, <2>3, <2>4, <2>5 DEF TransferInv
<1> QED
  BY <1>8, <1>9

-----------------------------------------------------------------------------
(* The calls of a transfer.                                                 *)

LEMMA TransferInitially == Init => TransferInv
<1> SUFFICES ASSUME Init PROVE TransferInv
  OBVIOUS
<1>1. TypeOK
  BY EmptyWellFormed DEF Init, TypeOK, Outcome
<1>2. AllWellFormed
  BY EmptyWellFormed DEF Init, AllWellFormed
<1> QED
  BY <1>1, <1>2 DEF Init, TransferInv, PlanIsCurrent, PlannedIsAccountedFor,
                    AcceptedIsAccountedFor, AcceptedIsAdded

(* Whatever ends a transfer and leaves the windows well formed.             *)
LEMMA EndPreserves ==
  ASSUME TransferInv, NEW status \in Outcome, EndTransfer(status), UNCHANGED discarded,
         workspaces' \in [Window -> Workspace], \A w \in Window : WellFormed(workspaces'[w])
  PROVE  TransferInv'
<1>1. TypeOK' /\ AllWellFormed'
  BY EmptyWellFormed DEF TransferInv, TypeOK, AllWellFormed, EndTransfer
<1> QED
  BY <1>1 DEF EndTransfer, TransferInv, PlanIsCurrent, PlannedIsAccountedFor,
              AcceptedIsAccountedFor, AcceptedIsAdded

(* The plan copies the document as its source has it.                       *)
LEMMA PlanProperties ==
  ASSUME TransferInv, NEW from \in Window, NEW to \in Window, NEW id \in OpenIn(from),
         NEW k \in Nat, NEW plan, plan = PlanFor(from, to, id, k)
  PROVE  /\ plan \in Transfer
         /\ plan.source = from /\ plan.destination = to /\ plan.index = k
         /\ ~plan.accepted
         /\ plan.sourceRevision = workspaces[from].revision
         /\ plan.document \in Range(workspaces[from].documents)
         /\ plan.document \in WorkspaceDocument /\ plan.document.id = id
<1> DEFINE w == workspaces[from]
           d == w.documents[FindIndex(w.documents, id)]
<1>1. /\ w.documents \in Seq(WorkspaceDocument) /\ w.revision \in Nat
      /\ id \in IdsOf(w.documents)
  BY WellFormedFields DEF TransferInv, AllWellFormed, OpenIn
<1>2. d \in Range(w.documents) /\ d \in WorkspaceDocument /\ d.id = id
  BY <1>1, FoundIsHeld
<1>3. plan =
        [source |-> from, destination |-> to, document |-> d, index |-> k,
         wasActive |-> w.active = id, sourceRevision |-> w.revision,
         destinationRevision |-> 0, accepted |-> FALSE]
  BY DEF PlanFor
<1> HIDE DEF w, d
<1>4. plan \in Transfer
  BY <1>1, <1>2, <1>3 DEF Transfer
<1> QED
  BY <1>2, <1>3, <1>4 DEF w

LEMMA PreparePreserves == TransferInv /\ PrepareTransfer => TransferInv'
<1> SUFFICES ASSUME TransferInv, PrepareTransfer PROVE TransferInv'
  OBVIOUS
<1>1. PICK from \in Window, to \in Window : \E id \in OpenIn(from) :
        \E k \in 0..Len(workspaces[to].documents) + 1 :
          from # to /\ transfer' = PlanFor(from, to, id, k)
  BY DEF PrepareTransfer
<1>2. PICK id \in OpenIn(from) : \E k \in 0..Len(workspaces[to].documents) + 1 :
        from # to /\ transfer' = PlanFor(from, to, id, k)
  BY <1>1
<1>3. PICK k \in 0..Len(workspaces[to].documents) + 1 :
        from # to /\ transfer' = PlanFor(from, to, id, k)
  BY <1>2
<1>4. k \in Nat /\ workspaces[from].revision \in Nat
  BY WellFormedFields DEF TransferInv, AllWellFormed
<1>5. PICK plan : plan = PlanFor(from, to, id, k)
  OBVIOUS
<1>6. /\ plan \in Transfer
      /\ plan.source = from /\ plan.destination = to /\ ~plan.accepted
      /\ plan.sourceRevision = workspaces[from].revision
      /\ plan.document \in Range(workspaces[from].documents)
      /\ plan.document.id = id
  BY <1>4, <1>5, PlanProperties
<1>7. transfer' = plan /\ UNCHANGED <<workspaces, discarded, before>> /\ outcome' = "none"
  BY <1>3, <1>5 DEF PrepareTransfer
<1>8. TypeOK' /\ AllWellFormed'
  BY <1>6, <1>7 DEF TransferInv, TypeOK, AllWellFormed, Outcome
<1>9. PlanIsCurrent'
  BY <1>3, <1>4, <1>6, <1>7 DEF PlanIsCurrent
<1>10. PlannedIsAccountedFor'
  <2>1. id \in OpenAnywhere
    BY OpenAnywhereProperties
  <2>2. OpenAnywhere' = OpenAnywhere
    BY <1>7 DEF OpenAnywhere, OpenIn
  <2> QED
    BY <1>6, <1>7, <2>1, <2>2 DEF PlannedIsAccountedFor
<1>11. AcceptedIsAccountedFor' /\ AcceptedIsAdded'
  BY <1>6, <1>7 DEF AcceptedIsAccountedFor, AcceptedIsAdded
<1> QED
  BY <1>8, <1>9, <1>10, <1>11 DEF TransferInv

LEMMA AcceptPreserves == TransferInv /\ AcceptTransfer => TransferInv'
<1> SUFFICES ASSUME TransferInv, AcceptTransfer PROVE TransferInv'
  OBVIOUS
<1>1. PICK from, to, w, d, k :
        /\ from = transfer.source /\ to = transfer.destination /\ d = transfer.document
        /\ w = workspaces[to] /\ k = Insertion(w, transfer.index)
  OBVIOUS
<1>2. transfer # NoTransfer /\ ~transfer.accepted /\ UNCHANGED discarded
  BY DEF AcceptTransfer
<1>3. /\ from \in Window /\ to \in Window /\ from # to /\ d \in WorkspaceDocument
      /\ transfer \in Transfer
  BY <1>1, <1>2 DEF TransferInv, TypeOK, Transfer, PlanIsCurrent
<1>4. /\ workspaces \in [Window -> Workspace] /\ \A u \in Window : WellFormed(workspaces[u])
      /\ WellFormed(w)
  BY <1>1, <1>3 DEF TransferInv, AllWellFormed
<1>5. CASE ~CanAdd(w, d, k)
  <2>1. UNCHANGED workspaces /\ EndTransfer("rejected")
    BY <1>1, <1>5 DEF AcceptTransfer
  <2> QED
    BY <1>2, <1>4, <2>1, EndPreserves DEF Outcome
<1>6. CASE CanAdd(w, d, k)
  <2> DEFINE v == Added(w, d, k)
  <2>1. /\ workspaces' = [workspaces EXCEPT ![to] = v]
        /\ transfer' = [transfer EXCEPT !.accepted = TRUE,
                                        !.destinationRevision = workspaces'[to].revision]
        /\ before' = w /\ UNCHANGED outcome
    BY <1>1, <1>6 DEF AcceptTransfer, Become
  <2>2. k \in 1..Len(w.documents) + 1 /\ d.id \notin IdsOf(w.documents)
    BY <1>6 DEF CanAdd
  <2>3. /\ WellFormed(v) /\ IdsOf(v.documents) = IdsOf(w.documents) \cup {d.id}
        /\ v \in Workspace /\ v.revision \in Nat
    <3>1. WellFormed(v) /\ IdsOf(v.documents) = IdsOf(w.documents) \cup {d.id}
      BY <1>3, <1>4, <1>6, <2>2, AddedWellFormed
    <3> HIDE DEF v
    <3> QED
      BY <3>1, WellFormedFields
  <2> HIDE DEF v
  <2>4. \A u \in Window : workspaces'[u] = IF u = to THEN v ELSE workspaces[u]
    BY <1>4, <2>1
  <2>5. /\ transfer' \in Transfer /\ transfer'.source = from /\ transfer'.destination = to
        /\ transfer'.document = d /\ transfer'.accepted
        /\ transfer'.sourceRevision = transfer.sourceRevision
        /\ transfer'.destinationRevision = v.revision /\ transfer'.index = transfer.index
    BY <1>1, <1>3, <2>1, <2>3, <2>4 DEF Transfer
  <2>6. TypeOK' /\ AllWellFormed'
    BY <1>2, <1>3, <1>4, <2>1, <2>3, <2>4, <2>5, WellFormedFields
       DEF TransferInv, TypeOK, AllWellFormed
  <2>7. PlanIsCurrent'
    BY <1>1, <1>2, <1>3, <2>4, <2>5 DEF TransferInv, PlanIsCurrent
  <2>8. AcceptedIsAdded'
    BY <1>1, <1>3, <1>6, <2>1, <2>4, <2>5 DEF AcceptedIsAdded, v
  <2>9. d.id \in OpenIn(to)' /\ d.id \in OpenAnywhere'
    BY <1>3, <2>3, <2>4 DEF OpenIn, OpenAnywhere
  <2>10. PlannedIsAccountedFor'
    BY <2>5, <2>9 DEF PlannedIsAccountedFor
  <2>11. \E u \in Window \ {to} : d.id \in OpenOrDiscarded(u)'
    <3>1. d.id \in OpenAnywhere \cup discarded /\ d.id \notin OpenIn(to)
      BY <1>1, <1>2, <2>2 DEF TransferInv, PlannedIsAccountedFor, OpenIn
    <3>2. PICK u \in Window \ {to} : d.id \in OpenIn(u) \cup discarded
      BY <1>3, <3>1, OpenAnywhereProperties
    <3> QED
      BY <1>2, <2>4, <3>2 DEF OpenOrDiscarded, OpenIn
  <2>12. AcceptedIsAccountedFor'
    BY <1>3, <2>3, <2>4, <2>5, <2>9, <2>11 DEF AcceptedIsAccountedFor, OpenOrDiscarded
  <2> QED
    BY <2>6, <2>7, <2>8, <2>10, <2>12 DEF TransferInv
<1> QED
  BY <1>5, <1>6
(* What CommitTransfer does to the windows.                                 *)
LEMMA CommitProperties ==
  ASSUME TransferInv, CommitTransfer
  PROVE  /\ workspaces' \in [Window -> Workspace]
         /\ \A u \in Window : WellFormed(workspaces'[u])
         /\ transfer.source \in Window /\ transfer.destination \in Window
         /\ transfer.source # transfer.destination
         /\ \A u \in Window : OpenIn(u)' = IF u = transfer.source
                                           THEN OpenIn(u) \ {transfer.document.id}
                                           ELSE OpenIn(u)
<1>1. PICK from, to, id : /\ from = transfer.source /\ to = transfer.destination
                          /\ id = transfer.document.id
  OBVIOUS
<1>2. from \in Window /\ to \in Window /\ from # to
  BY <1>1 DEF CommitTransfer, TransferInv, TypeOK, Transfer, PlanIsCurrent
<1>3. workspaces \in [Window -> Workspace] /\ \A u \in Window : WellFormed(workspaces[u])
  BY DEF TransferInv, AllWellFormed
<1>4. id \in IdsOf(workspaces[from].documents)
  BY <1>1 DEF CommitTransfer, CanCommit, OpenIn
<1>5. PICK left, arrived :
        /\ left = Closed(workspaces[from], id, FALSE)
        /\ arrived = IF transfer.wasActive /\ CanActivate(workspaces[to], id)
                     THEN Activated(workspaces[to], id) ELSE workspaces[to]
        /\ workspaces' = [workspaces EXCEPT ![from] = left, ![to] = arrived]
  BY <1>1 DEF CommitTransfer
<1>6. /\ WellFormed(left) /\ left \in Workspace
      /\ IdsOf(left.documents) = IdsOf(workspaces[from].documents) \ {id}
  <2>1. /\ WellFormed(left)
        /\ IdsOf(left.documents) = IdsOf(workspaces[from].documents) \ {id}
    BY <1>2, <1>3, <1>4, <1>5, ClosedWellFormed
  <2> QED
    BY <2>1, WellFormedFields
<1>7. /\ WellFormed(arrived) /\ arrived \in Workspace
      /\ IdsOf(arrived.documents) = IdsOf(workspaces[to].documents)
  <2>1. CASE arrived = workspaces[to]
    BY <1>2, <1>3, <2>1
  <2>2. CASE arrived = Activated(workspaces[to], id) /\ CanActivate(workspaces[to], id)
    <3>1. id \in IdsOf(workspaces[to].documents)
      BY <2>2 DEF CanActivate
    <3>2. WellFormed(arrived) /\ arrived.documents = workspaces[to].documents
      BY <1>2, <1>3, <2>2, <3>1, ActivatedWellFormed
    <3> QED
      BY <3>2, WellFormedFields
  <2> QED
    BY <1>5, <2>1, <2>2
<1>8. \A u \in Window : workspaces'[u] = IF u = to THEN arrived
                                         ELSE IF u = from THEN left ELSE workspaces[u]
  BY <1>2, <1>3, <1>5
<1>9. workspaces' \in [Window -> Workspace]
  BY <1>3, <1>5, <1>6, <1>7
<1>10. \A u \in Window : OpenIn(u)' = IF u = from THEN OpenIn(u) \ {id} ELSE OpenIn(u)
  BY <1>2, <1>6, <1>7, <1>8 DEF OpenIn
<1> QED
  BY <1>1, <1>2, <1>3, <1>6, <1>7, <1>8, <1>9, <1>10

(* A destination that has not changed since AcceptTransfer is restored.     *)
LEMMA RollbackProperties ==
  ASSUME TransferInv, RollbackTransfer, CanRollBack
  PROVE  /\ workspaces' \in [Window -> Workspace]
         /\ \A u \in Window : WellFormed(workspaces'[u])
         /\ transfer.destination \in Window
         /\ \A u \in Window : OpenIn(u)' = IF u = transfer.destination
                                           THEN OpenIn(u) \ {transfer.document.id}
                                           ELSE OpenIn(u)
         /\ workspaces'[transfer.destination] =
              Closed(workspaces[transfer.destination], transfer.document.id, FALSE)
<1>1. PICK to, id, v : /\ to = transfer.destination /\ id = transfer.document.id
                       /\ v = Closed(workspaces[to], id, FALSE)
  OBVIOUS
<1>2. to \in Window /\ id \in IdsOf(workspaces[to].documents)
  BY <1>1 DEF RollbackTransfer, CanRollBack, OpenIn, TransferInv, TypeOK, Transfer
<1>3. workspaces \in [Window -> Workspace] /\ \A u \in Window : WellFormed(workspaces[u])
  BY DEF TransferInv, AllWellFormed
<1>4. /\ WellFormed(v) /\ v \in Workspace
      /\ IdsOf(v.documents) = IdsOf(workspaces[to].documents) \ {id}
  <2>1. WellFormed(v) /\ IdsOf(v.documents) = IdsOf(workspaces[to].documents) \ {id}
    BY <1>1, <1>2, <1>3, ClosedWellFormed
  <2> QED
    BY <2>1, WellFormedFields
<1>5. workspaces' = [workspaces EXCEPT ![to] = v]
  BY <1>1 DEF RollbackTransfer, Become
<1>6. workspaces' \in [Window -> Workspace]
      /\ \A u \in Window : workspaces'[u] = IF u = to THEN v ELSE workspaces[u]
  BY <1>3, <1>4, <1>5
<1>7. \A u \in Window : OpenIn(u)' = IF u = to THEN OpenIn(u) \ {id} ELSE OpenIn(u)
  BY <1>4, <1>6 DEF OpenIn
<1> QED
  BY <1>1, <1>2, <1>3, <1>4, <1>6, <1>7

(* TransferDocument is a transfer of which nothing is seen between.         *)
LEMMA TransferDocumentProperties ==
  ASSUME TransferInv, TransferDocument
  PROVE  /\ workspaces' \in [Window -> Workspace]
         /\ \A u \in Window : WellFormed(workspaces'[u])
         /\ outcome' \in {"success", "rejected"}
         /\ \/ UNCHANGED workspaces
            \/ \E from, to \in Window : \E id \in OpenIn(from) :
                 /\ from # to
                 /\ \A u \in Window : OpenIn(u)' = IF u = from THEN OpenIn(u) \ {id}
                                                   ELSE IF u = to THEN OpenIn(u) \cup {id}
                                                   ELSE OpenIn(u)
<1>1. PICK from \in Window, to \in Window : \E id \in OpenIn(from) :
        \E k \in 1..Len(workspaces[to].documents) + 1 :
          LET plan == PlanFor(from, to, id, k)
              arrived == Added(workspaces[to], plan.document, k)
          IN  /\ from # to
              /\ IF CanAdd(workspaces[to], plan.document, k)
                 THEN /\ workspaces' =
                           [workspaces EXCEPT
                              ![from] = Closed(workspaces[from], id, FALSE),
                              ![to] = IF plan.wasActive
                                      THEN Activated(arrived, id) ELSE arrived]
                      /\ outcome' = "success"
                 ELSE UNCHANGED workspaces /\ outcome' = "rejected"
  BY DEF TransferDocument
<1>2. PICK id \in OpenIn(from), k \in 1..Len(workspaces[to].documents) + 1 :
          LET plan == PlanFor(from, to, id, k)
              arrived == Added(workspaces[to], plan.document, k)
          IN  /\ from # to
              /\ IF CanAdd(workspaces[to], plan.document, k)
                 THEN /\ workspaces' =
                           [workspaces EXCEPT
                              ![from] = Closed(workspaces[from], id, FALSE),
                              ![to] = IF plan.wasActive
                                      THEN Activated(arrived, id) ELSE arrived]
                      /\ outcome' = "success"
                 ELSE UNCHANGED workspaces /\ outcome' = "rejected"
  BY <1>1
<1>3. workspaces \in [Window -> Workspace] /\ \A u \in Window : WellFormed(workspaces[u])
  BY DEF TransferInv, AllWellFormed
<1>4. PICK plan : plan = PlanFor(from, to, id, k)
  OBVIOUS
<1>5. PICK d : d = plan.document /\ d \in WorkspaceDocument /\ d.id = id
  <2>1. k \in Nat
    BY <1>1, <1>3, WellFormedFields
  <2> QED
    BY <1>1, <1>2, <1>4, <2>1, PlanProperties
<1>6. PICK left, added : /\ left = Closed(workspaces[from], id, FALSE)
                         /\ added = Added(workspaces[to], d, k)
  OBVIOUS
<1>7. CASE ~CanAdd(workspaces[to], d, k)
  BY <1>2, <1>3, <1>4, <1>5, <1>7
<1>8. CASE CanAdd(workspaces[to], d, k)
  <2>1. from # to /\ outcome' = "success"
    BY <1>2, <1>4, <1>5, <1>8
  <2>2. PICK arrived :
          /\ arrived = IF plan.wasActive THEN Activated(added, id) ELSE added
          /\ workspaces' = [workspaces EXCEPT ![from] = left, ![to] = arrived]
    BY <1>2, <1>4, <1>5, <1>6, <1>8
  <2>3. /\ WellFormed(left) /\ left \in Workspace
        /\ IdsOf(left.documents) = IdsOf(workspaces[from].documents) \ {id}
    <3>1. id \in IdsOf(workspaces[from].documents)
      BY <1>2 DEF OpenIn
    <3>2. /\ WellFormed(left)
          /\ IdsOf(left.documents) = IdsOf(workspaces[from].documents) \ {id}
      BY <1>1, <1>3, <1>6, <3>1, ClosedWellFormed
    <3> QED
      BY <3>2, WellFormedFields
  <2>4. WellFormed(added) /\ IdsOf(added.documents) = IdsOf(workspaces[to].documents) \cup {id}
    BY ZenonT(60), <1>1, <1>2, <1>3, <1>5, <1>6, <1>8, AddedWellFormed
  <2>5. /\ WellFormed(arrived) /\ arrived \in Workspace
        /\ IdsOf(arrived.documents) = IdsOf(workspaces[to].documents) \cup {id}
    <3>1. WellFormed(Activated(added, id)) /\ Activated(added, id).documents = added.documents
      BY <2>4, ActivatedWellFormed
    <3>2. /\ WellFormed(arrived)
          /\ IdsOf(arrived.documents) = IdsOf(workspaces[to].documents) \cup {id}
      BY <2>2, <2>4, <3>1
    <3> QED
      BY <3>2, WellFormedFields
  <2>6. workspaces' \in [Window -> Workspace]
        /\ \A u \in Window : workspaces'[u] = IF u = to THEN arrived
                                              ELSE IF u = from THEN left ELSE workspaces[u]
    BY <1>1, <1>3, <2>1, <2>2, <2>3, <2>5
  <2>7. \A u \in Window : OpenIn(u)' = IF u = from THEN OpenIn(u) \ {id}
                                       ELSE IF u = to THEN OpenIn(u) \cup {id} ELSE OpenIn(u)
    BY <2>1, <2>3, <2>5, <2>6 DEF OpenIn
  <2>8. \A u \in Window : WellFormed(workspaces'[u])
    BY <1>3, <2>3, <2>5, <2>6
  <2> QED
    BY <1>1, <1>2, <2>1, <2>6, <2>7, <2>8
<1> QED
  BY <1>7, <1>8

LEMMA EndingPreserves ==
  TransferInv /\ (CommitTransfer \/ RollbackTransfer \/ TransferDocument) => TransferInv'
<1> SUFFICES ASSUME TransferInv, CommitTransfer \/ RollbackTransfer \/ TransferDocument
    PROVE  TransferInv'
  OBVIOUS
<1>1. {"success", "rolled_back", "rollback_failed", "rejected"} \subseteq Outcome
  BY DEF Outcome
<1>2. CASE CommitTransfer
  BY <1>1, <1>2, CommitProperties, EndPreserves DEF CommitTransfer
<1>3. CASE RollbackTransfer /\ CanRollBack
  <2>1. EndTransfer("rolled_back") /\ UNCHANGED discarded
    BY <1>3 DEF RollbackTransfer
  <2> QED
    BY <1>1, <1>3, <2>1, RollbackProperties, EndPreserves
<1>4. CASE RollbackTransfer /\ ~CanRollBack
  <2>1. EndTransfer("rollback_failed") /\ UNCHANGED <<workspaces, discarded>>
    BY <1>4 DEF RollbackTransfer
  <2>2. workspaces' \in [Window -> Workspace] /\ \A u \in Window : WellFormed(workspaces'[u])
    BY <2>1 DEF TransferInv, AllWellFormed
  <2> QED
    BY <1>1, <2>1, <2>2, EndPreserves
<1>5. CASE TransferDocument
  <2>1. transfer = NoTransfer /\ UNCHANGED <<transfer, discarded, before>>
    BY <1>5 DEF TransferDocument
  <2>2. TypeOK' /\ AllWellFormed'
    BY <1>5, <2>1, TransferDocumentProperties DEF TransferInv, TypeOK, AllWellFormed, Outcome
  <2> QED
    BY <2>1, <2>2 DEF TransferInv, PlanIsCurrent, PlannedIsAccountedFor,
                      AcceptedIsAccountedFor, AcceptedIsAdded
<1> QED
  BY <1>2, <1>3, <1>4, <1>5

LEMMA TransferStepPreserves == TransferInv /\ [Next]_vars => TransferInv'
<1> SUFFICES ASSUME TransferInv, [Next]_vars PROVE TransferInv'
  OBVIOUS
<1>1. CASE UNCHANGED vars
  BY <1>1 DEF vars, TransferInv, TypeOK, AllWellFormed, PlanIsCurrent, PlannedIsAccountedFor,
     AcceptedIsAccountedFor, AcceptedIsAdded, OpenOrDiscarded, OpenAnywhere, OpenIn
<1> QED
  BY <1>1, PreparePreserves, AcceptPreserves, EndingPreserves, ApplicationPreserves DEF Next

(* The invariant holds in every reachable state.                            *)
THEOREM TransferInvariance == Spec => []TransferInv
BY TransferInitially, TransferStepPreserves, PTL DEF Spec

(* The plan, the windows and the outcome keep their types.                  *)
THEOREM TransferTypeCorrect == Spec => []TypeOK
<1>1. TransferInv => TypeOK
  BY DEF TransferInv
<1> QED
  BY <1>1, TransferInvariance, PTL
-----------------------------------------------------------------------------
(* No document is lost.                                                     *)

(* What a step takes out of the last window it is open in was discarded.    *)
LostOnlyIfDiscarded ==
  \A id \in DocumentId : id \in OpenAnywhere /\ id \notin OpenAnywhere' => id \in discarded'

(* A step that leaves every document in its windows loses none.             *)
LEMMA KeptIsNotLost ==
  ASSUME \A u \in Window : OpenIn(u) \subseteq (OpenIn(u) \cup discarded)'
  PROVE  LostOnlyIfDiscarded
BY OpenAnywhereProperties DEF LostOnlyIfDiscarded, OpenAnywhere

LEMMA CommitLosesNone == TransferInv /\ CommitTransfer => LostOnlyIfDiscarded
<1> SUFFICES ASSUME TransferInv, CommitTransfer PROVE LostOnlyIfDiscarded
  OBVIOUS
<1>1. PICK from, to, d : /\ from = transfer.source /\ to = transfer.destination
                         /\ d = transfer.document.id
  OBVIOUS
<1>2. /\ to \in Window /\ from # to
      /\ \A u \in Window : OpenIn(u)' = IF u = from THEN OpenIn(u) \ {d} ELSE OpenIn(u)
  BY <1>1, CommitProperties
<1>3. d \in OpenIn(to) \cup discarded
  BY <1>1 DEF CommitTransfer, CanCommit, TransferInv, AcceptedIsAccountedFor, OpenOrDiscarded
<1>4. d \in OpenIn(to)' \cup discarded'
  BY <1>2, <1>3 DEF CommitTransfer
<1>5. ASSUME NEW id \in OpenAnywhere, id \notin OpenAnywhere' PROVE id \in discarded'
  <2>1. PICK u \in Window : id \in OpenIn(u)
    BY <1>5, OpenAnywhereProperties
  <2>2. \A v \in Window : id \notin OpenIn(v)'
    BY <1>5 DEF OpenAnywhere
  <2>3. id = d
    BY <1>2, <2>1, <2>2
  <2> QED
    BY <1>2, <1>4, <2>2, <2>3
<1> QED
  BY <1>5 DEF LostOnlyIfDiscarded

LEMMA RollbackLosesNone == TransferInv /\ RollbackTransfer => LostOnlyIfDiscarded
<1> SUFFICES ASSUME TransferInv, RollbackTransfer PROVE LostOnlyIfDiscarded
  OBVIOUS
<1>1. PICK to, d : to = transfer.destination /\ d = transfer.document.id
  OBVIOUS
<1>2. CASE ~CanRollBack
  <2>1. UNCHANGED workspaces
    BY <1>2 DEF RollbackTransfer
  <2> QED
    BY <2>1 DEF LostOnlyIfDiscarded, OpenAnywhere, OpenIn
<1>3. CASE CanRollBack
  <2>1. \A u \in Window : OpenIn(u)' = IF u = to THEN OpenIn(u) \ {d} ELSE OpenIn(u)
    BY <1>1, <1>3, RollbackProperties
  <2>2. PICK w \in Window \ {to} : d \in OpenIn(w) \cup discarded
    BY <1>1, <1>3
       DEF RollbackTransfer, CanRollBack, TransferInv, AcceptedIsAccountedFor, OpenOrDiscarded
  <2>3. d \in OpenIn(w)' \cup discarded'
    BY <2>1, <2>2 DEF RollbackTransfer
  <2>4. ASSUME NEW id \in OpenAnywhere, id \notin OpenAnywhere' PROVE id \in discarded'
    <3>1. PICK u \in Window : id \in OpenIn(u)
      BY <2>4, OpenAnywhereProperties
    <3>2. \A v \in Window : id \notin OpenIn(v)'
      BY <2>4 DEF OpenAnywhere
    <3>3. id = d
      BY <2>1, <3>1, <3>2
    <3> QED
      BY <2>2, <2>3, <3>2, <3>3
  <2> QED
    BY <2>4 DEF LostOnlyIfDiscarded
<1> QED
  BY <1>2, <1>3

LEMMA TransferDocumentLosesNone == TransferInv /\ TransferDocument => LostOnlyIfDiscarded
<1> SUFFICES ASSUME TransferInv, TransferDocument PROVE LostOnlyIfDiscarded
  OBVIOUS
<1>1. CASE UNCHANGED workspaces
  BY <1>1 DEF LostOnlyIfDiscarded, OpenAnywhere, OpenIn
<1>2. ASSUME NEW from \in Window, NEW to \in Window, NEW d \in OpenIn(from), from # to,
             \A u \in Window : OpenIn(u)' = IF u = from THEN OpenIn(u) \ {d}
                                            ELSE IF u = to THEN OpenIn(u) \cup {d}
                                            ELSE OpenIn(u)
      PROVE  OpenAnywhere \subseteq OpenAnywhere'
  <2> SUFFICES ASSUME NEW id \in OpenAnywhere PROVE id \in OpenAnywhere'
    OBVIOUS
  <2>1. PICK u \in Window : id \in OpenIn(u)
    BY OpenAnywhereProperties
  <2>2. id \in OpenIn(u)' \/ id \in OpenIn(to)'
    BY <1>2, <2>1
  <2> QED
    BY <2>2 DEF OpenAnywhere
<1>3. UNCHANGED workspaces \/ OpenAnywhere \subseteq OpenAnywhere'
  BY <1>2, TransferDocumentProperties
<1> QED
  BY <1>1, <1>3 DEF LostOnlyIfDiscarded

LEMMA AcceptLosesNone == TransferInv /\ AcceptTransfer => LostOnlyIfDiscarded
<1> SUFFICES ASSUME TransferInv, AcceptTransfer PROVE LostOnlyIfDiscarded
  OBVIOUS
<1>1. ASSUME NEW u \in Window PROVE OpenIn(u) \subseteq OpenIn(u)'
  <2>1. CASE UNCHANGED workspaces
    BY <2>1 DEF OpenIn
  <2>2. CASE ~UNCHANGED workspaces
    <3>1. PICK to, w, d, k :
            /\ to \in Window /\ w = workspaces[to] /\ d \in WorkspaceDocument
            /\ CanAdd(w, d, k) /\ Become(to, Added(w, d, k))
      BY <2>2 DEF AcceptTransfer, TransferInv, TypeOK, Transfer
    <3>2. WellFormed(w) /\ k \in 1..Len(w.documents) + 1
      BY <3>1 DEF CanAdd, TransferInv, AllWellFormed
    <3>3. IdsOf(w.documents) \subseteq IdsOf(Added(w, d, k).documents)
      BY <3>1, <3>2, AddedWellFormed
    <3>4. workspaces'[u] = IF u = to THEN Added(w, d, k) ELSE workspaces[u]
      BY <3>1 DEF Become, TransferInv, AllWellFormed
    <3> QED
      BY <3>1, <3>3, <3>4 DEF OpenIn
  <2> QED
    BY <2>1, <2>2
<1> QED
  BY <1>1, KeptIsNotLost

LEMMA StepLosesNone == TransferInv /\ [Next]_vars => LostOnlyIfDiscarded
<1> SUFFICES ASSUME TransferInv, [Next]_vars PROVE LostOnlyIfDiscarded
  OBVIOUS
<1>1. CASE PrepareTransfer \/ UNCHANGED vars
  <2>1. UNCHANGED workspaces
    BY <1>1 DEF PrepareTransfer, vars
  <2> QED
    BY <2>1 DEF LostOnlyIfDiscarded, OpenAnywhere, OpenIn
<1>2. CASE Application
  <2>1. PICK w \in Window : \E v : ApplicationStep(w, v)
    BY <1>2, ApplicationProperties
  <2>2. PICK v : ApplicationStep(w, v)
    BY <2>1
  <2>3. \A u \in Window : OpenIn(u) \subseteq (OpenIn(u) \cup discarded)'
    BY <2>2, ApplicationKeeps DEF OpenOrDiscarded
  <2> QED
    BY <2>3, KeptIsNotLost
<1> QED
  BY <1>1, <1>2, AcceptLosesNone, CommitLosesNone, RollbackLosesNone,
     TransferDocumentLosesNone DEF Next

(* Once open, a document stays open in at least one window until the user   *)
(* closes it, however transfers and other calls interleave.                 *)
THEOREM TransferLosesNothing == Spec => NoDocumentLost
<1>1. TransferInv /\ [Next]_vars => [LostOnlyIfDiscarded]_vars
  BY StepLosesNone
<1> QED
  BY <1>1, TransferInvariance, PTL DEF Spec, NoDocumentLost, LostOnlyIfDiscarded
-----------------------------------------------------------------------------
(* Each document has one owner.                                             *)

(* A step comes to share only a document in transit.                        *)
SharesOnlyInTransit == Shared' \subseteq Shared \cup InTransit'

LEMMA SharedProperties ==
  /\ \A id \in Shared : \E v, w \in Window : v # w /\ id \in OpenIn(v) /\ id \in OpenIn(w)
  /\ \A v, w \in Window : \A id \in OpenIn(v) \cap OpenIn(w) : v # w => id \in Shared
BY OpenAnywhereProperties DEF Shared

(* Whatever opens no document that is open elsewhere shares none.           *)
LEMMA UnsharedSteps ==
  ASSUME \A u \in Window : \A id \in OpenIn(u)' : id \in OpenAnywhere => id \in OpenIn(u),
         \E w \in Window : \A u \in Window : u # w => OpenIn(u)' \subseteq OpenIn(u)
  PROVE  Shared' \subseteq Shared
<1> SUFFICES ASSUME NEW id \in Shared' PROVE id \in Shared
  OBVIOUS
<1>1. PICK v \in Window, w \in Window : v # w /\ id \in OpenIn(v)' /\ id \in OpenIn(w)'
  BY DEF Shared
<1>2. id \in OpenAnywhere
  BY <1>1 DEF OpenAnywhere
<1> QED
  BY <1>1, <1>2, SharedProperties

LEMMA AcceptShares ==
  ASSUME TransferAssumption, TransferInv, AcceptTransfer
  PROVE  SharesOnlyInTransit
<1>1. CASE UNCHANGED workspaces
  BY <1>1 DEF SharesOnlyInTransit, Shared, OpenAnywhere, OpenIn
<1>2. CASE ~UNCHANGED workspaces
  <2>1. PICK to, w, d, k :
          /\ to \in Window /\ w = workspaces[to] /\ d \in WorkspaceDocument
          /\ d = transfer.document /\ CanAdd(w, d, k) /\ Become(to, Added(w, d, k))
          /\ transfer \in Transfer /\ transfer # NoTransfer
          /\ transfer' = [transfer EXCEPT !.accepted = TRUE,
                            !.destinationRevision = workspaces'[to].revision]
    BY <1>2 DEF AcceptTransfer, TransferInv, TypeOK, Transfer
  <2>2. WellFormed(w) /\ k \in 1..Len(w.documents) + 1
    BY <2>1 DEF CanAdd, TransferInv, AllWellFormed
  <2>3. IdsOf(Added(w, d, k).documents) = IdsOf(w.documents) \cup {d.id}
    BY ZenonT(60), <2>1, <2>2, AddedWellFormed
  <2>4. \A u \in Window : OpenIn(u)' = IF u = to THEN OpenIn(u) \cup {d.id} ELSE OpenIn(u)
    BY <2>1, <2>3 DEF Become, TransferInv, AllWellFormed, OpenIn
  <2>5. workspaces'[to].revision \in Nat
    <3>1. WellFormed(Added(w, d, k))
      BY <2>1, <2>2, AddedWellFormed
    <3>2. Added(w, d, k).revision \in Nat
      BY <3>1, WellFormedFields
    <3> QED
      BY <2>1, <3>2 DEF Become, TransferInv, AllWellFormed
  <2>6. d.id \in InTransit'
    <3>1. transfer' \in Transfer /\ transfer'.accepted /\ transfer'.document = d
      BY <2>1, <2>5 DEF Transfer
    <3>2. transfer' # NoTransfer
      BY <3>1 DEF TransferAssumption
    <3> QED
      BY <3>1, <3>2 DEF InTransit
  <2>7. ASSUME NEW id \in Shared', id # d.id PROVE id \in Shared
    <3>1. PICK u \in Window, v \in Window : u # v /\ id \in OpenIn(u)' /\ id \in OpenIn(v)'
      BY DEF Shared
    <3>2. id \in OpenIn(u) /\ id \in OpenIn(v)
      BY <2>4, <2>7, <3>1
    <3> QED
      BY <3>1, <3>2, SharedProperties
  <2> QED
    BY <2>6, <2>7 DEF SharesOnlyInTransit
<1> QED
  BY <1>1, <1>2
LEMMA StepShares == TransferAssumption /\ TransferInv /\ [Next]_vars => SharesOnlyInTransit
<1> SUFFICES ASSUME TransferAssumption, TransferInv, [Next]_vars PROVE SharesOnlyInTransit
  OBVIOUS
<1>1. CASE UNCHANGED workspaces
  BY <1>1 DEF SharesOnlyInTransit, Shared, OpenAnywhere, OpenIn
<1>2. CASE CommitTransfer
  <2>1. transfer.source \in Window /\ \A u \in Window : OpenIn(u)' \subseteq OpenIn(u)
    BY <1>2, CommitProperties
  <2> QED
    BY <2>1, UnsharedSteps DEF SharesOnlyInTransit
<1>3. CASE RollbackTransfer /\ CanRollBack
  <2>1. transfer.destination \in Window /\ \A u \in Window : OpenIn(u)' \subseteq OpenIn(u)
    BY <1>3, RollbackProperties
  <2> QED
    BY <2>1, UnsharedSteps DEF SharesOnlyInTransit
<1>4. ASSUME NEW from \in Window, NEW to \in Window, NEW d \in OpenIn(from), from # to,
             \A u \in Window : OpenIn(u)' = IF u = from THEN OpenIn(u) \ {d}
                                            ELSE IF u = to THEN OpenIn(u) \cup {d}
                                            ELSE OpenIn(u)
      PROVE  SharesOnlyInTransit
  <2> SUFFICES ASSUME NEW id \in Shared' PROVE id \in Shared
    BY DEF SharesOnlyInTransit
  <2>1. PICK v \in Window, w \in Window : v # w /\ id \in OpenIn(v)' /\ id \in OpenIn(w)'
    BY DEF Shared
  <2>2. CASE id = d
    <3>1. \E u \in {v, w} : u # to /\ u # from /\ id \in OpenIn(u)
      BY <1>4, <2>1, <2>2
    <3> QED
      BY <2>1, <2>2, <3>1, SharedProperties
  <2>3. CASE id # d
    BY <1>4, <2>1, <2>3, SharedProperties
  <2> QED
    BY <2>2, <2>3
<1>5. CASE TransferDocument
  BY <1>1, <1>4, <1>5, TransferDocumentProperties
<1>6. CASE Application
  <2>1. PICK w \in Window : \E v : ApplicationStep(w, v)
    BY <1>6, ApplicationProperties
  <2>2. PICK v : ApplicationStep(w, v)
    BY <2>1
  <2>3. \A u \in Window : \A id \in OpenIn(u)' : id \in OpenAnywhere => id \in OpenIn(u)
    BY <2>2, ApplicationKeeps
  <2>4. \A u \in Window : u # w => OpenIn(u)' \subseteq OpenIn(u)
    BY <2>2 DEF ApplicationStep, Become, OpenIn, TransferInv, AllWellFormed
  <2> QED
    BY <2>1, <2>3, <2>4, UnsharedSteps DEF SharesOnlyInTransit
<1>7. RollbackTransfer /\ ~CanRollBack => UNCHANGED workspaces
  BY DEF RollbackTransfer
<1>8. PrepareTransfer \/ UNCHANGED vars => UNCHANGED workspaces
  BY DEF PrepareTransfer, vars
<1> QED
  BY <1>1, <1>2, <1>3, <1>5, <1>6, <1>7, <1>8, AcceptShares DEF Next

(* A transfer that ends leaves its document in one of the two windows.      *)
LEMMA EndLeavesOneOwner ==
  ASSUME TransferInv, [Next]_vars, InTransit # {}, transfer' = NoTransfer,
         outcome' # "rollback_failed"
  PROVE  InTransit \cap IdsOf(workspaces'[transfer.source].documents)
                   \cap IdsOf(workspaces'[transfer.destination].documents) = {}
<1>1. transfer # NoTransfer /\ transfer.accepted /\ InTransit = {transfer.document.id}
  BY DEF InTransit
<1>2. CommitTransfer \/ (RollbackTransfer /\ CanRollBack)
  BY <1>1 DEF Next, vars, PrepareTransfer, AcceptTransfer, RollbackTransfer, TransferDocument,
              Application, EndTransfer
<1>3. CASE CommitTransfer
  BY <1>1, <1>3, CommitProperties DEF OpenIn
<1>4. CASE RollbackTransfer /\ CanRollBack
  BY <1>1, <1>4, RollbackProperties DEF OpenIn
<1> QED
  BY <1>2, <1>3, <1>4

(* A document comes to have two owners only between accept and commit, and  *)
(* a transfer that ends leaves it with one of them.                         *)
THEOREM TransferKeepsOneOwner ==
  ASSUME TransferAssumption
  PROVE  Spec => SingleOwner
<1>1. TransferInv /\ [Next]_vars =>
        [/\ Shared' \subseteq Shared \cup InTransit'
         /\ InTransit # {} /\ transfer' = NoTransfer /\ outcome' # "rollback_failed" =>
              InTransit \cap IdsOf(workspaces'[transfer.source].documents)
                        \cap IdsOf(workspaces'[transfer.destination].documents) = {}]_vars
  BY StepShares, EndLeavesOneOwner DEF SharesOnlyInTransit
<1> QED
  BY <1>1, TransferInvariance, PTL DEF Spec, SingleOwner

-----------------------------------------------------------------------------
(* What the destination gets, and what it gets back.                        *)

(* The source gives up the record that the destination has adopted.         *)
THEOREM TransferMovesCurrentMetadata == Spec => CommitMovesCurrentMetadata
<1>1. TransferInv /\ [Next]_vars =>
        [outcome # "success" /\ outcome' = "success" /\ transfer # NoTransfer =>
           transfer.document \in Range(workspaces[transfer.source].documents)]_vars
  <2> SUFFICES ASSUME TransferInv, Next, outcome # "success", outcome' = "success",
                      transfer # NoTransfer
      PROVE  transfer.document \in Range(workspaces[transfer.source].documents)
    OBVIOUS
  <2>1. CommitTransfer
    BY DEF Next, PrepareTransfer, AcceptTransfer, RollbackTransfer, TransferDocument,
           Application, EndTransfer
  <2> QED
    BY <2>1 DEF CommitTransfer, CanCommit, TransferInv, PlanIsCurrent
<1> QED
  BY <1>1, TransferInvariance, PTL DEF Spec, CommitMovesCurrentMetadata

(* A destination that gives a document back is left with the tabs, their    *)
(* order and the active document it had before it accepted it.              *)
THEOREM RollbackRestores == Spec => RollbackRestoresDestination
<1>1. TransferInv /\ [Next]_vars =>
        [outcome # "rolled_back" /\ outcome' = "rolled_back" =>
           LET w == workspaces'[transfer.destination]
           IN  w.documents = before.documents /\ w.active = before.active]_vars
  <2> SUFFICES ASSUME TransferInv, Next, outcome # "rolled_back", outcome' = "rolled_back"
      PROVE  LET w == workspaces'[transfer.destination]
             IN  w.documents = before.documents /\ w.active = before.active
    OBVIOUS
  <2>1. RollbackTransfer /\ CanRollBack
    <3>1. RollbackTransfer
      BY TransferDocumentProperties
         DEF Next, PrepareTransfer, AcceptTransfer, CommitTransfer, Application, EndTransfer
    <3> QED
      BY <3>1 DEF RollbackTransfer, EndTransfer
  <2>2. PICK d, k :
          /\ d = transfer.document /\ d \in WorkspaceDocument /\ CanAdd(before, d, k)
          /\ workspaces[transfer.destination] = Added(before, d, k)
    BY <2>1 DEF RollbackTransfer, CanRollBack, TransferInv, TypeOK, Transfer, AcceptedIsAdded
  <2>3. workspaces'[transfer.destination] = Closed(Added(before, d, k), d.id, FALSE)
    BY <2>1, <2>2, RollbackProperties
  <2>4. k \in 1..Len(before.documents) + 1 /\ WellFormed(before)
    BY <2>2 DEF CanAdd, TransferInv, AllWellFormed
  <2>5. /\ Closed(Added(before, d, k), d.id, FALSE).documents = before.documents
        /\ Closed(Added(before, d, k), d.id, FALSE).active = before.active
    BY <2>2, <2>4, ClosedUndoesAdded
  <2> QED
    BY <2>3, <2>5
<1> QED
  BY <1>1, TransferInvariance, PTL DEF Spec, RollbackRestoresDestination
-----------------------------------------------------------------------------
(* All of it: whatever the application does between the calls, every        *)
(* document stays in one window, or in transit between two.                 *)
THEOREM DocumentsHaveOneOwner ==
  ASSUME TransferAssumption
  PROVE  Spec => EveryDocumentHasOneOwner
BY TransferTypeCorrect, TransferLosesNothing, TransferKeepsOneOwner,
   TransferMovesCurrentMetadata, RollbackRestores, PTL DEF EveryDocumentHasOneOwner
=============================================================================
