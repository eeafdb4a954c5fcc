------------------------- MODULE DocumentTabsProofs -------------------------
(***************************************************************************)
(* Proofs about DocumentTabs, for any windows and documents: pages, their   *)
(* bindings and documents stay together through TransferDocumentWithPage,   *)
(* whatever the messages of SetParent do, if they leave the bindings alone. *)
(***************************************************************************)
EXTENDS DocumentTabs, WorkspaceLemmas

-----------------------------------------------------------------------------
(* The inductive invariant.                                                 *)

AllWellFormed ==
  models \in [Window -> Workspace] /\ \A w \in Window : WellFormed(models[w])

NativeTypes ==
  /\ parent \in [DocumentId -> Window \cup {NoWindow}]
  /\ native \in [Window -> [items : Seq(DocumentId), selected : Nat]]
  /\ visible \subseteq DocumentId

ReturnTypes == returned \in ReturnStatus /\ torn \in BOOLEAN

(* No adapter binds a page twice.                                           *)
BoundOnce ==
  pages \in [Window -> Seq(DocumentId)] /\ \A w \in Window : Distinct(pages[w])

(* The call on the stack still finds the page where it found it: bound by   *)
(* the source at page_index and by nobody else, a child of the source or    *)
(* gone.  While it is sent back it is the destination's for a moment.       *)
CallHoldsItsPage ==
  call # NoCall =>
    /\ call \in Call /\ call.from # call.to
    /\ call.page_index \in DOMAIN pages[call.from]
    /\ pages[call.from][call.page_index] = call.document
    /\ call.document \notin Bound(call.to)
    /\ ~torn => \A w \in Window \ {call.from} : call.document \notin Bound(w)
    /\ call.step = "adopted" => parent[call.document] \in {call.from, NoWindow}

(* The destination is as the adoption left it, if its revision says so.     *)
CallRemembersBefore ==
  call # NoCall =>
    /\ WellFormed(call.before)
    /\ call.destination_revision <= models[call.to].revision
    /\ call.destination_revision = models[call.to].revision =>
         \E d \in WorkspaceDocument, k \in 1..Len(call.before.documents) + 1 :
           /\ d.id = call.document /\ CanAdd(call.before, d, k)
           /\ models[call.to] = Added(call.before, d, k)

TabsInv ==
  /\ AllWellFormed /\ NativeTypes /\ ReturnTypes /\ BoundOnce
  /\ CallHoldsItsPage /\ CallRemembersBefore /\ BoundPagesAreSiblings

LEMMA InvariantIsConsistent == ASSUME TabsInv PROVE PagesAreConsistent
BY DEF TabsInv, AllWellFormed, NativeTypes, ReturnTypes, BoundOnce, CallHoldsItsPage,
       PagesAreConsistent, TabsTypeOK

-----------------------------------------------------------------------------
(* Projections.                                                             *)

LEMMA ActiveIsOpen ==
  ASSUME NEW m, WellFormed(m), m.documents # <<>>
  PROVE  m.active \in IdsOf(m.documents) /\ m.active \in DocumentId
<1>1. m.active \in IdsOf(m.documents)
  BY DEF WellFormed, ActiveOpen
<1> QED
  BY <1>1, WellFormedFields, IdsAreDocumentIds

(* A strip that is synchronized has the workspace's tabs and its active one.*)
LEMMA ProjectionProperties ==
  ASSUME NEW m, WellFormed(m)
  PROVE  /\ Projection(m) \in [items : Seq(DocumentId), selected : Nat]
         /\ m.documents = <<>> => Projection(m).items = <<>>
         /\ m.documents # <<>> => Projection(m).items[Projection(m).selected] = m.active
<1>1. /\ m.documents \in Seq(WorkspaceDocument) /\ Len(m.documents) \in Nat
      /\ DOMAIN m.documents = 1..Len(m.documents)
  BY WellFormedFields
<1>2. PICK s : s = [i \in DOMAIN m.documents |-> m.documents[i].id]
  OBVIOUS
<1>3. s \in Seq(DocumentId)
  <2>1. \A i \in 1..Len(m.documents) : m.documents[i].id \in DocumentId
    <3>1. \A i \in 1..Len(m.documents) : m.documents[i] \in WorkspaceDocument
      BY <1>1
    <3> QED BY <3>1 DEF WorkspaceDocument
  <2>2. s = [i \in 1..Len(m.documents) |-> m.documents[i].id]
    BY <1>1, <1>2
  <2>3. s \in [1..Len(m.documents) -> DocumentId]
    BY <2>1, <2>2
  <2> QED BY <1>1, <2>3
<1>4. PICK k : k = IF m.documents = <<>> THEN 0 ELSE FindIndex(m.documents, m.active)
  OBVIOUS
<1>5. m.documents # <<>> => k \in 1..Len(m.documents) /\ m.documents[k].id = m.active
  BY <1>1, <1>4, ActiveIsOpen, FindIndexProperties
<1>6. Projection(m) = [items |-> s, selected |-> k]
  BY <1>2, <1>4 DEF Projection
<1>7. k \in Nat
  BY <1>1, <1>4, <1>5
<1>8. m.documents = <<>> => s = <<>>
  BY <1>1, <1>2
<1>9. m.documents # <<>> => s[k] = m.active
  BY <1>1, <1>2, <1>5
<1> QED BY <1>3, <1>6, <1>7, <1>8, <1>9

LEMMA ShownIsTyped ==
  ASSUME NEW m, WellFormed(m), NEW p, NEW before \in SUBSET DocumentId
  PROVE  Shown(m, p, before) \in SUBSET DocumentId
BY ActiveIsOpen DEF Shown

-----------------------------------------------------------------------------
(* What the application does, between the calls and within SetParent.       *)

(* Every window keeps its workspace or goes on to one with a greater        *)
(* revision.                                                                *)
ModelsAdvance ==
  /\ AllWellFormed'
  /\ \A w \in Window : models'[w] = models[w] \/ models'[w].revision > models[w].revision

LEMMA OneModelAdvances ==
  ASSUME AllWellFormed, NEW w \in Window, NEW m, WellFormed(m), SetModel(w, m),
         m = models[w] \/ m.revision > models[w].revision
  PROVE  ModelsAdvance
<1>1. m \in Workspace
  BY WellFormedFields
<1> QED BY <1>1 DEF ModelsAdvance, AllWellFormed, SetModel

LEMMA UnchangedModelsAdvance == ASSUME AllWellFormed, UNCHANGED models PROVE ModelsAdvance
BY DEF AllWellFormed, ModelsAdvance

LEMMA ModelOperationAdvances ==
  ASSUME AllWellFormed, ModelOperation
  PROVE  ModelsAdvance /\ UNCHANGED <<pages, parent, native, visible>>
<1>1. PICK w \in Window :
        \/ \E d \in WorkspaceDocument, k \in 1..Len(models[w].documents) + 1 :
             CanAdd(models[w], d, k) /\ SetModel(w, Added(models[w], d, k))
        \/ \E id \in IdsOf(models[w].documents) :
             \/ SetModel(w, Closed(models[w], id, FALSE))
             \/ SetModel(w, Activated(models[w], id))
             \/ \E k \in DOMAIN models[w].documents : SetModel(w, Moved(models[w], id, k))
  BY DEF ModelOperation, IdsIn
<1>2. PICK v : v = models[w] /\ WellFormed(v)
  BY DEF AllWellFormed
<1>3. v.revision \in Nat
  BY <1>2, WellFormedFields
<1>4. ASSUME NEW d \in WorkspaceDocument, NEW k \in 1..Len(v.documents) + 1,
             CanAdd(v, d, k), SetModel(w, Added(v, d, k))
      PROVE  ModelsAdvance
  <2>1. WellFormed(Added(v, d, k)) /\ Added(v, d, k).revision > v.revision
    BY <1>2, <1>3, <1>4, AddedWellFormed
  <2> QED BY <1>2, <1>4, <2>1, OneModelAdvances
<1>5. ASSUME NEW id \in IdsOf(v.documents), SetModel(w, Closed(v, id, FALSE))
      PROVE  ModelsAdvance
  <2>1. /\ WellFormed(Closed(v, id, FALSE))
        /\ Closed(v, id, FALSE).revision = v.revision + 1
    BY <1>2, <1>5, ClosedWellFormed
  <2>2. PICK closed : closed = Closed(v, id, FALSE)
    OBVIOUS
  <2>3. closed.revision = v.revision + 1 /\ WellFormed(closed)
    BY <2>1, <2>2, Zenon
  <2>5. closed.revision > v.revision
    BY <1>3, <2>3
  <2>4. SetModel(w, closed)
    BY <1>5, <2>2
  <2> QED BY <1>2, <2>3, <2>4, <2>5, OneModelAdvances
<1>6. ASSUME NEW id \in IdsOf(v.documents), SetModel(w, Activated(v, id))
      PROVE  ModelsAdvance
  <2>1. WellFormed(Activated(v, id))
        /\ (Activated(v, id) = v \/ Activated(v, id).revision > v.revision)
    BY <1>2, <1>3, <1>6, ActivatedWellFormed
  <2> QED BY <1>2, <1>6, <2>1, OneModelAdvances
<1>7. ASSUME NEW id \in IdsOf(v.documents), NEW k \in DOMAIN v.documents,
             SetModel(w, Moved(v, id, k))
      PROVE  ModelsAdvance
  <2>1. WellFormed(Moved(v, id, k)) /\ Moved(v, id, k).revision > v.revision
    BY <1>2, <1>3, <1>7, MovedWellFormed
  <2> QED BY <1>2, <1>7, <2>1, OneModelAdvances
<1>8. ModelsAdvance
  BY <1>1, <1>2, <1>4, <1>5, <1>6, <1>7
<1> QED BY <1>8 DEF ModelOperation

(* A strip is synchronized, or not at all.                                  *)
LEMMA SynchronizedIsTyped ==
  ASSUME NativeTypes, NEW w \in Window, NEW m, WellFormed(m), NEW p,
         native' = [native EXCEPT ![w] = Projection(m)],
         visible' = Shown(m, p, visible), UNCHANGED parent
  PROVE  NativeTypes'
<1>1. PICK projected : projected = Projection(m)
                       /\ projected \in [items : Seq(DocumentId), selected : Nat]
  BY ProjectionProperties
<1>2. visible' \in SUBSET DocumentId
  BY ShownIsTyped DEF NativeTypes
<1> QED BY <1>1, <1>2 DEF NativeTypes

LEMMA SynchronizeKeepsTypes ==
  ASSUME AllWellFormed, NativeTypes, Synchronize
  PROVE  ModelsAdvance /\ NativeTypes' /\ UNCHANGED <<pages, parent>>
<1>1. PICK w \in Window : /\ native' = [native EXCEPT ![w] = Projection(models[w])]
                          /\ visible' = Shown(models[w], pages[w], visible)
                          /\ UNCHANGED <<models, pages, parent>>
  BY DEF Synchronize
<1>2. WellFormed(models[w])
  BY DEF AllWellFormed
<1>3. NativeTypes'
  BY <1>1, <1>2, SynchronizedIsTyped
<1> QED BY <1>1, <1>3, UnchangedModelsAdvance

LEMMA SelectionKeepsTypes ==
  ASSUME AllWellFormed, NativeTypes, ActivateNativeSelection
  PROVE  ModelsAdvance /\ NativeTypes' /\ UNCHANGED <<pages, parent>>
<1>1. PICK w, k :
        LET id == Selection(w, k)
            m == IF CanActivate(models[w], id) THEN Activated(models[w], id) ELSE models[w]
        IN  /\ w \in Window /\ k \in DOMAIN native[w].items
            /\ SetModel(w, m)
            /\ IF m.active = id /\ CanSynchronize(w, m, pages[w], parent)
               THEN /\ native' = [native EXCEPT ![w] = Projection(m)]
                    /\ visible' = Shown(m, pages[w], visible)
               ELSE /\ native' = [native EXCEPT ![w].selected = k]
                    /\ UNCHANGED visible
            /\ UNCHANGED <<pages, parent>>
  BY DEF ActivateNativeSelection
<1>2. PICK id : id = Selection(w, k)
  OBVIOUS
<1>3. PICK m : m = IF CanActivate(models[w], id) THEN Activated(models[w], id) ELSE models[w]
  OBVIOUS
<1>4. /\ w \in Window /\ k \in DOMAIN native[w].items
      /\ SetModel(w, m)
      /\ \/ /\ native' = [native EXCEPT ![w] = Projection(m)]
            /\ visible' = Shown(m, pages[w], visible)
         \/ /\ native' = [native EXCEPT ![w].selected = k]
            /\ UNCHANGED visible
      /\ UNCHANGED <<pages, parent>>
  BY <1>1, <1>2, <1>3, Zenon
<1>5. PICK v : v = models[w] /\ WellFormed(v) /\ v.revision \in Nat
  BY <1>4, WellFormedFields DEF AllWellFormed
<1>6. WellFormed(m) /\ (m = v \/ m.revision > v.revision)
  <2>1. CASE id \in IdsOf(v.documents)
    BY <1>5, <1>3, <2>1, ActivatedWellFormed DEF CanActivate
  <2> QED BY <1>5, <1>3, <2>1 DEF CanActivate
<1>7. ModelsAdvance
  BY <1>4, <1>5, <1>6, OneModelAdvances
<1>8. NativeTypes'
  <2>1. CASE native' = [native EXCEPT ![w] = Projection(m)]
             /\ visible' = Shown(m, pages[w], visible)
    BY <1>4, <1>6, <2>1, SynchronizedIsTyped
  <2>2. CASE native' = [native EXCEPT ![w].selected = k] /\ UNCHANGED visible
    <3>1. native[w].items \in Seq(DocumentId)
      BY <1>4 DEF NativeTypes
    <3>2. k \in Nat
      BY <1>4, <3>1
    <3> QED BY <1>4, <2>2, <3>2 DEF NativeTypes
  <2> QED BY <1>4, <2>1, <2>2
<1> QED BY <1>4, <1>7, <1>8

LEMMA AdvanceRemembersBefore ==
  ASSUME TabsInv, ModelsAdvance, UNCHANGED call
  PROVE  CallRemembersBefore'
<1> SUFFICES ASSUME call # NoCall
    PROVE  /\ call.destination_revision <= models'[call.to].revision
           /\ call.destination_revision = models'[call.to].revision =>
                models'[call.to] = models[call.to]
  BY DEF TabsInv, CallRemembersBefore
<1>1. call \in Call /\ call.to \in Window /\ call.destination_revision \in Nat
  BY DEF TabsInv, CallHoldsItsPage, Call
<1>2. models[call.to].revision \in Nat /\ models'[call.to].revision \in Nat
  BY <1>1, WellFormedFields DEF TabsInv, ModelsAdvance, AllWellFormed
<1> QED BY <1>1, <1>2 DEF TabsInv, CallRemembersBefore, ModelsAdvance

(* Models and strips change, bindings and pages do not.                     *)
LEMMA ModelsKeepInvariant ==
  ASSUME TabsInv, ModelsAdvance, NativeTypes', UNCHANGED <<pages, parent, call, torn>>,
         returned' = "none"
  PROVE  TabsInv'
<1>1. AllWellFormed'
  BY DEF ModelsAdvance
<1>2. ReturnTypes' /\ BoundOnce' /\ CallHoldsItsPage' /\ BoundPagesAreSiblings'
  BY DEF TabsInv, ReturnTypes, ReturnStatus, BoundOnce, CallHoldsItsPage,
         BoundPagesAreSiblings, Bound
<1> QED BY <1>1, <1>2, AdvanceRemembersBefore DEF TabsInv

(* Pages are made only where nobody has a binding left for them, and        *)
(* destroyed everywhere.                                                    *)
LEMMA PagesKeepInvariant ==
  ASSUME TabsInv, CreatePage \/ DestroyPage, UNCHANGED <<call, torn>>, returned' = "none"
  PROVE  TabsInv'
<1>1. PICK d \in DocumentId, p \in Window \cup {NoWindow} :
        /\ parent' = [parent EXCEPT ![d] = p]
        /\ visible' \subseteq visible
        /\ p = NoWindow \/ \A w \in Window : d \notin Bound(w)
        /\ UNCHANGED <<models, pages, native>>
  BY DEF CreatePage, DestroyPage
<1>2. AllWellFormed' /\ CallRemembersBefore'
  BY <1>1, UnchangedModelsAdvance, AdvanceRemembersBefore DEF TabsInv, ModelsAdvance
<1>3. NativeTypes' /\ ReturnTypes' /\ BoundOnce'
  BY <1>1 DEF TabsInv, NativeTypes, ReturnTypes, ReturnStatus, BoundOnce
<1>4. CallHoldsItsPage'
  <2> SUFFICES ASSUME call # NoCall PROVE CallHoldsItsPage'
    BY DEF CallHoldsItsPage
  <2>1. call \in Call /\ call.from \in Window /\ call.document \in Bound(call.from)
    BY DEF TabsInv, CallHoldsItsPage, Bound, Range, Call
  <2>2. d = call.document => p = NoWindow
    BY <1>1, <2>1
  <2>3. parent \in [DocumentId -> Window \cup {NoWindow}]
    BY DEF TabsInv, NativeTypes
  <2> QED
    BY <1>1, <2>2, <2>3 DEF TabsInv, CallHoldsItsPage, Bound
<1>5. BoundPagesAreSiblings'
  <2>1. parent \in [DocumentId -> Window \cup {NoWindow}]
    BY DEF TabsInv, NativeTypes
  <2> QED BY <1>1, <2>1 DEF TabsInv, BoundPagesAreSiblings, Bound
<1> QED BY <1>2, <1>3, <1>4, <1>5 DEF TabsInv

(* Bindings change only while no call is on the stack.                      *)
LEMMA BindingsKeepInvariant ==
  ASSUME TabsInv, call = NoCall, BindPage \/ UnbindPage \/ Attach,
         UNCHANGED <<call, torn>>, returned' = "none"
  PROVE  TabsInv'
<1>1. pages \in [Window -> Seq(DocumentId)] /\ \A w \in Window : Distinct(pages[w])
  BY DEF TabsInv, BoundOnce
<1>2. PICK w \in Window, s \in Seq(DocumentId) :
        /\ Distinct(s) /\ pages' = [pages EXCEPT ![w] = s]
        /\ \A d \in Range(s) : d \in Bound(w) \/ parent[d] = w
        /\ UNCHANGED <<models, parent, native, visible>>
  <2>1. CASE BindPage
    <3>1. PICK w \in Window, d \in DocumentId :
            /\ parent[d] = w /\ d \notin Bound(w)
            /\ pages' = [pages EXCEPT ![w] = Append(pages[w], d)]
            /\ UNCHANGED <<models, parent, native, visible>>
      BY <2>1 DEF BindPage
    <3>2. PICK s : s = Append(pages[w], d)
      OBVIOUS
    <3>3. s \in Seq(DocumentId) /\ Distinct(s) /\ Range(s) = Bound(w) \cup {d}
      BY <1>1, <3>1, <3>2, DistinctAppend DEF Bound
    <3> QED BY <3>1, <3>2, <3>3
  <2>2. CASE UnbindPage
    <3>1. PICK w, i :
            /\ w \in Window /\ i \in DOMAIN pages[w]
            /\ pages' = [pages EXCEPT ![w] = RemoveAt(pages[w], i)]
            /\ UNCHANGED <<models, parent, native, visible>>
      BY <2>2 DEF UnbindPage
    <3>2. PICK s : s = RemoveAt(pages[w], i)
      OBVIOUS
    <3>3. s \in Seq(DocumentId) /\ Distinct(s) /\ Range(s) \subseteq Bound(w)
      BY <1>1, <3>1, <3>2, DistinctRemoval DEF Bound
    <3> QED BY <3>1, <3>2, <3>3
  <2>3. CASE Attach
    <3>1. PICK w \in Window : /\ pages' = [pages EXCEPT ![w] = <<>>]
                              /\ UNCHANGED <<models, parent, native, visible>>
      BY <2>3 DEF Attach
    <3>2. <<>> \in Seq(DocumentId) /\ Distinct(<<>>) /\ Range(<<>>) = {}
      BY DEF Distinct, Range
    <3> QED BY <3>1, <3>2
  <2> QED BY <2>1, <2>2, <2>3
<1>3. AllWellFormed' /\ CallRemembersBefore'
  BY <1>2, UnchangedModelsAdvance, AdvanceRemembersBefore DEF TabsInv, ModelsAdvance
<1>4. NativeTypes' /\ ReturnTypes'
  BY <1>2 DEF TabsInv, NativeTypes, ReturnTypes, ReturnStatus
<1>5. BoundOnce'
  BY <1>1, <1>2 DEF BoundOnce
<1>6. CallHoldsItsPage'
  BY DEF CallHoldsItsPage
<1>7. BoundPagesAreSiblings'
  <2>1. \A v \in Window : Range(pages'[v]) = IF v = w THEN Range(s) ELSE Bound(v)
    BY <1>1, <1>2 DEF Bound
  <2> SUFFICES ASSUME NEW v \in Window, NEW d \in Range(pages'[v]), ~torn
               PROVE  parent[d] \in {v, NoWindow}
    BY <1>2 DEF BoundPagesAreSiblings, Bound
  <2>2. d \in Bound(v) \/ parent[d] = v
    BY <1>2, <2>1
  <2> QED BY <2>2 DEF TabsInv, BoundPagesAreSiblings
<1> QED BY <1>3, <1>4, <1>5, <1>6, <1>7 DEF TabsInv

LEMMA ApplicationKeepsInvariant ==
  ASSUME ~ReentrantBindings, TabsInv, TabsApplication
  PROVE  TabsInv'
<1>1. returned' = "none" /\ UNCHANGED <<call, torn>>
  BY DEF TabsApplication
<1>2. CASE ModelOperation
  <2>1. ModelsAdvance /\ UNCHANGED <<pages, parent, native, visible>>
    BY <1>2, ModelOperationAdvances DEF TabsInv
  <2>2. NativeTypes'
    BY <2>1 DEF TabsInv, NativeTypes
  <2> QED BY <1>1, <2>1, <2>2, ModelsKeepInvariant
<1>3. CASE Synchronize
  BY <1>1, <1>3, SynchronizeKeepsTypes, ModelsKeepInvariant DEF TabsInv
<1>4. CASE ActivateNativeSelection
  BY <1>1, <1>4, SelectionKeepsTypes, ModelsKeepInvariant DEF TabsInv
<1>5. CASE CreatePage \/ DestroyPage
  BY <1>1, <1>5, PagesKeepInvariant
<1>6. CASE call = NoCall /\ (BindPage \/ UnbindPage \/ Attach)
  BY <1>1, <1>6, BindingsKeepInvariant
<1> QED BY <1>2, <1>3, <1>4, <1>5, <1>6 DEF TabsApplication

-----------------------------------------------------------------------------
(* TransferDocumentWithPage.                                                *)

LEMMA PageIndexFinds ==
  ASSUME NEW w, NEW d \in Bound(w)
  PROVE  FindPageIndex(w, d) \in DOMAIN pages[w] /\ pages[w][FindPageIndex(w, d)] = d
BY DEF FindPageIndex, Bound, Range

LEMMA StartKeepsInvariant ==
  ASSUME TabsInv, StartTransfer
  PROVE  TabsInv'
<1> DEFINE Begins(from, to, id, k) ==
         LET source == models[from]
             d == source.documents[FindIndex(source.documents, id)]
         IN  /\ from # to
             /\ source.revision < MaxRevision
             /\ models[to].revision < MaxRevision
             /\ id \notin Bound(to) /\ parent[id] = from
             /\ CanAdd(models[to], d, k)
             /\ SetModel(to, Added(models[to], d, k))
             /\ call' = [document |-> id, from |-> from, to |-> to,
                         page_index |-> FindPageIndex(from, id),
                         was_active |-> source.active = id,
                         source_revision |-> source.revision,
                         destination_revision |-> models[to].revision + 1,
                         step |-> "adopted", before |-> models[to]]
<1>1. PICK from \in Window, to \in Window : \E id \in IdsIn(from) \cap Bound(from) :
          \E k \in 1..Len(models[to].documents) + 1 : Begins(from, to, id, k)
  BY Zenon DEF StartTransfer
<1>2. PICK id \in IdsIn(from) \cap Bound(from) :
          \E k \in 1..Len(models[to].documents) + 1 : Begins(from, to, id, k)
  BY <1>1
<1>3. PICK k \in 1..Len(models[to].documents) + 1 : Begins(from, to, id, k)
  BY <1>2
<1>4. PICK d, w, at :
        /\ w = models[to] /\ d = models[from].documents[FindIndex(models[from].documents, id)]
        /\ at = FindPageIndex(from, id)
        /\ id \in IdsOf(models[from].documents) /\ id \in Bound(from)
        /\ k \in 1..Len(w.documents) + 1
        /\ from # to /\ id \notin Bound(to) /\ parent[id] = from
        /\ CanAdd(w, d, k) /\ SetModel(to, Added(w, d, k))
        /\ call' = [document |-> id, from |-> from, to |-> to, page_index |-> at,
                    was_active |-> models[from].active = id,
                    source_revision |-> models[from].revision,
                    destination_revision |-> w.revision + 1,
                    step |-> "adopted", before |-> w]
  BY <1>3, Zenon DEF IdsIn
<1>5. /\ call = NoCall /\ returned' = "none"
      /\ UNCHANGED <<pages, parent, native, visible, torn>>
  BY DEF StartTransfer
<1>6. /\ WellFormed(w) /\ w \in Workspace /\ w.revision \in Nat
      /\ models[from].documents \in Seq(WorkspaceDocument) /\ models[from].revision \in Nat
  BY <1>4, WellFormedFields DEF TabsInv, AllWellFormed
<1>7. d \in WorkspaceDocument /\ d.id = id /\ id \in DocumentId
  <2>1. /\ FindIndex(models[from].documents, id) \in 1..Len(models[from].documents)
        /\ models[from].documents[FindIndex(models[from].documents, id)].id = id
    BY <1>4, <1>6, FindIndexProperties
  <2>2. d \in WorkspaceDocument /\ d.id = id
    BY <1>4, <1>6, <2>1
  <2> QED BY <2>2 DEF WorkspaceDocument
<1>8. PICK m : m = Added(w, d, k)
  OBVIOUS
<1>9. WellFormed(m) /\ m.revision = w.revision + 1
  BY <1>4, <1>6, <1>7, <1>8, AddedWellFormed
<1>10. at \in DOMAIN pages[from] /\ pages[from][at] = id
  BY <1>4, PageIndexFinds
<1>11. ModelsAdvance /\ models'[to] = m
  <2>1. m.revision > w.revision
    BY <1>6, <1>9
  <2>2. ModelsAdvance
    BY <1>4, <1>8, <1>9, <2>1, OneModelAdvances DEF TabsInv
  <2> QED BY <1>4, <1>8, <2>2 DEF SetModel, TabsInv, AllWellFormed
<1>12. NativeTypes' /\ ReturnTypes' /\ BoundOnce'
  BY <1>5 DEF TabsInv, NativeTypes, ReturnTypes, ReturnStatus, BoundOnce
<1>13. CallHoldsItsPage'
  <2>1. at \in Nat
    BY <1>4, <1>10 DEF TabsInv, BoundOnce
  <2>2. call' \in Call
    BY <1>4, <1>6, <1>7, <2>1 DEF Call
  <2>3. ~torn => \A v \in Window \ {from} : id \notin Bound(v)
    BY <1>4, <1>5, TabsAssumption DEF TabsInv, BoundPagesAreSiblings
  <2> QED
    BY <1>4, <1>5, <1>10, <2>2, <2>3 DEF CallHoldsItsPage, Bound
<1>14. CallRemembersBefore'
  BY <1>4, <1>6, <1>7, <1>8, <1>9, <1>11 DEF CallRemembersBefore
<1>15. BoundPagesAreSiblings'
  BY <1>5 DEF TabsInv, BoundPagesAreSiblings, Bound
<1> QED BY <1>11, <1>12, <1>13, <1>14, <1>15 DEF TabsInv, ModelsAdvance

(* A rollback that succeeds leaves the destination as it was before the     *)
(* call, and one that fails says so.                                        *)
LEMMA RollBackProperties ==
  ASSUME TabsInv, call # NoCall, NEW status \in ReturnStatus, RollBack(status)
  PROVE  /\ ModelsAdvance /\ call' = NoCall /\ ReturnTypes'
         /\ torn' = (torn \/ returned' = "rollback_failure")
         /\ returned' \in {status, "rollback_failure"}
         /\ returned' # "rollback_failure" =>
              /\ models'[call.to].documents = call.before.documents
              /\ models'[call.to].active = call.before.active
<1>1. call \in Call /\ call.to \in Window /\ call.document \in DocumentId
  BY DEF TabsInv, CallHoldsItsPage, Call
<1>2. PICK w, m : w = models[call.to] /\ m = Closed(w, call.document, FALSE)
  OBVIOUS
<1>3. WellFormed(w) /\ w.revision \in Nat
  BY <1>1, <1>2, WellFormedFields DEF TabsInv, AllWellFormed
<1>4. CASE /\ w.revision = call.destination_revision /\ call.document \in IdsIn(call.to)
           /\ SetModel(call.to, m) /\ Return(status)
  <2>1. call.document \in IdsOf(w.documents)
    BY <1>2, <1>4 DEF IdsIn
  <2>2. WellFormed(m) /\ m.revision = w.revision + 1
    BY <1>2, <1>3, <2>1, ClosedWellFormed
  <2>3. m.revision > w.revision
    BY <1>3, <2>2
  <2>4. ModelsAdvance
    BY <1>1, <1>2, <1>4, <2>2, <2>3, OneModelAdvances DEF TabsInv
  <2>5. models'[call.to] = m
    BY <1>1, <1>4 DEF SetModel, TabsInv, AllWellFormed
  <2>6. PICK before : before = call.before /\ WellFormed(before)
    BY DEF TabsInv, CallRemembersBefore
  <2>7. m.documents = before.documents /\ m.active = before.active
    <3>1. PICK d \in WorkspaceDocument, k \in 1..Len(before.documents) + 1 :
            d.id = call.document /\ CanAdd(before, d, k) /\ w = Added(before, d, k)
      BY <1>2, <1>4, <2>6 DEF TabsInv, CallRemembersBefore
    <3>2. m = Closed(Added(before, d, k), d.id, FALSE)
      BY <1>2, <3>1
    <3> QED BY <2>6, <3>1, <3>2, ClosedUndoesAdded
  <2>8. /\ call' = NoCall /\ returned' = status
        /\ torn' = (torn \/ returned' = "rollback_failure")
    BY <1>4 DEF Return
  <2>9. ReturnTypes'
    BY <2>8 DEF TabsInv, ReturnTypes
  <2> QED BY <2>4, <2>5, <2>6, <2>7, <2>8, <2>9
<1>5. CASE UNCHANGED models /\ Return("rollback_failure")
  <2>1. /\ call' = NoCall /\ returned' = "rollback_failure"
        /\ torn' = (torn \/ returned' = "rollback_failure")
    BY <1>5 DEF Return
  <2>2. ReturnTypes'
    BY <2>1 DEF TabsInv, ReturnTypes, ReturnStatus
  <2> QED BY <1>5, <2>1, <2>2, UnchangedModelsAdvance DEF TabsInv
<1> QED BY <1>2, <1>4, <1>5 DEF RollBack

(* The page goes back to the source, if it is not there, or is gone.        *)
LEMMA RollBackKeepsInvariant ==
  ASSUME TabsInv, call # NoCall, NEW status \in ReturnStatus, RollBack(status),
         UNCHANGED <<pages, native, visible>>,
         parent' = parent \/ parent' = [parent EXCEPT ![call.document] = call.from],
         torn' \/ parent'[call.document] \in {call.from, NoWindow}
  PROVE  TabsInv'
<1>1. /\ call \in Call /\ call.from \in Window /\ call.document \in DocumentId
      /\ ~torn => \A w \in Window \ {call.from} : call.document \notin Bound(w)
  BY DEF TabsInv, CallHoldsItsPage, Call
<1>2. /\ ModelsAdvance /\ call' = NoCall /\ ReturnTypes'
      /\ torn' = (torn \/ returned' = "rollback_failure")
  BY RollBackProperties
<1>3. NativeTypes' /\ BoundOnce'
  BY <1>1 DEF TabsInv, NativeTypes, BoundOnce
<1>4. CallHoldsItsPage' /\ CallRemembersBefore'
  BY <1>2 DEF CallHoldsItsPage, CallRemembersBefore
<1>5. BoundPagesAreSiblings'
  <2> SUFFICES ASSUME NEW w \in Window, NEW d \in Bound(w), ~torn'
               PROVE  parent'[d] \in {w, NoWindow}
    BY DEF BoundPagesAreSiblings, Bound
  <2>1. ~torn
    BY <1>2
  <2>2. CASE d = call.document
    BY <1>1, <2>1, <2>2
  <2>3. CASE d # call.document
    <3>1. parent[d] \in {w, NoWindow}
      BY <2>1, <2>3 DEF TabsInv, BoundPagesAreSiblings
    <3>2. parent'[d] = parent[d]
      BY <2>3, d \in DocumentId DEF TabsInv, NativeTypes, BoundOnce, Bound, Range
    <3> QED BY <3>1, <3>2
  <2> QED BY <2>2, <2>3
<1> QED BY <1>2, <1>3, <1>4, <1>5 DEF TabsInv, ModelsAdvance

LEMMA SetParentFailsKeepsInvariant ==
  ASSUME TabsInv, SetParentFails
  PROVE  TabsInv'
<1>1. /\ call # NoCall /\ RollBack("native_failure") /\ UNCHANGED <<pages, parent, native, visible>>
      /\ parent[call.document] \in {call.from, NoWindow}
  BY DEF SetParentFails, TabsInv, CallHoldsItsPage
<1>2. "native_failure" \in ReturnStatus
  BY DEF ReturnStatus
<1> QED BY <1>1, <1>2, RollBackKeepsInvariant

LEMMA RestorePageKeepsInvariant ==
  ASSUME TabsInv, RestorePage
  PROVE  TabsInv'
<1>1. call # NoCall /\ UNCHANGED <<pages, native, visible>>
  BY DEF RestorePage
<1>2. "model_failure" \in ReturnStatus /\ "rollback_failure" \in ReturnStatus
  BY DEF ReturnStatus
<1>3. CASE parent' = [parent EXCEPT ![call.document] = call.from] /\ RollBack("model_failure")
  <2>1. parent'[call.document] = call.from
    BY <1>1, <1>3 DEF TabsInv, NativeTypes, CallHoldsItsPage, Call
  <2> QED BY <1>1, <1>2, <1>3, <2>1, RollBackKeepsInvariant
<1>4. CASE UNCHANGED parent /\ RollBack("rollback_failure")
  <2>1. torn'
    BY <1>1, <1>2, <1>4, RollBackProperties
  <2> QED BY <1>1, <1>2, <1>4, <2>1, RollBackKeepsInvariant
<1> QED BY <1>3, <1>4 DEF RestorePage

(* The page goes to the destination once more, to be sent back from there.  *)
LEMMA CommitRefusedKeepsInvariant ==
  ASSUME TabsInv, CommitRefused
  PROVE  TabsInv'
<1>1. /\ call # NoCall /\ parent' = [parent EXCEPT ![call.document] = call.to]
      /\ call' = [call EXCEPT !.step = "restoring"]
      /\ UNCHANGED <<models, pages, native, visible, returned, torn>>
  BY DEF CommitRefused
<1>2. call \in Call /\ call.to \in Window /\ call.document \in DocumentId
  BY <1>1 DEF TabsInv, CallHoldsItsPage, Call
<1>3. /\ call' \in Call /\ call' # NoCall /\ call'.step = "restoring"
      /\ call'.document = call.document /\ call'.from = call.from /\ call'.to = call.to
      /\ call'.page_index = call.page_index /\ call'.before = call.before
      /\ call'.destination_revision = call.destination_revision
  BY <1>1, <1>2, TabsAssumption DEF Call
<1>4. AllWellFormed' /\ NativeTypes' /\ ReturnTypes' /\ BoundOnce'
  BY <1>1, <1>2 DEF TabsInv, AllWellFormed, NativeTypes, ReturnTypes, BoundOnce
<1>5. CallHoldsItsPage'
  BY <1>1, <1>3 DEF TabsInv, CallHoldsItsPage, Bound
<1>6. CallRemembersBefore'
  BY <1>1, <1>3 DEF TabsInv, CallRemembersBefore
<1>7. BoundPagesAreSiblings'
  <2> SUFFICES ASSUME NEW w \in Window, NEW d \in Bound(w), ~torn, d # call.document
               PROVE  parent'[d] \in {w, NoWindow}
    BY <1>1, <1>3 DEF BoundPagesAreSiblings, Bound
  <2>1. parent[d] \in {w, NoWindow}
    BY DEF TabsInv, BoundPagesAreSiblings
  <2>2. parent'[d] = parent[d]
    BY <1>1, d \in DocumentId DEF TabsInv, NativeTypes, BoundOnce, Bound, Range
  <2> QED BY <2>1, <2>2
<1> QED BY <1>4, <1>5, <1>6, <1>7 DEF TabsInv

(* What a commit makes of the two windows: workspaces left and arrived,     *)
(* bindings p and q, and the windows whose strips could be synchronized.    *)
Commits(left, arrived, p, q, synced) ==
  LET id == call.document
      from == call.from
      to == call.to
      first == IF from \in synced THEN Shown(left, p, visible) ELSE visible
  IN  /\ WellFormed(left) /\ IdsOf(left.documents) = IdsIn(from) \ {id}
      /\ WellFormed(arrived) /\ IdsOf(arrived.documents) = IdsIn(to)
      /\ models' = [models EXCEPT ![from] = left, ![to] = arrived]
      /\ p \in Seq(DocumentId) /\ Distinct(p) /\ Range(p) = Bound(from) \ {id}
      /\ q \in Seq(DocumentId) /\ Distinct(q) /\ Range(q) = Bound(to) \cup {id}
      /\ pages' = [pages EXCEPT ![from] = p, ![to] = q]
      /\ parent' = [parent EXCEPT ![id] = to]
      /\ synced \subseteq {from, to}
      /\ from \in synced => CanSynchronize(from, left, p, parent')
      /\ to \in synced => CanSynchronize(to, arrived, q, parent')
      /\ to \notin synced => ~CanSynchronize(to, arrived, q, parent')
      /\ native' = [w \in Window |-> IF w \in synced THEN Projection(models'[w])
                                     ELSE native[w]]
      /\ visible' = IF to \in synced THEN Shown(arrived, q, first) ELSE first
      /\ returned' = IF synced = {from, to} THEN "success" ELSE "projection_failure"

LEMMA CommitProperties ==
  ASSUME TabsInv, CommitWithPage
  PROVE  /\ \E left, arrived, p, q, synced : Commits(left, arrived, p, q, synced)
         /\ call # NoCall /\ call' = NoCall /\ UNCHANGED torn
<1> DEFINE id == call.document
           from == call.from
           to == call.to
           index == call.page_index
           left == Closed(models[from], id, FALSE)
           arrived == IF call.was_active /\ CanActivate(models[to], id)
                      THEN Activated(models[to], id) ELSE models[to]
           after == [models EXCEPT ![from] = left, ![to] = arrived]
           bindings == [pages EXCEPT ![from] = RemoveAt(@, index), ![to] = Append(@, id)]
           parents == [parent EXCEPT ![id] = to]
           synced == {w \in {from, to} : CanSynchronize(w, after[w], bindings[w], parents)}
           first == IF from \in synced THEN Shown(left, bindings[from], visible) ELSE visible
           status == IF synced = {from, to} THEN "success" ELSE "projection_failure"
           p == RemoveAt(pages[from], index)
           q == Append(pages[to], id)
<1>1. /\ models' = after /\ pages' = bindings /\ parent' = parents
      /\ native' = [w \in Window |-> IF w \in synced THEN Projection(after[w]) ELSE native[w]]
      /\ visible' = IF to \in synced THEN Shown(arrived, bindings[to], first) ELSE first
      /\ Return(status) /\ call # NoCall
      /\ SourceUnchanged /\ index \in DOMAIN pages[from]
  BY Zenon DEF CommitWithPage
<1>2. /\ call \in Call /\ id \in DocumentId /\ from \in Window /\ to \in Window /\ from # to
      /\ pages[from][index] = id /\ id \notin Bound(to)
      /\ id \in IdsOf(models[from].documents)
  BY <1>1 DEF TabsInv, CallHoldsItsPage, Call, SourceUnchanged, IdsIn
<1>3. WellFormed(left) /\ IdsOf(left.documents) = IdsIn(from) \ {id}
  BY <1>2, ClosedWellFormed DEF TabsInv, AllWellFormed, IdsIn
<1>4. WellFormed(arrived) /\ IdsOf(arrived.documents) = IdsIn(to)
  <2>1. WellFormed(arrived) /\ arrived.documents = models[to].documents
    BY <1>2, ActivatedWellFormed DEF TabsInv, AllWellFormed, CanActivate
  <2> QED BY <2>1 DEF IdsIn
<1>5. p \in Seq(DocumentId) /\ Distinct(p) /\ Range(p) = Bound(from) \ {id}
  BY <1>1, <1>2, DistinctRemoval DEF TabsInv, BoundOnce, Bound
<1>6. q \in Seq(DocumentId) /\ Distinct(q) /\ Range(q) = Bound(to) \cup {id}
  BY <1>2, DistinctAppend DEF TabsInv, BoundOnce, Bound
<1> HIDE DEF left, arrived, parents, status
<1>7. after[from] = left /\ after[to] = arrived
  BY <1>2 DEF TabsInv, AllWellFormed
<1>8. /\ bindings = [pages EXCEPT ![from] = p, ![to] = q]
      /\ bindings[from] = p /\ bindings[to] = q
  BY <1>2 DEF TabsInv, BoundOnce
<1> HIDE DEF after, bindings, p, q
<1>9. /\ synced \subseteq {from, to}
      /\ from \in synced <=> CanSynchronize(from, left, p, parents)
      /\ to \in synced <=> CanSynchronize(to, arrived, q, parents)
  BY <1>7, <1>8
<1> HIDE DEF synced
<1>10. first = IF from \in synced THEN Shown(left, p, visible) ELSE visible
  BY <1>8
<1> HIDE DEF first
<1>11. visible' = IF to \in synced THEN Shown(arrived, q, first) ELSE first
  BY <1>1, <1>8
<1>12. call' = NoCall /\ returned' = status /\ torn' = (torn \/ status = "rollback_failure")
  BY <1>1, Zenon DEF Return
<1>13. returned' = IF synced = {from, to} THEN "success" ELSE "projection_failure"
  BY <1>12 DEF status
<1>14. UNCHANGED torn
  BY <1>12 DEF TabsInv, ReturnTypes, status
<1>15. Commits(left, arrived, p, q, synced)
  <2>1. models' = [models EXCEPT ![from] = left, ![to] = arrived]
    BY <1>1 DEF after
  <2>2. parent' = [parent EXCEPT ![id] = to]
    BY <1>1 DEF parents
  <2>3. native' = [w \in Window |-> IF w \in synced THEN Projection(models'[w]) ELSE native[w]]
    BY <1>1
  <2>4. pages' = [pages EXCEPT ![from] = p, ![to] = q]
    BY <1>1, <1>8
  <2>5. /\ from \in synced <=> CanSynchronize(from, left, p, parent')
        /\ to \in synced <=> CanSynchronize(to, arrived, q, parent')
    BY <1>1, <1>9
  <2>6. visible' = IF to \in synced
                   THEN Shown(arrived, q, IF from \in synced THEN Shown(left, p, visible) ELSE visible)
                   ELSE IF from \in synced THEN Shown(left, p, visible) ELSE visible
    BY <1>10, <1>11
  <2> QED
    BY <1>3, <1>4, <1>5, <1>6, <1>9, <1>13, <2>1, <2>2, <2>3, <2>4, <2>5, <2>6, Zenon DEF Commits
<1> QED BY <1>1, <1>12, <1>14, <1>15

LEMMA CommitKeepsInvariant ==
  ASSUME TabsInv, CommitWithPage
  PROVE  TabsInv'
<1> DEFINE id == call.document
           from == call.from
           to == call.to
<1>1. PICK left, arrived, p, q, synced : Commits(left, arrived, p, q, synced)
  BY CommitProperties
<1>2. call # NoCall /\ call' = NoCall /\ UNCHANGED torn
  BY CommitProperties
<1>3. /\ id \in DocumentId /\ from \in Window /\ to \in Window /\ from # to
      /\ ~torn => \A w \in Window \ {from} : id \notin Bound(w)
  BY <1>2 DEF TabsInv, CallHoldsItsPage, Call
<1>4. AllWellFormed'
  <2>1. /\ models' = [models EXCEPT ![from] = left, ![to] = arrived]
        /\ WellFormed(left) /\ WellFormed(arrived)
    BY <1>1 DEF Commits
  <2>2. left \in Workspace /\ arrived \in Workspace
    BY <2>1, WellFormedFields
  <2> QED BY <1>3, <2>1, <2>2 DEF TabsInv, AllWellFormed
<1>5. NativeTypes'
  <2>1. parent' \in [DocumentId -> Window \cup {NoWindow}]
    BY <1>1, <1>3 DEF Commits, TabsInv, NativeTypes
  <2>2. native' \in [Window -> [items : Seq(DocumentId), selected : Nat]]
    <3>1. \A w \in Window : Projection(models'[w]) \in [items : Seq(DocumentId), selected : Nat]
      BY <1>4, ProjectionProperties DEF AllWellFormed
    <3>2. native' = [w \in Window |-> IF w \in synced THEN Projection(models'[w]) ELSE native[w]]
      BY <1>1 DEF Commits
    <3> QED BY <3>1, <3>2 DEF TabsInv, NativeTypes
  <2>3. visible' \in SUBSET DocumentId
    <3>1. PICK first : first = IF from \in synced THEN Shown(left, p, visible) ELSE visible
      OBVIOUS
    <3>2. /\ WellFormed(left) /\ WellFormed(arrived)
          /\ visible' = IF to \in synced THEN Shown(arrived, q, first) ELSE first
      BY <1>1, <3>1 DEF Commits
    <3>3. first \in SUBSET DocumentId
      BY <3>1, <3>2, ShownIsTyped DEF TabsInv, NativeTypes
    <3> QED BY <3>2, <3>3, ShownIsTyped
  <2> QED BY <2>1, <2>2, <2>3 DEF NativeTypes
<1>6. ReturnTypes'
  <2>1. returned' \in ReturnStatus
    BY <1>1 DEF Commits, ReturnStatus
  <2> QED BY <1>2, <2>1 DEF TabsInv, ReturnTypes
<1>7. /\ pages' = [pages EXCEPT ![from] = p, ![to] = q]
      /\ p \in Seq(DocumentId) /\ Distinct(p) /\ Range(p) = Bound(from) \ {id}
      /\ q \in Seq(DocumentId) /\ Distinct(q) /\ Range(q) = Bound(to) \cup {id}
      /\ parent' = [parent EXCEPT ![id] = to]
  BY <1>1 DEF Commits
<1>8. BoundOnce'
  BY <1>3, <1>7 DEF TabsInv, BoundOnce
<1>9. CallHoldsItsPage' /\ CallRemembersBefore'
  BY <1>2 DEF CallHoldsItsPage, CallRemembersBefore
<1>10. BoundPagesAreSiblings'
  <2> SUFFICES ASSUME NEW w \in Window, NEW d \in Range(pages'[w]), ~torn
               PROVE  parent'[d] \in {w, NoWindow}
    BY <1>2 DEF BoundPagesAreSiblings, Bound
  <2>1. /\ Range(pages'[from]) = Bound(from) \ {id}
        /\ Range(pages'[to]) = Bound(to) \cup {id}
        /\ w \notin {from, to} => Range(pages'[w]) = Bound(w)
    BY <1>3, <1>7 DEF TabsInv, BoundOnce, Bound
  <2>2. CASE d = id
    <3>1. w = to
      BY <1>3, <2>1, <2>2
    <3> QED BY <1>3, <1>7, <2>2, <3>1 DEF TabsInv, NativeTypes
  <2>3. CASE d # id
    <3>1. d \in Bound(w)
      BY <2>1, <2>3
    <3>2. parent[d] \in {w, NoWindow}
      BY <1>3, <2>3, <3>1 DEF TabsInv, BoundPagesAreSiblings
    <3>3. parent'[d] = parent[d]
      BY <1>7, <2>3, <3>1, d \in DocumentId DEF TabsInv, NativeTypes, BoundOnce, Bound, Range
    <3> QED BY <3>2, <3>3
  <2> QED BY <2>2, <2>3
<1> QED BY <1>4, <1>5, <1>6, <1>8, <1>9, <1>10 DEF TabsInv

-----------------------------------------------------------------------------
(* The invariant holds.                                                     *)

LEMMA TabsInitially == ASSUME TabsInit PROVE TabsInv
<1>1. AllWellFormed
  BY EmptyWellFormed DEF TabsInit, AllWellFormed
<1>2. NativeTypes /\ ReturnTypes
  <2>1. PICK strip : strip = [items |-> <<>>, selected |-> 0]
    OBVIOUS
  <2>2. <<>> \in Seq(DocumentId) /\ 0 \in Nat
    OBVIOUS
  <2>3. strip \in [items : Seq(DocumentId), selected : Nat]
    BY <2>1, <2>2
  <2>4. native = [w \in Window |-> strip]
    BY <2>1 DEF TabsInit
  <2> QED BY <2>3, <2>4 DEF TabsInit, NativeTypes, ReturnTypes, ReturnStatus
<1>3. BoundOnce
  BY DEF TabsInit, BoundOnce, Distinct
<1>4. CallHoldsItsPage /\ CallRemembersBefore
  BY DEF TabsInit, CallHoldsItsPage, CallRemembersBefore
<1>5. BoundPagesAreSiblings
  BY DEF TabsInit, BoundPagesAreSiblings, Bound, Range
<1> QED BY <1>1, <1>2, <1>3, <1>4, <1>5 DEF TabsInv

LEMMA StutteringKeepsTabs == ASSUME TabsInv, UNCHANGED tabsVars PROVE TabsInv'
BY DEF tabsVars, TabsInv, AllWellFormed, NativeTypes, ReturnTypes, BoundOnce,
       CallHoldsItsPage, CallRemembersBefore, BoundPagesAreSiblings, Bound

LEMMA TabsInvariance ==
  ASSUME ~ReentrantBindings
  PROVE  TabsSpec => []TabsInv
<1>1. TabsInit => TabsInv
  BY TabsInitially
<1>2. TabsInv /\ [TabsNext]_tabsVars => TabsInv'
  <2> SUFFICES ASSUME TabsInv, [TabsNext]_tabsVars PROVE TabsInv'
    OBVIOUS
  <2>1. CASE StartTransfer
    BY <2>1, StartKeepsInvariant
  <2>2. CASE SetParentFails
    BY <2>2, SetParentFailsKeepsInvariant
  <2>3. CASE CommitWithPage
    BY <2>3, CommitKeepsInvariant
  <2>4. CASE CommitRefused
    BY <2>4, CommitRefusedKeepsInvariant
  <2>5. CASE RestorePage
    BY <2>5, RestorePageKeepsInvariant
  <2>6. CASE TabsApplication
    BY <2>6, ApplicationKeepsInvariant
  <2>7. CASE UNCHANGED tabsVars
    BY <2>7, StutteringKeepsTabs
  <2> QED BY <2>1, <2>2, <2>3, <2>4, <2>5, <2>6, <2>7 DEF TabsNext
<1> QED BY <1>1, <1>2, PTL DEF TabsSpec

(* For any windows and documents, whatever the messages of SetParent open,  *)
(* close, activate and destroy: as long as they leave the bindings alone,   *)
(* no two windows bind one page, and every bound page is a sibling of its   *)
(* tabs or has been destroyed.                                              *)
THEOREM PagesStayConsistent ==
  ASSUME ~ReentrantBindings
  PROVE  TabsSpec => []PagesAreConsistent
<1>1. TabsInv => PagesAreConsistent
  BY InvariantIsConsistent
<1> QED BY <1>1, TabsInvariance, PTL

-----------------------------------------------------------------------------
(* How a call ends.                                                         *)

(* A strip can be synchronized only when the bindings are exactly those of  *)
(* the open documents: there are as many, and every document has one.       *)
LEMMA SynchronizedBindings ==
  ASSUME NEW w, NEW m, WellFormed(m), NEW p \in Seq(DocumentId), NEW q,
         CanSynchronize(w, m, p, q)
  PROVE  Range(p) = IdsOf(m.documents)
<1> DEFINE n == Len(p)
           g == [i \in 1..n |-> m.documents[i].id]
<1>1. /\ n \in Nat /\ DOMAIN p = 1..n /\ DOMAIN m.documents = 1..n
      /\ IdsOf(m.documents) \subseteq Range(p)
      /\ \A d \in IdsOf(m.documents) : q[d] = w
  BY WellFormedFields DEF CanSynchronize
<1>2. /\ \A i \in 1..n : m.documents[i].id \in IdsOf(m.documents)
      /\ \A i, j \in 1..n : i # j => m.documents[i].id # m.documents[j].id
  <2>1. DistinctEntries(m.documents)
    BY WellFormedFields DEF Entries
  <2> QED BY <1>1, <2>1 DEF DistinctEntries, IdsOf
<1>3. IsFiniteSet(1..n) /\ Cardinality(1..n) = n
  BY <1>1, FS_Interval, 1 \in Int, n \in Int
<1>4. p \in Surjection(1..n, Range(p))
  BY <1>1 DEF Surjection, Range
<1>5. IsFiniteSet(Range(p)) /\ Cardinality(Range(p)) <= n
  BY <1>3, <1>4, FS_Surjection
<1>6. g \in Injection(1..n, Range(p))
  BY <1>1, <1>2 DEF Injection, IsInjective
<1>7. Cardinality(Range(p)) \in Nat
  BY <1>5, FS_CardinalityType
<1>8. n <= Cardinality(Range(p)) /\ (n = Cardinality(Range(p)) => g \in Surjection(1..n, Range(p)))
  BY <1>3, <1>5, <1>6, FS_Injection
<1>9. g \in Surjection(1..n, Range(p))
  BY <1>1, <1>5, <1>7, <1>8
<1>10. Range(p) \subseteq IdsOf(m.documents)
  BY <1>2, <1>9 DEF Surjection
<1> QED BY <1>1, <1>10

(* Only a commit reports that the document has moved.                       *)
LEMMA CommitEnds ==
  ASSUME TabsInv, [TabsNext]_tabsVars, Ends("success") \/ Ends("projection_failure")
  PROVE  CommitWithPage
<1>1. call # NoCall /\ call' = NoCall /\ returned' \in {"success", "projection_failure"}
  BY DEF Ends
<1>2. ~StartTransfer /\ ~TabsApplication /\ ~UNCHANGED tabsVars
  BY <1>1 DEF StartTransfer, TabsApplication, tabsVars
<1>3. ASSUME NEW status \in {"native_failure", "model_failure", "rollback_failure"}
      PROVE  ~RollBack(status)
  BY <1>1 DEF RollBack, Return
<1>4. ~SetParentFails /\ ~RestorePage
  BY <1>3 DEF SetParentFails, RestorePage
<1>5. ~CommitRefused
  <2>1. ASSUME CommitRefused PROVE call' \in Call
    BY <1>1, <2>1 DEF CommitRefused, TabsInv, CallHoldsItsPage, Call
  <2> QED BY <1>1, <2>1, TabsAssumption
<1> QED BY <1>2, <1>4, <1>5 DEF TabsNext

(* Only a rollback reports an ordinary failure.                             *)
LEMMA FailureEnds ==
  ASSUME TabsInv, [TabsNext]_tabsVars, Ends("native_failure") \/ Ends("model_failure")
  PROVE  SetParentFails \/ RestorePage
<1>1. call # NoCall /\ call' = NoCall /\ returned' \in {"native_failure", "model_failure"}
  BY DEF Ends
<1>2. ~StartTransfer /\ ~TabsApplication /\ ~UNCHANGED tabsVars
  BY <1>1 DEF StartTransfer, TabsApplication, tabsVars
<1>3. ~CommitWithPage
  <2>1. ASSUME CommitWithPage PROVE returned' \in {"success", "projection_failure"}
    BY <2>1, CommitProperties DEF Commits
  <2> QED BY <1>1, <2>1
<1>4. ~CommitRefused
  <2>1. ASSUME CommitRefused PROVE call' \in Call
    BY <1>1, <2>1 DEF CommitRefused, TabsInv, CallHoldsItsPage, Call
  <2> QED BY <1>1, <2>1, TabsAssumption
<1> QED BY <1>2, <1>3, <1>4 DEF TabsNext

(* TransferDocumentWithPage moves the document, its page and its binding    *)
(* together, or reports that it did not.                                    *)
LEMMA CommitMovesThePage ==
  ASSUME TabsInv, CommitWithPage
  PROVE  LET id == call.document
         IN  /\ id \notin IdsOf(models'[call.from].documents)
             /\ \/ id \in IdsOf(models'[call.to].documents)
                \/ id \notin IdsIn(call.to) /\ returned' # "success"
             /\ parent'[id] = call.to
             /\ Range(pages'[call.from]) = Bound(call.from) \ {id}
             /\ id \in Range(pages'[call.to])
<1> DEFINE id == call.document
           from == call.from
           to == call.to
<1>1. PICK left, arrived, p, q, synced : Commits(left, arrived, p, q, synced)
  BY CommitProperties
<1>2. /\ IdsOf(left.documents) = IdsIn(from) \ {id}
      /\ WellFormed(arrived) /\ IdsOf(arrived.documents) = IdsIn(to)
      /\ q \in Seq(DocumentId)
      /\ Range(p) = Bound(from) \ {id} /\ Range(q) = Bound(to) \cup {id}
      /\ models' = [models EXCEPT ![from] = left, ![to] = arrived]
      /\ pages' = [pages EXCEPT ![from] = p, ![to] = q]
      /\ parent' = [parent EXCEPT ![id] = to]
      /\ to \in synced => CanSynchronize(to, arrived, q, parent')
      /\ returned' = IF synced = {from, to} THEN "success" ELSE "projection_failure"
  BY <1>1 DEF Commits
<1>3. id \in DocumentId /\ from \in Window /\ to \in Window /\ from # to
  BY CommitProperties DEF TabsInv, CallHoldsItsPage, Call
<1>4. /\ models'[from] = left /\ models'[to] = arrived
      /\ pages'[from] = p /\ pages'[to] = q /\ parent'[id] = to
  BY <1>2, <1>3 DEF TabsInv, AllWellFormed, BoundOnce, NativeTypes
<1>5. returned' = "success" => id \in IdsOf(arrived.documents)
  <2>1. ASSUME returned' = "success" PROVE Range(q) = IdsOf(arrived.documents)
    <3>1. to \in synced
      BY <1>2, <2>1
    <3> QED BY <1>2, <3>1, SynchronizedBindings
  <2> QED BY <1>2, <2>1
<1> QED BY <1>2, <1>4, <1>5

(* Each page of the two strips has one parent, so no page is in both.       *)
LEMMA CommitShowsBoth ==
  ASSUME TabsInv, CommitWithPage, returned' = "success", NEW w \in {call.from, call.to}
  PROVE  LET m == models'[w]
             shown == visible' \cap Range(pages'[w])
             tabs == native'[w]
         IN  IF m.documents = <<>> THEN shown = {} /\ tabs.items = <<>>
             ELSE shown = {m.active} /\ tabs.items[tabs.selected] = m.active
<1> DEFINE id == call.document
           from == call.from
           to == call.to
           Active(m) == IF m.documents = <<>> THEN {} ELSE {m.active}
<1>1. PICK left, arrived, p, q, synced : Commits(left, arrived, p, q, synced)
  BY CommitProperties
<1>2. from \in Window /\ to \in Window /\ from # to
  BY CommitProperties DEF TabsInv, CallHoldsItsPage, Call
<1>3. from \in synced /\ to \in synced
  BY <1>1 DEF Commits
<1>4. /\ WellFormed(left) /\ WellFormed(arrived)
      /\ p \in Seq(DocumentId) /\ q \in Seq(DocumentId)
      /\ CanSynchronize(from, left, p, parent') /\ CanSynchronize(to, arrived, q, parent')
      /\ models' = [models EXCEPT ![from] = left, ![to] = arrived]
      /\ pages' = [pages EXCEPT ![from] = p, ![to] = q]
      /\ native' = [v \in Window |-> IF v \in synced THEN Projection(models'[v])
                                     ELSE native[v]]
      /\ visible' = Shown(arrived, q, Shown(left, p, visible))
  BY <1>1, <1>3 DEF Commits
<1>5. /\ models'[from] = left /\ models'[to] = arrived
      /\ pages'[from] = p /\ pages'[to] = q
      /\ native'[from] = Projection(left) /\ native'[to] = Projection(arrived)
  BY <1>2, <1>3, <1>4 DEF TabsInv, AllWellFormed, BoundOnce
<1>6. PICK parents, f, g : parents = parent' /\ f = from /\ g = to
  OBVIOUS
<1>7. Range(p) = IdsOf(left.documents) /\ \A d \in Range(p) : parents[d] = f
  <2>1. WellFormed(left) /\ p \in Seq(DocumentId) /\ CanSynchronize(f, left, p, parents)
    BY <1>4, <1>6
  <2>2. Range(p) = IdsOf(left.documents)
    BY <2>1, SynchronizedBindings
  <2> QED BY <2>1, <2>2 DEF CanSynchronize
<1>8. Range(q) = IdsOf(arrived.documents) /\ \A d \in Range(q) : parents[d] = g
  <2>1. WellFormed(arrived) /\ q \in Seq(DocumentId) /\ CanSynchronize(g, arrived, q, parents)
    BY <1>4, <1>6
  <2>2. Range(q) = IdsOf(arrived.documents)
    BY <2>1, SynchronizedBindings
  <2> QED BY <2>1, <2>2 DEF CanSynchronize
<1>9. Range(p) \cap Range(q) = {}
  BY <1>2, <1>6, <1>7, <1>8
<1>10. PICK a, b : a = Active(left) /\ b = Active(arrived)
  OBVIOUS
<1>11. a \subseteq Range(p) /\ b \subseteq Range(q)
  BY <1>4, <1>7, <1>8, <1>10, ActiveIsOpen
<1>12. visible' = (((visible \ Range(p)) \cup a) \ Range(q)) \cup b
  BY <1>4, <1>10 DEF Shown
<1>13. visible' \cap Range(p) = a /\ visible' \cap Range(q) = b
  BY <1>9, <1>11, <1>12
<1>14. PICK m, bound, shown :
         /\ WellFormed(m) /\ models'[w] = m /\ pages'[w] = bound
         /\ native'[w] = Projection(m)
         /\ visible' \cap Range(bound) = shown /\ shown = Active(m)
  <2>1. CASE w = from
    BY <1>4, <1>5, <1>10, <1>13, <2>1
  <2>2. CASE w = to
    BY <1>4, <1>5, <1>10, <1>13, <2>2
  <2> QED BY <2>1, <2>2
<1>15. PICK tabs : tabs = Projection(m)
  OBVIOUS
<1>16. CASE m.documents = <<>>
  <2>1. shown = {} /\ tabs.items = <<>>
    BY <1>14, <1>15, <1>16, ProjectionProperties
  <2> QED BY <1>14, <1>15, <1>16, <2>1
<1>17. CASE m.documents # <<>>
  <2>1. shown = {m.active} /\ tabs.items[tabs.selected] = m.active
    BY <1>14, <1>15, <1>17, ProjectionProperties
  <2> QED BY <1>14, <1>15, <1>17, <2>1
<1> QED BY <1>16, <1>17

LEMMA FailureRestores ==
  ASSUME TabsInv, [TabsNext]_tabsVars, Ends("native_failure") \/ Ends("model_failure")
  PROVE  /\ models'[call.to].documents = call.before.documents
         /\ models'[call.to].active = call.before.active
         /\ parent'[call.document] \in {call.from, NoWindow}
         /\ UNCHANGED pages
<1>1. call # NoCall /\ returned' # "rollback_failure"
  BY DEF Ends
<1>2. PICK status \in ReturnStatus :
        /\ RollBack(status) /\ UNCHANGED pages
        /\ parent'[call.document] \in {call.from, NoWindow}
  <2>1. call.document \in DocumentId
    BY <1>1 DEF TabsInv, CallHoldsItsPage, Call
  <2>2. CASE SetParentFails
    BY <2>2 DEF SetParentFails, ReturnStatus, TabsInv, CallHoldsItsPage
  <2>3. CASE RestorePage
    <3>1. ~RollBack("rollback_failure")
      BY <1>1 DEF RollBack, Return
    <3>2. /\ parent' = [parent EXCEPT ![call.document] = call.from]
          /\ RollBack("model_failure") /\ UNCHANGED pages
      BY <2>3, <3>1 DEF RestorePage
    <3> QED BY <2>1, <3>2 DEF ReturnStatus, TabsInv, NativeTypes
  <2> QED BY <2>2, <2>3, FailureEnds
<1> QED BY <1>1, <1>2, RollBackProperties

-----------------------------------------------------------------------------
(* What the steps of every behaviour do.                                    *)

(* A TransferDocumentWithPage that commits has moved the document, its page *)
(* and its binding, and nothing else, whatever ran inside SetParent; when   *)
(* it reports success, both windows show the page and select the tab of     *)
(* their active document, and no other page of theirs is shown.             *)
THEOREM PagesMove ==
  ASSUME ~ReentrantBindings
  PROVE  TabsSpec => PagesMoveAndShow
<1>1. TabsInv /\ [TabsNext]_tabsVars =>
        [Ends("success") \/ Ends("projection_failure") =>
           LET id == call.document
           IN  /\ id \notin IdsOf(models'[call.from].documents)
               /\ \/ id \in IdsOf(models'[call.to].documents)
                  \/ id \notin IdsIn(call.to) /\ returned' # "success"
               /\ parent'[id] = call.to
               /\ Range(pages'[call.from]) = Bound(call.from) \ {id}
               /\ id \in Range(pages'[call.to])]_tabsVars
  BY CommitEnds, CommitMovesThePage
<1>2. TabsInv /\ [TabsNext]_tabsVars =>
        [Ends("success") =>
           \A w \in {call.from, call.to} :
             LET m == models'[w]
                 shown == visible' \cap Range(pages'[w])
                 tabs == native'[w]
             IN  IF m.documents = <<>> THEN shown = {} /\ tabs.items = <<>>
                 ELSE shown = {m.active} /\ tabs.items[tabs.selected] = m.active]_tabsVars
  <2> SUFFICES ASSUME TabsInv, [TabsNext]_tabsVars, Ends("success"),
                      NEW w \in {call.from, call.to}
               PROVE  LET m == models'[w]
                          shown == visible' \cap Range(pages'[w])
                          tabs == native'[w]
                      IN  IF m.documents = <<>> THEN shown = {} /\ tabs.items = <<>>
                          ELSE shown = {m.active} /\ tabs.items[tabs.selected] = m.active
    OBVIOUS
  <2>1. CommitWithPage /\ returned' = "success"
    BY CommitEnds DEF Ends
  <2> QED BY <2>1, CommitShowsBoth
<1>3. TabsSpec => PageMovesWithDocument
  BY <1>1, TabsInvariance, PTL DEF TabsSpec, PageMovesWithDocument
<1>4. TabsSpec => TransferShowsBothWorkspaces
  BY <1>2, TabsInvariance, PTL DEF TabsSpec, TransferShowsBothWorkspaces
<1> QED BY <1>3, <1>4 DEF PagesMoveAndShow

(* One that reports an ordinary failure leaves nothing behind: the          *)
(* destination has the documents and the active one it had before the call, *)
(* the page is the source's again or gone, and the bindings never changed.  *)
THEOREM FailureLeavesNothing ==
  ASSUME ~ReentrantBindings
  PROVE  TabsSpec => FailedTransferRestores
<1>1. TabsInv /\ [TabsNext]_tabsVars =>
        [Ends("native_failure") \/ Ends("model_failure") =>
           /\ models'[call.to].documents = call.before.documents
           /\ models'[call.to].active = call.before.active
           /\ parent'[call.document] \in {call.from, NoWindow}
           /\ UNCHANGED pages]_tabsVars
  BY FailureRestores
<1> QED BY <1>1, TabsInvariance, PTL DEF TabsSpec, FailedTransferRestores
=============================================================================
