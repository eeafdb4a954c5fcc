---------------------------- MODULE DocumentTabs ----------------------------
(***************************************************************************)
(* Two workspace windows, each with a tab strip and the page windows of its *)
(* documents: DocumentTabWorkspaceAdapter and TransferDocumentWithPage.     *)
(* SetParent sends window messages before it returns, so a transfer is cut  *)
(* where it calls SetParent and the application may run there.              *)
(*                                                                          *)
(* The application makes one page window per document: a page is named by   *)
(* its document, and a list of bindings is a list of documents.             *)
(***************************************************************************)
EXTENDS WorkspaceWindows

CONSTANTS
  NoWindow,            \* the parent of a page that does not exist
  NoCall,              \* no TransferDocumentWithPage is on the stack
  ReentrantBindings    \* may SetParent's messages unbind or bind pages?

Call == [document : DocumentId, from : Window, to : Window, page_index : Nat,
         was_active : BOOLEAN, source_revision : Nat,
         destination_revision : Nat, step : {"adopted", "restoring"},
         before : Workspace]

ASSUME TabsAssumption ==
  /\ NoWindow \notin Window /\ NoCall \notin Call
  /\ ReentrantBindings \in BOOLEAN
  /\ MaxRevision \in Nat

VARIABLES
  models,      \* [Window -> Workspace]
  pages,       \* pages_: the bindings of each adapter, in binding order
  parent,      \* the parent window of each page
  native,      \* the native tabs: their item ids and the selected position
  visible,     \* the pages that are shown
  call,        \* the TransferDocumentWithPage on the stack
  returned,    \* what the transfer that has just ended returned
  torn         \* did a transfer report that it could not be rolled back?

tabsVars == <<models, pages, parent, native, visible, call, returned, torn>>

ReturnStatus == {"none", "success", "model_failure", "native_failure",
            "rollback_failure", "projection_failure"}

TabsTypeOK ==
  /\ models \in [Window -> Workspace]
  /\ pages \in [Window -> Seq(DocumentId)]
  /\ parent \in [DocumentId -> Window \cup {NoWindow}]
  /\ native \in [Window -> [items : Seq(DocumentId), selected : Nat]]
  /\ visible \subseteq DocumentId
  /\ call \in Call \cup {NoCall}
  /\ returned \in ReturnStatus
  /\ torn \in BOOLEAN

TabsInit ==
  /\ models = [w \in Window |-> EmptyWorkspace]
  /\ pages = [w \in Window |-> <<>>]
  /\ parent = [d \in DocumentId |-> NoWindow]
  /\ native = [w \in Window |-> [items |-> <<>>, selected |-> 0]]
  /\ visible = {} /\ call = NoCall /\ returned = "none" /\ torn = FALSE

Bound(w) == Range(pages[w])

IdsIn(w) == IdsOf(models[w].documents)

SetModel(w, value) == models' = [models EXCEPT ![w] = value]

-----------------------------------------------------------------------------
(* The adapter.                                                             *)

(* Seeded fault: the parent of the page is not checked.                     *)
BindPageAnywhere ==
  \E w \in Window, d \in DocumentId :
    /\ parent[d] # NoWindow /\ d \notin Bound(w)
    /\ pages' = [pages EXCEPT ![w] = Append(@, d)]
    /\ UNCHANGED <<models, parent, native, visible>>

BindPage ==
  \E w \in Window, d \in DocumentId :
    /\ parent[d] = w /\ d \notin Bound(w)
    /\ pages' = [pages EXCEPT ![w] = Append(@, d)]
    /\ UNCHANGED <<models, parent, native, visible>>

UnbindPage ==
  \E w \in Window : \E i \in DOMAIN pages[w] :
    /\ pages' = [pages EXCEPT ![w] = RemoveAt(@, i)]
    /\ UNCHANGED <<models, parent, native, visible>>

(* Attach, or Detach before it: either forgets every binding.               *)
Attach ==
  \E w \in Window :
    /\ pages' = [pages EXCEPT ![w] = <<>>]
    /\ UNCHANGED <<models, parent, native, visible>>

(* Synchronize on bindings p, parents q and workspace m of window w: it     *)
(* touches the native tabs only when every document has a live page here.   *)
CanSynchronize(w, m, p, q) ==
  /\ Len(p) = Len(m.documents)
  /\ \A id \in IdsOf(m.documents) : id \in Range(p) /\ q[id] = w

Projection(m) ==
  [items |-> [i \in DOMAIN m.documents |-> m.documents[i].id],
   selected |-> IF m.documents = <<>> THEN 0 ELSE FindIndex(m.documents, m.active)]

(* Seeded fault: the active page is shown and no other is hidden.           *)
ShownWithoutHiding(m, p, before) ==
  before \cup (IF m.documents = <<>> THEN {} ELSE {m.active})

Shown(m, p, before) ==
  (before \ Range(p)) \cup (IF m.documents = <<>> THEN {} ELSE {m.active})

Synchronize ==
  \E w \in Window :
    LET m == models[w]
    IN  /\ CanSynchronize(w, m, pages[w], parent)
        /\ native' = [native EXCEPT ![w] = Projection(m)]
        /\ visible' = Shown(m, pages[w], visible)
        /\ UNCHANGED <<models, pages, parent>>

(* The user clicks a tab, which selects it; the notification then calls     *)
(* ActivateNativeSelection.  The strip may be older than the workspace.     *)
Selection(w, k) == native[w].items[k]

ActivateNativeSelection ==
  \E w \in Window : \E k \in DOMAIN native[w].items :
    LET id == Selection(w, k)
        m == IF CanActivate(models[w], id)
             THEN Activated(models[w], id) ELSE models[w]
    IN  /\ models[w].revision < MaxRevision
        /\ SetModel(w, m)
        /\ IF m.active = id /\ CanSynchronize(w, m, pages[w], parent)
           THEN /\ native' = [native EXCEPT ![w] = Projection(m)]
                /\ visible' = Shown(m, pages[w], visible)
           ELSE /\ native' = [native EXCEPT ![w].selected = k]
                /\ UNCHANGED visible
        /\ UNCHANGED <<pages, parent>>

-----------------------------------------------------------------------------
(* TransferDocumentWithPage.                                                *)

(* Seeded fault: the tab's position in place of the binding's.              *)
TabIndex(w, d) == FindIndex(models[w].documents, d)

FindPageIndex(w, d) == CHOOSE i \in DOMAIN pages[w] : pages[w][i] = d

(* Up to the first SetParent: the destination workspace has adopted the     *)
(* document; the index of its binding is kept for the end of the call.      *)
StartTransfer ==
  /\ call = NoCall
  /\ \E from, to \in Window : \E id \in IdsIn(from) \cap Bound(from) :
       \E k \in 1..Len(models[to].documents) + 1 :
         LET source == models[from]
             d == source.documents[FindIndex(source.documents, id)]
         IN  /\ from # to
             /\ source.revision < MaxRevision
             /\ models[to].revision < MaxRevision
             /\ id \notin Bound(to) /\ parent[id] = from
             /\ CanAdd(models[to], d, k)
             /\ SetModel(to, Added(models[to], d, k))
             /\ call' = [document |-> id, from |-> from, to |-> to,
                         page_index |-> FindPageIndex(from, id),
                         was_active |-> source.active = id,
                         source_revision |-> source.revision,
                         destination_revision |-> models[to].revision + 1,
                         step |-> "adopted", before |-> models[to]]
  /\ returned' = "none"
  /\ UNCHANGED <<pages, parent, native, visible, torn>>

Return(status) ==
  /\ call' = NoCall
  /\ returned' = status
  /\ torn' = (torn \/ status = "rollback_failure")

(* Seeded fault: the destination's revision is not compared.                *)
RollBackWhenStale(status) ==
  LET w == models[call.to]
  IN  IF call.document \in IdsIn(call.to)
      THEN SetModel(call.to, Closed(w, call.document, FALSE)) /\ Return(status)
      ELSE UNCHANGED models /\ Return("rollback_failure")

(* RollbackTransfer, and the status that reports it.                        *)
RollBack(status) ==
  LET w == models[call.to]
  IN  IF w.revision = call.destination_revision /\ call.document \in IdsIn(call.to)
      THEN SetModel(call.to, Closed(w, call.document, FALSE)) /\ Return(status)
      ELSE UNCHANGED models /\ Return("rollback_failure")

(* SetParent fails, for instance because its messages destroyed the page.   *)
SetParentFails ==
  /\ call # NoCall /\ call.step = "adopted"
  /\ RollBack("native_failure")
  /\ UNCHANGED <<pages, parent, native, visible>>

SourceUnchanged ==
  /\ models[call.from].revision = call.source_revision
  /\ call.document \in IdsIn(call.from)

(* SetParent succeeds and the source commits; the binding moves, the        *)
(* document keeps its activation and both strips are synchronized.          *)
CommitWithPage ==
  /\ call # NoCall /\ call.step = "adopted" /\ parent[call.document] # NoWindow
  /\ SourceUnchanged
  /\ call.page_index \in DOMAIN pages[call.from]
  /\ LET id == call.document
         from == call.from
         to == call.to
         source == Closed(models[from], id, FALSE)
         destination ==
           IF call.was_active /\ CanActivate(models[to], id)
           THEN Activated(models[to], id) ELSE models[to]
         after == [models EXCEPT ![from] = source, ![to] = destination]
         bindings == [pages EXCEPT ![from] = RemoveAt(@, call.page_index),
                                   ![to] = Append(@, id)]
         parents == [parent EXCEPT ![id] = to]
         synced == {w \in {from, to} :
                      CanSynchronize(w, after[w], bindings[w], parents)}
         first == IF from \in synced THEN Shown(source, bindings[from], visible)
                  ELSE visible
     IN  /\ models' = after /\ pages' = bindings /\ parent' = parents
         /\ native' = [w \in Window |->
                         IF w \in synced THEN Projection(after[w]) ELSE native[w]]
         /\ visible' = IF to \in synced THEN Shown(destination, bindings[to], first)
                       ELSE first
         /\ Return(IF synced = {from, to} THEN "success" ELSE "projection_failure")

(* The source has changed meanwhile: the page is sent back, with another    *)
(* SetParent and its messages.                                              *)
CommitRefused ==
  /\ call # NoCall /\ call.step = "adopted" /\ parent[call.document] # NoWindow
  /\ ~SourceUnchanged
  /\ parent' = [parent EXCEPT ![call.document] = call.to]
  /\ call' = [call EXCEPT !.step = "restoring"]
  /\ UNCHANGED <<models, pages, native, visible, returned, torn>>

RestorePage ==
  /\ call # NoCall /\ call.step = "restoring"
  /\ \/ /\ parent[call.document] # NoWindow
        /\ parent' = [parent EXCEPT ![call.document] = call.from]
        /\ RollBack("model_failure")
     \/ /\ UNCHANGED parent
        /\ RollBack("rollback_failure")
  /\ UNCHANGED <<pages, native, visible>>

-----------------------------------------------------------------------------
(* The application.  No decision here depends on dirty flags, and none but  *)
(* CanAdd on paths: it opens clean documents without a file.                *)

ModelOperation ==
  \E w \in Window :
    /\ models[w].revision < MaxRevision
    /\ \/ \E d \in WorkspaceDocument, k \in 1..Len(models[w].documents) + 1 :
            /\ ~d.dirty /\ d.path = NoPath /\ \A v \in Window : d.id \notin IdsIn(v)
            /\ CanAdd(models[w], d, k) /\ SetModel(w, Added(models[w], d, k))
       \/ \E id \in IdsIn(w) :
            \/ SetModel(w, Closed(models[w], id, FALSE))
            \/ SetModel(w, Activated(models[w], id))
            \/ \E k \in DOMAIN models[w].documents :
                 /\ CanMove(models[w], id, k)
                 /\ SetModel(w, Moved(models[w], id, k))
    /\ UNCHANGED <<pages, parent, native, visible>>

(* A page is made hidden, once, while no adapter has a binding for it.      *)
CreatePage ==
  \E w \in Window, d \in DocumentId :
    /\ parent[d] = NoWindow /\ \A v \in Window : d \notin Bound(v)
    /\ parent' = [parent EXCEPT ![d] = w]
    /\ UNCHANGED <<models, pages, native, visible>>

(* DestroyWindow on a page, perhaps before its binding or document goes.    *)
DestroyPage ==
  \E d \in DocumentId :
    /\ parent[d] # NoWindow
    /\ parent' = [parent EXCEPT ![d] = NoWindow]
    /\ visible' = visible \ {d}
    /\ UNCHANGED <<models, pages, native>>

TabsApplication ==
  /\ \/ ModelOperation \/ CreatePage \/ DestroyPage
     \/ Synchronize \/ ActivateNativeSelection
     \/ /\ call = NoCall \/ ReentrantBindings
        /\ BindPage \/ UnbindPage \/ Attach
  /\ returned' = "none"
  /\ UNCHANGED <<call, torn>>

TabsNext ==
  \/ StartTransfer \/ SetParentFails \/ CommitWithPage
  \/ CommitRefused \/ RestorePage
  \/ TabsApplication

TabsSpec == TabsInit /\ [][TabsNext]_tabsVars

-----------------------------------------------------------------------------
(* Properties.                                                              *)

Ends(status) == call # NoCall /\ call' = NoCall /\ returned' = status

(* document_tabs.h: TransferDocumentWithPage "transfers logical metadata    *)
(* and one application-owned page HWND together".  A transfer that commits, *)
(* whether both strips could be synchronized or not, has moved the          *)
(* document, the parent of its page and its binding, and has taken no other *)
(* binding from the source.  Only a document the messages closed at its     *)
(* destination is not there, and then the call does not report success.     *)
PageMovesWithDocument ==
  [][Ends("success") \/ Ends("projection_failure") =>
       LET id == call.document
       IN  /\ id \notin IdsOf(models'[call.from].documents)
           /\ \/ id \in IdsOf(models'[call.to].documents)
              \/ id \notin IdsIn(call.to) /\ returned' # "success"
           /\ parent'[id] = call.to
           /\ Range(pages'[call.from]) = Bound(call.from) \ {id}
           /\ id \in Range(pages'[call.to])]_tabsVars

(* A transfer that reports an ordinary failure leaves nothing behind: the   *)
(* destination is as it was found, the page is back (or was destroyed) and  *)
(* its binding never left the source.                                       *)
FailedTransferRestores ==
  [][Ends("native_failure") \/ Ends("model_failure") =>
       /\ models'[call.to].documents = call.before.documents
       /\ models'[call.to].active = call.before.active
       /\ parent'[call.document] \in {call.from, NoWindow}
       /\ UNCHANGED pages]_tabsVars

(* Every bound page is a sibling of its tabs (or has been destroyed), so    *)
(* its notifications reach the window that owns the document, and no page   *)
(* is bound by two windows: across every transfer that was not torn.        *)
BoundPagesAreSiblings ==
  \A w \in Window : \A d \in Bound(w) :
    torn \/ (call # NoCall /\ call.document = d) \/ parent[d] \in {w, NoWindow}

(* The adapters are well formed, and their pages are siblings of the tabs.  *)
PagesAreConsistent == TabsTypeOK /\ BoundPagesAreSiblings

(* After a successful transfer the user sees both workspaces as they are:   *)
(* in each window the one shown page, and the selected tab, are those of    *)
(* its active document, though the page moved between them while shown.     *)
TransferShowsBothWorkspaces ==
  [][Ends("success") =>
       \A w \in {call.from, call.to} :
         LET m == models'[w]
             shown == visible' \cap Range(pages'[w])
             tabs == native'[w]
         IN  IF m.documents = <<>> THEN shown = {} /\ tabs.items = <<>>
             ELSE shown = {m.active} /\ tabs.items[tabs.selected] = m.active]_tabsVars

(* A page moves with its document, and both windows show what they then     *)
(* have.                                                                    *)
PagesMoveAndShow == PageMovesWithDocument /\ TransferShowsBothWorkspaces
=============================================================================
