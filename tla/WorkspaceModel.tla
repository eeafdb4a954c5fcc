--------------------------- MODULE WorkspaceModel ---------------------------
(***************************************************************************)
(* The value of one mwfl::DocumentWorkspaceModel and the effect of each of  *)
(* its operations, as operators on that value.  A module with one workspace *)
(* or with several gives the value to a variable and uses an operation as   *)
(* Can...(w, ...) for its early returns and ...ed(w, ...) for the result.   *)
(*                                                                          *)
(* Titles, view state and undo availability are metadata no decision of the *)
(* model depends on: they are left out, the revision they bump is not.      *)
(***************************************************************************)
EXTENDS Integers, SequencesExt

CONSTANTS
  DocumentId,          \* the nonzero document identifiers
  NoDocument,          \* an empty std::optional<DocumentId>
  Path,                \* the nonempty paths, spelled as the application does
  NoPath,              \* the empty path of an untitled document
  Canonical,           \* Canonical[p]: p normalised, in one letter case
  MaximumRecentlyClosed

ASSUME WorkspaceAssumption ==
  /\ NoDocument \notin DocumentId
  /\ NoPath \notin Path
  /\ DOMAIN Canonical = Path
  /\ MaximumRecentlyClosed \in Nat

WorkspaceDocument ==
  [id : DocumentId, path : Path \cup {NoPath}, dirty : BOOLEAN]

Workspace ==
  [documents : Seq(WorkspaceDocument), recentlyClosed : Seq(WorkspaceDocument),
   active : DocumentId \cup {NoDocument}, revision : Nat]

EmptyWorkspace ==
  [documents |-> <<>>, recentlyClosed |-> <<>>,
   active |-> NoDocument, revision |-> 0]

-----------------------------------------------------------------------------
(* Looking documents up.                                                    *)

SamePath(p, q) == p # NoPath /\ q # NoPath /\ Canonical[p] = Canonical[q]

IdsOf(s) == {s[i].id : i \in DOMAIN s}

ContainsPath(s, p) == \E i \in DOMAIN s : SamePath(s[i].path, p)

(* No two entries have one identifier or name one file.                     *)
DistinctEntries(s) ==
  \A i, j \in DOMAIN s :
    i # j => s[i].id # s[j].id /\ ~SamePath(s[i].path, s[j].path)

FindIndex(s, id) == CHOOSE i \in DOMAIN s : s[i].id = id

(* The subsequence of s at the positions K, in the order of s: what erasing *)
(* every other element leaves.                                              *)
Rank(K, k) == Cardinality({j \in K : j <= k})

Picked(s, K) ==
  [i \in 1..Cardinality(K) |-> s[CHOOSE k \in K : Rank(K, k) = i]]

-----------------------------------------------------------------------------
(* Opening and closing.                                                     *)

CanAdd(w, d, k) ==
  /\ k \in 1..Len(w.documents) + 1
  /\ d.id \notin IdsOf(w.documents)
  /\ ~ContainsPath(w.documents, d.path)

Added(w, d, k) ==
  [w EXCEPT !.documents = InsertAt(@, k, d),
            !.active = IF @ = NoDocument THEN d.id ELSE @,
            !.revision = @ + 1]

Remembered(recent, d) ==
  LET others == {i \in DOMAIN recent : /\ recent[i].id # d.id
                                       /\ ~SamePath(recent[i].path, d.path)}
      all == <<d>> \o Picked(recent, others)
  IN  IF MaximumRecentlyClosed = 0 THEN recent
      ELSE IF Len(all) > MaximumRecentlyClosed
           THEN SubSeq(all, 1, MaximumRecentlyClosed) ELSE all

CanClose(w, id) == id \in IdsOf(w.documents)

Closed(w, id, remember) ==
  LET at == FindIndex(w.documents, id)
      rest == RemoveAt(w.documents, at)
      neighbour == IF at <= Len(rest) THEN at ELSE Len(rest)
  IN  [documents |-> rest,
       recentlyClosed |-> IF remember
                          THEN Remembered(w.recentlyClosed, w.documents[at])
                          ELSE w.recentlyClosed,
       active |-> IF w.active # id THEN w.active
                  ELSE IF rest = <<>> THEN NoDocument ELSE rest[neighbour].id,
       revision |-> w.revision + 1]

(* CloseMany rejects an empty or repeated list before it changes anything;  *)
(* an accepted one is a nonempty set of open documents.                     *)
CanCloseMany(w, ids) == ids # {} /\ ids \subseteq IdsOf(w.documents)

StaysOpen(w, ids) == {i \in DOMAIN w.documents : w.documents[i].id \notin ids}

(* Seeded fault: CloseMany takes the first document left, not the nearest.  *)
NextActiveFirst(w, ids) ==
  LET open == StaysOpen(w, ids)
  IN  IF w.active \notin ids THEN w.active
      ELSE IF open # {} THEN w.documents[Min(open)].id
      ELSE NoDocument

NextActive(w, ids) ==
  LET open == StaysOpen(w, ids)
      after == {i \in open : i >= FindIndex(w.documents, w.active)}
  IN  IF w.active \notin ids THEN w.active
      ELSE IF after # {} THEN w.documents[Min(after)].id
      ELSE IF open # {} THEN w.documents[Max(open)].id
      ELSE NoDocument

ClosedMany(w, ids) ==
  [w EXCEPT !.documents = Picked(@, StaysOpen(w, ids)),
            !.active = NextActive(w, ids),
            !.revision = @ + 1]

-----------------------------------------------------------------------------
(* Changing an open document.                                               *)

CanMove(w, id, k) ==
  /\ id \in IdsOf(w.documents)
  /\ k \in DOMAIN w.documents
  /\ FindIndex(w.documents, id) # k

(* Seeded fault: moving a tab does not count as a change.                   *)
MovedQuietly(w, id, k) ==
  LET at == FindIndex(w.documents, id)
  IN  [w EXCEPT !.documents = InsertAt(RemoveAt(@, at), k, w.documents[at])]

Moved(w, id, k) ==
  LET at == FindIndex(w.documents, id)
  IN  [w EXCEPT !.documents = InsertAt(RemoveAt(@, at), k, w.documents[at]),
                !.revision = @ + 1]

CanActivate(w, id) == id \in IdsOf(w.documents)

Activated(w, id) ==
  IF w.active = id THEN w
  ELSE [w EXCEPT !.active = id, !.revision = @ + 1]

DirtySet(w, id, dirty) ==
  LET at == FindIndex(w.documents, id)
  IN  IF w.documents[at].dirty = dirty THEN w
      ELSE [w EXCEPT !.documents[at].dirty = dirty, !.revision = @ + 1]

(* SetViewState, and SetUndoState with a changed value.                     *)
PresentationSet(w) == [w EXCEPT !.revision = @ + 1]

(* Seeded fault: a document may be renamed to another's file.               *)
CanRenameUnchecked(w, id, p) == id \in IdsOf(w.documents)

CanRename(w, id, p) ==
  /\ id \in IdsOf(w.documents)
  /\ \A i \in DOMAIN w.documents :
       w.documents[i].id # id => ~SamePath(w.documents[i].path, p)

Renamed(w, id, p) ==
  [w EXCEPT !.documents[FindIndex(w.documents, id)].path = p,
            !.revision = @ + 1]

-----------------------------------------------------------------------------
(* Recently closed documents.                                               *)

(* The document reopened from position k: an entry of the history is clean. *)
ReopenedDocument(w, k) == [w.recentlyClosed[k] EXCEPT !.dirty = FALSE]

CanReopen(w, k) ==
  /\ k \in DOMAIN w.recentlyClosed
  /\ CanAdd(w, ReopenedDocument(w, k), Len(w.documents) + 1)

Reopened(w, k) ==
  LET d == ReopenedDocument(w, k)
      open == Added(w, d, Len(w.documents) + 1)
  IN  [open EXCEPT !.recentlyClosed = RemoveAt(@, k),
                   !.active = d.id,
                   !.revision = @ + 1]

(* Entries past the bound are dropped, so a clash between two of them is    *)
(* not looked for.                                                          *)
CanRestoreRecentlyClosed(w, s) ==
  \A i \in DOMAIN s :
    /\ s[i].id \notin IdsOf(w.documents)
    /\ ~ContainsPath(w.documents, s[i].path)
    /\ \A j \in DOMAIN s : j < i /\ j <= MaximumRecentlyClosed =>
         s[j].id # s[i].id /\ ~SamePath(s[j].path, s[i].path)

RecentlyClosedRestored(w, s) ==
  [w EXCEPT !.recentlyClosed =
              IF Len(s) > MaximumRecentlyClosed
              THEN SubSeq(s, 1, MaximumRecentlyClosed) ELSE s,
            !.revision = @ + 1]

RecentlyClosedCleared(w) == [w EXCEPT !.recentlyClosed = <<>>]

=============================================================================
