------------------------ MODULE DocumentApplication ------------------------
(***************************************************************************)
(* The document-workspace program (examples/document_workspace): two        *)
(* windows over two workspaces, the contents and file stamps the program    *)
(* keeps by document identifier, the files on disk, and the session file    *)
(* that gives the documents back at the next start (document_session.cpp).  *)
(* A question (MessageBox, file dialog) disables the window it belongs to   *)
(* and runs a message loop: the other window goes on, and may ask as well.  *)
(*                                                                          *)
(* A text is known by the version of the file it came from or went to, 0    *)
(* for one that is in no file; a file by its version, 0 when there is none. *)
(* Its FileStamp tells one version from another.                            *)
(***************************************************************************)
EXTENDS WorkspaceModel

CONSTANTS
  NoSession,           \* there is no session file
  MaxNew,              \* bound: the last identifier New and Open may give
  MaxClock,            \* bound on the versions of files
  MaxStarts,           \* bound on the starts of the program
  MaxRequests          \* bound on what the user and other programs do

Index == {1, 2}

(* What the session file says of a document, and of a workspace.            *)
Item == [id : DocumentId, path : Path, stamp : Nat]

Snapshot ==
  [documents : Seq(Item), recentlyClosed : Seq(Item),
   active : DocumentId \cup {NoDocument}]

ASSUME ProgramAssumption ==
  /\ NoSession \notin [Index -> Snapshot]
  /\ 1..MaxNew \subseteq DocumentId
  /\ {MaxNew, MaxStarts, MaxRequests} \subseteq Nat /\ MaxClock \in Nat \ {0}

VARIABLES
  program,     \* "running", or how the last run of the program ended
  starts,      \* how often it was started
  requests,    \* how many commands were given
  models,      \* Coordinator::models: the workspace of each window
  contents,    \* Coordinator::contents: [id -> text and stamp]
  nextId,      \* Coordinator::next_id
  windows,     \* the windows that exist
  asking,      \* the questions on the screen, the innermost last
  disk,        \* the version of each file
  clock,       \* the last version written
  session,     \* the session file
  leftOpen     \* documents open and saved when the session was last written

filesVars == <<disk, clock, session, leftOpen>>
documentVars == <<models, contents, nextId>>
programVars == <<program, starts, requests, documentVars, windows, asking, filesVars>>

Document == [id : DocumentId, path : Path \cup {NoPath}, dirty : BOOLEAN]

Question(kind, i, toSave, toClose, about) ==
  [kind |-> kind, window |-> i, save |-> toSave, close |-> toClose, about |-> about]

ProgramInit ==
  /\ program = "closed" /\ starts = 0 /\ requests = 0
  /\ models = [i \in Index |-> EmptyWorkspace]
  /\ contents = <<>> /\ nextId = 1
  /\ windows = {} /\ asking = <<>>
  /\ \E existing \in SUBSET Path :
       disk = [p \in Path |-> IF p \in existing THEN 1 ELSE 0]
  /\ clock = 1 /\ session = NoSession /\ leftOpen = {}

-----------------------------------------------------------------------------
(* Reading the state.                                                       *)

ProgramRuns == program = "running"

(* Window i can be used: no question of its own disables it.                *)
Enabled(i) ==
  /\ ProgramRuns /\ i \in windows
  /\ \A k \in DOMAIN asking : asking[k].window # i

HasActive(i) == models[i].active # NoDocument

DocumentOf(i, id) == models[i].documents[FindIndex(models[i].documents, id)]

ActiveDocument(i) == DocumentOf(i, models[i].active)

DirtyIn(ms, i) == {d.id : d \in {e \in Range(ms[i].documents) : e.dirty}}

Dirty(ms) == DirtyIn(ms, 1) \cup DirtyIn(ms, 2)

(* No close plan outlives the call that made it: revisions are not read.    *)
Become(i, w) == models' = [models EXCEPT ![i] = [w EXCEPT !.revision = 0]]

(* The bound: nothing more is asked of the program.                         *)
Request == requests < MaxRequests /\ requests' = requests + 1

Ask(question) == asking' = Append(asking, question)

(* The innermost question is answered by a button.                          *)
Top == asking[Len(asking)]
Answered(kind) == ProgramRuns /\ asking # <<>> /\ Top.kind = kind

-----------------------------------------------------------------------------
(* The session: what is written of a workspace and what comes back of it.   *)

(* Only documents of a file whose stamp is known are written.               *)
Storable(d) ==
  d.path # NoPath /\ d.id \in DOMAIN contents /\ contents[d.id].stamp # 0

Decorated(s) ==
  LET kept == Picked(s, {k \in DOMAIN s : Storable(s[k])})
  IN  [k \in DOMAIN kept |-> [id |-> kept[k].id, path |-> kept[k].path,
                              stamp |-> contents[kept[k].id].stamp]]

CaptureWorkspaceSession(i) ==
  LET documents == Decorated(models[i].documents)
  IN  [documents |-> documents,
       recentlyClosed |-> Decorated(models[i].recentlyClosed),
       active |-> IF models[i].active \in IdsOf(documents)
                  THEN models[i].active ELSE NoDocument]

Metadata(s) ==
  [k \in DOMAIN s |-> [id |-> s[k].id, path |-> s[k].path, dirty |-> FALSE]]

(* The probe: a workspace restores as a whole or, when its lists cannot     *)
(* stand side by side in a model, not at all.                               *)
ProbeSucceeds(snapshot) ==
  LET open == [EmptyWorkspace EXCEPT !.documents = Metadata(snapshot.documents)]
  IN  /\ DistinctEntries(open.documents)
      /\ CanRestoreRecentlyClosed(open, Metadata(snapshot.recentlyClosed))

(* The validator: the file is there and is the one that was open.           *)
StillThere(s) == Picked(s, {k \in DOMAIN s : disk[s[k].path] = s[k].stamp})

RestoreWorkspaceSession(snapshot) ==
  LET documents == Metadata(StillThere(snapshot.documents))
      recent == Metadata(StillThere(snapshot.recentlyClosed))
  IN  IF ~ProbeSucceeds(snapshot) THEN EmptyWorkspace
      ELSE [documents |-> documents, recentlyClosed |-> recent, revision |-> 0,
            active |-> IF snapshot.active \in IdsOf(documents) THEN snapshot.active
                       ELSE IF documents = <<>> THEN NoDocument
                       ELSE documents[1].id]

ListedIn(ms) ==
  UNION {Range(ms[i].documents) \cup Range(ms[i].recentlyClosed) : i \in Index}

(* Seeded fault: only the documents that are open again count.              *)
NextIdOfOpen(ms) ==
  1 + Max({0} \cup IdsOf(ms[1].documents) \cup IdsOf(ms[2].documents))

NextIdAfter(ms) == 1 + Max({0} \cup {d.id : d \in ListedIn(ms)})

(* Two documents for the first window and one for the second, all untitled. *)
Welcome(ms, n) ==
  LET Untitled(id) == [id |-> id, path |-> NoPath, dirty |-> FALSE]
  IN  [i \in Index |->
         [ms[i] EXCEPT !.documents = IF i = 1 THEN <<Untitled(n), Untitled(n + 1)>>
                                     ELSE <<Untitled(n + 2)>>,
                       !.active = n + i]]

NoText == [text |-> 0, stamp |-> 0]

(* The workspaces of the session, if there is one.                          *)
Restored ==
  [i \in Index |-> IF session = NoSession THEN EmptyWorkspace
                   ELSE RestoreWorkspaceSession(session[i])]

(* Each document is read, the closed ones too.                              *)
TextsRead(ms) ==
  [id \in {d.id : d \in ListedIn(ms)} |->
     LET d == CHOOSE e \in ListedIn(ms) : e.id = id
     IN  [text |-> disk[d.path], stamp |-> disk[d.path]]]

(* The program starts, with the session if there is one.                    *)
ProgramStarts ==
  /\ ~ProgramRuns /\ starts < MaxStarts
  /\ LET n == NextIdAfter(Restored)
         read == TextsRead(Restored)
         empty == Restored[1].documents = <<>> /\ Restored[2].documents = <<>>
     IN  /\ empty => n..n + 2 \subseteq DocumentId             \* the bound
         /\ models' = IF empty THEN Welcome(Restored, n) ELSE Restored
         /\ contents' = IF empty
                        THEN [id \in DOMAIN read \cup n..n + 2 |->
                                IF id \in DOMAIN read THEN read[id] ELSE NoText]
                        ELSE read
         /\ nextId' = IF empty THEN n + 3 ELSE n
  /\ program' = "running" /\ starts' = starts + 1
  /\ windows' = Index /\ asking' = <<>>
  /\ UNCHANGED <<requests, filesVars>>

-----------------------------------------------------------------------------
(* Opening, editing and arranging documents.                                *)

NewDocument(i, p, version) ==
  LET d == [id |-> nextId, path |-> p, dirty |-> FALSE]
      added == Added(models[i], d, Len(models[i].documents) + 1)
  IN  /\ nextId <= MaxNew
      /\ Become(i, Activated(added, nextId))
      /\ contents' = [id \in DOMAIN contents \cup {nextId} |->
                        IF id = nextId THEN [text |-> version, stamp |-> version]
                        ELSE contents[id]]
      /\ nextId' = nextId + 1

New(i) ==
  /\ Request
  /\ Enabled(i)
  /\ NewDocument(i, NoPath, 0)
  /\ UNCHANGED <<program, starts, windows, asking, filesVars>>

(* A document that is open already is activated where it is, also in a      *)
(* window that waits for an answer.                                         *)
OpenPath(i) ==
  /\ Request
  /\ Enabled(i)
  /\ \E p \in Path :
       LET holders == {j \in Index : ContainsPath(models[j].documents, p)}
           j == Min(holders)
           open == models[j].documents
           at == CHOOSE k \in DOMAIN open : SamePath(open[k].path, p)
       IN  \/ /\ holders # {}
              /\ Become(j, Activated(models[j], open[at].id))
              /\ UNCHANGED <<contents, nextId>>
           \/ /\ holders = {} /\ disk[p] # 0
              /\ NewDocument(i, p, disk[p])
  /\ UNCHANGED <<program, starts, windows, asking, filesVars>>

(* EN_CHANGE: typing, or Undo.                                              *)
EditActive(i) ==
  /\ Request
  /\ Enabled(i) /\ HasActive(i)
  /\ Become(i, DirtySet(models[i], models[i].active, TRUE))
  /\ contents' = [contents EXCEPT ![models[i].active].text = 0]
  /\ UNCHANGED <<program, starts, nextId, windows, asking, filesVars>>

ActivateTab(i) ==
  /\ Request
  /\ Enabled(i)
  /\ \E id \in IdsOf(models[i].documents) : Become(i, Activated(models[i], id))
  /\ UNCHANGED <<program, starts, contents, nextId, windows, asking, filesVars>>

Reorder(i) ==
  /\ Request
  /\ Enabled(i) /\ HasActive(i)
  /\ \E delta \in {-1, 1} :
       LET id == models[i].active
           k == FindIndex(models[i].documents, id) + delta
       IN  CanMove(models[i], id, k) /\ Become(i, Moved(models[i], id, k))
  /\ UNCHANGED <<program, starts, contents, nextId, windows, asking, filesVars>>

(* The active document and its page go to the other window, also to one     *)
(* that waits for an answer.                                                *)
MoveActive(i) ==
  /\ Request
  /\ Enabled(i) /\ HasActive(i) /\ windows = Index
  /\ LET d == ActiveDocument(i)
         to == models[3 - i]
     IN  /\ CanAdd(to, d, Len(to.documents) + 1)
         /\ models' = [models EXCEPT
              ![i] = [Closed(models[i], d.id, FALSE) EXCEPT !.revision = 0],
              ![3 - i] = [Activated(Added(to, d, Len(to.documents) + 1), d.id)
                            EXCEPT !.revision = 0]]
  /\ UNCHANGED <<program, starts, contents, nextId, windows, asking, filesVars>>

(* The text kept since the document was closed comes back.  Contents are    *)
(* never erased: the file is never read again here.                         *)
ReopenClosed(i) ==
  /\ Request
  /\ Enabled(i) /\ CanReopen(models[i], 1)
  /\ LET d == models[i].recentlyClosed[1]
     IN  /\ d.id \in DOMAIN contents
         /\ Become(i, Reopened(models[i], 1))
  /\ UNCHANGED <<program, starts, contents, nextId, windows, asking, filesVars>>

-----------------------------------------------------------------------------
(* Saving and closing one document.                                         *)

(* WriteTextFileAtomic compares the stamp of a file it has read or written. *)
MayReplace(id, p) ==
  contents[id].stamp = 0 \/ disk[p] = contents[id].stamp

(* The rename is refused when the window has the file open in another tab;  *)
(* the document is clean all the same.                                      *)
SavedIn(w, id, p) ==
  DirtySet(IF CanRename(w, id, p) THEN Renamed(w, id, p) ELSE w, id, FALSE)

(* Seeded fault: the stamp of the file just written is not kept.            *)
ContentsWithOldStamp(id, version) ==
  [contents EXCEPT ![id].text = version]

ContentsSaved(id, version) ==
  [contents EXCEPT ![id] = [text |-> version, stamp |-> version]]

Replaces(p) ==
  /\ clock < MaxClock
  /\ clock' = clock + 1
  /\ disk' = [disk EXCEPT ![p] = clock + 1]
  /\ UNCHANGED <<session, leftOpen>>

Forget(w, id) == IF CanClose(w, id) THEN Closed(w, id, TRUE) ELSE w

(* Document id is written to p; when that worked, toClose is closed.  The   *)
(* write fails before the file is replaced, or just after.                  *)
SaveTo(i, id, p, toClose) ==
  \/ /\ MayReplace(id, p) /\ Replaces(p)
     /\ contents' = ContentsSaved(id, clock + 1)
     /\ Become(i, IF toClose = NoDocument THEN SavedIn(models[i], id, p)
                  ELSE Forget(SavedIn(models[i], id, p), toClose))
     /\ UNCHANGED nextId
  \/ MayReplace(id, p) /\ Replaces(p) /\ UNCHANGED documentVars
  \/ UNCHANGED <<documentVars, filesVars>>

SaveActive(i) ==
  /\ Request
  /\ Enabled(i) /\ HasActive(i)
  /\ LET d == ActiveDocument(i)
     IN  \/ /\ d.path # NoPath
            /\ SaveTo(i, d.id, d.path, NoDocument)
            /\ UNCHANGED asking
         \/ /\ d.path = NoPath
            /\ Ask(Question("saveAs", i, d.id, NoDocument, {}))
            /\ UNCHANGED <<documentVars, filesVars>>
  /\ UNCHANGED <<program, starts, windows>>

CloseActive(i) ==
  /\ Request
  /\ Enabled(i) /\ HasActive(i)
  /\ LET d == ActiveDocument(i)
     IN  \/ /\ d.dirty
            /\ Ask(Question("close", i, NoDocument, d.id, {d.id}))
            /\ UNCHANGED models
         \/ /\ ~d.dirty
            /\ Become(i, Closed(models[i], d.id, TRUE))
            /\ UNCHANGED asking
  /\ UNCHANGED <<program, starts, contents, nextId, windows, filesVars>>

(* "Save changes before closing?": Yes saves the document that is active    *)
(* by now and closes the one the question was about.                        *)
AnswerClose ==
  /\ Answered("close")
  /\ LET i == Top.window
         d == ActiveDocument(i)
     IN  \/ /\ asking' = Front(asking)                              \* Cancel
            /\ UNCHANGED <<documentVars, filesVars>>
         \/ /\ asking' = Front(asking)                              \* No
            /\ Become(i, Forget(models[i], Top.close))
            /\ UNCHANGED <<contents, nextId, filesVars>>
         \/ /\ d.path # NoPath                                      \* Yes
            /\ asking' = Front(asking)
            /\ SaveTo(i, d.id, d.path, Top.close)
         \/ /\ d.path = NoPath
            /\ asking' = Append(Front(asking),
                 Question("saveAs", i, d.id, Top.close, {Top.close}))
            /\ UNCHANGED <<documentVars, filesVars>>
  /\ UNCHANGED <<program, starts, requests, windows>>

AnswerSaveAs ==
  /\ Answered("saveAs")
  /\ asking' = Front(asking)
  /\ \/ UNCHANGED <<documentVars, filesVars>>
     \/ \E p \in Path : SaveTo(Top.window, Top.save, p, Top.close)
  /\ UNCHANGED <<program, starts, requests, windows>>

-----------------------------------------------------------------------------
(* Closing the windows.                                                     *)

AllClosed(w) ==
  IF w.documents = <<>> THEN w ELSE ClosedMany(w, IdsOf(w.documents))

SecondaryCloses ==
  /\ Become(2, AllClosed(models[2]))
  /\ windows' = windows \ {2}
  /\ UNCHANGED <<contents, nextId>>

(* Seeded fault: the decisions are made up after the answer.                *)
DecidedAnything(about) == TRUE

(* The plan is ready when exactly the dirty documents have a decision.      *)
Decided(about) == about = DirtyIn(models, 2)

ConfirmCloseAll ==
  /\ Enabled(2)
  /\ \/ /\ DirtyIn(models, 2) = {}
        /\ SecondaryCloses /\ UNCHANGED asking
     \/ /\ DirtyIn(models, 2) # {}
        /\ Ask(Question("closeAll", 2, NoDocument, NoDocument, DirtyIn(models, 2)))
        /\ UNCHANGED <<documentVars, windows>>
  /\ UNCHANGED <<program, starts, requests, filesVars>>

AnswerCloseAll ==
  /\ Answered("closeAll")
  /\ asking' = Front(asking)
  /\ \/ UNCHANGED <<documentVars, windows>>
     \/ Decided(Top.about) /\ SecondaryCloses
  /\ UNCHANGED <<program, starts, requests, filesVars>>

(* The process is gone, and what it had in memory with it.                  *)
ProgramEnds(how) ==
  /\ program' = how
  /\ models' = [i \in Index |-> EmptyWorkspace]
  /\ contents' = <<>> /\ nextId' = 1
  /\ windows' = {} /\ asking' = <<>>
  /\ UNCHANGED <<starts, disk, clock>>

OnDisk(d) ==
  /\ d.path # NoPath /\ ~d.dirty
  /\ disk[d.path] # 0 /\ contents[d.id].text = disk[d.path]

SessionSaved ==
  /\ session' = [i \in Index |-> CaptureWorkspaceSession(i)]
  /\ leftOpen' = UNION {{[window |-> i, path |-> d.path, version |-> disk[d.path]] :
                       d \in {e \in Range(models[i].documents) : OnDisk(e)}}
                    : i \in Index}

(* The session is written and everything closes; if it cannot be written,   *)
(* the user is asked whether to close anyway.                               *)
SaveSessionAndEnd(questions) ==
  \/ SessionSaved /\ ProgramEnds("closed")
  \/ /\ asking' = Append(questions,
          Question("anyway", 1, NoDocument, NoDocument, Dirty(models)))
     /\ UNCHANGED <<program, starts, documentVars, windows, filesVars>>

ConfirmShutdown ==
  /\ Enabled(1)
  /\ \/ Dirty(models) = {} /\ SaveSessionAndEnd(asking)
     \/ /\ Dirty(models) # {}
        /\ Ask(Question("shutdown", 1, NoDocument, NoDocument, {}))
        /\ UNCHANGED <<program, starts, documentVars, windows, filesVars>>
  /\ UNCHANGED requests

AnswerShutdown ==
  /\ Answered("shutdown")
  /\ \/ /\ asking' = Front(asking)
        /\ UNCHANGED <<program, starts, documentVars, windows, filesVars>>
     \/ SaveSessionAndEnd(Front(asking))
  /\ UNCHANGED requests

AnswerAnyway ==
  /\ Answered("anyway")
  /\ \/ /\ asking' = Front(asking)
        /\ UNCHANGED <<program, starts, documentVars, windows, filesVars>>
     \/ ProgramEnds("closed") /\ UNCHANGED <<session, leftOpen>>
  /\ UNCHANGED requests

ProgramCrashes == ProgramRuns /\ ProgramEnds("crashed") /\ UNCHANGED <<requests, session, leftOpen>>

(* Another program writes or deletes a file.                                *)
ForeignWrite ==
  /\ Request
  /\ \E p \in Path :
       \/ Replaces(p)
       \/ /\ disk[p] # 0
          /\ disk' = [disk EXCEPT ![p] = 0]
          /\ UNCHANGED <<clock, session, leftOpen>>
  /\ UNCHANGED <<program, starts, documentVars, windows, asking>>

ProgramNext ==
  \/ ProgramStarts \/ ProgramCrashes \/ ForeignWrite
  \/ \E i \in Index :
       \/ New(i) \/ OpenPath(i) \/ EditActive(i) \/ ActivateTab(i) \/ Reorder(i)
       \/ MoveActive(i) \/ ReopenClosed(i) \/ SaveActive(i) \/ CloseActive(i)
  \/ AnswerClose \/ AnswerSaveAs
  \/ ConfirmCloseAll \/ AnswerCloseAll
  \/ ConfirmShutdown \/ AnswerShutdown \/ AnswerAnyway

ProgramSpec == ProgramInit /\ [][ProgramNext]_programVars

-----------------------------------------------------------------------------
(* Properties.                                                              *)

ProgramTypeOK ==
  /\ program \in {"running", "closed", "crashed"} /\ starts \in 0..MaxStarts
  /\ \A i \in Index : models[i].documents \in Seq(Document)
                       /\ models[i].recentlyClosed \in Seq(Document)
  /\ nextId \in Nat /\ clock \in 1..MaxClock
  /\ windows \subseteq Index
  /\ disk \in [Path -> 0..MaxClock]

(* Every document of the program, open or closed, in either window, this    *)
(* run's or given back by the session, has an identifier of its own, under  *)
(* which its contents are found, and which no new document will be given:   *)
(* contents[id] of a document without any would save an empty file.         *)
DocumentsKeepTheirContents ==
  /\ ProgramTypeOK
  /\ LET Listed(i) == models[i].documents \o models[i].recentlyClosed
         all == Listed(1) \o Listed(2)
     IN  /\ \A j, k \in DOMAIN all : j # k => all[j].id # all[k].id
         /\ IdsOf(all) \subseteq DOMAIN contents \cap 1..nextId - 1

Covered ==
  IF asking = <<>> THEN {}
  ELSE IF Top.kind \in {"shutdown", "anyway"} THEN Dirty(models)
  ELSE Top.about

(* A document with unsaved changes goes away only through the answer to a   *)
(* question that was about it: one that was moved into a window, or edited, *)
(* while the user was asked about others, is not thrown away with them.     *)
(* The questions of the shutdown are about whatever is unsaved by then, the *)
(* one that only says that the session was not saved included.              *)
DiscardedAsAnswered ==
  [][program' # "crashed" =>
       Dirty(models) \ (IdsOf(models'[1].documents) \cup IdsOf(models'[2].documents))
         \subseteq Covered]_programVars

(* The history names the file of an open document of the same workspace.    *)
Clashes(snapshot) ==
  \E k \in DOMAIN snapshot.recentlyClosed :
    ContainsPath(snapshot.documents, snapshot.recentlyClosed[k].path)

(* The session gives back what it took: a document that was open and saved  *)
(* when the program was last closed, and whose file nobody has touched      *)
(* since, is open in the same window after the next start, with that text,  *)
(* whatever crashed meanwhile.  Not so for a workspace whose history names  *)
(* an open file again: all of it is lost.                                   *)
SessionGivesBack ==
  [][~ProgramRuns /\ program' = "running" =>
       \A e \in leftOpen :
         disk[e.path] = e.version /\ ~Clashes(session[e.window]) =>
           \E d \in Range(models'[e.window].documents) :
             d.path = e.path /\ ~d.dirty /\ contents'[d.id].text = e.version]_programVars

=============================================================================
