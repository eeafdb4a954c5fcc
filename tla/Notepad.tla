------------------------------ MODULE Notepad ------------------------------
(***************************************************************************)
(* The Notepad reference application: one document in an editor, its undo   *)
(* history, its file on disk and the stamp the file had when it was last    *)
(* read or written.                                                         *)
(*                                                                          *)
(* The window's thread runs a command to its end, except that a message box *)
(* or a file dialog runs a message loop of its own: the window is disabled, *)
(* but a second launch still delivers its activation, which may ask and     *)
(* open a file in the middle of the command, and the Replace dialog, which  *)
(* stays enabled, still changes the text.  So the commands under way are a  *)
(* stack of calls.  WriteTextFileAtomic checks the stamp, writes a        *)
(* temporary file, checks again, replaces the file and asks for its stamp;  *)
(* other programs write the file between any two of these.                  *)
(***************************************************************************)
EXTENDS TextHistory, SequencesExt

CONSTANTS
  EmptyText,
  File,
  NoFile,
  MaxStamp,       \* bound on the versions of a file
  MaxDepth,       \* bound on the calls under way at once
  MaxRecent       \* entries of the recent file list

ASSUME NotepadAssumption ==
  EmptyText \in Text /\ NoFile \notin File /\ MaxRecent \in Nat

VARIABLES
  editor,    \* the text in the edit control
  document,  \* document_: [path, dirty]
  history,   \* history_
  stamp,     \* stamp_, 0 for none
  recent,    \* recent_, the latest first
  calls,     \* commands under way, the innermost last
  open,      \* has the window not been destroyed?
  disk,      \* each path's file: [text, stamp, late], stamp 0 for no file
  clock,     \* the last stamp a file was given
  saved      \* the text of the last save or load

notepadVars ==
  <<editor, document, history, stamp, recent, calls, open, disk, clock, saved>>

session == <<editor, document, history, stamp, recent, open, saved>>

Absent == [text |-> EmptyText, stamp |-> 0, late |-> FALSE]

(* A command: what it is for and the path or recent entry it was given, how *)
(* far it is, the file it saves to, the text it writes and the stamp that   *)
(* file must have; whether No was the answer, whether the document was      *)
(* replaced since it asked, and whether the Replace dialog has changed the  *)
(* document that is open since.                                             *)
Call(goal, path, index) ==
  [goal |-> goal, path |-> path, index |-> index, step |-> "confirmed",
   target |-> NoFile, text |-> EmptyText, expected |-> 0,
   discard |-> FALSE, stale |-> FALSE, edited |-> FALSE]

top == Last(calls)
Advanced(call) == [calls EXCEPT ![Len(calls)] = call]

NotepadInit ==
  /\ editor = EmptyText /\ saved = EmptyText
  /\ document = [path |-> NoFile, dirty |-> FALSE]
  /\ history = NewHistory(EmptyText)
  /\ stamp = 0
  /\ recent = <<>>
  /\ calls = <<>>
  /\ open = TRUE
  /\ disk \in [File -> {Absent, [text |-> EmptyText, stamp |-> 1, late |-> FALSE]}]
  /\ clock = 1

Idle == open /\ calls = <<>>

(* A message loop other than the window's own runs: a question's or a       *)
(* dialog's.                                                                *)
Asking == open /\ calls # <<>> /\ top.step \in {"prompt", "dialog"}

-----------------------------------------------------------------------------
(* Editing.  EN_CHANGE records the new text.                                *)
Edited(text) ==
  /\ text # editor
  /\ editor' = text
  /\ history' = Recorded(history, text)
  /\ document' = [document EXCEPT !.dirty = IsModified(history')]
  /\ UNCHANGED <<stamp, recent, open, disk, clock, saved>>

Edit(text) == Idle /\ Edited(text) /\ UNCHANGED calls

(* The Replace dialog replaces the selection it has found, also while the   *)
(* window is disabled.                                                      *)
ReplaceSelection(text) ==
  /\ Asking /\ editor # EmptyText
  /\ Edited(text)
  /\ calls' = [i \in DOMAIN calls |-> [calls[i] EXCEPT !.edited = TRUE]]

ApplyHistory(h) ==
  /\ Idle
  /\ history' = h
  /\ editor' = Current(h)
  /\ document' = [document EXCEPT !.dirty = IsModified(h)]
  /\ UNCHANGED <<stamp, recent, calls, open, disk, clock, saved>>

Undo == CanUndo(history) /\ ApplyHistory(Undone(history))
Redo == CanRedo(history) /\ ApplyHistory(Redone(history))

(* ReplaceAll, once it has found something, sets the text of the control,   *)
(* and a multiline edit control sends no EN_CHANGE for that.                *)
ReplaceAllText(text) ==
  /\ Idle \/ Asking
  /\ editor # EmptyText /\ text # editor
  /\ editor' = text
  /\ UNCHANGED <<document, history, stamp, recent, calls, open, disk, clock, saved>>

-----------------------------------------------------------------------------
(* ConfirmTransition asks only about a dirty document.                      *)
Begin(call) ==
  /\ calls' = Append(calls, IF document.dirty THEN [call EXCEPT !.step = "prompt"] ELSE call)
  /\ UNCHANGED session /\ UNCHANGED <<disk, clock>>

NewDocument == Idle /\ Begin(Call("new", NoFile, 0))
OnClose == Idle /\ Begin(Call("close", NoFile, 0))

(* The Open dialog and a dropped file; a dialog that stays up changes       *)
(* nothing until it has answered.                                           *)
OpenDocument(p) == Idle /\ Begin(Call("open", p, 0))

OpenRecent(i) == Idle /\ i \in DOMAIN recent /\ Begin(Call("recent", recent[i], i))

(* A second launch forwards a path; any message loop handles it.            *)
Activation(p) ==
  /\ Idle \/ Asking
  /\ Len(calls) < MaxDepth
  /\ Begin(Call("open", p, 0))

AnswerCancel ==
  /\ calls # <<>> /\ top.step = "prompt"
  /\ calls' = Front(calls)
  /\ UNCHANGED session /\ UNCHANGED <<disk, clock>>

AnswerNo ==
  /\ calls # <<>> /\ top.step = "prompt"
  /\ calls' = Advanced([top EXCEPT !.step = "confirmed", !.discard = TRUE])
  /\ UNCHANGED session /\ UNCHANGED <<disk, clock>>

-----------------------------------------------------------------------------
(* SaveDocument: the file it would replace must have the stamp of the       *)
(* document, if it is the document's own.                                   *)
Matches(call) == call.expected # 0 => disk[call.target].stamp = call.expected

WriteTo(call, p) ==
  LET writing == [call EXCEPT !.step = "written", !.target = p, !.text = editor,
                              !.expected = IF p = document.path THEN stamp ELSE 0]
  IN  IF Matches(writing) THEN writing ELSE [call EXCEPT !.step = "failed"]

Saving(call) ==
  IF document.path = NoFile THEN [call EXCEPT !.step = "dialog"] ELSE WriteTo(call, document.path)

AnswerYes ==
  /\ calls # <<>> /\ top.step = "prompt"
  /\ calls' = Advanced(Saving(top))
  /\ UNCHANGED session /\ UNCHANGED <<disk, clock>>

(* The Save command is enabled for a dirty document.                        *)
Save ==
  /\ Idle /\ document.dirty
  /\ calls' = <<Saving(Call("save", NoFile, 0))>>
  /\ UNCHANGED session /\ UNCHANGED <<disk, clock>>

SaveAs ==
  /\ Idle
  /\ calls' = <<[Call("save", NoFile, 0) EXCEPT !.step = "dialog"]>>
  /\ UNCHANGED session /\ UNCHANGED <<disk, clock>>

DialogChooses(p) ==
  /\ calls # <<>> /\ top.step = "dialog"
  /\ calls' = Advanced(WriteTo(top, p))
  /\ UNCHANGED session /\ UNCHANGED <<disk, clock>>

(* Seeded fault: the command goes on although nothing was saved.            *)
SaveFailsSilently ==
  /\ calls # <<>> /\ top.step \in {"dialog", "failed", "written", "verified", "moved"}
  /\ calls' = Advanced([top EXCEPT !.step = "confirmed"])
  /\ UNCHANGED session /\ UNCHANGED <<disk, clock>>

(* The dialog is cancelled, or WriteTextFileAtomic fails before or after it *)
(* has replaced the file; the command is given up.                          *)
SaveFails ==
  /\ calls # <<>> /\ top.step \in {"dialog", "failed", "written", "verified", "moved"}
  /\ calls' = Front(calls)
  /\ UNCHANGED session /\ UNCHANGED <<disk, clock>>

(* Seeded fault: only the first check is made.                              *)
NoSecondCheck ==
  /\ calls # <<>> /\ top.step = "written"
  /\ calls' = Advanced([top EXCEPT !.step = "verified"])
  /\ UNCHANGED session /\ UNCHANGED <<disk, clock>>

SecondCheck ==
  /\ calls # <<>> /\ top.step = "written"
  /\ calls' = Advanced([top EXCEPT !.step = IF Matches(top) THEN "verified" ELSE "failed"])
  /\ UNCHANGED session /\ UNCHANGED <<disk, clock>>

MoveFile ==
  /\ calls # <<>> /\ top.step = "verified" /\ clock < MaxStamp
  /\ clock' = clock + 1
  /\ disk' = [disk EXCEPT ![top.target] = [text |-> top.text, stamp |-> clock', late |-> FALSE]]
  /\ calls' = Advanced([top EXCEPT !.step = "moved"])
  /\ UNCHANGED session

(* The recent files without p, which is there at most once.                 *)
RecentWithout(p) ==
  IF p \in Range(recent) THEN RemoveAt(recent, CHOOSE i \in DOMAIN recent : recent[i] = p)
  ELSE recent

(* RecentFileList::Add.                                                     *)
RecentWith(p) ==
  LET list == <<p>> \o RecentWithout(p)
  IN  SubSeq(list, 1, IF Len(list) > MaxRecent THEN MaxRecent ELSE Len(list))

(* The stamp the file has after the replacement is the document's.          *)
SaveSucceeds ==
  /\ calls # <<>> /\ top.step = "moved" /\ disk[top.target].stamp # 0
  /\ document' = [path |-> top.target, dirty |-> FALSE]
  /\ history' = MarkedSaved(history)
  /\ stamp' = disk[top.target].stamp
  /\ recent' = RecentWith(top.target)
  /\ saved' = top.text
  /\ calls' = IF top.goal = "save" THEN Front(calls)
              ELSE Advanced([top EXCEPT !.step = "confirmed"])
  /\ UNCHANGED <<editor, open, disk, clock>>

-----------------------------------------------------------------------------
(* What was asked for, once ConfirmTransition lets it proceed.              *)
Confirmed(goals) == calls # <<>> /\ top.step = "confirmed" /\ top.goal \in goals

(* The calls that asked about the document before it was replaced.          *)
Outdated ==
  [i \in DOMAIN Front(calls) |-> [calls[i] EXCEPT !.stale = TRUE, !.edited = FALSE]]

Becomes(text, path, newStamp) ==
  /\ editor' = text /\ saved' = text
  /\ document' = [path |-> path, dirty |-> FALSE]
  /\ history' = NewHistory(text)
  /\ stamp' = newStamp
  /\ calls' = Outdated

FinishNew ==
  /\ Confirmed({"new"})
  /\ Becomes(EmptyText, NoFile, 0)
  /\ UNCHANGED <<recent, open, disk, clock>>

(* The recent path is read from the list now: at its old place, or where    *)
(* the list no longer has it, anything.                                     *)
Paths(call) ==
  IF call.goal = "open" \/ (call.index \in DOMAIN recent /\ recent[call.index] = call.path)
  THEN {call.path} ELSE File

FinishOpen(p) ==
  /\ Confirmed({"open", "recent"}) /\ p \in Paths(top)
  /\ disk[p].stamp # 0
  /\ Becomes(disk[p].text, p, disk[p].stamp)
  /\ recent' = RecentWith(p)
  /\ UNCHANGED <<open, disk, clock>>

(* The file is missing, and forgotten, or cannot be read.                   *)
OpenFails(p) ==
  /\ Confirmed({"open", "recent"}) /\ p \in Paths(top)
  /\ recent' = IF disk[p].stamp = 0 THEN RecentWithout(p) ELSE recent
  /\ calls' = Front(calls)
  /\ UNCHANGED <<editor, document, history, stamp, open, disk, clock, saved>>

FinishClose ==
  /\ Confirmed({"close"})
  /\ open' = FALSE
  /\ calls' = <<>>
  /\ UNCHANGED <<editor, document, history, stamp, recent, disk, clock, saved>>

-----------------------------------------------------------------------------
(* Another program writes or deletes the file.                              *)
ForeignWrite(p, text) ==
  /\ open /\ clock < MaxStamp
  /\ clock' = clock + 1
  /\ disk' = [disk EXCEPT ![p] =
       [text |-> text, stamp |-> clock',
        late |-> \E i \in DOMAIN calls :
                   calls[i].step \in {"verified", "moved"} /\ calls[i].target = p]]
  /\ UNCHANGED session /\ UNCHANGED calls

ForeignDelete(p) ==
  /\ open /\ disk[p].stamp # 0
  /\ disk' = [disk EXCEPT ![p] = Absent]
  /\ UNCHANGED session /\ UNCHANGED <<calls, clock>>

NotepadNext ==
  \/ \E text \in Text : Edit(text) \/ ReplaceSelection(text)
  \/ Undo \/ Redo
  \/ NewDocument \/ OnClose \/ Save \/ SaveAs
  \/ \E p \in File : OpenDocument(p) \/ Activation(p) \/ DialogChooses(p)
  \/ \E i \in DOMAIN recent : OpenRecent(i)
  \/ AnswerCancel \/ AnswerNo \/ AnswerYes
  \/ SaveFails \/ SecondCheck \/ MoveFile \/ SaveSucceeds
  \/ FinishNew \/ FinishClose
  \/ \E p \in File : FinishOpen(p) \/ OpenFails(p) \/ ForeignDelete(p)
  \/ \E p \in File, text \in Text : ForeignWrite(p, text)

NotepadSpec == NotepadInit /\ [][NotepadNext]_notepadVars

(* With Replace All, which breaks the properties below.                     *)
ReplaceAllSpec ==
  NotepadInit /\ [][NotepadNext \/ \E text \in Text : ReplaceAllText(text)]_notepadVars

-----------------------------------------------------------------------------
(* Properties.                                                              *)

(* A document without the star is the document that was saved or loaded:    *)
(* undo, redo, the trimming of the history and its redo branch, saves that  *)
(* fail half way and files opened from inside a question never make changed *)
(* text look saved.                                                         *)
CleanMeansSaved ==
  /\ TextHistoryOK(history)
  /\ editor = Current(history)
  /\ ~document.dirty => editor = saved

(* A command takes changed text out of the editor only after No to its      *)
(* question.  The question was about the document that is open, if not      *)
(* about what the Replace dialog has changed while it was on the screen,    *)
(* unless another document was opened meanwhile and Replace has changed     *)
(* that one.                                                                *)
NoTextLost ==
  [][(editor' # editor \/ open' # open) /\ Len(calls') < Len(calls) /\ editor # saved
       => top.discard /\ (top.stale => top.edited)]_notepadVars

(* A file another program changed is never replaced unseen, unless it was   *)
(* changed after the second check of a save and before the stamp of that    *)
(* save was taken.                                                          *)
ForeignChangeNoticed ==
  [][\A p \in File :
       disk'[p].stamp # disk[p].stamp /\ disk[p].stamp # 0 /\ calls # calls'
         /\ top.expected # 0
       => disk[p].stamp = top.expected \/ disk[p].late]_notepadVars
=============================================================================
