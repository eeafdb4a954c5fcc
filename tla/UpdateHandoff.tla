---------------------------- MODULE UpdateHandoff ----------------------------
(***************************************************************************)
(* Installing an update with VerifyUpdate, StageUpdate and ApplyUpdate:     *)
(* three files of one volume, the installed target, a backup of it and the  *)
(* staged copy of the candidate beside it.  Every file operation is a step, *)
(* may fail, and the updater may crash between any two of them, which       *)
(* leaves the files as they are and runs no destructor.                     *)
(*                                                                          *)
(* The policy requires a valid signature.  Renames are atomic, and a copy   *)
(* is not.  The candidate is not under the updater's control: it may be     *)
(* replaced between its verification and the copy.                          *)
(***************************************************************************)
EXTENDS Integers

CONSTANTS
  MaxVersion,   \* bound on the versions that are ever installed
  NoFile,       \* the file does not exist
  Partial,      \* the file is the beginning of a version
  Unverified    \* the file is no version that was signed

ASSUME VersionAssumption == MaxVersion \in Nat /\ NoFile \notin 0..MaxVersion

VARIABLES
  file,       \* contents of target, backup and staging
  step,       \* where the updater is
  candidate,  \* the version that is being installed
  before,     \* the version ApplyUpdate found installed
  undone,     \* did ApplyUpdate's last attempt to put it back succeed?
  outcome     \* what the last update came to

handoffVars == <<file, step, candidate, before, undone, outcome>>

Release == 0..MaxVersion
Name == {"target", "backup", "staging"}

HandoffTypeOK ==
  /\ file \in [Name -> Release \cup {NoFile, Partial, Unverified}]
  /\ step \in {"idle", "copying", "verifying", "staged", "backup", "commit",
               "restart", "take back", "undo", "discard"}
  /\ {candidate, before} \subseteq Release
  /\ undone \in BOOLEAN
  /\ outcome \in {"none", "applied", "failed", "crashed"}

HandoffInit ==
  /\ file = [target |-> 0, backup |-> NoFile, staging |-> NoFile]
  /\ step = "idle"
  /\ candidate = 0 /\ before = 0
  /\ undone = TRUE
  /\ outcome = "none"

Exists(f) == file[f] # NoFile

Moved(from, to) == [file EXCEPT ![to] = file[from], ![from] = NoFile]

Deleted(f) == [file EXCEPT ![f] = NoFile]

Go(from, to) == step = from /\ step' = to

(* The updater stops with nothing staged, if it can delete it.              *)
Finish(result) ==
  /\ outcome' = result
  /\ file' \in {file, Deleted("staging")}

-----------------------------------------------------------------------------
(* VerifyUpdate and StageUpdate.                                            *)

StartStaging ==
  /\ Go("idle", "copying")
  /\ Exists("target") /\ ~Exists("staging")
  /\ candidate < MaxVersion
  /\ candidate' = candidate + 1
  /\ file' = [file EXCEPT !.staging = Partial]
  /\ outcome' = "none"
  /\ UNCHANGED <<before, undone>>

CopyFails ==
  /\ Go("copying", "idle")
  /\ file' = Deleted("staging")
  /\ UNCHANGED <<candidate, before, undone, outcome>>

CopyCompletes ==
  /\ Go("copying", "verifying")
  /\ file' \in {[file EXCEPT !.staging = c] : c \in {candidate, Unverified}}
  /\ UNCHANGED <<candidate, before, undone, outcome>>

VerifyStaged ==
  /\ Go("verifying", "staged")
  /\ file.staging = candidate
  /\ UNCHANGED <<file, candidate, before, undone, outcome>>

RejectStaged ==
  /\ Go("verifying", "idle")
  /\ file.staging # candidate
  /\ Finish("none")
  /\ UNCHANGED <<candidate, before, undone>>

(* The staged update is destroyed, or ApplyUpdate's wait for the process    *)
(* that uses the target is cancelled or times out.                          *)
Abandon ==
  /\ Go("staged", "idle")
  /\ Finish("none")
  /\ UNCHANGED <<candidate, before, undone>>

-----------------------------------------------------------------------------
(* ApplyUpdate.  That an old backup cannot be deleted is ignored.           *)

DeleteBackup ==
  /\ Go("staged", "backup")
  /\ file' \in {file, Deleted("backup")}
  /\ before' = file.target
  /\ undone' = TRUE
  /\ UNCHANGED <<candidate, outcome>>

(* Seeded fault: the target is deleted where it should be kept.             *)
DeleteTarget ==
  /\ Go("backup", "commit")
  /\ file' = Deleted("target")
  /\ UNCHANGED <<candidate, before, undone, outcome>>

BackUpTarget ==
  /\ Go("backup", "commit")
  /\ file' = Moved("target", "backup")
  /\ UNCHANGED <<candidate, before, undone, outcome>>

BackUpFails ==
  /\ Go("backup", "idle")
  /\ Finish("failed")
  /\ UNCHANGED <<candidate, before, undone>>

Commit ==
  /\ Go("commit", "restart")
  /\ file' = Moved("staging", "target")
  /\ UNCHANGED <<candidate, before, undone, outcome>>

CommitFails ==
  /\ Go("commit", "undo")
  /\ UNCHANGED <<file, candidate, before, undone, outcome>>

Restart ==
  /\ Go("restart", "idle")
  /\ outcome' = "applied"
  /\ UNCHANGED <<file, candidate, before, undone>>

RestartFails ==
  /\ Go("restart", "take back")
  /\ UNCHANGED <<file, candidate, before, undone, outcome>>

TakeBack ==
  /\ Go("take back", "undo")
  /\ file' \in {file, Moved("target", "staging")}
  /\ UNCHANGED <<candidate, before, undone, outcome>>

Undo ==
  /\ Go("undo", "discard")
  /\ file' \in {file, Moved("backup", "target")}
  /\ undone' = (file' # file)
  /\ UNCHANGED <<candidate, before, outcome>>

Discard ==
  /\ Go("discard", "idle")
  /\ Finish("failed")
  /\ UNCHANGED <<candidate, before, undone>>

-----------------------------------------------------------------------------
(* Outside the library.                                                     *)

Crash ==
  /\ step # "idle" /\ step' = "idle"
  /\ outcome' = "crashed"
  /\ UNCHANGED <<file, candidate, before, undone>>

(* Nothing in the library removes what a crash left staged, which keeps     *)
(* StageUpdate from staging again, or puts back a target that was moved.    *)
RemoveLeftover ==
  /\ step = "idle" /\ Exists("staging")
  /\ file' = Deleted("staging")
  /\ UNCHANGED <<step, candidate, before, undone, outcome>>

RestoreByHand ==
  /\ step = "idle" /\ ~Exists("target")
  /\ file' = [file EXCEPT !.target = file.backup]
  /\ outcome' = "none"
  /\ UNCHANGED <<step, candidate, before, undone>>

HandoffNext ==
  \/ StartStaging \/ CopyFails \/ CopyCompletes \/ VerifyStaged \/ RejectStaged
  \/ Abandon \/ DeleteBackup \/ BackUpTarget \/ BackUpFails
  \/ Commit \/ CommitFails \/ Restart \/ RestartFails
  \/ TakeBack \/ Undo \/ Discard
  \/ Crash \/ RemoveLeftover \/ RestoreByHand

HandoffSpec == HandoffInit /\ [][HandoffNext]_handoffVars

-----------------------------------------------------------------------------
(* Properties.                                                              *)

(* Wherever the updater crashes, a whole version that was verified is       *)
(* installed, or nothing is and the backup holds one.                       *)
InstallationSurvives ==
  \/ file.target \in Release
  \/ file.target = NoFile /\ file.backup \in Release

(* What ApplyUpdate reports is what it left: after a success the verified   *)
(* candidate with the version it replaced in the backup, after a failure    *)
(* the version it found, in the backup if putting it back failed too.       *)
OutcomeIsTrue ==
  step = "idle" =>
    /\ outcome = "applied" => file.target = candidate /\ file.backup = before
    /\ outcome = "failed" => file[IF undone THEN "target" ELSE "backup"] = before

(* All at once: no crash or failure loses the installation, and none is     *)
(* reported as something else.                                              *)
UpdateIsSafe == HandoffTypeOK /\ InstallationSurvives /\ OutcomeIsTrue
=============================================================================
