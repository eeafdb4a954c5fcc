--------------------------- MODULE PlatformProofs ---------------------------
(***************************************************************************)
(* Proofs about four components that share no state: AsyncInitialization,   *)
(* for every bound on its generations; UpdateHandoff, for any number of     *)
(* updates; SettingsStore, for any settings, schema versions and number of  *)
(* Saves; and BoundedFileSink, for any size and number of its files.        *)
(***************************************************************************)
EXTENDS AsyncInitialization, UpdateHandoff, SettingsStore, BoundedFileSink,
        FiniteSetTheorems, TLAPS

(***************************************************************************)
(* AsyncInitialization keeps the promise of OneShotAttempts.  What makes it *)
(* work is the invariant of the shared state: the live ticket is the last   *)
(* one issued, it has no verdict yet, and if its callback was invoked it is *)
(* still on the stack.                                                      *)
(***************************************************************************)
DispatchingMeansFrame ==
  /\ dispatching <=> frame # NoTicket

IssuedInOrder ==
  /\ \A t \in issued : t <= generation
  /\ state = "pending" => generation \in issued
  /\ \A t \in Ticket : ran[t] > 0 => t \in issued

LiveIsUndecided ==
  /\ \A t \in Ticket : verdict[t] # "none" => t \in issued
  /\ state = "pending" => verdict[generation] = "none"

LiveRunsOnStack == \A t \in Ticket : ran[t] > 0 /\ Live(t) => frame = t

AttemptInv ==
  /\ TypeOK /\ DispatchingMeansFrame /\ IssuedInOrder
  /\ LiveIsUndecided /\ LiveRunsOnStack /\ ResultBelongsToLastAttempt /\ CallbackRunsOnce

LEMMA AttemptInitially == Init => AttemptInv
<1> SUFFICES ASSUME Init PROVE AttemptInv
  OBVIOUS
<1> USE DEF Init, NoTicket
<1>1. TypeOK
  <2>1. generation \in 0..MaxGeneration
    BY GenerationAssumption
  <2>2. dispatching \in BOOLEAN
    OBVIOUS
  <2>3. verdict \in [Ticket -> Verdict]
    BY DEF Verdict
  <2> QED
    BY <2>1, <2>2, <2>3 DEF TypeOK, State
<1>2. DispatchingMeansFrame
  BY DEF DispatchingMeansFrame
<1>3. IssuedInOrder /\ LiveIsUndecided /\ LiveRunsOnStack
  BY DEF IssuedInOrder, LiveIsUndecided, LiveRunsOnStack
<1>4. ResultBelongsToLastAttempt /\ CallbackRunsOnce
  BY DEF ResultBelongsToLastAttempt, CallbackRunsOnce
<1> QED
  BY <1>1, <1>2, <1>3, <1>4 DEF AttemptInv

(* Each operation of the coordinator preserves the invariant.               *)
LEMMA AttemptStep == AttemptInv /\ [Next]_vars => AttemptInv'
<1> SUFFICES ASSUME AttemptInv, [Next]_vars PROVE AttemptInv'
  OBVIOUS
<1> USE GenerationAssumption
    DEF AttemptInv, TypeOK, DispatchingMeansFrame, IssuedInOrder, LiveIsUndecided,
        LiveRunsOnStack, ResultBelongsToLastAttempt, CallbackRunsOnce, Live, State, Verdict, Ticket,
        NoTicket
<1>1. CASE Begin
  <2>1. generation' \in Ticket /\ generation' = generation + 1
    BY <1>1 DEF Begin, Advance
  <2>2. generation' \notin issued
    BY <2>1
  <2>3. TypeOK'
    BY <1>1, <2>1 DEF Begin
  <2>4. verdict'[generation'] = "none"
    BY <1>1, <2>1, <2>2 DEF Begin
  <2> QED
    BY <1>1, <2>1, <2>2, <2>3, <2>4 DEF Begin
<1>2. CASE Cancel
  <2>1. generation' = generation + 1 /\ generation' \in Ticket /\ generation \in Ticket
    BY <1>2 DEF Cancel, Advance
  <2>2. TypeOK'
    BY <1>2, <2>1 DEF Cancel
  <2>3. ResultBelongsToLastAttempt'
    BY <1>2, <2>1 DEF Cancel
  <2> QED
    BY <1>2, <2>1, <2>2, <2>3 DEF Cancel
<1>3. CASE Close
  BY <1>3 DEF Close, Advance
<1>4. ASSUME NEW t \in issued, Fail(t) PROVE AttemptInv'
  BY <1>4 DEF Fail
<1>5. ASSUME NEW t \in issued, Dispatch(t) PROVE AttemptInv'
  BY <1>5 DEF Dispatch
<1>6. ASSUME NEW threw \in BOOLEAN, Return(threw) PROVE AttemptInv'
  <2>1. CASE Live(frame)
    BY <1>6, <2>1 DEF Return
  <2>2. CASE ~Live(frame)
    BY <1>6, <2>2 DEF Return
  <2> QED
    BY <2>1, <2>2
<1>7. CASE UNCHANGED vars
  BY <1>7 DEF vars
<1> QED
  BY <1>1, <1>2, <1>3, <1>4, <1>5, <1>6, <1>7 DEF Next

(* The invariant holds in every reachable state.                            *)
THEOREM AttemptInvariance == Spec => []AttemptInv
  BY AttemptInitially, AttemptStep, PTL DEF Spec

(* The variables keep their types (AsyncInitializationSharedState).         *)
THEOREM InitializationTypeCorrect == Spec => []TypeOK
<1>1. AttemptInv => TypeOK
  BY DEF AttemptInv
<1> QED
  BY AttemptInvariance, <1>1, PTL

(* GetResult never shows one attempt's result as another's.                 *)
THEOREM ResultCorrect == Spec => []ResultBelongsToLastAttempt
<1>1. AttemptInv => ResultBelongsToLastAttempt
  BY DEF AttemptInv
<1> QED
  BY AttemptInvariance, <1>1, PTL

(* Dispatch invokes the callback of a ticket at most once.                  *)
THEOREM CallbackOnce == Spec => []CallbackRunsOnce
<1>1. AttemptInv => CallbackRunsOnce
  BY DEF AttemptInv
<1> QED
  BY AttemptInvariance, <1>1, PTL

-----------------------------------------------------------------------------
(* The refinement.                                                          *)

LEMMA AttemptInitRefines == Init => Promise!Init
  BY DEF Init, Promise!Init, StatusOf

LEMMA AttemptStepRefines == AttemptInv /\ [Next]_vars => [Promise!Next]_Promise!vars
<1> SUFFICES ASSUME AttemptInv, [Next]_vars PROVE [Promise!Next]_Promise!vars
  OBVIOUS
<1> USE GenerationAssumption
    DEF AttemptInv, TypeOK, DispatchingMeansFrame, IssuedInOrder, LiveIsUndecided,
        LiveRunsOnStack, Live, State, Verdict, Ticket, NoTicket, StatusOf
<1>1. CASE Begin
  <2>1. generation' \in Ticket /\ generation' \notin issued /\ verdict[generation'] = "none"
    BY <1>1 DEF Begin, Advance
  <2>2. PICK t \in Ticket : t = generation'
    BY <2>1
  <2>3. Promise!Start(t)
    BY <1>1, <2>1, <2>2 DEF Begin, Advance, Promise!Start, Promise!Retire
  <2> QED
    BY <2>3 DEF Promise!Next
<1>2. CASE Cancel
  <2>1. Promise!Cancel
    BY <1>2 DEF Cancel, Advance, Promise!Cancel, Promise!Retire
  <2> QED
    BY <2>1 DEF Promise!Next
<1>3. CASE Close
  <2>1. Promise!Close
    BY <1>3 DEF Close, Advance, Promise!Close, Promise!Retire
  <2> QED
    BY <2>1 DEF Promise!Next
<1>4. ASSUME NEW t \in issued, Fail(t) PROVE Promise!Next
  <2>1. Promise!Fail(t)
    BY <1>4 DEF Fail, Promise!Fail
  <2> QED
    BY <2>1 DEF Promise!Next
<1>5. ASSUME NEW t \in issued, Dispatch(t) PROVE Promise!Next
  <2>1. Promise!Invoke(t)
    BY <1>5 DEF Dispatch, Promise!Invoke
  <2> QED
    BY <2>1 DEF Promise!Next
<1>6. ASSUME NEW threw \in BOOLEAN, Return(threw) PROVE Promise!Next
  <2>1. Promise!Finish(IF threw THEN "failed" ELSE "succeeded")
    BY <1>6 DEF Return, Promise!Finish
  <2> QED
    BY <2>1 DEF Promise!Next
<1>7. CASE UNCHANGED vars
  BY <1>7 DEF vars, Promise!vars
<1> QED
  BY <1>1, <1>2, <1>3, <1>4, <1>5, <1>6, <1>7 DEF Next

(* AsyncInitialization implements OneShotAttempts.                          *)
THEOREM InitializationRefines == Spec => KeepsPromise
  BY AttemptInvariance, AttemptInitRefines, AttemptStepRefines, PTL DEF Spec, KeepsPromise, Promise!Spec

(***************************************************************************)
(* UpdateHandoff.  The inductive invariant says, for each place the updater *)
(* can be in, where the version it found and the one it installs are: that  *)
(* no step can lose both follows from it, wherever the updater stops.       *)
(***************************************************************************)
(* The updater has begun to stage, and has not touched the target.          *)
Untouched == {"copying", "verifying", "staged", "backup"}

VersionNumbers == {candidate, before} \subseteq Release

VersionFiles == file \in [Name -> Release \cup {NoFile, Partial, Unverified}]

(* Where the versions are while the updater is at work.                     *)
Whereabouts ==
  /\ step \in Untouched => file.target \in Release
  /\ step \in {"staged", "backup", "commit"} => file.staging = candidate
  /\ step = "backup" => file.target = before /\ undone
  /\ step = "commit" => file.target = NoFile
  /\ step \in {"restart", "take back"} => file.target = candidate
  /\ step \in {"commit", "restart", "take back", "undo"} => file.backup = before
  /\ step = "discard" => file[IF undone THEN "target" ELSE "backup"] = before

(* A verdict stands only while the updater is idle.                         *)
AtWork == step # "idle" => outcome = "none"

HandoffInv ==
  /\ VersionNumbers /\ VersionFiles /\ Whereabouts /\ AtWork
  /\ InstallationSurvives /\ OutcomeIsTrue

-----------------------------------------------------------------------------
LEMMA HandoffInitially == HandoffInit => HandoffInv
  BY VersionAssumption
     DEF HandoffInit, HandoffInv, VersionNumbers, VersionFiles, Whereabouts, AtWork, InstallationSurvives,
         OutcomeIsTrue, Release, Name, Untouched

(* Staging, which no step of takes the target away.                         *)
LEMMA StagingKeepsInvariant ==
  ASSUME HandoffInv,
         \/ StartStaging \/ CopyFails \/ CopyCompletes
         \/ VerifyStaged \/ RejectStaged \/ Abandon
  PROVE  HandoffInv'
<1> USE VersionAssumption
        DEF HandoffInv, VersionNumbers, VersionFiles, Whereabouts, AtWork, InstallationSurvives, OutcomeIsTrue,
            Release, Name, Untouched, Go, Finish, Deleted, Exists
<1>1. CASE StartStaging
  BY <1>1 DEF StartStaging
<1>2. CASE CopyFails
  BY <1>2 DEF CopyFails
<1>3. CASE CopyCompletes
  BY <1>3 DEF CopyCompletes
<1>4. CASE VerifyStaged
  BY <1>4 DEF VerifyStaged
<1>5. CASE RejectStaged
  BY <1>5 DEF RejectStaged
<1>6. CASE Abandon
  BY <1>6 DEF Abandon
<1> QED BY <1>1, <1>2, <1>3, <1>4, <1>5, <1>6

(* Applying, where each rename has its counterpart in Whereabouts.          *)
LEMMA ApplyingKeepsInvariant ==
  ASSUME HandoffInv,
         \/ DeleteBackup \/ BackUpTarget \/ BackUpFails \/ Commit \/ CommitFails
         \/ Restart \/ RestartFails \/ TakeBack \/ Undo \/ Discard
  PROVE  HandoffInv'
<1> USE VersionAssumption
        DEF HandoffInv, VersionNumbers, VersionFiles, Whereabouts, AtWork, InstallationSurvives, OutcomeIsTrue,
            Release, Name, Untouched, Go, Finish, Deleted, Moved
<1>1. CASE DeleteBackup
  BY <1>1 DEF DeleteBackup
<1>2. CASE BackUpTarget
  BY <1>2 DEF BackUpTarget
<1>3. CASE BackUpFails
  BY <1>3 DEF BackUpFails
<1>4. CASE Commit
  BY <1>4 DEF Commit
<1>5. CASE CommitFails
  BY <1>5 DEF CommitFails
<1>6. CASE Restart
  BY <1>6 DEF Restart
<1>7. CASE RestartFails
  BY <1>7 DEF RestartFails
<1>8. CASE TakeBack
  BY <1>8 DEF TakeBack
<1>9. CASE Undo
  BY <1>9 DEF Undo
<1>10. CASE Discard
  BY <1>10 DEF Discard
<1> QED BY <1>1, <1>2, <1>3, <1>4, <1>5, <1>6, <1>7, <1>8, <1>9, <1>10

(* Crashes, and what is done by hand after one.                             *)
LEMMA OutsideKeepsInvariant ==
  ASSUME HandoffInv, Crash \/ RemoveLeftover \/ RestoreByHand
  PROVE  HandoffInv'
<1> USE VersionAssumption
        DEF HandoffInv, VersionNumbers, VersionFiles, Whereabouts, AtWork, InstallationSurvives, OutcomeIsTrue,
            Release, Name, Untouched, Deleted, Exists
<1>1. CASE Crash
  BY <1>1 DEF Crash
<1>2. CASE RemoveLeftover
  BY <1>2 DEF RemoveLeftover
<1>3. CASE RestoreByHand
  BY <1>3 DEF RestoreByHand
<1> QED BY <1>1, <1>2, <1>3

LEMMA HandoffInvariance == HandoffSpec => []HandoffInv
<1>1. HandoffInv /\ [HandoffNext]_handoffVars => HandoffInv'
  <2> SUFFICES ASSUME HandoffInv, [HandoffNext]_handoffVars PROVE HandoffInv'
    OBVIOUS
  <2>1. CASE HandoffNext
    BY <2>1, StagingKeepsInvariant, ApplyingKeepsInvariant, OutsideKeepsInvariant DEF HandoffNext
  <2>2. CASE UNCHANGED handoffVars
    BY <2>2 DEF handoffVars, HandoffInv, VersionNumbers, VersionFiles, Whereabouts, AtWork, InstallationSurvives,
                OutcomeIsTrue
  <2> QED BY <2>1, <2>2
<1> QED BY HandoffInitially, <1>1, PTL DEF HandoffSpec

-----------------------------------------------------------------------------
(* Whatever fails and wherever the updater crashes, in any number of        *)
(* updates, a whole verified version is installed or waits in the backup.   *)
THEOREM AVersionSurvives == HandoffSpec => []InstallationSurvives
<1>1. HandoffInv => InstallationSurvives
  BY DEF HandoffInv
<1> QED BY HandoffInvariance, <1>1, PTL

(* ApplyUpdate never reports what it did not leave: success with a backup   *)
(* of the version it replaced, or failure with that version kept.           *)
THEOREM OutcomeStaysTrue == HandoffSpec => []OutcomeIsTrue
<1>1. HandoffInv => OutcomeIsTrue
  BY DEF HandoffInv
<1> QED BY HandoffInvariance, <1>1, PTL

LEMMA HandoffKeepsTypes == HandoffInv /\ HandoffTypeOK /\ HandoffNext => HandoffTypeOK'
<1> SUFFICES ASSUME HandoffInv, HandoffTypeOK, HandoffNext PROVE HandoffTypeOK'
  OBVIOUS
<1>1. VersionNumbers' /\ VersionFiles'
  BY StagingKeepsInvariant, ApplyingKeepsInvariant, OutsideKeepsInvariant
     DEF HandoffNext, HandoffInv
<1>2. /\ step' \in {"idle", "copying", "verifying", "staged", "backup", "commit",
                     "restart", "take back", "undo", "discard"}
      /\ outcome' \in {"none", "applied", "failed", "crashed"}
  BY DEF HandoffTypeOK, HandoffNext, StartStaging, CopyFails, CopyCompletes, VerifyStaged,
         RejectStaged, Abandon, DeleteBackup, BackUpTarget, BackUpFails, Commit, CommitFails,
         Restart, RestartFails, TakeBack, Undo, Discard, Crash, RemoveLeftover, RestoreByHand,
         Go, Finish
<1>3. undone' \in BOOLEAN
  <2>1. CASE Undo
    <3>1. PICK moved \in BOOLEAN : moved = (file' # file)
      BY Zenon
    <3> QED BY <2>1, <3>1 DEF Undo
  <2>2. CASE ~Undo
    BY <2>2 DEF HandoffTypeOK, HandoffNext, StartStaging, CopyFails, CopyCompletes,
           VerifyStaged, RejectStaged, Abandon, DeleteBackup, BackUpTarget, BackUpFails,
           Commit, CommitFails, Restart, RestartFails, TakeBack, Discard, Crash,
           RemoveLeftover, RestoreByHand
  <2> QED BY <2>1, <2>2
<1> QED BY <1>1, <1>2, <1>3 DEF VersionNumbers, VersionFiles, HandoffTypeOK

(* The files, the versions and the updater's place keep their types.        *)
THEOREM HandoffTypeCorrect == HandoffSpec => []HandoffTypeOK
<1>1. HandoffInit => HandoffTypeOK
  BY VersionAssumption DEF HandoffInit, HandoffTypeOK, Release, Name
<1>2. HandoffInv /\ HandoffTypeOK /\ [HandoffNext]_handoffVars => HandoffTypeOK'
  BY HandoffKeepsTypes DEF HandoffTypeOK, handoffVars
<1> QED BY HandoffInvariance, <1>1, <1>2, PTL DEF HandoffSpec

(* No crash or failure loses the installation or is reported as something   *)
(* else.                                                                    *)
THEOREM UpdateStaysSafe == HandoffSpec => []UpdateIsSafe
<1> QED BY HandoffTypeCorrect, AVersionSurvives, OutcomeStaysTrue, PTL DEF UpdateIsSafe

(***************************************************************************)
(* SettingsStore: the marker vouches for the last Save, and so does what    *)
(* Load returns.                                                            *)
(***************************************************************************)
StoreTypes ==
  /\ values \in Loaded /\ loaded \in Loaded
  /\ saves \in Save
  /\ supplied \subseteq Setting /\ todo \subseteq Setting
  /\ last.save \in Save /\ last.names \subseteq Setting
  /\ \A n \in Setting : values[n] <= saves

(* Where the marker stands, the last Save begun is the last completed, its  *)
(* schema version is the marker's, and the values are what it left.         *)
MarkerNamesLastSave ==
  marker # NoVersion =>
    /\ last.version = marker /\ last.save = saves
    /\ OfLastSave(values)

(* A Save removes the marker before it writes, and writes what it was given *)
(* over older values.                                                       *)
SaveWritesUnmarked ==
  operation = "save" =>
    /\ marker = NoVersion
    /\ todo \subseteq supplied
    /\ \A n \in supplied \ todo : values[n] = saves
    /\ \A n \in Setting \ supplied : values[n] < saves

(* A Load reads under the marker of its own version.                        *)
LoadReadsMarked ==
  operation = "load" =>
    /\ marker = version /\ marker # NoVersion
    /\ \A n \in Setting : loaded[n] \in {values[n], Missing}
    /\ \A n \in Required \ todo : loaded[n] # Missing

StoreInv == StoreTypes /\ MarkerNamesLastSave /\ SaveWritesUnmarked /\ LoadReadsMarked

-----------------------------------------------------------------------------
LEMMA StoreInitially == StoreInit => StoreInv
  BY SettingsAssumption
     DEF StoreInit, StoreInv, StoreTypes, MarkerNamesLastSave, SaveWritesUnmarked, LoadReadsMarked,
         Loaded, Save, Nothing, Missing

LEMMA SavingKeepsInvariant ==
  ASSUME StoreInv,
         \/ \E v \in Version, names \in SUBSET Setting : StartSave(v, names)
         \/ WriteValue
         \/ WriteMarker
  PROVE  StoreInv'
<1> USE SettingsAssumption DEF StoreInv, StoreTypes, Save, Missing, Loaded
<1>1. ASSUME NEW v \in Version, NEW names \in SUBSET Setting, StartSave(v, names)
      PROVE  StoreInv'
  BY <1>1 DEF StartSave, Start, MarkerNamesLastSave, SaveWritesUnmarked, LoadReadsMarked
<1>2. CASE WriteValue
  <2>1. PICK n \in todo : values' = [values EXCEPT ![n] = saves] /\ todo' = todo \ {n}
    BY <1>2 DEF WriteValue
  <2>2. operation = "save" /\ operation' = "save" /\ marker' = marker
        /\ UNCHANGED <<saves, supplied, last, loaded>>
    BY <1>2 DEF WriteValue, Going
  <2>3. SaveWritesUnmarked'
    BY <2>1, <2>2 DEF SaveWritesUnmarked
  <2> QED
    BY <2>1, <2>2, <2>3 DEF MarkerNamesLastSave, SaveWritesUnmarked, LoadReadsMarked
<1>3. CASE WriteMarker
  <2>1. operation = "save" /\ todo = {} /\ UNCHANGED <<values, loaded, saves, supplied>>
    BY <1>3 DEF WriteMarker, Going
  <2>2. /\ last'.version = marker'
        /\ last'.save = saves
        /\ last'.names = supplied
    BY <1>3 DEF WriteMarker
  <2>3. OfLastSave(values)'
    BY <2>1, <2>2 DEF SaveWritesUnmarked, OfLastSave
  <2> QED
    BY <1>3, <2>1, <2>2, <2>3
       DEF WriteMarker, End, MarkerNamesLastSave, SaveWritesUnmarked, LoadReadsMarked
<1> QED BY <1>1, <1>2, <1>3

(* Removing, or stopping anywhere, takes values from a Save and adds none.  *)
LEMMA RemovingKeepsInvariant ==
  ASSUME StoreInv,
         \/ \E v \in Version, names \in SUBSET Setting : StartRemoveOwned(v, names)
         \/ DeleteValue
         \/ DeleteMarker
         \/ Stops
  PROVE  StoreInv'
<1> USE SettingsAssumption DEF StoreInv, StoreTypes, Save, Missing, Loaded
<1>1. ASSUME NEW v \in Version, NEW names \in SUBSET Setting, StartRemoveOwned(v, names)
      PROVE  StoreInv'
  BY <1>1 DEF StartRemoveOwned, Start, MarkerNamesLastSave, OfLastSave, SaveWritesUnmarked,
              LoadReadsMarked
<1>2. CASE DeleteValue
  <2>1. PICK n \in todo : values' = [values EXCEPT ![n] = Missing] /\ todo' = todo \ {n}
    BY <1>2 DEF DeleteValue
  <2>2. operation = "remove" /\ operation' = "remove"
        /\ UNCHANGED <<marker, last, saves, supplied, loaded>>
    BY <1>2 DEF DeleteValue, Going
  <2>3. ASSUME marker # NoVersion PROVE OfLastSave(values)'
    <3>1. OfLastSave(values)
      BY <2>3 DEF MarkerNamesLastSave
    <3>2. \A m \in Setting : values'[m] \in {values[m], 0} /\ values[m] \in 0..MaxSaves
      BY <2>1
    <3> QED BY <3>1, <3>2, <2>2 DEF OfLastSave
  <2>4. MarkerNamesLastSave'
    BY <2>2, <2>3 DEF MarkerNamesLastSave
  <2>5. \A m \in Setting : values'[m] <= saves'
    BY <2>1, <2>2
  <2> QED
    BY <2>1, <2>2, <2>4, <2>5 DEF SaveWritesUnmarked, LoadReadsMarked
<1>3. CASE DeleteMarker
  BY <1>3 DEF DeleteMarker, Going, End, MarkerNamesLastSave, SaveWritesUnmarked, LoadReadsMarked
<1>4. CASE Stops
  BY <1>4 DEF Stops, End, Nothing, MarkerNamesLastSave, OfLastSave, SaveWritesUnmarked,
              LoadReadsMarked
<1> QED BY <1>1, <1>2, <1>3, <1>4

LEMMA LoadingKeepsInvariant ==
  ASSUME StoreInv, (\E v \in Version : StartLoad(v)) \/ ReadValue \/ Loads
  PROVE  StoreInv'
<1> USE SettingsAssumption DEF StoreInv, StoreTypes, Save, Missing, Loaded
<1>1. ASSUME NEW v \in Version, StartLoad(v) PROVE StoreInv'
  BY <1>1 DEF StartLoad, Start, Nothing, MarkerNamesLastSave, OfLastSave, SaveWritesUnmarked,
              LoadReadsMarked
<1>2. CASE ReadValue
  <2>1. PICK n \in todo : /\ n \in Required => values[n] # Missing
                          /\ loaded' = [loaded EXCEPT ![n] = values[n]]
                          /\ todo' = todo \ {n}
    BY <1>2 DEF ReadValue
  <2>2. operation = "load" /\ operation' = "load"
        /\ UNCHANGED <<marker, values, last, version, saves, supplied>>
    BY <1>2 DEF ReadValue, Going
  <2>3. MarkerNamesLastSave'
    BY <2>2 DEF MarkerNamesLastSave, OfLastSave
  <2>4. LoadReadsMarked'
    BY <2>1, <2>2 DEF LoadReadsMarked
  <2> QED
    BY <2>1, <2>2, <2>3, <2>4 DEF SaveWritesUnmarked
<1>3. CASE Loads
  BY <1>3 DEF Loads, Going, End, MarkerNamesLastSave, OfLastSave, SaveWritesUnmarked,
              LoadReadsMarked
<1> QED BY <1>1, <1>2, <1>3

LEMMA StoreInvariance == StoreSpec => []StoreInv
<1>1. StoreInv /\ [StoreNext]_storeVars => StoreInv'
  <2> SUFFICES ASSUME StoreInv, [StoreNext]_storeVars PROVE StoreInv'
    OBVIOUS
  <2>1. CASE StoreNext
    BY <2>1, SavingKeepsInvariant, RemovingKeepsInvariant, LoadingKeepsInvariant DEF StoreNext
  <2>2. CASE UNCHANGED storeVars
    BY <2>2 DEF storeVars, StoreInv, StoreTypes, MarkerNamesLastSave, OfLastSave,
                SaveWritesUnmarked, LoadReadsMarked
  <2> QED BY <2>1, <2>2
<1> QED BY StoreInitially, <1>1, PTL DEF StoreSpec

-----------------------------------------------------------------------------
(* Where SchemaVersion stands, the last Save begun has completed under that *)
(* schema version, and the names it was given have its values or were       *)
(* removed, the others older ones, whatever stopped Save or RemoveOwned and *)
(* where.                                                                   *)
THEOREM MarkerIsTrue == StoreSpec => []MarkerNamesLastSave
<1>1. StoreInv => MarkerNamesLastSave
  BY DEF StoreInv
<1> QED BY StoreInvariance, <1>1, PTL

LEMMA StoreKeepsTypes == StoreInv /\ StoreTypeOK /\ StoreNext => StoreTypeOK'
<1> SUFFICES ASSUME StoreInv, StoreTypeOK, StoreNext PROVE StoreTypeOK'
  OBVIOUS
<1>1. StoreTypes'
  BY SavingKeepsInvariant, RemovingKeepsInvariant, LoadingKeepsInvariant DEF StoreNext, StoreInv
<1>2. marker' \in Version \cup {NoVersion}
  BY DEF StoreTypeOK, StoreNext, StartSave, StartRemoveOwned, StartLoad, Start, WriteValue,
         WriteMarker, DeleteValue, DeleteMarker, ReadValue, Loads, Stops, Going, End
<1>3. last' \in Completed
  <2>1. CASE WriteMarker
    BY <2>1 DEF WriteMarker, Going, StoreTypeOK, Completed
  <2> QED
    BY <2>1 DEF StoreTypeOK, StoreNext, StartSave, StartRemoveOwned, StartLoad, Start, WriteValue,
                DeleteValue, DeleteMarker, ReadValue, Loads, Stops
<1>4. /\ operation' \in {"none", "save", "remove", "load"}
      /\ version' \in Version \cup (IF operation' = "none" THEN {NoVersion} ELSE {})
  BY DEF StoreTypeOK, StoreNext, StartSave, StartRemoveOwned, StartLoad, Start, WriteValue,
         WriteMarker, DeleteValue, DeleteMarker, ReadValue, Loads, Stops, Going, End
<1> QED BY <1>1, <1>2, <1>3, <1>4 DEF StoreTypes, StoreTypeOK

(* Marker, values and the operation under way keep their types.             *)
THEOREM StoreTypeCorrect == StoreSpec => []StoreTypeOK
<1>1. StoreInit => StoreTypeOK
  BY SettingsAssumption DEF StoreInit, StoreTypeOK, Completed, Loaded, Save, Nothing, Missing
<1>2. StoreInv /\ StoreTypeOK /\ [StoreNext]_storeVars => StoreTypeOK'
  BY StoreKeepsTypes DEF StoreTypeOK, storeVars
<1> QED BY StoreInvariance, <1>1, <1>2, PTL DEF StoreSpec

(* A Load that returns success follows a completed Save of its own schema   *)
(* version and returns what the last one was given, every required value,   *)
(* and nothing of a later Save.                                             *)
THEOREM LoadIsOfLastSave == StoreSpec => LoadReturnsLastSave
<1>1. StoreInv /\ Loads => /\ last.version = version
                           /\ OfLastSave(loaded)
                           /\ \A n \in Required : loaded[n] # Missing
  <2> SUFFICES ASSUME StoreInv, Loads
               PROVE  /\ last.version = version
                      /\ OfLastSave(loaded)
                      /\ \A n \in Required : loaded[n] # Missing
    OBVIOUS
  <2>1. marker = version /\ marker # NoVersion /\ todo = {}
    BY DEF Loads, Going, StoreInv, LoadReadsMarked
  <2>2. last.version = version /\ OfLastSave(values)
    BY <2>1 DEF StoreInv, MarkerNamesLastSave
  <2>3. \A n \in Setting : loaded[n] \in {values[n], 0} /\ values[n] \in 0..MaxSaves
    BY DEF Loads, Going, StoreInv, StoreTypes, LoadReadsMarked, Loaded, Save, Missing
  <2>4. OfLastSave(loaded)
    <3>1. last.save \in 0..MaxSaves /\ MaxSaves \in Nat /\ last.names \subseteq Setting
      BY SettingsAssumption DEF StoreInv, StoreTypes, Save
    <3> QED BY <2>2, <2>3, <3>1 DEF OfLastSave, Missing
  <2>5. \A n \in Required : loaded[n] # Missing
    BY <2>1 DEF Loads, Going, StoreInv, LoadReadsMarked
  <2> QED BY <2>2, <2>4, <2>5
<1>2. StoreInv /\ [StoreNext]_storeVars =>
        [Loads => /\ last.version = version
                  /\ OfLastSave(loaded)
                  /\ \A n \in Required : loaded[n] # Missing]_storeVars
  BY <1>1
<1> QED BY StoreInvariance, StoreTypeCorrect, <1>2, PTL DEF StoreSpec, LoadReturnsLastSave

-----------------------------------------------------------------------------
(***************************************************************************)
(* BoundedFileSink.  Why a mishap costs so little: a file that was rotated  *)
(* away is full or empty, while files are moved the only empty place that   *)
(* no mishap has made is the one the next file goes to, so that a file that *)
(* is lost for good has at most as many empty places below it as there were *)
(* mishaps.                                                                 *)
(***************************************************************************)
SinkTypeOK ==
  /\ logs \in [0..Rotations -> Seq(Nat)]
  /\ rotation \in -1..Rotations
  /\ lastWritten \in Nat /\ attempt \in Nat /\ mishaps \in Nat

NewestIsHeld ==
  /\ LogRecords \subseteq 1..lastWritten
  /\ lastWritten # 0 => lastWritten \in LogRecords
  /\ lastWritten <= attempt
  /\ rotation # Idle => lastWritten < attempt

RotatedAreFull ==
  /\ \A i \in 1..Rotations : logs[i] = <<>> \/ Len(logs[i]) = MaximumBytes
  /\ Len(logs[0]) <= MaximumBytes
  /\ rotation = Appending => Len(logs[0]) < MaximumBytes
  /\ rotation \in 1..Rotations => Len(logs[0]) = MaximumBytes
  /\ rotation \in 1..Rotations - 1 => logs[rotation] = <<>>

(* The empty places below file i that a mishap has made.                    *)
HolesBelow(i) == {j \in 0..i - 1 : logs[j] = <<>> /\ j # rotation}

HolesAreMishaps ==
  \A i \in 0..Rotations : logs[i] # <<>> => Cardinality(HolesBelow(i)) <= mishaps

EnoughRecords ==
  \/ Cardinality(LogRecords) >= attempt - mishaps - (IF rotation = Idle THEN 0 ELSE 1)
  \/ Cardinality(LogRecords)
       >= (Rotations - mishaps) * MaximumBytes + (IF rotation = Idle THEN 1 ELSE 0)

SinkInv ==
  SinkTypeOK /\ LogInOrder /\ NewestIsHeld /\ RotatedAreFull /\ HolesAreMishaps /\ EnoughRecords

-----------------------------------------------------------------------------
LEMMA SinkConstants ==
  /\ Rotations \in Nat /\ Rotations >= 1 /\ MaximumBytes \in Nat /\ MaximumBytes >= 1
  /\ MaxRecords \in Nat /\ MaxFaults \in Nat
BY SinkAssumption DEF SinkAssumption

LEMMA TwoMinimum ==
  ASSUME NEW x \in Int, NEW y \in Int
  PROVE  Min({x, y}) = IF x <= y THEN x ELSE y
<1>1. \A z \in {x, y} : (\A u \in {x, y} : z =< u) <=> (z = IF x <= y THEN x ELSE y)
  OBVIOUS
<1> DEFINE m == IF x <= y THEN x ELSE y
<1>2. m \in {x, y} /\ \A u \in {x, y} : m =< u
  OBVIOUS
<1>3. Min({x, y}) \in {x, y} /\ \A u \in {x, y} : Min({x, y}) =< u
  BY <1>2 DEF Min
<1> QED BY <1>1, <1>3

LEMMA HeldRecord ==
  ASSUME NEW r
  PROVE  r \in LogRecords <=> \E i \in 0..Rotations : \E k \in DOMAIN logs[i] : logs[i][k] = r
  BY DEF LogRecords, ToSet

LEMMA HeldRecordNext ==
  ASSUME NEW r
  PROVE  r \in LogRecords' <=> \E i \in 0..Rotations : \E k \in DOMAIN logs'[i] : logs'[i][k] = r
  BY DEF LogRecords, ToSet

LEMMA RecordsAreFinite ==
  ASSUME SinkInv PROVE IsFiniteSet(LogRecords) /\ Cardinality(LogRecords) \in Nat
<1>1. IsFiniteSet(1..lastWritten)
  BY FS_Interval DEF SinkInv, SinkTypeOK
<1> QED BY <1>1, FS_Subset, FS_CardinalityType DEF SinkInv, NewestIsHeld

LEMMA HolesAreFinite ==
  ASSUME SinkTypeOK, NEW i \in 0..Rotations
  PROVE  IsFiniteSet(HolesBelow(i)) /\ Cardinality(HolesBelow(i)) \in Nat
<1>1. IsFiniteSet(0..i - 1) /\ HolesBelow(i) \subseteq 0..i - 1
  BY SinkConstants, FS_Interval DEF HolesBelow
<1> QED BY <1>1, FS_Subset, FS_CardinalityType

LEMMA OneMoreElement ==
  ASSUME NEW S, NEW x, IsFiniteSet(S)
  PROVE  IsFiniteSet(S \cup {x}) /\ Cardinality(S \cup {x}) <= Cardinality(S) + 1
<1>1. Cardinality(S) \in Nat
  BY FS_CardinalityType
<1>2. /\ IsFiniteSet(S \cup {x})
      /\ Cardinality(S \cup {x}) = IF x \in S THEN Cardinality(S) ELSE Cardinality(S) + 1
  BY FS_AddElement, Zenon
<1> QED BY <1>1, <1>2

LEMMA ProductIsMonotone ==
  ASSUME NEW a \in Int, NEW b \in Int, NEW c \in Nat, a <= b
  PROVE  a * c <= b * c
<1>1. (b - a) * c >= 0
  OBVIOUS
<1>2. (b - a) * c = b * c - a * c
  OBVIOUS
<1> QED BY <1>1, <1>2

(* When the oldest file is given up, the others are full but for as many as *)
(* there were mishaps.                                                      *)
LEMMA NewerFilesAreFull ==
  ASSUME SinkInv, rotation = Rotations, logs[Rotations] # <<>>, NEW S,
         IsFiniteSet(S),
         \A j \in 0..Rotations - 1 : \A k \in DOMAIN logs[j] : logs[j][k] \in S
  PROVE  Cardinality(S) >= (Rotations - mishaps) * MaximumBytes
<1> USE SinkConstants
<1> DEFINE H == HolesBelow(Rotations)
           N == (0..Rotations - 1) \ H
           At == [x \in N \X (1..MaximumBytes) |-> logs[x[1]][x[2]]]
<1>1. \A j \in N : DOMAIN logs[j] = 1..MaximumBytes
  <2>1. SUFFICES ASSUME NEW j \in N PROVE Len(logs[j]) = MaximumBytes
    BY DEF SinkInv, SinkTypeOK
  <2>2. logs[j] # <<>>
    BY DEF HolesBelow
  <2> QED BY <2>2 DEF SinkInv, RotatedAreFull
<1>2. At \in Injection(N \X (1..MaximumBytes), S)
  <2>1. \A x \in N \X (1..MaximumBytes) : At[x] \in S
    BY <1>1
  <2>2. ASSUME NEW x \in N \X (1..MaximumBytes), NEW y \in N \X (1..MaximumBytes), At[x] = At[y]
        PROVE  x = y
    <3> PICK j \in N, k \in 1..MaximumBytes : x = <<j, k>>
      OBVIOUS
    <3> PICK i \in N, m \in 1..MaximumBytes : y = <<i, m>>
      OBVIOUS
    <3>1. logs[j][k] = logs[i][m] /\ k \in DOMAIN logs[j] /\ m \in DOMAIN logs[i]
      BY <1>1, <2>2
    <3>5. logs[j] \in Seq(Nat) /\ logs[i] \in Seq(Nat)
      BY DEF SinkInv, SinkTypeOK
    <3>2. logs[j][k] \in Nat /\ logs[i][m] \in Nat
      BY <3>1, <3>5
    <3>3. ~(logs[j][k] < logs[i][m]) /\ ~(logs[i][m] < logs[j][k])
      BY <3>1, <3>2
    <3>4. ~(j > i) /\ ~(j = i /\ k < m) /\ ~(i > j) /\ ~(i = j /\ m < k)
      BY <3>1, <3>3 DEF SinkInv, LogInOrder
    <3> QED BY <3>4
  <2> QED BY <2>1, <2>2 DEF Injection, IsInjective
<1>3. Cardinality(N \X (1..MaximumBytes)) <= Cardinality(S)
  BY <1>2, FS_Injection
<1>4. /\ IsFiniteSet(0..Rotations - 1) /\ Cardinality(0..Rotations - 1) = Rotations
      /\ IsFiniteSet(1..MaximumBytes) /\ Cardinality(1..MaximumBytes) = MaximumBytes
  <2>1. 0 \in Int /\ 1 \in Int /\ Rotations - 1 \in Int /\ MaximumBytes \in Int
    OBVIOUS
  <2>2. IsFiniteSet(0..Rotations - 1) /\ Cardinality(0..Rotations - 1) = Rotations
    BY <2>1, FS_Interval
  <2>3. IsFiniteSet(1..MaximumBytes) /\ Cardinality(1..MaximumBytes) = MaximumBytes
    BY <2>1, FS_Interval
  <2> QED BY <2>2, <2>3
<1>5. /\ IsFiniteSet(N) /\ Cardinality(N) \in Nat
      /\ Cardinality(N) = Rotations - Cardinality((0..Rotations - 1) \cap H)
  BY <1>4, FS_Difference, FS_CardinalityType
<1>6. (0..Rotations - 1) \cap H = H
  BY DEF HolesBelow
<1>7. Cardinality(H) <= mishaps /\ Cardinality(H) \in Nat
  BY HolesAreFinite DEF SinkInv, HolesAreMishaps
<1>8. Cardinality(N \X (1..MaximumBytes)) = Cardinality(N) * MaximumBytes
  BY <1>4, <1>5, FS_Product
<1>9. Rotations - mishaps <= Cardinality(N) /\ mishaps \in Nat
  <2>1. mishaps \in Nat
    BY DEF SinkInv, SinkTypeOK
  <2>2. Cardinality(N) = Rotations - Cardinality(H)
    BY <1>5, <1>6
  <2> HIDE DEF H, N
  <2> QED BY <1>5, <1>7, <2>1, <2>2
<1>10. (Rotations - mishaps) * MaximumBytes <= Cardinality(N) * MaximumBytes
  BY <1>5, <1>9, ProductIsMonotone
<1>11. Cardinality(S) \in Nat
  BY FS_CardinalityType
<1> QED BY <1>3, <1>5, <1>8, <1>9, <1>10, <1>11

LEMMA SinkInitially == SinkInit => SinkInv
<1> SUFFICES ASSUME SinkInit PROVE SinkInv
  OBVIOUS
<1> USE SinkConstants DEF SinkInit, Idle, Appending
<1>1. SinkTypeOK
  BY DEF SinkTypeOK
<1>2. LogRecords = {}
  BY HeldRecord
<1>3. LogInOrder /\ NewestIsHeld /\ RotatedAreFull /\ HolesAreMishaps
  BY <1>2 DEF LogInOrder, NewestIsHeld, RotatedAreFull, HolesAreMishaps
<1>4. EnoughRecords
  BY <1>2, FS_EmptySet DEF EnoughRecords
<1> QED BY <1>1, <1>3, <1>4 DEF SinkInv

LEMMA BeginWriteKeeps == ASSUME SinkInv, BeginWrite PROVE SinkInv'
<1> USE SinkConstants DEF SinkInv, BeginWrite, Idle, Appending
<1>1. SinkTypeOK'
  BY DEF SinkTypeOK
<1>2. LogInOrder'
  BY DEF LogInOrder
<1>3. LogRecords' = LogRecords
  BY DEF LogRecords
<1>4. NewestIsHeld'
  BY <1>3 DEF NewestIsHeld, SinkTypeOK
<1>5. Len(logs[0]) \in Nat
  BY DEF SinkTypeOK
<1>6. RotatedAreFull'
  BY <1>5 DEF RotatedAreFull, SinkTypeOK
<1>7. ASSUME NEW i \in 0..Rotations, logs'[i] # <<>>
      PROVE  Cardinality(HolesBelow(i)') <= mishaps'
  <2>1. HolesBelow(i)' \subseteq HolesBelow(i)
    BY DEF HolesBelow
  <2>2. /\ IsFiniteSet(HolesBelow(i)) /\ Cardinality(HolesBelow(i)) \in Nat
        /\ Cardinality(HolesBelow(i)) <= mishaps /\ mishaps \in Nat
    BY <1>7, HolesAreFinite DEF HolesAreMishaps, SinkTypeOK
  <2>3. PICK H : H = HolesBelow(i)'
    OBVIOUS
  <2>4. Cardinality(H) <= Cardinality(HolesBelow(i)) /\ Cardinality(H) \in Nat
    BY <2>1, <2>2, <2>3, FS_Subset, FS_CardinalityType
  <2> QED BY <2>2, <2>3, <2>4
<1>8. HolesAreMishaps'
  BY <1>7 DEF HolesAreMishaps
<1>9. EnoughRecords'
  BY <1>3, RecordsAreFinite DEF EnoughRecords, SinkTypeOK
<1> QED BY <1>1, <1>2, <1>4, <1>6, <1>8, <1>9

(* A step that only takes empty files away, or the oldest, of which one was *)
(* given up at most: the count of records afterwards.                       *)
LEMMA GivingUpOldest ==
  ASSUME SinkInv, rotation \in 1..Rotations, LogRecords' \subseteq LogRecords,
         LogRecords' # LogRecords => rotation = Rotations /\ logs[Rotations] # <<>>,
         \A j \in 0..Rotations - 1 : \A k \in DOMAIN logs[j] : logs[j][k] \in LogRecords'
  PROVE  /\ IsFiniteSet(LogRecords') /\ Cardinality(LogRecords') \in Nat
         /\ \/ Cardinality(LogRecords') >= attempt - mishaps - 1
            \/ Cardinality(LogRecords') >= (Rotations - mishaps) * MaximumBytes
<1>1. PICK S : S = LogRecords'
  OBVIOUS
<1>2. IsFiniteSet(S) /\ Cardinality(S) \in Nat
  BY <1>1, RecordsAreFinite, FS_Subset, FS_CardinalityType
<1>3. CASE S = LogRecords
  <2>1. rotation # Idle
    BY SinkConstants DEF Idle
  <2>2. PICK p : p = (Rotations - mishaps) * MaximumBytes
    OBVIOUS
  <2>3. p \in Int /\ attempt - mishaps \in Int
    BY <2>2, SinkConstants DEF SinkInv, SinkTypeOK
  <2>4. Cardinality(S) >= attempt - mishaps - 1 \/ Cardinality(S) >= p + 0
    BY <1>1, <1>3, <2>1, <2>2 DEF SinkInv, EnoughRecords
  <2>5. Cardinality(S) >= attempt - mishaps - 1 \/ Cardinality(S) >= p
    BY <2>3, <2>4
  <2> QED BY <1>1, <1>2, <2>2, <2>5
<1>4. CASE S # LogRecords
  <2>1. rotation = Rotations /\ logs[Rotations] # <<>>
    BY <1>1, <1>4
  <2>2. \A j \in 0..Rotations - 1 : \A k \in DOMAIN logs[j] : logs[j][k] \in S
    BY <1>1
  <2>3. Cardinality(S) >= (Rotations - mishaps) * MaximumBytes
    BY <1>2, <2>1, <2>2, NewerFilesAreFull
  <2> QED BY <1>1, <1>2, <2>3
<1> QED BY <1>3, <1>4

(* While files are moved, the file that is given up does not hold the       *)
(* newest record.                                                           *)
LEMMA NewestIsNotGivenUp ==
  ASSUME SinkInv, rotation \in 1..Rotations, NEW k \in DOMAIN logs[rotation]
  PROVE  logs[rotation][k] # lastWritten
<1> USE SinkConstants
<1>1. rotation = Rotations
  BY DEF SinkInv, RotatedAreFull
<1>2. /\ logs[0] \in Seq(Nat) /\ Len(logs[0]) = MaximumBytes /\ logs[rotation] \in Seq(Nat)
  BY DEF SinkInv, SinkTypeOK, RotatedAreFull
<1>3. 1 \in DOMAIN logs[0] /\ logs[0][1] \in Nat /\ logs[rotation][k] \in Nat
  BY <1>2
<1>4. logs[rotation][k] < logs[0][1]
  BY <1>1, <1>3 DEF SinkInv, LogInOrder
<1>5. logs[0][1] \in LogRecords
  BY <1>3, HeldRecord
<1>6. logs[0][1] \in 1..lastWritten /\ lastWritten \in Nat
  BY <1>5 DEF SinkInv, NewestIsHeld, SinkTypeOK
<1> QED BY <1>3, <1>4, <1>6

(* Where Rotate takes file i from, when it moves file k - 1 to k.           *)
From(k, i) == IF i = k THEN k - 1 ELSE i

LEMMA OneMishapMore ==
  ASSUME SinkTypeOK, rotation' = Idle, mishaps' = mishaps + 1, attempt' = attempt,
         Cardinality(LogRecords') \in Nat,
         \/ Cardinality(LogRecords') >= attempt - mishaps - 1
         \/ Cardinality(LogRecords') >= (Rotations - mishaps) * MaximumBytes
  PROVE  EnoughRecords'
<1>1. mishaps \in Nat /\ attempt \in Nat
  BY DEF SinkTypeOK
<1>2. PICK p \in Int : p = (Rotations - mishaps) * MaximumBytes
  BY <1>1, SinkConstants
<1>3. (Rotations - (mishaps + 1)) * MaximumBytes = p - MaximumBytes
  BY <1>1, <1>2, SinkConstants
<1>4. PICK c \in Nat : c = Cardinality(LogRecords')
  OBVIOUS
<1>5. c >= attempt - (mishaps + 1) - 0 \/ c >= (p - MaximumBytes) + 1
  BY <1>1, <1>2, <1>4, SinkConstants
<1> QED BY <1>3, <1>4, <1>5 DEF EnoughRecords

LEMMA RotateKeeps == ASSUME SinkInv, Rotate PROVE SinkInv'
<1> USE SinkConstants
<1> PICK k \in 1..Rotations : k = rotation
  BY DEF Rotate
<1> PICK R : R = 0..Rotations
  OBVIOUS
<1>0. /\ k \in Int /\ 1 <= k /\ k <= Rotations /\ k \in R /\ k - 1 \in R
      /\ \A i \in R : i \in Int /\ 0 <= i /\ i <= Rotations
      /\ \A i \in Int : 0 <= i /\ i <= Rotations => i \in R
  OBVIOUS
<1>1. /\ logs \in [R -> Seq(Nat)] /\ logs' \in [R -> Seq(Nat)]
      /\ logs'[k] = logs[k - 1] /\ logs'[k - 1] = <<>>
      /\ \A i \in R : i # k /\ i # k - 1 => logs'[i] = logs[i]
      /\ DOMAIN logs'[k - 1] = {}
  <2>1. logs \in [R -> Seq(Nat)]
    BY DEF SinkInv, SinkTypeOK
  <2>2. logs' = [logs EXCEPT ![k] = logs[k - 1], ![k - 1] = <<>>]
    BY DEF Rotate
  <2>3. <<>> \in Seq(Nat) /\ DOMAIN <<>> = {}
    OBVIOUS
  <2>4. k \in R /\ k - 1 \in R /\ k # k - 1
    BY <1>0
  <2>5. PICK j \in R : j = k - 1
    BY <2>4
  <2>6. logs' = [i \in R |-> IF i = j THEN <<>> ELSE IF i = k THEN logs[j] ELSE logs[i]]
    BY <2>1, <2>2, <2>4, <2>5
  <2>7. logs[j] \in Seq(Nat) /\ \A i \in R : logs[i] \in Seq(Nat)
    BY <2>1
  <2>8. logs' \in [R -> Seq(Nat)]
    BY <2>3, <2>6, <2>7
  <2> QED BY <2>1, <2>3, <2>4, <2>5, <2>6, <2>8
<1>2. /\ lastWritten' = lastWritten /\ attempt' = attempt /\ mishaps' = mishaps
      /\ rotation' = k - 1
  BY DEF Rotate
<1>3. SinkTypeOK'
  BY <1>0, <1>1, <1>2 DEF SinkInv, SinkTypeOK
<1>4. \A i \in R : (i # k - 1 => logs'[i] = logs[From(k, i)]) /\ From(k, i) \in R
  BY <1>0, <1>1 DEF From
<1>5. LogInOrder'
  <2> SUFFICES ASSUME NEW i \in R, NEW j \in R,
                      NEW m \in DOMAIN logs'[i], NEW n \in DOMAIN logs'[j],
                      i > j \/ (i = j /\ m < n)
               PROVE  logs'[i][m] < logs'[j][n]
    BY DEF LogInOrder
  <2>1. i # k - 1 /\ j # k - 1
    BY <1>1
  <2>2. From(k, i) > From(k, j) \/ (From(k, i) = From(k, j) /\ m < n)
    BY <1>0, <2>1 DEF From
  <2>3. /\ logs'[i] = logs[From(k, i)] /\ logs'[j] = logs[From(k, j)]
        /\ From(k, i) \in R /\ From(k, j) \in R
    BY <1>4, <2>1
  <2>4. m \in DOMAIN logs[From(k, i)] /\ n \in DOMAIN logs[From(k, j)]
    BY <2>3
  <2>5. logs[From(k, i)][m] < logs[From(k, j)][n]
    BY <2>2, <2>3, <2>4 DEF SinkInv, LogInOrder
  <2> QED BY <2>3, <2>5
<1>6. LogRecords' \subseteq LogRecords
  <2> SUFFICES ASSUME NEW r \in LogRecords' PROVE r \in LogRecords
    OBVIOUS
  <2>1. PICK i \in R : \E m \in DOMAIN logs'[i] : logs'[i][m] = r
    BY HeldRecordNext
  <2>2. i # k - 1
    BY <1>1, <2>1
  <2>3. logs'[i] = logs[From(k, i)] /\ From(k, i) \in R
    BY <1>4, <2>2
  <2> QED BY <2>1, <2>3, HeldRecord
<1>7. ASSUME NEW j \in R, j # k, NEW m \in DOMAIN logs[j]
      PROVE  logs[j][m] \in LogRecords'
  <2>1. CASE j = k - 1
    BY <1>0, <1>1, <2>1, HeldRecordNext
  <2>2. CASE j # k - 1
    BY <1>1, <1>7, <2>2, HeldRecordNext
  <2> QED BY <2>1, <2>2
<1>8. k # Rotations => logs[k] = <<>>
  BY <1>0 DEF SinkInv, RotatedAreFull
<1>9. LogRecords' # LogRecords => rotation = Rotations /\ logs[Rotations] # <<>>
  <2> SUFFICES ASSUME NEW r \in LogRecords, r \notin LogRecords'
               PROVE  rotation = Rotations /\ logs[Rotations] # <<>>
    BY <1>6
  <2>1. PICK i \in R : \E m \in DOMAIN logs[i] : logs[i][m] = r
    BY HeldRecord
  <2>2. i = k /\ logs[i] # <<>>
    BY <1>7, <2>1
  <2> QED BY <1>8, <2>2
<1>10. NewestIsHeld'
  <2>1. lastWritten # 0 => lastWritten \in LogRecords'
    <3> SUFFICES ASSUME lastWritten # 0 PROVE lastWritten \in LogRecords'
      OBVIOUS
    <3>1. PICK i \in R : \E m \in DOMAIN logs[i] : logs[i][m] = lastWritten
      BY HeldRecord DEF SinkInv, NewestIsHeld
    <3>2. i # k
      BY <3>1, NewestIsNotGivenUp
    <3> QED BY <1>7, <3>1, <3>2
  <2>2. LogRecords' \subseteq 1..lastWritten /\ rotation # Idle
    BY <1>0, <1>6 DEF SinkInv, NewestIsHeld, Idle
  <2>3. lastWritten <= attempt /\ lastWritten < attempt
    BY <2>2 DEF SinkInv, NewestIsHeld
  <2> QED BY <1>2, <2>1, <2>2, <2>3 DEF NewestIsHeld
<1>11. RotatedAreFull'
  <2>1. Len(logs[0]) = MaximumBytes /\ 0 \in R
    BY <1>0 DEF SinkInv, RotatedAreFull
  <2>2. k = 1 => logs'[0] = <<>> /\ Len(logs'[0]) = 0
    BY <1>0, <1>1
  <2>3. k # 1 => logs'[0] = logs[0]
    BY <1>0, <1>1, <2>1
  <2>4. \A i \in R : i >= 1 => logs'[i] = <<>> \/ Len(logs'[i]) = MaximumBytes
    <3> SUFFICES ASSUME NEW i \in R, i >= 1, i # k - 1
                 PROVE  logs'[i] = <<>> \/ Len(logs'[i]) = MaximumBytes
      BY <1>1
    <3>1. From(k, i) \in R /\ (From(k, i) = 0 \/ From(k, i) >= 1) /\ logs'[i] = logs[From(k, i)]
      BY <1>0, <1>4 DEF From
    <3>2. \A j \in 1..Rotations : logs[j] = <<>> \/ Len(logs[j]) = MaximumBytes
      BY DEF SinkInv, RotatedAreFull
    <3> QED BY <2>1, <3>1, <3>2
  <2>5. \A i \in 1..Rotations : i \in R /\ i >= 1
    OBVIOUS
  <2>6. Len(logs'[0]) <= MaximumBytes /\ (k - 1 = 0 => Len(logs'[0]) < MaximumBytes)
    BY <1>0, <2>1, <2>2, <2>3
  <2>7. k - 1 >= 1 => Len(logs'[0]) = MaximumBytes /\ logs'[k - 1] = <<>>
    BY <1>0, <1>1, <2>1, <2>3
  <2> QED BY <1>0, <1>2, <2>4, <2>5, <2>6, <2>7 DEF RotatedAreFull, Appending
<1>12. ASSUME NEW i \in R, logs'[i] # <<>>
       PROVE  Cardinality(HolesBelow(i)') <= mishaps
  <2>1. i # k - 1 /\ logs[From(k, i)] # <<>> /\ From(k, i) \in R
    BY <1>1, <1>4, <1>12
  <2>2. PICK H : H = HolesBelow(From(k, i))
    OBVIOUS
  <2>3. PICK G : G = HolesBelow(i)'
    OBVIOUS
  <2>4. IsFiniteSet(H) /\ Cardinality(H) \in Nat /\ Cardinality(H) <= mishaps /\ mishaps \in Nat
    BY <2>1, <2>2, HolesAreFinite DEF SinkInv, HolesAreMishaps, SinkTypeOK
  <2>5. G = {j \in 0..i - 1 : logs'[j] = <<>> /\ j # k - 1}
    BY <1>2, <2>3 DEF HolesBelow
  <2>6. H = {j \in 0..From(k, i) - 1 : logs[j] = <<>> /\ j # k}
    BY <2>2 DEF HolesBelow
  <2>7. \A j \in 0..i - 1 : j \in R
    BY <1>0
  <2>8. CASE i <= k
    <3>1. \A j : j \in 0..From(k, i) - 1 <=> j \in 0..i - 1 /\ j # k - 1
      BY <1>0, <2>1, <2>8 DEF From
    <3>2. \A j \in 0..i - 1 : j # k
      BY <1>0, <2>8
    <3>3. G = H
      BY <1>1, <2>5, <2>6, <2>7, <3>1, <3>2
    <3> QED BY <2>3, <2>4, <3>3
  <2>9. CASE i > k
    <3>1. H = {j \in 0..i - 1 : logs[j] = <<>> /\ j # k} /\ k \in 0..i - 1 /\ k - 1 \in 0..i - 1
          /\ k # k - 1
      BY <1>0, <2>6, <2>9 DEF From
    <3>2. CASE logs[k - 1] = <<>>
      <4>1. G = (H \ {k - 1}) \cup {k} /\ k - 1 \in H /\ k \notin H \ {k - 1}
        BY <1>1, <2>5, <2>7, <3>1, <3>2
      <4>2. IsFiniteSet(H \ {k - 1}) /\ Cardinality(H \ {k - 1}) = Cardinality(H) - 1
        BY <2>4, <4>1, FS_RemoveElement
      <4>3. Cardinality(G) = Cardinality(H \ {k - 1}) + 1
        BY <4>1, <4>2, FS_AddElement
      <4> QED BY <2>3, <2>4, <4>2, <4>3
    <3>3. CASE logs[k - 1] # <<>>
      <4>1. G = H
        BY <1>1, <2>5, <2>7, <3>1, <3>3
      <4> QED BY <2>3, <2>4, <4>1
    <3> QED BY <3>2, <3>3
  <2> QED BY <1>0, <2>8, <2>9
<1>13. HolesAreMishaps'
  BY <1>2, <1>12 DEF HolesAreMishaps
<1>14. EnoughRecords'
  <2>1. \A j \in 0..Rotations - 1 : \A m \in DOMAIN logs[j] : logs[j][m] \in LogRecords'
    <3> SUFFICES ASSUME NEW j \in 0..Rotations - 1, NEW m \in DOMAIN logs[j]
                 PROVE  logs[j][m] \in LogRecords'
      OBVIOUS
    <3>1. j # k /\ j \in R
      BY <1>0, <1>8
    <3> QED BY <1>7, <3>1
  <2>2. /\ Cardinality(LogRecords') \in Nat
        /\ \/ Cardinality(LogRecords') >= attempt - mishaps - 1
           \/ Cardinality(LogRecords') >= (Rotations - mishaps) * MaximumBytes
    BY <1>6, <1>9, <2>1, GivingUpOldest
  <2>3. PICK p : p = (Rotations - mishaps) * MaximumBytes
    OBVIOUS
  <2>4. p \in Int
    BY <2>3 DEF SinkInv, SinkTypeOK
  <2>5. p + 0 = p /\ rotation' # Idle
    BY <1>0, <1>2, <2>4 DEF Idle
  <2> QED BY <1>2, <2>2, <2>3, <2>5 DEF EnoughRecords
<1> QED BY <1>3, <1>5, <1>10, <1>11, <1>13, <1>14 DEF SinkInv

LEMMA RenameFailsKeeps == ASSUME SinkInv, RenameFails PROVE SinkInv'
<1> USE SinkConstants
<1> PICK k \in 1..Rotations : k = rotation
  BY DEF RenameFails
<1> PICK R : R = 0..Rotations
  OBVIOUS
<1>0. /\ k \in Int /\ 1 <= k /\ k <= Rotations /\ k \in R
      /\ \A i \in R : i \in Int /\ 0 <= i /\ i <= Rotations
      /\ \A i \in Int : 0 <= i /\ i <= Rotations => i \in R
  OBVIOUS
<1>1. /\ logs \in [R -> Seq(Nat)] /\ logs' \in [R -> Seq(Nat)]
      /\ logs'[k] = <<>> /\ DOMAIN logs'[k] = {}
      /\ \A i \in R : i # k => logs'[i] = logs[i]
  <2>1. logs \in [R -> Seq(Nat)]
    BY DEF SinkInv, SinkTypeOK
  <2>2. logs' = [logs EXCEPT ![k] = <<>>]
    BY DEF RenameFails
  <2>3. <<>> \in Seq(Nat) /\ DOMAIN <<>> = {}
    OBVIOUS
  <2> QED BY <1>0, <2>1, <2>2, <2>3
<1>2. /\ lastWritten' = lastWritten /\ attempt' = attempt /\ mishaps' = mishaps + 1
      /\ rotation' = Idle /\ mishaps \in Nat
  BY DEF RenameFails, SinkInv, SinkTypeOK
<1>3. SinkTypeOK'
  BY <1>1, <1>2 DEF SinkInv, SinkTypeOK, Idle
<1>4. LogInOrder'
  <2> SUFFICES ASSUME NEW i \in R, NEW j \in R,
                      NEW m \in DOMAIN logs'[i], NEW n \in DOMAIN logs'[j],
                      i > j \/ (i = j /\ m < n)
               PROVE  logs'[i][m] < logs'[j][n]
    BY DEF LogInOrder
  <2>1. logs'[i] = logs[i] /\ logs'[j] = logs[j]
    BY <1>1
  <2>2. m \in DOMAIN logs[i] /\ n \in DOMAIN logs[j]
    BY <2>1
  <2>3. logs[i][m] < logs[j][n]
    BY <2>2 DEF SinkInv, LogInOrder
  <2> QED BY <2>1, <2>3
<1>5. LogRecords' \subseteq LogRecords
  <2> SUFFICES ASSUME NEW r \in LogRecords' PROVE r \in LogRecords
    OBVIOUS
  <2>1. PICK i \in R : \E m \in DOMAIN logs'[i] : logs'[i][m] = r
    BY HeldRecordNext
  <2>2. logs'[i] = logs[i]
    BY <1>1, <2>1
  <2> QED BY <2>1, <2>2, HeldRecord
<1>6. ASSUME NEW j \in R, j # k, NEW m \in DOMAIN logs[j]
      PROVE  logs[j][m] \in LogRecords'
  BY <1>1, <1>6, HeldRecordNext
<1>7. k # Rotations => logs[k] = <<>>
  BY <1>0 DEF SinkInv, RotatedAreFull
<1>8. LogRecords' # LogRecords => rotation = Rotations /\ logs[Rotations] # <<>>
  <2> SUFFICES ASSUME NEW r \in LogRecords, r \notin LogRecords'
               PROVE  rotation = Rotations /\ logs[Rotations] # <<>>
    BY <1>5
  <2>1. PICK i \in R : \E m \in DOMAIN logs[i] : logs[i][m] = r
    BY HeldRecord
  <2>2. i = k /\ logs[i] # <<>>
    BY <1>6, <2>1
  <2> QED BY <1>7, <2>2
<1>9. NewestIsHeld'
  <2>1. lastWritten # 0 => lastWritten \in LogRecords'
    <3> SUFFICES ASSUME lastWritten # 0 PROVE lastWritten \in LogRecords'
      OBVIOUS
    <3>1. PICK i \in R : \E m \in DOMAIN logs[i] : logs[i][m] = lastWritten
      BY HeldRecord DEF SinkInv, NewestIsHeld
    <3>2. i # k
      BY <3>1, NewestIsNotGivenUp
    <3> QED BY <1>6, <3>1, <3>2
  <2>2. LogRecords' \subseteq 1..lastWritten /\ lastWritten <= attempt
    BY <1>5 DEF SinkInv, NewestIsHeld
  <2> QED BY <1>2, <2>1, <2>2 DEF NewestIsHeld
<1>10. RotatedAreFull'
  <2>1. Len(logs'[0]) = Len(logs[0]) /\ Len(logs[0]) <= MaximumBytes
    BY <1>0, <1>1 DEF SinkInv, RotatedAreFull
  <2>2. \A i \in 1..Rotations : logs'[i] = <<>> \/ Len(logs'[i]) = MaximumBytes
    <3> SUFFICES ASSUME NEW i \in 1..Rotations, i # k
                 PROVE  logs'[i] = <<>> \/ Len(logs'[i]) = MaximumBytes
      BY <1>1
    <3>1. logs'[i] = logs[i]
      BY <1>1
    <3> QED BY <3>1 DEF SinkInv, RotatedAreFull
  <2> QED BY <1>2, <2>1, <2>2 DEF RotatedAreFull, Appending, Idle
<1>11. ASSUME NEW i \in R, logs'[i] # <<>>
       PROVE  Cardinality(HolesBelow(i)') <= mishaps + 1
  <2>1. logs[i] # <<>>
    BY <1>1, <1>11
  <2>2. PICK H : H = HolesBelow(i)
    OBVIOUS
  <2>3. PICK G : G = HolesBelow(i)'
    OBVIOUS
  <2>4. IsFiniteSet(H) /\ Cardinality(H) \in Nat /\ Cardinality(H) <= mishaps
    BY <2>1, <2>2, HolesAreFinite DEF SinkInv, HolesAreMishaps
  <2>5. G \subseteq H \cup {k}
    <3>1. G = {j \in 0..i - 1 : logs'[j] = <<>> /\ j # Idle}
      BY <1>2, <2>3 DEF HolesBelow
    <3>2. H = {j \in 0..i - 1 : logs[j] = <<>> /\ j # k}
      BY <2>2 DEF HolesBelow
    <3>3. \A j \in 0..i - 1 : j \in R
      BY <1>0
    <3> QED BY <1>1, <3>1, <3>2, <3>3
  <2>6. IsFiniteSet(H \cup {k}) /\ Cardinality(H \cup {k}) <= Cardinality(H) + 1
    BY <2>4, OneMoreElement
  <2>7. Cardinality(H \cup {k}) \in Nat /\ Cardinality(G) <= Cardinality(H \cup {k})
        /\ Cardinality(G) \in Nat
    BY <2>5, <2>6, FS_Subset, FS_CardinalityType
  <2> QED BY <1>2, <2>3, <2>4, <2>6, <2>7
<1>12. HolesAreMishaps'
  BY <1>2, <1>11 DEF HolesAreMishaps
<1>13. EnoughRecords'
  <2>1. \A j \in 0..Rotations - 1 : \A m \in DOMAIN logs[j] : logs[j][m] \in LogRecords'
    <3> SUFFICES ASSUME NEW j \in 0..Rotations - 1, NEW m \in DOMAIN logs[j]
                 PROVE  logs[j][m] \in LogRecords'
      OBVIOUS
    <3>1. j # k /\ j \in R
      BY <1>0, <1>7
    <3> QED BY <1>6, <3>1
  <2>2. /\ Cardinality(LogRecords') \in Nat
        /\ \/ Cardinality(LogRecords') >= attempt - mishaps - 1
           \/ Cardinality(LogRecords') >= (Rotations - mishaps) * MaximumBytes
    BY <1>5, <1>8, <2>1, GivingUpOldest
  <2> QED BY <1>2, <2>2, OneMishapMore DEF SinkInv, SinkTypeOK
<1> QED BY <1>3, <1>4, <1>9, <1>10, <1>12, <1>13 DEF SinkInv

LEMMA WriteEndsKeeps == ASSUME SinkInv, WriteEnds PROVE SinkInv'
<1> USE SinkConstants
<1>1. /\ logs' = logs /\ lastWritten' = lastWritten /\ attempt' = attempt
      /\ mishaps' = mishaps + 1 /\ rotation' = Idle /\ rotation # Idle
  BY DEF WriteEnds
<1>2. /\ logs \in [0..Rotations -> Seq(Nat)] /\ rotation \in 0..Rotations
      /\ lastWritten \in Nat /\ attempt \in Nat /\ mishaps \in Nat
  BY <1>1 DEF SinkInv, SinkTypeOK, Idle
<1>3. SinkTypeOK'
  BY <1>1, <1>2 DEF SinkTypeOK, Idle
<1>4. LogInOrder'
  BY <1>1 DEF SinkInv, LogInOrder
<1>5. LogRecords' = LogRecords
  BY <1>1 DEF LogRecords
<1>6. NewestIsHeld'
  BY <1>1, <1>5 DEF SinkInv, NewestIsHeld
<1>7. RotatedAreFull'
  BY <1>1 DEF SinkInv, RotatedAreFull, Appending, Idle
<1>8. ASSUME NEW i \in 0..Rotations, logs[i] # <<>>
      PROVE  Cardinality(HolesBelow(i)') <= mishaps + 1
  <2>1. PICK H : H = HolesBelow(i)
    OBVIOUS
  <2>2. PICK G : G = HolesBelow(i)'
    OBVIOUS
  <2>3. IsFiniteSet(H) /\ Cardinality(H) \in Nat /\ Cardinality(H) <= mishaps
    BY <1>8, <2>1, HolesAreFinite DEF SinkInv, HolesAreMishaps
  <2>4. G \subseteq H \cup {rotation}
    BY <1>1, <2>1, <2>2 DEF HolesBelow
  <2>5. IsFiniteSet(H \cup {rotation}) /\ Cardinality(H \cup {rotation}) <= Cardinality(H) + 1
    BY <2>3, OneMoreElement
  <2>6. /\ Cardinality(H \cup {rotation}) \in Nat /\ Cardinality(G) \in Nat
        /\ Cardinality(G) <= Cardinality(H \cup {rotation})
    BY <2>4, <2>5, FS_Subset, FS_CardinalityType
  <2> QED BY <1>2, <2>2, <2>3, <2>5, <2>6
<1>9. HolesAreMishaps'
  BY <1>1, <1>8 DEF HolesAreMishaps
<1>10. EnoughRecords'
  <2>1. PICK p \in Int : p = (Rotations - mishaps) * MaximumBytes
    BY <1>2
  <2>2. \/ Cardinality(LogRecords) >= attempt - mishaps - 1
        \/ Cardinality(LogRecords) >= p + 0
    BY <1>1, <2>1 DEF SinkInv, EnoughRecords
  <2>3. Cardinality(LogRecords) \in Nat
    BY RecordsAreFinite
  <2>4. \/ Cardinality(LogRecords) >= attempt - mishaps - 1
        \/ Cardinality(LogRecords) >= (Rotations - mishaps) * MaximumBytes
    BY <2>1, <2>2, <2>3
  <2>5. /\ Cardinality(LogRecords') \in Nat
        /\ \/ Cardinality(LogRecords') >= attempt - mishaps - 1
           \/ Cardinality(LogRecords') >= (Rotations - mishaps) * MaximumBytes
    BY <1>5, <2>3, <2>4
  <2>6. SinkTypeOK
    BY DEF SinkInv
  <2> QED BY <1>1, <2>5, <2>6, OneMishapMore
<1> QED BY <1>3, <1>4, <1>6, <1>7, <1>9, <1>10 DEF SinkInv

LEMMA AppendKeeps == ASSUME SinkInv, AppendRecord PROVE SinkInv'
<1> USE SinkConstants
<1>1. /\ lastWritten' = attempt /\ attempt' = attempt /\ mishaps' = mishaps
      /\ rotation' = Idle /\ rotation = 0 /\ rotation # Idle
  BY DEF AppendRecord, Appending, Idle
<1>2. /\ logs \in [0..Rotations -> Seq(Nat)] /\ lastWritten \in Nat
      /\ attempt \in Nat /\ mishaps \in Nat /\ 0 \in 0..Rotations
  BY DEF SinkInv, SinkTypeOK
<1>3. PICK s \in Seq(Nat) : s = logs[0]
  BY <1>2
<1>4. logs' = [logs EXCEPT ![0] = Append(s, attempt)]
  BY <1>3 DEF AppendRecord
<1>5n. attempt \in Nat
  BY <1>2
<1>5s. Append(s, attempt) \in Seq(Nat)
  BY <1>5n
<1>5t. PICK t \in Seq(Nat) : t = Append(s, attempt)
  BY <1>5s, Zenon
<1>5l. Len(t) = Len(s) + 1 /\ Len(s) \in Nat /\ DOMAIN s = 1..Len(s) /\ DOMAIN t = 1..Len(t)
  BY <1>2, <1>5t
<1>5. /\ t = Append(s, attempt) /\ Len(t) = Len(s) + 1 /\ t # <<>>
      /\ t[Len(t)] = attempt
      /\ \A k \in DOMAIN s : t[k] = s[k]
      /\ DOMAIN t = DOMAIN s \cup {Len(t)} /\ Len(s) \in Nat
      /\ DOMAIN s = 1..Len(s)
  <2>1. DOMAIN t = DOMAIN s \cup {Len(t)}
    BY <1>5l
  <2>2. t[Len(t)] = attempt /\ \A k \in DOMAIN s : t[k] = s[k]
    BY <1>2, <1>5t, <1>5l
  <2>3. t # <<>>
    BY <1>5l
  <2> QED BY <1>5t, <1>5l, <2>1, <2>2, <2>3
<1>6. /\ logs' \in [0..Rotations -> Seq(Nat)] /\ logs'[0] = t
      /\ \A i \in 0..Rotations : i # 0 => logs'[i] = logs[i]
  BY <1>2, <1>4, <1>5
<1>7. SinkTypeOK'
  BY <1>1, <1>2, <1>6 DEF SinkTypeOK, Idle
<1>8. \A r \in LogRecords : r \in Nat /\ r < attempt
  BY <1>1, <1>2 DEF SinkInv, NewestIsHeld
<1>9. \A i \in 0..Rotations : \A m \in DOMAIN logs'[i] :
        \/ i = 0 /\ m = Len(t) /\ logs'[i][m] = attempt
        \/ m \in DOMAIN logs[i] /\ logs'[i][m] = logs[i][m] /\ (i = 0 => m < Len(t))
  <2> SUFFICES ASSUME NEW i \in 0..Rotations, NEW m \in DOMAIN logs'[i]
               PROVE  \/ i = 0 /\ m = Len(t) /\ logs'[i][m] = attempt
                      \/ m \in DOMAIN logs[i] /\ logs'[i][m] = logs[i][m] /\ (i = 0 => m < Len(t))
    OBVIOUS
  <2>1. CASE i = 0
    <3>1. m \in DOMAIN t /\ logs'[i][m] = t[m]
      BY <1>6, <2>1
    <3>2. CASE m = Len(t)
      BY <1>5, <2>1, <3>1, <3>2
    <3>3. CASE m \in DOMAIN s
      <4>1. t[m] = s[m] /\ m < Len(t)
        BY <1>5, <3>3
      <4> QED BY <1>3, <2>1, <3>1, <3>3, <4>1
    <3> QED BY <1>5, <3>1, <3>2, <3>3
  <2>2. CASE i # 0
    BY <1>6, <2>2
  <2> QED BY <2>1, <2>2
<1>10. LogInOrder'
  <2> SUFFICES ASSUME NEW i \in 0..Rotations, NEW j \in 0..Rotations,
                      NEW m \in DOMAIN logs'[i], NEW n \in DOMAIN logs'[j],
                      i > j \/ (i = j /\ m < n)
               PROVE  logs'[i][m] < logs'[j][n]
    BY DEF LogInOrder
  <2>1. m \in DOMAIN logs[i] /\ logs'[i][m] = logs[i][m]
    <3>1. CASE i = 0 /\ m = Len(t)
      <4>1. j = 0 /\ m < n /\ n \in DOMAIN t
        BY <1>6, <3>1
      <4>2. n \in 1..Len(s) + 1 /\ m = Len(s) + 1
        BY <1>5, <3>1, <4>1
      <4> QED BY <1>5, <4>1, <4>2
    <3> QED BY <1>9, <3>1
  <2>2. logs[i][m] < attempt
    BY <1>8, <2>1, HeldRecord
  <2>3. CASE j = 0 /\ n = Len(t) /\ logs'[j][n] = attempt
    BY <2>1, <2>2, <2>3
  <2>4. CASE n \in DOMAIN logs[j] /\ logs'[j][n] = logs[j][n]
    BY <2>1, <2>4 DEF SinkInv, LogInOrder
  <2> QED BY <1>9, <2>3, <2>4
<1>11. LogRecords' = LogRecords \cup {attempt}
  <2>1. ASSUME NEW r \in LogRecords' PROVE r \in LogRecords \cup {attempt}
    <3>1. PICK i \in 0..Rotations : \E m \in DOMAIN logs'[i] : logs'[i][m] = r
      BY HeldRecordNext
    <3>2. PICK m \in DOMAIN logs'[i] : logs'[i][m] = r
      BY <3>1
    <3> QED BY <1>9, <3>2, HeldRecord
  <2>2. ASSUME NEW r \in LogRecords PROVE r \in LogRecords'
    <3>1. PICK i \in 0..Rotations : \E m \in DOMAIN logs[i] : logs[i][m] = r
      BY HeldRecord
    <3>2. \E m \in DOMAIN logs'[i] : logs'[i][m] = r
      BY <1>3, <1>5, <1>6, <3>1
    <3> QED BY <3>2, HeldRecordNext
  <2>3. Len(t) \in DOMAIN logs'[0] /\ logs'[0][Len(t)] = attempt
    BY <1>5, <1>6
  <2>4. attempt \in LogRecords'
    BY <1>2, <2>3, HeldRecordNext
  <2> QED BY <2>1, <2>2, <2>4
<1>12. attempt \notin LogRecords /\ attempt >= 1
  BY <1>1, <1>2, <1>8 DEF SinkInv, NewestIsHeld
<1>13. NewestIsHeld'
  <2>1. LogRecords \subseteq 1..attempt
    BY <1>1, <1>2 DEF SinkInv, NewestIsHeld
  <2>2. LogRecords' \subseteq 1..attempt /\ attempt \in LogRecords' /\ attempt <= attempt
    BY <1>2, <1>11, <1>12, <2>1
  <2> QED BY <1>1, <2>2 DEF NewestIsHeld
<1>14. RotatedAreFull'
  <2>1. Len(s) < MaximumBytes
    BY <1>1, <1>3 DEF SinkInv, RotatedAreFull, Appending
  <2>2. Len(logs'[0]) <= MaximumBytes
    BY <1>5, <1>6, <2>1
  <2>3. \A i \in 1..Rotations : logs'[i] = <<>> \/ Len(logs'[i]) = MaximumBytes
    <3>1. \A i \in 1..Rotations : logs'[i] = logs[i]
      BY <1>6
    <3> QED BY <3>1 DEF SinkInv, RotatedAreFull
  <2> QED BY <1>1, <2>2, <2>3 DEF RotatedAreFull, Appending, Idle
<1>15. ASSUME NEW i \in 0..Rotations, logs'[i] # <<>>
       PROVE  Cardinality(HolesBelow(i)') <= mishaps
  <2>1. PICK G : G = HolesBelow(i)'
    OBVIOUS
  <2>2. CASE i = 0
    <3>1. G = {}
      BY <2>1, <2>2 DEF HolesBelow
    <3> QED BY <1>2, <2>1, <3>1, FS_EmptySet
  <2>3. CASE i # 0
    <3>1. PICK H : H = HolesBelow(i)
      OBVIOUS
    <3>2. logs[i] # <<>>
      BY <1>6, <1>15, <2>3
    <3>3. IsFiniteSet(H) /\ Cardinality(H) \in Nat /\ Cardinality(H) <= mishaps
      BY <3>1, <3>2, HolesAreFinite DEF SinkInv, HolesAreMishaps
    <3>4. G \subseteq H
      <4>1. G = {j \in 0..i - 1 : logs'[j] = <<>> /\ j # Idle}
        BY <1>1, <2>1 DEF HolesBelow, Idle
      <4>2. H = {j \in 0..i - 1 : logs[j] = <<>> /\ j # 0}
        BY <1>1, <3>1 DEF HolesBelow
      <4>3. \A j \in 0..i - 1 : j \in 0..Rotations
        OBVIOUS
      <4> QED BY <1>5, <1>6, <4>1, <4>2, <4>3
    <3>5. Cardinality(G) <= Cardinality(H) /\ Cardinality(G) \in Nat
      BY <3>3, <3>4, FS_Subset, FS_CardinalityType
    <3> QED BY <1>2, <2>1, <3>3, <3>5
  <2> QED BY <2>2, <2>3
<1>16. HolesAreMishaps'
  BY <1>1, <1>15 DEF HolesAreMishaps
<1>17. EnoughRecords'
  <2>1. IsFiniteSet(LogRecords) /\ Cardinality(LogRecords) \in Nat
    BY RecordsAreFinite
  <2>2. Cardinality(LogRecords \cup {attempt}) = Cardinality(LogRecords) + 1
    BY <1>12, <2>1, FS_AddElement
  <2>3. PICK p \in Int : p = (Rotations - mishaps) * MaximumBytes
    BY <1>2
  <2>4. \/ Cardinality(LogRecords) >= attempt - mishaps - 1
        \/ Cardinality(LogRecords) >= p + 0
    BY <1>1, <2>3 DEF SinkInv, EnoughRecords
  <2>5. \/ Cardinality(LogRecords \cup {attempt}) >= attempt - mishaps - 0
        \/ Cardinality(LogRecords \cup {attempt}) >= p + 1
    BY <1>2, <2>1, <2>2, <2>4
  <2> QED BY <1>1, <1>11, <2>3, <2>5 DEF EnoughRecords
<1> QED BY <1>7, <1>10, <1>13, <1>14, <1>16, <1>17 DEF SinkInv

LEMMA SinkInvariance == SinkInv /\ [SinkNext]_sinkVars => SinkInv'
<1> SUFFICES ASSUME SinkInv, [SinkNext]_sinkVars PROVE SinkInv'
  OBVIOUS
<1>1. CASE UNCHANGED sinkVars
  BY <1>1 DEF sinkVars, SinkInv, SinkTypeOK, LogInOrder, NewestIsHeld, RotatedAreFull,
              HolesAreMishaps, HolesBelow, EnoughRecords, LogRecords
<1> QED BY <1>1, BeginWriteKeeps, RotateKeeps, RenameFailsKeeps, AppendKeeps, WriteEndsKeeps
        DEF SinkNext

(* Wherever a rotation fails or is broken off, the log stays in order with  *)
(* the newest record in it, no file exceeds the bound, and each mishap      *)
(* costs no more than its record or one of the older files.                 *)
THEOREM NewestRecordsAreKept == SinkSpec => []LogKeepsNewest
<1>1. SinkInv => LogKeepsNewest
  <2> SUFFICES ASSUME SinkInv PROVE LogKeepsNewest
    OBVIOUS
  <2> USE SinkConstants
  <2>1. LogInOrder
    BY DEF SinkInv
  <2>2. lastWritten # 0 => lastWritten \in LogRecords /\ \A r \in LogRecords : r <= lastWritten
    BY DEF SinkInv, NewestIsHeld, SinkTypeOK
  <2>3. \A i \in 0..Rotations : Len(logs[i]) <= MaximumBytes
    BY DEF SinkInv, SinkTypeOK, RotatedAreFull
  <2>4. ASSUME rotation = Idle
        PROVE  Cardinality(LogRecords)
                 >= Min({attempt - mishaps, (Rotations - mishaps) * MaximumBytes + 1})
    <3>1. PICK p \in Int : p = (Rotations - mishaps) * MaximumBytes
      BY DEF SinkInv, SinkTypeOK
    <3>2. PICK q \in Int : q = attempt - mishaps
      BY DEF SinkInv, SinkTypeOK
    <3>3. Cardinality(LogRecords) >= q - 0 \/ Cardinality(LogRecords) >= p + 1
      BY <2>4, <3>1, <3>2 DEF SinkInv, EnoughRecords
    <3>4. p + 1 \in Int /\ Min({q, p + 1}) = IF q <= p + 1 THEN q ELSE p + 1
      BY TwoMinimum
    <3>5. Cardinality(LogRecords) \in Nat
      BY RecordsAreFinite
    <3>6. Cardinality(LogRecords) >= Min({q, p + 1})
      BY <3>3, <3>4, <3>5
    <3> QED BY <3>1, <3>2, <3>6
  <2> QED BY <2>1, <2>2, <2>3, <2>4 DEF LogKeepsNewest
<1> QED BY <1>1, SinkInitially, SinkInvariance, PTL DEF SinkSpec
=============================================================================
