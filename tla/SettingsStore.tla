---------------------------- MODULE SettingsStore ----------------------------
(***************************************************************************)
(* mwfl::VersionedSettingsStore: named values under one registry key, with  *)
(* the value SchemaVersion as commit marker.  Each registry call of Save,   *)
(* RemoveOwned and Load is a step.  A call that fails ends the operation    *)
(* there, as a crash does.  Two schema versions of the program may use the  *)
(* key, one operation at a time.                                            *)
(*                                                                          *)
(* A value is the number of the Save that wrote it; types, sizes and        *)
(* malformed data are left out.  Save and RemoveOwned are given any of the  *)
(* names, and leave the values of the others; Load's schema has them all.   *)
(***************************************************************************)
EXTENDS Integers

CONSTANTS
  Setting,     \* names of values
  Required,    \* those the schema requires
  Version,     \* schema versions of the programs that use the key
  NoVersion,   \* there is no SchemaVersion
  MaxSaves     \* bound on the number of Saves

ASSUME SettingsAssumption ==
  /\ Required \subseteq Setting /\ NoVersion \notin Version /\ MaxSaves \in Nat

VARIABLES
  marker,     \* SchemaVersion
  values,     \* the values: the Save that wrote them, 0 when missing
  saves,      \* Saves begun
  supplied,   \* the names given to the last of them
  last,       \* the last Save that returned success
  operation,  \* the operation under way
  version,    \* the schema version of the store that runs it
  todo,       \* names it has still to write, delete or read
  loaded      \* what Load has read so far, or last returned

storeVars ==
  <<marker, values, saves, supplied, last, operation, version, todo, loaded>>

Save == 0..MaxSaves
Missing == 0
Loaded == [Setting -> Save]
Completed == [version : Version \cup {NoVersion}, save : Save, names : SUBSET Setting]

StoreTypeOK ==
  /\ marker \in Version \cup {NoVersion}
  /\ values \in Loaded
  /\ saves \in Save
  /\ supplied \subseteq Setting
  /\ last \in Completed
  /\ operation \in {"none", "save", "remove", "load"}
  /\ version \in Version \cup (IF operation = "none" THEN {NoVersion} ELSE {})
  /\ todo \subseteq Setting
  /\ loaded \in Loaded

Nothing == [n \in Setting |-> Missing]

StoreInit ==
  /\ marker = NoVersion /\ values = Nothing
  /\ saves = 0 /\ supplied = {}
  /\ last = [version |-> NoVersion, save |-> 0, names |-> {}]
  /\ operation = "none" /\ version = NoVersion /\ todo = {}
  /\ loaded = Nothing

Start(op, v, names) ==
  /\ operation = "none"
  /\ operation' = op /\ version' = v
  /\ todo' = names

(* What a step of an operation under way leaves alone.                      *)
Going(op) ==
  /\ operation = op
  /\ UNCHANGED <<version, saves, supplied>>

End == operation' = "none" /\ todo' = {}

(* Any registry call may fail, and the program may crash before it.         *)
Stops ==
  /\ operation # "none"
  /\ End
  /\ loaded' = Nothing
  /\ UNCHANGED <<marker, values, saves, supplied, last, version>>

-----------------------------------------------------------------------------
(* Seeded fault: the old marker stays while the values are written.         *)
StartSaveUnderMarker(v, names) ==
  /\ Start("save", v, names)
  /\ saves < MaxSaves /\ saves' = saves + 1
  /\ supplied' = names
  /\ UNCHANGED <<marker, values, last, loaded>>

StartSave(v, names) ==
  /\ Start("save", v, names)
  /\ saves < MaxSaves /\ saves' = saves + 1
  /\ supplied' = names
  /\ marker' = NoVersion
  /\ UNCHANGED <<values, last, loaded>>

WriteValue ==
  /\ Going("save")
  /\ \E n \in todo : /\ values' = [values EXCEPT ![n] = saves]
                     /\ todo' = todo \ {n}
  /\ UNCHANGED <<marker, last, operation, loaded>>

WriteMarker ==
  /\ Going("save") /\ todo = {}
  /\ marker' = version
  /\ last' = [version |-> version, save |-> saves, names |-> supplied]
  /\ End
  /\ UNCHANGED <<values, loaded>>

-----------------------------------------------------------------------------
StartRemoveOwned(v, names) ==
  /\ Start("remove", v, names)
  /\ UNCHANGED <<marker, values, saves, supplied, last, loaded>>

DeleteValue ==
  /\ Going("remove")
  /\ \E n \in todo : /\ values' = [values EXCEPT ![n] = Missing]
                     /\ todo' = todo \ {n}
  /\ UNCHANGED <<marker, last, operation, loaded>>

DeleteMarker ==
  /\ Going("remove") /\ todo = {}
  /\ marker' = NoVersion
  /\ End
  /\ UNCHANGED <<values, last, loaded>>

-----------------------------------------------------------------------------
StartLoad(v) ==
  /\ Start("load", v, Setting)
  /\ marker = v
  /\ loaded' = Nothing
  /\ UNCHANGED <<marker, values, saves, supplied, last>>

(* A required value that is missing makes Load fail: Stops.                 *)
ReadValue ==
  /\ Going("load")
  /\ \E n \in todo : /\ n \in Required => values[n] # Missing
                     /\ loaded' = [loaded EXCEPT ![n] = values[n]]
                     /\ todo' = todo \ {n}
  /\ UNCHANGED <<marker, values, last, operation>>

Loads ==
  /\ Going("load") /\ todo = {}
  /\ End
  /\ UNCHANGED <<marker, values, last, loaded>>

StoreNext ==
  \/ \E v \in Version, names \in SUBSET Setting :
       StartSave(v, names) \/ StartRemoveOwned(v, names)
  \/ \E v \in Version : StartLoad(v)
  \/ WriteValue \/ WriteMarker
  \/ DeleteValue \/ DeleteMarker
  \/ ReadValue \/ Loads
  \/ Stops

StoreSpec == StoreInit /\ [][StoreNext]_storeVars

-----------------------------------------------------------------------------
(* Properties.                                                              *)

(* The names the last completed Save was given have its values, or were     *)
(* removed since; the others have older ones, which may be of several       *)
(* Saves, some of them never completed.                                     *)
OfLastSave(record) ==
  /\ \A n \in last.names : record[n] \in {last.save, Missing}
  /\ \A n \in Setting \ last.names : record[n] < last.save

(* A Load that succeeds follows a completed Save of its own schema version, *)
(* and returns what the last such Save was given, every value the schema    *)
(* requires, and nothing a later, interrupted Save has written.  If that    *)
(* Save was given every name, all values are its own.                       *)
LoadReturnsLastSave ==
  /\ []StoreTypeOK
  /\ [][Loads => /\ last.version = version
                 /\ OfLastSave(loaded)
                 /\ \A n \in Required : loaded[n] # Missing]_storeVars
=============================================================================
