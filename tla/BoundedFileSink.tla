-------------------------- MODULE BoundedFileSink --------------------------
(***************************************************************************)
(* mwfl::BoundedFileSink: a log file of bounded size and the older files it *)
(* was rotated to.  Write moves one file after the other; any of the moves, *)
(* and the write itself, may fail, and the process may end between any two. *)
(* (The questions the sink asks about its files are answered.)              *)
(***************************************************************************)
EXTENDS Integers, FiniteSets, SequencesExt

CONSTANTS
  Rotations,     \* rotation_count_, at least 1
  MaximumBytes,  \* maximum_bytes_, counted in records of one size
  MaxRecords,    \* bound on the records that are written
  MaxFaults      \* bound on failures and crashes

ASSUME SinkAssumption ==
  /\ {Rotations, MaximumBytes} \subseteq Nat \ {0}
  /\ {MaxRecords, MaxFaults} \subseteq Nat

VARIABLES
  logs,         \* the log and the files path.1 to path.Rotations: the numbers
                \* of the records in each, empty if there is none
  rotation,     \* the file Write replaces next, Appending or Idle
  lastWritten,  \* the last record that was written
  attempt,      \* the record Write was given last
  mishaps

Appending == 0
Idle == -1

sinkVars == <<logs, rotation, lastWritten, attempt, mishaps>>

SinkInit ==
  /\ logs = [i \in 0..Rotations |-> <<>>]
  /\ rotation = Idle
  /\ lastWritten = 0 /\ attempt = 0 /\ mishaps = 0

(* Write compares the size of the log with the bound.                       *)
BeginWrite ==
  /\ rotation = Idle /\ attempt < MaxRecords
  /\ attempt' = attempt + 1
  /\ rotation' = IF Len(logs[0]) + 1 > MaximumBytes THEN Rotations ELSE Appending
  /\ UNCHANGED <<logs, lastWritten, mishaps>>

(* Seeded fault: the newest file is moved first.                            *)
RotateNewestFirst ==
  /\ rotation \in 1..Rotations
  /\ LET to == Rotations + 1 - rotation
     IN  logs' = [logs EXCEPT ![to] = logs[to - 1], ![to - 1] = <<>>]
  /\ rotation' = rotation - 1
  /\ UNCHANGED <<lastWritten, attempt, mishaps>>

(* The oldest of two neighbours is removed and the other takes its place.   *)
Rotate ==
  /\ rotation \in 1..Rotations
  /\ logs' = [logs EXCEPT ![rotation] = logs[rotation - 1], ![rotation - 1] = <<>>]
  /\ rotation' = rotation - 1
  /\ UNCHANGED <<lastWritten, attempt, mishaps>>

(* The older file is gone, the newer stays: Write fails.                    *)
RenameFails ==
  /\ rotation \in 1..Rotations /\ logs[rotation - 1] # <<>> /\ mishaps < MaxFaults
  /\ logs' = [logs EXCEPT ![rotation] = <<>>]
  /\ rotation' = Idle
  /\ mishaps' = mishaps + 1
  /\ UNCHANGED <<lastWritten, attempt>>

AppendRecord ==
  /\ rotation = Appending
  /\ logs' = [logs EXCEPT ![0] = Append(@, attempt)]
  /\ lastWritten' = attempt
  /\ rotation' = Idle
  /\ UNCHANGED <<attempt, mishaps>>

(* The file cannot be opened or written, or the process ends.               *)
WriteEnds ==
  /\ rotation # Idle /\ mishaps < MaxFaults
  /\ rotation' = Idle
  /\ mishaps' = mishaps + 1
  /\ UNCHANGED <<logs, lastWritten, attempt>>

SinkNext == BeginWrite \/ Rotate \/ RenameFails \/ AppendRecord \/ WriteEnds

SinkSpec == SinkInit /\ [][SinkNext]_sinkVars

-----------------------------------------------------------------------------
(* Properties.                                                              *)

(* The records that can be found in the files.                              *)
LogRecords == UNION {ToSet(logs[i]) : i \in 0..Rotations}

(* From the oldest file to the log, each record is newer than those before. *)
LogInOrder ==
  \A i, j \in 0..Rotations : \A k \in DOMAIN logs[i], m \in DOMAIN logs[j] :
    (i > j \/ (i = j /\ k < m)) => logs[i][k] < logs[j][m]

(* Wherever a rotation fails or is broken off, to be begun again by a later *)
(* record: the log is in order, the record that was written last is in it   *)
(* as the newest, no file exceeds the bound, and each mishap costs no more  *)
(* than its own record or one of the files with older ones.                 *)
LogKeepsNewest ==
  /\ LogInOrder
  /\ lastWritten # 0 => lastWritten \in LogRecords /\ \A r \in LogRecords : r <= lastWritten
  /\ \A i \in 0..Rotations : Len(logs[i]) <= MaximumBytes
  /\ rotation = Idle =>
       Cardinality(LogRecords)
         >= Min({attempt - mishaps, (Rotations - mishaps) * MaximumBytes + 1})
=============================================================================
