---------------------------- MODULE TextHistory ----------------------------
(***************************************************************************)
(* mwfl::TextHistory: the texts an editor has held, the one it holds, and   *)
(* the one that was saved.  A history is a record [entries, current, saved];*)
(* positions count from 1 and saved = 0 says that no entry is the saved one.*)
(***************************************************************************)
EXTENDS Integers, Sequences

CONSTANTS
  Text,
  MaximumEntries  \* maximum_entries

ASSUME TextHistoryAssumption == MaximumEntries \in Nat /\ MaximumEntries >= 2

History == [entries : Seq(Text), current : Nat, saved : Nat]

TextHistoryOK(h) ==
  /\ h \in History
  /\ h.current \in 1..Len(h.entries)
  /\ h.saved \in 0..Len(h.entries)
  /\ Len(h.entries) <= MaximumEntries

Current(h) == h.entries[h.current]

(* Reset, with mark_saved.                                                  *)
NewHistory(text) == [entries |-> <<text>>, current |-> 1, saved |-> 1]

(* TrimToCapacity: the oldest entries go, and the saved one with them.      *)
Trimmed(h) ==
  LET drop == IF Len(h.entries) > MaximumEntries THEN Len(h.entries) - MaximumEntries ELSE 0
  IN  [entries |-> SubSeq(h.entries, drop + 1, Len(h.entries)),
       current |-> h.current - drop,
       saved   |-> IF h.saved <= drop THEN 0 ELSE h.saved - drop]

(* Seeded fault: the saved position survives the entries behind it.         *)
RecordedKeepingSaved(h, text) ==
  IF text = Current(h) THEN h
  ELSE Trimmed([entries |-> Append(SubSeq(h.entries, 1, h.current), text),
                current |-> h.current + 1,
                saved   |-> h.saved])

(* Record: a new text ends the entries that could be redone.                *)
Recorded(h, text) ==
  IF text = Current(h) THEN h
  ELSE Trimmed([entries |-> Append(SubSeq(h.entries, 1, h.current), text),
                current |-> h.current + 1,
                saved   |-> IF h.saved > h.current THEN 0 ELSE h.saved])

CanUndo(h) == h.current > 1
CanRedo(h) == h.current < Len(h.entries)
Undone(h) == [h EXCEPT !.current = @ - 1]
Redone(h) == [h EXCEPT !.current = @ + 1]
MarkedSaved(h) == [h EXCEPT !.saved = h.current]
IsModified(h) == h.saved # h.current
=============================================================================
