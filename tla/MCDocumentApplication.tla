----------------------- MODULE MCDocumentApplication -----------------------
(***************************************************************************)
(* The coordinated close of the library, and the program with two windows   *)
(* that closes through it, one per behaviour:                               *)
(*   close        as in MCCoordinatedClose                                  *)
(*   application  identifiers up to ten, and a second file, which is not    *)
(*                there at first                                           *)
(***************************************************************************)
EXTENDS MCCoordinatedClose, DocumentApplication

CONSTANT notes

AllDocumentId == MCDocumentId \cup 1..10
AllPath == MCPath \cup {notes}
AllCanonical == [p \in AllPath |-> p]

VARIABLE focus

ClosingInit ==
  /\ focus \in {"close", "application"}
  /\ CloseInit
  /\ ProgramInit /\ disk = [p \in AllPath |-> IF p = readme THEN 1 ELSE 0]

ClosingNext ==
  \/ focus = "close" /\ CloseNext /\ UNCHANGED <<focus, programVars>>
  \/ focus = "application" /\ ProgramNext /\ UNCHANGED <<focus, allVars>>

ClosingSpec == ClosingInit /\ [][ClosingNext]_<<focus, allVars, programVars>>
=============================================================================
