----------------------------- MODULE MCDocuments -----------------------------
(***************************************************************************)
(* The models of documents that an application keeps, one per behaviour:    *)
(*   workspace  at most three documents over two files, one of which has    *)
(*              two spellings, and a history of at most two entries         *)
(*   notepad    the Notepad application, two texts and two files, of which *)
(*              one exists at first                                         *)
(*   mdi        three children and two models, one with a native host       *)
(***************************************************************************)
EXTENDS DocumentWorkspace, Notepad, MdiHost

CONSTANTS
  d1, d2, d3, readme, README, notes, p, q

MCDocumentId == {d1, d2, d3}
MCPath == {readme, README, notes}
MCCanonical == [f \in MCPath |-> IF f = README THEN readme ELSE f]

MCAddable == WorkspaceDocument

MCFile == {p, q}

Entry(id, f) == [id |-> id, path |-> f, dirty |-> FALSE]

(* Restorable histories: within the bound, with a clash of files, with a    *)
(* clash of identifiers past the bound and with one within it.              *)
MCRestorableHistory ==
  UNION { { <<Entry(a, notes), Entry(b, readme)>>,
           <<Entry(a, readme), Entry(b, README)>>,
           <<Entry(a, NoPath), Entry(b, README), Entry(a, notes)>>,
           <<Entry(a, NoPath), Entry(b, README), Entry(b, NoPath)>> }
         : a \in MCDocumentId, b \in MCDocumentId }

Symmetry == Permutations(MCDocumentId)

VARIABLE focus

documentsVars == <<focus, vars, notepadVars, mdiVars>>

DocumentsInit ==
  /\ focus \in {"workspace", "notepad", "mdi"}
  /\ Init /\ MdiInit
  /\ NotepadInit /\ disk[p].stamp = 1 /\ disk[q].stamp = 0

DocumentsNext ==
  \/ focus = "workspace" /\ Next /\ UNCHANGED <<focus, notepadVars, mdiVars>>
  \/ focus = "notepad" /\ NotepadNext /\ UNCHANGED <<focus, vars, mdiVars>>
  \/ focus = "mdi" /\ MdiNext /\ UNCHANGED <<focus, vars, notepadVars>>

DocumentsSpec == DocumentsInit /\ [][DocumentsNext]_documentsVars
=============================================================================
