------------------------- MODULE MCCoordinatedClose -------------------------
(* Two documents over one file and the untitled path, no history to restore *)
EXTENDS CoordinatedClose

CONSTANTS d1, d2, readme

MCDocumentId == {d1, d2}
MCPath == {readme}
MCCanonical == [p \in MCPath |-> p]
Symmetry == Permutations(MCDocumentId)

MCAddable == [id : {d1, d2}, path : MCPath \cup {NoPath}, dirty : BOOLEAN]

MCRestorableHistory ==
  {<<[id |-> d, path |-> NoPath, dirty |-> FALSE]>> : d \in MCDocumentId}
=============================================================================
