---------------------------- MODULE MCDocumentTabs ----------------------------
(* Two windows and two documents, which have no files of their own          *)
EXTENDS DocumentTabs

CONSTANTS d1, d2, w1, w2

MCDocumentId == {d1, d2}
MCWindow == {w1, w2}
MCCanonical == <<>>
Symmetry == Permutations(MCDocumentId) \cup Permutations(MCWindow)
=============================================================================
