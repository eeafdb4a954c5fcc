------------------------------ MODULE MCDocking ------------------------------
(***************************************************************************)
(* The docking library and its reference application, and the hot-corners   *)
(* program, one per behaviour:                                              *)
(*   layout       three panels, one a document, and a tool whose title is   *)
(*                too long, in up to three groups on five nodes, one of two *)
(*                floating hosts and one edge                               *)
(*   application  the panels, groups and nodes of the application           *)
(*   drag         two panels under two parents                              *)
(*   slide        two hidden panels                                         *)
(*   corners      one display, and a second beside it or to the lower left  *)
(***************************************************************************)
EXTENDS DockLayout, DockDrag, DockAutoHide, DockingApplication, HotCorners

CONSTANTS g1, g2, g3, n1, n2, n3, n4, n5, h1, h2, verbose

MCPanel == {readme, explorer, output, verbose}
MCRole == [p \in AppPanels \cup {verbose} |-> IF p \in {mainDocument, readme} THEN "document" ELSE "tool"]
MCGroup == {g1, g2, g3}
MCNode == {n1, n2, n3, n4, n5}
MCClosable == {readme, output, verbose}
MCRestorable == {NewLayout("document")}
MCHome == [p \in {explorer, output} |-> "left"]
Symmetry == Permutations({g2, g3}) \cup Permutations({n2, n3, n4, n5})
            \cup Permutations({h1, h2})

Display(x, y) == [left |-> x, top |-> y, right |-> x + 4, bottom |-> y + 4]
MCArrangement == {{Display(0, 0)}, {Display(0, 0), Display(4, 0)},
                  {Display(-4, 2), Display(0, 0)}}
MCPoint == {[x |-> 0, y |-> 0], [x |-> 4, y |-> 0]}
MCDefault == [c \in 1..4 |-> "task view"]

VARIABLE focus

ASSUME DragAssumption /\ SlideAssumption

allVars == <<focus, vars, appVars, dragVars, slideVars, hotVars>>

DockingInit ==
  /\ focus \in {"layout", "application", "drag", "slide", "corners"}
  /\ Init /\ (focus = "layout" \/ layout = NewLayout("document"))
  /\ AppInit /\ DragInit /\ SlideInit
  /\ HotInit /\ displays = {Display(-4, 2), Display(0, 0)}

(* The other components stay as they are.                                   *)
Others ==
  /\ UNCHANGED focus
  /\ IF focus = "layout" THEN TRUE ELSE UNCHANGED vars
  /\ IF focus = "application" THEN TRUE ELSE UNCHANGED appVars
  /\ IF focus = "drag" THEN TRUE ELSE UNCHANGED dragVars
  /\ IF focus = "slide" THEN TRUE ELSE UNCHANGED slideVars
  /\ IF focus = "corners" THEN TRUE ELSE UNCHANGED hotVars

DockingNext ==
  \/ focus = "layout" /\ Next /\ Others
  \/ focus = "application" /\ AppNext /\ Others
  \/ focus = "drag" /\ DragNext /\ Others
  \/ focus = "slide" /\ SlideNext /\ Others
  \/ focus = "corners" /\ HotNext /\ Others

DockingSpec == DockingInit /\ [][DockingNext]_allVars

(* The application alone.                                                   *)
ApplicationSpec == focus = "application" /\ DockingInit /\ [][DockingNext]_allVars

-----------------------------------------------------------------------------
(* The other properties are stated with their components.                   *)

(* DockLayout and DockDrag: a mutation, and a drag, move one panel.         *)
OnlyOnePanelMoves == OthersStay /\ DragMovesItsPanel
=============================================================================
