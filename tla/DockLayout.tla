----------------------------- MODULE DockLayout -----------------------------
(***************************************************************************)
(* mwfl::DockLayoutModel.  A mutation is applied to a copy of the layout,   *)
(* the copy is validated, and Propose and Commit make it the state.  What   *)
(* runs between the two is in DockDrag.                                     *)
(***************************************************************************)
EXTENDS DockLayouts

CONSTANTS
  Panel, Group, Node, Host,   \* identities
  Closable,                   \* panels that may be closed
  Edge,                       \* of the main window
  LongTitle,                  \* panels with a title longer than Validate accepts
  MaxPanels, MaxGroups, MaxNodes, MaxHosts,   \* what Validate accepts of each
  Restorable,                 \* layouts an application restores
  MaxRevision                 \* bound on the revision

ASSUME LayoutAssumption ==
  /\ RootGroup \in Group /\ RootNode \in Node
  /\ Panel \subseteq DOMAIN Role
  /\ MaxRevision \in Nat
  /\ MaxPanels \in Nat /\ {MaxGroups, MaxNodes} \subseteq Nat \ {0} /\ MaxHosts \in Nat
  /\ \A l \in Restorable : IsLayout(l) /\ ActiveShown(l)   \* they have been saved

VARIABLES layout, revision

vars == <<layout, revision>>

-----------------------------------------------------------------------------
(* The limits Validate checks.  Hidden panels are panels.                   *)
PanelsFit(l) == Cardinality(l.panels) <= MaxPanels /\ l.panels \cap LongTitle = {}

TreeFits(l) ==
  /\ Cardinality(DOMAIN l.tabs) <= MaxGroups
  /\ Cardinality(Nodes(l)) <= MaxNodes
  /\ Cardinality(DOMAIN l.hosts) <= MaxHosts

Valid(l) == PanelsFit(l) /\ TreeFits(l) /\ WellFormed(l)

(* Propose and Commit.  A proposal that is not valid is refused.            *)
Becomes(l) ==
  /\ revision < MaxRevision
  /\ Valid(l)
  /\ layout' = l
  /\ revision' = revision + 1

Activate == \E p \in layout.panels : Becomes(Activated(layout, p))

ClosePanel == \E p \in layout.panels \cap Closable : Becomes(PanelClosed(layout, p))

AutoHide ==
  \E p \in layout.panels, e \in Edge :
    Role[p] = "tool" /\ Becomes(AutoHidden(layout, p, e))

(* An index past the end appends, as one of Len does.                       *)
MoveToGroup ==
  \E p \in layout.panels, g \in DOMAIN layout.tabs :
    /\ layout.role[g] = Role[p]
    /\ \E i \in 0..Len(layout.tabs[g]) : Becomes(MovedToGroup(layout, p, g, i))

FloatPanel ==
  \E p \in layout.panels, g \in Group, n \in Node, h \in Host :
    CanFloat(layout, g, n, h) /\ Becomes(Floated(layout, p, g, n, h))

SplitPanel ==
  \E p \in layout.panels, g, k \in Group, n, s \in Node, first \in BOOLEAN :
    CanSplit(layout, g, n, k, s) /\ Becomes(SplitToGroup(layout, p, g, n, k, s, first))

AddDockedGroup ==
  \E g, k \in Group, n, s \in Node, role \in {"document", "tool"}, first \in BOOLEAN :
    /\ CanSplit(layout, g, n, k, s)
    /\ Becomes(Beside(WithGroup(layout, g, role, <<>>, n), k, n, s, first))

(* AddPanel changes the state in place and validates nothing: neither the   *)
(* number of panels nor the length of a title.                              *)
AddPanel ==
  \E p \in Panel \ layout.panels, g \in DOMAIN layout.tabs :
    /\ layout.role[g] = Role[p]
    /\ \E i \in 0..Len(layout.tabs[g]) :
         layout' = PanelAdded(layout, p, g, i)
    /\ revision < MaxRevision /\ revision' = revision + 1

Replace == \E l \in Restorable : Becomes(l)

Init == revision = 1 /\ \E role \in {"document", "tool"} : layout = NewLayout(role)

Next ==
  \/ Activate \/ ClosePanel \/ AutoHide \/ MoveToGroup \/ FloatPanel \/ SplitPanel
  \/ AddDockedGroup \/ AddPanel \/ Replace

Spec == Init /\ [][Next]_vars

-----------------------------------------------------------------------------
(* Properties.                                                              *)

(* Every panel is in one place, every group and node in the tree once,      *)
(* though AddPanel does not validate; the groups, nodes and hosts, which it *)
(* does not add, are within their limits.                                   *)
LayoutIsSound == WellFormed(layout) /\ TreeFits(layout)

(* No mutation that applies is refused by the validation behind it but for  *)
(* the limits: as long as AddPanel has not gone past those on panels, what  *)
(* adds no group succeeds, and what adds one does while there is room; once *)
(* it has, a close that brings the layout back within them does.            *)
MutationsStayValid ==
  \A p \in layout.panels :
    /\ PanelsFit(PanelClosed(layout, p)) => Valid(PanelClosed(layout, p))
    /\ PanelsFit(layout) =>
         /\ Valid(Activated(layout, p))
         /\ Role[p] = "tool" => \A e \in Edge : Valid(AutoHidden(layout, p, e))
         /\ \A g \in DOMAIN layout.tabs : layout.role[g] = Role[p] =>
              \A i \in 0..Len(layout.tabs[g]) : Valid(MovedToGroup(layout, p, g, i))
         /\ \A g \in Group, n \in Node, h \in Host :
              CanFloat(layout, g, n, h) /\ TreeFits(Floated(layout, p, g, n, h))
                => Valid(Floated(layout, p, g, n, h))
         /\ \A g, k \in Group, n, s \in Node, first \in BOOLEAN :
              CanSplit(layout, g, n, k, s) /\ TreeFits(SplitToGroup(layout, p, g, n, k, s, first))
                => Valid(SplitToGroup(layout, p, g, n, k, s, first))

(* Where a panel is: its group, or hidden at an edge.                       *)
Place(l, p) ==
  {g \in DOMAIN l.tabs : p \in ToSet(l.tabs[g])} \cup {e \in ToSet(l.hidden) : e.panel = p}

(* A mutation moves one panel at most: every other stays in its group or at *)
(* its edge.                                                                *)
OthersStay ==
  [][ Replace \/ \E p \in layout.panels \cup layout'.panels \cup {None} :
        \A q \in (layout.panels \cap layout'.panels) \ {p} :
          Place(layout', q) = Place(layout, q) ]_layout

ActiveIsShown == ActiveShown(layout)

(* Whatever has been docked, tabbed, split, floated, hidden, closed or      *)
(* restored, the three hold, and so the next mutation that applies succeeds *)
(* unless a limit stands against it.                                        *)
LayoutsStayWellFormed == LayoutIsSound /\ ActiveIsShown /\ MutationsStayValid
=============================================================================
