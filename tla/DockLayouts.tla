----------------------------- MODULE DockLayouts -----------------------------
(***************************************************************************)
(* The layouts of mwfl::DockLayoutModel: panels in groups, groups as the    *)
(* leaves of a tree of splits under the main window or a floating host, and *)
(* panels hidden at an edge; what Validate requires of a layout, and the    *)
(* layout each mutation makes of another.                                   *)
(*                                                                          *)
(* Titles, ratios, orientations and placements are left out: calls with     *)
(* values out of range change nothing.  So is the rank of a hidden panel at *)
(* its edge, which grows with every AutoHide.  The limits on sizes are in   *)
(* DockLayout.                                                              *)
(***************************************************************************)
EXTENDS Integers, SequencesExt, FiniteSets

CONSTANTS
  RootGroup, RootNode,        \* the group and node a layout begins with
  Role,                       \* the role of each panel: "document" or "tool"
  None                        \* no panel

ASSUME DockAssumption ==
  None \notin DOMAIN Role /\ Role \in [DOMAIN Role -> {"document", "tool"}]

(* A layout is a record: panels, the set of known ones; groups, in order of *)
(* creation; role, tabs and front of each group; leaf, the group of each    *)
(* node that holds one; split, the two children of the others; root, the    *)
(* node of the main window; hosts, the node of each floating host; hidden,  *)
(* the auto-hide entries; active, the active panel.                         *)
Nodes(l) == DOMAIN l.leaf \cup DOMAIN l.split
Roots(l) == {l.root} \cup {l.hosts[h] : h \in DOMAIN l.hosts}
Children(l, n) == {l.split[n][1], l.split[n][2]}
Hidden(l) == {e.panel : e \in ToSet(l.hidden)}

(* The groups are those with tabs, a role and a front.                      *)
IsLayout(l) ==
  /\ l = [panels |-> l.panels, groups |-> l.groups, role |-> l.role, tabs |-> l.tabs,
          front |-> l.front, leaf |-> l.leaf, split |-> l.split, root |-> l.root,
          hosts |-> l.hosts, hidden |-> l.hidden, active |-> l.active]
  /\ l.panels \subseteq DOMAIN Role
  /\ l.groups \in Seq(DOMAIN l.tabs) /\ ToSet(l.groups) = DOMAIN l.tabs
  /\ l.tabs \in [DOMAIN l.tabs -> Seq(DOMAIN Role)]
  /\ DOMAIN l.role = DOMAIN l.tabs /\ DOMAIN l.front = DOMAIN l.tabs
  /\ l.hidden \in Seq(ToSet(l.hidden))

(* The active panel is the front of its group or hidden, and there is one   *)
(* as soon as there are panels.                                             *)
ActiveShown(l) ==
  /\ l.active = None <=> l.panels = {}
  /\ \A g \in DOMAIN l.tabs : l.active \in ToSet(l.tabs[g]) => l.front[g] = l.active

Fresh(l, g, n) == g \notin DOMAIN l.tabs /\ n \notin Nodes(l)
LeafOf(l, g) == CHOOSE n \in DOMAIN l.leaf : l.leaf[n] = g
HasLeaf(l, g) == \E n \in DOMAIN l.leaf : l.leaf[n] = g

-----------------------------------------------------------------------------
(* What Validate checks once the sizes are within their limits.             *)

PanelsPlacedOnce(l) ==
  /\ \A g \in DOMAIN l.tabs : /\ IsInjective(l.tabs[g])
                              /\ ToSet(l.tabs[g]) \subseteq l.panels
                              /\ \A p \in ToSet(l.tabs[g]) : Role[p] = l.role[g]
  /\ \A g, k \in DOMAIN l.tabs :
       g # k => ToSet(l.tabs[g]) \cap ToSet(l.tabs[k]) = {}
  /\ \A i, j \in DOMAIN l.hidden : l.hidden[i].panel = l.hidden[j].panel => i = j
  /\ \A p \in Hidden(l) : p \in l.panels /\ Role[p] = "tool"
  /\ \A g \in DOMAIN l.tabs : ToSet(l.tabs[g]) \cap Hidden(l) = {}
  /\ \A p \in l.panels : p \in Hidden(l) \/ \E g \in DOMAIN l.tabs : p \in ToSet(l.tabs[g])

FrontsInTabs(l) ==
  /\ \A g \in DOMAIN l.tabs : IF l.tabs[g] = <<>> THEN l.front[g] = None
                                                  ELSE l.front[g] \in ToSet(l.tabs[g])
  /\ l.active \in l.panels \cup {None}

GroupsHaveOneLeaf(l) ==
  /\ \A n \in DOMAIN l.leaf : l.leaf[n] \in DOMAIN l.tabs
  /\ \A n, m \in DOMAIN l.leaf : l.leaf[n] = l.leaf[m] => n = m
  /\ \A g \in DOMAIN l.tabs : HasLeaf(l, g)

NodesOwnedOnce(l) ==
  /\ \A n \in DOMAIN l.split : Children(l, n) \subseteq Nodes(l)
                               /\ l.split[n][1] # l.split[n][2]
  /\ \A n, m \in DOMAIN l.split : n # m => Children(l, n) \cap Children(l, m) = {}
  /\ Roots(l) \subseteq Nodes(l)
  /\ \A h, k \in DOMAIN l.hosts : l.hosts[h] = l.hosts[k] => h = k
  /\ \A h \in DOMAIN l.hosts : l.hosts[h] # l.root
  /\ \A n \in DOMAIN l.split : Children(l, n) \cap Roots(l) = {}

(* The walk from the roots visits every node.                               *)
NodesReachable(l) ==
  \A S \in SUBSET Nodes(l) :
    (Roots(l) \subseteq S /\ \A n \in S \cap DOMAIN l.split : Children(l, n) \subseteq S)
      => S = Nodes(l)

WellFormed(l) ==
  PanelsPlacedOnce(l) /\ FrontsInTabs(l) /\ GroupsHaveOneLeaf(l)
  /\ NodesOwnedOnce(l) /\ NodesReachable(l)

-----------------------------------------------------------------------------
(* Changes of a layout.                                                     *)

(* s without p, which is in it once at most.                                *)
Without(s, p) ==
  IF p \in ToSet(s) THEN RemoveAt(s, CHOOSE i \in DOMAIN s : s[i] = p) ELSE s

Unhidden(l, p) ==
  IF p \in Hidden(l) THEN RemoveAt(l.hidden, CHOOSE i \in DOMAIN l.hidden :
                                               l.hidden[i].panel = p)
                     ELSE l.hidden

(* SelectFallback: the first tab, when the one in front has gone.           *)
FrontTab(s, p) == IF p \in ToSet(s) THEN p ELSE IF s = <<>> THEN None ELSE s[1]

(* Seeded fault: a panel that is moved stays among the hidden ones.         *)
DetachedFromGroups(l, p) ==
  [l EXCEPT !.tabs = [g \in DOMAIN l.tabs |-> Without(l.tabs[g], p)],
            !.front = [g \in DOMAIN l.tabs |-> FrontTab(Without(l.tabs[g], p), l.front[g])]]

Detached(l, p) ==
  [l EXCEPT !.tabs = [g \in DOMAIN l.tabs |-> Without(l.tabs[g], p)],
            !.front = [g \in DOMAIN l.tabs |-> FrontTab(Without(l.tabs[g], p), l.front[g])],
            !.hidden = Unhidden(l, p)]

FirstPlaced(l) ==
  LET filled == {i \in DOMAIN l.groups : l.tabs[l.groups[i]] # <<>>}
  IN  IF filled # {} THEN l.front[l.groups[Min(filled)]]
      ELSE IF l.hidden # <<>> THEN l.hidden[1].panel
      ELSE None

Only(x, v) == [y \in {x} |-> v]
Extended(f, x, v) == [y \in DOMAIN f \cup {x} |-> IF y = x THEN v ELSE f[y]]

(* A new leaf n for a new group g.                                          *)
WithGroup(l, g, role, tabs, n) ==
  [l EXCEPT !.groups = Append(@, g),
            !.role = Extended(@, g, role),
            !.tabs = Extended(@, g, tabs),
            !.front = Extended(@, g, FrontTab(tabs, None)),
            !.leaf = Extended(@, n, g)]

(* Seeded fault: only the main window gives up the leaf that is split.      *)
BesideInMainWindow(l, k, n, s, first) ==
  LET t == LeafOf(l, k)
  IN  [l EXCEPT
        !.root = IF @ = t THEN s ELSE @,
        !.split = Extended(@, s, IF first THEN <<n, t>> ELSE <<t, n>>)]

(* Split s takes the place of the leaf of group k, over it and the new      *)
(* leaf n.                                                                  *)
Beside(l, k, n, s, first) ==
  LET t == LeafOf(l, k)
      New(m) == IF m = t THEN s ELSE m
  IN  [l EXCEPT
        !.root = New(@),
        !.hosts = [h \in DOMAIN l.hosts |-> New(l.hosts[h])],
        !.split = Extended([m \in DOMAIN l.split |-> <<New(l.split[m][1]), New(l.split[m][2])>>],
                           s, IF first THEN <<n, t>> ELSE <<t, n>>)]

-----------------------------------------------------------------------------
(* Mutations: the layout each proposes, and when it applies.                *)

Activated(l, p) ==
  [l EXCEPT !.active = p,
            !.front = [g \in DOMAIN l.tabs |-> IF p \in ToSet(l.tabs[g]) THEN p
                                                                       ELSE l.front[g]]]

PanelClosed(l, p) ==
  LET r == [Detached(l, p) EXCEPT !.panels = @ \ {p}]
  IN  IF l.active = p THEN [r EXCEPT !.active = FirstPlaced(r)] ELSE r

AutoHidden(l, p, e) ==
  [Detached(l, p) EXCEPT !.hidden = Append(@, [panel |-> p, edge |-> e]), !.active = p]

MovedToGroup(l, p, g, i) ==
  LET d == Detached(l, p)
  IN  [d EXCEPT !.tabs[g] = InsertAt(@, (IF i < Len(@) THEN i ELSE Len(@)) + 1, p),
                !.front[g] = p,
                !.active = p]

(* An index past the end appends, as one of Len does.                       *)
PanelAdded(l, p, g, i) ==
  [l EXCEPT !.panels = @ \cup {p},
            !.tabs[g] = InsertAt(@, i + 1, p),
            !.front[g] = p,
            !.active = p]

Floated(l, p, g, n, h) ==
  [WithGroup(Detached(l, p), g, Role[p], <<p>>, n)
     EXCEPT !.hosts = Extended(@, h, n), !.active = p]

SplitToGroup(l, p, g, n, k, s, first) ==
  [Beside(WithGroup(Detached(l, p), g, Role[p], <<p>>, n), k, n, s, first)
     EXCEPT !.active = p]

CanFloat(l, g, n, h) == Fresh(l, g, n) /\ h \notin DOMAIN l.hosts

CanSplit(l, g, n, k, s) ==
  Fresh(l, g, n) /\ k \in DOMAIN l.tabs /\ s \notin Nodes(l) \cup {n}

(* The layout the model is constructed with.                               *)
NewLayout(role) ==
  [panels |-> {}, groups |-> <<RootGroup>>, role |-> Only(RootGroup, role),
   tabs |-> Only(RootGroup, <<>>), front |-> Only(RootGroup, None),
   leaf |-> Only(RootNode, RootGroup), split |-> <<>>, root |-> RootNode, hosts |-> <<>>,
   hidden |-> <<>>, active |-> None]
=============================================================================
