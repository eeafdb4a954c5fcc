-------------------------- MODULE DockingApplication --------------------------
(***************************************************************************)
(* The reference application examples/docking_workspace: two documents, the *)
(* solution explorer and the output panel over three docked groups and one  *)
(* floating group, with commands, mouse and keyboard docking, a floating    *)
(* window, and the layout it saves and restores.                            *)
(*                                                                          *)
(* Every change is proposed, adopted by the panels' windows and committed;  *)
(* one that fails on the way changes nothing (DockDrag) and is left out.    *)
(* The group's own window is inside the floating window while attached.     *)
(***************************************************************************)
EXTENDS DockLayouts

CONSTANTS
  mainDocument, readme, explorer, output,      \* the panels
  documents, left, bottom, floating,           \* the groups
  n100, n200, n201, n202, n300, n301,          \* the nodes
  h400,                                        \* the floating host
  leftEdge, bottomEdge

ASSUME ApplicationAssumption ==
  /\ documents = RootGroup /\ n100 = RootNode
  /\ \A p \in {mainDocument, readme} : p \in DOMAIN Role /\ Role[p] = "document"
  /\ \A p \in {explorer, output} : p \in DOMAIN Role /\ Role[p] = "tool"
  /\ IsInjective(<<mainDocument, readme, explorer, output>>)
  /\ IsInjective(<<documents, left, bottom, floating>>)
  /\ IsInjective(<<n100, n200, n201, n202, n300, n301>>)

VARIABLES
  workspace,  \* the layout
  window      \* the floating window: [created, shown, attached]

appVars == <<workspace, window>>

AppPanels == {mainDocument, readme, explorer, output}

BesideDocuments(l, g, n, s, first) ==
  Beside(WithGroup(l, g, "tool", <<>>, n), documents, n, s, first)

EmptyGroups ==
  BesideDocuments(BesideDocuments(NewLayout("document"), left, n200, n300, TRUE),
                  bottom, n201, n301, FALSE)

TwoDocuments ==
  PanelAdded(PanelAdded(EmptyGroups, mainDocument, documents, 0), readme, documents, 1)

DefaultLayout ==
  PanelAdded(PanelAdded(TwoDocuments, explorer, left, 0), output, bottom, 0)

NoWindow == [created |-> FALSE, shown |-> FALSE, attached |-> FALSE]

AppInit ==
  /\ workspace = DefaultLayout
  /\ window = NoWindow

PanelGroup(p) == {g \in DOMAIN workspace.tabs : p \in ToSet(workspace.tabs[g])}

(* EnsureFloating: only a new window gets the group's window to hold.       *)
Ensured(w) == [w EXCEPT !.created = TRUE, !.shown = TRUE,
                        !.attached = IF w.created THEN @ ELSE TRUE]
Emptied(w) == [w EXCEPT !.shown = FALSE, !.attached = FALSE]

-----------------------------------------------------------------------------
(* ApplyMutation and ApplySnapshot.  The four panels of the application are *)
(* far from the limits on sizes and titles.                                 *)

Mutated(l) == WellFormed(l) /\ workspace' = l

Snapshot(l) ==
  LET w == IF l.hosts = <<>> THEN window ELSE Ensured(window)
  IN  /\ WellFormed(l) /\ workspace' = l
      /\ window' = IF l.hosts = <<>> /\ w.created THEN Emptied(w) ELSE w

(* The panel goes to the end of a group of its role.                        *)
Pin(p, g) ==
  /\ g \in DOMAIN workspace.tabs /\ workspace.role[g] = Role[p]
  /\ Mutated(MovedToGroup(workspace, p, g, Len(workspace.tabs[g])))

Hide(p, e) == Role[p] = "tool" /\ Mutated(AutoHidden(workspace, p, e))

(* The window is shown before the mutation is tried, and stays when it is   *)
(* refused.                                                                 *)
Float ==
  /\ window' = Ensured(window)
  /\ IF CanFloat(workspace, floating, n202, h400)
     THEN Mutated(Floated(workspace, output, floating, n202, h400))
     ELSE UNCHANGED workspace

-----------------------------------------------------------------------------
(* Commands.                                                                *)

FloatOutput == PanelGroup(output) # {floating} /\ Float

(* Dock Output, also when the floating window is closed, which hides it.    *)
RedockOutput ==
  /\ PanelGroup(output) # {bottom} /\ Pin(output, bottom)
  /\ window' = IF window.created THEN Emptied(window) ELSE window

CloseFloating ==
  /\ window.shown
  /\ IF PanelGroup(output) = {bottom}
     THEN window' = [window EXCEPT !.shown = FALSE] /\ UNCHANGED workspace
     ELSE RedockOutput

AutoHideExplorer ==
  explorer \notin Hidden(workspace) /\ Hide(explorer, leftEdge) /\ UNCHANGED window

PinExplorer ==
  PanelGroup(explorer) # {left} /\ Pin(explorer, left) /\ UNCHANGED window

ReorderDocuments ==
  /\ readme \in workspace.panels /\ Len(workspace.tabs[documents]) >= 2
  /\ Mutated(MovedToGroup(workspace, readme, documents, 0)) /\ UNCHANGED window

CloseReadme ==
  /\ readme \in workspace.panels
  /\ Mutated(PanelClosed(workspace, readme)) /\ UNCHANGED window

ResetLayout == Snapshot(DefaultLayout)

SelectTab ==
  /\ \E g \in DOMAIN workspace.tabs : \E p \in ToSet(workspace.tabs[g]) :
       Mutated(Activated(workspace, p))
  /\ UNCHANGED window

(* The output panel docked with the keyboard, or any panel that has a tab   *)
(* with the mouse, to the targets both offer.                               *)
DockTo(p) ==
  \/ \E g \in {left, bottom} : Pin(p, g) /\ UNCHANGED window
  \/ Hide(p, bottomEdge) /\ UNCHANGED window
  \/ p = output /\ PanelGroup(p) # {floating} /\ Float

KeyboardDock == DockTo(output)
MouseDock == \E p \in workspace.panels : PanelGroup(p) # {} /\ DockTo(p)

(* A drag over the floating target that ends elsewhere.                     *)
HoverFloating ==
  /\ PanelGroup(output) \notin {{}, {floating}}
  /\ window' = Ensured(window) /\ UNCHANGED workspace

(* The main window closes: the layout is saved, and every window goes.  The *)
(* next run restores it if none of the four panels is missing.  What is     *)
(* saved at other times only matters to a run that is killed.               *)
Reopen ==
  IF workspace.panels = AppPanels
  THEN /\ UNCHANGED workspace
       /\ window' = IF workspace.hosts = <<>> THEN NoWindow ELSE Ensured(NoWindow)
  ELSE workspace' = DefaultLayout /\ window' = NoWindow

AppNext ==
  \/ FloatOutput \/ RedockOutput \/ CloseFloating
  \/ AutoHideExplorer \/ PinExplorer \/ ReorderDocuments \/ CloseReadme \/ ResetLayout
  \/ SelectTab \/ KeyboardDock \/ MouseDock \/ HoverFloating \/ Reopen

AppSpec == AppInit /\ [][AppNext]_appVars

-----------------------------------------------------------------------------
(* Properties.                                                              *)

(* Wherever the tools have been docked, hidden or floated, and whatever was *)
(* restored, Pin Explorer and Dock Output bring them back.                  *)
ToolsCanReturn ==
  /\ WellFormed(workspace)
  /\ \A r \in {<<explorer, left>>, <<output, bottom>>} :
       /\ r[1] \in workspace.panels
       /\ r[2] \in DOMAIN workspace.tabs /\ workspace.role[r[2]] = "tool"
       /\ WellFormed(MovedToGroup(workspace, r[1], r[2], Len(workspace.tabs[r[2]])))

(* What the self-test requires of the command: it puts the output panel     *)
(* into the floating group, and the window that holds the group is shown.   *)
FloatShowsOutput ==
  [][ FloatOutput => /\ output \in ToSet(workspace'.tabs[floating])
                     /\ window'.shown /\ window'.attached ]_appVars
=============================================================================
