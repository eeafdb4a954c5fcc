------------------------------ MODULE DockDrag ------------------------------
(***************************************************************************)
(* A drag of a docked panel: mwfl::DockDragSession, which holds a proposal  *)
(* for the layout, and mwfl::DockNativeWorkspaceAdapter, which moves the    *)
(* panels' windows under the parents the proposal gives them, one SetParent *)
(* after the other, before the model commits.  Every SetParent sends        *)
(* messages, in which the application may act (Reentrant).                  *)
(*                                                                          *)
(* Of a layout only the parent of each panel's window is kept; styles,      *)
(* visibility, focus, hit testing and the preview are left out.             *)
(***************************************************************************)
EXTENDS Integers, FiniteSets

CONSTANTS
  Bound,         \* panels whose windows are bound to the adapter
  Parent,        \* windows of the groups, and the one hidden panels park under
  Home,          \* where each panel is at first
  NoProposal,
  Reentrant,     \* what the application does within SetParent:
                 \* a subset of {"mutate", "cancel", "reset", "destroy"}
  MaxChanges     \* bound on the changes of the layout

VARIABLES
  placement,  \* the model's layout: the parent each panel belongs under
  changes,    \* the model's revision
  drag,       \* the session: [state, panel, source, proposal]
  parent,     \* the parent each panel's window has
  alive,      \* panels whose windows exist
  plan,       \* the adoption under way: [before, to, todo]
  call,       \* where Commit is: "none", "adopting", "adopted" or "crashed"
  stuck       \* windows a rollback could not move back

dragVars == <<placement, changes, drag, parent, alive, plan, call, stuck>>
native == <<parent, alive, plan, stuck>>

Idle == [state |-> "idle", panel |-> NoProposal, source |-> 0, proposal |-> NoProposal]
NoAdoption == [before |-> Home, to |-> Home, todo |-> {}]

DragAssumption == Home \in [Bound -> Parent] /\ MaxChanges \in Nat

DragTypeOK ==
  /\ placement \in [Bound -> Parent] /\ parent \in [Bound -> Parent]
  /\ changes \in 0..MaxChanges
  /\ drag.state \in {"idle", "tracking", "proposed", "committed", "cancelled"}
  /\ drag.panel \in Bound \cup {NoProposal}
  /\ drag.source \in 0..MaxChanges
  /\ drag.proposal \in [Bound -> Parent] \cup {NoProposal}
  /\ alive \subseteq Bound /\ stuck \subseteq Bound
  /\ plan.before \in [Bound -> Parent] /\ plan.to \in [Bound -> Parent]
  /\ plan.todo \subseteq Bound
  /\ call \in {"none", "adopting", "adopted", "crashed"}

DragInit ==
  /\ placement = Home /\ parent = Home
  /\ changes = 0
  /\ drag = Idle
  /\ alive = Bound
  /\ plan = NoAdoption
  /\ call = "none"
  /\ stuck = {}

(* May the application do this now?  Within Commit, only if it is reentrant. *)
May(what) == call = "none" \/ (call = "adopting" /\ what \in Reentrant)

-----------------------------------------------------------------------------
(* The session.                                                             *)

(* Cancel, which leaves a session that has ended or not begun as it is.     *)
Cancelled ==
  IF drag.state \in {"committed", "idle"} THEN drag
  ELSE [drag EXCEPT !.state = "cancelled", !.proposal = NoProposal]

Begin ==
  /\ May("reset") /\ drag.state = "idle"
  /\ \E p \in Bound :
       drag' = [Idle EXCEPT !.state = "tracking", !.panel = p, !.source = changes]
  /\ UNCHANGED <<placement, changes, call, native>>

(* The pointer moves: the proposal is dropped, and the application proposes *)
(* the layout that fits the target, if there is one.  SetProposal refuses   *)
(* what was not made from the layout the session began with.                *)
Move ==
  /\ May("reset") /\ drag.state \in {"tracking", "proposed"}
  /\ \/ drag' = [drag EXCEPT !.state = "tracking", !.proposal = NoProposal]
     \/ /\ drag.source = changes
        /\ \E to \in Parent :
             drag' = [drag EXCEPT !.state = "proposed",
                                  !.proposal = [placement EXCEPT ![drag.panel] = to]]
     \/ drag.source # changes /\ drag' = Cancelled
  /\ UNCHANGED <<placement, changes, call, native>>

Cancel ==
  /\ May("cancel")
  /\ drag' = Cancelled
  /\ UNCHANGED <<placement, changes, call, native>>

Reset ==
  /\ May("reset")
  /\ drag' = Idle
  /\ UNCHANGED <<placement, changes, call, native>>

-----------------------------------------------------------------------------
(* The application, outside the drag.                                       *)

(* A command applies a mutation: it adopts and commits another layout.      *)
Mutate ==
  /\ May("mutate") /\ changes < MaxChanges
  /\ alive = Bound
  /\ \E p \in Bound, to \in Parent : placement' = [placement EXCEPT ![p] = to]
  /\ parent' = placement'
  /\ stuck' = {}
  /\ changes' = changes + 1
  /\ UNCHANGED <<drag, alive, plan, call>>

Destroy ==
  /\ May("destroy")
  /\ \E p \in alive : alive' = alive \ {p}
  /\ UNCHANGED <<placement, changes, drag, parent, plan, call, stuck>>

-----------------------------------------------------------------------------
(* Commit.                                                                  *)

(* Prepare records where every window is.  It refuses a stale window, and   *)
(* then nothing has moved.                                                  *)
CommitDrag ==
  /\ call = "none" /\ drag.state = "proposed"
  /\ IF alive = Bound
     THEN /\ plan' = [before |-> parent, to |-> drag.proposal, todo |-> Bound]
          /\ call' = "adopting"
          /\ UNCHANGED drag
     ELSE drag' = Cancelled /\ UNCHANGED <<plan, call>>
  /\ UNCHANGED <<placement, changes, parent, alive, stuck>>

(* One window more is under its parent.                                     *)
Adopt(p) ==
  /\ call = "adopting" /\ p \in plan.todo \cap alive
  /\ parent' = [parent EXCEPT ![p] = plan.to[p]]
  /\ plan' = [plan EXCEPT !.todo = @ \ {p}]
  /\ call' = IF plan'.todo = {} THEN "adopted" ELSE call
  /\ UNCHANGED <<placement, changes, drag, alive, stuck>>

(* Seeded fault: the windows that have not moved go back, not the others.   *)
RolledBackRest(failed) ==
  /\ parent' = [p \in Bound |->
                  IF p \in plan.todo \ failed THEN plan.before[p] ELSE parent[p]]
  /\ stuck' = stuck \cup failed
  /\ plan' = NoAdoption
  /\ call' = "none"

(* Rollback: every window goes back, but those destroyed and those (failed) *)
(* that SetParent does not move.                                            *)
RolledBack(failed) ==
  /\ parent' = [p \in Bound |-> IF p \in alive \ failed THEN plan.before[p] ELSE parent[p]]
  /\ stuck' = stuck \cup failed
  /\ plan' = NoAdoption
  /\ call' = "none"

(* A window was destroyed or does not move.  The session is cancelled.      *)
AdoptFails ==
  /\ call = "adopting"
  /\ \E failed \in SUBSET Bound : RolledBack(failed)
  /\ drag' = Cancelled
  /\ UNCHANGED <<placement, changes, alive>>

(* Seeded fault: the revision is not compared.                              *)
CommitStale ==
  /\ call = "adopted" /\ drag.proposal # NoProposal
  /\ changes < MaxChanges
  /\ placement' = drag.proposal
  /\ changes' = changes + 1
  /\ drag' = [drag EXCEPT !.state = "committed", !.proposal = NoProposal]
  /\ plan' = NoAdoption
  /\ call' = "none"
  /\ UNCHANGED <<parent, alive, stuck>>

(* The model commits what is still based on its layout.                     *)
CommitModel ==
  /\ call = "adopted" /\ drag.proposal # NoProposal
  /\ drag.source = changes /\ changes < MaxChanges
  /\ placement' = drag.proposal
  /\ changes' = changes + 1
  /\ drag' = [drag EXCEPT !.state = "committed", !.proposal = NoProposal]
  /\ plan' = NoAdoption
  /\ call' = "none"
  /\ UNCHANGED <<parent, alive, stuck>>

(* The proposal is stale, or the handler threw after the adoption.          *)
CommitFails ==
  /\ call = "adopted" /\ drag.proposal # NoProposal
  /\ \E failed \in SUBSET Bound : RolledBack(failed)
  /\ drag' = Cancelled
  /\ UNCHANGED <<placement, changes, alive>>

(* The application has cancelled or reset the session within SetParent: the *)
(* proposal Commit goes on with has been destroyed.  The program crashes,   *)
(* or the model refuses what is left of it.                                 *)
CommitDestroyed ==
  /\ call = "adopted" /\ drag.proposal = NoProposal
  /\ \/ call' = "crashed" /\ UNCHANGED <<parent, plan, stuck, drag>>
     \/ (\E failed \in SUBSET Bound : RolledBack(failed)) /\ drag' = Cancelled
  /\ UNCHANGED <<placement, changes, alive>>

DragNext ==
  \/ Begin \/ Move \/ Cancel \/ Reset
  \/ Mutate \/ Destroy
  \/ CommitDrag \/ AdoptFails \/ CommitModel \/ CommitFails \/ CommitDestroyed
  \/ \E p \in Bound : Adopt(p)

DragSpec == DragInit /\ [][DragNext]_dragVars

-----------------------------------------------------------------------------
(* Properties.                                                              *)

(* Whatever fails, and wherever the drag stops, no half-committed state is  *)
(* left: every window is where the model's layout has its panel, unless it  *)
(* is gone or did not let itself be moved back.                             *)
WindowsFollowLayout ==
  call = "none" => \A p \in alive \ stuck : parent[p] = placement[p]

(* The session, its plan and the windows are well formed, and after a drag  *)
(* windows and layout agree.                                                *)
DragIsConsistent == DragTypeOK /\ WindowsFollowLayout

(* A drag moves the panel it drags, and nothing that changed meanwhile is   *)
(* undone by it.                                                            *)
DragMovesItsPanel ==
  [][ drag'.state = "committed" /\ drag.state # "committed" =>
        \A p \in Bound \ {drag.panel} : placement'[p] = placement[p] ]_dragVars
=============================================================================
