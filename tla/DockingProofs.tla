---------------------------- MODULE DockingProofs ----------------------------
(***************************************************************************)
(* Proofs about DockDrag, for any panels, parents and number of changes;    *)
(* about DockAutoHide, for any delays and animation; about HotCorners, for  *)
(* any displays, settings and actions; and about DockLayout and the         *)
(* application, for any panels, groups and trees: a mutation is a panel     *)
(* taken out and put back, or an empty group added.                         *)
(***************************************************************************)
EXTENDS MCDocking, FiniteSetTheorems, SequenceTheorems, WellFoundedInduction, TLAPS

(* What a reentrant application may do within SetParent and leave the drag  *)
(* as it found it: end the session or destroy a window.  One that changes   *)
(* the layout there, or resets the session and begins another, has windows  *)
(* moved for a layout that is not the model's.                              *)
OnlyEnds == Reentrant \subseteq {"cancel", "destroy"}

(* A session: what is proposed is a layout.                                 *)
SessionOK ==
  /\ drag \in [state : {"idle", "tracking", "proposed", "committed", "cancelled"},
               panel : Bound \cup {NoProposal}, source : 0..MaxChanges,
               proposal : [Bound -> Parent] \cup {NoProposal}]
  /\ drag.state = "proposed" => drag.proposal \in [Bound -> Parent]

AdoptionOK ==
  /\ plan \in [before : [Bound -> Parent], to : [Bound -> Parent], todo : SUBSET Bound]
  /\ call \in {"none", "adopting", "adopted", "crashed"}
  /\ parent \in [Bound -> Parent]
  /\ alive \subseteq Bound /\ stuck \subseteq Bound

(* While windows move, a rollback would put them where the layout has them, *)
(* those that have moved are where the proposal wants them, and the session *)
(* proposes that or nothing.                                                *)
AdoptionFollowsPlan ==
  call \in {"adopting", "adopted"} =>
    /\ \A p \in alive \ stuck : plan.before[p] = placement[p]
    /\ \A p \in Bound \ plan.todo : parent[p] = plan.to[p]
    /\ drag.proposal \in {NoProposal, plan.to}

AdoptedIsWhole == call = "adopted" => plan.todo = {}

(* What a session proposes for the layout it began with moves its panel.    *)
ProposalMovesOnePanel ==
  /\ drag.source <= changes
  /\ drag.proposal # NoProposal /\ drag.source = changes =>
       \A p \in Bound \ {drag.panel} : drag.proposal[p] = placement[p]

LayoutOK == placement \in [Bound -> Parent] /\ changes \in 0..MaxChanges

DragInv ==
  /\ LayoutOK /\ SessionOK /\ AdoptionOK
  /\ WindowsFollowLayout /\ AdoptionFollowsPlan /\ AdoptedIsWhole
  /\ ProposalMovesOnePanel

-----------------------------------------------------------------------------
LEMMA DragInitially == ASSUME DragAssumption PROVE DragInit => DragInv
  BY DEF DragAssumption, DragInit, DragInv, LayoutOK, SessionOK, AdoptionOK, Idle, NoAdoption,
         WindowsFollowLayout, AdoptionFollowsPlan, AdoptedIsWhole, ProposalMovesOnePanel

LEMMA SessionKeepsInvariant ==
  ASSUME DragAssumption, OnlyEnds, DragInv, Begin \/ Move \/ Cancel \/ Reset
  PROVE  DragInv'
<1> USE DEF DragAssumption, OnlyEnds, DragInv, LayoutOK, SessionOK, AdoptionOK,
            WindowsFollowLayout, AdoptionFollowsPlan, AdoptedIsWhole, native, May
<1>1. CASE Begin
  <2>1. PICK p \in Bound : drag' = [Idle EXCEPT !.state = "tracking", !.panel = p,
                                               !.source = changes]
    BY <1>1 DEF Begin
  <2>2. drag' = [state |-> "tracking", panel |-> p, source |-> changes,
                 proposal |-> NoProposal]
    BY <2>1 DEF Idle
  <2>3. call = "none" /\ UNCHANGED <<placement, changes, call, native>>
    BY <1>1 DEF Begin
  <2>4. SessionOK'
    BY <2>2, <2>3
  <2>5. ProposalMovesOnePanel'
    BY <2>2, <2>3 DEF ProposalMovesOnePanel
  <2> QED BY <2>3, <2>4, <2>5
<1>2. CASE Move
  <2>1. CASE drag' = [drag EXCEPT !.state = "tracking", !.proposal = NoProposal]
    BY <1>2, <2>1 DEF Move, ProposalMovesOnePanel
  <2>2. ASSUME NEW to \in Parent, drag.source = changes,
               drag' = [drag EXCEPT !.state = "proposed",
                                    !.proposal = [placement EXCEPT ![drag.panel] = to]]
        PROVE  DragInv'
    BY <1>2, <2>2 DEF Move, ProposalMovesOnePanel
  <2>3. CASE drag' = Cancelled
    BY <1>2, <2>3 DEF Move, Cancelled, ProposalMovesOnePanel
  <2> QED BY <1>2, <2>1, <2>2, <2>3 DEF Move
<1>3. CASE Cancel
  BY <1>3 DEF Cancel, Cancelled, ProposalMovesOnePanel
<1>4. CASE Reset
  BY <1>4 DEF Reset, Idle, ProposalMovesOnePanel
<1> QED BY <1>1, <1>2, <1>3, <1>4

LEMMA ApplicationKeepsInvariant ==
  ASSUME DragAssumption, OnlyEnds, DragInv, Mutate \/ Destroy
  PROVE  DragInv'
<1> USE DEF DragAssumption, OnlyEnds, DragInv, LayoutOK, SessionOK, AdoptionOK,
            WindowsFollowLayout, AdoptionFollowsPlan, AdoptedIsWhole, May,
            ProposalMovesOnePanel
<1>1. CASE Mutate
  BY <1>1 DEF Mutate
<1>2. CASE Destroy
  BY <1>2 DEF Destroy
<1> QED BY <1>1, <1>2

(* A rollback leaves every window that lives and moves where the layout has *)
(* it.                                                                      *)
LEMMA RollbackKeepsInvariant ==
  ASSUME DragAssumption, DragInv, NEW failed \in SUBSET Bound, call \in {"adopting", "adopted"},
         RolledBack(failed), drag' = Cancelled, UNCHANGED <<placement, changes, alive>>
  PROVE  DragInv'
  BY DEF DragAssumption, DragInv, LayoutOK, SessionOK, AdoptionOK, WindowsFollowLayout,
         AdoptionFollowsPlan, AdoptedIsWhole, ProposalMovesOnePanel, RolledBack, Cancelled,
         NoAdoption

LEMMA CommitKeepsInvariant ==
  ASSUME DragAssumption, OnlyEnds, DragInv,
         \/ CommitDrag \/ AdoptFails \/ CommitModel \/ CommitFails \/ CommitDestroyed
         \/ \E p \in Bound : Adopt(p)
  PROVE  DragInv'
<1>1. CASE CommitDrag
  <2>1. CASE alive = Bound
    <3>1. /\ call = "none" /\ drag.state = "proposed" /\ call' = "adopting"
          /\ plan' = [before |-> parent, to |-> drag.proposal, todo |-> Bound]
          /\ UNCHANGED <<drag, placement, changes, parent, alive, stuck>>
      BY <1>1, <2>1 DEF CommitDrag
    <3>2. (LayoutOK /\ SessionOK /\ AdoptionOK)'
      BY <3>1 DEF DragInv, LayoutOK, SessionOK, AdoptionOK
    <3>3. (WindowsFollowLayout /\ AdoptionFollowsPlan /\ AdoptedIsWhole)'
      BY <3>1 DEF DragInv, AdoptionOK, WindowsFollowLayout, AdoptionFollowsPlan, AdoptedIsWhole
    <3>4. ProposalMovesOnePanel'
      BY <3>1 DEF DragInv, ProposalMovesOnePanel
    <3> QED BY <3>2, <3>3, <3>4 DEF DragInv
  <2>2. CASE alive # Bound
    <3>1. /\ call = "none" /\ drag' = [drag EXCEPT !.state = "cancelled", !.proposal = NoProposal]
          /\ UNCHANGED <<placement, changes, parent, alive, stuck, plan, call>>
      BY <1>1, <2>2 DEF CommitDrag, Cancelled
    <3>2. (LayoutOK /\ SessionOK /\ AdoptionOK)'
      BY <3>1 DEF DragInv, LayoutOK, SessionOK, AdoptionOK
    <3>3. (WindowsFollowLayout /\ AdoptionFollowsPlan /\ AdoptedIsWhole)'
      BY <3>1 DEF DragInv, WindowsFollowLayout, AdoptionFollowsPlan, AdoptedIsWhole
    <3>4. ProposalMovesOnePanel'
      BY <3>1 DEF DragInv, SessionOK, ProposalMovesOnePanel
    <3> QED BY <3>2, <3>3, <3>4 DEF DragInv
  <2> QED BY <2>1, <2>2
<1>2. CASE AdoptFails
  BY <1>2, RollbackKeepsInvariant DEF AdoptFails
<1>3. CASE CommitModel
  <2>1. /\ call = "adopted" /\ call' = "none" /\ plan' = NoAdoption
        /\ drag.proposal # NoProposal /\ changes < MaxChanges
        /\ placement' = drag.proposal /\ changes' = changes + 1
        /\ drag' = [drag EXCEPT !.state = "committed", !.proposal = NoProposal]
        /\ UNCHANGED <<parent, alive, stuck>>
    BY <1>3 DEF CommitModel
  <2>2. plan.todo = {} /\ drag.proposal = plan.to /\ \A p \in Bound : parent[p] = plan.to[p]
    BY <2>1 DEF DragInv, AdoptionFollowsPlan, AdoptedIsWhole
  <2>3. LayoutOK'
    BY <2>1 DEF DragAssumption, DragInv, LayoutOK, SessionOK
  <2>4. SessionOK'
    BY <2>1 DEF DragInv, SessionOK
  <2>5. AdoptionOK'
    BY <2>1 DEF DragAssumption, NoAdoption, DragInv, AdoptionOK
  <2>6. WindowsFollowLayout'
    BY <2>1, <2>2 DEF DragInv, AdoptionOK, WindowsFollowLayout
  <2>7. ProposalMovesOnePanel'
    BY <2>1 DEF DragInv, LayoutOK, SessionOK, ProposalMovesOnePanel
  <2> QED
    BY <2>1, <2>3, <2>4, <2>5, <2>6, <2>7 DEF DragInv, AdoptionFollowsPlan, AdoptedIsWhole
<1>4. CASE CommitFails
  BY <1>4, RollbackKeepsInvariant DEF CommitFails
<1>5. CASE CommitDestroyed
  <2>1. CASE call' = "crashed" /\ UNCHANGED <<parent, plan, stuck, drag>>
    BY <1>5, <2>1 DEF CommitDestroyed, DragInv, LayoutOK, SessionOK, AdoptionOK,
                      WindowsFollowLayout, AdoptionFollowsPlan, AdoptedIsWhole,
                      ProposalMovesOnePanel
  <2>2. CASE (\E failed \in SUBSET Bound : RolledBack(failed)) /\ drag' = Cancelled
    BY <1>5, <2>2, RollbackKeepsInvariant DEF CommitDestroyed
  <2> QED BY <1>5, <2>1, <2>2 DEF CommitDestroyed
<1>6. ASSUME NEW p \in Bound, Adopt(p) PROVE DragInv'
  BY <1>6 DEF Adopt, DragInv, LayoutOK, SessionOK, AdoptionOK, WindowsFollowLayout,
              AdoptionFollowsPlan, AdoptedIsWhole, ProposalMovesOnePanel
<1> QED BY <1>1, <1>2, <1>3, <1>4, <1>5, <1>6

(* DragInv holds: a drag is in step with the layout and its windows at      *)
(* every call (DockDragController, WorkspaceRuntime::CommitDrag).           *)
THEOREM DragInvariance ==
  ASSUME DragAssumption, OnlyEnds PROVE DragSpec => []DragInv
<1>1. DragInv /\ [DragNext]_dragVars => DragInv'
  <2> SUFFICES ASSUME DragInv, [DragNext]_dragVars PROVE DragInv'
    OBVIOUS
  <2>1. CASE DragNext
    BY <2>1, SessionKeepsInvariant, ApplicationKeepsInvariant, CommitKeepsInvariant DEF DragNext
  <2>2. CASE UNCHANGED dragVars
    BY <2>2 DEF dragVars, DragInv, LayoutOK, SessionOK, AdoptionOK, WindowsFollowLayout,
                AdoptionFollowsPlan, AdoptedIsWhole, ProposalMovesOnePanel
  <2> QED BY <2>1, <2>2
<1> QED BY DragInitially, <1>1, PTL DEF DragSpec

(* The state of a drag keeps its types.                                     *)
THEOREM DragTypeCorrect ==
  ASSUME DragAssumption, OnlyEnds PROVE DragSpec => []DragTypeOK
<1>1. DragInv => DragTypeOK
  BY DEF DragInv, LayoutOK, SessionOK, AdoptionOK, DragTypeOK
<1> QED BY DragInvariance, <1>1, PTL

(* Whatever fails and wherever a drag stops, the windows are where the      *)
(* layout has their panels.                                                 *)
THEOREM DragLeavesNoHalf ==
  ASSUME DragAssumption, OnlyEnds PROVE DragSpec => []DragIsConsistent
<1>1. DragInv => WindowsFollowLayout
  BY DEF DragInv
<1> QED BY DragInvariance, DragTypeCorrect, <1>1, PTL DEF DragIsConsistent

(* A drag that commits moves the panel it drags, and undoes no change made  *)
(* since it began.                                                          *)
THEOREM DragMovesOnePanel ==
  ASSUME DragAssumption, OnlyEnds PROVE DragSpec => DragMovesItsPanel
<1>1. DragInv /\ [DragNext]_dragVars
        => [ drag'.state = "committed" /\ drag.state # "committed" =>
               \A p \in Bound \ {drag.panel} : placement'[p] = placement[p] ]_dragVars
  <2> SUFFICES ASSUME DragInv, DragNext, drag'.state = "committed", drag.state # "committed"
               PROVE  \A p \in Bound \ {drag.panel} : placement'[p] = placement[p]
    OBVIOUS
  <2>1. CASE CommitModel
    BY <2>1 DEF CommitModel, DragInv, ProposalMovesOnePanel
  <2>2. Cancelled.state = "committed" => drag.state = "committed"
    BY DEF Cancelled, DragInv, SessionOK
  <2>3. CASE ~CommitModel
    BY <2>2, <2>3 DEF DragNext, Begin, Move, Cancel, Reset, Mutate, Destroy, CommitDrag,
                      AdoptFails, CommitFails, CommitDestroyed, Adopt, Idle, DragInv, SessionOK
  <2> QED BY <2>1, <2>3
<1> QED BY DragInvariance, <1>1, PTL DEF DragSpec, DragMovesItsPanel

-----------------------------------------------------------------------------
(* The minimum of two numbers, which Min chooses.                           *)
LEMMA MinOfTwo ==
  ASSUME NEW a \in Int, NEW b \in Int
  PROVE  Min({a, b}) = IF a <= b THEN a ELSE b
<1>1. \E x \in {a, b} : \A y \in {a, b} : x <= y
  OBVIOUS
<1>2. Min({a, b}) \in {a, b} /\ \A y \in {a, b} : Min({a, b}) <= y
  BY <1>1 DEF Min
<1> QED BY <1>2

(* What SlideIsConsistent says of the slide, for any record s.                       *)
SlideState ==
  {"hidden", "waiting_to_show", "showing", "shown", "waiting_to_hide", "hiding"}

Slide ==
  [state : SlideState, panel : HiddenPanel \cup {NoPanel}, pointer : BOOLEAN, focus : BOOLEAN,
   progress : 0..Animation]

SlideOK(s) ==
  /\ s \in Slide
  /\ s.state \in {"waiting_to_hide", "hiding"} => ~s.pointer /\ ~s.focus
  /\ s.state = "shown" => s.progress = Animation
  /\ s.state = "hidden" => s.progress = 0 /\ s.panel = NoPanel

LEMMA SlideInvIsOK ==
  SlideIsConsistent <=> SlideOK(slide) /\ elapsed \in 0..MaximumDuration
  BY DEF SlideIsConsistent, SlideTypeOK, NeverLeavesItsUser, SlideOK, Slide, SlideState, KeepsOpen

LEMMA SlideInvIsOKNext ==
  SlideIsConsistent' <=> SlideOK(slide') /\ elapsed' \in 0..MaximumDuration
  BY DEF SlideIsConsistent, SlideTypeOK, NeverLeavesItsUser, SlideOK, Slide, SlideState, KeepsOpen

(* A slide that changes its state and its progress.                         *)
Changed(s, state, progress) == [s EXCEPT !.state = state, !.progress = progress]

LEMMA SlideChanged ==
  ASSUME NEW s \in Slide, NEW progress \in 0..Animation,
         NEW state \in SlideState
  PROVE  /\ Changed(s, state, progress) \in Slide
         /\ Changed(s, state, progress).state = state
         /\ Changed(s, state, progress).progress = progress
         /\ Changed(s, state, progress).panel = s.panel
         /\ Changed(s, state, progress).pointer = s.pointer
         /\ Changed(s, state, progress).focus = s.focus
<1>0. PICK r : r = Changed(s, state, progress)
  OBVIOUS
<1>1. s = [state |-> s.state, panel |-> s.panel, pointer |-> s.pointer, focus |-> s.focus,
           progress |-> s.progress]
  BY DEF Slide
<1>2. r = [state |-> state, panel |-> s.panel, pointer |-> s.pointer, focus |-> s.focus,
           progress |-> progress]
  BY <1>0, <1>1 DEF Changed
<1>3. /\ s.panel \in HiddenPanel \cup {NoPanel}
      /\ s.pointer \in BOOLEAN /\ s.focus \in BOOLEAN
  BY DEF Slide
<1>4. /\ r \in Slide /\ r.state = state /\ r.progress = progress
      /\ r.panel = s.panel /\ r.pointer = s.pointer /\ r.focus = s.focus
  BY <1>2, <1>3, Zenon DEF Slide
<1> QED BY <1>0, <1>4

(* What the controller makes of a slide, however it got there.              *)
LEMMA ShownIsOK ==
  ASSUME SlideAssumption, NEW s \in Slide
  PROVE  SlideOK(Shown(s))
<1>1. Animation \in 0..Animation
  BY DEF SlideAssumption
<1>2. Shown(s) = Changed(s, "shown", Animation) /\ "shown" \in SlideState
  BY DEF Shown, Changed, SlideState
<1>3. Shown(s) \in Slide /\ Shown(s).state = "shown" /\ Shown(s).progress = Animation
  BY <1>1, <1>2, SlideChanged
<1> QED BY <1>3 DEF SlideOK

LEMMA LeavingIsOK ==
  ASSUME NEW s \in Slide, ~KeepsOpen(s)
  PROVE  SlideOK(Leaving(s))
  BY DEF Slide, SlideState, SlideOK, Leaving, KeepsOpen

LEMMA InitialIsOK ==
  ASSUME SlideAssumption
  PROVE  SlideOK(Initial) /\ 0 \in 0..MaximumDuration
  BY DEF SlideAssumption, Slide, SlideState, SlideOK, Initial

(* SetPointerInside and SetKeyboardFocusInside: s differs from a good slide *)
(* in who is inside.                                                        *)
LEMMA ToldKeepsInvariant ==
  ASSUME SlideAssumption, SlideIsConsistent, NEW s \in Slide, NEW inside \in BOOLEAN,
         s.state = slide.state, s.panel = slide.panel, s.progress = slide.progress,
         KeepsOpen(s) => inside \/ KeepsOpen(slide),
         Told(s, inside)
  PROVE  SlideIsConsistent'
<1>1. SlideOK(slide) /\ elapsed \in 0..MaximumDuration
  BY SlideInvIsOK
<1>2. CASE inside /\ s.state \in {"waiting_to_hide", "hiding"}
  BY <1>1, <1>2, ShownIsOK, InitialIsOK, SlideInvIsOKNext DEF Told
<1>3. CASE ~inside /\ ~KeepsOpen(s) /\ s.state = "shown"
  BY <1>1, <1>3, LeavingIsOK, InitialIsOK, SlideInvIsOKNext DEF Told
<1>4. CASE /\ ~(inside /\ s.state \in {"waiting_to_hide", "hiding"})
           /\ ~(~inside /\ ~KeepsOpen(s) /\ s.state = "shown")
  <2>1. slide' = s /\ elapsed' = elapsed
    BY <1>4 DEF Told
  <2>2. SlideOK(s)
    BY <1>1, <1>4 DEF SlideOK, KeepsOpen
  <2> QED BY <1>1, <2>1, <2>2, SlideInvIsOKNext
<1> QED BY <1>2, <1>3, <1>4

LEMMA AskingKeepsInvariant ==
  ASSUME SlideAssumption, SlideIsConsistent,
         \/ \E p \in HiddenPanel, pointer \in BOOLEAN : RequestShow(p, pointer)
         \/ RequestHide \/ HideNow
         \/ \E inside \in BOOLEAN : SetPointerInside(inside) \/ SetKeyboardFocusInside(inside)
  PROVE  SlideIsConsistent'
<1>0. SlideOK(slide) /\ slide \in Slide /\ elapsed \in 0..MaximumDuration
      /\ 0 \in 0..MaximumDuration
  BY SlideInvIsOK, InitialIsOK DEF SlideOK
<1>1. ASSUME NEW p \in HiddenPanel, NEW pointer \in BOOLEAN, RequestShow(p, pointer)
      PROVE  SlideIsConsistent'
  <2>1. PICK s : s = [slide EXCEPT !.panel = p]
    OBVIOUS
  <2>2. s \in Slide /\ s.state = slide.state /\ s.pointer = slide.pointer
        /\ s.focus = slide.focus /\ s.progress = slide.progress
    BY <1>0, <2>1 DEF Slide
  <2>3. elapsed' = 0
    BY <1>1 DEF RequestShow
  <2>4. CASE ~pointer
    BY <1>0, <1>1, <2>1, <2>2, <2>3, <2>4, ShownIsOK, SlideInvIsOKNext DEF RequestShow
  <2>5. CASE pointer /\ (slide.panel # p \/ slide.state \in {"hidden", "hiding"})
    <3>1. slide' = [s EXCEPT !.progress = 0,
                             !.state = IF ShowDelay = 0 THEN "showing" ELSE "waiting_to_show"]
      BY <1>1, <2>1, <2>5 DEF RequestShow
    <3>2. PICK state \in {"showing", "waiting_to_show"} : slide' = Changed(s, state, 0)
      BY <3>1 DEF Changed
    <3>3. 0 \in 0..Animation /\ state \in SlideState
      BY DEF SlideAssumption, SlideState
    <3>4. slide' \in Slide /\ slide'.state = state
      BY <2>2, <3>2, <3>3, SlideChanged
    <3>5. SlideOK(slide')
      BY <3>4 DEF SlideOK
    <3> QED BY <1>0, <2>3, <3>5, SlideInvIsOKNext
  <2>6. CASE /\ pointer /\ slide.panel = p /\ slide.state \notin {"hidden", "hiding"}
             /\ slide.state = "waiting_to_hide"
    BY <1>0, <1>1, <2>1, <2>2, <2>3, <2>6, ShownIsOK, SlideInvIsOKNext DEF RequestShow
  <2>7. CASE /\ pointer /\ slide.panel = p /\ slide.state \notin {"hidden", "hiding"}
             /\ slide.state # "waiting_to_hide"
    <3>1. slide' = s
      BY <1>1, <2>1, <2>7 DEF RequestShow
    <3>2. SlideOK(s)
      BY <1>0, <2>2, <2>7 DEF SlideOK
    <3> QED BY <1>0, <2>3, <3>1, <3>2, SlideInvIsOKNext
  <2> QED BY <2>4, <2>5, <2>6, <2>7
<1>2. CASE RequestHide
  BY <1>0, <1>2, LeavingIsOK, SlideInvIsOKNext DEF RequestHide
<1>3. CASE HideNow
  BY <1>3, InitialIsOK, SlideInvIsOKNext DEF HideNow
<1>4. ASSUME NEW inside \in BOOLEAN, SetPointerInside(inside) PROVE SlideIsConsistent'
  <2>1. PICK s : s = [slide EXCEPT !.pointer = inside]
    OBVIOUS
  <2>2. s \in Slide /\ s.state = slide.state /\ s.panel = slide.panel
        /\ s.progress = slide.progress /\ (KeepsOpen(s) => inside \/ KeepsOpen(slide))
    BY <1>0, <2>1 DEF Slide, KeepsOpen
  <2> QED BY <1>4, <2>1, <2>2, ToldKeepsInvariant DEF SetPointerInside
<1>5. ASSUME NEW inside \in BOOLEAN, SetKeyboardFocusInside(inside) PROVE SlideIsConsistent'
  <2>1. PICK s : s = [slide EXCEPT !.focus = inside]
    OBVIOUS
  <2>2. s \in Slide /\ s.state = slide.state /\ s.panel = slide.panel
        /\ s.progress = slide.progress /\ (KeepsOpen(s) => inside \/ KeepsOpen(slide))
    BY <1>0, <2>1 DEF Slide, KeepsOpen
  <2> QED BY <1>5, <2>1, <2>2, ToldKeepsInvariant DEF SetKeyboardFocusInside
<1> QED BY <1>1, <1>2, <1>3, <1>4, <1>5

(* One call of Advance: the panel comes in, goes out, or waits.             *)
LEMMA AdvanceKeepsInvariant ==
  ASSUME SlideAssumption, SlideIsConsistent, NEW ticks \in 1..MaximumDuration + 1, Advance(ticks)
  PROVE  SlideIsConsistent'
<1>0. SlideOK(slide) /\ slide \in Slide /\ elapsed \in 0..MaximumDuration
      /\ 0 \in 0..MaximumDuration
  BY SlideInvIsOK, InitialIsOK DEF SlideOK
<1>1. PICK t : t = elapsed + Min({ticks, MaximumDuration})
  OBVIOUS
<1>2. t \in Nat
  BY <1>0, <1>1, MinOfTwo DEF SlideAssumption
<1>3. \A u \in Nat : Fraction(u) = IF u < Animation THEN u ELSE Animation
  BY MinOfTwo DEF SlideAssumption, Fraction
(* Slid(u) and SlidOut(u) of Advance.                                       *)
<1>4. ASSUME NEW u \in Nat,
             slide' = [slide EXCEPT !.state = IF u >= Animation THEN "shown" ELSE "showing",
                                    !.progress = Fraction(u)],
             elapsed' = IF u >= Animation THEN 0 ELSE u
      PROVE  SlideIsConsistent'
  <2>1. Fraction(u) \in 0..Animation /\ (u >= Animation => Fraction(u) = Animation)
    BY <1>3 DEF SlideAssumption
  <2>2. PICK state \in {"shown", "showing"}, progress \in 0..Animation :
          /\ slide' = Changed(slide, state, progress)
          /\ state = "shown" => progress = Animation
    BY <1>4, <2>1 DEF Changed
  <2>3. state \in SlideState
    BY <2>2 DEF SlideState
  <2>4. slide' \in Slide /\ slide'.state = state /\ slide'.progress = progress
    BY <1>0, <2>2, <2>3, SlideChanged
  <2>5. SlideOK(slide')
    BY <2>2, <2>4 DEF SlideOK
  <2>6. elapsed' \in 0..MaximumDuration
    BY <1>0, <1>4 DEF SlideAssumption
  <2> QED BY <2>5, <2>6, SlideInvIsOKNext
<1>5. ASSUME NEW u \in Nat, slide.state \in {"waiting_to_hide", "hiding"},
             IF u >= Animation THEN HideNow
             ELSE /\ slide' = [slide EXCEPT !.state = "hiding",
                                            !.progress = Animation - Fraction(u)]
                  /\ elapsed' = u
      PROVE  SlideIsConsistent'
  <2>1. CASE u >= Animation
    BY <1>5, <2>1, InitialIsOK, SlideInvIsOKNext DEF HideNow
  <2>2. CASE ~(u >= Animation)
    <3>1. Animation - Fraction(u) \in 0..Animation
      BY <1>3 DEF SlideAssumption
    <3>2. PICK progress \in 0..Animation : slide' = Changed(slide, "hiding", progress)
      BY <1>5, <2>2, <3>1 DEF Changed
    <3>3. "hiding" \in SlideState
      BY DEF SlideState
    <3>4. /\ slide' \in Slide /\ slide'.state = "hiding"
          /\ slide'.pointer = slide.pointer /\ slide'.focus = slide.focus
      BY <1>0, <3>2, <3>3, SlideChanged
    <3>5. SlideOK(slide')
      BY <1>0, <1>5, <3>4 DEF SlideOK
    <3>6. elapsed' \in 0..MaximumDuration
      BY <1>0, <1>5, <2>2 DEF SlideAssumption
    <3> QED BY <3>5, <3>6, SlideInvIsOKNext
  <2> QED BY <2>1, <2>2
<1>6. ASSUME NEW d \in 0..MaximumDuration, t < d, slide' = slide, elapsed' = t
      PROVE  SlideIsConsistent'
  BY <1>0, <1>2, <1>6, SlideInvIsOKNext DEF SlideAssumption
<1>7. {ShowDelay, HideDelay} \subseteq 0..MaximumDuration
  BY DEF SlideAssumption
<1>8. CASE slide.state = "waiting_to_show"
  <2>1. CASE t < ShowDelay
    BY <1>1, <1>6, <1>7, <1>8, <2>1 DEF Advance
  <2>2. CASE ~(t < ShowDelay)
    <3>1. t - ShowDelay \in Nat
      BY <1>2, <1>7, <2>2
    <3> QED BY <1>1, <1>4, <1>8, <2>2, <3>1 DEF Advance
  <2> QED BY <2>1, <2>2
<1>9. CASE slide.state = "showing"
  BY <1>1, <1>2, <1>4, <1>9 DEF Advance
<1>10. CASE slide.state = "waiting_to_hide"
  <2>1. ~KeepsOpen(slide)
    BY <1>0, <1>10 DEF SlideOK, KeepsOpen
  <2>2. CASE t < HideDelay
    BY <1>1, <1>6, <1>7, <1>10, <2>1, <2>2 DEF Advance
  <2>3. CASE ~(t < HideDelay)
    <3>1. t - HideDelay \in Nat
      BY <1>2, <1>7, <2>3
    <3> QED BY <1>1, <1>5, <1>10, <2>1, <2>3, <3>1 DEF Advance
  <2> QED BY <2>2, <2>3
<1>11. CASE slide.state = "hiding"
  BY <1>1, <1>2, <1>5, <1>11 DEF Advance
<1>12. CASE slide.state \in {"hidden", "shown"}
  <2>1. UNCHANGED slideVars
    BY <1>12 DEF Advance
  <2> QED BY <1>0, <2>1, SlideInvIsOKNext DEF slideVars
<1> QED BY <1>0, <1>8, <1>9, <1>10, <1>11, <1>12 DEF Slide, SlideState

(* A panel never slides out under the pointer or the focus, and what is     *)
(* shown or hidden has finished its animation.                              *)
THEOREM SlideStaysWithItsUser ==
  ASSUME SlideAssumption PROVE SlideSpec => []SlideIsConsistent
<1>1. SlideIsConsistent /\ [SlideNext]_slideVars => SlideIsConsistent'
  <2> SUFFICES ASSUME SlideIsConsistent, [SlideNext]_slideVars PROVE SlideIsConsistent'
    OBVIOUS
  <2>1. CASE SlideNext
    BY <2>1, AskingKeepsInvariant, AdvanceKeepsInvariant DEF SlideNext
  <2>2. CASE UNCHANGED slideVars
    BY <2>2, SlideInvIsOK, SlideInvIsOKNext DEF slideVars
  <2> QED BY <2>1, <2>2
<1>2. SlideInit => SlideIsConsistent
  BY SlideInvIsOK, InitialIsOK DEF SlideInit
<1> QED BY <1>1, <1>2, PTL DEF SlideSpec

-----------------------------------------------------------------------------
(***************************************************************************)
(* HotCorners.  The lists that are kept by the number of a monitor have one *)
(* length, the selectors show what the settings say, and a choice is where  *)
(* it was made.  The tracker has aged as long as the program has watched.   *)
(***************************************************************************)
Area == [left : Int, top : Int, right : Int, bottom : Int]

SideBySide(ms) ==
  /\ ms \in Seq(Area)
  /\ \A m \in DOMAIN ms : ms[m].left < ms[m].right /\ ms[m].top < ms[m].bottom
  /\ \A m, k \in DOMAIN ms : m # k => Apart(ms[m], ms[k])

CornerOfMonitor == (Nat \ {0}) \X Corner

SettingsOK ==
  /\ settings \in [dwell : Dwell, tolerance : Tolerance, enabled : BOOLEAN,
                   pauseForFullscreen : BOOLEAN, monitors : Seq([Corner -> Action])]
  /\ registry = [dwell |-> registry.dwell, tolerance |-> registry.tolerance,
                 enabled |-> registry.enabled,
                 pauseForFullscreen |-> registry.pauseForFullscreen,
                 actions |-> registry.actions]
  /\ registry.dwell \in Dwell /\ registry.tolerance \in Tolerance
  /\ registry.enabled \in BOOLEAN /\ registry.pauseForFullscreen \in BOOLEAN
  /\ DOMAIN registry.actions \subseteq CornerOfMonitor
  /\ \A x \in DOMAIN registry.actions : registry.actions[x] \in Action

SelectorsOK ==
  /\ displays \in Arrangement /\ SideBySide(monitors)
  /\ combos \in [Corner -> Action] /\ shown \in Nat \ {0}
  /\ shown \in DOMAIN settings.monitors => combos = settings.monitors[shown]
  /\ Running => /\ Len(settings.monitors) = Len(monitors)
                /\ monitors # <<>> => shown \in DOMAIN monitors

ChoicesOK ==
  /\ Running => /\ DOMAIN chosen \subseteq CornerOfMonitor
                /\ \A x \in DOMAIN chosen : x[1] \in DOMAIN settings.monitors
                                            /\ settings.monitors[x[1]][x[2]] = chosen[x]
  /\ DOMAIN kept \subseteq DOMAIN registry.actions
  /\ \A x \in DOMAIN kept : registry.actions[x] = kept[x]

ChoiceInv == SettingsOK /\ SelectorsOK /\ ChoicesOK

IconInv ==
  /\ icon \in [state : {"detached", "recovery", "added"},
               tooltip : {"none", "watching", "paused"}]
  /\ IconIsAsCached

WatchInv ==
  /\ tracker \in [hit : [monitor : DOMAIN monitors, corner : Corner] \cup {NoHit},
                  age : Nat, fired : BOOLEAN]
  /\ quiet = tracker.age
  /\ acted \in BOOLEAN /\ (acted => tracker.fired)
  /\ tracker.hit = NoHit => ~tracker.fired

-----------------------------------------------------------------------------
LEMMA NatLeast ==
  ASSUME NEW T, T \subseteq Nat, T # {}
  PROVE  \E n \in T : \A m \in T : n <= m
<1>1. PICK n \in T : \A m \in T : ~(<<m, n>> \in OpToRel(<, Nat))
  BY NatLessThanWellFounded, WFMin
<1>2. ASSUME NEW m \in T PROVE n <= m
  <2>1. m \in Nat /\ n \in Nat
    OBVIOUS
  <2>2. ~(m < n)
    BY <1>1, <2>1 DEF OpToRel
  <2> QED BY <2>1, <2>2
<1> QED BY <1>2

LEMMA MinOfNaturals ==
  ASSUME NEW T, T \subseteq Nat, T # {}
  PROVE  Min(T) \in T /\ \A m \in T : Min(T) <= m
<1>1. \E n \in T : \A m \in T : n <= m
  BY NatLeast
<1> QED BY <1>1 DEF Min

LEMMA HotConstants ==
  /\ Dwell \subseteq Nat /\ 0 \notin Dwell /\ Min(Dwell) \in Dwell
  /\ Longest \in Nat /\ \A d \in Dwell : d <= Longest
  /\ Tolerance \subseteq Nat /\ Min(Tolerance) \in Tolerance
  /\ Default \in [Corner -> Action]
  /\ NoHit \notin [monitor : Nat, corner : Corner]
<1>1. /\ Dwell \subseteq Nat \ {0} /\ \E d \in Dwell : \A e \in Dwell : e <= d
      /\ Tolerance \subseteq Nat /\ Tolerance # {}
      /\ Default \in [Corner -> Action] /\ NoHit \notin [monitor : Nat, corner : Corner]
  BY HotAssumption DEF HotAssumption
<1>2. Max(Dwell) \in Dwell /\ \A e \in Dwell : e <= Max(Dwell)
  <2>1. \E d \in Dwell : \A e \in Dwell : d >= e
    BY <1>1
  <2> QED BY <1>1, <2>1 DEF Max
<1>3. Min(Dwell) \in Dwell /\ Min(Tolerance) \in Tolerance
  BY <1>1, MinOfNaturals
<1> QED BY <1>1, <1>2, <1>3 DEF Longest

(* A finite set of areas has one that no other comes after.                 *)
LEMMA LastArea ==
  ASSUME NEW A, IsFiniteSet(A), A # {}, A \subseteq Area
  PROVE  \E g \in A : \A a \in A : ~Before(g, a)
<1> DEFINE HasLast(B) == \E g \in B : \A a \in B : ~Before(g, a)
<1> DEFINE C == {n \in Nat : \E B \in SUBSET A : B # {} /\ Cardinality(B) = n /\ ~HasLast(B)}
<1>1. SUFFICES C = {}
  <2>1. Cardinality(A) \in Nat
    BY FS_CardinalityType
  <2> QED BY <1>1, <2>1
<1>2. SUFFICES ASSUME C # {} PROVE FALSE
  OBVIOUS
<1>3. PICK n \in C : \A m \in C : n <= m
  BY <1>2, NatLeast
<1>4. PICK B \in SUBSET A : B # {} /\ Cardinality(B) = n /\ ~HasLast(B)
  BY <1>3
<1>5. PICK b \in B : TRUE
  BY <1>4
<1>6. ~Before(b, b)
  BY <1>5 DEF Before, Area
<1>7. B \ {b} # {}
  BY <1>4, <1>5, <1>6
<1>8. IsFiniteSet(B) /\ Cardinality(B \ {b}) = n - 1 /\ n - 1 \in Nat
  <2>1. IsFiniteSet(B)
    BY FS_Subset
  <2>2. IsFiniteSet(B \ {b}) /\ Cardinality(B \ {b}) = Cardinality(B) - 1
    BY <1>5, <2>1, FS_RemoveElement
  <2>3. Cardinality(B \ {b}) \in Nat
    BY <2>2, FS_CardinalityType
  <2> QED BY <1>4, <2>1, <2>2, <2>3
<1>9. n - 1 \notin C
  BY <1>3, <1>8
<1>10. PICK g \in B \ {b} : \A a \in B \ {b} : ~Before(g, a)
  BY <1>7, <1>8, <1>9
<1>11. CASE Before(g, b)
  <2>1. ASSUME NEW a \in B, Before(b, a) PROVE FALSE
    <3>1. a \in Area /\ b \in Area /\ g \in Area
      OBVIOUS
    <3>2. Before(g, a)
      BY <1>11, <2>1, <3>1 DEF Before, Area
    <3> QED BY <1>6, <1>10, <2>1, <3>2
  <2> QED BY <1>4, <2>1
<1>12. CASE ~Before(g, b)
  BY <1>4, <1>10, <1>12
<1> QED BY <1>11, <1>12

(* Areas of which one comes before the other can be put in order.           *)
LEMMA AreasCanBeSorted ==
  ASSUME NEW A, IsFiniteSet(A), A \subseteq Area,
         \A a, b \in A : a # b => Before(a, b) \/ Before(b, a)
  PROVE  \E ms \in [1..Cardinality(A) -> A] :
           \A m, k \in DOMAIN ms : m < k => Before(ms[m], ms[k])
<1> DEFINE InOrder(B) == \E ms \in [1..Cardinality(B) -> B] :
                           \A m, k \in DOMAIN ms : m < k => Before(ms[m], ms[k])
<1> DEFINE C == {n \in Nat : \E B \in SUBSET A : Cardinality(B) = n /\ ~InOrder(B)}
<1>1. SUFFICES C = {}
  <2>1. Cardinality(A) \in Nat
    BY FS_CardinalityType
  <2> QED BY <1>1, <2>1
<1>2. SUFFICES ASSUME C # {} PROVE FALSE
  OBVIOUS
<1>3. PICK n \in C : \A m \in C : n <= m
  BY <1>2, NatLeast
<1>4. PICK B \in SUBSET A : Cardinality(B) = n /\ ~InOrder(B)
  BY <1>3
<1>5. IsFiniteSet(B) /\ n \in Nat
  BY FS_Subset
<1>6. B # {}
  <2> SUFFICES ASSUME B = {} PROVE InOrder(B)
    BY <1>4
  <2>1. Cardinality(B) = 0
    BY FS_EmptySet
  <2>2. [m \in {} |-> m] \in [1..Cardinality(B) -> B]
    BY <2>1
  <2>3. DOMAIN [m \in {} |-> m] = {}
    OBVIOUS
  <2> QED BY <2>2, <2>3
<1>7. PICK g \in B : \A a \in B : ~Before(g, a)
  BY <1>5, <1>6, LastArea
<1>8. IsFiniteSet(B \ {g}) /\ Cardinality(B \ {g}) = n - 1 /\ n - 1 \in Nat
  <2>1. IsFiniteSet(B \ {g}) /\ Cardinality(B \ {g}) = Cardinality(B) - 1
    BY <1>5, <1>7, FS_RemoveElement
  <2>2. Cardinality(B \ {g}) \in Nat
    BY <2>1, FS_CardinalityType
  <2> QED BY <1>4, <2>1, <2>2
<1>9. InOrder(B \ {g})
  <2>1. n - 1 \notin C
    <3> HIDE DEF C
    <3> QED BY <1>3, <1>5, <1>8
  <2>2. B \ {g} \in SUBSET A
    OBVIOUS
  <2> HIDE DEF InOrder
  <2> QED BY <1>8, <2>1, <2>2
<1>10. PICK ms \in [1..n - 1 -> B \ {g}] :
         \A m, k \in 1..n - 1 : m < k => Before(ms[m], ms[k])
  BY <1>8, <1>9
<1>11. PICK es : es = [m \in 1..n |-> IF m = n THEN g ELSE ms[m]]
  OBVIOUS
<1>12. es \in [1..n -> B]
  <2>1. ASSUME NEW m \in 1..n PROVE (IF m = n THEN g ELSE ms[m]) \in B
    <3>1. m # n => m \in 1..n - 1
      BY <1>5
    <3> QED BY <1>7, <1>10, <3>1
  <2> QED BY <1>11, <2>1
<1>13. ASSUME NEW m \in 1..n, NEW k \in 1..n, m < k PROVE Before(es[m], es[k])
  <2>1. m \in 1..n - 1 /\ es[m] = ms[m]
    BY <1>5, <1>11, <1>13
  <2>2. CASE k = n
    <3>1. ms[m] \in B /\ ms[m] # g
      BY <1>10, <2>1
    <3>2. Before(ms[m], g)
      BY <1>7, <3>1
    <3> QED BY <1>11, <2>1, <2>2, <3>2
  <2>3. CASE k # n
    <3>1. k \in 1..n - 1 /\ es[k] = ms[k]
      BY <1>5, <1>11, <2>3
    <3> QED BY <1>10, <1>13, <2>1, <3>1
  <2> QED BY <2>2, <2>3
<1> QED BY <1>4, <1>12, <1>13

LEMMA SortedAreSideBySide ==
  ASSUME NEW A \in Arrangement
  PROVE  SideBySide(Sorted(A))
<1>1. /\ IsFiniteSet(A) /\ A \subseteq Area
      /\ \A a \in A : a.left < a.right /\ a.top < a.bottom
      /\ \A a, b \in A : a # b => Apart(a, b)
  BY HotAssumption DEF HotAssumption, Area
<1>2. ASSUME NEW a \in A, NEW b \in A, a # b PROVE Before(a, b) \/ Before(b, a)
  <2>1. /\ a.left \in Int /\ a.top \in Int /\ a.right \in Int /\ a.bottom \in Int
        /\ b.left \in Int /\ b.top \in Int /\ b.right \in Int /\ b.bottom \in Int
    BY <1>1 DEF Area
  <2> QED BY <1>1, <1>2, <2>1 DEF Apart, Before
<1>3. PICK n \in Nat : n = Cardinality(A)
  BY <1>1, FS_CardinalityType
<1>4. PICK ms : ms = Sorted(A)
  OBVIOUS
<1>5. \E es \in [1..n -> A] : \A m, k \in DOMAIN es : m < k => Before(es[m], es[k])
  BY <1>1, <1>2, <1>3, AreasCanBeSorted
<1>6. ms \in [1..n -> A] /\ \A m, k \in DOMAIN ms : m < k => Before(ms[m], ms[k])
  BY <1>3, <1>4, <1>5 DEF Sorted
<1>7. ms \in Seq(Area) /\ DOMAIN ms = 1..n
  <2>1. ms \in [1..n -> Area]
    BY <1>1, <1>6
  <2> QED BY <1>3, <2>1
<1>8. ASSUME NEW m \in 1..n, NEW k \in 1..n, m # k PROVE Apart(ms[m], ms[k])
  <2>1. ms[m] \in A /\ ms[k] \in A
    BY <1>6
  <2>2. Before(ms[m], ms[k]) \/ Before(ms[k], ms[m])
    BY <1>6, <1>7, <1>8
  <2>3. \A a \in A : ~Before(a, a)
    BY <1>1 DEF Before, Area
  <2> QED BY <1>1, <2>1, <2>2, <2>3
<1> QED BY <1>1, <1>4, <1>6, <1>7, <1>8 DEF SideBySide

-----------------------------------------------------------------------------
(* SaveSettings and LoadSettings.                                           *)

LEMMA SavingKeepsChoices ==
  ASSUME SettingsOK, NEW s, NEW choices, SaveSettings(s, choices),
         DOMAIN kept \subseteq DOMAIN registry.actions,
         \A x \in DOMAIN kept : registry.actions[x] = kept[x],
         s \in [dwell : Dwell, tolerance : Tolerance, enabled : BOOLEAN,
                pauseForFullscreen : BOOLEAN, monitors : Seq([Corner -> Action])],
         DOMAIN choices \subseteq CornerOfMonitor,
         \A x \in DOMAIN choices : x[1] \in DOMAIN s.monitors
                                   /\ s.monitors[x[1]][x[2]] = choices[x]
  PROVE  /\ registry' = Written(registry', registry'.actions)
         /\ registry'.dwell \in Dwell /\ registry'.tolerance \in Tolerance
         /\ registry'.enabled \in BOOLEAN /\ registry'.pauseForFullscreen \in BOOLEAN
         /\ DOMAIN registry'.actions \subseteq CornerOfMonitor
         /\ \A x \in DOMAIN registry'.actions : registry'.actions[x] \in Action
         /\ DOMAIN kept' \subseteq DOMAIN registry'.actions
         /\ \A x \in DOMAIN kept' : registry'.actions[x] = kept'[x]
<1>1. CASE UNCHANGED <<registry, kept>>
  BY <1>1 DEF SettingsOK, Written
<1>2. CASE /\ registry' = Written(s, Over(ActionsOf(s), registry.actions))
           /\ kept' = Over(choices, [x \in {y \in DOMAIN kept : y[1] > Len(s.monitors)} |-> kept[x]])
  <2>1. PICK R : R = registry.actions
    OBVIOUS
  <2>2. PICK ms \in Seq([Corner -> Action]) : ms = s.monitors
    OBVIOUS
  <2>3. PICK A : A = ActionsOf(s)
    OBVIOUS
  <2>4. A = [x \in (DOMAIN ms) \X Corner |-> ms[x[1]][x[2]]]
    BY <2>2, <2>3 DEF ActionsOf
  <2>5. DOMAIN ms = 1..Len(ms) /\ Len(ms) \in Nat
    BY <2>2
  <2>6. \A x \in DOMAIN A : x \in CornerOfMonitor /\ x[1] <= Len(ms)
                            /\ A[x] = ms[x[1]][x[2]] /\ A[x] \in Action
    <3> SUFFICES ASSUME NEW x \in DOMAIN A
                 PROVE  /\ x \in CornerOfMonitor /\ x[1] <= Len(ms)
                        /\ A[x] = ms[x[1]][x[2]] /\ A[x] \in Action
      OBVIOUS
    <3>0. x \in (DOMAIN ms) \X Corner
      BY <2>4
    <3>1. PICK m \in DOMAIN ms, c \in Corner : x = <<m, c>>
      BY <3>0
    <3>2. A[x] = ms[m][c] /\ x[1] = m /\ x[2] = c
      BY <2>4, <3>0, <3>1
    <3>3. ms[m] \in [Corner -> Action]
      BY <2>2
    <3>4. ms[m][c] \in Action
      BY <3>3
    <3>5. m \in Nat \ {0} /\ m <= Len(ms)
      BY <2>5
    <3> QED BY <3>1, <3>2, <3>4, <3>5 DEF CornerOfMonitor
  <2>7. DOMAIN R \subseteq CornerOfMonitor /\ \A x \in DOMAIN R : R[x] \in Action
    BY <2>1 DEF SettingsOK
  <2>8. PICK N : N = Over(A, R)
    OBVIOUS
  <2>9. /\ DOMAIN N = DOMAIN A \cup DOMAIN R
        /\ \A x \in DOMAIN A : N[x] = A[x]
        /\ \A x \in DOMAIN R \ DOMAIN A : N[x] = R[x]
    BY <2>8 DEF Over
  <2>10. registry' = Written(s, N) /\ registry'.actions = N
    BY <1>2, <2>1, <2>3, <2>8 DEF Written
  <2>11. PICK O : O = [x \in {y \in DOMAIN kept : y[1] > Len(s.monitors)} |-> kept[x]]
    OBVIOUS
  <2>12. /\ DOMAIN kept' = DOMAIN choices \cup DOMAIN O
         /\ \A x \in DOMAIN choices : kept'[x] = choices[x]
         /\ \A x \in DOMAIN O \ DOMAIN choices : kept'[x] = O[x]
    BY <1>2, <2>11 DEF Over
  <2>13. ASSUME NEW x \in DOMAIN choices
         PROVE  x \in DOMAIN N /\ N[x] = choices[x]
    <3>1. x \in DOMAIN A
      BY <2>2, <2>4 DEF CornerOfMonitor
    <3> QED BY <2>2, <2>6, <2>9, <3>1
  <2>14. ASSUME NEW x \in DOMAIN O
         PROVE  x \in DOMAIN N /\ N[x] = O[x]
    <3>1. x \in DOMAIN kept /\ x[1] > Len(ms) /\ O[x] = kept[x]
      BY <2>2, <2>11
    <3>2. x \in DOMAIN R /\ R[x] = kept[x]
      BY <2>1, <3>1
    <3>3. x \notin DOMAIN A
      <4>1. x[1] \in Nat
        BY <2>7, <3>2 DEF CornerOfMonitor
      <4> QED BY <2>5, <2>6, <3>1, <4>1
    <3> QED BY <2>9, <3>1, <3>2, <3>3
  <2>15. DOMAIN N \subseteq CornerOfMonitor /\ \A x \in DOMAIN N : N[x] \in Action
    BY <2>6, <2>7, <2>9
  <2>16. DOMAIN kept' \subseteq DOMAIN N /\ \A x \in DOMAIN kept' : N[x] = kept'[x]
    BY <2>12, <2>13, <2>14
  <2> QED BY <2>10, <2>15, <2>16 DEF Written
<1> QED BY <1>1, <1>2 DEF SaveSettings

LEMMA LoadedSettings ==
  ASSUME SettingsOK, NEW n \in Nat, NEW s, s = LoadSettings(n)
  PROVE  /\ s \in [dwell : Dwell, tolerance : Tolerance, enabled : BOOLEAN,
                   pauseForFullscreen : BOOLEAN, monitors : Seq([Corner -> Action])]
         /\ Len(s.monitors) = n
         /\ \A x \in DOMAIN registry.actions :
              x[1] <= n => x[1] \in DOMAIN s.monitors
                           /\ s.monitors[x[1]][x[2]] = registry.actions[x]
<1>1. PICK R : R = registry.actions
  OBVIOUS
<1>2. DOMAIN R \subseteq CornerOfMonitor /\ \A x \in DOMAIN R : R[x] \in Action
  BY <1>1 DEF SettingsOK
<1>3. PICK ms : ms = [m \in 1..n |-> [c \in Corner |-> IF <<m, c>> \in DOMAIN R
                                                       THEN R[<<m, c>>] ELSE Default[c]]]
  OBVIOUS
<1>4. ms \in [1..n -> [Corner -> Action]]
  BY <1>2, <1>3, HotConstants
<1>5. ms \in Seq([Corner -> Action]) /\ Len(ms) = n /\ DOMAIN ms = 1..n
  BY <1>4
<1>6. s = [dwell |-> registry.dwell, tolerance |-> registry.tolerance,
           enabled |-> registry.enabled,
           pauseForFullscreen |-> registry.pauseForFullscreen, monitors |-> ms]
  BY <1>1, <1>3 DEF LoadSettings
<1>7. ASSUME NEW x \in DOMAIN R, x[1] <= n
      PROVE  x[1] \in DOMAIN ms /\ ms[x[1]][x[2]] = R[x]
  <2>1. PICK m \in Nat \ {0}, c \in Corner : x = <<m, c>>
    BY <1>2 DEF CornerOfMonitor
  <2>2. m \in 1..n
    BY <1>7, <2>1
  <2> QED BY <1>3, <1>5, <2>1, <2>2
<1> QED BY <1>1, <1>5, <1>6, <1>7 DEF SettingsOK

LEMMA StoringChangesNothing ==
  ASSUME SettingsOK, SelectorsOK
  PROVE  StoreVisibleMonitor(settings) = settings
<1>1. CASE shown > Len(settings.monitors)
  BY <1>1 DEF StoreVisibleMonitor
<1>2. CASE ~(shown > Len(settings.monitors))
  <2>1. PICK ms \in Seq([Corner -> Action]) : ms = settings.monitors
    BY DEF SettingsOK
  <2>2. shown \in DOMAIN ms /\ combos = ms[shown]
    BY <1>2, <2>1 DEF SelectorsOK
  <2>3. [ms EXCEPT ![shown] = combos] = ms
    BY <2>1, <2>2
  <2>4. [settings EXCEPT !.monitors[shown] = combos] = [settings EXCEPT !.monitors = ms]
    BY <2>1, <2>3 DEF SettingsOK
  <2>5. [settings EXCEPT !.monitors = ms] = settings
    BY <2>1 DEF SettingsOK
  <2> QED BY <1>2, <2>4, <2>5 DEF StoreVisibleMonitor
<1> QED BY <1>1, <1>2

LEMMA ChoicesInitially == HotInit => ChoiceInv
<1> SUFFICES ASSUME HotInit PROVE ChoiceInv
  OBVIOUS
<1> USE HotConstants
<1>1. /\ settings = DefaultSettings /\ registry = Written(DefaultSettings, <<>>)
      /\ monitors = <<>> /\ shown = 1 /\ combos = Default /\ displays \in Arrangement
      /\ chosen = <<>> /\ kept = <<>> /\ life = "off"
  BY DEF HotInit
<1>2. SettingsOK
  BY <1>1 DEF SettingsOK, DefaultSettings, Written
<1>3. SideBySide(monitors)
  BY <1>1 DEF SideBySide
<1>4. SelectorsOK
  BY <1>1, <1>3 DEF SelectorsOK, Running, DefaultSettings
<1>5. ChoicesOK
  BY <1>1 DEF ChoicesOK, Running
<1> QED BY <1>2, <1>4, <1>5 DEF ChoiceInv

LEMMA OutsideKeepsChoices ==
  ASSUME ChoiceInv, displays' \in Arrangement,
         UNCHANGED <<life, settings, monitors, shown, combos, registry, chosen, kept>>
  PROVE  ChoiceInv'
BY DEF ChoiceInv, SettingsOK, SelectorsOK, ChoicesOK, Running

LEMMA SettingChangesKeepChoices ==
  ASSUME ChoiceInv, ToggleSetting \/ ChangeTiming
  PROVE  ChoiceInv'
<1>1. /\ life' = life /\ monitors' = monitors /\ shown' = shown /\ combos' = combos
      /\ displays' = displays /\ chosen' = chosen /\ Running
      /\ SaveSettings(settings', chosen)
  BY DEF ToggleSetting, ChangeTiming, displayVars, outside, Command
<1>2. PICK s, c : s = settings' /\ c = chosen
  OBVIOUS
<1>3. /\ s \in [dwell : Dwell, tolerance : Tolerance, enabled : BOOLEAN,
                pauseForFullscreen : BOOLEAN, monitors : Seq([Corner -> Action])]
      /\ s.monitors = settings.monitors
  BY <1>2 DEF ToggleSetting, ChangeTiming, ChoiceInv, SettingsOK
<1>4. SaveSettings(s, c)
  BY <1>1, <1>2
<1>5. /\ DOMAIN c \subseteq CornerOfMonitor
      /\ \A x \in DOMAIN c : x[1] \in DOMAIN s.monitors
                             /\ s.monitors[x[1]][x[2]] = c[x]
      /\ DOMAIN kept \subseteq DOMAIN registry.actions
      /\ \A x \in DOMAIN kept : registry.actions[x] = kept[x]
  BY <1>1, <1>2, <1>3 DEF ChoiceInv, ChoicesOK
<1>6. SettingsOK
  BY DEF ChoiceInv
<1>7. /\ registry' = Written(registry', registry'.actions)
      /\ registry'.dwell \in Dwell /\ registry'.tolerance \in Tolerance
      /\ registry'.enabled \in BOOLEAN /\ registry'.pauseForFullscreen \in BOOLEAN
      /\ DOMAIN registry'.actions \subseteq CornerOfMonitor
      /\ \A x \in DOMAIN registry'.actions : registry'.actions[x] \in Action
      /\ DOMAIN kept' \subseteq DOMAIN registry'.actions
      /\ \A x \in DOMAIN kept' : registry'.actions[x] = kept'[x]
  BY <1>3, <1>4, <1>5, <1>6, SavingKeepsChoices
<1>8. SettingsOK'
  BY <1>2, <1>3, <1>7 DEF SettingsOK, Written
<1>9. SelectorsOK'
  BY <1>1, <1>2, <1>3 DEF ChoiceInv, SelectorsOK, Running
<1>10. ChoicesOK'
  BY <1>1, <1>2, <1>5, <1>7 DEF ChoicesOK, Running
<1> QED BY <1>8, <1>9, <1>10 DEF ChoiceInv

LEMMA SelectMonitorKeepsChoices ==
  ASSUME ChoiceInv, SelectMonitor
  PROVE  ChoiceInv'
<1>1. PICK m \in DOMAIN monitors :
        /\ settings' = StoreVisibleMonitor(settings) /\ shown' = m
        /\ LoadVisibleMonitor(settings', m)
  BY DEF SelectMonitor
<1>2. /\ life' = life /\ monitors' = monitors /\ displays' = displays /\ Running
      /\ registry' = registry /\ chosen' = chosen /\ kept' = kept
  BY DEF SelectMonitor, outside, Command
<1>3. settings' = settings
  BY <1>1, StoringChangesNothing DEF ChoiceInv
<1>4. PICK ms \in Seq([Corner -> Action]) : ms = settings.monitors
  BY DEF ChoiceInv, SettingsOK
<1>5. m \in DOMAIN ms /\ m \in Nat \ {0}
  <2>1. Len(ms) = Len(monitors) /\ monitors \in Seq(Area)
    BY <1>2, <1>4 DEF ChoiceInv, SelectorsOK, SideBySide
  <2> QED BY <1>4, <2>1
<1>6. combos' = ms[m] /\ ms[m] \in [Corner -> Action]
  BY <1>1, <1>3, <1>4, <1>5 DEF LoadVisibleMonitor
<1>7. SelectorsOK'
  BY <1>1, <1>2, <1>3, <1>4, <1>5, <1>6 DEF ChoiceInv, SelectorsOK, Running
<1>8. SettingsOK' /\ ChoicesOK'
  BY <1>2, <1>3 DEF ChoiceInv, SettingsOK, ChoicesOK, Running
<1> QED BY <1>7, <1>8 DEF ChoiceInv

LEMMA ChooseActionKeepsChoices ==
  ASSUME ChoiceInv, ChooseAction
  PROVE  ChoiceInv'
<1>1. /\ life' = life /\ monitors' = monitors /\ shown' = shown /\ displays' = displays
      /\ monitors # <<>> /\ Running /\ SaveSettings(settings', chosen')
  BY DEF ChooseAction, outside, Command
<1>2. PICK ms \in Seq([Corner -> Action]) : ms = settings.monitors
  BY DEF ChoiceInv, SettingsOK
<1>3. PICK n \in Nat \ {0} : n = shown
  BY DEF ChoiceInv, SelectorsOK
<1>4. n \in DOMAIN ms /\ DOMAIN ms = 1..Len(ms)
  <2>1. n \in DOMAIN monitors /\ Len(ms) = Len(monitors) /\ monitors \in Seq(Area)
    BY <1>1, <1>2, <1>3 DEF ChoiceInv, SelectorsOK, SideBySide
  <2> QED BY <1>2, <2>1
<1>5. PICK cc \in Corner, a \in Action :
        /\ combos' = [combos EXCEPT ![cc] = a]
        /\ settings' = [settings EXCEPT !.monitors[shown] = combos']
        /\ chosen' = Over([x \in {<<shown, cc>>} |-> a], chosen)
  <2>1. ExposedCorners(monitors, shown) \subseteq Corner
    BY DEF ExposedCorners
  <2> QED BY <2>1 DEF ChooseAction
<1>6. PICK k : k = combos'
  OBVIOUS
<1>7. combos = ms[n] /\ combos \in [Corner -> Action]
  BY <1>2, <1>3, <1>4 DEF ChoiceInv, SelectorsOK
<1>8. k \in [Corner -> Action] /\ k[cc] = a /\ \A e \in Corner : e # cc => k[e] = ms[n][e]
  BY <1>5, <1>6, <1>7
<1>9. PICK ns : ns = [ms EXCEPT ![n] = k]
  OBVIOUS
<1>10. /\ ns \in Seq([Corner -> Action]) /\ Len(ns) = Len(ms) /\ DOMAIN ns = DOMAIN ms
       /\ ns[n] = k /\ \A m \in DOMAIN ms : m # n => ns[m] = ms[m]
  BY <1>2, <1>4, <1>8, <1>9
<1>11. PICK s : s = settings'
  OBVIOUS
<1>12. /\ s \in [dwell : Dwell, tolerance : Tolerance, enabled : BOOLEAN,
                 pauseForFullscreen : BOOLEAN, monitors : Seq([Corner -> Action])]
       /\ s.monitors = ns
  <2>1. s = [settings EXCEPT !.monitors = ns]
    BY <1>2, <1>3, <1>5, <1>6, <1>9, <1>11 DEF ChoiceInv, SettingsOK
  <2> QED BY <1>10, <2>1 DEF ChoiceInv, SettingsOK
<1>13. PICK c : c = chosen'
  OBVIOUS
<1>14. PICK old : old = chosen
  OBVIOUS
<1>15. DOMAIN old \subseteq CornerOfMonitor
       /\ \A x \in DOMAIN old : x[1] \in DOMAIN ms /\ ms[x[1]][x[2]] = old[x]
  BY <1>1, <1>2, <1>14 DEF ChoiceInv, ChoicesOK
<1>16. /\ DOMAIN c = {<<n, cc>>} \cup DOMAIN old
       /\ c[<<n, cc>>] = a
       /\ \A x \in DOMAIN old : x # <<n, cc>> => c[x] = old[x]
  BY <1>3, <1>5, <1>13, <1>14 DEF Over
<1>17. ASSUME NEW x \in DOMAIN c
       PROVE  x \in CornerOfMonitor /\ x[1] \in DOMAIN ns /\ ns[x[1]][x[2]] = c[x]
  <2>1. CASE x = <<n, cc>>
    BY <1>4, <1>8, <1>10, <1>16, <2>1 DEF CornerOfMonitor
  <2>2. CASE x # <<n, cc>>
    <3>1. x \in DOMAIN old /\ c[x] = old[x]
      BY <1>16, <2>2
    <3>2. PICK m \in Nat \ {0}, e \in Corner : x = <<m, e>>
      BY <1>15, <3>1 DEF CornerOfMonitor
    <3>3. m \in DOMAIN ms /\ ms[m][e] = c[x]
      BY <1>15, <3>1, <3>2
    <3>4. ns[m][e] = ms[m][e]
      <4>1. CASE m = n
        BY <1>8, <1>10, <2>2, <3>2, <4>1
      <4>2. CASE m # n
        BY <1>10, <3>3, <4>2
      <4> QED BY <4>1, <4>2
    <3> QED BY <1>10, <1>15, <3>1, <3>2, <3>3, <3>4
  <2> QED BY <2>1, <2>2
<1>18. SaveSettings(s, c)
  BY <1>1, <1>11, <1>13
<1>19. SettingsOK /\ DOMAIN kept \subseteq DOMAIN registry.actions
       /\ \A x \in DOMAIN kept : registry.actions[x] = kept[x]
  BY DEF ChoiceInv, ChoicesOK
<1>20. /\ registry' = Written(registry', registry'.actions)
       /\ registry'.dwell \in Dwell /\ registry'.tolerance \in Tolerance
       /\ registry'.enabled \in BOOLEAN /\ registry'.pauseForFullscreen \in BOOLEAN
       /\ DOMAIN registry'.actions \subseteq CornerOfMonitor
       /\ \A x \in DOMAIN registry'.actions : registry'.actions[x] \in Action
       /\ DOMAIN kept' \subseteq DOMAIN registry'.actions
       /\ \A x \in DOMAIN kept' : registry'.actions[x] = kept'[x]
  BY <1>12, <1>17, <1>18, <1>19, SavingKeepsChoices
<1>21. SettingsOK'
  BY <1>11, <1>12, <1>20 DEF SettingsOK, Written
<1>22. SelectorsOK'
  BY <1>1, <1>2, <1>3, <1>6, <1>8, <1>10, <1>11, <1>12 DEF ChoiceInv, SelectorsOK, Running
<1>23. ChoicesOK'
  BY <1>1, <1>11, <1>12, <1>13, <1>17, <1>20 DEF ChoicesOK, Running
<1> QED BY <1>21, <1>22, <1>23 DEF ChoiceInv

LEMMA SequenceLength ==
  ASSUME NEW S, NEW s \in Seq(S)
  PROVE  Len(s) \in Nat /\ DOMAIN s = 1..Len(s) /\ (s # <<>> => Len(s) # 0)
OBVIOUS

LEMMA DisplayChangedKeepsChoices ==
  ASSUME ChoiceInv, DisplayChanged
  PROVE  ChoiceInv'
<1>1. PICK areas : areas = Sorted(displays)
  OBVIOUS
<1>2. SideBySide(areas)
  BY <1>1, SortedAreSideBySide DEF ChoiceInv, SelectorsOK
<1>2a. areas \in Seq(Area)
  BY <1>2, Zenon DEF SideBySide
<1>3. PICK n \in Nat : n = Len(areas)
  <2>1. Len(areas) \in Nat
    BY <1>2a, SequenceLength
  <2> QED BY <2>1, Zenon
<1>4. /\ life' = life /\ displays' = displays /\ registry' = registry /\ kept' = kept
      /\ Running /\ monitors' = areas /\ settings' = StoredAndResized(n)
      /\ shown' = IF n = 0 THEN 1 ELSE Min({shown, n})
      /\ LoadVisibleMonitor(settings', shown') /\ chosen' = Remaining(chosen, n)
  BY <1>1, <1>3 DEF DisplayChanged
<1>5. PICK ms \in Seq([Corner -> Action]) : ms = settings.monitors
  BY DEF ChoiceInv, SettingsOK
<1>6. PICK ns : ns = Resized(ms, n)
  OBVIOUS
<1>7. /\ ns \in Seq([Corner -> Action]) /\ Len(ns) = n /\ DOMAIN ns = 1..n
      /\ \A m \in 1..n : m <= Len(ms) => ns[m] = ms[m]
  <2>1. \A m \in 1..n : (IF m <= Len(ms) THEN ms[m] ELSE Default) \in [Corner -> Action]
    BY <1>5, HotConstants
  <2>2. ns = [m \in 1..n |-> IF m <= Len(ms) THEN ms[m] ELSE Default]
    BY <1>6 DEF Resized
  <2>3. ns \in [1..n -> [Corner -> Action]]
    BY <2>1, <2>2
  <2> QED BY <2>2, <2>3
<1>8. settings' = [settings EXCEPT !.monitors = ns]
  BY <1>4, <1>5, <1>6, StoringChangesNothing DEF StoredAndResized, ChoiceInv
<1>9. settings'.monitors = ns /\ SettingsOK'
  BY <1>4, <1>7, <1>8 DEF ChoiceInv, SettingsOK
<1>10. /\ shown' \in Nat \ {0} /\ (n # 0 => shown' \in 1..n) /\ (n = 0 => shown' = 1)
  <2>1. shown \in Nat \ {0}
    BY DEF ChoiceInv, SelectorsOK
  <2>2. CASE n = 0
    BY <1>4, <2>2
  <2>3. CASE n # 0
    <3>1. {shown, n} \subseteq Nat /\ {shown, n} # {}
      BY <2>1
    <3>2. Min({shown, n}) \in {shown, n} /\ Min({shown, n}) <= n
      BY <3>1, MinOfNaturals
    <3> QED BY <1>4, <2>1, <2>3, <3>2
  <2> QED BY <2>2, <2>3
<1>11. combos' \in [Corner -> Action] /\ (shown' \in DOMAIN ns => combos' = ns[shown'])
  <2>1. combos' = IF shown' > n THEN combos ELSE ns[shown']
    BY <1>4, <1>7, <1>9 DEF LoadVisibleMonitor
  <2>2. combos \in [Corner -> Action]
    BY DEF ChoiceInv, SelectorsOK
  <2> QED BY <1>7, <1>10, <2>1, <2>2
<1>12. SelectorsOK'
  <2>1. areas # <<>> => n # 0
    BY <1>2a, <1>3, SequenceLength
  <2>2. DOMAIN areas = 1..n
    BY <1>2a, <1>3, SequenceLength
  <2>3. (displays \in Arrangement)' /\ SideBySide(monitors)'
    BY <1>2, <1>4 DEF ChoiceInv, SelectorsOK, SideBySide
  <2> QED BY <1>3, <1>4, <1>7, <1>9, <1>10, <1>11, <2>1, <2>2, <2>3 DEF SelectorsOK
<1>13. ChoicesOK'
  <2>1. PICK old : old = chosen
    OBVIOUS
  <2>2. DOMAIN old \subseteq CornerOfMonitor
        /\ \A x \in DOMAIN old : x[1] \in DOMAIN ms /\ ms[x[1]][x[2]] = old[x]
    BY <1>4, <1>5, <2>1 DEF ChoiceInv, ChoicesOK
  <2>3. chosen' = [x \in {y \in DOMAIN old : y[1] <= n} |-> old[x]]
    BY <1>4, <2>1 DEF Remaining
  <2>4. ASSUME NEW x \in DOMAIN old, x[1] <= n
        PROVE  x \in CornerOfMonitor /\ x[1] \in DOMAIN ns /\ ns[x[1]][x[2]] = old[x]
    <3>1. x[1] \in Nat \ {0}
      BY <2>2 DEF CornerOfMonitor
    <3>2. x[1] \in 1..n /\ x[1] <= Len(ms)
      BY <1>5, <2>2, <2>4, <3>1
    <3> QED BY <1>7, <2>2, <3>2
  <2> QED BY <1>4, <1>9, <2>3, <2>4 DEF ChoiceInv, ChoicesOK
<1> QED BY <1>9, <1>12, <1>13 DEF ChoiceInv

LEMMA StartKeepsChoices ==
  ASSUME ChoiceInv, Start
  PROVE  ChoiceInv'
<1>1. PICK areas : areas = Sorted(displays)
  OBVIOUS
<1>2. SideBySide(areas)
  BY <1>1, SortedAreSideBySide DEF ChoiceInv, SelectorsOK
<1>3. areas \in Seq(Area)
  BY <1>2, Zenon DEF SideBySide
<1>4. PICK n \in Nat : n = Len(areas)
  BY <1>3, SequenceLength
<1>5. PICK s : s = LoadSettings(n)
  OBVIOUS
<1>6. /\ life' = "running" /\ displays' = displays /\ registry' = registry /\ kept' = kept
      /\ monitors' = areas /\ settings' = s /\ shown' = 1
      /\ combos' = (IF areas = <<>> THEN Default ELSE s.monitors[1])
      /\ chosen' = Remaining(kept, n)
  BY <1>1, <1>4, <1>5 DEF Start
<1>7. /\ s \in [dwell : Dwell, tolerance : Tolerance, enabled : BOOLEAN,
                pauseForFullscreen : BOOLEAN, monitors : Seq([Corner -> Action])]
      /\ Len(s.monitors) = n
      /\ \A x \in DOMAIN registry.actions :
           x[1] <= n => x[1] \in DOMAIN s.monitors
                        /\ s.monitors[x[1]][x[2]] = registry.actions[x]
  BY <1>5, LoadedSettings DEF ChoiceInv
<1>8. PICK ms \in Seq([Corner -> Action]) : ms = s.monitors
  BY <1>7
<1>9. /\ DOMAIN ms = 1..n /\ DOMAIN areas = 1..n /\ Len(ms) = n
      /\ (areas = <<>> => n = 0) /\ (areas # <<>> => 1 \in 1..n)
  <2>1. DOMAIN ms = 1..n /\ DOMAIN areas = 1..n /\ Len(ms) = n
    BY <1>3, <1>4, <1>7, <1>8, SequenceLength
  <2>2. areas # <<>> => n # 0
    BY <1>3, <1>4, SequenceLength
  <2>3. areas = <<>> => n = 0
    BY <1>4
  <2> QED BY <2>1, <2>2, <2>3
<1>10. combos' \in [Corner -> Action] /\ (1 \in DOMAIN ms => combos' = ms[1])
  BY <1>6, <1>8, <1>9, HotConstants
<1>11. SettingsOK'
  BY <1>6, <1>7 DEF ChoiceInv, SettingsOK
<1>12. SelectorsOK'
  <2>1. (displays \in Arrangement)' /\ SideBySide(monitors)'
    BY <1>2, <1>6 DEF ChoiceInv, SelectorsOK, SideBySide
  <2>2. 1 \in Nat \ {0}
    OBVIOUS
  <2>3. monitors' = areas /\ settings'.monitors = ms /\ shown' = 1
    BY <1>6, <1>8
  <2> QED BY <1>4, <1>9, <1>10, <2>1, <2>2, <2>3 DEF SelectorsOK
<1>13. ChoicesOK'
  <2>1. PICK R, K : R = registry.actions /\ K = kept
    OBVIOUS
  <2>2. /\ DOMAIN R \subseteq CornerOfMonitor
        /\ DOMAIN K \subseteq DOMAIN R /\ \A x \in DOMAIN K : R[x] = K[x]
    BY <2>1 DEF ChoiceInv, SettingsOK, ChoicesOK
  <2>3. chosen' = [x \in {y \in DOMAIN K : y[1] <= n} |-> K[x]]
    BY <1>6, <2>1 DEF Remaining
  <2>4. ASSUME NEW x \in DOMAIN K, x[1] <= n
        PROVE  x \in CornerOfMonitor /\ x[1] \in DOMAIN ms /\ ms[x[1]][x[2]] = K[x]
    BY <1>7, <1>8, <2>1, <2>2, <2>4
  <2>5. settings'.monitors = ms /\ registry'.actions = R /\ kept' = K
    BY <1>6, <1>8, <2>1
  <2> QED BY <2>2, <2>3, <2>4, <2>5 DEF ChoicesOK
<1> QED BY <1>11, <1>12, <1>13 DEF ChoiceInv

LEMMA EndingKeepsChoices ==
  ASSUME ChoiceInv, Close \/ Crash
  PROVE  ChoiceInv'
<1>1. /\ life' = "off" /\ settings' = DefaultSettings /\ monitors' = <<>> /\ shown' = 1
      /\ combos' = Default /\ displays' = displays
  BY DEF Close, Crash, Ends
<1>2. /\ registry' = Written(registry', registry'.actions)
      /\ registry'.dwell \in Dwell /\ registry'.tolerance \in Tolerance
      /\ registry'.enabled \in BOOLEAN /\ registry'.pauseForFullscreen \in BOOLEAN
      /\ DOMAIN registry'.actions \subseteq CornerOfMonitor
      /\ \A x \in DOMAIN registry'.actions : registry'.actions[x] \in Action
      /\ DOMAIN kept' \subseteq DOMAIN registry'.actions
      /\ \A x \in DOMAIN kept' : registry'.actions[x] = kept'[x]
  <2>1. CASE Crash
    BY <2>1 DEF Crash, ChoiceInv, SettingsOK, ChoicesOK, Written
  <2>2. CASE Close
    <3>1. PICK s, c : s = settings /\ c = chosen
      OBVIOUS
    <3>2. SaveSettings(s, c)
      <4>1. StoreVisibleMonitor(settings) = s
        BY <3>1, StoringChangesNothing DEF ChoiceInv
      <4> QED BY <2>2, <3>1, <4>1 DEF Close
    <3>3. /\ s \in [dwell : Dwell, tolerance : Tolerance, enabled : BOOLEAN,
                    pauseForFullscreen : BOOLEAN, monitors : Seq([Corner -> Action])]
          /\ DOMAIN c \subseteq CornerOfMonitor
          /\ \A x \in DOMAIN c : x[1] \in DOMAIN s.monitors
                                 /\ s.monitors[x[1]][x[2]] = c[x]
      BY <2>2, <3>1 DEF Close, ChoiceInv, SettingsOK, ChoicesOK
    <3>4. SettingsOK /\ DOMAIN kept \subseteq DOMAIN registry.actions
          /\ \A x \in DOMAIN kept : registry.actions[x] = kept[x]
      BY DEF ChoiceInv, ChoicesOK
    <3> QED BY <3>2, <3>3, <3>4, SavingKeepsChoices
  <2> QED BY <2>1, <2>2
<1>3. SettingsOK'
  BY <1>1, <1>2, HotConstants DEF SettingsOK, DefaultSettings, Written
<1>4. SideBySide(monitors)'
  BY <1>1 DEF SideBySide
<1>5. SelectorsOK'
  BY <1>1, <1>4, HotConstants DEF ChoiceInv, SelectorsOK, Running, DefaultSettings
<1>6. ChoicesOK'
  BY <1>1, <1>2 DEF ChoicesOK, Running
<1> QED BY <1>3, <1>5, <1>6 DEF ChoiceInv

LEMMA ChoiceStep == ChoiceInv /\ [HotNext]_hotVars => ChoiceInv'
<1> SUFFICES ASSUME ChoiceInv, [HotNext]_hotVars PROVE ChoiceInv'
  OBVIOUS
<1>1. displays \in Arrangement
  BY DEF ChoiceInv, SelectorsOK
<1>2. CASE UNCHANGED hotVars
  BY <1>1, <1>2, OutsideKeepsChoices DEF hotVars, displayVars, outside
<1>3. CASE TogglePause \/ TaskbarCreated \/ Poll \/ Tick \/ UserMoves \/ DisplaysChange
           \/ ShellRestarts
  <2>1. /\ displays' \in Arrangement
        /\ UNCHANGED <<life, settings, monitors, shown, combos, registry, chosen, kept>>
    BY <1>1, <1>3 DEF TogglePause, TaskbarCreated, Poll, Tick, UserMoves, DisplaysChange,
                      ShellRestarts, displayVars, outside
  <2> QED BY <2>1, OutsideKeepsChoices
<1> QED BY <1>2, <1>3, StartKeepsChoices, EndingKeepsChoices, SettingChangesKeepChoices,
           SelectMonitorKeepsChoices, ChooseActionKeepsChoices, DisplayChangedKeepsChoices
        DEF HotNext

LEMMA IconStep == IconInv /\ [HotNext]_hotVars => IconInv'
<1> SUFFICES ASSUME IconInv, [HotNext]_hotVars PROVE IconInv'
  OBVIOUS
<1>1. CASE UNCHANGED iconVars
  BY <1>1 DEF IconInv, IconIsAsCached, iconVars
<1>2. CASE Start
  BY <1>2 DEF Start, Added, IconInv, IconIsAsCached
<1>3. CASE Close \/ Crash
  BY <1>3 DEF Close, Crash, Ends, Removed, IconInv, IconIsAsCached
<1>4. CASE TogglePause
  <2>1. PICK text \in {"paused", "watching"} : UpdateTooltip(text) /\ created' = created
    BY <1>4 DEF TogglePause
  <2> QED BY <2>1 DEF UpdateTooltip, IconInv, IconIsAsCached
<1>5. CASE TaskbarCreated
  BY <1>5 DEF TaskbarCreated, Recreate, AddNative, Added, IconInv, IconIsAsCached
<1>6. CASE ShellRestarts
  BY <1>6 DEF ShellRestarts, IconInv, IconIsAsCached
<1>7. CASE ToggleSetting \/ ChangeTiming \/ SelectMonitor \/ ChooseAction \/ DisplayChanged
           \/ Poll \/ Tick \/ UserMoves \/ DisplaysChange \/ UNCHANGED hotVars
  BY <1>1, <1>7 DEF ToggleSetting, ChangeTiming, SelectMonitor, ChooseAction, DisplayChanged,
                    Poll, Tick, UserMoves, DisplaysChange, hotVars
<1> QED BY <1>2, <1>3, <1>4, <1>5, <1>6, <1>7 DEF HotNext

-----------------------------------------------------------------------------
(* Corners.                                                                 *)

LEMMA IntervalsMeet ==
  ASSUME NEW p \in Int, NEW q \in Int, NEW r \in Int, NEW s \in Int, NEW z \in Int,
         p <= z, z < q, r <= z, z < s
  PROVE  Max({p, r}) < Min({q, s})
<1>1. Max({p, r}) = IF p >= r THEN p ELSE r
  <2>1. \E m \in {p, r} : \A u \in {p, r} : m >= u
    OBVIOUS
  <2>2. Max({p, r}) \in {p, r} /\ \A u \in {p, r} : Max({p, r}) >= u
    BY <2>1 DEF Max
  <2> QED BY <2>2
<1> QED BY <1>1, MinOfTwo

LEMMA DisplayAcrossSide ==
  ASSUME NEW a \in Area, NEW b \in Area, Apart(a, b),
         a.left < a.right, a.top < a.bottom, b.left < b.right, b.top < b.bottom,
         NEW x \in Int, NEW y \in Int, Holds(b, [x |-> x, y |-> y])
  PROVE  /\ a.top <= y /\ y < a.bottom /\ x = a.left - 1 => Adjoins(a, b, "left")
         /\ a.top <= y /\ y < a.bottom /\ x = a.right => Adjoins(a, b, "right")
         /\ a.left <= x /\ x < a.right /\ y = a.top - 1 => Adjoins(a, b, "top")
         /\ a.left <= x /\ x < a.right /\ y = a.bottom => Adjoins(a, b, "bottom")
<1>1. /\ a.left \in Int /\ a.top \in Int /\ a.right \in Int /\ a.bottom \in Int
      /\ b.left \in Int /\ b.top \in Int /\ b.right \in Int /\ b.bottom \in Int
  BY DEF Area
<1>2. b.left <= x /\ x < b.right /\ b.top <= y /\ y < b.bottom
  BY DEF Holds
<1>3. a.top <= y /\ y < a.bottom => SameRows(a, b)
  BY <1>1, <1>2, IntervalsMeet DEF SameRows
<1>4. a.left <= x /\ x < a.right => SameColumns(a, b)
  BY <1>1, <1>2, IntervalsMeet DEF SameColumns
<1>5. /\ a.top <= y /\ y < a.bottom /\ x = a.left - 1 => b.right = a.left
      /\ a.top <= y /\ y < a.bottom /\ x = a.right => b.left = a.right
      /\ a.left <= x /\ x < a.right /\ y = a.top - 1 => b.bottom = a.top
      /\ a.left <= x /\ x < a.right /\ y = a.bottom => b.top = a.bottom
  BY <1>1, <1>2 DEF Apart
<1> QED BY <1>3, <1>4, <1>5 DEF Adjoins

(* What ExposedCorners finds is an outer corner.                            *)
LEMMA ExposedMeansNothingBeyond ==
  ASSUME SideBySide(monitors), NEW hit \in [monitor : DOMAIN monitors, corner : Corner],
         hit.corner \in ExposedCorners(monitors, hit.monitor)
  PROVE  NothingBeyond(hit)
<1>1. PICK ms \in Seq(Area) : ms = monitors
  BY DEF SideBySide
<1>2. PICK m \in DOMAIN ms, c \in Corner : m = hit.monitor /\ c = hit.corner
  BY <1>1
<1>3. PICK a \in Area : a = ms[m]
  BY <1>1, <1>2
<1>4. /\ a.left \in Int /\ a.top \in Int /\ a.right \in Int /\ a.bottom \in Int
      /\ a.left < a.right /\ a.top < a.bottom
  BY <1>1, <1>3 DEF Area, SideBySide
<1>5. \A k \in DOMAIN ms \ {m} : \A s \in SidesOf[c] : ~Adjoins(a, ms[k], s)
  BY <1>1, <1>2, <1>3 DEF ExposedCorners
<1>6. ASSUME NEW k \in DOMAIN ms, NEW x \in Int, NEW y \in Int,
             Holds(ms[k], [x |-> x, y |-> y])
      PROVE  /\ "left" \in SidesOf[c] => ~(a.top <= y /\ y < a.bottom /\ x = a.left - 1)
             /\ "right" \in SidesOf[c] => ~(a.top <= y /\ y < a.bottom /\ x = a.right)
             /\ "top" \in SidesOf[c] => ~(a.left <= x /\ x < a.right /\ y = a.top - 1)
             /\ "bottom" \in SidesOf[c] => ~(a.left <= x /\ x < a.right /\ y = a.bottom)
  <2>1. CASE k = m
    <3>1. a.left <= x /\ x < a.right /\ a.top <= y /\ y < a.bottom
      BY <1>3, <1>6, <2>1 DEF Holds
    <3> QED BY <1>4, <3>1
  <2>2. CASE k # m
    <3>1. PICK b \in Area : b = ms[k]
      OBVIOUS
    <3>2. Apart(a, b) /\ b.left < b.right /\ b.top < b.bottom
      BY <1>1, <1>2, <1>3, <2>2, <3>1 DEF SideBySide
    <3>3. \A s \in SidesOf[c] : ~Adjoins(a, b, s)
      BY <1>5, <2>2, <3>1
    <3>4. Holds(b, [x |-> x, y |-> y])
      BY <1>6, <3>1
    <3> QED BY <1>4, <3>2, <3>3, <3>4, DisplayAcrossSide
  <2> QED BY <2>1, <2>2
<1>7. ("left" \in SidesOf[c] \/ "right" \in SidesOf[c])
      /\ ("top" \in SidesOf[c] \/ "bottom" \in SidesOf[c])
  BY DEF SidesOf, Corner
<1> DEFINE x == IF "left" \in SidesOf[c] THEN a.left - 1 ELSE a.right
           y == IF "top" \in SidesOf[c] THEN a.top - 1 ELSE a.bottom
           insideX == IF x < a.left THEN a.left ELSE a.right - 1
           insideY == IF y < a.top THEN a.top ELSE a.bottom - 1
<1>8. /\ x \in Int /\ y \in Int /\ insideX \in Int /\ insideY \in Int
      /\ a.left <= insideX /\ insideX < a.right /\ a.top <= insideY /\ insideY < a.bottom
      /\ ("left" \in SidesOf[c] /\ x = a.left - 1) \/ ("right" \in SidesOf[c] /\ x = a.right)
      /\ ("top" \in SidesOf[c] /\ y = a.top - 1) \/ ("bottom" \in SidesOf[c] /\ y = a.bottom)
  BY <1>4, <1>7
<1>9. ASSUME NEW k \in DOMAIN ms
      PROVE  /\ ~Holds(ms[k], [x |-> x, y |-> insideY])
             /\ ~Holds(ms[k], [x |-> insideX, y |-> y])
  <2>1. PICK x1, y1, x2, y2 : x1 = x /\ y1 = y /\ x2 = insideX /\ y2 = insideY
    OBVIOUS
  <2> HIDE DEF x, y, insideX, insideY
  <2>2. ~Holds(ms[k], [x |-> x1, y |-> y2])
    BY <1>6, <1>8, <2>1
  <2>3. ~Holds(ms[k], [x |-> x2, y |-> y1])
    BY <1>6, <1>8, <2>1
  <2> QED BY <2>1, <2>2, <2>3
<1> QED BY <1>1, <1>2, <1>3, <1>9 DEF NothingBeyond

LEMMA DetectedCorner ==
  ASSUME NEW p, NEW ms \in Seq(Area), NEW tolerance, NEW hit,
         hit = Detect(p, ms, tolerance), hit # NoHit
  PROVE  /\ hit \in [monitor : DOMAIN ms, corner : Corner]
         /\ Holds(ms[hit.monitor], p)
         /\ hit.corner \in ExposedCorners(ms, hit.monitor)
<1>1. PICK hits :
        hits = {h \in [monitor : DOMAIN ms, corner : Corner] :
                  LET a == ms[h.monitor]
                  IN  /\ Holds(a, p)
                      /\ h.corner \in ExposedCorners(ms, h.monitor)
                      /\ \A s \in SidesOf[h.corner] : Near(a, p, s, Max({1, tolerance}))}
  OBVIOUS
<1>2. hits # {} /\ hit = CHOOSE h \in hits : \A other \in hits :
                           \/ h.monitor < other.monitor
                           \/ h.monitor = other.monitor /\ h.corner <= other.corner
  BY <1>1 DEF Detect
<1>3. \A h \in hits : h \in [monitor : DOMAIN ms, corner : Corner]
                     /\ h.monitor \in Nat /\ h.corner \in Nat
  BY <1>1, SequenceLength DEF Corner
<1>4. PICK m \in {h.monitor : h \in hits} : \A k \in {h.monitor : h \in hits} : m <= k
  <2>1. {h.monitor : h \in hits} # {} /\ {h.monitor : h \in hits} \subseteq Nat
    BY <1>2, <1>3
  <2> QED BY <2>1, NatLeast
<1>5. PICK c \in {h.corner : h \in {g \in hits : g.monitor = m}} :
        \A e \in {h.corner : h \in {g \in hits : g.monitor = m}} : c <= e
  <2>1. /\ {h.corner : h \in {g \in hits : g.monitor = m}} # {}
        /\ {h.corner : h \in {g \in hits : g.monitor = m}} \subseteq Nat
    BY <1>3
  <2> QED BY <2>1, NatLeast
<1>6. PICK first \in hits : first.monitor = m /\ first.corner = c
  OBVIOUS
<1>7. ASSUME NEW other \in hits
      PROVE  \/ first.monitor < other.monitor
             \/ first.monitor = other.monitor /\ first.corner <= other.corner
  <2>1. m <= other.monitor /\ m \in Nat /\ other.monitor \in Nat
    BY <1>3, <1>4, <1>6
  <2>2. other.monitor = m => c <= other.corner
    BY <1>5
  <2> QED BY <1>6, <2>1, <2>2
<1>8. hit \in hits
  BY <1>2, <1>7
<1> QED BY <1>1, <1>8

-----------------------------------------------------------------------------
(* Watching.                                                                *)

LEMMA WatchedAnew ==
  ASSUME tracker' = FreshTracker, quiet' = 0, acted' = FALSE
  PROVE  WatchInv'
BY DEF WatchInv, FreshTracker

LEMMA WatchUnchanged ==
  ASSUME WatchInv, UNCHANGED <<tracker, quiet, acted, monitors>>
  PROVE  WatchInv'
BY DEF WatchInv

LEMMA PollWatches ==
  ASSUME ChoiceInv, WatchInv, Poll
  PROVE  /\ WatchInv'
         /\ Fires => /\ ~acted /\ quiet >= settings.dwell
                     /\ settings.enabled /\ ~paused
                     /\ ~(settings.pauseForFullscreen /\ fullscreen)
                     /\ NothingBeyond(tracker'.hit)
                     /\ Holds(monitors[tracker'.hit.monitor], cursor)
<1> DEFINE stopped == \/ ~settings.enabled \/ paused
                      \/ settings.pauseForFullscreen /\ fullscreen
<1>1. PICK hit : hit = Detect(cursor, monitors, settings.tolerance)
  OBVIOUS
<1>2. monitors' = monitors
  BY DEF Poll, displayVars
<1>3. \/ stopped /\ WatchAnew
      \/ ~stopped /\ UNCHANGED watchVars
      \/ /\ ~stopped
         /\ tracker' = Updated(hit)
         /\ quiet' = IF hit = tracker.hit THEN quiet ELSE 0
         /\ acted' = (hit = tracker.hit /\ (acted \/ tracker'.fired))
  BY <1>1 DEF Poll
<1>4. CASE stopped /\ WatchAnew
  <2>1. tracker' = FreshTracker /\ quiet' = 0 /\ acted' = FALSE
    BY <1>4 DEF WatchAnew, ResetTracker
  <2>2. ~Fires
    BY <2>1 DEF Fires, FreshTracker
  <2> QED BY <2>1, <2>2, WatchedAnew
<1>5. CASE UNCHANGED watchVars
  <2>1. ~Fires
    BY <1>5 DEF Fires, watchVars
  <2> QED BY <1>2, <1>5, <2>1, WatchUnchanged DEF watchVars
<1>6. CASE /\ ~stopped
           /\ tracker' = Updated(hit)
           /\ quiet' = IF hit = tracker.hit THEN quiet ELSE 0
           /\ acted' = (hit = tracker.hit /\ (acted \/ tracker'.fired))
  <2>1. PICK old : old = tracker
    OBVIOUS
  <2>2. /\ old \in [hit : [monitor : DOMAIN monitors, corner : Corner] \cup {NoHit},
                    age : Nat, fired : BOOLEAN]
        /\ quiet = old.age /\ acted \in BOOLEAN /\ (acted => old.fired)
        /\ (old.hit = NoHit => ~old.fired)
    BY <2>1 DEF WatchInv
  <2>3. hit = NoHit \/ (/\ hit \in [monitor : DOMAIN monitors, corner : Corner]
                        /\ Holds(monitors[hit.monitor], cursor)
                        /\ hit.corner \in ExposedCorners(monitors, hit.monitor))
    <3>1. PICK ms, p, t : ms = monitors /\ p = cursor /\ t = settings.tolerance
      OBVIOUS
    <3>2. ms \in Seq(Area)
      BY <3>1 DEF ChoiceInv, SelectorsOK, SideBySide
    <3> QED BY <1>1, <3>1, <3>2, DetectedCorner
  <2>4. PICK d \in Dwell : d = settings.dwell /\ d \in Nat /\ d # 0
    BY HotConstants DEF ChoiceInv, SettingsOK
  <2>5. PICK entered : entered = IF hit = old.hit THEN old
                                 ELSE [hit |-> hit, age |-> 0, fired |-> FALSE]
    OBVIOUS
  <2>6. /\ entered \in [hit : [monitor : DOMAIN monitors, corner : Corner] \cup {NoHit},
                        age : Nat, fired : BOOLEAN]
        /\ entered.hit = hit
    BY <2>2, <2>3, <2>5
  <2>7. PICK now : now = tracker'
    OBVIOUS
  <2>8. now = [entered EXCEPT !.fired = entered.hit # NoHit
                                         /\ (entered.fired \/ entered.age >= d)]
    BY <1>6, <2>1, <2>4, <2>5, <2>7 DEF Updated
  <2>9. /\ now \in [hit : [monitor : DOMAIN monitors, corner : Corner] \cup {NoHit},
                    age : Nat, fired : BOOLEAN]
        /\ now.hit = hit /\ now.age = entered.age
        /\ now.fired <=> (hit # NoHit /\ (entered.fired \/ entered.age >= d))
    BY <2>6, <2>8
  <2>10. quiet' = now.age
    BY <1>6, <2>1, <2>2, <2>5, <2>9
  <2>11. acted' \in BOOLEAN /\ (acted' => now.fired)
    <3>1. acted' <=> (hit = old.hit /\ (acted \/ now.fired))
      BY <1>6, <2>1, <2>7
    <3>2. acted' \in BOOLEAN
      BY <1>6, <2>1, <2>7
    <3>3. acted /\ hit = old.hit => now.fired
      BY <2>2, <2>5, <2>9
    <3> QED BY <3>1, <3>2, <3>3
  <2>12. WatchInv'
    BY <1>2, <2>7, <2>9, <2>10, <2>11 DEF WatchInv
  <2>13. ASSUME Fires
         PROVE  /\ ~acted /\ quiet >= settings.dwell
                /\ settings.enabled /\ ~paused
                /\ ~(settings.pauseForFullscreen /\ fullscreen)
                /\ NothingBeyond(now.hit)
                /\ Holds(monitors[now.hit.monitor], cursor)
    <3>1. now.fired /\ ~old.fired
      BY <2>1, <2>7, <2>13 DEF Fires
    <3>2. hit # NoHit /\ entered.age >= d
      BY <2>5, <2>9, <3>1
    <3>3. hit = old.hit /\ quiet >= d
      BY <2>2, <2>4, <2>5, <3>2
    <3>4. ~acted
      BY <2>2, <3>1
    <3>5. NothingBeyond(hit) /\ Holds(monitors[hit.monitor], cursor)
      BY <2>3, <3>2, ExposedMeansNothingBeyond DEF ChoiceInv, SelectorsOK
    <3>6. settings.enabled /\ ~paused /\ ~(settings.pauseForFullscreen /\ fullscreen)
      BY <1>6
    <3> QED BY <2>4, <2>9, <3>3, <3>4, <3>5, <3>6
  <2> QED BY <2>7, <2>12, <2>13
<1> QED BY <1>3, <1>4, <1>5, <1>6

LEMMA TickWatches == ASSUME WatchInv, Tick PROVE WatchInv' /\ ~Fires
<1>1. PICK old : old = tracker
  OBVIOUS
<1>2. PICK L \in Nat : L = Longest
  BY HotConstants
<1>3. PICK n \in Nat : n = old.age /\ quiet = n
  BY <1>1 DEF WatchInv
<1>4. PICK k : k = Min({n + 1, L})
  OBVIOUS
<1>5. k \in Nat
  BY <1>4, MinOfTwo
<1>6. /\ old \in [hit : [monitor : DOMAIN monitors, corner : Corner] \cup {NoHit},
                  age : Nat, fired : BOOLEAN]
      /\ acted \in BOOLEAN /\ (acted => old.fired) /\ (old.hit = NoHit => ~old.fired)
  BY <1>1 DEF WatchInv
<1>7. tracker' = [old EXCEPT !.age = k] /\ quiet' = k /\ acted' = acted
      /\ monitors' = monitors
  BY <1>1, <1>2, <1>3, <1>4 DEF Tick, displayVars
<1>8. PICK now : now = tracker'
  OBVIOUS
<1>9. /\ now \in [hit : [monitor : DOMAIN monitors, corner : Corner] \cup {NoHit},
                  age : Nat, fired : BOOLEAN]
      /\ now.hit = old.hit /\ now.fired = old.fired /\ now.age = k
  BY <1>5, <1>6, <1>7, <1>8
<1> QED BY <1>1, <1>6, <1>7, <1>8, <1>9 DEF WatchInv, Fires

LEMMA WatchStep ==
  ASSUME ChoiceInv, WatchInv, [HotNext]_hotVars
  PROVE  /\ WatchInv'
         /\ Fires => /\ ~acted /\ quiet >= settings.dwell
                     /\ settings.enabled /\ ~paused
                     /\ ~(settings.pauseForFullscreen /\ fullscreen)
                     /\ NothingBeyond(tracker'.hit)
                     /\ Holds(monitors[tracker'.hit.monitor], cursor)
<1>1. CASE tracker' = FreshTracker /\ quiet' = 0 /\ acted' = FALSE
  BY <1>1, WatchedAnew DEF Fires, FreshTracker
<1>2. CASE UNCHANGED <<tracker, quiet, acted, monitors>>
  BY <1>2, WatchUnchanged DEF Fires
<1>3. CASE Start \/ Close \/ Crash \/ ToggleSetting \/ ChangeTiming \/ TogglePause
           \/ DisplayChanged
  BY <1>1, <1>2, <1>3 DEF Start, Close, Crash, Ends, ToggleSetting, ChangeTiming, TogglePause,
                          DisplayChanged, WatchAnew, ResetTracker, watchVars, displayVars
<1>4. CASE SelectMonitor \/ ChooseAction \/ TaskbarCreated \/ UserMoves \/ DisplaysChange
           \/ ShellRestarts \/ UNCHANGED hotVars
  BY <1>2, <1>4 DEF SelectMonitor, ChooseAction, TaskbarCreated, UserMoves, DisplaysChange,
                    ShellRestarts, hotVars, watchVars, displayVars
<1> QED BY <1>3, <1>4, PollWatches, TickWatches DEF HotNext

-----------------------------------------------------------------------------
LEMMA HotInitially == HotInit => ChoiceInv /\ IconInv /\ WatchInv
<1> SUFFICES ASSUME HotInit PROVE ChoiceInv /\ IconInv /\ WatchInv
  OBVIOUS
<1>1. IconInv
  BY DEF HotInit, IconInv, IconIsAsCached
<1>2. WatchInv
  BY DEF HotInit, WatchInv, FreshTracker
<1> QED BY <1>1, <1>2, ChoicesInitially

LEMMA HotInvariance == HotSpec => [](ChoiceInv /\ IconInv /\ WatchInv)
<1>1. ChoiceInv /\ IconInv /\ WatchInv /\ [HotNext]_hotVars
        => (ChoiceInv /\ IconInv /\ WatchInv)'
  BY ChoiceStep, IconStep, WatchStep
<1> QED BY <1>1, HotInitially, PTL DEF HotSpec

(* A corner keeps the action that was chosen for it while its monitor stays *)
(* and after a restart as it was saved, the selectors fit the displays, and *)
(* the icon the shell shows is the one TrayIcon has cached, whatever comes, *)
(* goes, fails and restarts, for any displays, actions and timing.          *)
THEOREM ChoicesSurvive == HotSpec => []ChoicesAndIconAreKept
<1>1. ChoiceInv /\ IconInv /\ WatchInv => ChoicesAndIconAreKept
  <2> SUFFICES ASSUME ChoiceInv, IconInv, WatchInv PROVE ChoicesAndIconAreKept
    OBVIOUS
  <2>1. HotTypeOK
    <3>1. settings.monitors \in Seq([Corner -> Action])
          /\ (Running => Len(settings.monitors) = Len(monitors))
      BY DEF ChoiceInv, SettingsOK, SelectorsOK
    <3>2. tracker.hit = NoHit \/ tracker.hit.monitor \in DOMAIN monitors
      BY DEF WatchInv
    <3>3. icon.state \in {"detached", "recovery", "added"}
      BY DEF IconInv
    <3> QED BY <3>1, <3>2, <3>3 DEF HotTypeOK
  <2>2. ChoicesAreKept
    BY DEF ChoiceInv, ChoicesOK, ChoicesAreKept
  <2> QED BY <2>1, <2>2 DEF IconInv, ChoicesAndIconAreKept
<1> QED BY <1>1, HotInvariance, PTL

(* An action is sent once for a stay, only for an outer corner of the       *)
(* displays that the pointer is in, and only after the whole dwell since    *)
(* the program last began to watch, for any arrangement of displays.        *)
THEOREM ActionsAreDue == HotSpec => FiresAsWatched
<1>1. ChoiceInv /\ IconInv /\ WatchInv /\ [HotNext]_hotVars
        => [Fires => /\ ~acted /\ quiet >= settings.dwell
                     /\ settings.enabled /\ ~paused
                     /\ ~(settings.pauseForFullscreen /\ fullscreen)
                     /\ NothingBeyond(tracker'.hit)
                     /\ Holds(monitors[tracker'.hit.monitor], cursor)]_hotVars
  BY WatchStep
<1> QED BY <1>1, HotInvariance, PTL DEF HotSpec, FiresAsWatched

-----------------------------------------------------------------------------
(* DockLayout.  What removing and inserting do to a tab strip.              *)
LEMMA RemoveAtProperties ==
  ASSUME NEW S, NEW s \in Seq(S), NEW i \in 1..Len(s)
  PROVE  /\ RemoveAt(s, i) \in Seq(S)
         /\ Len(RemoveAt(s, i)) = Len(s) - 1
         /\ DOMAIN RemoveAt(s, i) = 1..Len(s) - 1
         /\ \A j \in 1..Len(s) - 1 :
              RemoveAt(s, i)[j] = s[IF j < i THEN j ELSE j + 1]
<1> DEFINE start == SubSeq(s, 1, i - 1)
           rest == SubSeq(s, i + 1, Len(s))
<1>1. /\ Len(s) \in Nat /\ DOMAIN s = 1..Len(s)
      /\ \A j \in 1..Len(s) : s[j] \in S
  OBVIOUS
<1>2. /\ start \in Seq(S) /\ Len(start) = i - 1
      /\ \A j \in 1..i - 1 : start[j] = s[j]
  <2>1. \A j \in 1..i - 1 : s[j] \in S
    BY <1>1
  <2> HIDE DEF start
  <2>2. /\ start \in Seq(S) /\ Len(start) = (IF 1 <= i - 1 THEN i - 1 - 1 + 1 ELSE 0)
        /\ \A j \in 1..i - 1 - 1 + 1 : start[j] = s[1 + j - 1]
    BY <1>1, <2>1, SubSeqProperties, 1 \in Int, i - 1 \in Int DEF start
  <2> QED
    BY <2>2, <1>1
<1>3. /\ rest \in Seq(S) /\ Len(rest) = Len(s) - i
      /\ \A j \in 1..Len(s) - i : rest[j] = s[i + j]
  <2>1. \A j \in i + 1..Len(s) : s[j] \in S
    BY <1>1
  <2> HIDE DEF rest
  <2>2. /\ rest \in Seq(S)
        /\ Len(rest) = (IF i + 1 <= Len(s) THEN Len(s) - (i + 1) + 1 ELSE 0)
        /\ \A j \in 1..Len(s) - (i + 1) + 1 : rest[j] = s[i + 1 + j - 1]
    BY <1>1, <2>1, SubSeqProperties, i + 1 \in Int, Len(s) \in Int DEF rest
  <2>3. Len(rest) = Len(s) - i
    <3>1. Len(rest) = (IF i + 1 <= Len(s) THEN Len(s) - (i + 1) + 1 ELSE 0)
      BY <2>2
    <3>2. i \in Int /\ Len(s) \in Int /\ i <= Len(s)
      BY <1>1
    <3>3. CASE i + 1 <= Len(s)
      BY <3>1, <3>2, <3>3
    <3>4. CASE ~(i + 1 <= Len(s))
      BY <3>1, <3>2, <3>4
    <3> QED
      BY <3>3, <3>4
  <2>4. \A j \in 1..Len(s) - i : rest[j] = s[i + j]
    <3>1. \A j \in 1..Len(s) - i : j \in 1..Len(s) - (i + 1) + 1 /\ i + 1 + j - 1 = i + j
      BY <1>1
    <3> QED
      BY <2>2, <3>1
  <2> QED
    BY <2>2, <2>3, <2>4
<1> HIDE DEF start, rest
<1>4. RemoveAt(s, i) = start \o rest
  BY DEF RemoveAt, start, rest
<1>5. /\ start \o rest \in Seq(S)
      /\ Len(start \o rest) = Len(start) + Len(rest)
      /\ \A j \in 1..Len(start) + Len(rest) :
           (start \o rest)[j] = IF j <= Len(start) THEN start[j] ELSE rest[j - Len(start)]
  BY <1>2, <1>3, ConcatProperties
<1>6. Len(start) + Len(rest) = Len(s) - 1
  BY <1>1, <1>2, <1>3
<1>7. ASSUME NEW j \in 1..Len(s) - 1
      PROVE  RemoveAt(s, i)[j] = s[IF j < i THEN j ELSE j + 1]
  <2>1. CASE j < i
    BY <1>1, <1>2, <1>4, <1>5, <1>6, <2>1
  <2>2. CASE ~(j < i)
    <3>1. j - (i - 1) \in 1..Len(s) - i /\ i + (j - (i - 1)) = j + 1
      BY <1>1, <2>2
    <3>2. (start \o rest)[j] = rest[j - (i - 1)]
      BY <1>1, <1>2, <1>5, <1>6, <2>2
    <3>3. rest[j - (i - 1)] = s[j + 1]
      <4> DEFINE k == j - (i - 1)
      <4> HIDE DEF k
      <4>1. k \in 1..Len(s) - i /\ i + k = j + 1
        BY <3>1 DEF k
      <4>2. rest[k] = s[j + 1]
        BY <1>3, <4>1
      <4> QED
        BY <4>2 DEF k
    <3> QED
      BY <1>4, <2>2, <3>2, <3>3
  <2> QED
    BY <2>1, <2>2
<1> QED
  BY <1>1, <1>4, <1>5, <1>6, <1>7, LenProperties

LEMMA InsertAtProperties ==
  ASSUME NEW S, NEW s \in Seq(S), NEW i \in 1..Len(s) + 1, NEW e \in S
  PROVE  /\ InsertAt(s, i, e) \in Seq(S)
         /\ Len(InsertAt(s, i, e)) = Len(s) + 1
         /\ DOMAIN InsertAt(s, i, e) = 1..Len(s) + 1
         /\ \A j \in 1..Len(s) + 1 :
              InsertAt(s, i, e)[j] =
                IF j < i THEN s[j] ELSE IF j = i THEN e ELSE s[j - 1]
<1> DEFINE start == SubSeq(s, 1, i - 1)
           rest == SubSeq(s, i, Len(s))
           front == start \o <<e>>
<1>1. /\ Len(s) \in Nat /\ DOMAIN s = 1..Len(s)
      /\ \A j \in 1..Len(s) : s[j] \in S
  OBVIOUS
<1>2. /\ start \in Seq(S) /\ Len(start) = i - 1
      /\ \A j \in 1..i - 1 : start[j] = s[j]
  <2>1. \A j \in 1..i - 1 : s[j] \in S
    BY <1>1
  <2> HIDE DEF start
  <2>2. /\ start \in Seq(S) /\ Len(start) = (IF 1 <= i - 1 THEN i - 1 - 1 + 1 ELSE 0)
        /\ \A j \in 1..i - 1 - 1 + 1 : start[j] = s[1 + j - 1]
    BY <1>1, <2>1, SubSeqProperties, 1 \in Int, i - 1 \in Int DEF start
  <2> QED
    BY <2>2, <1>1
<1>3. /\ rest \in Seq(S) /\ Len(rest) = Len(s) - i + 1
      /\ \A j \in 1..Len(s) - i + 1 : rest[j] = s[i + j - 1]
  <2>1. \A j \in i..Len(s) : s[j] \in S
    BY <1>1
  <2> HIDE DEF rest
  <2>2. /\ rest \in Seq(S)
        /\ Len(rest) = (IF i <= Len(s) THEN Len(s) - i + 1 ELSE 0)
        /\ \A j \in 1..Len(s) - i + 1 : rest[j] = s[i + j - 1]
    BY <1>1, <2>1, SubSeqProperties, i \in Int, Len(s) \in Int DEF rest
  <2> QED
    BY <2>2, <1>1
<1> HIDE DEF start, rest
<1>4. /\ <<e>> \in Seq(S) /\ Len(<<e>>) = 1 /\ <<e>>[1] = e
  OBVIOUS
<1>5. /\ front \in Seq(S) /\ Len(front) = Len(start) + Len(<<e>>)
      /\ \A j \in 1..Len(start) + Len(<<e>>) :
           front[j] = IF j <= Len(start) THEN start[j] ELSE <<e>>[j - Len(start)]
  BY <1>2, <1>4, ConcatProperties
<1>6. /\ Len(front) = i
      /\ \A j \in 1..i : front[j] = IF j < i THEN s[j] ELSE e
  <2> HIDE DEF front
  <2> QED
    BY <1>1, <1>2, <1>4, <1>5
<1>7. InsertAt(s, i, e) = front \o rest
  BY DEF InsertAt, start, rest
<1> HIDE DEF front
<1>8. /\ front \o rest \in Seq(S)
      /\ Len(front \o rest) = Len(front) + Len(rest)
      /\ \A j \in 1..Len(front) + Len(rest) :
           (front \o rest)[j] = IF j <= Len(front) THEN front[j] ELSE rest[j - Len(front)]
  <2>1. front \in Seq(S) /\ rest \in Seq(S)
    BY <1>3, <1>5
  <2> QED
    BY <2>1, ConcatProperties
<1>9. ASSUME NEW j \in 1..Len(s) + 1
      PROVE  InsertAt(s, i, e)[j] =
               IF j < i THEN s[j] ELSE IF j = i THEN e ELSE s[j - 1]
  <2>1. CASE j <= i
    BY <1>1, <1>3, <1>6, <1>7, <1>8, <2>1
  <2>2. CASE ~(j <= i)
    <3>1. j - i \in 1..Len(s) - i + 1 /\ i + (j - i) - 1 = j - 1
      BY <1>1, <2>2
    <3> QED
      BY <1>1, <1>3, <1>6, <1>7, <1>8, <2>2, <3>1
  <2> QED
    BY <2>1, <2>2
<1>10. InsertAt(s, i, e) \in Seq(S) /\ Len(InsertAt(s, i, e)) = Len(s) + 1
  BY <1>1, <1>3, <1>6, <1>7, <1>8
<1>11. DOMAIN InsertAt(s, i, e) = 1..Len(s) + 1
  BY <1>10, LenProperties
<1> QED
  BY <1>9, <1>10, <1>11


LEMMA RemovalSkips ==
  ASSUME NEW S, NEW s \in Seq(S), NEW i \in DOMAIN s
  PROVE  \E K \in [DOMAIN RemoveAt(s, i) -> DOMAIN s \ {i}] :
           /\ \A j, k \in DOMAIN RemoveAt(s, i) : K[j] = K[k] => j = k
           /\ \A m \in DOMAIN s \ {i} : \E j \in DOMAIN RemoveAt(s, i) : K[j] = m
           /\ \A j \in DOMAIN RemoveAt(s, i) : RemoveAt(s, i)[j] = s[K[j]]
<1>1. Len(s) \in Nat /\ DOMAIN s = 1..Len(s)
  BY SequenceLength
<1>2. PICK n \in Nat : n = Len(s)
  BY <1>1
<1>3. i \in 1..n
  BY <1>1, <1>2
<1>4. /\ DOMAIN RemoveAt(s, i) = 1..n - 1
      /\ \A j \in 1..n - 1 : RemoveAt(s, i)[j] = s[IF j < i THEN j ELSE j + 1]
  BY <1>2, <1>3, RemoveAtProperties
<1> DEFINE K == [j \in 1..n - 1 |-> IF j < i THEN j ELSE j + 1]
<1>5. K \in [1..n - 1 -> (1..n) \ {i}]
  BY <1>3
<1>6. \A j, k \in 1..n - 1 : K[j] = K[k] => j = k
  BY <1>3
<1>7. ASSUME NEW m \in (1..n) \ {i} PROVE \E j \in 1..n - 1 : K[j] = m
  <2>1. CASE m < i
    <3>1. m \in 1..n - 1 /\ K[m] = m
      BY <1>3, <2>1
    <3> QED BY <3>1
  <2>2. CASE ~(m < i)
    <3>1. m - 1 \in 1..n - 1 /\ K[m - 1] = m
      BY <1>3, <2>2
    <3> QED BY <3>1
  <2> QED BY <2>1, <2>2
<1>8. \A j \in 1..n - 1 : RemoveAt(s, i)[j] = s[K[j]]
  BY <1>4
<1> HIDE DEF K
<1>9. PICK d : d = 1..n
  OBVIOUS
<1>10. PICK c : c = 1..n - 1
  OBVIOUS
<1>11. DOMAIN s = d /\ DOMAIN RemoveAt(s, i) = c
  BY <1>1, <1>2, <1>4, <1>9, <1>10
<1>12. /\ K \in [c -> d \ {i}]
       /\ \A j, k \in c : K[j] = K[k] => j = k
       /\ \A m \in d \ {i} : \E j \in c : K[j] = m
       /\ \A j \in c : RemoveAt(s, i)[j] = s[K[j]]
  BY <1>5, <1>6, <1>7, <1>8, <1>9, <1>10
<1> QED BY <1>11, <1>12, Zenon

LEMMA TabRemoved ==
  ASSUME NEW S, NEW s \in Seq(S), IsInjective(s), NEW p
  PROVE  /\ Without(s, p) \in Seq(S) /\ IsInjective(Without(s, p))
         /\ ToSet(Without(s, p)) = ToSet(s) \ {p}
<1>1. CASE p \notin ToSet(s)
  BY <1>1 DEF Without
<1>2. CASE p \in ToSet(s)
  <2> DEFINE i == CHOOSE j \in DOMAIN s : s[j] = p
             u == RemoveAt(s, i)
  <2>1. i \in DOMAIN s /\ s[i] = p
    BY <1>2 DEF ToSet
  <2>2. Without(s, p) = u
    BY <1>2 DEF Without
  <2> HIDE DEF i
  <2>3. u \in Seq(S)
    <3>1. i \in 1..Len(s)
      BY <2>1, SequenceLength
    <3> QED BY <3>1, RemoveAtProperties
  <2>4. PICK K \in [DOMAIN u -> DOMAIN s \ {i}] :
           /\ \A j, k \in DOMAIN u : K[j] = K[k] => j = k
           /\ \A m \in DOMAIN s \ {i} : \E j \in DOMAIN u : K[j] = m
           /\ \A j \in DOMAIN u : u[j] = s[K[j]]
    BY <2>1, RemovalSkips
  <2> HIDE DEF u
  <2>5. IsInjective(u)
    BY <2>4 DEF IsInjective
  <2>6. ToSet(u) = ToSet(s) \ {p}
    <3>1. ASSUME NEW x \in ToSet(u) PROVE x \in ToSet(s) \ {p}
      BY <2>1, <2>4 DEF ToSet, IsInjective
    <3>2. ASSUME NEW x \in ToSet(s), x # p PROVE x \in ToSet(u)
      <4>1. PICK m \in DOMAIN s : s[m] = x
        BY DEF ToSet
      <4>2. PICK j \in DOMAIN u : K[j] = m
        BY <2>1, <2>4, <3>2, <4>1
      <4>3. u[j] = x
        BY <2>4, <4>1, <4>2
      <4> QED BY <4>3 DEF ToSet
    <3> QED BY <3>1, <3>2
  <2> QED BY <2>2, <2>3, <2>5, <2>6
<1> QED BY <1>1, <1>2

LEMMA TabInserted ==
  ASSUME NEW S, NEW s \in Seq(S), IsInjective(s), NEW p \in S, p \notin ToSet(s),
         NEW k \in 1..Len(s) + 1
  PROVE  /\ InsertAt(s, k, p) \in Seq(S) /\ IsInjective(InsertAt(s, k, p))
         /\ ToSet(InsertAt(s, k, p)) = ToSet(s) \cup {p}
         /\ InsertAt(s, k, p) # <<>>
<1> DEFINE u == InsertAt(s, k, p)
<1>1. Len(s) \in Nat /\ DOMAIN s = 1..Len(s)
  BY SequenceLength
<1>2. PICK n \in Nat : n = Len(s)
  BY <1>1
<1>4. /\ u \in Seq(S) /\ DOMAIN u = 1..Len(s) + 1 /\ Len(u) = Len(s) + 1
      /\ \A j \in 1..Len(s) + 1 :
           u[j] = IF j < k THEN s[j] ELSE IF j = k THEN p ELSE s[j - 1]
  BY InsertAtProperties
<1> HIDE DEF u
<1>5. /\ u \in Seq(S) /\ DOMAIN u = 1..n + 1 /\ Len(u) = n + 1
      /\ \A j \in 1..n + 1 : u[j] = IF j < k THEN s[j] ELSE IF j = k THEN p ELSE s[j - 1]
  BY <1>2, <1>4
<1>6. k \in 1..n + 1
  BY <1>2
<1>7. \A j \in 1..n : s[j] # p
  BY <1>1, <1>2 DEF ToSet
<1>8. ASSUME NEW j \in 1..n + 1, u[j] = p PROVE j = k
  <2>1. CASE j < k
    <3>1. j \in 1..n /\ u[j] = s[j]
      BY <1>5, <1>6, <2>1
    <3> QED BY <1>7, <1>8, <3>1
  <2>2. CASE j > k
    <3>1. j - 1 \in 1..n /\ u[j] = s[j - 1]
      BY <1>5, <1>6, <2>2
    <3> QED BY <1>7, <1>8, <3>1
  <2> QED BY <1>6, <2>1, <2>2
<1>9. \A a, b \in 1..n + 1 : u[a] = u[b] => a = b
  <2> SUFFICES ASSUME NEW a \in 1..n + 1, NEW b \in 1..n + 1, u[a] = u[b] PROVE a = b
    OBVIOUS
  <2>1. CASE a = k \/ b = k
    <3>1. u[k] = p
      BY <1>5, <1>6
    <3> QED BY <2>1, <3>1, <1>8
  <2>2. CASE a # k /\ b # k
    <3> DEFINE A == IF a < k THEN a ELSE a - 1
               B == IF b < k THEN b ELSE b - 1
    <3>1. A \in 1..n /\ B \in 1..n
      BY <1>6, <2>2
    <3>2. u[a] = s[A] /\ u[b] = s[B]
      BY <1>5, <1>6, <2>2
    <3>3. A = B
      BY <1>1, <1>2, <3>1, <3>2 DEF IsInjective
    <3> QED BY <3>3, <1>6, <2>2
  <2> QED BY <2>1, <2>2
<1>10. ToSet(u) = ToSet(s) \cup {p}
  <2>1. ASSUME NEW j \in 1..n + 1 PROVE u[j] \in ToSet(s) \cup {p}
    <3>1. j < k => j \in 1..n
      BY <1>6
    <3>2. ~(j < k) /\ j # k => j - 1 \in 1..n
      BY <1>6
    <3> QED BY <1>1, <1>2, <1>5, <3>1, <3>2 DEF ToSet
  <2>2. ASSUME NEW m \in 1..n PROVE s[m] \in ToSet(u)
    <3>1. CASE m < k
      <4>1. m \in 1..n + 1 /\ u[m] = s[m]
        BY <1>5, <3>1
      <4> QED BY <4>1, <1>5 DEF ToSet
    <3>2. CASE ~(m < k)
      <4>1. m + 1 \in 1..n + 1 /\ ~(m + 1 < k) /\ m + 1 # k /\ m + 1 - 1 = m
        BY <1>6, <3>2
      <4>2. u[m + 1] = s[m]
        BY <1>5, <4>1
      <4> QED BY <4>1, <4>2, <1>5 DEF ToSet
    <3> QED BY <3>1, <3>2
  <2>3. p \in ToSet(u)
    <3>1. u[k] = p
      BY <1>5, <1>6
    <3> QED BY <1>5, <1>6, <3>1 DEF ToSet
  <2> QED BY <1>1, <1>2, <1>5, <2>1, <2>2, <2>3 DEF ToSet
<1>11. u # <<>>
  BY <1>5
<1> QED BY <1>5, <1>9, <1>10, <1>11 DEF u, IsInjective

-----------------------------------------------------------------------------
(* A layout that Validate accepts, but for the active panel.                *)
FrontsFit(l) ==
  \A g \in DOMAIN l.tabs : IF l.tabs[g] = <<>> THEN l.front[g] = None
                                                 ELSE l.front[g] \in ToSet(l.tabs[g])

Tree(l) == GroupsHaveOneLeaf(l) /\ NodesOwnedOnce(l) /\ NodesReachable(l)

Sound(l) == IsLayout(l) /\ PanelsPlacedOnce(l) /\ FrontsFit(l) /\ Tree(l)

LEMMA SoundIsWellFormed ==
  ASSUME NEW l, Sound(l), l.active \in l.panels \cup {None}
  PROVE  WellFormed(l)
BY DEF Sound, Tree, WellFormed, FrontsFit, FrontsInTabs

LEMMA WellFormedIsSound ==
  ASSUME NEW l, IsLayout(l), WellFormed(l)
  PROVE  Sound(l)
BY DEF Sound, Tree, WellFormed, FrontsFit, FrontsInTabs

(* The tree only depends on the groups there are.                           *)
LEMMA TreeKept ==
  ASSUME NEW l, NEW r, Tree(l), DOMAIN r.tabs = DOMAIN l.tabs,
         r.leaf = l.leaf, r.split = l.split, r.root = l.root, r.hosts = l.hosts
  PROVE  Tree(r)
<1>1. /\ Nodes(r) = Nodes(l) /\ Roots(r) = Roots(l)
      /\ \A n : Children(r, n) = Children(l, n)
  BY DEF Nodes, Roots, Children
<1>2. GroupsHaveOneLeaf(r)
  <2>1. \A g : HasLeaf(r, g) <=> HasLeaf(l, g)
    BY DEF HasLeaf
  <2> QED BY <2>1 DEF Tree, GroupsHaveOneLeaf
<1>3. NodesOwnedOnce(r)
  BY <1>1 DEF Tree, NodesOwnedOnce
<1>4. NodesReachable(r)
  BY <1>1 DEF Tree, NodesReachable
<1> QED BY <1>2, <1>3, <1>4 DEF Tree

(* The layout without a panel.                                              *)
Taken(l, p) == [Detached(l, p) EXCEPT !.panels = @ \ {p}]

LEMMA DetachedFields ==
  ASSUME NEW l, IsLayout(l), NEW p
  PROVE  Detached(l, p) =
              [panels |-> l.panels, groups |-> l.groups, role |-> l.role,
               tabs |-> [g \in DOMAIN l.tabs |-> Without(l.tabs[g], p)],
               front |-> [g \in DOMAIN l.tabs |->
                            FrontTab(Without(l.tabs[g], p), l.front[g])],
               leaf |-> l.leaf, split |-> l.split, root |-> l.root, hosts |-> l.hosts,
               hidden |-> Unhidden(l, p), active |-> l.active]
<1>1. PICK panels, groups, role, tabs, front, leaf, split, root, hosts, hidden, active :
        l = [panels |-> panels, groups |-> groups, role |-> role, tabs |-> tabs,
             front |-> front, leaf |-> leaf, split |-> split, root |-> root,
             hosts |-> hosts, hidden |-> hidden, active |-> active]
  BY DEF IsLayout
<1>2. PICK tabs1, front1, hidden1 :
        /\ tabs1 = [g \in DOMAIN l.tabs |-> Without(l.tabs[g], p)]
        /\ front1 = [g \in DOMAIN l.tabs |-> FrontTab(Without(l.tabs[g], p), l.front[g])]
        /\ hidden1 = Unhidden(l, p)
  OBVIOUS
<1>3. Detached(l, p) = [l EXCEPT !.tabs = tabs1, !.front = front1, !.hidden = hidden1]
  BY <1>2 DEF Detached
<1>4. Detached(l, p) =
        [panels |-> panels, groups |-> groups, role |-> role, tabs |-> tabs1,
         front |-> front1, leaf |-> leaf, split |-> split, root |-> root,
         hosts |-> hosts, hidden |-> hidden1, active |-> active]
  BY <1>1, <1>3
<1>5. /\ l.panels = panels /\ l.groups = groups /\ l.role = role /\ l.leaf = leaf
      /\ l.split = split /\ l.root = root /\ l.hosts = hosts /\ l.active = active
  BY <1>1
<1> QED BY <1>2, <1>4, <1>5

LEMMA RemovedFields ==
  ASSUME NEW l, IsLayout(l), NEW p
  PROVE  Taken(l, p) =
              [panels |-> l.panels \ {p}, groups |-> l.groups, role |-> l.role,
               tabs |-> [g \in DOMAIN l.tabs |-> Without(l.tabs[g], p)],
               front |-> [g \in DOMAIN l.tabs |->
                            FrontTab(Without(l.tabs[g], p), l.front[g])],
               leaf |-> l.leaf, split |-> l.split, root |-> l.root, hosts |-> l.hosts,
               hidden |-> Unhidden(l, p), active |-> l.active]
<1>1. PICK tabs, front, hidden :
        /\ tabs = [g \in DOMAIN l.tabs |-> Without(l.tabs[g], p)]
        /\ front = [g \in DOMAIN l.tabs |-> FrontTab(Without(l.tabs[g], p), l.front[g])]
        /\ hidden = Unhidden(l, p)
  OBVIOUS
<1>2. Detached(l, p) =
        [panels |-> l.panels, groups |-> l.groups, role |-> l.role, tabs |-> tabs,
         front |-> front, leaf |-> l.leaf, split |-> l.split, root |-> l.root,
         hosts |-> l.hosts, hidden |-> hidden, active |-> l.active]
  BY <1>1, DetachedFields
<1>3. Taken(l, p) =
        [panels |-> l.panels \ {p}, groups |-> l.groups, role |-> l.role, tabs |-> tabs,
         front |-> front, leaf |-> l.leaf, split |-> l.split, root |-> l.root,
         hosts |-> l.hosts, hidden |-> hidden, active |-> l.active]
  BY <1>2 DEF Taken
<1> QED BY <1>1, <1>3

LEMMA UnhiddenPanel ==
  ASSUME NEW l, IsLayout(l), NEW p,
         \A i, j \in DOMAIN l.hidden : l.hidden[i].panel = l.hidden[j].panel => i = j
  PROVE  /\ Unhidden(l, p) \in Seq(ToSet(Unhidden(l, p)))
         /\ ToSet(Unhidden(l, p)) = {e \in ToSet(l.hidden) : e.panel # p}
         /\ \A i, j \in DOMAIN Unhidden(l, p) :
              Unhidden(l, p)[i].panel = Unhidden(l, p)[j].panel => i = j
<1> DEFINE h == l.hidden
<1>1. h \in Seq(ToSet(h))
  BY DEF IsLayout
<1>2. CASE p \notin Hidden(l)
  BY <1>1, <1>2 DEF Unhidden, Hidden
<1>3. CASE p \in Hidden(l)
  <2> DEFINE i == CHOOSE j \in DOMAIN h : h[j].panel = p
             u == RemoveAt(h, i)
  <2>1. i \in DOMAIN h /\ h[i].panel = p
    <3>1. \E j \in DOMAIN h : h[j].panel = p
      BY <1>3 DEF ToSet, Hidden
    <3> QED BY <3>1
  <2>2. Unhidden(l, p) = u
    BY <1>3 DEF Unhidden
  <2> HIDE DEF i
  <2>3. u \in Seq(ToSet(h))
    <3>1. i \in 1..Len(h)
      BY <1>1, <2>1, SequenceLength
    <3> QED BY <1>1, <3>1, RemoveAtProperties
  <2>4. PICK K \in [DOMAIN u -> DOMAIN h \ {i}] :
           /\ \A j, k \in DOMAIN u : K[j] = K[k] => j = k
           /\ \A m \in DOMAIN h \ {i} : \E j \in DOMAIN u : K[j] = m
           /\ \A j \in DOMAIN u : u[j] = h[K[j]]
    <3> HIDE DEF h
    <3> QED BY <1>1, <2>1, RemovalSkips
  <2> HIDE DEF u
  <2>5. ASSUME NEW j \in DOMAIN u, NEW k \in DOMAIN u, u[j].panel = u[k].panel
        PROVE  j = k
    BY <2>4, <2>5
  <2>6. ToSet(u) = {e \in ToSet(h) : e.panel # p}
    <3>1. ASSUME NEW j \in DOMAIN u PROVE u[j] \in ToSet(h) /\ u[j].panel # p
      BY <2>1, <2>4 DEF ToSet
    <3>2. ASSUME NEW m \in DOMAIN h, h[m].panel # p PROVE h[m] \in ToSet(u)
      <4>1. PICK j \in DOMAIN u : K[j] = m
        BY <2>1, <2>4, <3>2
      <4> QED BY <2>4, <4>1 DEF ToSet
    <3> QED BY <3>1, <3>2 DEF ToSet
  <2>7. u \in Seq(ToSet(u))
    <3>1. DOMAIN u = 1..Len(u) /\ Len(u) \in Nat
      BY <2>3, SequenceLength
    <3>2. \A j \in 1..Len(u) : u[j] \in ToSet(u)
      BY <3>1 DEF ToSet
    <3>3. u = [j \in 1..Len(u) |-> u[j]]
      BY <2>3
    <3> QED BY <3>1, <3>2, <3>3
  <2> QED BY <2>2, <2>5, <2>6, <2>7
<1> QED BY <1>2, <1>3

(* No panel but p has moved; no panel has.                                  *)
OthersKept(l, r, p) == \A x : x # p => Place(r, x) = Place(l, x)
AllKept(l, r) == \A x : Place(r, x) = Place(l, x)

LEMMA RemovedIsSound ==
  ASSUME NEW l, Sound(l), NEW p, NEW r, r = Taken(l, p)
  PROVE  Sound(r) /\ OthersKept(l, r, p)
<1>1. /\ r = [panels |-> l.panels \ {p}, groups |-> l.groups, role |-> l.role,
               tabs |-> [g \in DOMAIN l.tabs |-> Without(l.tabs[g], p)],
               front |-> [g \in DOMAIN l.tabs |->
                            FrontTab(Without(l.tabs[g], p), l.front[g])],
               leaf |-> l.leaf, split |-> l.split, root |-> l.root, hosts |-> l.hosts,
               hidden |-> Unhidden(l, p), active |-> l.active]
      /\ IsLayout(l)
  BY RemovedFields DEF Sound
<1>2. /\ r.panels = l.panels \ {p} /\ r.groups = l.groups /\ r.role = l.role
      /\ DOMAIN r.tabs = DOMAIN l.tabs
      /\ DOMAIN r.front = DOMAIN l.tabs
      /\ r.leaf = l.leaf /\ r.split = l.split /\ r.root = l.root /\ r.hosts = l.hosts
      /\ r.hidden = Unhidden(l, p)
  BY <1>1
<1>3. \A g \in DOMAIN l.tabs : /\ r.tabs[g] = Without(l.tabs[g], p)
                               /\ r.front[g] = FrontTab(r.tabs[g], l.front[g])
  BY <1>1
<1>4. r = [panels |-> r.panels, groups |-> r.groups, role |-> r.role, tabs |-> r.tabs,
           front |-> r.front, leaf |-> r.leaf, split |-> r.split, root |-> r.root,
           hosts |-> r.hosts, hidden |-> r.hidden, active |-> r.active]
  BY <1>1
<1>5. r.tabs = [g \in DOMAIN l.tabs |-> r.tabs[g]]
  BY <1>1
<1>6. PanelsPlacedOnce(l)
  BY DEF Sound
<1>7. ASSUME NEW g \in DOMAIN l.tabs
      PROVE  /\ r.tabs[g] \in Seq(DOMAIN Role) /\ IsInjective(r.tabs[g])
             /\ ToSet(r.tabs[g]) = ToSet(l.tabs[g]) \ {p}
  <2>1. l.tabs[g] \in Seq(DOMAIN Role)
    BY <1>1 DEF IsLayout
  <2>2. IsInjective(l.tabs[g])
    BY <1>6 DEF PanelsPlacedOnce
  <2> QED BY <1>3, <2>1, <2>2, TabRemoved
<1>8. /\ r.hidden \in Seq(ToSet(r.hidden))
      /\ ToSet(r.hidden) = {e \in ToSet(l.hidden) : e.panel # p}
      /\ \A i, j \in DOMAIN r.hidden : r.hidden[i].panel = r.hidden[j].panel => i = j
  BY <1>1, <1>2, <1>6, UnhiddenPanel DEF PanelsPlacedOnce
<1>9. Hidden(r) = Hidden(l) \ {p}
  BY <1>8 DEF Hidden
<1>10. IsLayout(r)
  <2>1. r.tabs \in [DOMAIN r.tabs -> Seq(DOMAIN Role)]
    BY <1>2, <1>5, <1>7
  <2>2. r.panels \subseteq DOMAIN Role
    BY <1>1, <1>2 DEF IsLayout
  <2>3. /\ r.groups \in Seq(DOMAIN r.tabs) /\ ToSet(r.groups) = DOMAIN r.tabs
        /\ DOMAIN r.role = DOMAIN r.tabs /\ DOMAIN r.front = DOMAIN r.tabs
    BY <1>1, <1>2 DEF IsLayout
  <2> QED BY <1>4, <1>8, <2>1, <2>2, <2>3 DEF IsLayout
<1>11. PanelsPlacedOnce(r)
  <2> HIDE DEF Hidden
  <2>1. ASSUME NEW g \in DOMAIN l.tabs
        PROVE  /\ ToSet(r.tabs[g]) \subseteq r.panels
               /\ \A q \in ToSet(r.tabs[g]) : Role[q] = r.role[g]
    <3>1. /\ ToSet(l.tabs[g]) \subseteq l.panels
          /\ \A q \in ToSet(l.tabs[g]) : Role[q] = l.role[g]
      BY <1>6 DEF PanelsPlacedOnce
    <3>2. ToSet(r.tabs[g]) = ToSet(l.tabs[g]) \ {p}
      BY <1>7
    <3> QED BY <1>2, <3>1, <3>2
  <2>2. ASSUME NEW g \in DOMAIN l.tabs, NEW k \in DOMAIN l.tabs, g # k
        PROVE  ToSet(r.tabs[g]) \cap ToSet(r.tabs[k]) = {}
    <3>1. ToSet(l.tabs[g]) \cap ToSet(l.tabs[k]) = {}
      BY <1>6, <2>2 DEF PanelsPlacedOnce
    <3>2. /\ ToSet(r.tabs[g]) = ToSet(l.tabs[g]) \ {p}
          /\ ToSet(r.tabs[k]) = ToSet(l.tabs[k]) \ {p}
      BY <1>7
    <3> QED BY <3>1, <3>2
  <2>3. \A q \in Hidden(r) : q \in r.panels /\ Role[q] = "tool"
    BY <1>2, <1>6, <1>9 DEF PanelsPlacedOnce
  <2>4. \A g \in DOMAIN r.tabs : ToSet(r.tabs[g]) \cap Hidden(r) = {}
    BY <1>2, <1>6, <1>7, <1>9 DEF PanelsPlacedOnce
  <2>5. ASSUME NEW q \in r.panels, q \notin Hidden(r)
        PROVE  \E g \in DOMAIN l.tabs : q \in ToSet(r.tabs[g])
    <3>1. q \in l.panels /\ q # p /\ q \notin Hidden(l)
      BY <1>2, <1>9, <2>5
    <3>2. PICK g \in DOMAIN l.tabs : q \in ToSet(l.tabs[g])
      BY <1>6, <3>1 DEF PanelsPlacedOnce
    <3>3. q \in ToSet(r.tabs[g])
      BY <1>7, <3>1, <3>2
    <3> QED BY <3>3
  <2> QED BY <1>2, <1>7, <1>8, <2>1, <2>2, <2>3, <2>4, <2>5 DEF PanelsPlacedOnce
<1>12. FrontsFit(r)
  <2> SUFFICES ASSUME NEW g \in DOMAIN l.tabs
               PROVE  IF r.tabs[g] = <<>> THEN r.front[g] = None
                                          ELSE r.front[g] \in ToSet(r.tabs[g])
    BY <1>2 DEF FrontsFit
  <2>1. r.front[g] = FrontTab(r.tabs[g], l.front[g])
    BY <1>3
  <2>2. r.tabs[g] = <<>> => ToSet(r.tabs[g]) = {}
    BY DEF ToSet
  <2>3. r.tabs[g] # <<>> => r.tabs[g][1] \in ToSet(r.tabs[g])
    <3>1. r.tabs[g] # <<>> => 1 \in DOMAIN r.tabs[g]
      BY <1>7
    <3> QED BY <3>1 DEF ToSet
  <2> QED BY <2>1, <2>2, <2>3 DEF FrontTab
<1>13. Tree(r)
  BY <1>2, TreeKept DEF Sound
<1>14. OthersKept(l, r, p)
  BY <1>2, <1>7, <1>8 DEF OthersKept, Place
<1> QED BY <1>14, <1>10, <1>11, <1>12, <1>13 DEF Sound

(* A panel that is nowhere gets a tab.                                      *)
LEMMA AddedFields ==
  ASSUME NEW l, IsLayout(l), NEW p, NEW g \in DOMAIN l.tabs, NEW i
  PROVE  PanelAdded(l, p, g, i) =
              [panels |-> l.panels \cup {p}, groups |-> l.groups, role |-> l.role,
               tabs |-> [l.tabs EXCEPT ![g] = InsertAt(l.tabs[g], i + 1, p)],
               front |-> [l.front EXCEPT ![g] = p],
               leaf |-> l.leaf, split |-> l.split, root |-> l.root, hosts |-> l.hosts,
               hidden |-> l.hidden, active |-> p]
<1>1. PICK panels, groups, role, tabs, front, leaf, split, root, hosts, hidden, active :
        l = [panels |-> panels, groups |-> groups, role |-> role, tabs |-> tabs,
             front |-> front, leaf |-> leaf, split |-> split, root |-> root,
             hosts |-> hosts, hidden |-> hidden, active |-> active]
  BY DEF IsLayout
<1>2. PICK tab : tab = InsertAt(tabs[g], i + 1, p)
  OBVIOUS
<1>3. PanelAdded(l, p, g, i) =
        [l EXCEPT !.panels = @ \cup {p}, !.tabs[g] = tab, !.front[g] = p, !.active = p]
  BY <1>1, <1>2 DEF PanelAdded
<1>4. PanelAdded(l, p, g, i) =
        [panels |-> panels \cup {p}, groups |-> groups, role |-> role,
         tabs |-> [tabs EXCEPT ![g] = tab], front |-> [front EXCEPT ![g] = p],
         leaf |-> leaf, split |-> split, root |-> root, hosts |-> hosts,
         hidden |-> hidden, active |-> p]
  BY <1>1, <1>3
<1>5. /\ l.panels = panels /\ l.groups = groups /\ l.role = role /\ l.leaf = leaf
      /\ l.split = split /\ l.root = root /\ l.hosts = hosts /\ l.tabs = tabs
      /\ l.front = front /\ l.hidden = hidden
  BY <1>1
<1> QED BY <1>2, <1>4, <1>5

LEMMA AddedIsSound ==
  ASSUME NEW l, Sound(l), NEW p \in DOMAIN Role, p \notin l.panels,
         NEW g \in DOMAIN l.tabs, l.role[g] = Role[p], NEW i \in 0..Len(l.tabs[g]),
         NEW r, r = PanelAdded(l, p, g, i)
  PROVE  /\ Sound(r) /\ ActiveShown(r) /\ OthersKept(l, r, p)
         /\ r.panels = l.panels \cup {p} /\ r.active = p
         /\ DOMAIN r.tabs = DOMAIN l.tabs /\ r.role = l.role
         /\ \A k \in DOMAIN l.tabs \ {g} : r.tabs[k] = l.tabs[k]
         /\ Len(r.tabs[g]) = Len(l.tabs[g]) + 1
         /\ r.leaf = l.leaf /\ r.split = l.split
<1>1. IsLayout(l) /\ PanelsPlacedOnce(l) /\ FrontsFit(l) /\ Tree(l)
  BY DEF Sound
<1>2. r = [panels |-> l.panels \cup {p}, groups |-> l.groups, role |-> l.role,
           tabs |-> [l.tabs EXCEPT ![g] = InsertAt(l.tabs[g], i + 1, p)],
           front |-> [l.front EXCEPT ![g] = p],
           leaf |-> l.leaf, split |-> l.split, root |-> l.root, hosts |-> l.hosts,
           hidden |-> l.hidden, active |-> p]
  <2>1. IsLayout(l)
    BY <1>1
  <2>2. PanelAdded(l, p, g, i) = [panels |-> l.panels \cup {p}, groups |-> l.groups, role |-> l.role,
               tabs |-> [l.tabs EXCEPT ![g] = InsertAt(l.tabs[g], i + 1, p)],
               front |-> [l.front EXCEPT ![g] = p],
               leaf |-> l.leaf, split |-> l.split, root |-> l.root, hosts |-> l.hosts,
               hidden |-> l.hidden, active |-> p]
    BY <2>1, AddedFields, g \in DOMAIN l.tabs, Zenon
  <2> QED
    BY <2>2, r = PanelAdded(l, p, g, i), Zenon
<1>3. /\ r.panels = l.panels \cup {p} /\ r.groups = l.groups /\ r.role = l.role
      /\ r.leaf = l.leaf /\ r.split = l.split /\ r.root = l.root /\ r.hosts = l.hosts
      /\ r.hidden = l.hidden /\ r.active = p
  BY <1>2
<1>4. r = [panels |-> r.panels, groups |-> r.groups, role |-> r.role, tabs |-> r.tabs,
           front |-> r.front, leaf |-> r.leaf, split |-> r.split, root |-> r.root,
           hosts |-> r.hosts, hidden |-> r.hidden, active |-> r.active]
  BY <1>2
<1>5. /\ l.tabs \in [DOMAIN l.tabs -> Seq(DOMAIN Role)]
      /\ DOMAIN l.front = DOMAIN l.tabs /\ DOMAIN l.role = DOMAIN l.tabs
      /\ l.groups \in Seq(DOMAIN l.tabs) /\ ToSet(l.groups) = DOMAIN l.tabs
      /\ l.panels \subseteq DOMAIN Role /\ l.hidden \in Seq(ToSet(l.hidden))
  BY <1>1 DEF IsLayout
<1>6. PICK tab : tab = InsertAt(l.tabs[g], i + 1, p)
  OBVIOUS
<1>7. /\ DOMAIN r.tabs = DOMAIN l.tabs /\ DOMAIN r.front = DOMAIN l.tabs
      /\ r.tabs[g] = tab /\ r.front[g] = p
      /\ \A k \in DOMAIN l.tabs \ {g} : r.tabs[k] = l.tabs[k] /\ r.front[k] = l.front[k]
      /\ r.tabs = [k \in DOMAIN l.tabs |-> r.tabs[k]]
  <2>1. r.tabs = [l.tabs EXCEPT ![g] = tab] /\ r.front = [l.front EXCEPT ![g] = p]
    BY <1>2, <1>6
  <2> QED BY <1>5, <2>1
<1>8. p \notin Hidden(l) /\ \A k \in DOMAIN l.tabs : p \notin ToSet(l.tabs[k])
  BY <1>1 DEF PanelsPlacedOnce
<1>9. /\ tab \in Seq(DOMAIN Role) /\ IsInjective(tab) /\ tab # <<>>
      /\ ToSet(tab) = ToSet(l.tabs[g]) \cup {p} /\ Len(tab) = Len(l.tabs[g]) + 1
  <2>1. PICK t \in Seq(DOMAIN Role) : t = l.tabs[g]
    BY <1>5
  <2>2. IsInjective(t) /\ p \notin ToSet(t)
    BY <1>1, <1>8, <2>1 DEF PanelsPlacedOnce
  <2>3. i + 1 \in 1..Len(t) + 1
    BY <2>1
  <2>4. PICK k \in 1..Len(t) + 1 : k = i + 1
    BY <2>3
  <2>5. tab = InsertAt(t, k, p)
    BY <1>6, <2>1, <2>4
  <2> QED BY <2>1, <2>2, <2>5, TabInserted, InsertAtProperties
<1>10. \A k \in DOMAIN l.tabs :
         ToSet(r.tabs[k]) = IF k = g THEN ToSet(l.tabs[k]) \cup {p} ELSE ToSet(l.tabs[k])
  BY <1>7, <1>9
<1>11. Hidden(r) = Hidden(l)
  BY <1>3 DEF Hidden
<1>12. IsLayout(r)
  <2>1. \A k \in DOMAIN l.tabs : r.tabs[k] \in Seq(DOMAIN Role)
    BY <1>5, <1>7, <1>9
  <2>2. r.tabs \in [DOMAIN r.tabs -> Seq(DOMAIN Role)]
    BY <1>7, <2>1
  <2> QED BY <1>3, <1>4, <1>5, <1>7, <2>2 DEF IsLayout
<1>13. PanelsPlacedOnce(r)
  <2>1. ASSUME NEW k \in DOMAIN l.tabs
        PROVE  /\ IsInjective(r.tabs[k])
               /\ ToSet(r.tabs[k]) \subseteq r.panels
               /\ \A q \in ToSet(r.tabs[k]) : Role[q] = r.role[k]
    <3>1. /\ IsInjective(l.tabs[k])
          /\ ToSet(l.tabs[k]) \subseteq l.panels
          /\ \A q \in ToSet(l.tabs[k]) : Role[q] = l.role[k]
      BY <1>1 DEF PanelsPlacedOnce
    <3>2. CASE k = g
      BY <1>3, <1>7, <1>9, <3>1, <3>2
    <3>3. CASE k # g
      BY <1>3, <1>7, <3>1, <3>3
    <3> QED BY <3>2, <3>3
  <2>2. ASSUME NEW k \in DOMAIN l.tabs, NEW m \in DOMAIN l.tabs, k # m
        PROVE  ToSet(r.tabs[k]) \cap ToSet(r.tabs[m]) = {}
    <3>1. ToSet(l.tabs[k]) \cap ToSet(l.tabs[m]) = {}
      BY <1>1, <2>2 DEF PanelsPlacedOnce
    <3> QED BY <1>8, <1>10, <2>2, <3>1
  <2>3. \A q \in Hidden(r) : q \in r.panels /\ Role[q] = "tool"
    BY <1>1, <1>3, <1>11 DEF PanelsPlacedOnce
  <2>4. ASSUME NEW k \in DOMAIN l.tabs PROVE ToSet(r.tabs[k]) \cap Hidden(r) = {}
    <3>1. ToSet(l.tabs[k]) \cap Hidden(l) = {}
      BY <1>1 DEF PanelsPlacedOnce
    <3> QED BY <1>8, <1>10, <1>11, <3>1
  <2>5. ASSUME NEW q \in r.panels, q \notin Hidden(r)
        PROVE  \E k \in DOMAIN l.tabs : q \in ToSet(r.tabs[k])
    <3>1. CASE q = p
      BY <1>10, <3>1
    <3>2. CASE q # p
      <4>1. PICK k \in DOMAIN l.tabs : q \in ToSet(l.tabs[k])
        BY <1>1, <1>3, <1>11, <2>5, <3>2 DEF PanelsPlacedOnce
      <4> QED BY <1>10, <4>1
    <3> QED BY <3>1, <3>2
  <2>6. \A j, k \in DOMAIN r.hidden : r.hidden[j].panel = r.hidden[k].panel => j = k
    BY <1>1, <1>3 DEF PanelsPlacedOnce
  <2> QED BY <1>7, <2>1, <2>2, <2>3, <2>4, <2>5, <2>6 DEF PanelsPlacedOnce
<1>14. FrontsFit(r)
  BY <1>1, <1>7, <1>9 DEF FrontsFit
<1>15. Tree(r)
  BY <1>1, <1>3, <1>7, TreeKept
<1>16. ActiveShown(r)
  <2>1. p # None
    BY DockAssumption DEF DockAssumption
  <2>2. \A k \in DOMAIN r.tabs : p \in ToSet(r.tabs[k]) => k = g
    BY <1>7, <1>8, <1>10
  <2> QED BY <1>3, <1>7, <2>1, <2>2 DEF ActiveShown
<1>17. OthersKept(l, r, p)
  <2> SUFFICES ASSUME NEW x, x # p PROVE Place(r, x) = Place(l, x)
    BY DEF OthersKept
  <2>1. {k \in DOMAIN r.tabs : x \in ToSet(r.tabs[k])} =
          {k \in DOMAIN l.tabs : x \in ToSet(l.tabs[k])}
    <3>1. \A k \in DOMAIN l.tabs : x \in ToSet(r.tabs[k]) <=> x \in ToSet(l.tabs[k])
      BY <1>10
    <3> QED BY <1>7, <3>1
  <2> QED BY <1>3, <2>1, Zenon DEF Place
<1> QED BY <1>17, <1>3, <1>7, <1>9, <1>12, <1>13, <1>14, <1>15, <1>16 DEF Sound

(* A tool that is nowhere is hidden at an edge.                             *)
HiddenAdded(l, p, e) ==
  [l EXCEPT !.panels = @ \cup {p}, !.hidden = Append(@, [panel |-> p, edge |-> e]),
            !.active = p]

LEMMA HiddenFields ==
  ASSUME NEW l, IsLayout(l), NEW p, NEW e
  PROVE  HiddenAdded(l, p, e) =
              [panels |-> l.panels \cup {p}, groups |-> l.groups, role |-> l.role,
               tabs |-> l.tabs, front |-> l.front,
               leaf |-> l.leaf, split |-> l.split, root |-> l.root, hosts |-> l.hosts,
               hidden |-> Append(l.hidden, [panel |-> p, edge |-> e]), active |-> p]
<1>1. PICK panels, groups, role, tabs, front, leaf, split, root, hosts, hidden, active :
        l = [panels |-> panels, groups |-> groups, role |-> role, tabs |-> tabs,
             front |-> front, leaf |-> leaf, split |-> split, root |-> root,
             hosts |-> hosts, hidden |-> hidden, active |-> active]
  BY DEF IsLayout
<1>2. PICK entries : entries = Append(hidden, [panel |-> p, edge |-> e])
  OBVIOUS
<1>3. HiddenAdded(l, p, e) =
        [l EXCEPT !.panels = @ \cup {p}, !.hidden = entries, !.active = p]
  BY <1>1, <1>2 DEF HiddenAdded
<1>4. HiddenAdded(l, p, e) =
        [panels |-> panels \cup {p}, groups |-> groups, role |-> role, tabs |-> tabs,
         front |-> front, leaf |-> leaf, split |-> split, root |-> root, hosts |-> hosts,
         hidden |-> entries, active |-> p]
  BY <1>1, <1>3
<1>5. /\ l.panels = panels /\ l.groups = groups /\ l.role = role /\ l.leaf = leaf
      /\ l.split = split /\ l.root = root /\ l.hosts = hosts /\ l.tabs = tabs
      /\ l.front = front /\ l.hidden = hidden
  BY <1>1
<1> QED BY <1>2, <1>4, <1>5

LEMMA HiddenIsSound ==
  ASSUME NEW l, Sound(l), NEW p \in DOMAIN Role, p \notin l.panels, Role[p] = "tool",
         NEW e, NEW r, r = HiddenAdded(l, p, e)
  PROVE  /\ Sound(r) /\ ActiveShown(r) /\ OthersKept(l, r, p)
         /\ r.panels = l.panels \cup {p} /\ r.active = p
         /\ r.tabs = l.tabs /\ r.role = l.role /\ r.leaf = l.leaf /\ r.split = l.split
<1>1. IsLayout(l) /\ PanelsPlacedOnce(l) /\ FrontsFit(l) /\ Tree(l)
  BY DEF Sound
<1>2. r = [panels |-> l.panels \cup {p}, groups |-> l.groups, role |-> l.role,
           tabs |-> l.tabs, front |-> l.front,
           leaf |-> l.leaf, split |-> l.split, root |-> l.root, hosts |-> l.hosts,
           hidden |-> Append(l.hidden, [panel |-> p, edge |-> e]), active |-> p]
  BY <1>1, HiddenFields
<1>3. PICK x : x = [panel |-> p, edge |-> e]
  OBVIOUS
<1>4. /\ r.panels = l.panels \cup {p} /\ r.groups = l.groups /\ r.role = l.role
      /\ r.leaf = l.leaf /\ r.split = l.split /\ r.root = l.root /\ r.hosts = l.hosts
      /\ r.tabs = l.tabs /\ r.front = l.front
      /\ r.hidden = Append(l.hidden, x) /\ r.active = p
  BY <1>2, <1>3
<1>5. r = [panels |-> r.panels, groups |-> r.groups, role |-> r.role, tabs |-> r.tabs,
           front |-> r.front, leaf |-> r.leaf, split |-> r.split, root |-> r.root,
           hosts |-> r.hosts, hidden |-> r.hidden, active |-> r.active]
  BY <1>2
<1>6. p \notin Hidden(l) /\ \A k \in DOMAIN l.tabs : p \notin ToSet(l.tabs[k])
  BY <1>1 DEF PanelsPlacedOnce
<1>7. /\ r.hidden \in Seq(ToSet(r.hidden))
      /\ ToSet(r.hidden) = ToSet(l.hidden) \cup {x}
      /\ \A i, j \in DOMAIN r.hidden : r.hidden[i].panel = r.hidden[j].panel => i = j
  <2>1. PICK h \in Seq(ToSet(l.hidden)) : h = l.hidden
    BY <1>1 DEF IsLayout
  <2>2. PICK n \in Nat : n = Len(h)
    BY <2>1, SequenceLength
  <2>3. DOMAIN h = 1..n /\ \A i \in 1..n : h[i] \in ToSet(l.hidden)
    BY <2>1, <2>2
  <2>4. PICK u : u = Append(h, x)
    OBVIOUS
  <2>5. /\ u \in Seq(ToSet(l.hidden) \cup {x}) /\ DOMAIN u = 1..n + 1
        /\ \A i \in 1..n + 1 : u[i] = IF i = n + 1 THEN x ELSE h[i]
    BY <2>2, <2>4
  <2>6. ToSet(u) = ToSet(l.hidden) \cup {x}
    <3>1. \A i \in 1..n : i \in 1..n + 1 /\ u[i] = h[i]
      BY <2>5
    <3>2. n + 1 \in 1..n + 1 /\ u[n + 1] = x
      BY <2>5
    <3>3. \A i \in 1..n + 1 : i = n + 1 \/ i \in 1..n
      OBVIOUS
    <3>4. ASSUME NEW y \in ToSet(u) PROVE y \in ToSet(l.hidden) \cup {x}
      BY <2>3, <2>5, <3>1, <3>2, <3>3 DEF ToSet
    <3>5. ASSUME NEW y \in ToSet(l.hidden) PROVE y \in ToSet(u)
      BY <2>1, <2>3, <2>5, <3>1 DEF ToSet
    <3>6. x \in ToSet(u)
      BY <2>5, <3>2 DEF ToSet
    <3> QED BY <3>4, <3>5, <3>6
  <2>7. ASSUME NEW i \in 1..n + 1, NEW j \in 1..n + 1, u[i].panel = u[j].panel
        PROVE  i = j
    <3>1. x.panel = p
      BY <1>3
    <3>2. \A a \in 1..n : h[a].panel # p
      BY <1>6, <2>1, <2>3 DEF ToSet, Hidden
    <3>3. \A a, b \in 1..n : h[a].panel = h[b].panel => a = b
      BY <1>1, <2>1, <2>3 DEF PanelsPlacedOnce
    <3>4. i = n + 1 \/ i \in 1..n
      OBVIOUS
    <3>5. j = n + 1 \/ j \in 1..n
      OBVIOUS
    <3> QED BY <2>5, <2>7, <3>1, <3>2, <3>3, <3>4, <3>5
  <2>8. r.hidden = u
    BY <1>4, <2>1, <2>4
  <2> QED BY <2>5, <2>6, <2>7, <2>8
<1>8. Hidden(r) = Hidden(l) \cup {p}
  <2>1. x.panel = p
    BY <1>3
  <2> QED BY <1>7, <2>1 DEF Hidden
<1>9. IsLayout(r)
  <2>1. r.panels \subseteq DOMAIN Role
    BY <1>1, <1>4 DEF IsLayout
  <2> QED BY <1>1, <1>4, <1>5, <1>7, <2>1 DEF IsLayout
<1>10. PanelsPlacedOnce(r)
  <2>1. ASSUME NEW k \in DOMAIN l.tabs
        PROVE  /\ IsInjective(r.tabs[k])
               /\ ToSet(r.tabs[k]) \subseteq r.panels
               /\ \A q \in ToSet(r.tabs[k]) : Role[q] = r.role[k]
    BY <1>1, <1>4 DEF PanelsPlacedOnce
  <2>2. ASSUME NEW k \in DOMAIN l.tabs, NEW m \in DOMAIN l.tabs, k # m
        PROVE  ToSet(r.tabs[k]) \cap ToSet(r.tabs[m]) = {}
    BY <1>1, <1>4, <2>2 DEF PanelsPlacedOnce
  <2>3. \A q \in Hidden(r) : q \in r.panels /\ Role[q] = "tool"
    BY <1>1, <1>4, <1>8 DEF PanelsPlacedOnce
  <2>4. ASSUME NEW k \in DOMAIN l.tabs PROVE ToSet(r.tabs[k]) \cap Hidden(r) = {}
    <3>1. ToSet(l.tabs[k]) \cap Hidden(l) = {}
      BY <1>1 DEF PanelsPlacedOnce
    <3> QED BY <1>4, <1>6, <1>8, <3>1
  <2>5. ASSUME NEW q \in r.panels, q \notin Hidden(r)
        PROVE  \E k \in DOMAIN l.tabs : q \in ToSet(r.tabs[k])
    BY <1>1, <1>4, <1>8, <2>5 DEF PanelsPlacedOnce
  <2> QED BY <1>4, <1>7, <2>1, <2>2, <2>3, <2>4, <2>5 DEF PanelsPlacedOnce
<1>11. FrontsFit(r)
  BY <1>1, <1>4 DEF FrontsFit
<1>12. Tree(r)
  BY <1>1, <1>4, TreeKept
<1>13. ActiveShown(r)
  <2>1. p # None
    BY DockAssumption DEF DockAssumption
  <2> QED BY <1>4, <1>6, <2>1 DEF ActiveShown
<1>14. OthersKept(l, r, p)
  <2>1. x.panel = p
    BY <1>3
  <2> QED BY <1>4, <1>7, <2>1 DEF OthersKept, Place
<1> QED BY <1>14, <1>4, <1>9, <1>10, <1>11, <1>12, <1>13 DEF Sound

(* The panels of a layout with one more group, which is empty.              *)
IsRecord(r) ==
  r = [panels |-> r.panels, groups |-> r.groups, role |-> r.role, tabs |-> r.tabs,
       front |-> r.front, leaf |-> r.leaf, split |-> r.split, root |-> r.root,
       hosts |-> r.hosts, hidden |-> r.hidden, active |-> r.active]

LEMMA GroupFields ==
  ASSUME NEW l, IsRecord(l), NEW g, NEW role, NEW tab, NEW n
  PROVE  WithGroup(l, g, role, tab, n) =
           [panels |-> l.panels, groups |-> Append(l.groups, g),
            role |-> Extended(l.role, g, role), tabs |-> Extended(l.tabs, g, tab),
            front |-> Extended(l.front, g, FrontTab(tab, None)),
            leaf |-> Extended(l.leaf, n, g),
            split |-> l.split, root |-> l.root, hosts |-> l.hosts, hidden |-> l.hidden,
            active |-> l.active]
<1>1. PICK panels, groups, role1, tabs, front, leaf, split, root, hosts, hidden, active :
        l = [panels |-> panels, groups |-> groups, role |-> role1, tabs |-> tabs,
             front |-> front, leaf |-> leaf, split |-> split, root |-> root,
             hosts |-> hosts, hidden |-> hidden, active |-> active]
  BY DEF IsRecord
<1>2. PICK groups2, role2, tabs2, front2, leaf2 :
        /\ groups2 = Append(groups, g) /\ role2 = Extended(role1, g, role)
        /\ tabs2 = Extended(tabs, g, tab)
        /\ front2 = Extended(front, g, FrontTab(tab, None))
        /\ leaf2 = Extended(leaf, n, g)
  OBVIOUS
<1>4. WithGroup(l, g, role, tab, n) =
        [l EXCEPT !.groups = groups2, !.role = role2, !.tabs = tabs2, !.front = front2,
                  !.leaf = leaf2]
  BY <1>1, <1>2 DEF WithGroup
<1>5. WithGroup(l, g, role, tab, n) =
        [panels |-> panels, groups |-> groups2, role |-> role2, tabs |-> tabs2,
         front |-> front2, leaf |-> leaf2, split |-> split, root |-> root,
         hosts |-> hosts, hidden |-> hidden, active |-> active]
  BY <1>1, <1>4
<1>6. /\ l.panels = panels /\ l.groups = groups /\ l.role = role1 /\ l.leaf = leaf
      /\ l.split = split /\ l.root = root /\ l.hosts = hosts /\ l.tabs = tabs
      /\ l.front = front /\ l.hidden = hidden /\ l.active = active
  BY <1>1
<1> QED BY <1>2, <1>5, <1>6

LEMMA EmptyGroupFields ==
  ASSUME NEW l, IsLayout(l), NEW g, NEW role, NEW n
  PROVE  /\ IsRecord(l)
         /\ WithGroup(l, g, role, <<>>, n) =
              [panels |-> l.panels, groups |-> Append(l.groups, g),
               role |-> Extended(l.role, g, role), tabs |-> Extended(l.tabs, g, <<>>),
               front |-> Extended(l.front, g, None), leaf |-> Extended(l.leaf, n, g),
               split |-> l.split, root |-> l.root, hosts |-> l.hosts,
               hidden |-> l.hidden, active |-> l.active]
<1>1. FrontTab(<<>>, None) = None
  BY DEF FrontTab, ToSet
<1>2. IsRecord(l)
  BY DEF IsLayout, IsRecord
<1> QED BY <1>1, <1>2, GroupFields

LEMMA GroupKeepsPanels ==
  ASSUME NEW l, Sound(l), NEW g, g \notin DOMAIN l.tabs, NEW role, NEW r, IsRecord(r),
         r.panels = l.panels, r.groups = Append(l.groups, g),
         r.role = Extended(l.role, g, role), r.tabs = Extended(l.tabs, g, <<>>),
         r.front = Extended(l.front, g, None), r.hidden = l.hidden
  PROVE  IsLayout(r) /\ PanelsPlacedOnce(r) /\ FrontsFit(r)
<1>1. IsLayout(l) /\ PanelsPlacedOnce(l) /\ FrontsFit(l)
  BY DEF Sound
<1>2. /\ l.tabs \in [DOMAIN l.tabs -> Seq(DOMAIN Role)]
      /\ DOMAIN l.front = DOMAIN l.tabs /\ DOMAIN l.role = DOMAIN l.tabs
      /\ l.groups \in Seq(DOMAIN l.tabs) /\ ToSet(l.groups) = DOMAIN l.tabs
      /\ l.panels \subseteq DOMAIN Role /\ l.hidden \in Seq(ToSet(l.hidden))
  BY <1>1 DEF IsLayout
<1>3. /\ DOMAIN r.tabs = DOMAIN l.tabs \cup {g} /\ DOMAIN r.front = DOMAIN r.tabs
      /\ DOMAIN r.role = DOMAIN r.tabs
      /\ r.tabs[g] = <<>> /\ r.front[g] = None
      /\ r.tabs = [k \in DOMAIN r.tabs |-> r.tabs[k]]
      /\ \A k \in DOMAIN l.tabs : /\ k # g /\ r.tabs[k] = l.tabs[k]
                                  /\ r.front[k] = l.front[k] /\ r.role[k] = l.role[k]
  <2>1. PICK D : D = DOMAIN l.tabs
    OBVIOUS
  <2>2. /\ DOMAIN r.tabs = D \cup {g} /\ r.tabs[g] = <<>>
        /\ \A k \in D : k # g /\ r.tabs[k] = l.tabs[k]
        /\ r.tabs = [k \in D \cup {g} |-> r.tabs[k]]
    BY <2>1 DEF Extended
  <2>3. /\ DOMAIN r.front = D \cup {g} /\ r.front[g] = None
        /\ \A k \in D : r.front[k] = l.front[k]
    BY <1>2, <2>1 DEF Extended
  <2>4. /\ DOMAIN r.role = D \cup {g}
        /\ \A k \in D : r.role[k] = l.role[k]
    BY <1>2, <2>1 DEF Extended
  <2> QED BY <2>1, <2>2, <2>3, <2>4
<1>4. ASSUME NEW k \in DOMAIN l.tabs
      PROVE  k # g /\ r.tabs[k] = l.tabs[k] /\ r.front[k] = l.front[k] /\ r.role[k] = l.role[k]
  BY <1>3
<1>5. ToSet(r.tabs[g]) = {} /\ IsInjective(r.tabs[g])
  BY <1>3 DEF ToSet, IsInjective
<1>6. Hidden(r) = Hidden(l)
  BY DEF Hidden
<1>7. /\ r.groups \in Seq(DOMAIN r.tabs) /\ ToSet(r.groups) = DOMAIN r.tabs
  <2>1. PICK D : D = DOMAIN l.tabs
    OBVIOUS
  <2>2. PICK s \in Seq(D) : s = l.groups
    BY <1>2, <2>1
  <2>3. PICK m \in Nat : m = Len(s)
    BY <2>2, SequenceLength
  <2>4. DOMAIN s = 1..m /\ \A i \in 1..m : s[i] \in D
    BY <2>2, <2>3
  <2>5. PICK u : u = Append(s, g)
    OBVIOUS
  <2>6. /\ u \in Seq(D \cup {g}) /\ DOMAIN u = 1..m + 1
        /\ \A i \in 1..m + 1 : u[i] = IF i = m + 1 THEN g ELSE s[i]
    BY <2>3, <2>5
  <2>7. \A i \in 1..m : i \in 1..m + 1 /\ u[i] = s[i]
    BY <2>6
  <2>8. m + 1 \in 1..m + 1 /\ u[m + 1] = g
    BY <2>6
  <2>9. ASSUME NEW y \in ToSet(u) PROVE y \in D \cup {g}
    BY <2>6 DEF ToSet
  <2>10. ASSUME NEW y \in D PROVE y \in ToSet(u)
    <3>1. PICK i \in 1..m : s[i] = y
      BY <1>2, <2>1, <2>2, <2>4 DEF ToSet
    <3> QED BY <2>6, <2>7, <3>1 DEF ToSet
  <2>11. g \in ToSet(u)
    BY <2>6, <2>8 DEF ToSet
  <2>12. u \in Seq(D \cup {g}) /\ ToSet(u) = D \cup {g}
    BY <2>6, <2>9, <2>10, <2>11
  <2>13. r.groups = u /\ DOMAIN r.tabs = D \cup {g}
    BY <1>3, <2>1, <2>2, <2>5
  <2> QED BY <2>12, <2>13, Zenon
<1>8. IsLayout(r)
  <2>1. ASSUME NEW k \in DOMAIN r.tabs PROVE r.tabs[k] \in Seq(DOMAIN Role)
    <3>1. CASE k = g
      <4>1. <<>> \in Seq(DOMAIN Role)
        OBVIOUS
      <4> QED BY <1>3, <3>1, <4>1, Zenon
    <3>2. CASE k # g
      <4>1. k \in DOMAIN l.tabs
        BY <1>3, <3>2
      <4> QED BY <1>2, <1>4, <4>1
    <3> QED BY <3>1, <3>2
  <2>2. r.tabs \in [DOMAIN r.tabs -> Seq(DOMAIN Role)]
    BY <1>3, <2>1
  <2> QED BY <1>2, <1>3, <1>7, <2>2 DEF IsLayout, IsRecord
<1>9. PanelsPlacedOnce(r)
  <2>1. ASSUME NEW k \in DOMAIN r.tabs
        PROVE  /\ IsInjective(r.tabs[k])
               /\ ToSet(r.tabs[k]) \subseteq r.panels
               /\ \A q \in ToSet(r.tabs[k]) : Role[q] = r.role[k]
    <3>1. CASE k = g
      BY <1>5, <3>1
    <3>2. CASE k # g
      <4>1. k \in DOMAIN l.tabs
        BY <1>3, <3>2
      <4>2. /\ IsInjective(l.tabs[k])
            /\ ToSet(l.tabs[k]) \subseteq l.panels
            /\ \A q \in ToSet(l.tabs[k]) : Role[q] = l.role[k]
        BY <1>1, <4>1 DEF PanelsPlacedOnce
      <4>3. r.tabs[k] = l.tabs[k] /\ r.role[k] = l.role[k]
        BY <1>4, <4>1
      <4> QED BY <4>2, <4>3
    <3> QED BY <3>1, <3>2
  <2>2. ASSUME NEW k \in DOMAIN r.tabs, NEW m \in DOMAIN r.tabs, k # m
        PROVE  ToSet(r.tabs[k]) \cap ToSet(r.tabs[m]) = {}
    <3>1. CASE k = g \/ m = g
      BY <1>5, <3>1
    <3>2. CASE k # g /\ m # g
      <4>1. k \in DOMAIN l.tabs /\ m \in DOMAIN l.tabs
        BY <1>3, <3>2
      <4>2. ToSet(l.tabs[k]) \cap ToSet(l.tabs[m]) = {}
        BY <1>1, <2>2, <4>1 DEF PanelsPlacedOnce
      <4> QED BY <1>4, <4>1, <4>2
    <3> QED BY <3>1, <3>2
  <2>3. \A q \in Hidden(r) : q \in r.panels /\ Role[q] = "tool"
    BY <1>1, <1>6 DEF PanelsPlacedOnce
  <2>4. ASSUME NEW k \in DOMAIN r.tabs PROVE ToSet(r.tabs[k]) \cap Hidden(r) = {}
    <3>1. CASE k = g
      BY <1>5, <3>1
    <3>2. CASE k # g
      <4>1. k \in DOMAIN l.tabs
        BY <1>3, <3>2
      <4>2. ToSet(l.tabs[k]) \cap Hidden(l) = {}
        BY <1>1, <4>1 DEF PanelsPlacedOnce
      <4> QED BY <1>4, <1>6, <4>1, <4>2
    <3> QED BY <3>1, <3>2
  <2>5. ASSUME NEW q \in r.panels, q \notin Hidden(r)
        PROVE  \E k \in DOMAIN r.tabs : q \in ToSet(r.tabs[k])
    <3>1. PICK k \in DOMAIN l.tabs : q \in ToSet(l.tabs[k])
      BY <1>1, <1>6, <2>5 DEF PanelsPlacedOnce
    <3>2. k \in DOMAIN r.tabs /\ r.tabs[k] = l.tabs[k]
      BY <1>3, <1>4
    <3> QED BY <3>1, <3>2
  <2>6. \A j, k \in DOMAIN r.hidden : r.hidden[j].panel = r.hidden[k].panel => j = k
    BY <1>1 DEF PanelsPlacedOnce
  <2> QED BY <2>1, <2>2, <2>3, <2>4, <2>5, <2>6 DEF PanelsPlacedOnce
<1>10. FrontsFit(r)
  <2>1. ASSUME NEW k \in DOMAIN r.tabs, k # g
        PROVE  IF r.tabs[k] = <<>> THEN r.front[k] = None ELSE r.front[k] \in ToSet(r.tabs[k])
    <3>1. k \in DOMAIN l.tabs
      BY <1>3, <2>1
    <3> QED BY <1>1, <1>4, <3>1 DEF FrontsFit
  <2> QED BY <1>3, <2>1 DEF FrontsFit
<1> QED BY <1>8, <1>9, <1>10

(* The group in a floating host of its own.                                 *)
GroupFloated(l, g, role, n, h) ==
  [WithGroup(l, g, role, <<>>, n) EXCEPT !.hosts = Extended(@, h, n)]

LEMMA FloatKeepsTree ==
  ASSUME NEW l, Tree(l), NEW r, NEW g, NEW n, NEW h,
         g \notin DOMAIN l.tabs, n \notin Nodes(l), h \notin DOMAIN l.hosts,
         DOMAIN r.tabs = DOMAIN l.tabs \cup {g}, r.leaf = Extended(l.leaf, n, g),
         r.split = l.split, r.root = l.root, r.hosts = Extended(l.hosts, h, n)
  PROVE  Tree(r)
<1>1. /\ DOMAIN r.leaf = DOMAIN l.leaf \cup {n} /\ r.leaf[n] = g
      /\ \A m \in DOMAIN l.leaf : m # n /\ r.leaf[m] = l.leaf[m]
  BY n \notin DOMAIN l.leaf DEF Nodes, Extended
<1>2. /\ DOMAIN r.hosts = DOMAIN l.hosts \cup {h} /\ r.hosts[h] = n
      /\ \A k \in DOMAIN l.hosts : k # h /\ r.hosts[k] = l.hosts[k]
  BY DEF Extended
<1>3. GroupsHaveOneLeaf(l) /\ NodesOwnedOnce(l) /\ NodesReachable(l)
  BY DEF Tree
<1>4. Nodes(r) = Nodes(l) \cup {n}
  BY <1>1 DEF Nodes
<1>5. Roots(r) = Roots(l) \cup {n}
  BY <1>2 DEF Roots
<1>6. \A m : Children(r, m) = Children(l, m)
  BY DEF Children
<1>7. Roots(l) \subseteq Nodes(l) /\ \A m \in DOMAIN l.split : Children(l, m) \subseteq Nodes(l)
  BY <1>3 DEF NodesOwnedOnce
<1>8. GroupsHaveOneLeaf(r)
  <2>1. ASSUME NEW m \in DOMAIN r.leaf PROVE r.leaf[m] \in DOMAIN r.tabs
    BY <1>1, <1>3 DEF GroupsHaveOneLeaf
  <2>2. ASSUME NEW m \in DOMAIN r.leaf, NEW k \in DOMAIN r.leaf, r.leaf[m] = r.leaf[k]
        PROVE  m = k
    <3>1. \A j \in DOMAIN l.leaf : r.leaf[j] # g
      BY <1>1, <1>3 DEF GroupsHaveOneLeaf
    <3> QED BY <1>1, <1>3, <2>2, <3>1 DEF GroupsHaveOneLeaf
  <2>3. ASSUME NEW k \in DOMAIN r.tabs PROVE HasLeaf(r, k)
    <3>1. CASE k = g
      BY <1>1, <3>1 DEF HasLeaf
    <3>2. CASE k # g
      <4>1. HasLeaf(l, k)
        BY <1>3, <3>2 DEF GroupsHaveOneLeaf
      <4> QED BY <1>1, <4>1 DEF HasLeaf
    <3> QED BY <3>1, <3>2
  <2> QED BY <2>1, <2>2, <2>3 DEF GroupsHaveOneLeaf
<1>9. NodesOwnedOnce(r)
  <2>1. \A m \in DOMAIN r.split : Children(r, m) \subseteq Nodes(r)
                                 /\ r.split[m][1] # r.split[m][2]
    BY <1>3, <1>4, <1>6, <1>7 DEF NodesOwnedOnce
  <2>2. \A m, k \in DOMAIN r.split : m # k => Children(r, m) \cap Children(r, k) = {}
    BY <1>3, <1>6 DEF NodesOwnedOnce
  <2>3. Roots(r) \subseteq Nodes(r)
    BY <1>4, <1>5, <1>7
  <2>4. \A j \in DOMAIN l.hosts : r.hosts[j] \in Nodes(l)
    BY <1>2, <1>7 DEF Roots
  <2>5. \A j, k \in DOMAIN r.hosts : r.hosts[j] = r.hosts[k] => j = k
    BY <1>2, <1>3, <2>4 DEF NodesOwnedOnce
  <2>6. \A j \in DOMAIN r.hosts : r.hosts[j] # r.root
    <3>1. l.root \in Nodes(l)
      BY <1>7 DEF Roots
    <3> QED BY <1>2, <1>3, <3>1 DEF NodesOwnedOnce
  <2>7. \A m \in DOMAIN r.split : Children(r, m) \cap Roots(r) = {}
    BY <1>3, <1>5, <1>6, <1>7 DEF NodesOwnedOnce
  <2> QED BY <2>1, <2>2, <2>3, <2>5, <2>6, <2>7 DEF NodesOwnedOnce
<1>10. NodesReachable(r)
  <2> SUFFICES ASSUME NEW S \in SUBSET Nodes(r), Roots(r) \subseteq S,
                      \A m \in S \cap DOMAIN r.split : Children(r, m) \subseteq S
               PROVE  S = Nodes(r)
    BY DEF NodesReachable
  <2> DEFINE R == S \ {n}
  <2>1. R \in SUBSET Nodes(l) /\ n \in S
    BY <1>4, <1>5
  <2>2. Roots(l) \subseteq R
    BY <1>5, <1>7
  <2>3. \A m \in R \cap DOMAIN l.split : Children(l, m) \subseteq R
    BY <1>6, <1>7
  <2> HIDE DEF R
  <2>4. R = Nodes(l)
    BY <1>3, <2>1, <2>2, <2>3 DEF NodesReachable
  <2> QED BY <1>4, <2>1, <2>4 DEF R
<1> QED BY <1>8, <1>9, <1>10 DEF Tree

LEMMA GroupKeepsPlaces ==
  ASSUME NEW l, NEW g, g \notin DOMAIN l.tabs, NEW r,
         r.tabs = Extended(l.tabs, g, <<>>), r.hidden = l.hidden
  PROVE  AllKept(l, r)
<1>1. ToSet(<<>>) = {}
  BY DEF ToSet
<1>2. /\ DOMAIN r.tabs = DOMAIN l.tabs \cup {g} /\ ToSet(r.tabs[g]) = {}
      /\ \A k \in DOMAIN l.tabs : r.tabs[k] = l.tabs[k]
  BY <1>1 DEF Extended
<1> QED BY <1>2 DEF AllKept, Place

LEMMA FloatedIsSound ==
  ASSUME NEW l, Sound(l), NEW g, NEW role, NEW n, NEW h, CanFloat(l, g, n, h),
         NEW r, r = GroupFloated(l, g, role, n, h)
  PROVE  /\ Sound(r) /\ r.panels = l.panels /\ r.active = l.active
         /\ r.tabs = Extended(l.tabs, g, <<>>) /\ r.role = Extended(l.role, g, role)
         /\ AllKept(l, r)
<1>1. IsLayout(l) /\ Tree(l)
  BY DEF Sound
<1>2. g \notin DOMAIN l.tabs /\ n \notin Nodes(l) /\ h \notin DOMAIN l.hosts
  BY DEF CanFloat, Fresh
<1>3. PICK groups2, role2, tabs2, front2, leaf2, hosts2 :
        /\ groups2 = Append(l.groups, g) /\ role2 = Extended(l.role, g, role)
        /\ tabs2 = Extended(l.tabs, g, <<>>) /\ front2 = Extended(l.front, g, None)
        /\ leaf2 = Extended(l.leaf, n, g) /\ hosts2 = Extended(l.hosts, h, n)
  OBVIOUS
<1>4. WithGroup(l, g, role, <<>>, n) =
        [panels |-> l.panels, groups |-> groups2, role |-> role2, tabs |-> tabs2,
         front |-> front2, leaf |-> leaf2, split |-> l.split, root |-> l.root,
         hosts |-> l.hosts, hidden |-> l.hidden, active |-> l.active]
  BY <1>1, <1>3, EmptyGroupFields
<1>5. r = [panels |-> l.panels, groups |-> groups2, role |-> role2, tabs |-> tabs2,
           front |-> front2, leaf |-> leaf2, split |-> l.split, root |-> l.root,
           hosts |-> hosts2, hidden |-> l.hidden, active |-> l.active]
  <2>1. PICK w : w = WithGroup(l, g, role, <<>>, n)
    OBVIOUS
  <2>2. r = [w EXCEPT !.hosts = Extended(w.hosts, h, n)]
    BY <2>1 DEF GroupFloated
  <2>3. w.hosts = l.hosts
    BY <1>4, <2>1
  <2>4. r = [w EXCEPT !.hosts = hosts2]
    BY <1>3, <2>2, <2>3
  <2> QED BY <1>4, <2>1, <2>4
<1>6. /\ r.panels = l.panels /\ r.groups = Append(l.groups, g)
      /\ r.role = Extended(l.role, g, role) /\ r.tabs = Extended(l.tabs, g, <<>>)
      /\ r.front = Extended(l.front, g, None) /\ r.leaf = Extended(l.leaf, n, g)
      /\ r.split = l.split /\ r.root = l.root
      /\ r.hosts = Extended(l.hosts, h, n) /\ r.hidden = l.hidden /\ r.active = l.active
  BY <1>3, <1>5
<1>7. IsRecord(r)
  BY <1>5 DEF IsRecord
<1>8. IsLayout(r) /\ PanelsPlacedOnce(r) /\ FrontsFit(r)
  BY <1>2, <1>6, <1>7, GroupKeepsPanels
<1>9. DOMAIN r.tabs = DOMAIN l.tabs \cup {g}
  BY <1>2, <1>6 DEF Extended
<1>10. Tree(r)
  BY <1>1, <1>2, <1>6, <1>9, FloatKeepsTree
<1>11. AllKept(l, r)
  BY <1>2, <1>6, GroupKeepsPlaces
<1> QED BY <1>11, <1>6, <1>8, <1>10 DEF Sound

(* The group beside another: split s takes the place of the leaf t of k.    *)
Replaced(l, r, t, s, pair) ==
  /\ r.root = (IF l.root = t THEN s ELSE l.root)
  /\ r.hosts = [h \in DOMAIN l.hosts |-> IF l.hosts[h] = t THEN s ELSE l.hosts[h]]
  /\ r.split = Extended([m \in DOMAIN l.split |->
                            <<IF l.split[m][1] = t THEN s ELSE l.split[m][1],
                              IF l.split[m][2] = t THEN s ELSE l.split[m][2]>>], s, pair)

LEMMA BesideKeepsTree ==
  ASSUME NEW l, Tree(l), NEW r, NEW g, NEW n, NEW s, NEW t, NEW pair,
         g \notin DOMAIN l.tabs, n \notin Nodes(l), s \notin Nodes(l), s # n,
         t \in DOMAIN l.leaf, pair \in {<<n, t>>, <<t, n>>},
         DOMAIN r.tabs = DOMAIN l.tabs \cup {g}, r.leaf = Extended(l.leaf, n, g),
         Replaced(l, r, t, s, pair)
  PROVE  Tree(r)
<1> DEFINE New(m) == IF m = t THEN s ELSE m
<1>1. /\ DOMAIN r.leaf = DOMAIN l.leaf \cup {n} /\ r.leaf[n] = g
      /\ \A m \in DOMAIN l.leaf : m # n /\ r.leaf[m] = l.leaf[m]
  BY n \notin DOMAIN l.leaf DEF Nodes, Extended
<1>2. /\ r.root = New(l.root) /\ DOMAIN r.hosts = DOMAIN l.hosts
      /\ \A h \in DOMAIN l.hosts : r.hosts[h] = New(l.hosts[h])
  BY DEF Replaced
<1>3. /\ DOMAIN r.split = DOMAIN l.split \cup {s} /\ r.split[s] = pair
      /\ \A m \in DOMAIN l.split : /\ m # s
                                   /\ r.split[m][1] = New(l.split[m][1])
                                   /\ r.split[m][2] = New(l.split[m][2])
  BY s \notin DOMAIN l.split DEF Nodes, Extended, Replaced
<1>4. GroupsHaveOneLeaf(l) /\ NodesOwnedOnce(l) /\ NodesReachable(l)
  BY DEF Tree
<1>5. Nodes(r) = Nodes(l) \cup {n, s} /\ t \in Nodes(l)
  BY <1>1, <1>3 DEF Nodes
<1>6. Roots(r) = {New(m) : m \in Roots(l)}
  <2> HIDE DEF New
  <2>1. \A m \in Roots(r) : \E j \in Roots(l) : m = New(j)
    BY <1>2 DEF Roots
  <2>2. \A j \in Roots(l) : New(j) \in Roots(r)
    BY <1>2 DEF Roots
  <2> QED BY <2>1, <2>2
<1>7. Children(r, s) = {n, t}
  <2>1. CASE pair = <<n, t>>
    BY <1>3, <2>1 DEF Children
  <2>2. CASE pair = <<t, n>>
    BY <1>3, <2>2 DEF Children
  <2> QED BY <2>1, <2>2
<1>8. \A m \in DOMAIN l.split : Children(r, m) = {New(c) : c \in Children(l, m)}
  BY <1>3 DEF Children
<1>9. /\ \A a, b \in Nodes(l) : New(a) = New(b) => a = b
      /\ \A a \in Nodes(l) : New(a) \in Nodes(r) /\ New(a) # n /\ New(a) # t
  BY <1>5
<1>10. Roots(l) \subseteq Nodes(l) /\ \A m \in DOMAIN l.split : Children(l, m) \subseteq Nodes(l)
  BY <1>4 DEF NodesOwnedOnce
<1>11. GroupsHaveOneLeaf(r)
  <2>1. ASSUME NEW m \in DOMAIN r.leaf PROVE r.leaf[m] \in DOMAIN r.tabs
    BY <1>1, <1>4 DEF GroupsHaveOneLeaf
  <2>2. ASSUME NEW m \in DOMAIN r.leaf, NEW k \in DOMAIN r.leaf, r.leaf[m] = r.leaf[k]
        PROVE  m = k
    <3>1. \A j \in DOMAIN l.leaf : r.leaf[j] # g
      BY <1>1, <1>4 DEF GroupsHaveOneLeaf
    <3> QED BY <1>1, <1>4, <2>2, <3>1 DEF GroupsHaveOneLeaf
  <2>3. ASSUME NEW k \in DOMAIN r.tabs PROVE HasLeaf(r, k)
    <3>1. CASE k = g
      BY <1>1, <3>1 DEF HasLeaf
    <3>2. CASE k # g
      <4>1. HasLeaf(l, k)
        BY <1>4, <3>2 DEF GroupsHaveOneLeaf
      <4> QED BY <1>1, <4>1 DEF HasLeaf
    <3> QED BY <3>1, <3>2
  <2> QED BY <2>1, <2>2, <2>3 DEF GroupsHaveOneLeaf
<1> HIDE DEF New
<1>12. NodesOwnedOnce(r)
  <2>1. ASSUME NEW m \in DOMAIN r.split
        PROVE  Children(r, m) \subseteq Nodes(r) /\ r.split[m][1] # r.split[m][2]
    <3>1. CASE m = s
      <4>1. n # t
        BY <1>5
      <4> QED BY <1>3, <1>5, <1>7, <3>1, <4>1
    <3>2. CASE m # s
      <4>1. m \in DOMAIN l.split
        BY <1>3, <3>2
      <4>2. /\ l.split[m][1] \in Nodes(l) /\ l.split[m][2] \in Nodes(l)
            /\ l.split[m][1] # l.split[m][2]
        BY <1>4, <4>1 DEF NodesOwnedOnce, Children
      <4>3. r.split[m][1] # r.split[m][2]
        BY <1>3, <1>9, <4>1, <4>2
      <4> QED BY <1>8, <1>9, <1>10, <4>1, <4>3
    <3> QED BY <3>1, <3>2
  <2>2. ASSUME NEW m \in DOMAIN r.split, NEW k \in DOMAIN r.split, m # k
        PROVE  Children(r, m) \cap Children(r, k) = {}
    <3>1. ASSUME NEW j \in DOMAIN l.split PROVE Children(r, j) \cap Children(r, s) = {}
      BY <1>7, <1>8, <1>9, <1>10
    <3>2. CASE m = s \/ k = s
      BY <1>3, <2>2, <3>1, <3>2
    <3>3. CASE m # s /\ k # s
      <4>1. m \in DOMAIN l.split /\ k \in DOMAIN l.split
        BY <1>3, <3>3
      <4>2. Children(l, m) \cap Children(l, k) = {}
        BY <1>4, <2>2, <4>1 DEF NodesOwnedOnce
      <4>3. Children(l, m) \subseteq Nodes(l) /\ Children(l, k) \subseteq Nodes(l)
        BY <1>10, <4>1
      <4> QED BY <1>8, <1>9, <4>1, <4>2, <4>3
    <3> QED BY <3>2, <3>3
  <2>3. Roots(r) \subseteq Nodes(r)
    BY <1>6, <1>9, <1>10
  <2>4. \A h \in DOMAIN l.hosts : l.hosts[h] \in Nodes(l)
    BY <1>10 DEF Roots
  <2>5. \A h, k \in DOMAIN r.hosts : r.hosts[h] = r.hosts[k] => h = k
    BY <1>2, <1>4, <1>9, <2>4 DEF NodesOwnedOnce
  <2>6. \A h \in DOMAIN r.hosts : r.hosts[h] # r.root
    <3>1. l.root \in Nodes(l)
      BY <1>10 DEF Roots
    <3> QED BY <1>2, <1>4, <1>9, <2>4, <3>1 DEF NodesOwnedOnce
  <2>7. ASSUME NEW m \in DOMAIN r.split PROVE Children(r, m) \cap Roots(r) = {}
    <3>1. CASE m = s
      BY <1>6, <1>7, <1>9, <1>10, <3>1
    <3>2. CASE m # s
      <4>1. m \in DOMAIN l.split
        BY <1>3, <3>2
      <4>2. Children(l, m) \cap Roots(l) = {}
        BY <1>4, <4>1 DEF NodesOwnedOnce
      <4>3. Children(l, m) \subseteq Nodes(l)
        BY <1>10, <4>1
      <4> QED BY <1>6, <1>8, <1>9, <1>10, <4>1, <4>2, <4>3
    <3> QED BY <3>1, <3>2
  <2> QED BY <2>1, <2>2, <2>3, <2>5, <2>6, <2>7 DEF NodesOwnedOnce
<1>13. NodesReachable(r)
  <2> SUFFICES ASSUME NEW S \in SUBSET Nodes(r), Roots(r) \subseteq S,
                      \A m \in S \cap DOMAIN r.split : Children(r, m) \subseteq S
               PROVE  S = Nodes(r)
    BY DEF NodesReachable
  <2> DEFINE R == {m \in Nodes(l) : New(m) \in S}
  <2>1. t \in R => s \in S
    BY DEF New
  <2>2. s \in S => t \in S /\ n \in S
    BY <1>3, <1>7
  <2>3. R \subseteq S
    <3>1. ASSUME NEW m \in R, m # t PROVE m \in S
      BY <3>1 DEF New
    <3> QED BY <2>1, <2>2, <3>1
  <2>4. Roots(l) \subseteq R
    BY <1>6, <1>10
  <2>5. ASSUME NEW m \in R \cap DOMAIN l.split PROVE Children(l, m) \subseteq R
    <3>1. Children(r, m) \subseteq S
      BY <1>3, <2>3
    <3>2. Children(l, m) \subseteq Nodes(l)
      BY <1>10
    <3>3. \A c \in Children(l, m) : New(c) \in S
      BY <1>8, <3>1
    <3> QED BY <3>2, <3>3
  <2>6. R \in SUBSET Nodes(l)
    OBVIOUS
  <2> HIDE DEF R
  <2>7. R = Nodes(l)
    BY <1>4, <2>4, <2>5, <2>6 DEF NodesReachable
  <2> QED BY <1>5, <2>1, <2>2, <2>3, <2>7
<1> QED BY <1>11, <1>12, <1>13 DEF Tree

LEMMA BesideIsSound ==
  ASSUME NEW l, Sound(l), NEW g, NEW role, NEW n, NEW k, NEW s, NEW first \in BOOLEAN,
         CanSplit(l, g, n, k, s),
         NEW r, r = Beside(WithGroup(l, g, role, <<>>, n), k, n, s, first)
  PROVE  /\ Sound(r) /\ r.panels = l.panels /\ r.active = l.active
         /\ r.tabs = Extended(l.tabs, g, <<>>) /\ r.role = Extended(l.role, g, role)
         /\ r.front = Extended(l.front, g, None) /\ Nodes(r) = Nodes(l) \cup {n, s}
         /\ AllKept(l, r)
<1>1. IsLayout(l) /\ Tree(l)
  BY DEF Sound
<1>2. /\ g \notin DOMAIN l.tabs /\ n \notin Nodes(l) /\ s \notin Nodes(l) /\ s # n
      /\ k \in DOMAIN l.tabs
  BY DEF CanSplit, Fresh
<1>3. PICK w : w = WithGroup(l, g, role, <<>>, n)
  OBVIOUS
<1>4. w = [panels |-> l.panels, groups |-> Append(l.groups, g),
           role |-> Extended(l.role, g, role), tabs |-> Extended(l.tabs, g, <<>>),
           front |-> Extended(l.front, g, None), leaf |-> Extended(l.leaf, n, g),
           split |-> l.split, root |-> l.root, hosts |-> l.hosts, hidden |-> l.hidden,
           active |-> l.active]
  BY <1>1, <1>3, EmptyGroupFields
<1>5. /\ w.panels = l.panels /\ w.groups = Append(l.groups, g)
      /\ w.role = Extended(l.role, g, role) /\ w.tabs = Extended(l.tabs, g, <<>>)
      /\ w.front = Extended(l.front, g, None) /\ w.leaf = Extended(l.leaf, n, g)
      /\ w.split = l.split /\ w.root = l.root
      /\ w.hosts = l.hosts /\ w.hidden = l.hidden /\ w.active = l.active
  BY <1>4
<1>6. IsRecord(w)
  BY <1>4 DEF IsRecord
<1>7. PICK t : t = LeafOf(w, k)
  OBVIOUS
<1>8. t \in DOMAIN l.leaf
  <2>1. /\ DOMAIN w.leaf = DOMAIN l.leaf \cup {n} /\ w.leaf[n] = g
        /\ \A m \in DOMAIN l.leaf : w.leaf[m] = l.leaf[m]
    BY <1>2, <1>5 DEF Extended, Nodes
  <2>2. \E m \in DOMAIN l.leaf : l.leaf[m] = k
    BY <1>1, <1>2 DEF Tree, GroupsHaveOneLeaf, HasLeaf
  <2>3. \E m \in DOMAIN w.leaf : w.leaf[m] = k
    BY <2>1, <2>2
  <2>4. t \in DOMAIN w.leaf /\ w.leaf[t] = k
    BY <1>7, <2>3 DEF LeafOf
  <2> QED BY <1>2, <2>1, <2>4
<1>9. PICK pair, root, hosts, split :
        /\ pair = (IF first THEN <<n, t>> ELSE <<t, n>>)
        /\ root = (IF l.root = t THEN s ELSE l.root)
        /\ hosts = [h \in DOMAIN l.hosts |-> IF l.hosts[h] = t THEN s ELSE l.hosts[h]]
        /\ split = Extended([m \in DOMAIN l.split |->
                               <<IF l.split[m][1] = t THEN s ELSE l.split[m][1],
                                 IF l.split[m][2] = t THEN s ELSE l.split[m][2]>>], s, pair)
  OBVIOUS
<1>10. r = [w EXCEPT !.root = root, !.hosts = hosts, !.split = split]
  <2>1. r = [w EXCEPT
               !.root = IF w.root = t THEN s ELSE w.root,
               !.hosts = [h \in DOMAIN w.hosts |-> IF w.hosts[h] = t THEN s ELSE w.hosts[h]],
               !.split = Extended([m \in DOMAIN w.split |->
                            <<IF w.split[m][1] = t THEN s ELSE w.split[m][1],
                              IF w.split[m][2] = t THEN s ELSE w.split[m][2]>>],
                                  s, IF first THEN <<n, t>> ELSE <<t, n>>)]
    BY <1>3, <1>7 DEF Beside
  <2> QED BY <1>5, <1>9, <2>1
<1>11. /\ IsRecord(r) /\ r.panels = w.panels /\ r.groups = w.groups /\ r.role = w.role
       /\ r.tabs = w.tabs /\ r.front = w.front /\ r.leaf = w.leaf /\ r.hidden = w.hidden
       /\ r.active = w.active /\ r.root = root /\ r.hosts = hosts /\ r.split = split
  <2>1. r = [panels |-> w.panels, groups |-> w.groups, role |-> w.role, tabs |-> w.tabs,
             front |-> w.front, leaf |-> w.leaf, split |-> split, root |-> root,
             hosts |-> hosts, hidden |-> w.hidden, active |-> w.active]
    BY <1>6, <1>10 DEF IsRecord
  <2> QED BY <2>1 DEF IsRecord
<1>12. IsLayout(r) /\ PanelsPlacedOnce(r) /\ FrontsFit(r)
  <2>1. /\ r.panels = l.panels /\ r.groups = Append(l.groups, g)
        /\ r.role = Extended(l.role, g, role) /\ r.tabs = Extended(l.tabs, g, <<>>)
        /\ r.front = Extended(l.front, g, None) /\ r.hidden = l.hidden
    BY <1>5, <1>11
  <2> QED BY <1>2, <1>11, <2>1, GroupKeepsPanels
<1>13. Tree(r)
  <2>1. DOMAIN r.tabs = DOMAIN l.tabs \cup {g}
    BY <1>5, <1>11 DEF Extended
  <2>2. r.leaf = Extended(l.leaf, n, g)
    BY <1>5, <1>11
  <2>3. pair \in {<<n, t>>, <<t, n>>}
    BY <1>9
  <2>4. Replaced(l, r, t, s, pair)
    BY <1>9, <1>11 DEF Replaced
  <2> QED BY <1>1, <1>2, <1>8, <2>1, <2>2, <2>3, <2>4, BesideKeepsTree
<1>14. Nodes(r) = Nodes(l) \cup {n, s}
  <2>1. DOMAIN r.leaf = DOMAIN l.leaf \cup {n} /\ DOMAIN r.split = DOMAIN l.split \cup {s}
    BY <1>5, <1>9, <1>11 DEF Extended
  <2> QED BY <2>1 DEF Nodes
<1>15. AllKept(l, r)
  BY <1>2, <1>5, <1>11, GroupKeepsPlaces
<1> QED BY <1>15, <1>5, <1>11, <1>12, <1>13, <1>14 DEF Sound

-----------------------------------------------------------------------------
(* The mutations.                                                           *)
LEMMA MovedIsAdded ==
  ASSUME NEW l, IsLayout(l), NEW p \in l.panels, NEW g \in DOMAIN l.tabs, NEW i,
         NEW q, q = Taken(l, p)
  PROVE  \E j : /\ j = (IF i < Len(q.tabs[g]) THEN i ELSE Len(q.tabs[g]))
               /\ MovedToGroup(l, p, g, i) = PanelAdded(q, p, g, j)
<1>0. PICK j : j = (IF i < Len(q.tabs[g]) THEN i ELSE Len(q.tabs[g]))
  OBVIOUS
<1>1. PICK tabs, front, hidden, panels :
        /\ tabs = [k \in DOMAIN l.tabs |-> Without(l.tabs[k], p)]
        /\ front = [k \in DOMAIN l.tabs |-> FrontTab(Without(l.tabs[k], p), l.front[k])]
        /\ hidden = Unhidden(l, p)
        /\ panels = l.panels \ {p}
  OBVIOUS
<1>2. PICK d : d = Detached(l, p)
  OBVIOUS
<1>3. d = [panels |-> l.panels, groups |-> l.groups, role |-> l.role, tabs |-> tabs,
           front |-> front, leaf |-> l.leaf, split |-> l.split, root |-> l.root,
           hosts |-> l.hosts, hidden |-> hidden, active |-> l.active]
  BY <1>1, <1>2, DetachedFields
<1>4. q = [panels |-> panels, groups |-> l.groups, role |-> l.role, tabs |-> tabs,
           front |-> front, leaf |-> l.leaf, split |-> l.split, root |-> l.root,
           hosts |-> l.hosts, hidden |-> hidden, active |-> l.active]
  BY <1>1, RemovedFields
<1>5. PICK at, tab, tabs2, front2 :
        /\ at = (IF i < Len(tabs[g]) THEN i ELSE Len(tabs[g]))
        /\ tab = InsertAt(tabs[g], at + 1, p)
        /\ tabs2 = [tabs EXCEPT ![g] = tab] /\ front2 = [front EXCEPT ![g] = p]
  OBVIOUS
<1>6. d.tabs = tabs /\ q.tabs = tabs /\ d.front = front /\ q.front = front
  BY <1>3, <1>4
<1>7. at = j
  BY <1>0, <1>5, <1>6
<1>8. MovedToGroup(l, p, g, i) =
        [d EXCEPT !.tabs = tabs2, !.front = front2, !.active = p]
  <2>1. MovedToGroup(l, p, g, i) =
          [d EXCEPT !.tabs = [d.tabs EXCEPT ![g] =
                       InsertAt(d.tabs[g], (IF i < Len(d.tabs[g]) THEN i
                                            ELSE Len(d.tabs[g])) + 1, p)],
                    !.front = [d.front EXCEPT ![g] = p], !.active = p]
    BY <1>2, <1>3 DEF MovedToGroup
  <2> QED BY <1>5, <1>6, <2>1
<1>9. PanelAdded(q, p, g, j) =
        [q EXCEPT !.panels = l.panels, !.tabs = tabs2, !.front = front2, !.active = p]
  <2>1. PanelAdded(q, p, g, j) =
          [q EXCEPT !.panels = q.panels \cup {p},
                    !.tabs = [q.tabs EXCEPT ![g] = InsertAt(q.tabs[g], j + 1, p)],
                    !.front = [q.front EXCEPT ![g] = p], !.active = p]
    BY <1>4 DEF PanelAdded
  <2>2. q.panels \cup {p} = l.panels
    BY <1>1, <1>4
  <2> QED BY <1>5, <1>6, <1>7, <2>1, <2>2
<1>10. MovedToGroup(l, p, g, i) =
         [panels |-> l.panels, groups |-> l.groups, role |-> l.role, tabs |-> tabs2,
          front |-> front2, leaf |-> l.leaf, split |-> l.split, root |-> l.root,
          hosts |-> l.hosts, hidden |-> hidden, active |-> p]
  BY <1>3, <1>8
<1>11. PanelAdded(q, p, g, j) =
         [panels |-> l.panels, groups |-> l.groups, role |-> l.role, tabs |-> tabs2,
          front |-> front2, leaf |-> l.leaf, split |-> l.split, root |-> l.root,
          hosts |-> l.hosts, hidden |-> hidden, active |-> p]
  <2>1. PICK old : old = l.panels
    OBVIOUS
  <2>2. PICK q0, r : q0 = q /\ r = [q0 EXCEPT !.panels = old, !.tabs = tabs2]
    OBVIOUS
  <2>6. q0 = [panels |-> panels, groups |-> l.groups, role |-> l.role, tabs |-> tabs,
              front |-> front, leaf |-> l.leaf, split |-> l.split, root |-> l.root,
              hosts |-> l.hosts, hidden |-> hidden, active |-> l.active]
    BY <1>4, <2>2
  <2>7. r = [q0 EXCEPT !.panels = old, !.tabs = tabs2]
    BY <2>2
  <2>3. r = [panels |-> old, groups |-> l.groups, role |-> l.role, tabs |-> tabs2,
             front |-> front, leaf |-> l.leaf, split |-> l.split, root |-> l.root,
             hosts |-> l.hosts, hidden |-> hidden, active |-> l.active]
    BY <2>6, <2>7
  <2>4. PanelAdded(q, p, g, j) = [r EXCEPT !.front = front2, !.active = p]
    BY <1>9, <2>1, <2>2
  <2>5. PanelAdded(q, p, g, j) = [panels |-> old, groups |-> l.groups, role |-> l.role, tabs |-> tabs2,
             front |-> front2, leaf |-> l.leaf, split |-> l.split, root |-> l.root,
             hosts |-> l.hosts, hidden |-> hidden, active |-> p]
    BY <2>3, <2>4
  <2> QED BY <2>1, <2>5
<1> QED BY <1>0, <1>10, <1>11

LEMMA PanelsHaveRoles ==
  ASSUME NEW l, Sound(l)
  PROVE  /\ l.panels \subseteq DOMAIN Role /\ IsLayout(l)
         /\ \A g \in DOMAIN l.tabs : Len(l.tabs[g]) \in Nat
<1>1. IsLayout(l)
  BY DEF Sound
<1>2. ASSUME NEW g \in DOMAIN l.tabs PROVE Len(l.tabs[g]) \in Nat
  <2>1. l.tabs[g] \in Seq(DOMAIN Role)
    BY <1>1 DEF IsLayout
  <2> QED BY <2>1, SequenceLength
<1> QED BY <1>1, <1>2 DEF IsLayout

LEMMA MovedIsSound ==
  ASSUME NEW l, Sound(l), NEW p \in l.panels, NEW g \in DOMAIN l.tabs,
         l.role[g] = Role[p], NEW i \in Nat,
         NEW r, r = MovedToGroup(l, p, g, i)
  PROVE  /\ Sound(r) /\ ActiveShown(r) /\ r.panels = l.panels /\ r.active = p
         /\ DOMAIN r.tabs = DOMAIN l.tabs /\ r.role = l.role
         /\ OthersKept(l, r, p)
<1>1. PICK q : q = Taken(l, p)
  OBVIOUS
<1>2. IsLayout(l) /\ p \in DOMAIN Role
  BY PanelsHaveRoles
<1>3. q.panels = l.panels \ {p} /\ DOMAIN q.tabs = DOMAIN l.tabs /\ q.role = l.role
  BY <1>1, <1>2, RemovedFields
<1>4. Sound(q) /\ OthersKept(l, q, p)
  BY <1>1, RemovedIsSound
<1>5. Len(q.tabs[g]) \in Nat
  BY <1>3, <1>4, PanelsHaveRoles
<1>6. PICK j : /\ j = (IF i < Len(q.tabs[g]) THEN i ELSE Len(q.tabs[g]))
               /\ MovedToGroup(l, p, g, i) = PanelAdded(q, p, g, j)
  BY <1>1, <1>2, MovedIsAdded
<1>7. j \in 0..Len(q.tabs[g])
  BY <1>5, <1>6
<1>8. r = PanelAdded(q, p, g, j)
  BY <1>6
<1>9. /\ Sound(r) /\ ActiveShown(r) /\ r.panels = q.panels \cup {p} /\ r.active = p
      /\ DOMAIN r.tabs = DOMAIN q.tabs /\ r.role = q.role
      /\ OthersKept(q, r, p)
  BY <1>2, <1>3, <1>4, <1>7, <1>8, AddedIsSound
<1>10. OthersKept(l, r, p)
  BY <1>4, <1>9 DEF OthersKept
<1> QED BY <1>3, <1>9, <1>10

LEMMA AutoHiddenIsSound ==
  ASSUME NEW l, Sound(l), NEW p \in l.panels, Role[p] = "tool", NEW e,
         NEW r, r = AutoHidden(l, p, e)
  PROVE  /\ Sound(r) /\ ActiveShown(r) /\ r.panels = l.panels /\ r.active = p
         /\ DOMAIN r.tabs = DOMAIN l.tabs /\ r.role = l.role
         /\ OthersKept(l, r, p)
<1>1. PICK d, q, x : d = Detached(l, p) /\ q = Taken(l, p) /\ x = [panel |-> p, edge |-> e]
  OBVIOUS
<1>2. IsLayout(l) /\ p \in DOMAIN Role
  BY PanelsHaveRoles
<1>3. PICK tabs, front, hidden, panels :
        /\ tabs = [k \in DOMAIN l.tabs |-> Without(l.tabs[k], p)]
        /\ front = [k \in DOMAIN l.tabs |-> FrontTab(Without(l.tabs[k], p), l.front[k])]
        /\ hidden = Unhidden(l, p)
        /\ panels = l.panels \ {p}
  OBVIOUS
<1>4. d = [panels |-> l.panels, groups |-> l.groups, role |-> l.role, tabs |-> tabs,
           front |-> front, leaf |-> l.leaf, split |-> l.split, root |-> l.root,
           hosts |-> l.hosts, hidden |-> hidden, active |-> l.active]
  BY <1>1, <1>2, <1>3, DetachedFields
<1>5. q = [panels |-> panels, groups |-> l.groups, role |-> l.role, tabs |-> tabs,
           front |-> front, leaf |-> l.leaf, split |-> l.split, root |-> l.root,
           hosts |-> l.hosts, hidden |-> hidden, active |-> l.active]
  BY <1>1, <1>2, <1>3, RemovedFields
<1>6. r = [d EXCEPT !.hidden = Append(d.hidden, x), !.active = p]
  BY <1>1 DEF AutoHidden
<1>7. HiddenAdded(q, p, e) =
        [q EXCEPT !.panels = q.panels \cup {p}, !.hidden = Append(q.hidden, x), !.active = p]
  BY <1>1 DEF HiddenAdded
<1>8. PICK entries : entries = Append(hidden, x)
  OBVIOUS
<1>9. /\ d.hidden = hidden /\ q.hidden = hidden /\ q.panels \cup {p} = l.panels
      /\ q.panels = l.panels \ {p} /\ DOMAIN q.tabs = DOMAIN l.tabs /\ q.role = l.role
  BY <1>3, <1>4, <1>5
<1>10. r = [d EXCEPT !.hidden = entries, !.active = p]
  BY <1>6, <1>8, <1>9
<1>11. HiddenAdded(q, p, e) =
         [q EXCEPT !.panels = l.panels, !.hidden = entries, !.active = p]
  BY <1>7, <1>8, <1>9
<1>12. r = HiddenAdded(q, p, e)
  <2>1. r = [panels |-> l.panels, groups |-> l.groups, role |-> l.role, tabs |-> tabs,
             front |-> front, leaf |-> l.leaf, split |-> l.split, root |-> l.root,
             hosts |-> l.hosts, hidden |-> entries, active |-> p]
    BY <1>4, <1>10
  <2>2. HiddenAdded(q, p, e) =
            [panels |-> l.panels, groups |-> l.groups, role |-> l.role, tabs |-> tabs,
             front |-> front, leaf |-> l.leaf, split |-> l.split, root |-> l.root,
             hosts |-> l.hosts, hidden |-> entries, active |-> p]
    BY <1>5, <1>11
  <2> QED BY <2>1, <2>2
<1>13. Sound(q) /\ OthersKept(l, q, p)
  BY <1>1, RemovedIsSound
<1>14. /\ Sound(r) /\ ActiveShown(r) /\ r.panels = q.panels \cup {p} /\ r.active = p
       /\ r.tabs = q.tabs /\ r.role = q.role
       /\ OthersKept(q, r, p)
  BY <1>2, <1>9, <1>12, <1>13, HiddenIsSound
<1>15. OthersKept(l, r, p)
  BY <1>13, <1>14 DEF OthersKept
<1> QED BY <1>9, <1>14, <1>15

LEMMA InsertedAlone ==
  ASSUME NEW p
  PROVE  InsertAt(<<>>, 1, p) = <<p>> /\ FrontTab(<<p>>, None) = p
<1>0. <<>> \in Seq({p})
  OBVIOUS
<1>1. PICK s \in Seq({p}) : s = <<>>
  BY <1>0
<1>2. PICK k \in 1..Len(s) + 1 : k = 1
  BY <1>1
<1>3. PICK u : u = InsertAt(s, k, p)
  OBVIOUS
<1>4. u \in Seq({p}) /\ Len(u) = Len(s) + 1
  BY <1>3, InsertAtProperties
<1>5. Len(u) = 1 /\ u[1] = p
  BY <1>1, <1>4
<1>6. u = <<p>>
  BY <1>4, <1>5
<1>7. FrontTab(<<p>>, None) = p
  <2>1. ToSet(<<p>>) = {p}
    BY DEF ToSet
  <2> QED BY <2>1 DEF FrontTab
<1> QED BY <1>1, <1>2, <1>3, <1>6, <1>7

(* Panel p in the empty group g, without being active yet.                  *)
PanelIn(w, p, g) ==
  [w EXCEPT !.panels = w.panels \cup {p},
            !.tabs = [w.tabs EXCEPT ![g] = InsertAt(w.tabs[g], 1, p)],
            !.front = [w.front EXCEPT ![g] = p]]

Hosted(w, n, h) == [w EXCEPT !.hosts = Extended(@, h, n)]
HostedActive(w, n, h, p) == [w EXCEPT !.hosts = Extended(@, h, n), !.active = p]
BesideActive(w, k, n, s, first, p) == [Beside(w, k, n, s, first) EXCEPT !.active = p]

(* A new group for the panel alone is an empty one to which it is added.    *)
LEMMA AloneInGroup ==
  ASSUME NEW l, IsLayout(l), NEW p \in l.panels, NEW g, g \notin DOMAIN l.tabs, NEW n
  PROVE  /\ IsRecord(WithGroup(Taken(l, p), g, Role[p], <<>>, n))
         /\ WithGroup(Detached(l, p), g, Role[p], <<p>>, n) =
              PanelIn(WithGroup(Taken(l, p), g, Role[p], <<>>, n), p, g)
<1>0. PICK w : w = WithGroup(Taken(l, p), g, Role[p], <<>>, n)
  OBVIOUS
<1>1. PICK d, q : d = Detached(l, p) /\ q = Taken(l, p)
  OBVIOUS
<1>2. PICK tabs, front, hidden, panels :
        /\ tabs = [k \in DOMAIN l.tabs |-> Without(l.tabs[k], p)]
        /\ front = [k \in DOMAIN l.tabs |-> FrontTab(Without(l.tabs[k], p), l.front[k])]
        /\ hidden = Unhidden(l, p)
        /\ panels = l.panels \ {p}
  OBVIOUS
<1>3. d = [panels |-> l.panels, groups |-> l.groups, role |-> l.role, tabs |-> tabs,
           front |-> front, leaf |-> l.leaf, split |-> l.split, root |-> l.root,
           hosts |-> l.hosts, hidden |-> hidden, active |-> l.active]
  BY <1>1, <1>2, DetachedFields
<1>4. q = [panels |-> panels, groups |-> l.groups, role |-> l.role, tabs |-> tabs,
           front |-> front, leaf |-> l.leaf, split |-> l.split, root |-> l.root,
           hosts |-> l.hosts, hidden |-> hidden, active |-> l.active]
  BY <1>1, <1>2, RemovedFields
<1>5. IsRecord(d) /\ IsRecord(q)
  BY <1>3, <1>4 DEF IsRecord
<1>6. PICK groups, role, leaf, tabs0, tabs1, front0, front1 :
        /\ groups = Append(l.groups, g) /\ role = Extended(l.role, g, Role[p])
        /\ leaf = Extended(l.leaf, n, g)
        /\ tabs0 = Extended(tabs, g, <<>>) /\ tabs1 = Extended(tabs, g, <<p>>)
        /\ front0 = Extended(front, g, None) /\ front1 = Extended(front, g, p)
  OBVIOUS
<1>7. FrontTab(<<p>>, None) = p /\ FrontTab(<<>>, None) = None
  BY InsertedAlone DEF FrontTab, ToSet
<1>8. w = [panels |-> panels, groups |-> groups, role |-> role, tabs |-> tabs0,
           front |-> front0, leaf |-> leaf, split |-> l.split, root |-> l.root,
           hosts |-> l.hosts, hidden |-> hidden, active |-> l.active]
  <2>1. w = [panels |-> q.panels, groups |-> Append(q.groups, g),
             role |-> Extended(q.role, g, Role[p]), tabs |-> Extended(q.tabs, g, <<>>),
             front |-> Extended(q.front, g, FrontTab(<<>>, None)),
             leaf |-> Extended(q.leaf, n, g), split |-> q.split, root |-> q.root,
             hosts |-> q.hosts, hidden |-> q.hidden, active |-> q.active]
    BY <1>0, <1>1, <1>5, GroupFields
  <2> QED BY <1>4, <1>6, <1>7, <2>1
<1>9. WithGroup(d, g, Role[p], <<p>>, n) =
          [panels |-> l.panels, groups |-> groups, role |-> role, tabs |-> tabs1,
           front |-> front1, leaf |-> leaf, split |-> l.split, root |-> l.root,
           hosts |-> l.hosts, hidden |-> hidden, active |-> l.active]
  <2>1. WithGroup(d, g, Role[p], <<p>>, n) =
            [panels |-> d.panels, groups |-> Append(d.groups, g),
             role |-> Extended(d.role, g, Role[p]), tabs |-> Extended(d.tabs, g, <<p>>),
             front |-> Extended(d.front, g, FrontTab(<<p>>, None)),
             leaf |-> Extended(d.leaf, n, g), split |-> d.split, root |-> d.root,
             hosts |-> d.hosts, hidden |-> d.hidden, active |-> d.active]
    <3>1. PICK tab : tab = <<p>>
      OBVIOUS
    <3>2. PICK w1 : w1 = WithGroup(d, g, Role[p], tab, n)
      OBVIOUS
    <3>3. w1 =
            [panels |-> d.panels, groups |-> Append(d.groups, g),
             role |-> Extended(d.role, g, Role[p]), tabs |-> Extended(d.tabs, g, tab),
             front |-> Extended(d.front, g, FrontTab(tab, None)),
             leaf |-> Extended(d.leaf, n, g), split |-> d.split, root |-> d.root,
             hosts |-> d.hosts, hidden |-> d.hidden, active |-> d.active]
      BY <1>5, <3>2, GroupFields
    <3> QED BY <3>1, <3>2, <3>3
  <2> QED BY <1>3, <1>6, <1>7, <2>1
<1>10. w.panels = panels /\ w.tabs = tabs0 /\ w.front = front0
  BY <1>8
<1>11. l.panels = w.panels \cup {p}
  BY <1>2, <1>10
<1>12. tabs1 = [w.tabs EXCEPT ![g] = InsertAt(w.tabs[g], 1, p)]
  <2>1. w.tabs[g] = <<>>
    BY <1>6, <1>10 DEF Extended
  <2>2. InsertAt(w.tabs[g], 1, p) = <<p>>
    BY <2>1, InsertedAlone
  <2>3. tabs1 = [w.tabs EXCEPT ![g] = <<p>>]
    BY <1>6, <1>10 DEF Extended
  <2> QED BY <2>2, <2>3
<1>13. front1 = [w.front EXCEPT ![g] = p]
  BY <1>6, <1>10 DEF Extended
<1>14. WithGroup(d, g, Role[p], <<p>>, n) =
         [w EXCEPT !.panels = l.panels, !.tabs = tabs1, !.front = front1]
  <2>1. PICK old : old = l.panels
    OBVIOUS
  <2>2. PICK w0, r : w0 = w /\ r = [w0 EXCEPT !.panels = old, !.tabs = tabs1]
    OBVIOUS
  <2>6. w0 = [panels |-> panels, groups |-> groups, role |-> role, tabs |-> tabs0,
              front |-> front0, leaf |-> leaf, split |-> l.split, root |-> l.root,
              hosts |-> l.hosts, hidden |-> hidden, active |-> l.active]
    BY <1>8, <2>2
  <2>7. r = [w0 EXCEPT !.panels = old, !.tabs = tabs1]
    BY <2>2
  <2>3. r = [panels |-> old, groups |-> groups, role |-> role, tabs |-> tabs1,
             front |-> front0, leaf |-> leaf, split |-> l.split, root |-> l.root,
             hosts |-> l.hosts, hidden |-> hidden, active |-> l.active]
    BY <2>6, <2>7
  <2>4. [w EXCEPT !.panels = old, !.tabs = tabs1, !.front = front1] =
          [r EXCEPT !.front = front1]
    BY <2>2
  <2>5. [r EXCEPT !.front = front1] = [panels |-> old, groups |-> groups, role |-> role, tabs |-> tabs1,
             front |-> front1, leaf |-> leaf, split |-> l.split, root |-> l.root,
             hosts |-> l.hosts, hidden |-> hidden, active |-> l.active]
    BY <2>3
  <2> QED BY <1>9, <2>1, <2>4, <2>5
<1>15. IsRecord(w)
  BY <1>8 DEF IsRecord
<1> QED BY <1>0, <1>1, <1>11, <1>12, <1>13, <1>14, <1>15 DEF PanelIn

(* What follows the new group commutes with adding the panel to it.         *)
LEMMA AloneThenHosted ==
  ASSUME NEW w, IsRecord(w), NEW p, NEW g, NEW n, NEW h, NEW w1,
         w1 = PanelIn(w, p, g)
  PROVE  HostedActive(w1, n, h, p) = PanelAdded(Hosted(w, n, h), p, g, 0)
<1>1. PICK panels, groups, role, tabs, front, leaf, split, root, hosts, hidden, active :
        w = [panels |-> panels, groups |-> groups, role |-> role, tabs |-> tabs,
             front |-> front, leaf |-> leaf, split |-> split, root |-> root,
             hosts |-> hosts, hidden |-> hidden, active |-> active]
  BY DEF IsRecord
<1>2. PICK panels1, tabs1, front1, hosts1 :
        /\ panels1 = panels \cup {p}
        /\ tabs1 = [tabs EXCEPT ![g] = InsertAt(tabs[g], 1, p)]
        /\ front1 = [front EXCEPT ![g] = p]
        /\ hosts1 = Extended(hosts, h, n)
  OBVIOUS
<1>3. PICK w2, r, f, a : /\ w2 = w1
                         /\ r = HostedActive(w1, n, h, p) /\ f = Hosted(w, n, h)
                         /\ a = PanelAdded(f, p, g, 0)
  OBVIOUS
<1>4. /\ w.panels = panels /\ w.tabs = tabs /\ w.front = front /\ w.hosts = hosts
  BY <1>1
<1>5. w2 = [w EXCEPT !.panels = panels1, !.tabs = tabs1, !.front = front1]
  BY <1>2, <1>3, <1>4 DEF PanelIn
<1>6. w2 = [panels |-> panels1, groups |-> groups, role |-> role, tabs |-> tabs1,
            front |-> front1, leaf |-> leaf, split |-> split, root |-> root,
            hosts |-> hosts, hidden |-> hidden, active |-> active]
  BY <1>1, <1>5
<1>7. w2.hosts = hosts
  BY <1>6
<1>8. r = [w2 EXCEPT !.hosts = hosts1, !.active = p]
  BY <1>2, <1>3, <1>7 DEF HostedActive
<1>9. r = [panels |-> panels1, groups |-> groups, role |-> role, tabs |-> tabs1,
           front |-> front1, leaf |-> leaf, split |-> split, root |-> root,
           hosts |-> hosts1, hidden |-> hidden, active |-> p]
  BY <1>6, <1>8
<1>10. f = [w EXCEPT !.hosts = hosts1]
  BY <1>2, <1>3, <1>4 DEF Hosted
<1>11. f = [panels |-> panels, groups |-> groups, role |-> role, tabs |-> tabs,
            front |-> front, leaf |-> leaf, split |-> split, root |-> root,
            hosts |-> hosts1, hidden |-> hidden, active |-> active]
  BY <1>1, <1>10
<1>12. f.panels = panels /\ f.tabs = tabs /\ f.front = front
  BY <1>11
<1>13. a = [f EXCEPT !.panels = panels1, !.tabs = tabs1, !.front = front1, !.active = p]
  <2>1. a = [f EXCEPT !.panels = f.panels \cup {p},
                      !.tabs = [f.tabs EXCEPT ![g] = InsertAt(f.tabs[g], 0 + 1, p)],
                      !.front = [f.front EXCEPT ![g] = p], !.active = p]
    BY <1>3, <1>11 DEF PanelAdded
  <2>2. 0 + 1 = 1
    OBVIOUS
  <2> QED BY <1>2, <1>12, <2>1, <2>2
<1>14. PICK a1 : a1 = [f EXCEPT !.panels = panels1, !.tabs = tabs1]
  OBVIOUS
<1>15. a1 = [panels |-> panels1, groups |-> groups, role |-> role, tabs |-> tabs1,
             front |-> front, leaf |-> leaf, split |-> split, root |-> root,
             hosts |-> hosts1, hidden |-> hidden, active |-> active]
  BY <1>11, <1>14
<1>16. a = [a1 EXCEPT !.front = front1, !.active = p]
  BY <1>13, <1>14
<1>17. a = [panels |-> panels1, groups |-> groups, role |-> role, tabs |-> tabs1,
            front |-> front1, leaf |-> leaf, split |-> split, root |-> root,
            hosts |-> hosts1, hidden |-> hidden, active |-> p]
  BY <1>15, <1>16
<1> QED BY <1>3, <1>9, <1>17

(* What Beside makes of the root, the hosts and the splits.                 *)
Reshaped(w, t, n, s, first, root, hosts, split) ==
  /\ root = (IF w.root = t THEN s ELSE w.root)
  /\ hosts = [h \in DOMAIN w.hosts |-> IF w.hosts[h] = t THEN s ELSE w.hosts[h]]
  /\ split = Extended([m \in DOMAIN w.split |->
                         <<IF w.split[m][1] = t THEN s ELSE w.split[m][1],
                           IF w.split[m][2] = t THEN s ELSE w.split[m][2]>>],
                      s, IF first THEN <<n, t>> ELSE <<t, n>>)

WithTree(w, root, hosts, split) == [w EXCEPT !.root = root, !.hosts = hosts, !.split = split]

LEMMA AloneThenBeside ==
  ASSUME NEW w, IsRecord(w), NEW p, NEW g, NEW n, NEW k, NEW s, NEW first, NEW w1,
         w1 = PanelIn(w, p, g)
  PROVE  BesideActive(w1, k, n, s, first, p) = PanelAdded(Beside(w, k, n, s, first), p, g, 0)
<1>1. PICK panels, groups, role, tabs, front, leaf, split, root, hosts, hidden, active :
        w = [panels |-> panels, groups |-> groups, role |-> role, tabs |-> tabs,
             front |-> front, leaf |-> leaf, split |-> split, root |-> root,
             hosts |-> hosts, hidden |-> hidden, active |-> active]
  BY DEF IsRecord
<1>2. PICK panels1, tabs1, front1 :
        /\ panels1 = panels \cup {p}
        /\ tabs1 = [tabs EXCEPT ![g] = InsertAt(tabs[g], 1, p)]
        /\ front1 = [front EXCEPT ![g] = p]
  OBVIOUS
<1>3. PICK w2, b, r, f, a : /\ w2 = w1 /\ b = Beside(w2, k, n, s, first)
                            /\ r = BesideActive(w2, k, n, s, first, p)
                            /\ f = Beside(w, k, n, s, first)
                            /\ a = PanelAdded(f, p, g, 0)
  OBVIOUS
<1>4. /\ w.panels = panels /\ w.tabs = tabs /\ w.front = front /\ w.hosts = hosts
      /\ w.root = root /\ w.split = split /\ w.leaf = leaf
  BY <1>1
<1>5. w2 = [w EXCEPT !.panels = panels1, !.tabs = tabs1, !.front = front1]
  BY <1>2, <1>3, <1>4 DEF PanelIn
<1>6. w2 = [panels |-> panels1, groups |-> groups, role |-> role, tabs |-> tabs1,
            front |-> front1, leaf |-> leaf, split |-> split, root |-> root,
            hosts |-> hosts, hidden |-> hidden, active |-> active]
  BY <1>1, <1>5
<1>7. w2.hosts = hosts /\ w2.root = root /\ w2.split = split /\ w2.leaf = leaf
  BY <1>6
<1>8. PICK t : t = LeafOf(w, k)
  OBVIOUS
<1>9. t = LeafOf(w2, k)
  BY <1>4, <1>7, <1>8 DEF LeafOf
<1>10. PICK root1, hosts1, split1 :
         /\ root1 = (IF root = t THEN s ELSE root)
         /\ hosts1 = [h \in DOMAIN hosts |-> IF hosts[h] = t THEN s ELSE hosts[h]]
         /\ split1 = Extended([m \in DOMAIN split |->
                             <<IF split[m][1] = t THEN s ELSE split[m][1],
                               IF split[m][2] = t THEN s ELSE split[m][2]>>],
                          s, IF first THEN <<n, t>> ELSE <<t, n>>)
  OBVIOUS
<1>11. IsRecord(w2)
  BY <1>6 DEF IsRecord
<1>12. f = [w EXCEPT !.root = root1, !.hosts = hosts1, !.split = split1]
  <2>1. Reshaped(w, t, n, s, first, root1, hosts1, split1)
    BY <1>4, <1>10, Zenon DEF Reshaped
  <2>2. Reshaped(w, LeafOf(w, k), n, s, first, root1, hosts1, split1)
    BY <1>8, <2>1, Zenon
  <2>3. Beside(w, k, n, s, first) = WithTree(w, root1, hosts1, split1)
    BY <2>2 DEF Beside, IsRecord, Reshaped, WithTree
  <2> QED BY <1>3, <2>3, Zenon DEF WithTree
<1>13. b = [w2 EXCEPT !.root = root1, !.hosts = hosts1, !.split = split1]
  <2>1. Reshaped(w2, t, n, s, first, root1, hosts1, split1)
    BY <1>7, <1>10, Zenon DEF Reshaped
  <2>2. Reshaped(w2, LeafOf(w2, k), n, s, first, root1, hosts1, split1)
    BY <1>9, <2>1, Zenon
  <2>3. Beside(w2, k, n, s, first) = WithTree(w2, root1, hosts1, split1)
    BY <1>11, <2>2 DEF Beside, IsRecord, Reshaped, WithTree
  <2> QED BY <1>3, <2>3, Zenon DEF WithTree
<1>14. f = [panels |-> panels, groups |-> groups, role |-> role, tabs |-> tabs,
            front |-> front, leaf |-> leaf, split |-> split1, root |-> root1,
            hosts |-> hosts1, hidden |-> hidden, active |-> active]
  BY <1>1, <1>12
<1>15. b = [panels |-> panels1, groups |-> groups, role |-> role, tabs |-> tabs1,
            front |-> front1, leaf |-> leaf, split |-> split1, root |-> root1,
            hosts |-> hosts1, hidden |-> hidden, active |-> active]
  BY <1>6, <1>13
<1>16. r = [panels |-> panels1, groups |-> groups, role |-> role, tabs |-> tabs1,
            front |-> front1, leaf |-> leaf, split |-> split1, root |-> root1,
            hosts |-> hosts1, hidden |-> hidden, active |-> p]
  <2>1. r = [b EXCEPT !.active = p]
    BY <1>3 DEF BesideActive
  <2> QED BY <1>15, <2>1
<1>17. f.panels = panels /\ f.tabs = tabs /\ f.front = front
  BY <1>14
<1>18. a = [f EXCEPT !.panels = panels1, !.tabs = tabs1, !.front = front1, !.active = p]
  <2>1. a = [f EXCEPT !.panels = f.panels \cup {p},
                      !.tabs = [f.tabs EXCEPT ![g] = InsertAt(f.tabs[g], 0 + 1, p)],
                      !.front = [f.front EXCEPT ![g] = p], !.active = p]
    BY <1>3, <1>14 DEF PanelAdded
  <2>2. 0 + 1 = 1
    OBVIOUS
  <2> QED BY <1>2, <1>17, <2>1, <2>2
<1>19. PICK a1 : a1 = [f EXCEPT !.panels = panels1, !.tabs = tabs1]
  OBVIOUS
<1>20. a1 = [panels |-> panels1, groups |-> groups, role |-> role, tabs |-> tabs1,
             front |-> front, leaf |-> leaf, split |-> split1, root |-> root1,
             hosts |-> hosts1, hidden |-> hidden, active |-> active]
  BY <1>14, <1>19
<1>21. a = [a1 EXCEPT !.front = front1, !.active = p]
  BY <1>18, <1>19
<1>22. a = [panels |-> panels1, groups |-> groups, role |-> role, tabs |-> tabs1,
            front |-> front1, leaf |-> leaf, split |-> split1, root |-> root1,
            hosts |-> hosts1, hidden |-> hidden, active |-> p]
  BY <1>20, <1>21
<1> QED BY <1>3, <1>16, <1>22

LEMMA ActivatedIsSound ==
  ASSUME NEW l, Sound(l), NEW p \in l.panels, NEW r, r = Activated(l, p)
  PROVE  /\ Sound(r) /\ ActiveShown(r) /\ r.panels = l.panels /\ r.active = p
         /\ r.tabs = l.tabs /\ r.role = l.role /\ AllKept(l, r)
<1>1. IsLayout(l) /\ PanelsPlacedOnce(l) /\ FrontsFit(l) /\ Tree(l) /\ p \in DOMAIN Role
  BY PanelsHaveRoles DEF Sound
<1>2. PICK panels, groups, role, tabs, front, leaf, split, root, hosts, hidden, active :
        l = [panels |-> panels, groups |-> groups, role |-> role, tabs |-> tabs,
             front |-> front, leaf |-> leaf, split |-> split, root |-> root,
             hosts |-> hosts, hidden |-> hidden, active |-> active]
  BY <1>1 DEF IsLayout
<1>3. PICK front1 : front1 = [g \in DOMAIN tabs |-> IF p \in ToSet(tabs[g]) THEN p ELSE front[g]]
  OBVIOUS
<1>4. /\ l.panels = panels /\ l.groups = groups /\ l.role = role /\ l.tabs = tabs
      /\ l.front = front /\ l.leaf = leaf /\ l.split = split /\ l.root = root
      /\ l.hosts = hosts /\ l.hidden = hidden
  BY <1>2
<1>5. r = [l EXCEPT !.active = p, !.front = front1]
  BY <1>3, <1>4 DEF Activated
<1>6. PICK r1 : r1 = r
  OBVIOUS
<1>7. r1 = [panels |-> panels, groups |-> groups, role |-> role, tabs |-> tabs,
            front |-> front1, leaf |-> leaf, split |-> split, root |-> root,
            hosts |-> hosts, hidden |-> hidden, active |-> p]
  BY <1>2, <1>5, <1>6
<1>8. /\ r1.panels = l.panels /\ r1.groups = l.groups /\ r1.role = l.role /\ r1.tabs = l.tabs
      /\ r1.leaf = l.leaf /\ r1.split = l.split /\ r1.root = l.root
      /\ r1.hosts = l.hosts /\ r1.hidden = l.hidden /\ r1.active = p
      /\ DOMAIN r1.front = DOMAIN l.tabs
      /\ \A g \in DOMAIN l.tabs : r1.front[g] = IF p \in ToSet(l.tabs[g]) THEN p ELSE l.front[g]
  BY <1>3, <1>4, <1>7
<1>9. IsLayout(r1)
  <2>1. r1 = [panels |-> r1.panels, groups |-> r1.groups, role |-> r1.role, tabs |-> r1.tabs,
              front |-> r1.front, leaf |-> r1.leaf, split |-> r1.split, root |-> r1.root,
              hosts |-> r1.hosts, hidden |-> r1.hidden, active |-> r1.active]
    BY <1>7
  <2> QED BY <1>1, <1>8, <2>1 DEF IsLayout
<1>10. PanelsPlacedOnce(r1)
  <2>1. Hidden(r1) = Hidden(l)
    BY <1>8 DEF Hidden
  <2> QED BY <1>1, <1>8, <2>1 DEF PanelsPlacedOnce
<1>11. FrontsFit(r1)
  <2>1. ToSet(<<>>) = {}
    BY DEF ToSet
  <2> QED BY <1>1, <1>8, <2>1 DEF FrontsFit
<1>12. Tree(r1)
  BY <1>1, <1>8, TreeKept
<1>13. ActiveShown(r1)
  <2>1. p # None
    BY <1>1, DockAssumption DEF DockAssumption
  <2> QED BY <1>8, <2>1 DEF ActiveShown
<1>14. AllKept(l, r1)
  BY <1>8 DEF AllKept, Place
<1> QED BY <1>14, <1>6, <1>8, <1>9, <1>10, <1>11, <1>12, <1>13 DEF Sound

(* A panel floats alone in a new group of its role.                         *)
LEMMA FloatPanelIsSound ==
  ASSUME NEW l, Sound(l), NEW p \in l.panels, NEW g, NEW n, NEW h, CanFloat(l, g, n, h),
         NEW r, r = Floated(l, p, g, n, h)
  PROVE  /\ Sound(r) /\ ActiveShown(r) /\ r.panels = l.panels /\ r.active = p
         /\ DOMAIN r.tabs = DOMAIN l.tabs \cup {g} /\ r.role = Extended(l.role, g, Role[p])
         /\ OthersKept(l, r, p)
<1>1. IsLayout(l) /\ p \in DOMAIN Role
  BY PanelsHaveRoles DEF Sound
<1>2. PICK q : q = Taken(l, p)
  OBVIOUS
<1>3. PICK w : w = WithGroup(q, g, Role[p], <<>>, n)
  OBVIOUS
<1>4. PICK d : d = WithGroup(Detached(l, p), g, Role[p], <<p>>, n)
  OBVIOUS
<1>5. /\ Sound(q) /\ OthersKept(l, q, p) /\ q.panels = l.panels \ {p} /\ DOMAIN q.tabs = DOMAIN l.tabs
      /\ q.role = l.role /\ q.hosts = l.hosts /\ Nodes(q) = Nodes(l)
  <2>1. Sound(q) /\ OthersKept(l, q, p)
    BY <1>2, RemovedIsSound
  <2>2. q = [panels |-> l.panels \ {p}, groups |-> l.groups, role |-> l.role,
             tabs |-> [k \in DOMAIN l.tabs |-> Without(l.tabs[k], p)],
             front |-> [k \in DOMAIN l.tabs |-> FrontTab(Without(l.tabs[k], p), l.front[k])],
             leaf |-> l.leaf, split |-> l.split, root |-> l.root,
             hosts |-> l.hosts, hidden |-> Unhidden(l, p), active |-> l.active]
    BY <1>1, <1>2, RemovedFields
  <2> QED BY <2>1, <2>2 DEF Nodes
<1>6. PICK f : f = GroupFloated(q, g, Role[p], n, h)
  OBVIOUS
<1>7. CanFloat(q, g, n, h)
  BY <1>5 DEF CanFloat, Fresh
<1>8. /\ Sound(f) /\ AllKept(q, f) /\ f.panels = q.panels /\ f.active = q.active
      /\ f.tabs = Extended(q.tabs, g, <<>>) /\ f.role = Extended(q.role, g, Role[p])
  BY <1>5, <1>6, <1>7, FloatedIsSound
<1>9. g \notin DOMAIN l.tabs
  BY DEF CanFloat, Fresh
<1>11. IsRecord(w) /\ d = PanelIn(w, p, g)
  BY <1>1, <1>2, <1>3, <1>4, <1>9, AloneInGroup
<1>12. f = Hosted(w, n, h)
  BY <1>3, <1>6 DEF GroupFloated, Hosted
<1>13. HostedActive(d, n, h, p) = PanelAdded(Hosted(w, n, h), p, g, 0)
  BY <1>11, AloneThenHosted
<1>14. r = HostedActive(d, n, h, p)
  BY <1>4 DEF Floated, HostedActive
<1>15. r = PanelAdded(f, p, g, 0)
  BY <1>11, <1>12, <1>13, <1>14
<1>16. /\ p \notin f.panels /\ g \in DOMAIN f.tabs /\ f.role[g] = Role[p]
       /\ f.tabs[g] = <<>> /\ DOMAIN f.tabs = DOMAIN l.tabs \cup {g}
       /\ f.role = Extended(l.role, g, Role[p]) /\ f.panels \cup {p} = l.panels
  BY <1>5, <1>8 DEF Extended
<1>17. 0 \in 0..Len(f.tabs[g])
  BY <1>16
<1>18. PICK a : a = PanelAdded(f, p, g, 0)
  OBVIOUS
<1>19. /\ Sound(a) /\ OthersKept(f, a, p) /\ ActiveShown(a)
       /\ a.panels = f.panels \cup {p} /\ a.active = p
       /\ DOMAIN a.tabs = DOMAIN f.tabs /\ a.role = f.role
  BY <1>1, <1>8, <1>16, <1>17, <1>18, AddedIsSound
<1>20. OthersKept(l, a, p)
  BY <1>5, <1>8, <1>19 DEF OthersKept, AllKept
<1> QED BY <1>15, <1>16, <1>18, <1>19, <1>20

(* A panel moves alone to a new group of its role beside another group.     *)
LEMMA SplitIsSound ==
  ASSUME NEW l, Sound(l), NEW p \in l.panels, NEW g, NEW n, NEW k, NEW s,
         NEW first \in BOOLEAN, CanSplit(l, g, n, k, s),
         NEW r, r = SplitToGroup(l, p, g, n, k, s, first)
  PROVE  /\ Sound(r) /\ ActiveShown(r) /\ r.panels = l.panels /\ r.active = p
         /\ DOMAIN r.tabs = DOMAIN l.tabs \cup {g} /\ r.role = Extended(l.role, g, Role[p])
         /\ OthersKept(l, r, p)
<1>1. IsLayout(l) /\ p \in DOMAIN Role
  BY PanelsHaveRoles DEF Sound
<1>2. PICK q : q = Taken(l, p)
  OBVIOUS
<1>3. PICK w : w = WithGroup(q, g, Role[p], <<>>, n)
  OBVIOUS
<1>4. PICK d : d = WithGroup(Detached(l, p), g, Role[p], <<p>>, n)
  OBVIOUS
<1>5. /\ Sound(q) /\ OthersKept(l, q, p) /\ q.panels = l.panels \ {p} /\ DOMAIN q.tabs = DOMAIN l.tabs
      /\ q.role = l.role /\ q.hosts = l.hosts /\ Nodes(q) = Nodes(l)
  <2>1. Sound(q) /\ OthersKept(l, q, p)
    BY <1>2, RemovedIsSound
  <2>2. q = [panels |-> l.panels \ {p}, groups |-> l.groups, role |-> l.role,
             tabs |-> [j \in DOMAIN l.tabs |-> Without(l.tabs[j], p)],
             front |-> [j \in DOMAIN l.tabs |-> FrontTab(Without(l.tabs[j], p), l.front[j])],
             leaf |-> l.leaf, split |-> l.split, root |-> l.root,
             hosts |-> l.hosts, hidden |-> Unhidden(l, p), active |-> l.active]
    BY <1>1, <1>2, RemovedFields
  <2> QED BY <2>1, <2>2 DEF Nodes
<1>6. PICK f : f = Beside(w, k, n, s, first)
  OBVIOUS
<1>7. CanSplit(q, g, n, k, s)
  BY <1>5 DEF CanSplit, Fresh
<1>8. /\ Sound(f) /\ AllKept(q, f) /\ f.panels = q.panels /\ f.active = q.active
      /\ f.tabs = Extended(q.tabs, g, <<>>) /\ f.role = Extended(q.role, g, Role[p])
  BY <1>3, <1>5, <1>6, <1>7, BesideIsSound
<1>9. g \notin DOMAIN l.tabs
  BY DEF CanSplit, Fresh
<1>11. IsRecord(w) /\ d = PanelIn(w, p, g)
  <2>1. PICK v : v = WithGroup(Taken(l, p), g, Role[p], <<>>, n)
    OBVIOUS
  <2>2. /\ IsRecord(v)
        /\ WithGroup(Detached(l, p), g, Role[p], <<p>>, n) = PanelIn(v, p, g)
    BY <1>1, <1>9, <2>1, AloneInGroup
  <2> QED BY <1>2, <1>3, <1>4, <2>1, <2>2
<1>13. BesideActive(d, k, n, s, first, p) = PanelAdded(Beside(w, k, n, s, first), p, g, 0)
  BY <1>11, AloneThenBeside
<1>14. r = BesideActive(d, k, n, s, first, p)
  BY <1>4 DEF SplitToGroup, BesideActive
<1>15. r = PanelAdded(f, p, g, 0)
  BY <1>6, <1>11, <1>13, <1>14
<1>16. /\ p \notin f.panels /\ g \in DOMAIN f.tabs /\ f.role[g] = Role[p]
       /\ f.tabs[g] = <<>> /\ DOMAIN f.tabs = DOMAIN l.tabs \cup {g}
       /\ f.role = Extended(l.role, g, Role[p]) /\ f.panels \cup {p} = l.panels
  BY <1>5, <1>8 DEF Extended
<1>17. 0 \in 0..Len(f.tabs[g])
  BY <1>16
<1>18. PICK a : a = PanelAdded(f, p, g, 0)
  OBVIOUS
<1>19. /\ Sound(a) /\ OthersKept(f, a, p) /\ ActiveShown(a)
       /\ a.panels = f.panels \cup {p} /\ a.active = p
       /\ DOMAIN a.tabs = DOMAIN f.tabs /\ a.role = f.role
  BY <1>1, <1>8, <1>16, <1>17, <1>18, AddedIsSound
<1>20. OthersKept(l, a, p)
  BY <1>5, <1>8, <1>19 DEF OthersKept, AllKept
<1> QED BY <1>15, <1>16, <1>18, <1>19, <1>20

(* Which panel is active is no matter of soundness.                         *)
LEMMA ActiveChosen ==
  ASSUME NEW l, Sound(l), NEW a, NEW r, r = [l EXCEPT !.active = a]
  PROVE  /\ Sound(r) /\ r.active = a /\ r.panels = l.panels /\ r.tabs = l.tabs
         /\ r.role = l.role /\ r.front = l.front /\ AllKept(l, r)
<1>1. IsLayout(l) /\ PanelsPlacedOnce(l) /\ FrontsFit(l) /\ Tree(l)
  BY DEF Sound
<1>2. PICK panels, groups, role, tabs, front, leaf, split, root, hosts, hidden, active :
        l = [panels |-> panels, groups |-> groups, role |-> role, tabs |-> tabs,
             front |-> front, leaf |-> leaf, split |-> split, root |-> root,
             hosts |-> hosts, hidden |-> hidden, active |-> active]
  BY <1>1 DEF IsLayout
<1>4. /\ l.panels = panels /\ l.groups = groups /\ l.role = role /\ l.tabs = tabs
      /\ l.front = front /\ l.leaf = leaf /\ l.split = split /\ l.root = root
      /\ l.hosts = hosts /\ l.hidden = hidden
  BY <1>2
<1>6. PICK r1 : r1 = r
  OBVIOUS
<1>7. r1 = [panels |-> panels, groups |-> groups, role |-> role, tabs |-> tabs,
            front |-> front, leaf |-> leaf, split |-> split, root |-> root,
            hosts |-> hosts, hidden |-> hidden, active |-> a]
  BY <1>2, <1>6
<1>8. /\ r1.panels = l.panels /\ r1.groups = l.groups /\ r1.role = l.role /\ r1.tabs = l.tabs
      /\ r1.leaf = l.leaf /\ r1.split = l.split /\ r1.root = l.root /\ r1.front = l.front
      /\ r1.hosts = l.hosts /\ r1.hidden = l.hidden /\ r1.active = a
  BY <1>4, <1>7
<1>9. IsLayout(r1)
  <2>1. r1 = [panels |-> r1.panels, groups |-> r1.groups, role |-> r1.role, tabs |-> r1.tabs,
              front |-> r1.front, leaf |-> r1.leaf, split |-> r1.split, root |-> r1.root,
              hosts |-> r1.hosts, hidden |-> r1.hidden, active |-> r1.active]
    BY <1>7
  <2>2. /\ l.panels \subseteq DOMAIN Role
        /\ l.groups \in Seq(DOMAIN l.tabs) /\ ToSet(l.groups) = DOMAIN l.tabs
        /\ l.tabs \in [DOMAIN l.tabs -> Seq(DOMAIN Role)]
        /\ DOMAIN l.role = DOMAIN l.tabs /\ DOMAIN l.front = DOMAIN l.tabs
        /\ l.hidden \in Seq(ToSet(l.hidden))
    BY <1>1 DEF IsLayout
  <2> QED BY <1>8, <2>1, <2>2, Zenon DEF IsLayout
<1>10. PanelsPlacedOnce(r1)
  <2>1. Hidden(r1) = Hidden(l)
    BY <1>8 DEF Hidden
  <2> QED BY <1>1, <1>8, <2>1 DEF PanelsPlacedOnce
<1>11. FrontsFit(r1)
  BY <1>1, <1>8, Zenon DEF FrontsFit
<1>12. Tree(r1)
  BY <1>1, <1>8, TreeKept
<1>13. AllKept(l, r1)
  BY <1>8 DEF AllKept, Place
<1> QED BY <1>13, <1>6, <1>8, <1>9, <1>10, <1>11, <1>12, Zenon DEF Sound

(* The panel chosen when the active one has been closed.                    *)
LEMMA FirstPlacedIsShown ==
  ASSUME NEW l, Sound(l)
  PROVE  /\ FirstPlaced(l) \in l.panels \cup {None}
         /\ FirstPlaced(l) = None <=> l.panels = {}
         /\ \A g \in DOMAIN l.tabs :
              FirstPlaced(l) \in ToSet(l.tabs[g]) => l.front[g] = FirstPlaced(l)
<1> DEFINE filled == {i \in DOMAIN l.groups : l.tabs[l.groups[i]] # <<>>}
<1>1. IsLayout(l) /\ PanelsPlacedOnce(l) /\ FrontsFit(l)
  BY DEF Sound
<1>2. /\ l.panels \subseteq DOMAIN Role /\ l.groups \in Seq(DOMAIN l.tabs)
      /\ ToSet(l.groups) = DOMAIN l.tabs /\ l.tabs \in [DOMAIN l.tabs -> Seq(DOMAIN Role)]
      /\ l.hidden \in Seq(ToSet(l.hidden))
  BY <1>1 DEF IsLayout
<1>3. None \notin l.panels
  BY <1>2, DockAssumption DEF DockAssumption
<1>4. DOMAIN l.groups \subseteq Nat /\ \A i \in DOMAIN l.groups : l.groups[i] \in DOMAIN l.tabs
  BY <1>2
<1>5. CASE filled # {}
  <2>1. Min(filled) \in filled
    <3>1. filled \subseteq Nat
      BY <1>4
    <3> QED BY <1>5, <3>1, MinOfNaturals
  <2>2. PICK g0 \in DOMAIN l.tabs : g0 = l.groups[Min(filled)] /\ l.tabs[g0] # <<>>
    BY <1>4, <2>1
  <2>3. FirstPlaced(l) = l.front[g0]
    BY <1>5, <2>2 DEF FirstPlaced
  <2>4. l.front[g0] \in ToSet(l.tabs[g0])
    BY <1>1, <2>2 DEF FrontsFit
  <2>5. l.front[g0] \in l.panels
    BY <1>1, <2>4 DEF PanelsPlacedOnce
  <2>6. ASSUME NEW g \in DOMAIN l.tabs, l.front[g0] \in ToSet(l.tabs[g]) PROVE g = g0
    BY <1>1, <2>4, <2>6 DEF PanelsPlacedOnce
  <2> QED BY <1>3, <2>3, <2>5, <2>6
<1>6. CASE filled = {} /\ l.hidden # <<>>
  <2>1. FirstPlaced(l) = l.hidden[1].panel
    BY <1>6 DEF FirstPlaced
  <2>2. 1 \in DOMAIN l.hidden
    BY <1>2, <1>6
  <2>3. l.hidden[1].panel \in Hidden(l)
    BY <2>2 DEF Hidden, ToSet
  <2>4. l.hidden[1].panel \in l.panels
    BY <1>1, <2>3 DEF PanelsPlacedOnce
  <2>5. \A g \in DOMAIN l.tabs : l.hidden[1].panel \notin ToSet(l.tabs[g])
    BY <1>1, <2>3 DEF PanelsPlacedOnce
  <2> QED BY <1>3, <2>1, <2>4, <2>5
<1>7. CASE filled = {} /\ l.hidden = <<>>
  <2>1. FirstPlaced(l) = None
    BY <1>7 DEF FirstPlaced
  <2>2. \A g \in DOMAIN l.tabs : ToSet(l.tabs[g]) = {}
    <3>1. ASSUME NEW g \in DOMAIN l.tabs PROVE l.tabs[g] = <<>>
      <4>1. PICK i \in DOMAIN l.groups : l.groups[i] = g
        BY <1>2 DEF ToSet
      <4> QED BY <1>7, <4>1
    <3> QED BY <3>1 DEF ToSet
  <2>3. Hidden(l) = {}
    BY <1>7 DEF Hidden, ToSet
  <2>4. l.panels = {}
    BY <1>1, <2>2, <2>3 DEF PanelsPlacedOnce
  <2> QED BY <2>1, <2>2, <2>4
<1> QED BY <1>5, <1>6, <1>7

LEMMA ClosedIsSound ==
  ASSUME NEW l, Sound(l), ActiveShown(l), l.active \in l.panels \cup {None},
         NEW p \in l.panels, NEW r, r = PanelClosed(l, p)
  PROVE  /\ Sound(r) /\ ActiveShown(r) /\ r.panels = l.panels \ {p}
         /\ r.active \in r.panels \cup {None}
         /\ DOMAIN r.tabs = DOMAIN l.tabs /\ r.role = l.role
         /\ OthersKept(l, r, p)
<1>1. IsLayout(l) /\ PanelsPlacedOnce(l) /\ FrontsFit(l) /\ p \in DOMAIN Role
  BY PanelsHaveRoles DEF Sound
<1>2. PICK q : q = Taken(l, p)
  OBVIOUS
<1>3. Sound(q) /\ OthersKept(l, q, p)
  BY <1>2, RemovedIsSound
<1>4. /\ q.panels = l.panels \ {p} /\ DOMAIN q.tabs = DOMAIN l.tabs /\ q.role = l.role
      /\ q.active = l.active
      /\ \A g \in DOMAIN l.tabs : /\ q.tabs[g] = Without(l.tabs[g], p)
                                  /\ q.front[g] = FrontTab(Without(l.tabs[g], p), l.front[g])
  <2>1. q = [panels |-> l.panels \ {p}, groups |-> l.groups, role |-> l.role,
             tabs |-> [k \in DOMAIN l.tabs |-> Without(l.tabs[k], p)],
             front |-> [k \in DOMAIN l.tabs |-> FrontTab(Without(l.tabs[k], p), l.front[k])],
             leaf |-> l.leaf, split |-> l.split, root |-> l.root,
             hosts |-> l.hosts, hidden |-> Unhidden(l, p), active |-> l.active]
    BY <1>1, <1>2, RemovedFields
  <2> QED BY <2>1
<1>5. r = IF l.active = p THEN [q EXCEPT !.active = FirstPlaced(q)] ELSE q
  BY <1>2 DEF PanelClosed, Taken
<1>6. CASE l.active = p
  <2>1. PICK a : a = FirstPlaced(q)
    OBVIOUS
  <2>2. PICK r1 : r1 = [q EXCEPT !.active = a]
    OBVIOUS
  <2>3. r = r1
    BY <1>5, <1>6, <2>1, <2>2
  <2>4. /\ Sound(r1) /\ r1.active = a /\ r1.panels = q.panels /\ r1.tabs = q.tabs
        /\ r1.role = q.role /\ r1.front = q.front /\ AllKept(q, r1)
    BY <1>3, <2>2, ActiveChosen
  <2>5. /\ a \in q.panels \cup {None} /\ (a = None <=> q.panels = {})
        /\ \A g \in DOMAIN q.tabs : a \in ToSet(q.tabs[g]) => q.front[g] = a
    BY <1>3, <2>1, FirstPlacedIsShown
  <2>6. ActiveShown(r1)
    BY <2>4, <2>5 DEF ActiveShown
  <2>7. OthersKept(l, r1, p)
    BY <1>3, <2>4 DEF OthersKept, AllKept
  <2> QED BY <1>4, <2>3, <2>4, <2>5, <2>6, <2>7
<1>7. CASE l.active # p
  <2>1. r = q
    BY <1>5, <1>7
  <2>2. l.active # None /\ l.active \in l.panels
    BY DEF ActiveShown
  <2>3. q.active \in q.panels /\ q.active # None
    BY <1>4, <1>7, <2>2
  <2>4. ASSUME NEW g \in DOMAIN l.tabs, q.active \in ToSet(q.tabs[g])
        PROVE  q.front[g] = q.active
    <3>1. /\ l.tabs[g] \in Seq(DOMAIN Role) /\ IsInjective(l.tabs[g])
      BY <1>1 DEF IsLayout, PanelsPlacedOnce
    <3>2. ToSet(Without(l.tabs[g], p)) = ToSet(l.tabs[g]) \ {p}
      BY <3>1, TabRemoved
    <3>3. l.active \in ToSet(l.tabs[g]) /\ l.active \in ToSet(Without(l.tabs[g], p))
      BY <1>4, <2>4, <3>2
    <3>4. l.front[g] = l.active
      BY <3>3 DEF ActiveShown
    <3> QED BY <1>4, <3>3, <3>4 DEF FrontTab
  <2>5. ActiveShown(q)
    BY <1>4, <2>3, <2>4 DEF ActiveShown
  <2> QED BY <1>3, <1>4, <2>1, <2>3, <2>5
<1> QED BY <1>6, <1>7

-----------------------------------------------------------------------------
(* The layout.                                                              *)
IsState(l) == Sound(l) /\ ActiveShown(l) /\ l.active \in l.panels \cup {None}

LEMMA NewLayoutIsState ==
  ASSUME NEW role, NEW l, l = NewLayout(role)
  PROVE  /\ IsState(l) /\ l.panels = {} /\ l.tabs = Only(RootGroup, <<>>)
         /\ l.role = Only(RootGroup, role) /\ Nodes(l) = {RootNode}
<1>1. /\ l.panels = {} /\ l.groups = <<RootGroup>> /\ l.role = Only(RootGroup, role)
      /\ l.tabs = Only(RootGroup, <<>>) /\ l.front = Only(RootGroup, None)
      /\ l.leaf = Only(RootNode, RootGroup) /\ l.split = <<>> /\ l.root = RootNode
      /\ l.hosts = <<>> /\ l.hidden = <<>> /\ l.active = None
  BY DEF NewLayout
<1>2. /\ DOMAIN l.tabs = {RootGroup} /\ l.tabs[RootGroup] = <<>>
      /\ DOMAIN l.role = {RootGroup} /\ DOMAIN l.front = {RootGroup}
      /\ l.front[RootGroup] = None
      /\ DOMAIN l.leaf = {RootNode} /\ l.leaf[RootNode] = RootGroup
      /\ DOMAIN l.split = {} /\ DOMAIN l.hosts = {} /\ DOMAIN l.hidden = {}
  BY <1>1 DEF Only
<1>3. /\ ToSet(l.tabs[RootGroup]) = {} /\ ToSet(l.hidden) = {} /\ Hidden(l) = {}
  BY <1>1, <1>2 DEF ToSet, Hidden
<1>4. IsLayout(l)
  <2>1. ToSet(l.groups) = {RootGroup} /\ l.groups \in Seq({RootGroup})
    BY <1>1 DEF ToSet
  <2>2. l.tabs \in [{RootGroup} -> Seq(DOMAIN Role)]
    BY <1>1 DEF Only
  <2>3. l.hidden \in Seq(ToSet(l.hidden))
    BY <1>1
  <2>4. l = [panels |-> l.panels, groups |-> l.groups, role |-> l.role, tabs |-> l.tabs,
             front |-> l.front, leaf |-> l.leaf, split |-> l.split, root |-> l.root,
             hosts |-> l.hosts, hidden |-> l.hidden, active |-> l.active]
    BY DEF NewLayout
  <2>5. l.panels \subseteq DOMAIN Role
    BY <1>1
  <2> QED BY <1>2, <2>1, <2>2, <2>3, <2>4, <2>5, Zenon DEF IsLayout
<1>5. PanelsPlacedOnce(l)
  <2>1. IsInjective(l.tabs[RootGroup])
    BY <1>2 DEF IsInjective
  <2> QED BY <1>1, <1>2, <1>3, <2>1 DEF PanelsPlacedOnce
<1>6. FrontsFit(l)
  BY <1>2 DEF FrontsFit
<1>7. Nodes(l) = {RootNode} /\ Roots(l) = {RootNode}
  BY <1>1, <1>2 DEF Nodes, Roots
<1>8. Tree(l)
  <2>1. GroupsHaveOneLeaf(l)
    BY <1>2 DEF GroupsHaveOneLeaf, HasLeaf
  <2>2. NodesOwnedOnce(l)
    BY <1>2, <1>7 DEF NodesOwnedOnce
  <2>3. NodesReachable(l)
    BY <1>7 DEF NodesReachable
  <2> QED BY <2>1, <2>2, <2>3 DEF Tree
<1>9. ActiveShown(l)
  BY <1>1, <1>2, <1>3 DEF ActiveShown
<1> QED BY <1>1, <1>4, <1>5, <1>6, <1>7, <1>8, <1>9 DEF IsState, Sound

(* Each mutation that applies to a state makes a state.                     *)
LEMMA MutationsMakeStates ==
  ASSUME NEW l, IsState(l), NEW p \in l.panels
  PROVE  /\ IsState(Activated(l, p)) /\ IsState(PanelClosed(l, p))
         /\ \A e : Role[p] = "tool" => IsState(AutoHidden(l, p, e))
         /\ \A g \in DOMAIN l.tabs, i \in Nat :
              l.role[g] = Role[p] => IsState(MovedToGroup(l, p, g, i))
         /\ \A g, n, h : CanFloat(l, g, n, h) => IsState(Floated(l, p, g, n, h))
         /\ \A g, n, k, s : \A first \in BOOLEAN :
              CanSplit(l, g, n, k, s) => IsState(SplitToGroup(l, p, g, n, k, s, first))
<1>1. Sound(l) /\ ActiveShown(l) /\ l.active \in l.panels \cup {None}
  BY DEF IsState
<1>2. IsState(Activated(l, p))
  BY <1>1, ActivatedIsSound DEF IsState
<1>3. IsState(PanelClosed(l, p))
  BY <1>1, ClosedIsSound DEF IsState
<1>4. ASSUME NEW e, Role[p] = "tool" PROVE IsState(AutoHidden(l, p, e))
  BY <1>1, <1>4, AutoHiddenIsSound DEF IsState
<1>5. ASSUME NEW g \in DOMAIN l.tabs, NEW i \in Nat, l.role[g] = Role[p]
      PROVE  IsState(MovedToGroup(l, p, g, i))
  BY <1>1, <1>5, MovedIsSound DEF IsState
<1>6. ASSUME NEW g, NEW n, NEW h, CanFloat(l, g, n, h) PROVE IsState(Floated(l, p, g, n, h))
  BY <1>1, <1>6, FloatPanelIsSound DEF IsState
<1>7. ASSUME NEW g, NEW n, NEW k, NEW s, NEW first \in BOOLEAN, CanSplit(l, g, n, k, s)
      PROVE  IsState(SplitToGroup(l, p, g, n, k, s, first))
  BY <1>1, <1>7, SplitIsSound DEF IsState
<1> QED BY <1>2, <1>3, <1>4, <1>5, <1>6, <1>7

LEMMA StateIsWellFormed == ASSUME NEW l, IsState(l) PROVE WellFormed(l)
BY SoundIsWellFormed DEF IsState

(* An empty group beside another changes no front.                          *)
LEMMA GroupAddedMakesState ==
  ASSUME NEW l, IsState(l), NEW g, NEW role, NEW n, NEW k, NEW s, NEW first \in BOOLEAN,
         CanSplit(l, g, n, k, s)
  PROVE  IsState(Beside(WithGroup(l, g, role, <<>>, n), k, n, s, first))
<1>1. PICK r : r = Beside(WithGroup(l, g, role, <<>>, n), k, n, s, first)
  OBVIOUS
<1>2. Sound(l) /\ ActiveShown(l) /\ l.active \in l.panels \cup {None}
  BY DEF IsState
<1>3. /\ Sound(r) /\ r.panels = l.panels /\ r.active = l.active
      /\ r.tabs = Extended(l.tabs, g, <<>>) /\ r.front = Extended(l.front, g, None)
  BY <1>1, <1>2, BesideIsSound
<1>4. ActiveShown(r)
  <2>1. ToSet(<<>>) = {}
    BY DEF ToSet
  <2>2. DOMAIN l.front = DOMAIN l.tabs /\ g \notin DOMAIN l.tabs
    BY <1>2 DEF Sound, IsLayout, CanSplit, Fresh
  <2> QED BY <1>2, <1>3, <2>1, <2>2 DEF ActiveShown, Extended
<1> QED BY <1>1, <1>2, <1>3, <1>4 DEF IsState

LayoutInv == IsState(layout)

LEMMA LayoutInitially == Init => LayoutInv
BY NewLayoutIsState DEF Init, LayoutInv

LEMMA LayoutStep == LayoutInv /\ [Next]_vars => LayoutInv'
<1> SUFFICES ASSUME IsState(layout), [Next]_vars PROVE IsState(layout')
  BY DEF LayoutInv
<1>1. PICK l : l = layout
  OBVIOUS
<1>2. IsState(l) /\ Sound(l)
  BY <1>1 DEF IsState
<1>3. CASE Activate
  BY <1>1, <1>2, <1>3, MutationsMakeStates DEF Activate, Becomes
<1>4. CASE ClosePanel
  BY <1>1, <1>2, <1>4, MutationsMakeStates DEF ClosePanel, Becomes
<1>5. CASE AutoHide
  BY <1>1, <1>2, <1>5, MutationsMakeStates DEF AutoHide, Becomes
<1>6. CASE MoveToGroup
  <2>1. PICK p \in l.panels, g \in DOMAIN l.tabs :
          /\ l.role[g] = Role[p]
          /\ \E i \in 0..Len(l.tabs[g]) : layout' = MovedToGroup(l, p, g, i)
    BY <1>1, <1>6 DEF MoveToGroup, Becomes
  <2> QED BY <1>2, <2>1, MutationsMakeStates
<1>7. CASE FloatPanel
  BY <1>1, <1>2, <1>7, MutationsMakeStates DEF FloatPanel, Becomes
<1>8. CASE SplitPanel
  BY <1>1, <1>2, <1>8, MutationsMakeStates DEF SplitPanel, Becomes
<1>9. CASE AddDockedGroup
  BY <1>1, <1>2, <1>9, GroupAddedMakesState DEF AddDockedGroup, Becomes
<1>10. CASE AddPanel
  <2>1. PICK p \in Panel \ l.panels, g \in DOMAIN l.tabs :
          /\ l.role[g] = Role[p]
          /\ \E i \in 0..Len(l.tabs[g]) : layout' = PanelAdded(l, p, g, i)
    BY <1>1, <1>10 DEF AddPanel
  <2>2. p \in DOMAIN Role /\ p \notin l.panels
    BY <2>1, LayoutAssumption DEF LayoutAssumption
  <2>0. PICK r : r = layout'
    OBVIOUS
  <2>3. PICK i \in 0..Len(l.tabs[g]) : r = PanelAdded(l, p, g, i)
    BY <2>0, <2>1
  <2>4. Sound(r) /\ ActiveShown(r) /\ r.panels = l.panels \cup {p} /\ r.active = p
    BY <1>2, <2>1, <2>2, <2>3, AddedIsSound
  <2> QED BY <2>0, <2>4 DEF IsState
<1>11. CASE Replace
  <2>1. PICK r \in Restorable : WellFormed(r) /\ layout' = r
    BY <1>11 DEF Replace, Becomes, Valid
  <2>2. IsLayout(r) /\ ActiveShown(r)
    BY LayoutAssumption DEF LayoutAssumption
  <2>3. Sound(r)
    BY <2>1, <2>2, WellFormedIsSound
  <2>4. r.active \in r.panels \cup {None}
    BY <2>1 DEF WellFormed, FrontsInTabs
  <2> QED BY <2>1, <2>2, <2>3, <2>4 DEF IsState
<1>12. CASE UNCHANGED vars
  BY <1>1, <1>2, <1>12 DEF vars
<1> QED BY <1>3, <1>4, <1>5, <1>6, <1>7, <1>8, <1>9, <1>10, <1>11, <1>12 DEF Next

(* A layout with the groups, nodes and hosts of another fits as it does.    *)
LEMMA SameTreeFits ==
  ASSUME NEW l, NEW r, TreeFits(l), DOMAIN r.tabs = DOMAIN l.tabs, r.leaf = l.leaf,
         r.split = l.split, r.hosts = l.hosts
  PROVE  TreeFits(r)
BY DEF TreeFits, Nodes

(* A mutation in place adds no group, node or host...                       *)
LEMMA InPlaceKeepsTree ==
  ASSUME NEW l, Sound(l), TreeFits(l), NEW p \in l.panels
  PROVE  /\ TreeFits(Activated(l, p)) /\ TreeFits(PanelClosed(l, p))
         /\ \A e : TreeFits(AutoHidden(l, p, e))
         /\ \A g \in DOMAIN l.tabs, i \in Nat : TreeFits(MovedToGroup(l, p, g, i))
         /\ Activated(l, p).panels = l.panels
         /\ \A e : AutoHidden(l, p, e).panels = l.panels
         /\ \A g \in DOMAIN l.tabs, i \in Nat : MovedToGroup(l, p, g, i).panels = l.panels
<1>1. l = [panels |-> l.panels, groups |-> l.groups, role |-> l.role, tabs |-> l.tabs,
           front |-> l.front, leaf |-> l.leaf, split |-> l.split, root |-> l.root,
           hosts |-> l.hosts, hidden |-> l.hidden, active |-> l.active]
  BY DEF Sound, IsLayout
<1> DEFINE Same(r) == /\ DOMAIN r.tabs = DOMAIN l.tabs /\ r.leaf = l.leaf
                      /\ r.split = l.split /\ r.hosts = l.hosts
<1>2. ASSUME NEW r, Same(r) PROVE TreeFits(r)
  BY <1>2, SameTreeFits
<1>3. Same(Activated(l, p)) /\ Activated(l, p).panels = l.panels
  BY <1>1 DEF Activated
<1>4. PICK d : d = Detached(l, p)
  OBVIOUS
<1>5. /\ Same(d) /\ d.panels = l.panels
      /\ d = [panels |-> d.panels, groups |-> d.groups, role |-> d.role, tabs |-> d.tabs,
              front |-> d.front, leaf |-> d.leaf, split |-> d.split, root |-> d.root,
              hosts |-> d.hosts, hidden |-> d.hidden, active |-> d.active]
  BY <1>1, <1>4 DEF Detached
<1>6. Same(PanelClosed(l, p))
  <2>1. PICK c : c = [d EXCEPT !.panels = @ \ {p}]
    OBVIOUS
  <2>2. /\ Same(c)
        /\ c = [panels |-> c.panels, groups |-> c.groups, role |-> c.role, tabs |-> c.tabs,
                front |-> c.front, leaf |-> c.leaf, split |-> c.split, root |-> c.root,
                hosts |-> c.hosts, hidden |-> c.hidden, active |-> c.active]
    BY <1>5, <2>1
  <2>3. PanelClosed(l, p) = c \/ PanelClosed(l, p) = [c EXCEPT !.active = FirstPlaced(c)]
    BY <1>4, <2>1 DEF PanelClosed
  <2>4. ASSUME NEW a PROVE Same([c EXCEPT !.active = a])
    BY <2>2
  <2> QED BY <2>2, <2>3, <2>4
<1>7. ASSUME NEW e PROVE Same(AutoHidden(l, p, e)) /\ AutoHidden(l, p, e).panels = l.panels
  BY <1>4, <1>5 DEF AutoHidden
<1>8. ASSUME NEW g \in DOMAIN l.tabs, NEW i \in Nat
      PROVE  Same(MovedToGroup(l, p, g, i)) /\ MovedToGroup(l, p, g, i).panels = l.panels
  <2>1. PICK t : t = InsertAt(d.tabs[g], (IF i < Len(d.tabs[g]) THEN i ELSE Len(d.tabs[g])) + 1, p)
    OBVIOUS
  <2>2. MovedToGroup(l, p, g, i) = [d EXCEPT !.tabs[g] = t, !.front[g] = p, !.active = p]
    BY <1>4, <2>1 DEF MovedToGroup
  <2> QED BY <1>5, <2>2
<1> HIDE DEF Same
<1> QED BY <1>2, <1>3, <1>6, <1>7, <1>8

(* ... and so, of the layouts a mutation makes, those fit that Validate     *)
(* let through.                                                             *)
LayoutTreeFits == TreeFits(layout)

LEMMA TreeStaysFit == Spec => []LayoutTreeFits
<1>1. Init => LayoutTreeFits
  <2> SUFFICES ASSUME Init PROVE TreeFits(layout)
    BY DEF LayoutTreeFits
  <2>1. PICK role : layout = NewLayout(role)
    BY DEF Init
  <2>2. PICK l : l = layout
    OBVIOUS
  <2>3. /\ l.tabs = Only(RootGroup, <<>>) /\ l.leaf = Only(RootNode, RootGroup)
        /\ l.split = <<>> /\ l.hosts = <<>>
    BY <2>1, <2>2 DEF NewLayout
  <2>4. /\ DOMAIN l.tabs = {RootGroup} /\ Nodes(l) = {RootNode} /\ DOMAIN l.hosts = {}
    BY <2>3 DEF Only, Nodes
  <2>5. Cardinality({RootGroup}) = 1 /\ Cardinality({RootNode}) = 1 /\ Cardinality({}) = 0
    BY FS_Singleton, FS_EmptySet
  <2> QED BY <2>2, <2>4, <2>5, LayoutAssumption DEF LayoutAssumption, TreeFits
<1>2. LayoutInv /\ LayoutTreeFits /\ [Next]_vars => LayoutTreeFits'
  <2> SUFFICES ASSUME LayoutInv, TreeFits(layout), [Next]_vars PROVE TreeFits(layout')
    BY DEF LayoutTreeFits
  <2>1. CASE \E l : Becomes(l)
    BY <2>1 DEF Becomes, Valid
  <2>2. CASE AddPanel
    <3>1. PICK l, r : l = layout /\ r = layout'
      OBVIOUS
    <3>2. PICK p, g, i : r = PanelAdded(l, p, g, i)
      BY <2>2, <3>1 DEF AddPanel
    <3>3. l = [panels |-> l.panels, groups |-> l.groups, role |-> l.role, tabs |-> l.tabs,
               front |-> l.front, leaf |-> l.leaf, split |-> l.split, root |-> l.root,
               hosts |-> l.hosts, hidden |-> l.hidden, active |-> l.active]
      BY <3>1 DEF LayoutInv, IsState, Sound, IsLayout
    <3>4. /\ DOMAIN r.tabs = DOMAIN l.tabs /\ r.leaf = l.leaf
          /\ r.split = l.split /\ r.hosts = l.hosts
      BY <3>2, <3>3 DEF PanelAdded
    <3> QED BY <3>1, <3>4, SameTreeFits
  <2>3. CASE UNCHANGED vars
    BY <2>3 DEF vars
  <2> QED
    BY <2>1, <2>2, <2>3
       DEF Next, Activate, ClosePanel, AutoHide, MoveToGroup, FloatPanel, SplitPanel,
           AddDockedGroup, Replace
<1> QED BY <1>1, <1>2, LayoutInitially, LayoutStep, PTL DEF Spec

(* Every reachable layout is a state, so that it is well formed and its     *)
(* active panel is shown, and each mutation that applies makes a layout     *)
(* that Validate accepts unless a limit stands against it.                  *)
THEOREM LayoutStaysWellFormed == Spec => []LayoutsStayWellFormed
<1>1. LayoutInv /\ LayoutTreeFits => LayoutsStayWellFormed
  <2> SUFFICES ASSUME IsState(layout), TreeFits(layout) PROVE LayoutsStayWellFormed
    BY DEF LayoutInv, LayoutTreeFits
  <2>1. LayoutIsSound
    BY StateIsWellFormed DEF LayoutIsSound
  <2>2. ActiveIsShown
    BY DEF IsState, ActiveIsShown
  <2>3. MutationsStayValid
    <3> SUFFICES ASSUME NEW p \in layout.panels
                 PROVE  /\ PanelsFit(PanelClosed(layout, p)) => Valid(PanelClosed(layout, p))
                        /\ PanelsFit(layout) =>
                             /\ Valid(Activated(layout, p))
                             /\ Role[p] = "tool" => \A e \in Edge : Valid(AutoHidden(layout, p, e))
                             /\ \A g \in DOMAIN layout.tabs : layout.role[g] = Role[p] =>
                                  \A i \in 0..Len(layout.tabs[g]) :
                                    Valid(MovedToGroup(layout, p, g, i))
                             /\ \A g \in Group, n \in Node, h \in Host :
                                  CanFloat(layout, g, n, h) /\ TreeFits(Floated(layout, p, g, n, h))
                                    => Valid(Floated(layout, p, g, n, h))
                             /\ \A g, k \in Group, n, s \in Node, first \in BOOLEAN :
                                  CanSplit(layout, g, n, k, s)
                                  /\ TreeFits(SplitToGroup(layout, p, g, n, k, s, first))
                                    => Valid(SplitToGroup(layout, p, g, n, k, s, first))
      BY DEF MutationsStayValid
    <3>0. PICK l : l = layout
      OBVIOUS
    <3>1. \A g \in DOMAIN l.tabs : \A i \in 0..Len(l.tabs[g]) : i \in Nat
      OBVIOUS
    <3>2. IsState(l) /\ Sound(l) /\ TreeFits(l) /\ p \in l.panels
      BY <3>0 DEF IsState
    <3>3. Valid(PanelClosed(l, p)) \/ ~PanelsFit(PanelClosed(l, p))
      BY <3>2, InPlaceKeepsTree, MutationsMakeStates, StateIsWellFormed DEF Valid
    <3>4. ASSUME PanelsFit(l)
          PROVE  /\ Valid(Activated(l, p))
                 /\ Role[p] = "tool" => \A e \in Edge : Valid(AutoHidden(l, p, e))
                 /\ \A g \in DOMAIN l.tabs : l.role[g] = Role[p] =>
                      \A i \in 0..Len(l.tabs[g]) : Valid(MovedToGroup(l, p, g, i))
      BY <3>1, <3>2, <3>4, InPlaceKeepsTree, MutationsMakeStates, StateIsWellFormed
         DEF Valid, PanelsFit
    <3>5. ASSUME NEW g, NEW n, NEW h, CanFloat(l, g, n, h), PanelsFit(l),
                 TreeFits(Floated(l, p, g, n, h))
          PROVE  Valid(Floated(l, p, g, n, h))
      <4>1. IsState(Floated(l, p, g, n, h))
        BY <3>2, <3>5, MutationsMakeStates
      <4>2. Floated(l, p, g, n, h).panels = l.panels
        BY <3>2 DEF Sound, IsLayout, Floated, WithGroup, Detached
      <4> QED BY <3>5, <4>1, <4>2, StateIsWellFormed DEF Valid, PanelsFit
    <3>6. ASSUME NEW g, NEW k, NEW n, NEW s, NEW first \in BOOLEAN, CanSplit(l, g, n, k, s),
                 PanelsFit(l), TreeFits(SplitToGroup(l, p, g, n, k, s, first))
          PROVE  Valid(SplitToGroup(l, p, g, n, k, s, first))
      <4>1. IsState(SplitToGroup(l, p, g, n, k, s, first))
        BY <3>2, <3>6, MutationsMakeStates
      <4>2. SplitToGroup(l, p, g, n, k, s, first).panels = l.panels
        BY <3>2 DEF Sound, IsLayout, SplitToGroup, Beside, WithGroup, Detached
      <4> QED BY <3>6, <4>1, <4>2, StateIsWellFormed DEF Valid, PanelsFit
    <3> QED BY <3>0, <3>3, <3>4, <3>5, <3>6
  <2> QED BY <2>1, <2>2, <2>3 DEF LayoutsStayWellFormed
<1> QED BY <1>1, LayoutInitially, LayoutStep, TreeStaysFit, PTL DEF Spec

(* Each mutation moves the panel it is about and no other.                  *)
LEMMA MutationsKeepOthers ==
  ASSUME NEW l, IsState(l), NEW p \in l.panels
  PROVE  /\ AllKept(l, Activated(l, p)) /\ OthersKept(l, PanelClosed(l, p), p)
         /\ \A e : Role[p] = "tool" => OthersKept(l, AutoHidden(l, p, e), p)
         /\ \A g \in DOMAIN l.tabs, i \in Nat :
              l.role[g] = Role[p] => OthersKept(l, MovedToGroup(l, p, g, i), p)
         /\ \A g, n, h : CanFloat(l, g, n, h) => OthersKept(l, Floated(l, p, g, n, h), p)
         /\ \A g, n, k, s : \A first \in BOOLEAN :
              CanSplit(l, g, n, k, s) => OthersKept(l, SplitToGroup(l, p, g, n, k, s, first), p)
<1>1. Sound(l) /\ ActiveShown(l) /\ l.active \in l.panels \cup {None}
  BY DEF IsState
<1>2. AllKept(l, Activated(l, p))
  BY <1>1, ActivatedIsSound
<1>3. OthersKept(l, PanelClosed(l, p), p)
  BY <1>1, ClosedIsSound
<1>4. ASSUME NEW e, Role[p] = "tool" PROVE OthersKept(l, AutoHidden(l, p, e), p)
  BY <1>1, <1>4, AutoHiddenIsSound
<1>5. ASSUME NEW g \in DOMAIN l.tabs, NEW i \in Nat, l.role[g] = Role[p]
      PROVE  OthersKept(l, MovedToGroup(l, p, g, i), p)
  BY <1>1, <1>5, MovedIsSound
<1>6. ASSUME NEW g, NEW n, NEW h, CanFloat(l, g, n, h)
      PROVE  OthersKept(l, Floated(l, p, g, n, h), p)
  BY <1>1, <1>6, FloatPanelIsSound
<1>7. ASSUME NEW g, NEW n, NEW k, NEW s, NEW first \in BOOLEAN, CanSplit(l, g, n, k, s)
      PROVE  OthersKept(l, SplitToGroup(l, p, g, n, k, s, first), p)
  BY <1>1, <1>7, SplitIsSound
<1> QED BY <1>2, <1>3, <1>4, <1>5, <1>6, <1>7

OneMoves ==
  \E p \in layout.panels \cup layout'.panels \cup {None} :
    \A q \in (layout.panels \cap layout'.panels) \ {p} : Place(layout', q) = Place(layout, q)

LEMMA OneMovesAtMost == ASSUME LayoutInv, Next PROVE Replace \/ OneMoves
<1>1. PICK l : l = layout
  OBVIOUS
<1>2. IsState(l) /\ Sound(l)
  BY <1>1 DEF IsState, LayoutInv
<1>3. ASSUME NEW p \in l.panels \cup layout'.panels, OthersKept(l, layout', p) PROVE OneMoves
  BY <1>1, <1>3 DEF OneMoves, OthersKept
<1>4. ASSUME AllKept(l, layout') PROVE OneMoves
  BY <1>1, <1>4 DEF OneMoves, AllKept
<1>5. CASE Activate
  BY <1>1, <1>2, <1>4, <1>5, MutationsKeepOthers DEF Activate, Becomes
<1>6. CASE ClosePanel
  BY <1>1, <1>2, <1>3, <1>6, MutationsKeepOthers DEF ClosePanel, Becomes
<1>7. CASE AutoHide
  BY <1>1, <1>2, <1>3, <1>7, MutationsKeepOthers DEF AutoHide, Becomes
<1>8. CASE MoveToGroup
  <2>1. PICK p \in l.panels, g \in DOMAIN l.tabs :
          /\ l.role[g] = Role[p]
          /\ \E i \in 0..Len(l.tabs[g]) : layout' = MovedToGroup(l, p, g, i)
    BY <1>1, <1>8 DEF MoveToGroup, Becomes
  <2>2. OthersKept(l, layout', p)
    BY <1>2, <2>1, MutationsKeepOthers
  <2> QED BY <1>3, <2>2
<1>9. CASE FloatPanel
  BY <1>1, <1>2, <1>3, <1>9, MutationsKeepOthers DEF FloatPanel, Becomes
<1>10. CASE SplitPanel
  BY <1>1, <1>2, <1>3, <1>10, MutationsKeepOthers DEF SplitPanel, Becomes
<1>11. CASE AddDockedGroup
  <2>0. PICK r : r = layout'
    OBVIOUS
  <2>1. PICK g \in Group, k \in Group, n \in Node, s \in Node, role \in {"document", "tool"},
             first \in BOOLEAN :
          /\ CanSplit(l, g, n, k, s)
          /\ r = Beside(WithGroup(l, g, role, <<>>, n), k, n, s, first)
    BY <1>1, <1>11, <2>0 DEF AddDockedGroup, Becomes
  <2>2. AllKept(l, r)
    BY <1>2, <2>1, BesideIsSound
  <2> QED BY <1>4, <2>0, <2>2
<1>12. CASE AddPanel
  <2>1. PICK p \in Panel \ l.panels, g \in DOMAIN l.tabs :
          /\ l.role[g] = Role[p]
          /\ \E i \in 0..Len(l.tabs[g]) : layout' = PanelAdded(l, p, g, i)
    BY <1>1, <1>12 DEF AddPanel
  <2>2. p \in DOMAIN Role /\ p \notin l.panels
    BY <2>1, LayoutAssumption DEF LayoutAssumption
  <2>0. PICK r : r = layout'
    OBVIOUS
  <2>3. PICK i \in 0..Len(l.tabs[g]) : r = PanelAdded(l, p, g, i)
    BY <2>0, <2>1
  <2>4. OthersKept(l, r, p) /\ r.panels = l.panels \cup {p}
    BY <1>2, <2>1, <2>2, <2>3, AddedIsSound
  <2> QED BY <1>3, <2>0, <2>4
<1> QED BY <1>5, <1>6, <1>7, <1>8, <1>9, <1>10, <1>11, <1>12 DEF Next

(* A mutation of the layout moves one panel at most, and every other stays  *)
(* in its group or at its edge; so does a drag.                             *)
THEOREM OnePanelMoves ==
  ASSUME DragAssumption, OnlyEnds PROVE Spec /\ DragSpec => OnlyOnePanelMoves
<1>1. LayoutInv /\ [Next]_vars => [Replace \/ OneMoves]_layout
  BY OneMovesAtMost DEF vars
<1>2. Spec => OthersStay
  BY <1>1, LayoutInitially, LayoutStep, PTL DEF Spec, OthersStay, OneMoves
<1> QED BY <1>2, DragMovesOnePanel, PTL DEF OnlyOnePanelMoves

-----------------------------------------------------------------------------
(* The application.                                                         *)

(* The tools are known, and so are the groups the commands dock to.         *)
AtHome(l) ==
  /\ explorer \in l.panels /\ output \in l.panels
  /\ {documents, left, bottom} \subseteq DOMAIN l.tabs
  /\ l.role[documents] = "document" /\ l.role[left] = "tool" /\ l.role[bottom] = "tool"

AppInv == IsState(workspace) /\ AtHome(workspace)

LEMMA AppNames ==
  /\ mainDocument # readme /\ mainDocument # explorer /\ mainDocument # output
  /\ readme # explorer /\ readme # output /\ explorer # output
  /\ documents # left /\ documents # bottom /\ left # bottom
  /\ documents # floating /\ left # floating /\ bottom # floating
  /\ n100 # n200 /\ n100 # n201 /\ n100 # n300 /\ n100 # n301
  /\ n200 # n201 /\ n200 # n300 /\ n200 # n301 /\ n201 # n300 /\ n201 # n301 /\ n300 # n301
  /\ documents = RootGroup /\ n100 = RootNode
  /\ AppPanels \subseteq DOMAIN Role
  /\ Role[mainDocument] = "document" /\ Role[readme] = "document"
  /\ Role[explorer] = "tool" /\ Role[output] = "tool"
<1>1. /\ mainDocument # readme /\ mainDocument # explorer /\ mainDocument # output
      /\ readme # explorer /\ readme # output /\ explorer # output
  BY ApplicationAssumption DEF ApplicationAssumption, IsInjective
<1>2. /\ documents # left /\ documents # bottom /\ left # bottom
      /\ documents # floating /\ left # floating /\ bottom # floating
  BY ApplicationAssumption DEF ApplicationAssumption, IsInjective
<1>3. /\ n100 # n200 /\ n100 # n201 /\ n100 # n300 /\ n100 # n301
      /\ n200 # n201 /\ n200 # n300 /\ n200 # n301 /\ n201 # n300 /\ n201 # n301 /\ n300 # n301
  BY ApplicationAssumption DEF ApplicationAssumption, IsInjective
<1>4. /\ documents = RootGroup /\ n100 = RootNode
      /\ AppPanels \subseteq DOMAIN Role
      /\ Role[mainDocument] = "document" /\ Role[readme] = "document"
      /\ Role[explorer] = "tool" /\ Role[output] = "tool"
  BY ApplicationAssumption DEF ApplicationAssumption, AppPanels
<1> QED BY <1>1, <1>2, <1>3, <1>4

LEMMA DefaultIsAtHome == IsState(DefaultLayout) /\ AtHome(DefaultLayout)
<1>1. PICK l0, role : l0 = NewLayout("document") /\ role = "tool"
  OBVIOUS
<1>0. PICK yes \in BOOLEAN : yes = TRUE
  OBVIOUS
<1>16. PICK no \in BOOLEAN : no = FALSE
  OBVIOUS
<1>2. PICK l1 : l1 = Beside(WithGroup(l0, left, role, <<>>, n200), documents, n200, n300, yes)
  OBVIOUS
<1>3. PICK l2 : l2 = Beside(WithGroup(l1, bottom, role, <<>>, n201), documents, n201, n301, no)
  OBVIOUS
<1>4. PICK l3 : l3 = PanelAdded(l2, mainDocument, documents, 0)
  OBVIOUS
<1>5. PICK l4 : l4 = PanelAdded(l3, readme, documents, 1)
  OBVIOUS
<1>6. PICK l5 : l5 = PanelAdded(l4, explorer, left, 0)
  OBVIOUS
<1>7. PICK l6 : l6 = PanelAdded(l5, output, bottom, 0)
  OBVIOUS
<1>8. l6 = DefaultLayout
  BY <1>0, <1>1, <1>2, <1>3, <1>4, <1>5, <1>6, <1>7, <1>16
     DEF DefaultLayout, TwoDocuments, EmptyGroups, BesideDocuments
<1>9. /\ Sound(l0) /\ l0.panels = {} /\ DOMAIN l0.tabs = {documents} /\ l0.tabs[documents] = <<>>
      /\ l0.role[documents] = "document" /\ Nodes(l0) = {n100}
  <2>1. /\ IsState(l0) /\ l0.panels = {} /\ l0.tabs = Only(RootGroup, <<>>)
        /\ l0.role = Only(RootGroup, "document") /\ Nodes(l0) = {RootNode}
    BY <1>1, NewLayoutIsState
  <2>2. Sound(l0)
    BY <2>1 DEF IsState
  <2> QED BY <2>1, <2>2, AppNames DEF Only
<1>10. /\ Sound(l1) /\ l1.panels = {} /\ DOMAIN l1.tabs = {documents, left}
       /\ l1.tabs[documents] = <<>> /\ l1.tabs[left] = <<>>
       /\ l1.role[documents] = "document" /\ l1.role[left] = "tool"
       /\ Nodes(l1) = {n100, n200, n300}
  <2>1. CanSplit(l0, left, n200, documents, n300)
    BY <1>9, AppNames DEF CanSplit, Fresh
  <2>0. Sound(l0)
    BY <1>9
  <2>2. DOMAIN l0.role = {documents}
    BY <1>9 DEF Sound, IsLayout
  <2>3. /\ Sound(l1) /\ l1.panels = l0.panels
        /\ l1.tabs = Extended(l0.tabs, left, <<>>) /\ l1.role = Extended(l0.role, left, role)
        /\ Nodes(l1) = Nodes(l0) \cup {n200, n300}
    BY <1>2, <2>0, <2>1, BesideIsSound
  <2> QED BY <1>1, <1>9, <2>2, <2>3, AppNames DEF Extended
<1>11. /\ Sound(l2) /\ l2.panels = {} /\ DOMAIN l2.tabs = {documents, left, bottom}
       /\ l2.tabs[documents] = <<>> /\ l2.tabs[left] = <<>> /\ l2.tabs[bottom] = <<>>
       /\ l2.role[documents] = "document" /\ l2.role[left] = "tool" /\ l2.role[bottom] = "tool"
  <2>1. CanSplit(l1, bottom, n201, documents, n301)
    BY <1>10, AppNames DEF CanSplit, Fresh
  <2>0. Sound(l1)
    BY <1>10
  <2>2. DOMAIN l1.role = {documents, left}
    BY <1>10 DEF Sound, IsLayout
  <2>3. /\ Sound(l2) /\ l2.panels = l1.panels
        /\ l2.tabs = Extended(l1.tabs, bottom, <<>>)
        /\ l2.role = Extended(l1.role, bottom, role)
    BY <1>3, <2>0, <2>1, BesideIsSound
  <2> QED BY <1>1, <1>10, <2>2, <2>3, AppNames DEF Extended
<1>12. /\ Sound(l3) /\ l3.panels = {mainDocument} /\ DOMAIN l3.tabs = {documents, left, bottom}
       /\ Len(l3.tabs[documents]) = 1 /\ l3.tabs[left] = <<>> /\ l3.tabs[bottom] = <<>>
       /\ l3.role = l2.role
  <2>1. mainDocument \in DOMAIN Role /\ mainDocument \notin l2.panels
        /\ l2.role[documents] = Role[mainDocument] /\ 0 \in 0..Len(l2.tabs[documents])
    BY <1>11, AppNames DEF AppPanels
  <2>2. /\ Sound(l3) /\ l3.panels = l2.panels \cup {mainDocument}
        /\ DOMAIN l3.tabs = DOMAIN l2.tabs /\ l3.role = l2.role
        /\ \A k \in DOMAIN l2.tabs \ {documents} : l3.tabs[k] = l2.tabs[k]
        /\ Len(l3.tabs[documents]) = Len(l2.tabs[documents]) + 1
    <3>1. Sound(l2) /\ documents \in DOMAIN l2.tabs
      BY <1>11
    <3> QED BY <1>4, <2>1, <3>1, AddedIsSound
  <2> QED BY <1>11, <2>2, AppNames
<1>13. /\ Sound(l4) /\ l4.panels = {mainDocument, readme}
       /\ DOMAIN l4.tabs = {documents, left, bottom}
       /\ l4.tabs[left] = <<>> /\ l4.tabs[bottom] = <<>> /\ l4.role = l2.role
  <2>1. readme \in DOMAIN Role /\ readme \notin l3.panels
        /\ l3.role[documents] = Role[readme] /\ 1 \in 0..Len(l3.tabs[documents])
    BY <1>11, <1>12, AppNames DEF AppPanels
  <2>2. /\ Sound(l4) /\ l4.panels = l3.panels \cup {readme}
        /\ DOMAIN l4.tabs = DOMAIN l3.tabs /\ l4.role = l3.role
        /\ \A k \in DOMAIN l3.tabs \ {documents} : l4.tabs[k] = l3.tabs[k]
    <3>1. Sound(l3) /\ documents \in DOMAIN l3.tabs
      BY <1>12
    <3> QED BY <1>5, <2>1, <3>1, AddedIsSound
  <2> QED BY <1>12, <2>2, AppNames
<1>14. /\ Sound(l5) /\ l5.panels = {mainDocument, readme, explorer}
       /\ DOMAIN l5.tabs = {documents, left, bottom} /\ l5.tabs[bottom] = <<>>
       /\ l5.role = l2.role
  <2>1. explorer \in DOMAIN Role /\ explorer \notin l4.panels
        /\ l4.role[left] = Role[explorer] /\ 0 \in 0..Len(l4.tabs[left])
    BY <1>11, <1>13, AppNames DEF AppPanels
  <2>2. /\ Sound(l5) /\ l5.panels = l4.panels \cup {explorer}
        /\ DOMAIN l5.tabs = DOMAIN l4.tabs /\ l5.role = l4.role
        /\ \A k \in DOMAIN l4.tabs \ {left} : l5.tabs[k] = l4.tabs[k]
    <3>1. Sound(l4) /\ left \in DOMAIN l4.tabs
      BY <1>13
    <3> QED BY <1>6, <2>1, <3>1, AddedIsSound
  <2> QED BY <1>13, <2>2, AppNames
<1>15. /\ Sound(l6) /\ ActiveShown(l6) /\ l6.active = output
       /\ l6.panels = {mainDocument, readme, explorer, output}
       /\ DOMAIN l6.tabs = {documents, left, bottom} /\ l6.role = l2.role
  <2>1. output \in DOMAIN Role /\ output \notin l5.panels
        /\ l5.role[bottom] = Role[output] /\ 0 \in 0..Len(l5.tabs[bottom])
    BY <1>11, <1>14, AppNames DEF AppPanels
  <2>2. /\ Sound(l6) /\ ActiveShown(l6) /\ l6.panels = l5.panels \cup {output}
        /\ l6.active = output /\ DOMAIN l6.tabs = DOMAIN l5.tabs /\ l6.role = l5.role
    <3>1. Sound(l5) /\ bottom \in DOMAIN l5.tabs
      BY <1>14
    <3> QED BY <1>7, <2>1, <3>1, AddedIsSound
  <2> QED BY <1>14, <2>2
<1> QED BY <1>8, <1>11, <1>15 DEF IsState, AtHome

(* Every command leaves the tools and the groups.                           *)
LEMMA CommandsStayAtHome ==
  ASSUME NEW l, IsState(l), AtHome(l), NEW p \in l.panels
  PROVE  /\ AtHome(Activated(l, p))
         /\ p = readme => AtHome(PanelClosed(l, p))
         /\ \A e : Role[p] = "tool" => AtHome(AutoHidden(l, p, e))
         /\ \A g \in DOMAIN l.tabs, i \in Nat :
              l.role[g] = Role[p] => AtHome(MovedToGroup(l, p, g, i))
         /\ \A n, h : CanFloat(l, floating, n, h) => AtHome(Floated(l, p, floating, n, h))
<1>1. Sound(l) /\ ActiveShown(l) /\ l.active \in l.panels \cup {None}
  BY DEF IsState
<1>2. AtHome(Activated(l, p))
  <2>1. PICK r : r = Activated(l, p)
    OBVIOUS
  <2>2. r.panels = l.panels /\ r.tabs = l.tabs /\ r.role = l.role
    BY <1>1, <2>1, ActivatedIsSound
  <2> QED BY <2>1, <2>2 DEF AtHome
<1>3. ASSUME p = readme PROVE AtHome(PanelClosed(l, p))
  <2>1. PICK r : r = PanelClosed(l, p)
    OBVIOUS
  <2>2. r.panels = l.panels \ {p} /\ DOMAIN r.tabs = DOMAIN l.tabs /\ r.role = l.role
    BY <1>1, <2>1, ClosedIsSound
  <2> QED BY <1>3, <2>1, <2>2, AppNames DEF AtHome
<1>4. ASSUME NEW e, Role[p] = "tool" PROVE AtHome(AutoHidden(l, p, e))
  <2>1. PICK r : r = AutoHidden(l, p, e)
    OBVIOUS
  <2>2. r.panels = l.panels /\ DOMAIN r.tabs = DOMAIN l.tabs /\ r.role = l.role
    BY <1>1, <1>4, <2>1, AutoHiddenIsSound
  <2> QED BY <2>1, <2>2 DEF AtHome
<1>5. ASSUME NEW g \in DOMAIN l.tabs, NEW i \in Nat, l.role[g] = Role[p]
      PROVE  AtHome(MovedToGroup(l, p, g, i))
  <2>1. PICK r : r = MovedToGroup(l, p, g, i)
    OBVIOUS
  <2>2. r.panels = l.panels /\ DOMAIN r.tabs = DOMAIN l.tabs /\ r.role = l.role
    BY <1>1, <1>5, <2>1, MovedIsSound
  <2> QED BY <2>1, <2>2 DEF AtHome
<1>6. ASSUME NEW n, NEW h, CanFloat(l, floating, n, h)
      PROVE  AtHome(Floated(l, p, floating, n, h))
  <2>1. PICK r : r = Floated(l, p, floating, n, h)
    OBVIOUS
  <2>2. /\ r.panels = l.panels /\ DOMAIN r.tabs = DOMAIN l.tabs \cup {floating}
        /\ r.role = Extended(l.role, floating, Role[p])
    BY <1>1, <1>6, <2>1, FloatPanelIsSound
  <2>3. DOMAIN l.role = DOMAIN l.tabs
    BY <1>1 DEF Sound, IsLayout
  <2> QED BY <2>1, <2>2, <2>3, AppNames DEF AtHome, Extended
<1> QED BY <1>2, <1>3, <1>4, <1>5, <1>6

LEMMA PinKeepsInvariant ==
  ASSUME AppInv, NEW p \in workspace.panels, NEW g, Pin(p, g)
  PROVE  AppInv'
<1>1. PICK l, i : l = workspace /\ i = Len(workspace.tabs[g])
  OBVIOUS
<1>2. /\ IsState(l) /\ AtHome(l) /\ p \in l.panels /\ g \in DOMAIN l.tabs
      /\ l.role[g] = Role[p] /\ workspace' = MovedToGroup(l, p, g, i)
  BY <1>1 DEF AppInv, Pin, Mutated
<1>3. i \in Nat
  BY <1>1, <1>2, PanelsHaveRoles DEF IsState
<1>4. IsState(MovedToGroup(l, p, g, i))
  BY <1>2, <1>3, MutationsMakeStates
<1>5. AtHome(MovedToGroup(l, p, g, i))
  BY <1>2, <1>3, CommandsStayAtHome
<1> QED BY <1>2, <1>4, <1>5 DEF AppInv

LEMMA HideKeepsInvariant ==
  ASSUME AppInv, NEW p \in workspace.panels, NEW e, Hide(p, e)
  PROVE  AppInv'
<1>1. PICK l : l = workspace
  OBVIOUS
<1>2. /\ IsState(l) /\ AtHome(l) /\ p \in l.panels /\ Role[p] = "tool"
      /\ workspace' = AutoHidden(l, p, e)
  BY <1>1 DEF AppInv, Hide, Mutated
<1>3. IsState(AutoHidden(l, p, e))
  BY <1>2, MutationsMakeStates
<1>4. AtHome(AutoHidden(l, p, e))
  BY <1>2, CommandsStayAtHome
<1> QED BY <1>2, <1>3, <1>4 DEF AppInv

LEMMA FloatKeepsInvariant == ASSUME AppInv, Float PROVE AppInv'
<1>1. PICK l : l = workspace
  OBVIOUS
<1>2. IsState(l) /\ AtHome(l) /\ output \in l.panels
  BY <1>1 DEF AppInv, AtHome
<1>3. CASE CanFloat(l, floating, n202, h400)
  <2>1. workspace' = Floated(l, output, floating, n202, h400)
    BY <1>1, <1>3 DEF Float, Mutated
  <2>2. IsState(Floated(l, output, floating, n202, h400))
    BY <1>2, <1>3, MutationsMakeStates
  <2>3. AtHome(Floated(l, output, floating, n202, h400))
    BY <1>2, <1>3, CommandsStayAtHome
  <2> QED BY <2>1, <2>2, <2>3 DEF AppInv
<1>4. CASE ~CanFloat(l, floating, n202, h400)
  <2>1. workspace' = workspace
    BY <1>1, <1>4 DEF Float
  <2> QED BY <2>1 DEF AppInv
<1> QED BY <1>3, <1>4

LEMMA DockKeepsInvariant ==
  ASSUME AppInv, NEW p \in workspace.panels, DockTo(p) PROVE AppInv'
BY PinKeepsInvariant, HideKeepsInvariant, FloatKeepsInvariant DEF DockTo

LEMMA AppStep == AppInv /\ [AppNext]_appVars => AppInv'
<1> SUFFICES ASSUME AppInv, [AppNext]_appVars PROVE AppInv'
  OBVIOUS
<1>1. PICK l : l = workspace
  OBVIOUS
<1>2. /\ IsState(l) /\ AtHome(l) /\ output \in workspace.panels /\ explorer \in workspace.panels
  BY <1>1 DEF AppInv, AtHome
<1>3. ASSUME workspace' = workspace PROVE AppInv'
  BY <1>3 DEF AppInv
<1>4. ASSUME workspace' = DefaultLayout PROVE AppInv'
  BY <1>4, DefaultIsAtHome DEF AppInv
<1>5. CASE FloatOutput
  BY <1>5, FloatKeepsInvariant DEF FloatOutput
<1>6. CASE RedockOutput
  BY <1>2, <1>6, PinKeepsInvariant DEF RedockOutput
<1>7. CASE CloseFloating
  BY <1>2, <1>3, <1>7, PinKeepsInvariant DEF CloseFloating, RedockOutput
<1>8. CASE AutoHideExplorer
  BY <1>2, <1>8, HideKeepsInvariant DEF AutoHideExplorer
<1>9. CASE PinExplorer
  BY <1>2, <1>9, PinKeepsInvariant DEF PinExplorer
<1>10. CASE ReorderDocuments
  <2>1. readme \in l.panels /\ workspace' = MovedToGroup(l, readme, documents, 0)
    BY <1>1, <1>10 DEF ReorderDocuments, Mutated
  <2>2. documents \in DOMAIN l.tabs /\ l.role[documents] = Role[readme]
    BY <1>2, AppNames DEF AtHome
  <2>3. IsState(MovedToGroup(l, readme, documents, 0))
    BY <1>2, <2>1, <2>2, MutationsMakeStates
  <2>4. AtHome(MovedToGroup(l, readme, documents, 0))
    BY <1>2, <2>1, <2>2, CommandsStayAtHome
  <2> QED BY <2>1, <2>3, <2>4 DEF AppInv
<1>11. CASE CloseReadme
  <2>1. readme \in l.panels /\ workspace' = PanelClosed(l, readme)
    BY <1>1, <1>11 DEF CloseReadme, Mutated
  <2>2. IsState(PanelClosed(l, readme))
    BY <1>2, <2>1, MutationsMakeStates
  <2>3. AtHome(PanelClosed(l, readme))
    BY <1>2, <2>1, CommandsStayAtHome
  <2> QED BY <2>1, <2>2, <2>3 DEF AppInv
<1>12. CASE ResetLayout
  BY <1>4, <1>12 DEF ResetLayout, Snapshot
<1>13. CASE SelectTab
  <2>1. PICK g \in DOMAIN l.tabs : \E p \in ToSet(l.tabs[g]) : workspace' = Activated(l, p)
    BY <1>1, <1>13 DEF SelectTab, Mutated
  <2>2. PICK p \in l.panels : workspace' = Activated(l, p)
    BY <1>2, <2>1 DEF IsState, Sound, PanelsPlacedOnce
  <2>3. IsState(Activated(l, p))
    BY <1>2, <2>2, MutationsMakeStates
  <2>4. AtHome(Activated(l, p))
    BY <1>2, <2>2, CommandsStayAtHome
  <2> QED BY <2>2, <2>3, <2>4 DEF AppInv
<1>14. CASE KeyboardDock
  BY <1>2, <1>14, DockKeepsInvariant DEF KeyboardDock
<1>15. CASE MouseDock
  BY <1>15, DockKeepsInvariant DEF MouseDock
<1>16. CASE HoverFloating
  BY <1>3, <1>16 DEF HoverFloating
<1>17. CASE Reopen
  BY <1>3, <1>4, <1>17 DEF Reopen
<1>18. CASE UNCHANGED appVars
  BY <1>3, <1>18 DEF appVars
<1> QED BY <1>5, <1>6, <1>7, <1>8, <1>9, <1>10, <1>11, <1>12, <1>13, <1>14, <1>15, <1>16,
           <1>17, <1>18 DEF AppNext

(* Whatever has been docked, hidden, floated, closed or restored, the       *)
(* commands that bring the tools back make a valid layout.                  *)
THEOREM ToolsReturn == AppSpec => []ToolsCanReturn
<1>1. AppInit => AppInv
  BY DefaultIsAtHome DEF AppInit, AppInv
<1>2. AppInv => ToolsCanReturn
  <2> SUFFICES ASSUME AppInv,
                      NEW r \in {<<explorer, left>>, <<output, bottom>>}
               PROVE  /\ WellFormed(workspace)
                      /\ r[1] \in workspace.panels
                      /\ r[2] \in DOMAIN workspace.tabs /\ workspace.role[r[2]] = "tool"
                      /\ WellFormed(MovedToGroup(workspace, r[1], r[2], Len(workspace.tabs[r[2]])))
    BY DEF ToolsCanReturn
  <2>1. PICK l, p, g, i : l = workspace /\ p = r[1] /\ g = r[2] /\ i = Len(l.tabs[g])
    OBVIOUS
  <2>2. IsState(l) /\ AtHome(l)
    BY <2>1 DEF AppInv
  <2>3. /\ p \in l.panels /\ g \in DOMAIN l.tabs /\ l.role[g] = "tool" /\ l.role[g] = Role[p]
    BY <2>1, <2>2, AppNames DEF AtHome
  <2>4. i \in Nat
    BY <2>1, <2>2, <2>3, PanelsHaveRoles DEF IsState
  <2>5. IsState(MovedToGroup(l, p, g, i))
    BY <2>2, <2>3, <2>4, MutationsMakeStates
  <2> QED BY <2>1, <2>2, <2>3, <2>5, StateIsWellFormed
<1> QED BY <1>1, <1>2, AppStep, PTL DEF AppSpec
=============================================================================
