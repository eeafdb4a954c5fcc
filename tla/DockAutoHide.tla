---------------------------- MODULE DockAutoHide ----------------------------
(***************************************************************************)
(* mwfl::DockAutoHideController: an auto-hidden panel slides in after a     *)
(* delay when the pointer asks for it, at once for the keyboard, and slides *)
(* out after a delay when neither pointer nor focus is inside.              *)
(*                                                                          *)
(* Time is counted in ticks; Advance gets the ticks since the last call.    *)
(* Progress is counted in ticks of the animation.                           *)
(***************************************************************************)
EXTENDS Integers, FiniteSetsExt

CONSTANTS
  HiddenPanel,          \* panels hidden at the edges
  NoPanel,
  ShowDelay, HideDelay, \* ticks
  Animation,            \* ticks
  MaximumDuration       \* the ticks Advance counts at most

VARIABLES slide,   \* [state, panel, pointer, focus, progress]
          elapsed  \* ticks of the phase

slideVars == <<slide, elapsed>>

(* DockAutoHideOptions::IsValid.                                            *)
SlideAssumption ==
  MaximumDuration \in Nat /\ {ShowDelay, HideDelay, Animation} \subseteq 0..MaximumDuration

Initial == [state |-> "hidden", panel |-> NoPanel, pointer |-> FALSE, focus |-> FALSE,
            progress |-> 0]

SlideTypeOK ==
  /\ slide \in [state : {"hidden", "waiting_to_show", "showing", "shown",
                         "waiting_to_hide", "hiding"},
                panel : HiddenPanel \cup {NoPanel}, pointer : BOOLEAN, focus : BOOLEAN,
                progress : 0..Animation]
  /\ elapsed \in 0..MaximumDuration

SlideInit == slide = Initial /\ elapsed = 0

KeepsOpen(s) == s.pointer \/ s.focus
Shown(s) == [s EXCEPT !.state = "shown", !.progress = Animation]
Fraction(t) == Min({t, Animation})

RequestShow(p, pointer) ==
  LET s == [slide EXCEPT !.panel = p]
  IN  /\ elapsed' = 0
      /\ slide' =
           IF ~pointer THEN Shown(s)
           ELSE IF slide.panel # p \/ slide.state \in {"hidden", "hiding"}
           THEN [s EXCEPT !.progress = 0,
                          !.state = IF ShowDelay = 0 THEN "showing" ELSE "waiting_to_show"]
           ELSE IF slide.state = "waiting_to_hide" THEN Shown(s)
           ELSE s

(* RequestHide, not immediate, of a panel that nothing keeps open.          *)
Leaving(s) ==
  [s EXCEPT !.state = IF HideDelay = 0 THEN "hiding" ELSE "waiting_to_hide"]

RequestHide ==
  /\ slide.state # "hidden" /\ ~KeepsOpen(slide)
  /\ slide' = Leaving(slide) /\ elapsed' = 0

(* Reset, or RequestHide at once.                                           *)
HideNow == slide' = Initial /\ elapsed' = 0

(* Seeded fault: the pointer does not stop a panel that is on its way out.  *)
ToldLate(s, inside) ==
  IF inside /\ s.state = "waiting_to_hide"
  THEN slide' = Shown(s) /\ elapsed' = 0
  ELSE IF ~inside /\ ~KeepsOpen(s) /\ s.state = "shown"
  THEN slide' = Leaving(s) /\ elapsed' = 0
  ELSE slide' = s /\ UNCHANGED elapsed

(* SetPointerInside and SetKeyboardFocusInside: s is told of it.            *)
Told(s, inside) ==
  IF inside /\ s.state \in {"waiting_to_hide", "hiding"}
  THEN slide' = Shown(s) /\ elapsed' = 0
  ELSE IF ~inside /\ ~KeepsOpen(s) /\ s.state = "shown"
  THEN slide' = Leaving(s) /\ elapsed' = 0
  ELSE slide' = s /\ UNCHANGED elapsed

SetPointerInside(inside) == Told([slide EXCEPT !.pointer = inside], inside)
SetKeyboardFocusInside(inside) == Told([slide EXCEPT !.focus = inside], inside)

(* One call passes the delay and animates with what is left of it.          *)
Advance(ticks) ==
  LET t == elapsed + Min({ticks, MaximumDuration})
      Slid(u) == /\ slide' = [slide EXCEPT !.state = IF u >= Animation THEN "shown"
                                                     ELSE "showing",
                                           !.progress = Fraction(u)]
                 /\ elapsed' = IF u >= Animation THEN 0 ELSE u
      SlidOut(u) == IF u >= Animation THEN HideNow
                    ELSE /\ slide' = [slide EXCEPT !.state = "hiding",
                                                   !.progress = Animation - Fraction(u)]
                         /\ elapsed' = u
      Waits == UNCHANGED slide /\ elapsed' = t
  IN  /\ ticks > 0
      /\ CASE slide.state = "waiting_to_show" ->
                IF t < ShowDelay THEN Waits ELSE Slid(t - ShowDelay)
           [] slide.state = "showing" -> Slid(t)
           [] slide.state = "waiting_to_hide" ->
                IF KeepsOpen(slide) THEN slide' = Shown(slide) /\ elapsed' = 0
                ELSE IF t < HideDelay THEN Waits ELSE SlidOut(t - HideDelay)
           [] slide.state = "hiding" -> SlidOut(t)
           [] slide.state \in {"hidden", "shown"} -> UNCHANGED slideVars

SlideNext ==
  \/ \E p \in HiddenPanel, pointer \in BOOLEAN : RequestShow(p, pointer)
  \/ RequestHide \/ HideNow
  \/ \E inside \in BOOLEAN : SetPointerInside(inside) \/ SetKeyboardFocusInside(inside)
  \/ \E ticks \in 1..MaximumDuration + 1 : Advance(ticks)

SlideSpec == SlideInit /\ [][SlideNext]_slideVars

-----------------------------------------------------------------------------
(* Properties.                                                              *)

(* A panel never slides out under the pointer or the keyboard focus, and    *)
(* what is shown or hidden has finished its animation.                      *)
NeverLeavesItsUser ==
  /\ slide.state \in {"waiting_to_hide", "hiding"} => ~KeepsOpen(slide)
  /\ slide.state = "shown" => slide.progress = Animation
  /\ slide.state = "hidden" => slide.progress = 0 /\ slide.panel = NoPanel

(* The slide and its timer are well formed, and no panel leaves its user.   *)
SlideIsConsistent == SlideTypeOK /\ NeverLeavesItsUser
=============================================================================
