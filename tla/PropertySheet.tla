--------------------------- MODULE PropertySheet ---------------------------
(***************************************************************************)
(* mwfl::PropertySheetDialog: property pages that a sheet shows, asks to    *)
(* apply or reset what the user has entered, and gives back.                *)
(*                                                                          *)
(* The sheet is comctl32's: it creates a page when it is first shown, and   *)
(* OK and Apply ask the created pages one after the other and stop at the   *)
(* first that refuses.  Every answer is the application's, whose callback   *)
(* may also throw; its callbacks may mark pages, and do not close the sheet.*)
(***************************************************************************)
EXTENDS FiniteSetsExt, Integers

CONSTANTS
  Page,     \* identifiers of the pages, numbers in the order of the sheet
  NoPage

VARIABLES
  pages,        \* [bound: has it an active_sheet?, created: has it a window?,
                \*  dirty, model: is it dirty for the model of the sheet?,
                \*  changed: has the sheet been told so?]
  sheetStatus,  \* result.status
  active,       \* the page that is shown, NoPage while there is no sheet
  request,      \* what the sheet does: [kind, todo: the pages it has yet to ask]
  posted,       \* has a callback's failure posted a press of Cancel?
  ended         \* how the last sheet ended

(* There is a first of any pages.                                           *)
SheetAssumption ==
  /\ Page \subseteq Int /\ NoPage \notin Page
  /\ \A some \in SUBSET Page : some # {} => \E p \in some : \A q \in some : p <= q

sheetVars == <<pages, sheetStatus, active, request, posted, ended>>

Quiet == [kind |-> "none", todo |-> {}]

SheetInit ==
  /\ pages = [p \in Page |-> [bound |-> FALSE, created |-> FALSE, dirty |-> FALSE,
                              model |-> FALSE, changed |-> FALSE]]
  /\ sheetStatus = "failed"
  /\ active = NoPage
  /\ request = Quiet
  /\ posted = FALSE
  /\ ended = "none"

Created == {p \in Page : pages[p].created}

(* The sheet handles the next message; a posted one comes before input.     *)
Waiting == active # NoPage /\ request = Quiet /\ ~posted

-----------------------------------------------------------------------------
(* SetDirty, called by the application or by one of its callbacks.          *)
SetDirty(p, dirty) ==
  /\ pages' = [pages EXCEPT
       ![p].dirty = dirty,
       ![p].model = IF pages[p].bound THEN dirty ELSE @,
       ![p].changed = IF pages[p].created THEN dirty ELSE @]
  /\ UNCHANGED <<sheetStatus, active, request, posted, ended>>

(* WM_INITDIALOG: the page is filled, or its callback or layout fails.      *)
Shown(current, p, failed) ==
  [current EXCEPT ![p].created = TRUE, ![p].changed = ~failed /\ current[p].dirty]

(* Prepare, then the sheet with its start page.                             *)
Show(p, failed) ==
  /\ active = NoPage
  /\ pages' = Shown([q \in Page |-> [pages[q] EXCEPT !.bound = TRUE,
                                                     !.model = pages[q].dirty]], p, failed)
  /\ active' = p
  /\ sheetStatus' = IF failed THEN "failed" ELSE "cancelled"
  /\ posted' = failed
  /\ ended' = "none"
  /\ UNCHANGED request

(* PropertySheetW creates no sheet, and Prepare is undone.                  *)
ShowFails ==
  /\ active = NoPage
  /\ sheetStatus' = "failed" /\ ended' = "failed"
  /\ UNCHANGED <<pages, active, request, posted>>

(* A callback has thrown.  Only one that answered the sheet presses Cancel; *)
(* a command's leaves the sheet as it is.                                   *)
CallbackThrows(presses) ==
  /\ Waiting
  /\ sheetStatus' = "failed"
  /\ posted' = presses
  /\ UNCHANGED <<pages, active, request, ended>>

-----------------------------------------------------------------------------
(* The page that is left has passed its validation.                         *)
SelectPage(p, failed) ==
  /\ Waiting /\ p # active
  /\ active' = p
  /\ IF pages[p].created THEN UNCHANGED <<pages, sheetStatus, posted>>
     ELSE /\ pages' = Shown(pages, p, failed)
          /\ sheetStatus' = IF failed THEN "failed" ELSE sheetStatus
          /\ posted' = failed
  /\ UNCHANGED <<request, ended>>

Press(kind) ==
  /\ Waiting
  /\ request' = [kind |-> kind, todo |-> Created]
  /\ UNCHANGED <<pages, sheetStatus, active, posted, ended>>

Asked == Min(request.todo)

(* PSN_APPLY: the input is invalid, the page cannot apply it, or its        *)
(* callback throws; the sheet asks no further page and stays.               *)
ApplyRefused(why) ==
  /\ request.kind \in {"ok", "apply"} /\ request.todo # {}
  /\ sheetStatus' = IF why = "invalid" THEN sheetStatus ELSE "failed"
  /\ posted' = (why = "throws")
  /\ request' = Quiet
  /\ UNCHANGED <<pages, active, ended>>

Applied ==
  /\ request.kind \in {"ok", "apply"} /\ request.todo # {}
  /\ pages' = [pages EXCEPT ![Asked].dirty = FALSE, ![Asked].model = FALSE,
                            ![Asked].changed = FALSE]
  /\ sheetStatus' = IF request.kind = "ok" THEN "accepted" ELSE sheetStatus
  /\ request' = [request EXCEPT !.todo = @ \ {Asked}]
  /\ UNCHANGED <<active, posted, ended>>

(* Cancel, the close box, Close, or the press a failure has posted.         *)
PressCancel ==
  /\ active # NoPage /\ request = Quiet
  /\ posted' = FALSE
  /\ request' = [kind |-> "cancel", todo |-> Created]
  /\ UNCHANGED <<pages, sheetStatus, active, ended>>

(* PSN_RESET reaches the next page; a callback that throws leaves the page  *)
(* marked.                                                                  *)
ResetPage(throws, result) ==
  /\ request.kind = "cancel" /\ request.todo # {}
  /\ pages' = IF throws THEN pages
              ELSE [pages EXCEPT ![Asked].dirty = FALSE, ![Asked].model = FALSE]
  /\ sheetStatus' = IF throws THEN "failed" ELSE result
  /\ request' = [request EXCEPT !.todo = @ \ {Asked}]
  /\ UNCHANGED <<active, posted, ended>>

(* Seeded fault: a page that is reset leaves the result as it was.          *)
ResetQuietly(throws) == ResetPage(throws, sheetStatus)

(* A failure is not called a cancellation.                                  *)
Reset(throws) == ResetPage(throws, IF sheetStatus = "failed" THEN sheetStatus ELSE "cancelled")

-----------------------------------------------------------------------------
(* WM_NCDESTROY: the pages are given back, marked as they are.              *)
Gone(how) ==
  /\ pages' = [p \in Page |-> [pages[p] EXCEPT !.bound = FALSE, !.created = FALSE,
                                               !.changed = FALSE]]
  /\ active' = NoPage
  /\ request' = Quiet
  /\ posted' = FALSE
  /\ ended' = how
  /\ UNCHANGED sheetStatus

(* Every page has answered.                                                 *)
Answered ==
  /\ request.kind # "none" /\ request.todo = {}
  /\ IF request.kind = "apply"
     THEN request' = Quiet /\ UNCHANGED <<pages, sheetStatus, active, posted, ended>>
     ELSE Gone(request.kind)

(* The sheet is destroyed with its owner.                                   *)
OwnerDestroyed == active # NoPage /\ request = Quiet /\ Gone("destroyed")

SheetNext ==
  \/ \E p \in Page :
       \/ \E dirty \in BOOLEAN : SetDirty(p, dirty)
       \/ \E failed \in BOOLEAN : Show(p, failed) \/ SelectPage(p, failed)
  \/ ShowFails
  \/ \E presses \in BOOLEAN : CallbackThrows(presses)
  \/ \E kind \in {"ok", "apply"} : Press(kind)
  \/ \E why \in {"invalid", "failed", "throws"} : ApplyRefused(why)
  \/ Applied \/ PressCancel \/ Answered \/ OwnerDestroyed
  \/ \E throws \in BOOLEAN : Reset(throws)

SheetSpec == SheetInit /\ [][SheetNext]_sheetVars

-----------------------------------------------------------------------------
(* Properties.                                                              *)

(* A sheet that OK has closed was accepted and one that was cancelled was   *)
(* not, although some pages had been applied before another refused; page,  *)
(* model and Apply button agree on what is dirty as long as the sheet is    *)
(* used; and a sheet that is gone leaves its pages free for another.        *)
ResultIsTrue ==
  /\ ended \in {"ok", "cancel"} => (sheetStatus = "accepted" <=> ended = "ok")
  /\ \A p \in Page :
       /\ pages[p].bound = (active # NoPage)
       /\ pages[p].bound => pages[p].model = pages[p].dirty
       /\ Waiting => pages[p].changed = (pages[p].created /\ pages[p].dirty)
=============================================================================
