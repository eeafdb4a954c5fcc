----------------------------- MODULE HotCorners -----------------------------
(***************************************************************************)
(* The hot-corners program (examples/hot_corners) and the tray icon of the  *)
(* library that it uses: a timer looks where the pointer is and sends an    *)
(* action when it has stayed in an outer corner of the displays.  Displays  *)
(* come and go, the shell restarts and forgets its icons, the user pauses   *)
(* and chooses, and the choices are kept by the position of a monitor.      *)
(*                                                                          *)
(* Time is counted in ticks up to the longest dwell.  The status line and   *)
(* notifications are left out, and of the actions all but that they differ. *)
(* Registry values are written all or none: the key is opened or it is not. *)
(***************************************************************************)
EXTENDS Integers, FiniteSets, SequencesExt

CONSTANTS
  Arrangement,         \* the sets of displays that may be connected
  Point,               \* where the pointer may be
  Dwell, Tolerance,    \* kDwellValues, kToleranceValues; the least is the default
  Action,              \* what a corner may be chosen to do
  Default,             \* MonitorActions: the action of each corner at first
  NoHit, NoIcon,
  MaxCommands          \* bound on commands, display changes and shell restarts

VARIABLES
  life,        \* "running" or "off"
  settings,    \* Settings
  monitors,    \* monitors_: the displays as last enumerated, sorted
  shown,       \* shown_monitor_
  combos,      \* what the four action selectors show
  paused,      \* manual_paused_
  tracker,     \* DwellTracker, with the ticks since it entered
  registry,    \* what SaveSettings has written
  icon,        \* TrayIcon: state and cached tooltip
  shell,       \* the tooltip of the icon the shell shows
  created,     \* a TaskbarCreated message is on its way
  displays, changed,       \* the displays there are; WM_DISPLAYCHANGE on its way
  cursor, fullscreen,      \* the pointer; whether a full-screen program is busy
  quiet, acted,            \* ticks since the watch last began anew, and fired
  chosen, kept,            \* the user's choices, and those that were saved
  commands

displayVars == <<monitors, shown, combos>>
iconVars == <<icon, shell, created>>
outside == <<displays, changed, cursor, fullscreen>>
watchVars == <<tracker, quiet, acted>>
hotVars == <<life, settings, displayVars, paused, watchVars, registry, iconVars,
             outside, chosen, kept, commands>>

Corner == 1..4         \* top left, top right, bottom left, bottom right

(* Displays have an area and lie beside one another.                        *)
Apart(a, b) ==
  a.right <= b.left \/ b.right <= a.left \/ a.bottom <= b.top \/ b.bottom <= a.top

ASSUME HotAssumption ==
  /\ \A areas \in Arrangement :
       /\ IsFiniteSet(areas)
       /\ areas \subseteq [left : Int, top : Int, right : Int, bottom : Int]
       /\ \A a \in areas : a.left < a.right /\ a.top < a.bottom
       /\ \A a, b \in areas : a # b => Apart(a, b)
  /\ Dwell \subseteq Nat \ {0} /\ \E d \in Dwell : \A e \in Dwell : e <= d
  /\ Tolerance \subseteq Nat /\ Tolerance # {}
  /\ Default \in [Corner -> Action]
  /\ NoHit \notin [monitor : Nat, corner : Corner]

FreshTracker == [hit |-> NoHit, age |-> 0, fired |-> FALSE]

Longest == Max(Dwell)

-----------------------------------------------------------------------------
(* The geometry of corners, as in hot_corner_model.cpp.                     *)

SidesOf == << {"left", "top"}, {"right", "top"}, {"left", "bottom"}, {"right", "bottom"} >>

SameRows(a, b) == Max({a.top, b.top}) < Min({a.bottom, b.bottom})
SameColumns(a, b) == Max({a.left, b.left}) < Min({a.right, b.right})

(* b lies across this side of a.                                            *)
Adjoins(a, b, side) ==
  \/ side = "left" /\ b.right = a.left /\ SameRows(a, b)
  \/ side = "right" /\ b.left = a.right /\ SameRows(a, b)
  \/ side = "top" /\ b.bottom = a.top /\ SameColumns(a, b)
  \/ side = "bottom" /\ b.top = a.bottom /\ SameColumns(a, b)

(* Seeded fault: only the neighbour that comes next in order is looked at.  *)
ExposedToNext(ms, m) ==
  {c \in Corner : m + 1 \in DOMAIN ms =>
                    ~\E s \in SidesOf[c] : Adjoins(ms[m], ms[m + 1], s)}

ExposedCorners(ms, m) ==
  {c \in Corner : ~\E k \in DOMAIN ms \ {m}, s \in SidesOf[c] : Adjoins(ms[m], ms[k], s)}

Holds(a, p) == /\ a.left <= p.x /\ p.x < a.right
               /\ a.top <= p.y /\ p.y < a.bottom

Near(a, p, side, tolerance) ==
  \/ side = "left" /\ p.x < a.left + tolerance
  \/ side = "right" /\ p.x >= a.right - tolerance
  \/ side = "top" /\ p.y < a.top + tolerance
  \/ side = "bottom" /\ p.y >= a.bottom - tolerance

Detect(p, ms, tolerance) ==
  LET hits == {h \in [monitor : DOMAIN ms, corner : Corner] :
                 LET a == ms[h.monitor]
                 IN  /\ Holds(a, p)
                     /\ h.corner \in ExposedCorners(ms, h.monitor)
                     /\ \A s \in SidesOf[h.corner] : Near(a, p, s, Max({1, tolerance}))}
  IN  IF hits = {} THEN NoHit
      ELSE CHOOSE h \in hits : \A other \in hits :
             \/ h.monitor < other.monitor
             \/ h.monitor = other.monitor /\ h.corner <= other.corner

Updated(hit) ==
  LET entered == IF hit = tracker.hit THEN tracker
                 ELSE [hit |-> hit, age |-> 0, fired |-> FALSE]
  IN  [entered EXCEPT !.fired =
         entered.hit # NoHit /\ (entered.fired \/ entered.age >= settings.dwell)]

-----------------------------------------------------------------------------
(* Settings.                                                                *)

DefaultSettings ==
  [dwell |-> Min(Dwell), tolerance |-> Min(Tolerance), enabled |-> TRUE,
   pauseForFullscreen |-> TRUE, monitors |-> <<>>]

Written(s, actions) ==
  [dwell |-> s.dwell, tolerance |-> s.tolerance, enabled |-> s.enabled,
   pauseForFullscreen |-> s.pauseForFullscreen, actions |-> actions]

(* The entries of f, and those of g besides.                                *)
Over(f, g) == [x \in DOMAIN f \cup DOMAIN g |-> IF x \in DOMAIN f THEN f[x] ELSE g[x]]

ActionsOf(s) == [x \in (DOMAIN s.monitors) \X Corner |-> s.monitors[x[1]][x[2]]]

(* The registry is opened, or it is not and everything stays as it was.     *)
SaveSettings(s, choices) ==
  \/ /\ registry' = Written(s, Over(ActionsOf(s), registry.actions))
     /\ kept' = Over(choices, [x \in {y \in DOMAIN kept : y[1] > Len(s.monitors)} |-> kept[x]])
  \/ UNCHANGED <<registry, kept>>

(* The selectors go to the settings of the monitor that is shown.           *)
StoreVisibleMonitor(s) ==
  IF shown > Len(s.monitors) THEN s ELSE [s EXCEPT !.monitors[shown] = combos]

(* What was never written, or written for fewer monitors, is the default.   *)
LoadSettings(n) ==
  [dwell |-> registry.dwell, tolerance |-> registry.tolerance,
   enabled |-> registry.enabled, pauseForFullscreen |-> registry.pauseForFullscreen,
   monitors |-> [m \in 1..n |-> [c \in Corner |->
                   IF <<m, c>> \in DOMAIN registry.actions
                   THEN registry.actions[<<m, c>>] ELSE Default[c]]]]

LoadVisibleMonitor(s, m) ==
  combos' = IF m > Len(s.monitors) THEN combos ELSE s.monitors[m]

Resized(ms, n) == [k \in 1..n |-> IF k <= Len(ms) THEN ms[k] ELSE Default]

Before(a, b) == a.left < b.left \/ (a.left = b.left /\ a.top < b.top)

Sorted(areas) ==
  CHOOSE ms \in [1..Cardinality(areas) -> areas] :
    \A m, k \in DOMAIN ms : m < k => Before(ms[m], ms[k])

(* What was chosen for a monitor that is no longer there is forgotten.      *)
Remaining(choices, n) == [x \in {y \in DOMAIN choices : y[1] <= n} |-> choices[x]]

(* Seeded fault: only the mark that an action was sent is reset.            *)
ResetMark == tracker' = [tracker EXCEPT !.fired = FALSE]

ResetTracker == tracker' = FreshTracker

WatchAnew == ResetTracker /\ quiet' = 0 /\ acted' = FALSE

-----------------------------------------------------------------------------
(* The tray icon.                                                           *)

Added(text) == icon' = [state |-> "added", tooltip |-> text] /\ shell' = text

(* NIM_ADD and NIM_SETVERSION; when the second fails the icon is deleted.   *)
AddNative(text) ==
  \/ Added(text)
  \/ icon' = [state |-> "recovery", tooltip |-> text] /\ shell' = NoIcon

(* Seeded fault: the cached tooltip changes before the shell has accepted.  *)
UpdateTooltipFirst(text) ==
  \/ /\ icon.state = "added" /\ shell # NoIcon
     /\ icon' = [icon EXCEPT !.tooltip = text] /\ shell' = text
  \/ icon' = [icon EXCEPT !.tooltip = text] /\ UNCHANGED shell

UpdateTooltip(text) ==
  \/ /\ icon.state = "added" /\ shell # NoIcon
     /\ icon' = [icon EXCEPT !.tooltip = text] /\ shell' = text
  \/ UNCHANGED <<icon, shell>>

Recreate ==
  \/ icon.state # "detached" /\ AddNative(icon.tooltip)
  \/ icon.state = "detached" /\ UNCHANGED <<icon, shell>>

Removed == icon' = [state |-> "detached", tooltip |-> "none"] /\ shell' = NoIcon

-----------------------------------------------------------------------------
(* The program.                                                             *)

HotInit ==
  /\ life = "off" /\ settings = DefaultSettings
  /\ monitors = <<>> /\ shown = 1 /\ combos = Default
  /\ paused = FALSE /\ tracker = FreshTracker
  /\ registry = Written(DefaultSettings, <<>>)
  /\ icon = [state |-> "detached", tooltip |-> "none"] /\ shell = NoIcon /\ created = FALSE
  /\ displays \in Arrangement
  /\ changed = FALSE
  /\ cursor = CHOOSE p \in Point : TRUE
  /\ fullscreen = FALSE
  /\ quiet = 0 /\ acted = FALSE /\ chosen = <<>> /\ kept = <<>>
  /\ commands = 0

Running == life = "running"

(* The bound: nothing more is asked of the program.                         *)
Counted == commands < MaxCommands /\ commands' = commands + 1

Command == Running /\ Counted

(* BuildUI; it throws, and the program ends, when the icon cannot be added. *)
Start ==
  /\ ~Running
  /\ LET ms == Sorted(displays)
         loaded == LoadSettings(Len(ms))
     IN  /\ monitors' = ms /\ settings' = loaded /\ shown' = 1
         /\ combos' = IF ms = <<>> THEN Default ELSE loaded.monitors[1]
         /\ chosen' = Remaining(kept, Len(ms))
  /\ Added("watching")
  /\ life' = "running" /\ paused' = FALSE /\ WatchAnew
  /\ changed' = FALSE /\ created' = FALSE
  /\ UNCHANGED <<registry, displays, cursor, fullscreen, kept, commands>>

(* A click on Enabled or on Pause for fullscreen apps; the second is looked *)
(* at by the next poll.                                                     *)
ToggleSetting ==
  /\ Command
  /\ \/ settings' = [settings EXCEPT !.enabled = ~@] /\ WatchAnew
     \/ settings' = [settings EXCEPT !.pauseForFullscreen = ~@] /\ UNCHANGED watchVars
  /\ SaveSettings(settings', chosen)
  /\ UNCHANGED <<life, displayVars, paused, iconVars, outside, chosen>>

ChangeTiming ==
  /\ Command
  /\ \/ \E d \in Dwell : settings' = [settings EXCEPT !.dwell = d]
     \/ \E t \in Tolerance : settings' = [settings EXCEPT !.tolerance = t]
  /\ WatchAnew
  /\ SaveSettings(settings', chosen)
  /\ UNCHANGED <<life, displayVars, paused, iconVars, outside, chosen>>

SelectMonitor ==
  /\ Command
  /\ \E m \in DOMAIN monitors :
       /\ settings' = StoreVisibleMonitor(settings)
       /\ shown' = m
       /\ LoadVisibleMonitor(settings', m)
  /\ UNCHANGED <<life, monitors, paused, watchVars, registry, iconVars, outside,
                 chosen, kept>>

(* Only the selectors of exposed corners can be used.                       *)
ChooseAction ==
  /\ Command /\ monitors # <<>>
  /\ \E c \in ExposedCorners(monitors, shown), a \in Action :
       /\ combos' = [combos EXCEPT ![c] = a]
       /\ settings' = [settings EXCEPT !.monitors[shown] = combos']
       /\ chosen' = Over([x \in {<<shown, c>>} |-> a], chosen)
  /\ SaveSettings(settings', chosen')
  /\ UNCHANGED <<life, monitors, shown, paused, watchVars, iconVars, outside>>

(* The menu, Ctrl+E, or a click on the icon.                                *)
TogglePause ==
  /\ Command
  /\ paused' = ~paused /\ WatchAnew
  /\ UpdateTooltip(IF paused' THEN "paused" ELSE "watching")
  /\ UNCHANGED <<life, settings, displayVars, registry, created, outside, chosen, kept>>

(* Seeded fault: the order of the first two calls is swapped.               *)
StoredAfterRefresh(n) ==
  [settings EXCEPT !.monitors =
     [k \in 1..n |-> IF k = Min({shown, n}) THEN combos ELSE Resized(@, n)[k]]]

StoredAndResized(n) ==
  [settings EXCEPT !.monitors = Resized(StoreVisibleMonitor(settings).monitors, n)]

(* OnMessage (WM_DISPLAYCHANGE): StoreVisibleMonitor, RefreshMonitors,      *)
(* PopulateMonitorList, LoadVisibleMonitor.                                 *)
DisplayChanged ==
  /\ Running /\ changed /\ changed' = FALSE
  /\ LET ms == Sorted(displays)
         n == Len(ms)
     IN  /\ monitors' = ms
         /\ settings' = StoredAndResized(n)
         /\ shown' = IF n = 0 THEN 1 ELSE Min({shown, n})
         /\ LoadVisibleMonitor(settings', shown')
         /\ chosen' = Remaining(chosen, n)
  /\ WatchAnew
  /\ UNCHANGED <<life, paused, registry, iconVars, displays, cursor, fullscreen, kept,
                 commands>>

TaskbarCreated ==
  /\ Running /\ created /\ created' = FALSE
  /\ Recreate
  /\ UNCHANGED <<life, settings, displayVars, paused, watchVars, registry, outside,
                 chosen, kept, commands>>

(* OnTimer: nothing is watched while disabled, paused, or behind a          *)
(* full-screen program.  The pointer cannot always be read.                 *)
Poll ==
  /\ Running
  /\ LET stopped == \/ ~settings.enabled \/ paused
                    \/ settings.pauseForFullscreen /\ fullscreen
         hit == Detect(cursor, monitors, settings.tolerance)
     IN  \/ stopped /\ WatchAnew
         \/ ~stopped /\ UNCHANGED watchVars
         \/ /\ ~stopped
            /\ tracker' = Updated(hit)
            /\ quiet' = IF hit = tracker.hit THEN quiet ELSE 0
            /\ acted' = (hit = tracker.hit /\ (acted \/ tracker'.fired))
  /\ UNCHANGED <<life, settings, displayVars, paused, registry, iconVars, outside,
                 chosen, kept, commands>>

(* What the process had in memory is gone.                                  *)
Ends ==
  /\ life' = "off" /\ settings' = DefaultSettings
  /\ monitors' = <<>> /\ shown' = 1 /\ combos' = Default
  /\ paused' = FALSE /\ WatchAnew
  /\ Removed /\ created' = FALSE
  /\ chosen' = <<>>
  /\ UNCHANGED <<displays, cursor, fullscreen>> /\ changed' = FALSE

Close ==
  /\ Running
  /\ SaveSettings(StoreVisibleMonitor(settings), chosen)
  /\ Ends
  /\ UNCHANGED commands

-----------------------------------------------------------------------------
(* What is not the program's doing.                                         *)

(* The time counts while a corner is being watched.                         *)
Tick ==
  /\ Running /\ tracker.hit # NoHit
  /\ tracker' = [tracker EXCEPT !.age = Min({@ + 1, Longest})]
  /\ quiet' = Min({quiet + 1, Longest})
  /\ UNCHANGED <<life, settings, displayVars, paused, acted, registry, iconVars,
                 outside, chosen, kept, commands>>

UserMoves ==
  /\ Running
  /\ \/ cursor' \in Point \ {cursor} /\ UNCHANGED fullscreen
     \/ fullscreen' = ~fullscreen /\ UNCHANGED cursor
  /\ UNCHANGED <<life, settings, displayVars, paused, watchVars, registry, iconVars,
                 displays, changed, chosen, kept, commands>>

DisplaysChange ==
  /\ Counted
  /\ displays' \in Arrangement /\ changed' = Running
  /\ UNCHANGED <<life, settings, displayVars, paused, watchVars, registry, iconVars,
                 cursor, fullscreen, chosen, kept>>

(* The shell restarts and has forgotten the icon, or only says so, as it    *)
(* does when the resolution changes.                                        *)
ShellRestarts ==
  /\ Command
  /\ created' = TRUE
  /\ shell' \in {shell, NoIcon}
  /\ UNCHANGED <<life, settings, displayVars, paused, watchVars, registry, icon,
                 outside, chosen, kept>>

(* The process ends; the shell drops the icon of a window that is gone.     *)
Crash ==
  /\ Command
  /\ Ends
  /\ UNCHANGED <<registry, kept>>

HotNext ==
  \/ Start \/ Close \/ Crash
  \/ ToggleSetting \/ ChangeTiming \/ SelectMonitor \/ ChooseAction \/ TogglePause
  \/ DisplayChanged \/ TaskbarCreated \/ Poll
  \/ Tick \/ UserMoves \/ DisplaysChange \/ ShellRestarts

HotSpec == HotInit /\ [][HotNext]_hotVars

-----------------------------------------------------------------------------
(* Properties.                                                              *)

HotTypeOK ==
  /\ settings.monitors \in Seq([Corner -> Action])
  /\ Running => Len(settings.monitors) = Len(monitors)
  /\ tracker.hit = NoHit \/ tracker.hit.monitor \in DOMAIN monitors
  /\ icon.state \in {"detached", "recovery", "added"}

(* A corner keeps the action that was chosen for it while its monitor stays,*)
(* whatever comes and goes beside it, and after a restart as it was saved.  *)
ChoicesAreKept ==
  /\ Running => \A x \in DOMAIN chosen : settings.monitors[x[1]][x[2]] = chosen[x]
  /\ \A x \in DOMAIN kept :
       x \in DOMAIN registry.actions /\ registry.actions[x] = kept[x]

(* While the icon is added and the shell has not restarted since, the shell *)
(* shows what TrayIcon has cached (docs/api.md), and a new icon would too.  *)
IconIsAsCached ==
  icon.state = "added" /\ ~created => shell = icon.tooltip

(* Both, and the lists that the window, the displays and the settings keep  *)
(* by the number of a monitor fit one another.                              *)
ChoicesAndIconAreKept == HotTypeOK /\ ChoicesAreKept /\ IconIsAsCached

(* No display lies beyond a corner of the pointer's display: it cannot leave*)
(* the display there across either side.                                    *)
NothingBeyond(hit) ==
  LET a == monitors[hit.monitor]
      x == IF "left" \in SidesOf[hit.corner] THEN a.left - 1 ELSE a.right
      y == IF "top" \in SidesOf[hit.corner] THEN a.top - 1 ELSE a.bottom
      insideX == IF x < a.left THEN a.left ELSE a.right - 1
      insideY == IF y < a.top THEN a.top ELSE a.bottom - 1
  IN  \A k \in DOMAIN monitors :
        /\ ~Holds(monitors[k], [x |-> x, y |-> insideY])
        /\ ~Holds(monitors[k], [x |-> insideX, y |-> y])

Fires == tracker'.fired /\ ~tracker.fired

(* An action is sent once for a stay, only for an outer corner where the    *)
(* pointer is, and only after the whole dwell since anything that makes the *)
(* program watch anew: resuming, enabling, new settings or displays.        *)
FiresAsWatched ==
  [][Fires => /\ ~acted /\ quiet >= settings.dwell
              /\ settings.enabled /\ ~paused
              /\ ~(settings.pauseForFullscreen /\ fullscreen)
              /\ NothingBeyond(tracker'.hit)
              /\ Holds(monitors[tracker'.hit.monitor], cursor)]_hotVars
=============================================================================
