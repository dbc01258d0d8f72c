---------------------------- MODULE ControlRuntime ----------------------------
(***************************************************************************)
(* control_runtime.c: what the panel's actions do to the settings, to the  *)
(* backlight and to Wi-Fi, and the tick that reads the telemetry, follows  *)
(* the brightness policy and sends an idle tablet to sleep.  Beside it run *)
(* the worker, as ActionJob promises it, the taq102-wifi script it started *)
(* and the radio; both move between any two steps of a tick.               *)
(*                                                                         *)
(* The panel is taken at its actions: a drag, a tap on a tile (their slide *)
(* and capture are ControlCenter's).  The brightness policy is any         *)
(* decision (PowerPolicy says which), a reading is due at any tick, and    *)
(* the saving of the settings is SettingsSave's.  Notes, names and signal  *)
(* strength are left out.                                                  *)
(***************************************************************************)
EXTENDS Integers

CONSTANTS
    Stored,         \* brightness in the settings file
    MaxLevel,       \* brightness_max
    Timers,         \* minutes of the sleep timer; 0 is never
    MaxQuiet,       \* bound: minutes without a touch that are counted
    None

ASSUME RuntimeAssumption ==
    /\ MaxLevel \in Nat /\ MaxLevel >= 8
    /\ Stored \subseteq {l \in Nat : l >= 8} /\ Stored # {}
    /\ Timers \subseteq 0 .. MaxQuiet /\ MaxQuiet \in Nat
    /\ None \notin Nat

(* A backlight whose maximum is below 8 is not taken. *)
Levels == 8 .. MaxLevel

VARIABLES
    at,             \* the next step of control_runtime_tick, or "input"
    asleep,         \* the dark loop runs, not the frames
    sleepAsked,     \* r->sleep_requested
    settings,       \* r->settings: brightness, auto
    panel,          \* r->panel: brightness, auto, minutes, wifi
    dirty,          \* r->panel.dirty
    finger,         \* the level under the finger that drags, or None
    lit,            \* the hardware's brightness
    left,           \* minutes to r->idle.deadline_ms, or None
    status,         \* r->status.have_wifi, and whether there is an address
    onBattery,      \* r->status: a supply is read and it is the battery
    wanted, exit,   \* r->wanted_wifi; r->wifi_exit # 0
    phase, outcome, \* the worker, as in ActionJob
    script, radio,  \* what taq102-wifi is about to do; the interface
    quiet,          \* history: minutes since a touch or a wake
    stale,          \* history: the panel's texture shows something else
    written,        \* history: the last write of the brightness succeeded
    asked, seen     \* history: the user's last accepted word on Wi-Fi, and
                    \* whether a link was read since

brightVars == <<settings, finger, lit, written>>
panelVars == <<panel, dirty, stale>>
idleVars == <<left, quiet, onBattery>>
jobVars == <<phase, outcome, script>>
wifiVars == <<status, wanted, exit, asked, seen>>
vars == <<at, asleep, sleepAsked, panelVars, brightVars, idleVars, jobVars,
          wifiVars, radio>>

Job == INSTANCE ActionJob WITH Codes <- {"ok", "failed"}, Stopped <- "failed"

Links == {"none", "level", "addressed"}
Shown == {"starting", "failed", "off", "connected", "associating"}

-----------------------------------------------------------------------------
(* Defect: a stored level above the panel's maximum is applied as it is. *)
Unclamped(l) == l

Clamped(l) == IF l > MaxLevel THEN MaxLevel ELSE l

(* wifi_state_from *)
WifiState(link, busy, failed, on) ==
    IF busy THEN "starting"
    ELSE IF failed THEN "failed"
    ELSE IF ~on THEN "off"
    ELSE IF link = "addressed" THEN "connected" ELSE "associating"

(* Defect: a change of the Wi-Fi state does not mark the panel. *)
ReadoutsQuiet(p, marked) ==
    LET q == [p EXCEPT !.wifi = WifiState(status', phase' = "running", exit', wanted')]
    IN  /\ panel' = q
        /\ dirty' = (dirty \/ marked \/ p.brightness # panel.brightness)
        /\ stale' = (stale \/ q # panel)

(* readouts, of a panel that became p and was marked by the touch or not;
   a new brightness marks it too. *)
Readouts(p, marked) ==
    LET q == [p EXCEPT !.wifi = WifiState(status', phase' = "running", exit', wanted')]
    IN  /\ panel' = q
        /\ dirty' = (dirty \/ marked \/ p.brightness # panel.brightness
                     \/ q.wifi # p.wifi)
        /\ stale' = (stale \/ q # panel)

(* apply: levels below 8 are no levels. *)
Applied(p, l) == IF l < 8 THEN p ELSE [p EXCEPT !.brightness = Clamped(l)]

(* backlight_set: the write may fail, and nothing tries again. *)
Light(l) ==
    IF l < 8 THEN UNCHANGED <<lit, written>>
    ELSE \/ lit' = Clamped(l) /\ written' = TRUE
         \/ UNCHANGED lit /\ written' = FALSE

(* reset_deadline *)
Deadline(minutes) == IF minutes = 0 THEN None ELSE minutes

Touched == left' = Deadline(panel.minutes) /\ quiet' = 0

(* What a reading of the interface yields. *)
Link(r) == IF r = "linked" THEN {"level", "addressed"} ELSE {"none"}

(* backlight_get at a level: it may not be readable. *)
Found(level) == {level, None}

Init ==
    /\ at = "input" /\ asleep = FALSE /\ sleepAsked = FALSE
    /\ settings \in [brightness : Stored, auto : BOOLEAN]
    /\ radio \in {"gone", "there", "linked"} /\ status \in Link(radio)
    /\ wanted = (status # "none") /\ exit = FALSE
    /\ asked = FALSE /\ seen = wanted
    /\ phase = "idle" /\ outcome = "ok" /\ script = None
    /\ \E found \in Levels, minutes \in Timers : \E initial \in Found(found) :
        LET level == IF settings.auto /\ initial # None THEN initial
                     ELSE Clamped(settings.brightness)
        IN  /\ panel = [brightness |-> level, auto |-> settings.auto,
                        minutes |-> minutes,
                        wifi |-> WifiState(status, FALSE, exit, wanted)]
            /\ left = Deadline(minutes)
            /\ lit \in {found, level} /\ written = (lit = level)
    /\ dirty = TRUE /\ stale = TRUE
    /\ finger = None /\ quiet = 0
    /\ onBattery \in BOOLEAN

-----------------------------------------------------------------------------
(* What the user does; nothing is taken once sleep is asked for. *)
Awake == at = "input" /\ ~asleep /\ ~sleepAsked
Tap == Awake /\ finger = None /\ Touched

TouchCube ==
    /\ Awake /\ Touched
    /\ UNCHANGED <<at, asleep, sleepAsked, panelVars, brightVars, onBattery,
                   jobVars, wifiVars, radio>>

(* Defect: a drag that ends Auto takes the level of the settings. *)
TakenUnheld(l) == IF l # panel.brightness THEN l ELSE settings.brightness

(* The manual level after a touch at l: without Auto, a touch at the level
   that is shown changes nothing. *)
Taken(l) ==
    IF settings.auto \/ l # panel.brightness THEN l ELSE settings.brightness

(* A finger on the brightness tile, down or moved: CC_SET_AUTO 0 if Auto was
   on, and CC_SET_BRIGHTNESS. *)
Drag(l) ==
    LET taken == Taken(l)
        p == [panel EXCEPT !.auto = FALSE]
    IN  /\ Awake /\ Touched
        /\ UNCHANGED <<at, asleep, sleepAsked, onBattery, jobVars, wifiVars, radio>>
        /\ finger' = l
        /\ settings' = [brightness |-> taken, auto |-> FALSE]
        /\ IF settings.auto \/ l # panel.brightness
           THEN Light(taken) /\ Readouts(Applied(p, taken), TRUE)
           ELSE UNCHANGED <<lit, written, panelVars>>

Lift ==
    /\ Awake /\ finger # None
    /\ finger' = None
    /\ UNCHANGED <<at, asleep, sleepAsked, panelVars, settings, lit, written,
                   idleVars, jobVars, wifiVars, radio>>

(* CC_SET_AUTO from its tile: the policy's level, which it may not have, or
   the manual one. *)
TapAuto(policy) ==
    LET auto == ~settings.auto
        level == IF auto THEN policy ELSE settings.brightness
    IN  /\ Tap
        /\ UNCHANGED <<at, asleep, sleepAsked, finger, onBattery, jobVars,
                       wifiVars, radio>>
        /\ settings' = [settings EXCEPT !.auto = auto]
        /\ Light(level)
        /\ Readouts(Applied([panel EXCEPT !.auto = auto], level), TRUE)

(* CC_SET_SLEEP_MINUTES *)
TapTimer(minutes) ==
    /\ Awake /\ finger = None
    /\ UNCHANGED <<at, asleep, sleepAsked, brightVars, onBattery, jobVars,
                   wifiVars, radio>>
    /\ left' = Deadline(minutes) /\ quiet' = 0
    /\ Readouts([panel EXCEPT !.minutes = minutes], TRUE)

(* CC_SLEEP_NOW, or the power key. *)
AskSleep ==
    /\ Awake
    /\ sleepAsked' = TRUE
    /\ UNCHANGED <<at, asleep, panelVars, brightVars, idleVars, jobVars,
                   wifiVars, radio>>

(* CC_WIFI_TOGGLE: aw_start may fail, and does while the last command is
   not collected or still there. *)
TapWifi ==
    LET on == panel.wifi \in {"off", "failed"}
    IN  /\ Tap
        /\ \/ /\ script = None /\ Job!Start
              /\ script' = IF on THEN "up" ELSE "down"
              /\ wanted' = on /\ exit' = FALSE
              /\ asked' = on /\ seen' = FALSE
           \/ UNCHANGED <<jobVars, wanted, exit, asked, seen>>
        /\ UNCHANGED status
        /\ Readouts([panel EXCEPT !.wifi = IF on THEN "starting" ELSE "off"],
                    TRUE)
        /\ UNCHANGED <<at, asleep, sleepAsked, brightVars, onBattery, radio>>

-----------------------------------------------------------------------------
(* control_runtime_tick: aw_poll, *)
Poll ==
    /\ at = "input"
    /\ IF phase = "finished"
       THEN Job!Collect /\ exit' = (outcome # "ok")
       ELSE UNCHANGED <<phase, outcome, exit>>
    /\ at' \in {"read", "decide"}
    /\ UNCHANGED <<asleep, sleepAsked, panelVars, brightVars, idleVars, script,
                   status, wanted, asked, seen, radio>>

(* status_power_read_at: the battery alone feeds the tablet only if both
   supplies were read; that it does so from now on is a sign of life. *)
Supply ==
    /\ onBattery' \in BOOLEAN
    /\ left' = IF onBattery' /\ ~onBattery THEN Deadline(panel.minutes) ELSE left

(* status_read, at its own cadence and again for the policy, which has one
   only while the tablet is awake and on Auto. *)
Read ==
    /\ \/ at = "read" /\ at' = "adopt"
       \/ at = "decide" /\ ~asleep /\ settings.auto /\ at' = "adoptAgain"
    /\ status' \in Link(radio)
    /\ seen' = (seen \/ status' # "none")
    /\ Supply
    /\ UNCHANGED <<quiet, asleep, sleepAsked, panelVars, brightVars, jobVars, wanted,
                   exit, asked, radio>>

(* The worker is asked after the reading, not with it. *)
Adopts == status # "none" /\ phase # "running"

(* Defect: a tick without a reading adopts the link of an earlier one. *)
AdoptUnread ==
    /\ at \in {"adopt", "adoptAgain", "decide"}
    /\ wanted' = (wanted \/ Adopts)
    /\ at' = IF at = "adoptAgain" THEN "end" ELSE "decide"
    /\ UNCHANGED <<asleep, sleepAsked, panelVars, brightVars, idleVars,
                   jobVars, status, exit, asked, seen, radio>>

Adopt ==
    /\ at \in {"adopt", "adoptAgain"}
    /\ wanted' = (wanted \/ Adopts)
    /\ at' = IF at = "adopt" THEN "decide" ELSE "end"
    /\ UNCHANGED <<asleep, sleepAsked, panelVars, brightVars, idleVars,
                   jobVars, status, exit, asked, seen, radio>>

(* sleep_timer_due *)
Due == left = 0

(* power_policy_step if its reading was taken, readouts and the timer. *)
TickEnd(policy) ==
    LET level == IF at = "end" THEN policy ELSE 0
    IN  /\ at \in {"decide", "end"}
        /\ Light(level)
        /\ UNCHANGED <<settings, finger, idleVars, jobVars, wifiVars, radio>>
        /\ Readouts(Applied(panel, level), FALSE)
        /\ sleepAsked' = (sleepAsked \/ (~asleep /\ Due))
        /\ at' = "input"
        /\ UNCHANGED asleep

(* cc_paint_update: the texture shows every field that had changed. *)
PaintUpdate == stale' = FALSE

(* control_overlay_draw: a frame with the panel in it, unless a reading or
   the pace of a drag puts the painting off. *)
Paint ==
    /\ at = "input" /\ ~asleep /\ dirty
    /\ PaintUpdate /\ dirty' = FALSE
    /\ UNCHANGED <<at, asleep, sleepAsked, panel, brightVars, idleVars,
                   jobVars, wifiVars, radio>>

(* control_runtime_sleep and control_input_reset. *)
Sleep ==
    /\ at = "input" /\ ~asleep /\ sleepAsked
    /\ asleep' = TRUE /\ sleepAsked' = FALSE
    /\ finger' = None
    /\ dirty' = TRUE
    /\ UNCHANGED <<at, panel, stale, settings, lit, written, idleVars, jobVars,
                   wifiVars, radio>>

(* Defect: a wake leaves the timer where it was. *)
WakeUntouched ==
    /\ at = "input" /\ asleep
    /\ asleep' = FALSE
    /\ dirty' = TRUE
    /\ quiet' = 0
    /\ Light(panel.brightness)
    /\ UNCHANGED <<at, sleepAsked, panel, stale, settings, finger, left,
                   onBattery, jobVars, wifiVars, radio>>

(* The dark loop ends; control_runtime_wake follows with the first frame. *)
Wake ==
    /\ at = "input" /\ asleep
    /\ asleep' = FALSE
    /\ dirty' = TRUE
    /\ Touched
    /\ Light(panel.brightness)
    /\ UNCHANGED <<at, sleepAsked, panel, stale, settings, finger, onBattery,
                   jobVars, wifiVars, radio>>

-----------------------------------------------------------------------------
(* taq102-wifi up loads the driver, down stops its users and removes it;
   either may fail. *)
ScriptRuns ==
    /\ script \in {"up", "down"}
    /\ script' = "ended"
    /\ radio' \in IF script = "down" THEN {"gone", "there"}
                  ELSE IF radio = "gone" THEN {"gone", "there"} ELSE {radio}
    /\ UNCHANGED <<at, asleep, sleepAsked, panelVars, brightVars, idleVars,
                   phase, outcome, wifiVars>>

(* The worker's monitor reaps the script. *)
ScriptEnds ==
    /\ script = "ended"
    /\ script' = None
    /\ IF phase = "running" THEN Job!Complete ELSE UNCHANGED <<phase, outcome>>
    /\ UNCHANGED <<at, asleep, sleepAsked, panelVars, brightVars, idleVars,
                   wifiVars, radio>>

(* 45 seconds are over: the script is killed, but a command of it in the
   driver may still come to its end. *)
TimesOut ==
    /\ script # None /\ Job!Finish("failed")
    /\ script' \in {None, script}
    /\ UNCHANGED <<at, asleep, sleepAsked, panelVars, brightVars, idleVars,
                   wifiVars, radio>>

(* Links come and go, and the boot's own taq102-wifi loads the driver. *)
RadioMoves ==
    /\ radio' \in IF radio = "there" THEN {"linked"} ELSE {"there"}
    /\ UNCHANGED <<at, asleep, sleepAsked, panelVars, brightVars, idleVars,
                   jobVars, wifiVars>>

MinutePasses ==
    /\ at = "input" /\ (left \notin {None, 0} \/ quiet < MaxQuiet)
    /\ left' = IF left \in {None, 0} THEN left ELSE left - 1
    /\ quiet' = IF quiet < MaxQuiet THEN quiet + 1 ELSE quiet
    /\ UNCHANGED <<at, asleep, sleepAsked, panelVars, brightVars, onBattery,
                   jobVars, wifiVars, radio>>

User ==
    \/ TouchCube \/ Lift \/ AskSleep \/ TapWifi
    \/ \E l \in Levels : Drag(l)
    \/ \E l \in Levels \union {0} : TapAuto(l)
    \/ \E minutes \in Timers : TapTimer(minutes)

Ticking ==
    \/ Poll \/ Read \/ Adopt
    \/ \E l \in Levels \union {0} : TickEnd(l)

Outside == ScriptRuns \/ ScriptEnds \/ TimesOut \/ RadioMoves \/ MinutePasses

Next == User \/ Ticking \/ Paint \/ Sleep \/ Wake \/ Outside

Spec == Init /\ [][Next]_vars

-----------------------------------------------------------------------------
TypeOK ==
    /\ at \in {"input", "read", "adopt", "decide", "adoptAgain", "end"}
    /\ asleep \in BOOLEAN /\ sleepAsked \in BOOLEAN
    /\ settings \in [brightness : Stored \union Levels, auto : BOOLEAN]
    /\ panel \in [brightness : Levels, auto : BOOLEAN, minutes : Timers,
                  wifi : Shown]
    /\ dirty \in BOOLEAN /\ stale \in BOOLEAN /\ written \in BOOLEAN
    /\ finger \in Levels \union {None} /\ lit \in Levels
    /\ left \in {None} \union UNION {0 .. t : t \in Timers}
    /\ status \in Links /\ onBattery \in BOOLEAN /\ quiet \in 0 .. MaxQuiet
    /\ {wanted, exit, asked, seen} \subseteq BOOLEAN
    /\ phase \in {"idle", "running", "finished"} /\ outcome \in {"ok", "failed"}
    /\ script \in {None, "up", "down", "ended"}
    /\ radio \in {"gone", "there", "linked"}

(* The panel, the settings, the finger and the backlight agree on the
   brightness after any order of drags, Auto, decisions of the policy, sleeps
   and wakes: Auto is what the settings say, a dragged level is taken at once,
   without Auto the manual level is shown, and unless its write failed the
   hardware has what the panel shows. *)
LevelsAgree ==
    /\ panel.auto = settings.auto
    /\ finger # None => ~settings.auto /\ panel.brightness = finger
    /\ ~settings.auto => panel.brightness = Clamped(settings.brightness)
    /\ written => lit = panel.brightness

(* Wi-Fi that the user turned off, or never asked for, is wanted again only
   once a link was read since: "Adopt an observed link instead"
   (control_runtime.c:39). *)
AdoptedWasSeen == wanted /\ ~asked => seen

(* No change of the panel is lost to its texture: what the texture does not
   show is marked, whoever changed it, so that the next frame repaints it. *)
ChangesAreMarked == stale => dirty

(* The timer puts out only a screen that nobody touched and that was not
   woken for as long as it is set to, however often it was set, the cable was
   pulled or the tablet slept in between. *)
TimerIsPatient ==
    [][at # "input" /\ sleepAsked' /\ ~sleepAsked
        => panel.minutes # 0 /\ quiet >= panel.minutes]_vars
=============================================================================
