---------------------------- MODULE ControlCenter ----------------------------
(***************************************************************************)
(* control_center.c: the model of the settings panel -- its slide, the one *)
(* contact it captures, its tiles, and the two taps Rescue and Loader need *)
(* before the tablet reboots.  The operators map a panel state to the next *)
(* one and to the actions it emits; the modules that compose the panel     *)
(* hold the state.                                                         *)
(*                                                                         *)
(* Time is kept as ages, in ticks, of the three moments the code stores:   *)
(* an age stops growing at the limit it is compared with, and elapsed(now, *)
(* then, limit) is age = limit.  The slide is only known to be zero or     *)
(* positive (cc_visible asks no more), as is the point it started from.    *)
(* Telemetry shown in the panel and the dirty flag are left out.           *)
(***************************************************************************)
EXTENDS Naturals, Sequences

CONSTANTS
    Slots, NoSlot, Tiles,       \* as in TouchRouter
    Timers,         \* the minutes of each timer segment; its domain is in Tiles
    Levels,         \* brightness levels
    Minutes,        \* choices of the sleep timer
    SlideTicks,     \* 180 ms: the slide
    TapTicks,       \* 401 ms: a longer press is no tap
    ArmTicks        \* 3000 ms: the second tap comes before

ASSUME TickAssumption ==
    /\ SlideTicks \in Nat \ {0} /\ TapTicks \in Nat \ {0}
    /\ ArmTicks \in Nat \ {0}

ASSUME SlotAssumption == NoSlot \notin Slots

ASSUME TimerAssumption == \A t \in DOMAIN Timers : Timers[t] \in Minutes

Captures == Tiles \union {"none", "outside"}
Arms == {"none", "rescue", "loader"}
WifiStates == {"off", "failed", "starting", "up"}

Panels ==
    [open : BOOLEAN, slide : BOOLEAN, from : BOOLEAN,
     slideAge : 0 .. SlideTicks,
     brightness : Levels, pending : Levels, dragging : BOOLEAN,
     auto : BOOLEAN, minutes : Minutes, wifi : WifiStates,
     armed : Arms, armAge : 0 .. ArmTicks,
     slot : Slots \union {NoSlot}, tile : Captures, tapAge : 0 .. TapTicks]

(* cc_init *)
PanelInit(brightness, auto, minutes) ==
    [open |-> FALSE, slide |-> FALSE, from |-> FALSE,
     slideAge |-> SlideTicks,
     brightness |-> brightness, pending |-> brightness, dragging |-> FALSE,
     auto |-> auto, minutes |-> minutes, wifi |-> "off",
     armed |-> "none", armAge |-> 0,
     slot |-> NoSlot, tile |-> "none", tapAge |-> 0]

(* A tick of the clock, seen by the three ages. *)
Older(m) ==
    LET Grown(age, limit) == IF age < limit THEN age + 1 ELSE age
    IN  [m EXCEPT
            !.slideAge = Grown(@, SlideTicks),
            !.armAge = IF m.armed = "none" THEN 0 ELSE Grown(@, ArmTicks),
            !.tapAge = IF m.slot = NoSlot THEN 0 ELSE Grown(@, TapTicks)]

(* release *)
Release(m) == [m EXCEPT !.slot = NoSlot, !.tile = "none", !.tapAge = 0,
                        !.dragging = FALSE]

(* disarm *)
Disarm(m) == [m EXCEPT !.armed = "none", !.armAge = 0]

(* slide_tick: at its start the slide is where it came from, at its limit
   where it goes; in between it is zero only if both of these are. *)
SlideTick(m) ==
    [m EXCEPT !.slide = CASE m.slideAge = 0 -> m.from
                          [] m.slideAge = SlideTicks -> m.open
                          [] OTHER -> m.from \/ m.open]

StartSlide(m, open) ==
    LET n == SlideTick(m)
    IN  [n EXCEPT !.from = n.slide, !.slideAge = 0, !.open = open]

(* cc_open *)
Open(m) == IF m.open THEN m ELSE StartSlide(m, TRUE)

(* Defects: closing keeps a confirmation armed; closing a closed panel
   starts its slide again. *)
CloseArmed(m) ==
    LET n == Release(m)
    IN  IF n.open THEN StartSlide(n, FALSE) ELSE n

CloseAgain(m) == StartSlide(Release(Disarm(m)), FALSE)

(* cc_close *)
Close(m) ==
    LET n == Release(Disarm(m))
    IN  IF n.open THEN StartSlide(n, FALSE) ELSE n

(* Defect: the panel gives its contacts away while it still slides. *)
VisibleIfOpen(m) == m.open

(* cc_visible *)
Visible(m) == m.open \/ m.slide

(* cc_tick *)
Tick(m) ==
    LET n == SlideTick(m)
    IN  IF n.armed # "none" /\ n.armAge = ArmTicks THEN Disarm(n) ELSE n

(* What cc_handle returns: the next state and the actions emitted. *)
Acted(m, acts) == [panel |-> m, acts |-> acts]
Act(name, arg) == [action |-> name, arg |-> arg]

(* brightness(): take over the pending level, if it is another one. *)
TakeBrightness(m) ==
    IF m.pending = m.brightness THEN Acted(m, <<>>)
    ELSE Acted([m EXCEPT !.brightness = m.pending],
               <<Act("SET_BRIGHTNESS", m.pending)>>)

(* Defect: the places outside the panel are not told apart from tiles. *)
HitAnything(place) == place

(* hit: what lies at a place. *)
Hit(place) == IF place = "blank" THEN "none"
              ELSE IF place \in Tiles THEN place ELSE "outside"

(* TOUCH_DOWN: the contact is captured unless another one is. *)
HandleDown(m, e) ==
    LET captured == [m EXCEPT !.slot = e.slot, !.tapAge = 0,
                              !.tile = Hit(e.place)]
        drag == TakeBrightness([captured EXCEPT
                    !.dragging = TRUE, !.auto = FALSE, !.pending = e.level])
    IN  IF m.slot # NoSlot THEN Acted(m, <<>>)
        ELSE IF e.place # "bright" THEN Acted(captured, <<>>)
        ELSE Acted(drag.panel,
                   (IF m.auto THEN <<Act("SET_AUTO", FALSE)>> ELSE <<>>)
                   \o drag.acts)

(* A MOVE or UP of the contact that drags the brightness column.  A MOVE
   takes effect when 33 ms passed since the last one that did (e.paint). *)
HandleDrag(m, e) ==
    LET dragged == [m EXCEPT !.pending = e.level]
        taken == TakeBrightness(dragged)
    IN  IF e.kind = "UP"
        THEN Acted(Release(taken.panel),
                   Append(taken.acts, Act("SAVE_SETTINGS", 0)))
        ELSE IF e.paint THEN taken ELSE Acted(dragged, <<>>)

(* Rescue and Loader: the second tap on the armed tile is the real one. *)
TapReboot(m, arm) ==
    IF m.armed = arm /\ m.armAge < ArmTicks
    THEN Acted(Disarm(m), <<Act("REBOOT", arm)>>)
    ELSE Acted([m EXCEPT !.armed = arm, !.armAge = 0], <<>>)

(* A completed tap on a tile, the capture already released. *)
Tap(m, tile) ==
    CASE tile = "auto" ->
            Acted([m EXCEPT !.auto = ~@],
                  <<Act("SET_AUTO", ~m.auto), Act("SAVE_SETTINGS", 0)>>)
      [] tile \in DOMAIN Timers ->
            Acted([m EXCEPT !.minutes = Timers[tile]],
                  <<Act("SET_SLEEP_MINUTES", Timers[tile]),
                    Act("SAVE_SETTINGS", 0)>>)
      [] tile = "wifi" ->
            LET wanted == m.wifi \in {"off", "failed"}
            IN  Acted([m EXCEPT !.wifi = IF wanted THEN "starting" ELSE "off"],
                      <<Act("WIFI_TOGGLE", wanted)>>)
      [] tile = "off" -> Acted(Close(m), <<Act("SLEEP_NOW", 0)>>)
      [] tile \in {"rescue", "loader"} -> TapReboot(m, tile)
      [] OTHER -> Acted(m, <<>>)

(* TOUCH_UP: a tap if it is short and ends on the tile it began on. *)
HandleUp(m, e) ==
    LET released == Release(m)
    IN  IF m.tile = "outside" THEN Acted(Close(released), <<>>)
        ELSE IF m.tapAge < TapTicks /\ m.tile = Hit(e.place)
        THEN Tap(released, m.tile)
        ELSE Acted(released, <<>>)

(* Defect: a drag does not ask whether its contact was cancelled. *)
HandleDragFirst(m, e) ==
    IF ~Visible(m) THEN Acted(m, <<>>)
    ELSE IF e.kind = "DOWN" THEN HandleDown(m, e)
    ELSE IF m.slot = NoSlot \/ e.slot # m.slot THEN Acted(m, <<>>)
    ELSE IF m.dragging THEN HandleDrag(m, e)
    ELSE IF e.kind = "CANCEL" THEN Acted(Release(m), <<>>)
    ELSE IF m.tile = "handle" /\ e.drag = "up" THEN Acted(Close(m), <<>>)
    ELSE IF e.kind = "UP" THEN HandleUp(m, e)
    ELSE Acted(m, <<>>)

(* handle, and cc_handle with room for its three actions. *)
Handle(m, e) ==
    IF ~Visible(m) THEN Acted(m, <<>>)
    ELSE IF e.kind = "DOWN" THEN HandleDown(m, e)
    ELSE IF m.slot = NoSlot \/ e.slot # m.slot THEN Acted(m, <<>>)
    ELSE IF e.kind = "CANCEL" THEN Acted(Release(m), <<>>)
    ELSE IF m.dragging THEN HandleDrag(m, e)
    ELSE IF m.tile = "handle" /\ e.drag = "up" THEN Acted(Close(m), <<>>)
    ELSE IF e.kind = "UP" THEN HandleUp(m, e)
    ELSE Acted(m, <<>>)
==============================================================================
