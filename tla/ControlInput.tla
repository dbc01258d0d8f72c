---------------------------- MODULE ControlInput ----------------------------
(***************************************************************************)
(* control_input.c with the touch router and the panel it feeds, and what  *)
(* the main loop does to them: frames, sleep, wake, and the turn of the    *)
(* tablet.  An event of the decoder is routed with the panel's visibility  *)
(* of that moment, opens or closes the panel, and acts on it.              *)
(*                                                                         *)
(* The decoder's stream is legal (TouchInput: StreamAlternates); down is   *)
(* what it has announced.  Of the runtime behind the panel only the sleep  *)
(* request is kept here, and the Wi-Fi state it writes into the panel.     *)
(***************************************************************************)
EXTENDS ControlCenter, FiniteSets

CONSTANTS
    InitialLevel, InitialMinutes,   \* the settings at start; for Auto,
    InitialAuto,                    \* a set of them
    WifiReadings                    \* what the telemetry may say of the Wi-Fi

ASSUME InitialAssumption ==
    /\ InitialLevel \in Levels /\ InitialMinutes \in Minutes
    /\ InitialAuto \subseteq BOOLEAN
    /\ WifiReadings \subseteq WifiStates

INSTANCE TouchRouter

VARIABLES
    router, panel,      \* input->router, r->panel
    down,               \* the contacts the decoder has announced
    sleepRequested,     \* r->sleep_requested
    mode,               \* "first" until a frame is shown, "awake", "asleep"
    tapped              \* history: how long ago a panel contact last ended on
                        \* each reboot tile

vars == <<router, panel, down, sleepRequested, mode, tapped>>

RebootTiles == {"rescue", "loader"} \intersect Tiles
NoTaps == [t \in RebootTiles |-> ArmTicks]

(* The touch events of slot s, with the fields their handlers read. *)
EventsOf(s) ==
    LET Event(kind, place, drag, level, paint) ==
            [kind |-> kind, slot |-> s, place |-> place, drag |-> drag,
             level |-> level, paint |-> paint]
    IN  {Event("DOWN", place, "none", level, FALSE) :
            place \in Places, level \in Levels}
        \union {Event("MOVE", "outside", drag, level, paint) :
            drag \in Drags, level \in Levels, paint \in BOOLEAN}
        \union {Event("UP", place, drag, level, FALSE) :
            place \in Places, drag \in {"none", "up"}, level \in Levels}
        \union {Event("CANCEL", "outside", "none", InitialLevel, FALSE)}

Events == UNION {EventsOf(s) : s \in Slots}

Legal(e) == (e.kind = "DOWN") <=> ~down[e.slot]

Init ==
    /\ router = RouterInit
    /\ \E auto \in InitialAuto :
            panel = PanelInit(InitialLevel, auto, InitialMinutes)
    /\ down = [s \in Slots |-> FALSE]
    /\ sleepRequested = FALSE
    /\ mode = "first"
    /\ tapped = NoTaps

-----------------------------------------------------------------------------
(* control_input_feed of one event: the next router, the next panel and the
   actions the panel emits. *)
Fed(e) ==
    LET ticked == Tick(panel)
        routed == RouterFeed(SetPanelOpen(router, Visible(ticked)), e)
        opened == IF routed.open THEN Open(ticked) ELSE ticked
        handled == IF routed.panel THEN Handle(opened, e)
                   ELSE Acted(opened, <<>>)
    IN  [router |-> routed.router,
         panel |-> IF routed.close THEN Close(handled.panel)
                   ELSE handled.panel,
         acts |-> handled.acts]

Emits(f, action) == \E i \in DOMAIN f.acts : f.acts[i].action = action

(* What a touch or a turn leaves of the tap that precedes a confirmation:
   nothing, once the panel has closed. *)
TapsAfter(taps, m) == IF panel.open /\ ~m.open THEN NoTaps ELSE taps

Announce(e) == down' = [down EXCEPT ![e.slot] = (e.kind \in {"DOWN", "MOVE"})]

Touch(e) ==
    LET f == Fed(e)
        isTap == e.kind = "UP" /\ e.place \in RebootTiles
                 /\ router.contact[e.slot].owner = "PANEL"
    IN  /\ mode # "asleep" /\ ~sleepRequested
        /\ Legal(e) /\ Announce(e)
        /\ router' = f.router /\ panel' = f.panel
        /\ sleepRequested' = Emits(f, "SLEEP_NOW")
        /\ tapped' = TapsAfter(IF isTap THEN [tapped EXCEPT ![e.place] = 0]
                               ELSE tapped, f.panel)
        /\ UNCHANGED mode

(* Events that are read once sleep is requested, or in the dark, are lost. *)
LostTouch(e) ==
    /\ mode = "asleep" \/ sleepRequested
    /\ Legal(e) /\ Announce(e)
    /\ UNCHANGED <<router, panel, sleepRequested, mode, tapped>>

(* A pass of the main loop without an event: cc_tick and the readouts; while
   the panel is dark nothing tells the router. *)
Frame ==
    LET ticked == Tick(panel)
    IN  /\ \E w \in WifiReadings : panel' = [ticked EXCEPT !.wifi = w]
        /\ router' = IF mode = "asleep" THEN router
                     ELSE SetPanelOpen(router, Visible(ticked))
        /\ UNCHANGED <<down, sleepRequested, mode, tapped>>

(* The power key, or the idle timer. *)
RequestSleep ==
    /\ mode # "asleep" /\ ~sleepRequested
    /\ sleepRequested' = TRUE
    /\ UNCHANGED <<router, panel, down, mode, tapped>>

(* control_input_reset: the decoder's contacts are cancelled unseen. *)
ResetPanel(m) ==
    LET cancel == [kind |-> "CANCEL", slot |-> m.slot]
        n == IF m.slot = NoSlot THEN m ELSE Handle(m, cancel).panel
    IN  Disarm(n)

Reset(m) ==
    /\ router' = RouterReset(router)
    /\ panel' = ResetPanel(m)
    /\ down' = [s \in Slots |-> FALSE]
    /\ tapped' = NoTaps

(* Defect: the slide goes on in the dark. *)
SleepSliding ==
    /\ mode = "awake" /\ sleepRequested
    /\ Reset(Close(panel))
    /\ sleepRequested' = FALSE
    /\ mode' = "asleep"

(* control_runtime_sleep, control_input_reset, and the screen goes dark. *)
Sleep ==
    /\ mode = "awake" /\ sleepRequested
    /\ Reset([Close(panel) EXCEPT !.slide = FALSE, !.from = FALSE])
    /\ sleepRequested' = FALSE
    /\ mode' = "asleep"

Wake ==
    /\ mode = "asleep"
    /\ Reset(panel)
    /\ mode' = "first"
    /\ UNCHANGED sleepRequested

(* Three accelerometer votes turn the picture. *)
Turn ==
    /\ mode # "asleep"
    /\ Reset(panel)
    /\ UNCHANGED <<sleepRequested, mode>>

(* The first frame after start or wake is on the screen. *)
FirstShown ==
    /\ mode = "first"
    /\ mode' = "awake"
    /\ UNCHANGED <<router, panel, down, sleepRequested, tapped>>

Elapse ==
    /\ panel' = Older(panel)
    /\ tapped' = [t \in RebootTiles |-> IF tapped[t] < ArmTicks
                                        THEN tapped[t] + 1 ELSE ArmTicks]
    /\ UNCHANGED <<router, down, sleepRequested, mode>>

Next ==
    \/ \E e \in Events : Touch(e) \/ LostTouch(e)
    \/ Frame
    \/ RequestSleep
    \/ Sleep
    \/ Wake
    \/ Turn
    \/ FirstShown
    \/ Elapse

Spec == Init /\ [][Next]_vars

(* The main loop goes round and the clock runs. *)
FairSpec == Spec /\ WF_vars(Frame) /\ WF_vars(Elapse)

-----------------------------------------------------------------------------
Shown == panel.open \/ panel.slide

TypeOK ==
    /\ router \in Routers
    /\ panel \in Panels
    /\ down \in [Slots -> BOOLEAN]
    /\ sleepRequested \in BOOLEAN
    /\ mode \in {"first", "awake", "asleep"}
    /\ tapped \in [RebootTiles -> 0 .. ArmTicks]

(* The router holds a contact exactly as long as the decoder does. *)
RouterTracksContacts ==
    ~sleepRequested /\ mode # "asleep" =>
        /\ \A s \in Slots : down[s] <=> router.contact[s].owner # "NONE"
        /\ \A s \in Slots : router.cube[s] <=> router.contact[s].owner = "CUBE"
        /\ router.primary # NoSlot =>
              router.contact[router.primary].owner \in {"CANDIDATE", "PANEL"}

(* "owns capture from first contact to release" (docs/journal.md:952): a
   contact is never handed from one owner to another. *)
OwnerKeepsContact ==
    [][\A s \in Slots :
        LET was == router.contact[s].owner
            is == router'.contact[s].owner
        IN  was = "NONE" \/ is = "NONE" \/ was = is]_vars

(* "while the panel is visible every contact is the panel's"
   (docs/journal.md:954): none becomes the cube's then. *)
VisiblePanelTakesContacts ==
    [][\A s \in Slots :
        router'.cube[s] /\ ~router.cube[s] => ~Shown']_vars

(* Rescue and Loader reboot the tablet.  It takes two contacts that end on
   the tile, less than ArmTicks apart, and no close, turn or sleep between. *)
RebootIsConfirmed ==
    \A e \in Events :
        mode # "asleep" /\ ~sleepRequested /\ Legal(e)
        /\ Emits(Fed(e), "REBOOT") =>
            /\ e.kind = "UP" /\ e.place \in RebootTiles
            /\ tapped[e.place] < ArmTicks

(* "silence cancels a contact instead of releasing it, so a finger resting
   on a button cannot press it" (docs/journal.md:951). *)
CancelActsOnNothing ==
    \A e \in Events :
        e.kind = "CANCEL" /\ down[e.slot] =>
            LET f == Fed(e)
                ticked == Tick(panel)
            IN  /\ f.acts = <<>>
                /\ f.panel \in {ticked, Release(ticked)}

(* In the dark nothing of the panel is left that a wake could show, fire or
   confirm, and no contact of before reaches the cube. *)
DarkIsQuiet ==
    mode = "asleep" =>
        /\ ~Shown /\ panel.armed = "none" /\ panel.slot = NoSlot
        /\ \A s \in Slots : router.contact[s] = NoContact /\ ~router.cube[s]

(* A panel that was closed disappears, or is opened again: whatever touches,
   turns and sleeps come, the cube gets its contacts back. *)
ClosedPanelHides ==
    ~panel.open ~> (panel.open \/ ~Shown)

(* "control_input_reset(...); assert(... r.panel.capture_slot < 0)"
   (tests/control-centre/runtime_test.c:114). *)
ResetReleasesCapture == [][Turn => panel'.slot = NoSlot]_vars
==============================================================================
