------------------------- MODULE ControlRuntimeProofs -------------------------
(***************************************************************************)
(* Proofs about ControlRuntime, for every range of levels, every stored    *)
(* brightness and every set of timers.  The properties are not inductive   *)
(* by themselves: added is what a tick has established when it stands      *)
(* between two of its steps, and how the time that is left relates to the  *)
(* time that has passed.                                                   *)
(***************************************************************************)
EXTENDS ControlRuntime, TLAPS

(* A tick between its steps: the reading it adopts is the one it noted, and
   the policy is asked only on Auto. *)
TickInv ==
    /\ at \in {"adopt", "adoptAgain"} /\ status # "none" => seen
    /\ at \in {"adoptAgain", "end"} => settings.auto

(* A deadline is never sooner than a whole timer after the last touch. *)
TimerInv ==
    left # None => /\ left \in 0 .. panel.minutes /\ panel.minutes # 0
                   /\ quiet + left >= panel.minutes

IInv == /\ TypeOK /\ LevelsAgree /\ AdoptedWasSeen /\ ChangesAreMarked
        /\ TickInv /\ TimerInv

Panels == [brightness : Levels, auto : BOOLEAN, minutes : Timers, wifi : Shown]

-----------------------------------------------------------------------------
(* A level that is taken is one of the panel's. *)
LEMMA ClampedLevel ==
    ASSUME NEW l \in Stored \union Levels
    PROVE  /\ l \in Nat /\ l >= 8 /\ Clamped(l) \in Levels
           /\ (l \in Levels => Clamped(l) = l)
BY RuntimeAssumption DEF Clamped, Levels

(* Whatever is given to apply, the panel and the backlight take one level. *)
LEMMA AppliedLit ==
    ASSUME NEW p \in Panels, NEW l \in Stored \union Levels \union {0}, Light(l),
           lit \in Levels, written \in BOOLEAN,
           written => lit = p.brightness
    PROVE  /\ Applied(p, l) \in Panels
           /\ Applied(p, l).auto = p.auto /\ Applied(p, l).minutes = p.minutes
           /\ Applied(p, l).wifi = p.wifi
           /\ Applied(p, l).brightness =
                IF l = 0 THEN p.brightness ELSE Clamped(l)
           /\ lit' \in Levels /\ written' \in BOOLEAN
           /\ written' => lit' = Applied(p, l).brightness
<1>1. CASE l = 0
  BY <1>1 DEF Applied, Light, Panels
<1>2. CASE l # 0
  <2>1. l \in Nat /\ l >= 8 /\ Clamped(l) \in Levels
    BY <1>2, ClampedLevel
  <2>2. Applied(p, l) = [p EXCEPT !.brightness = Clamped(l)]
    BY <2>1 DEF Applied
  <2>3. \/ lit' = Clamped(l) /\ written' = TRUE
        \/ lit' = lit /\ written' = FALSE
    BY <2>1 DEF Light
  <2> QED
    BY <1>2, <2>1, <2>2, <2>3 DEF Panels
<1> QED
  BY <1>1, <1>2

(* readouts changes only the Wi-Fi state of the panel it is given, and marks
   the panel whenever that differs from what was shown. *)
LEMMA ReadoutsMarks ==
    ASSUME NEW p \in Panels, NEW marked \in BOOLEAN, Readouts(p, marked),
           dirty \in BOOLEAN, stale \in BOOLEAN, ChangesAreMarked,
           panel \in Panels,
           marked \/ /\ p.auto = panel.auto /\ p.minutes = panel.minutes
                     /\ p.wifi = panel.wifi
    PROVE  /\ panel' \in Panels
           /\ panel'.auto = p.auto /\ panel'.minutes = p.minutes
           /\ panel'.brightness = p.brightness
           /\ dirty' \in BOOLEAN /\ stale' \in BOOLEAN
           /\ ChangesAreMarked'
<1> DEFINE state == WifiState(status', phase' = "running", exit', wanted')
           q == [p EXCEPT !.wifi = state]
<1>1. state \in Shown
  BY DEF WifiState, Shown
<1>2. /\ panel' = q /\ stale' = (stale \/ q # panel)
      /\ dirty' = (dirty \/ marked \/ p.brightness # panel.brightness
                   \/ q.wifi # p.wifi)
  BY DEF Readouts
<1>3. /\ q \in Panels /\ q.auto = p.auto /\ q.minutes = p.minutes
      /\ q.brightness = p.brightness
  BY <1>1 DEF Panels
<1>4. q # panel => \/ marked \/ p.brightness # panel.brightness
                   \/ q.wifi # p.wifi
  BY <1>3 DEF Panels
<1> HIDE DEF q
<1> QED
  BY <1>2, <1>3, <1>4 DEF ChangesAreMarked

(* The timer starts over. *)
LEMMA TouchedStarts ==
    ASSUME NEW minutes \in Timers
    PROVE  /\ Deadline(minutes) \in {None} \union UNION {0 .. t : t \in Timers}
           /\ Deadline(minutes) # None =>
                /\ Deadline(minutes) \in 0 .. minutes /\ minutes # 0
                /\ 0 + Deadline(minutes) >= minutes
           /\ 0 \in 0 .. MaxQuiet /\ minutes \in 0 .. MaxQuiet
<1>1. minutes \in 0 .. MaxQuiet /\ MaxQuiet \in Nat
  BY RuntimeAssumption
<1>2. minutes \in 0 .. minutes
  BY <1>1
<1>3. minutes \in UNION {0 .. t : t \in Timers}
  BY <1>2
<1> QED
  BY <1>1, <1>2, <1>3 DEF Deadline

-----------------------------------------------------------------------------
LEMMA InitIInv == Init => IInv
<1> SUFFICES ASSUME Init PROVE IInv
  OBVIOUS
<1>1. PICK found \in Levels, minutes \in Timers : \E initial \in Found(found) :
        LET level == IF settings.auto /\ initial # None THEN initial
                     ELSE Clamped(settings.brightness)
        IN  /\ panel = [brightness |-> level, auto |-> settings.auto,
                        minutes |-> minutes,
                        wifi |-> WifiState(status, FALSE, exit, wanted)]
            /\ left = Deadline(minutes)
            /\ lit \in {found, level} /\ written = (lit = level)
  BY DEF Init
<1>2. PICK initial \in Found(found) :
        LET level == IF settings.auto /\ initial # None THEN initial
                     ELSE Clamped(settings.brightness)
        IN  /\ panel = [brightness |-> level, auto |-> settings.auto,
                        minutes |-> minutes,
                        wifi |-> WifiState(status, FALSE, exit, wanted)]
            /\ left = Deadline(minutes)
            /\ lit \in {found, level} /\ written = (lit = level)
  BY <1>1
<1> DEFINE level == IF settings.auto /\ initial # None THEN initial
                    ELSE Clamped(settings.brightness)
<1>3. settings \in [brightness : Stored, auto : BOOLEAN]
  BY DEF Init
<1>4. level \in Levels
  <2>1. Clamped(settings.brightness) \in Levels
    BY <1>3, ClampedLevel
  <2> QED
    BY <2>1 DEF Found
<1>5. WifiState(status, FALSE, exit, wanted) \in Shown
  BY DEF WifiState, Shown
<1>6. panel \in Panels /\ panel.brightness = level /\ panel.minutes = minutes
      /\ panel.auto = settings.auto
  BY <1>2, <1>3, <1>4, <1>5 DEF Panels
<1>7. status \in Links /\ seen = (status # "none") /\ wanted = (status # "none")
  BY DEF Init, Link, Links
<1>8. TypeOK
  BY <1>2, <1>3, <1>4, <1>6, <1>7, TouchedStarts DEF Init, TypeOK, Panels
<1>9. LevelsAgree
  BY <1>2, <1>6 DEF Init, LevelsAgree
<1>10. TimerInv
  BY <1>2, <1>6, TouchedStarts DEF Init, TimerInv
<1> QED
  BY <1>7, <1>8, <1>9, <1>10 DEF Init, IInv, AdoptedWasSeen, ChangesAreMarked,
                                 TickInv

-----------------------------------------------------------------------------
(* A touch that leaves the panel's minutes alone starts the timer over. *)
LEMMA TouchedTimer ==
    ASSUME IInv, Touched, panel' \in Panels, panel'.minutes = panel.minutes
    PROVE  /\ TimerInv' /\ quiet' \in 0 .. MaxQuiet
           /\ left' \in {None} \union UNION {0 .. t : t \in Timers}
<1>1. panel.minutes \in Timers
  BY DEF IInv, TypeOK
<1> QED
  BY <1>1, TouchedStarts DEF Touched, TimerInv

LEMMA DragIInv ==
    ASSUME IInv, NEW l \in Levels, Drag(l)
    PROVE  IInv'
<1> DEFINE taken == Taken(l)
           p == [panel EXCEPT !.auto = FALSE]
<1> USE DEF IInv
<1>1. /\ taken \in Stored \union Levels /\ l \in Levels
      /\ p \in Panels /\ p.minutes = panel.minutes
      /\ p.brightness = panel.brightness /\ p.auto = FALSE
  BY DEF Taken, TypeOK, Panels
<1>2. settings' = [brightness |-> taken, auto |-> FALSE] /\ finger' = l
  BY DEF Drag
<1>3. CASE settings.auto \/ l # panel.brightness
  <2>1. taken = l /\ Clamped(taken) = l /\ taken # 0
    BY <1>3, ClampedLevel DEF Taken, Levels
  <2>2. Light(taken) /\ Readouts(Applied(p, taken), TRUE)
    BY <1>3 DEF Drag
  <2>3. /\ Applied(p, taken) \in Panels /\ Applied(p, taken).auto = FALSE
        /\ Applied(p, taken).minutes = panel.minutes
        /\ Applied(p, taken).brightness = l
        /\ lit' \in Levels /\ written' \in BOOLEAN
        /\ written' => lit' = l
    BY <1>1, <2>1, <2>2, AppliedLit DEF TypeOK, LevelsAgree
  <2>4. /\ panel' \in Panels /\ panel'.auto = FALSE
        /\ panel'.minutes = panel.minutes /\ panel'.brightness = l
        /\ dirty' \in BOOLEAN /\ stale' \in BOOLEAN /\ ChangesAreMarked'
    BY <2>2, <2>3, ReadoutsMarks DEF TypeOK, Panels
  <2>5. TimerInv' /\ quiet' \in 0 .. MaxQuiet
        /\ left' \in {None} \union UNION {0 .. t : t \in Timers}
    BY <2>4, TouchedTimer DEF Drag
  <2>6. TypeOK'
    BY <1>1, <1>2, <2>3, <2>4, <2>5
    DEF Drag, TypeOK, Panels, wifiVars, jobVars
  <2>7. LevelsAgree'
    BY <1>2, <2>1, <2>3, <2>4 DEF LevelsAgree
  <2>8. AdoptedWasSeen' /\ TickInv'
    BY DEF Drag, Awake, wifiVars, AdoptedWasSeen, TickInv
  <2> QED
    BY <2>4, <2>5, <2>6, <2>7, <2>8
<1>4. CASE ~settings.auto /\ l = panel.brightness
  <2>1. settings' = settings /\ UNCHANGED <<lit, written, panelVars>>
    BY <1>2, <1>4 DEF Drag, Taken, TypeOK
  <2>2. TimerInv' /\ quiet' \in 0 .. MaxQuiet
        /\ left' \in {None} \union UNION {0 .. t : t \in Timers}
    BY <2>1, TouchedTimer DEF Drag, TypeOK, Panels, panelVars
  <2>3. TypeOK'
    BY <1>2, <2>1, <2>2 DEF Drag, TypeOK, panelVars, wifiVars, jobVars
  <2> QED
    BY <1>2, <1>4, <2>1, <2>2, <2>3
    DEF Drag, Awake, panelVars, wifiVars, LevelsAgree, AdoptedWasSeen,
        ChangesAreMarked, TickInv
<1> QED
  BY <1>3, <1>4 DEF TypeOK

LEMMA TapAutoIInv ==
    ASSUME IInv, NEW policy \in Levels \union {0}, TapAuto(policy)
    PROVE  IInv'
<1> DEFINE auto == ~settings.auto
           level == IF auto THEN policy ELSE settings.brightness
           p == [panel EXCEPT !.auto = auto]
<1> USE DEF IInv
<1>1. /\ level \in Stored \union Levels \union {0}
      /\ auto \in BOOLEAN
      /\ p \in Panels /\ p.minutes = panel.minutes
      /\ p.brightness = panel.brightness /\ p.auto = auto
  BY DEF TypeOK, Panels
<1>2. /\ settings' = [settings EXCEPT !.auto = auto] /\ finger' = None
      /\ finger = None /\ Light(level) /\ Readouts(Applied(p, level), TRUE)
  BY DEF TapAuto, Tap
<1> HIDE DEF p
<1>3. /\ Applied(p, level) \in Panels /\ Applied(p, level).auto = auto
      /\ Applied(p, level).minutes = panel.minutes
      /\ Applied(p, level).brightness =
            IF level = 0 THEN panel.brightness ELSE Clamped(level)
      /\ lit' \in Levels /\ written' \in BOOLEAN
      /\ written' => lit' = Applied(p, level).brightness
  BY <1>1, <1>2, AppliedLit DEF TypeOK, LevelsAgree
<1>4. /\ panel' \in Panels /\ panel'.auto = auto
      /\ panel'.minutes = panel.minutes
      /\ panel'.brightness = Applied(p, level).brightness
      /\ dirty' \in BOOLEAN /\ stale' \in BOOLEAN /\ ChangesAreMarked'
  BY <1>2, <1>3, ReadoutsMarks DEF TypeOK, Panels
<1>5. TimerInv' /\ quiet' \in 0 .. MaxQuiet
      /\ left' \in {None} \union UNION {0 .. t : t \in Timers}
  BY <1>4, TouchedTimer DEF TapAuto, Tap
<1>6. /\ settings' \in [brightness : Stored \union Levels, auto : BOOLEAN]
      /\ settings'.auto = auto /\ settings'.brightness = settings.brightness
  BY <1>1, <1>2 DEF TypeOK
<1>7. TypeOK'
  BY <1>2, <1>3, <1>4, <1>5, <1>6
  DEF TapAuto, Tap, Awake, TypeOK, Panels, wifiVars, jobVars
<1>8. ~auto => /\ level = settings.brightness /\ level # 0
               /\ Applied(p, level).brightness = Clamped(settings.brightness)
  BY <1>1, <1>3, ClampedLevel DEF TypeOK
<1>9. LevelsAgree'
  BY <1>2, <1>3, <1>4, <1>6, <1>8 DEF LevelsAgree
<1>10. AdoptedWasSeen' /\ TickInv'
  BY DEF TapAuto, Tap, Awake, wifiVars, AdoptedWasSeen, TickInv
<1> QED
  BY <1>4, <1>5, <1>7, <1>9, <1>10

LEMMA TapTimerIInv ==
    ASSUME IInv, NEW minutes \in Timers, TapTimer(minutes)
    PROVE  IInv'
<1> DEFINE p == [panel EXCEPT !.minutes = minutes]
<1> USE DEF IInv
<1>1. /\ p \in Panels /\ p.minutes = minutes /\ p.auto = panel.auto
      /\ p.brightness = panel.brightness
  BY DEF TypeOK, Panels
<1>2. Readouts(p, TRUE) /\ left' = Deadline(minutes) /\ quiet' = 0
  BY DEF TapTimer
<1> HIDE DEF p
<1>3. /\ panel' \in Panels /\ panel'.auto = panel.auto
      /\ panel'.minutes = minutes /\ panel'.brightness = panel.brightness
      /\ dirty' \in BOOLEAN /\ stale' \in BOOLEAN /\ ChangesAreMarked'
  BY <1>1, <1>2, ReadoutsMarks DEF TypeOK, Panels
<1>4. TimerInv' /\ quiet' \in 0 .. MaxQuiet
      /\ left' \in {None} \union UNION {0 .. t : t \in Timers}
  BY <1>2, <1>3, TouchedStarts DEF TimerInv
<1>5. TypeOK'
  BY <1>3, <1>4 DEF TapTimer, TypeOK, Panels, wifiVars, jobVars, brightVars
<1> QED
  BY <1>3, <1>4, <1>5 DEF TapTimer, Awake, wifiVars, brightVars, LevelsAgree,
                          AdoptedWasSeen, TickInv

LEMMA TapWifiIInv ==
    ASSUME IInv, TapWifi
    PROVE  IInv'
<1> DEFINE on == panel.wifi \in {"off", "failed"}
           p == [panel EXCEPT !.wifi = IF on THEN "starting" ELSE "off"]
<1> USE DEF IInv
<1>1. /\ p \in Panels /\ p.minutes = panel.minutes /\ p.auto = panel.auto
      /\ p.brightness = panel.brightness
  BY DEF TypeOK, Panels, Shown
<1>2. Readouts(p, TRUE)
  BY DEF TapWifi
<1> HIDE DEF p
<1>3. /\ panel' \in Panels /\ panel'.auto = panel.auto
      /\ panel'.minutes = panel.minutes /\ panel'.brightness = panel.brightness
      /\ dirty' \in BOOLEAN /\ stale' \in BOOLEAN /\ ChangesAreMarked'
  BY <1>1, <1>2, ReadoutsMarks DEF TypeOK, Panels
<1>4. TimerInv' /\ quiet' \in 0 .. MaxQuiet
      /\ left' \in {None} \union UNION {0 .. t : t \in Timers}
  BY <1>3, TouchedTimer DEF TapWifi, Tap
<1>5. /\ phase' \in {"idle", "running", "finished"}
      /\ outcome' \in {"ok", "failed"}
      /\ script' \in {None, "up", "down", "ended"}
      /\ {wanted', exit', asked', seen'} \subseteq BOOLEAN
      /\ AdoptedWasSeen'
  <2>1. CASE /\ script = None /\ Job!Start
             /\ script' = IF on THEN "up" ELSE "down"
             /\ wanted' = on /\ exit' = FALSE
             /\ asked' = on /\ seen' = FALSE
    <3>1. on \in BOOLEAN
      OBVIOUS
    <3> HIDE DEF on
    <3>2. {wanted', exit', asked', seen'} \subseteq BOOLEAN
      BY <2>1, <3>1
    <3>3. AdoptedWasSeen'
      BY <2>1 DEF AdoptedWasSeen
    <3> QED
      BY <2>1, <3>2, <3>3 DEF Job!Start, TypeOK
  <2>2. CASE UNCHANGED <<jobVars, wanted, exit, asked, seen>>
    BY <2>2 DEF jobVars, TypeOK, AdoptedWasSeen
  <2> QED
    BY <2>1, <2>2 DEF TapWifi
<1>6. TypeOK'
  BY <1>3, <1>4, <1>5 DEF TapWifi, Tap, Awake, TypeOK, Panels, brightVars
<1> QED
  BY <1>3, <1>4, <1>5, <1>6 DEF TapWifi, Tap, Awake, brightVars, LevelsAgree,
                                TickInv

(* What the user does at the panel. *)
LEMMA UserIInv ==
    ASSUME IInv, User
    PROVE  IInv'
<1> USE DEF IInv
<1>1. CASE TouchCube
  <2>1. TimerInv' /\ quiet' \in 0 .. MaxQuiet
        /\ left' \in {None} \union UNION {0 .. t : t \in Timers}
    BY <1>1, TouchedTimer DEF TouchCube, TypeOK, Panels, panelVars
  <2>2. TypeOK'
    BY <1>1, <2>1 DEF TouchCube, TypeOK, panelVars, brightVars, jobVars, wifiVars
  <2> QED
    BY <1>1, <2>1, <2>2 DEF TouchCube, panelVars, brightVars, wifiVars,
        LevelsAgree, AdoptedWasSeen, ChangesAreMarked, TickInv
<1>2. CASE Lift
  BY <1>2 DEF Lift, TypeOK, panelVars, idleVars, jobVars, wifiVars,
      LevelsAgree, AdoptedWasSeen, ChangesAreMarked, TickInv, TimerInv
<1>3. CASE AskSleep
  BY <1>3 DEF AskSleep, TypeOK, panelVars, brightVars, idleVars, jobVars,
      wifiVars, LevelsAgree, AdoptedWasSeen, ChangesAreMarked, TickInv, TimerInv
<1> QED
  BY <1>1, <1>2, <1>3, DragIInv, TapAutoIInv, TapTimerIInv, TapWifiIInv DEF User

-----------------------------------------------------------------------------
(* A level from the policy, or none, on the panel that is awake or dark. *)
LEMMA TickEndIInv ==
    ASSUME IInv, NEW policy \in Levels \union {0}, TickEnd(policy)
    PROVE  IInv'
<1> DEFINE level == IF at = "end" THEN policy ELSE 0
           p == Applied(panel, level)
<1> USE DEF IInv
<1>1. /\ level \in Stored \union Levels \union {0} /\ panel \in Panels
      /\ level # 0 => level \in Levels /\ settings.auto
  BY DEF TypeOK, Panels, TickInv
<1>2. Light(level) /\ Readouts(p, FALSE)
  BY DEF TickEnd
<1>3. /\ p \in Panels /\ p.auto = panel.auto /\ p.minutes = panel.minutes
      /\ p.wifi = panel.wifi
      /\ p.brightness = IF level = 0 THEN panel.brightness ELSE Clamped(level)
      /\ lit' \in Levels /\ written' \in BOOLEAN
      /\ written' => lit' = p.brightness
  BY <1>1, <1>2, AppliedLit DEF TypeOK, LevelsAgree
<1> HIDE DEF p
<1>4. /\ panel' \in Panels /\ panel'.auto = panel.auto
      /\ panel'.minutes = panel.minutes /\ panel'.brightness = p.brightness
      /\ dirty' \in BOOLEAN /\ stale' \in BOOLEAN /\ ChangesAreMarked'
  BY <1>1, <1>2, <1>3, ReadoutsMarks DEF TypeOK
<1>5. TypeOK'
  BY <1>3, <1>4 DEF TickEnd, TypeOK, Panels, idleVars, jobVars, wifiVars
<1>6. LevelsAgree'
  BY <1>1, <1>3, <1>4 DEF TickEnd, LevelsAgree
<1>7. TimerInv' /\ AdoptedWasSeen' /\ TickInv'
  BY <1>4 DEF TickEnd, idleVars, wifiVars, TimerInv, AdoptedWasSeen, TickInv
<1> QED
  BY <1>4, <1>5, <1>6, <1>7

(* The steps of a tick. *)
LEMMA TickingIInv ==
    ASSUME IInv, Ticking
    PROVE  IInv'
<1> USE DEF IInv
<1>1. CASE Poll
  <2>1. /\ phase' \in {"idle", "running", "finished"}
        /\ outcome' \in {"ok", "failed"} /\ exit' \in BOOLEAN
    <3>1. CASE phase = "finished"
      BY <1>1, <3>1 DEF Poll, Job!Collect, TypeOK
    <3>2. CASE phase # "finished"
      BY <1>1, <3>2 DEF Poll, TypeOK
    <3> QED
      BY <3>1, <3>2
  <2>2. TypeOK'
    BY <1>1, <2>1 DEF Poll, TypeOK, panelVars, brightVars, idleVars
  <2> QED
    BY <1>1, <2>2 DEF Poll, panelVars, brightVars, idleVars, LevelsAgree,
        AdoptedWasSeen, ChangesAreMarked, TickInv, TimerInv
<1>2. CASE Read
  <2>1. left' \in {left, Deadline(panel.minutes)}
    BY <1>2 DEF Read, Supply
  <2>2. panel.minutes \in Timers /\ quiet \in Nat /\ MaxQuiet \in Nat
    BY RuntimeAssumption DEF TypeOK
  <2>3. /\ left' \in {None} \union UNION {0 .. t : t \in Timers}
        /\ TimerInv'
    <3>1. CASE left' = left
      BY <1>2, <3>1 DEF Read, panelVars, TypeOK, TimerInv
    <3>2. CASE left' = Deadline(panel.minutes)
      <4>1. panel.minutes \in Nat
        BY <2>2, TouchedStarts
      <4> QED
        BY <1>2, <2>2, <3>2, <4>1, TouchedStarts DEF Read, panelVars, TimerInv
    <3> QED
      BY <2>1, <3>1, <3>2
  <2>4. status' \in Links /\ seen' = (seen \/ status' # "none")
        /\ at' \in {"adopt", "adoptAgain"} /\ onBattery' \in BOOLEAN
    BY <1>2 DEF Read, Link, Links, Supply
  <2>5. TypeOK'
    BY <1>2, <2>3, <2>4 DEF Read, TypeOK, panelVars, brightVars, jobVars
  <2>6. TickInv' /\ AdoptedWasSeen'
    BY <1>2, <2>4 DEF Read, TickInv, AdoptedWasSeen, brightVars
  <2> QED
    BY <1>2, <2>3, <2>5, <2>6 DEF Read, panelVars, brightVars, LevelsAgree,
                                  ChangesAreMarked
<1>3. CASE Adopt
  <2>1. wanted' = (wanted \/ Adopts) /\ (Adopts => seen)
    BY <1>3 DEF Adopt, Adopts, TickInv
  <2>2. TypeOK'
    BY <1>3, <2>1 DEF Adopt, TypeOK, panelVars, brightVars, idleVars, jobVars
  <2>3. AdoptedWasSeen'
    BY <1>3, <2>1 DEF Adopt, AdoptedWasSeen
  <2> QED
    BY <1>3, <2>2, <2>3 DEF Adopt, panelVars, brightVars, idleVars,
        LevelsAgree, ChangesAreMarked, TickInv, TimerInv
<1> QED
  BY <1>1, <1>2, <1>3, TickEndIInv DEF Ticking

-----------------------------------------------------------------------------
(* The frames, the dark loop and the wake between them. *)
LEMMA ScreenIInv ==
    ASSUME IInv, Paint \/ Sleep \/ Wake
    PROVE  IInv'
<1> USE DEF IInv
<1>1. CASE Paint
  <2>1. TypeOK'
    <3>1. stale' \in BOOLEAN /\ dirty' \in BOOLEAN
      BY <1>1 DEF Paint, PaintUpdate
    <3> QED
      BY <1>1, <3>1 DEF Paint, TypeOK, brightVars, idleVars, jobVars, wifiVars
  <2> QED
    BY <1>1, <2>1 DEF Paint, PaintUpdate, brightVars, idleVars, wifiVars,
        LevelsAgree, AdoptedWasSeen, ChangesAreMarked, TickInv, TimerInv
<1>2. CASE Sleep
  <2>1. TypeOK'
    <3>1. asleep' \in BOOLEAN /\ sleepAsked' \in BOOLEAN /\ dirty' \in BOOLEAN
      BY <1>2 DEF Sleep
    <3> QED
      BY <1>2, <3>1 DEF Sleep, TypeOK, idleVars, jobVars, wifiVars
  <2> QED
    BY <1>2, <2>1 DEF Sleep, idleVars, wifiVars, LevelsAgree, AdoptedWasSeen,
        ChangesAreMarked, TickInv, TimerInv
<1>3. CASE Wake
  <2>1. TimerInv' /\ quiet' \in 0 .. MaxQuiet
        /\ left' \in {None} \union UNION {0 .. t : t \in Timers}
    BY <1>3, TouchedTimer DEF Wake, TypeOK, Panels
  <2>2. panel.brightness \in Levels /\ panel \in Panels
    BY DEF TypeOK, Panels
  <2>3. /\ lit' \in Levels /\ written' \in BOOLEAN
        /\ written' => lit' = panel.brightness
    <3>1. Clamped(panel.brightness) = panel.brightness /\ panel.brightness # 0
      BY <2>2, ClampedLevel
    <3> QED
      BY <1>3, <2>2, <3>1, AppliedLit DEF Wake, TypeOK, LevelsAgree
  <2>4. TypeOK'
    <3>1. asleep' \in BOOLEAN /\ dirty' \in BOOLEAN
      BY <1>3 DEF Wake
    <3> QED
      BY <1>3, <2>1, <2>3, <3>1 DEF Wake, TypeOK, jobVars, wifiVars
  <2>5. LevelsAgree'
    BY <1>3, <2>3 DEF Wake, LevelsAgree
  <2> QED
    BY <1>3, <2>1, <2>4, <2>5 DEF Wake, wifiVars, AdoptedWasSeen,
        ChangesAreMarked, TickInv
<1> QED
  BY <1>1, <1>2, <1>3

(* The script, the radio and the clock. *)
LEMMA OutsideIInv ==
    ASSUME IInv, Outside
    PROVE  IInv'
<1> USE DEF IInv
<1>1. ASSUME UNCHANGED <<at, asleep, sleepAsked, panelVars, brightVars, idleVars,
                         wifiVars>>,
             phase' \in {"idle", "running", "finished"},
             outcome' \in {"ok", "failed"},
             script' \in {None, "up", "down", "ended"},
             radio' \in {"gone", "there", "linked"}
      PROVE  IInv'
  BY <1>1 DEF TypeOK, panelVars, brightVars, idleVars, wifiVars, LevelsAgree,
      AdoptedWasSeen, ChangesAreMarked, TickInv, TimerInv
<1>2. CASE ScriptRuns
  BY <1>1, <1>2 DEF ScriptRuns, TypeOK
<1>3. CASE ScriptEnds
  <2>1. phase' \in {"idle", "running", "finished"} /\ outcome' \in {"ok", "failed"}
    BY <1>3 DEF ScriptEnds, Job!Complete, Job!Finish, TypeOK
  <2> QED
    BY <1>1, <1>3, <2>1 DEF ScriptEnds, TypeOK
<1>4. CASE TimesOut
  BY <1>1, <1>4 DEF TimesOut, Job!Finish, TypeOK
<1>5. CASE RadioMoves
  BY <1>1, <1>5 DEF RadioMoves, TypeOK, jobVars
<1>6. CASE MinutePasses
  <2>1. /\ left' = IF left \in {None, 0} THEN left ELSE left - 1
        /\ quiet' = IF quiet < MaxQuiet THEN quiet + 1 ELSE quiet
    BY <1>6 DEF MinutePasses
  <2>2. MaxQuiet \in Nat /\ quiet \in 0 .. MaxQuiet
    BY RuntimeAssumption DEF TypeOK
  <2>3. quiet' \in 0 .. MaxQuiet /\ quiet' >= quiet
        /\ (quiet' = quiet + 1 \/ quiet' = MaxQuiet)
    BY <2>1, <2>2
  <2>4. panel.minutes \in Timers /\ panel.minutes \in 0 .. MaxQuiet
    BY TouchedStarts DEF TypeOK
  <2>5. /\ left' \in {None} \union UNION {0 .. t : t \in Timers}
        /\ left' # None => /\ left' \in 0 .. panel.minutes /\ panel.minutes # 0
                           /\ quiet' + left' >= panel.minutes
    <3>1. CASE left \in {None, 0}
      BY <2>1, <2>2, <2>3, <2>4, <3>1 DEF TypeOK, TimerInv
    <3>2. CASE left \notin {None, 0}
      <4>1. left \in 0 .. panel.minutes /\ panel.minutes # 0
            /\ quiet + left >= panel.minutes /\ left' = left - 1
        BY <2>1, <3>2 DEF TimerInv
      <4>2. left' \in 0 .. panel.minutes /\ quiet' + left' >= panel.minutes
        BY <2>2, <2>3, <2>4, <3>2, <4>1
      <4> QED
        BY <2>4, <4>1, <4>2
    <3> QED
      BY <3>1, <3>2
  <2>6. TypeOK'
    BY <1>6, <2>3, <2>5 DEF MinutePasses, TypeOK, panelVars, brightVars,
        jobVars, wifiVars
  <2>7. TimerInv'
    BY <1>6, <2>5 DEF MinutePasses, TimerInv, panelVars
  <2> QED
    BY <1>6, <2>6, <2>7 DEF MinutePasses, panelVars, brightVars, wifiVars,
        LevelsAgree, AdoptedWasSeen, ChangesAreMarked, TickInv
<1> QED
  BY <1>2, <1>3, <1>4, <1>5, <1>6 DEF Outside

(* The inductive invariant holds in every reachable state. *)
THEOREM RuntimeInductive == Spec => []IInv
<1>1. IInv /\ [Next]_vars => IInv'
  <2> SUFFICES ASSUME IInv, [Next]_vars PROVE IInv'
    OBVIOUS
  <2>1. CASE UNCHANGED vars
    BY <2>1 DEF vars, IInv, TypeOK, panelVars, brightVars, idleVars, jobVars,
        wifiVars, LevelsAgree, AdoptedWasSeen, ChangesAreMarked, TickInv,
        TimerInv
  <2> QED
    BY <2>1, UserIInv, TickingIInv, ScreenIInv, OutsideIInv DEF Next
<1> QED
  BY InitIInv, <1>1, PTL DEF Spec

(* Every variable of the runtime keeps its type. *)
THEOREM TypeCorrect == Spec => []TypeOK
<1>1. IInv => TypeOK
  BY DEF IInv
<1> QED
  BY <1>1, RuntimeInductive, PTL

(* The panel, the settings, the finger and the backlight agree on the
   brightness and on Auto after any order of events. *)
THEOREM LevelsAgreeThm == Spec => []LevelsAgree
<1>1. IInv => LevelsAgree
  BY DEF IInv
<1> QED
  BY <1>1, RuntimeInductive, PTL

(* Wi-Fi that the user did not ask for is wanted only once a link was read. *)
THEOREM AdoptedWasSeenThm == Spec => []AdoptedWasSeen
<1>1. IInv => AdoptedWasSeen
  BY DEF IInv
<1> QED
  BY <1>1, RuntimeInductive, PTL

(* Nothing the panel shows changes without being marked to be painted. *)
THEOREM ChangesAreMarkedThm == Spec => []ChangesAreMarked
<1>1. IInv => ChangesAreMarked
  BY DEF IInv
<1> QED
  BY <1>1, RuntimeInductive, PTL

(* The timer asks for sleep only after as many quiet minutes as it is set
   to, whatever happened since it was set. *)
THEOREM TimerIsPatientThm == Spec => TimerIsPatient
<1>1. IInv /\ [Next]_vars =>
        [at # "input" /\ sleepAsked' /\ ~sleepAsked
         => panel.minutes # 0 /\ quiet >= panel.minutes]_vars
  <2> SUFFICES ASSUME IInv, Next, at # "input", sleepAsked', ~sleepAsked
               PROVE  panel.minutes # 0 /\ quiet >= panel.minutes
    BY DEF vars
  <2>1. \E l \in Levels \union {0} : TickEnd(l)
    BY DEF Next, User, Ticking, Outside, TouchCube, Lift, AskSleep, TapWifi, Tap,
        Drag, TapAuto, TapTimer, Awake, Poll, Read, Adopt, Paint, Sleep, Wake,
        ScriptRuns, ScriptEnds, TimesOut, RadioMoves, MinutePasses
  <2>2. left = 0
    BY <2>1 DEF TickEnd, Due
  <2>3. panel.minutes \in 0 .. MaxQuiet /\ quiet \in 0 .. MaxQuiet
    BY TouchedStarts DEF IInv, TypeOK
  <2>4. None # 0
    BY RuntimeAssumption
  <2> QED
    BY <2>2, <2>3, <2>4 DEF IInv, TimerInv
<1> QED
  BY <1>1, RuntimeInductive, PTL DEF Spec, TimerIsPatient
===============================================================================
