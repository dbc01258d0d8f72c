----------------------------- MODULE DisplayLoop -----------------------------
(***************************************************************************)
(* glcube.c's main loop and its supervisor: frames that are drawn into a   *)
(* buffer and flipped to, the screen going dark and coming back, the exits *)
(* on errors, and taq102-app, which starts the program again.  Beside them *)
(* run the display hardware, which takes a queued buffer at its own time,  *)
(* and the accelerometer's reader thread (accel_monitor.c).                *)
(*                                                                         *)
(* at is the place in the loop.  What a frame does between reading its     *)
(* input and drawing is ControlInput's and ControlRuntime's; here it only  *)
(* may ask for sleep.  The reader publishes under a lock held for a few    *)
(* stores; taking it, and a snapshot, are one step each.                   *)
(***************************************************************************)
EXTENDS Pickup, FiniteSets

CONSTANTS
    Buffers,        \* what the GBM surface can draw into
    None,
    Limit,          \* LIMIT: starts before the supervisor gives up
    MaxSeen,        \* bound: samples published in one spell of the dark
    MayFail         \* the calls that may fail

Calls == {"setup", "read", "poll", "write", "crtcoff", "setcrtc", "lock",
          "addfb", "flip", "lateflip"}

ASSUME LoopAssumption ==
    /\ None \notin Buffers /\ Cardinality(Buffers) >= 2
    /\ Limit \in Nat \ {0} /\ MaxSeen \in Nat
    /\ MayFail \subseteq Calls

VARIABLES
    at,                 \* the place in the loop; "exited" and "over" outside
    first, waking,      \* the variables of main
    sleepAsked,         \* controls.sleep_requested
    key,                \* a press of the power key waits to be read
    power,              \* of backlight and touch: those that are on
    scanout,            \* the buffer the display shows
    queued,             \* the buffer it will show next
    events,             \* completed flips main has not been told of
    bo, prev,           \* bo, prev_bo
    pickup,             \* struct pickup
    sample,             \* the reader's last sample, if its sequence is new
    delay,              \* two seconds of dark have passed
    starts,             \* n of taq102-app
    seen,               \* history: the samples since those two seconds
    missed,             \* history: this process went on without a flip
    blind               \* history: power was not restored, see LitWhenAwake

loopVars == <<at, first, waking>>
displayVars == <<scanout, queued, events, missed>>
bufferVars == <<bo, prev>>
senseVars == <<pickup, sample, delay, seen>>
powerVars == <<power, blind>>
vars == <<loopVars, sleepAsked, key, powerVars, displayVars, bufferVars,
          senseVars, starts>>

On == {"backlight", "touch"}
Running == {"frame", "draw", "show", "flip", "release"}
Places == Running \union {"off", "crtc", "dark", "wake", "exited", "over"}

Init ==
    /\ at = "exited" /\ first = TRUE /\ waking = FALSE
    /\ sleepAsked = FALSE /\ key = FALSE
    /\ power = On /\ blind = FALSE
    /\ scanout = None /\ queued = None /\ events = 0 /\ missed = FALSE
    /\ bo = None /\ prev = None
    /\ pickup = PickupStart /\ sample = None
    /\ delay = FALSE /\ seen = <<>>
    /\ starts = 0

-----------------------------------------------------------------------------
(* display_power_off, display_power_on: two writes, each of which may fail. *)
PowerOff ==
    /\ power' \in IF "write" \in MayFail THEN SUBSET power ELSE {{}}
    /\ UNCHANGED blind

PowerOn ==
    /\ power' \in {p \in SUBSET On : power \subseteq p}
    /\ "write" \in MayFail \/ power' = On
    /\ blind' = (power' # On)

(* The end of the process takes its buffers off the screen. *)
Exited ==
    /\ at' = "exited"
    /\ scanout' = None /\ queued' = None /\ events' = 0
    /\ missed' = FALSE
    /\ bo' = None /\ prev' = None

Exit ==
    /\ Exited
    /\ blind' = (blind \/ waking)
    /\ UNCHANGED <<first, waking, sleepAsked, key, power, senseVars, starts>>

(* taq102-app *)
Start ==
    /\ at = "exited" /\ starts < Limit
    /\ starts' = starts + 1
    /\ \/ at' = "frame"
       \/ "setup" \in MayFail /\ UNCHANGED at
    /\ first' = TRUE /\ waking' = FALSE
    /\ sleepAsked' = FALSE /\ key' = FALSE
    /\ UNCHANGED <<powerVars, displayVars, bufferVars, senseVars>>

GiveUp ==
    /\ at = "exited" /\ starts = Limit
    /\ at' = "over"
    /\ UNCHANGED <<first, waking, sleepAsked, key, powerVars, displayVars,
                   bufferVars, senseVars, starts>>

-----------------------------------------------------------------------------
(* Defect: a frame that has not been shown yet may sleep as well. *)
MaySleepAtOnce == TRUE

(* Sleep is put off until the first frame, or the first after a wake, is on
   the screen. *)
MaySleep == ~first

(* The top of the loop: the key, the touches and the tick. *)
Frame ==
    /\ at = "frame"
    /\ \E asked \in BOOLEAN :
            sleepAsked' = (sleepAsked \/ asked \/ (key /\ MaySleep))
    /\ key' = FALSE
    /\ at' = IF sleepAsked' /\ MaySleep THEN "off" ELSE "draw"
    /\ UNCHANGED <<first, waking, powerVars, displayVars, bufferVars,
                   senseVars, starts>>

ReadFails == at = "frame" /\ "read" \in MayFail /\ Exit

(* control_runtime_sleep, and the power goes. *)
Darken ==
    /\ at = "off"
    /\ sleepAsked' = FALSE
    /\ PowerOff
    /\ at' = "crtc"
    /\ UNCHANGED <<first, waking, key, displayVars, bufferVars, senseVars,
                   starts>>

(* The CRTC is taken down and the detector starts; the reader may have a
   sample that the frames have not looked at. *)
CrtcOff ==
    /\ at = "crtc"
    /\ scanout' = None /\ queued' = None
    /\ pickup' = PickupStart
    /\ sample' \in {None, [x |-> 0, early |-> TRUE]}
    /\ at' = "dark"
    /\ UNCHANGED <<first, waking, sleepAsked, key, powerVars, events,
                   missed, bufferVars, delay, seen, starts>>

(* Defect: the program exits without restoring the power. *)
CrtcOffFailsDark == at = "crtc" /\ "crtcoff" \in MayFail /\ Exit

CrtcOffFails ==
    /\ at = "crtc" /\ "crtcoff" \in MayFail
    /\ PowerOn
    /\ Exited
    /\ UNCHANGED <<first, waking, sleepAsked, key, senseVars, starts>>

(* accel_monitor_snapshot, of a sequence that the loop has not seen. *)
Fresh == sample # None

(* A pass of the dark loop: the key, then a sample that is not read yet. *)
DarkPass ==
    LET fed == IF Fresh THEN PickupFeed(pickup, sample.x, sample.early)
               ELSE pickup
    IN  /\ at = "dark"
        /\ pickup' = fed /\ sample' = None
        /\ seen' = IF ~Fresh \/ sample.early THEN seen
                   ELSE Append(seen, sample.x)
        /\ key' = FALSE
        /\ at' = IF key \/ PickedUp(fed) THEN "wake" ELSE "dark"
        /\ UNCHANGED <<first, waking, sleepAsked, powerVars, displayVars,
                       bufferVars, delay, starts>>

(* poll or the touch device fails: the loop ends as if it had been woken. *)
DarkFails ==
    /\ at = "dark"
    /\ \/ "poll" \in MayFail /\ UNCHANGED key
       \/ "read" \in MayFail /\ key' = FALSE
    /\ at' = "wake"
    /\ UNCHANGED <<first, waking, sleepAsked, powerVars, displayVars,
                   bufferVars, senseVars, starts>>

(* What follows the dark loop: the frame goes on, and its mode has to be
   set again.  The detector was a local variable. *)
WakeUp ==
    /\ at = "wake"
    /\ first' = TRUE /\ waking' = TRUE
    /\ pickup' = PickupStart /\ delay' = FALSE /\ seen' = <<>>
    /\ sample' = None
    /\ at' = "draw"
    /\ UNCHANGED <<sleepAsked, key, powerVars, displayVars, bufferVars,
                   starts>>

-----------------------------------------------------------------------------
(* eglSwapBuffers and gbm_surface_lock_front_buffer: the frame is drawn into
   a buffer that is not locked. *)
Draw ==
    /\ at = "draw"
    /\ bo' \in Buffers \ {prev}
    /\ at' = "show"
    /\ UNCHANGED <<first, waking, sleepAsked, key, powerVars, displayVars,
                   prev, senseVars, starts>>

DrawFails == at = "draw" /\ {"lock", "addfb"} \intersect MayFail # {} /\ Exit

(* The first frame sets the mode; after a wake only then comes the power. *)
SetMode ==
    /\ at = "show" /\ first
    /\ scanout' = bo /\ queued' = None
    /\ IF waking THEN PowerOn ELSE UNCHANGED powerVars
    /\ first' = FALSE /\ waking' = FALSE
    /\ at' = "release"
    /\ UNCHANGED <<sleepAsked, key, events, missed, bufferVars, senseVars,
                   starts>>

SetModeFails == at = "show" /\ first /\ "setcrtc" \in MayFail /\ Exit

(* Every other frame is flipped to; the kernel refuses a second flip. *)
PageFlip ==
    /\ at = "show" /\ ~first
    /\ queued = None
    /\ queued' = bo
    /\ at' = "flip"
    /\ UNCHANGED <<first, waking, sleepAsked, key, powerVars, scanout, events,
                   missed, bufferVars, senseVars, starts>>

PageFlipFails ==
    /\ at = "show" /\ ~first
    /\ queued # None \/ "flip" \in MayFail
    /\ at' = "release"
    /\ missed' = TRUE
    /\ UNCHANGED <<first, waking, sleepAsked, key, powerVars, scanout, queued,
                   events, bufferVars, senseVars, starts>>

(* The display takes the queued buffer. *)
FlipCompletes ==
    /\ queued # None
    /\ scanout' = queued /\ queued' = None
    /\ events' = 1
    /\ UNCHANGED <<missed, loopVars, sleepAsked, key, powerVars, bufferVars,
                   senseVars, starts>>

(* drmHandleEvent: the event of an earlier flip writes to that frame's
   flip_done, which may or may not be where this frame's is. *)
FlipEvent ==
    /\ at = "flip" /\ events > 0
    /\ events' = 0
    /\ at' = "release" \/ (queued # None /\ at' = "flip")
    /\ UNCHANGED <<first, waking, sleepAsked, key, powerVars, scanout, queued,
                   missed, bufferVars, senseVars, starts>>

(* 100 ms without an event. *)
FlipTimeout ==
    /\ at = "flip" /\ events = 0 /\ "lateflip" \in MayFail
    /\ at' = "release"
    /\ missed' = TRUE
    /\ UNCHANGED <<first, waking, sleepAsked, key, powerVars, scanout, queued,
                   events, bufferVars, senseVars, starts>>

(* Defect: the frame's own buffer is released. *)
ReleaseOwn ==
    /\ at = "release"
    /\ bo' = None
    /\ at' = "frame"
    /\ UNCHANGED <<first, waking, sleepAsked, key, powerVars, displayVars,
                   prev, senseVars, starts>>

(* gbm_surface_release_buffer of the previous buffer. *)
Release ==
    /\ at = "release"
    /\ prev' = bo /\ bo' = None
    /\ at' = "frame"
    /\ UNCHANGED <<first, waking, sleepAsked, key, powerVars, displayVars,
                   senseVars, starts>>

-----------------------------------------------------------------------------
Press ==
    /\ ~key
    /\ key' = TRUE
    /\ UNCHANGED <<loopVars, sleepAsked, powerVars, displayVars, bufferVars,
                   senseVars, starts>>

(* read_accelerometer: a sample that is not read in time is overwritten. *)
Sense ==
    /\ at = "dark" /\ Len(seen) < MaxSeen
    /\ \E x \in Samples : sample' = [x |-> x, early |-> ~delay]
    /\ UNCHANGED <<loopVars, sleepAsked, key, powerVars, displayVars,
                   bufferVars, pickup, delay, seen, starts>>

TwoSecondsPass ==
    /\ at = "dark" /\ ~delay
    /\ delay' = TRUE
    /\ UNCHANGED <<loopVars, sleepAsked, key, powerVars, displayVars,
                   bufferVars, pickup, sample, seen, starts>>

Awake == Frame \/ Draw \/ SetMode \/ PageFlip \/ FlipEvent \/ Release
Asleep == Darken \/ CrtcOff \/ DarkPass \/ WakeUp
Failures == ReadFails \/ CrtcOffFails \/ DarkFails \/ DrawFails
            \/ SetModeFails \/ PageFlipFails \/ FlipTimeout
Supervisor == Start \/ GiveUp

Next ==
    \/ Awake \/ Asleep \/ Failures \/ Supervisor
    \/ FlipCompletes \/ Press \/ Sense \/ TwoSecondsPass

(* The loop and its supervisor go on, and a queued buffer is shown. *)
Spec ==
    /\ Init /\ [][Next]_vars
    /\ WF_vars(Awake \/ Asleep \/ Supervisor) /\ WF_vars(FlipCompletes)

-----------------------------------------------------------------------------
(* "Only release the previous buffer, never the one being scanned out"
   (glcube.c:604): the buffers that the display shows or is about to show are
   locked, so that no frame is drawn into them. *)
ScanoutKept ==
    at \in Places \ {"exited", "over"} =>
        {scanout, queued} \subseteq {bo, prev, None}

(* That holds until a flip is refused or late, whatever fails besides.  From
   then on not even a mode set makes up for it: the late event may end the
   wait for the first flip after it. *)
FlippedScanoutKept == missed \/ ScanoutKept

(* "On: the next frame's modeset brings the panel back, and only then the
   backlight and the touch" (journal.md:782): a program that shows frames
   shows them on a lit panel that can be touched, whatever failed and
   whichever process went to sleep -- unless the write of the power failed,
   or the process died between waking and its first frame, which nothing
   makes up for. *)
LitWhenAwake == at \in Running /\ ~first => power = On \/ blind

(* Every sample the loop looks at, missed, early or late, leads to a wake
   exactly when the samples seen so far say so. *)
PickupIsExact ==
    [][at = "dark" /\ seen' # seen
        => (at' = "wake" <=> key \/ Lifted(seen'))]_vars

(* "a slow drift never accumulates into a false still" (sleep_state.c:94-95):
   what arms the detector are three samples in a row that agree, all three. *)
ArmedMeansStill ==
    pickup.armed =>
        \E i \in 3 .. Len(seen) : \A j, k \in i - 2 .. i :
            ~Unsettled(seen[j], seen[k])

(* The power key wakes the tablet: a press in the dark ends with a picture on
   the screen, over any number of failures and restarts, unless the supervisor
   has given up. *)
KeyBringsPicture ==
    at = "dark" /\ key ~> at = "over" \/ (at = "release" /\ scanout # None)
==============================================================================
