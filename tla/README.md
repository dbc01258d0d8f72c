# A TLA+ model of the TAQ-102 appliance

This directory models the user-space program of the TAQ-102 tablet: `glcube`, the
application the tablet boots into, with its touch input, its settings panel
("control centre"), its background worker, its settings file, its brightness policy, its
sleep and wake, and the restarts it can cause. The modules are
translated from the C sources under `src/src/`; paths below are relative to
`src/` of the repository, and `PROJECT.json` maps every definition to the lines it
stands for.

Contents: [the system](#the-system), [how it can go wrong](#how-it-can-go-wrong),
[the modules](#the-modules), [the runs](#the-runs), [what disagrees with the
code's own words](#what-disagrees-with-the-codes-own-words), [the proofs](#the-proofs),
[what is left out](#what-is-left-out), [the plan](#the-plan).

## The system

One process draws a cube and a status bar on the panel, sixty times a second. One
thread does everything but two things: a monitor thread per worker reaps the
background command, and a reader thread samples the accelerometer.

| Component | State it keeps | Operations | Correct when |
|---|---|---|---|
| Touch decoder `touch_input.c` | ten slots (active, announced, tracking id, index into the frame), the frame being collected, the ready queue, discarding, resync owed | feed one raw event, read the descriptor, expire silent contacts, cancel all, drain | the caller's stream of DOWN, MOVE, UP and CANCEL is legal per slot, and every contact it is told of ends |
| Touch router `touch_router.c` | owner of each contact, the panel's contact, the cube's contacts | feed, reset, set panel open | a contact stays with its first owner until it ends |
| Panel model `control_center.c` | open, slide, brightness drag, captured contact, armed reboot and the times of each | open, close, tick, handle one event | nothing is changed but by a tap or drag that ended there; a reboot is confirmed |
| Input composition `control_input.c` | decoder, router, cube state | read, feed, reset | decoder, router and panel agree on which contacts exist |
| Background worker `action_worker.c` | pid, deadline, busy, pending, result, stopped, released, under a mutex | start, busy, poll, cancel, free; the monitor's loop | one command at a time, one completion each, no orphan, no stray signal |
| Settings `settings.c`, `settings_store.c` | a file | load, save | the file is always whole; a reported success is durable |
| Runtime `control_runtime.c` | settings, pending and failed flags, telemetry, idle timer, policy, worker | init, tick, action, sleep, wake | panel, settings, backlight and file agree |
| Brightness policy `power_policy.c` | per power source a learned level, a window of three readings | step, level, note | a level is changed on three readings of 30 s from one source, and a failed level is not retried for ten minutes |
| Idle timer and pick-up `sleep_state.c` | a deadline; a baseline and votes | touch, due; feed one sample | the tablet does not wake itself |
| Accelerometer monitor `accel_monitor.c` | the last sample, under a mutex | snapshot | a snapshot is one sample |
| Main loop `glcube.c` | first frame, waking, orientation votes, DRM objects | one frame; sleep, wake, turn, exit | a sleep turns the panel off and a wake turns it on, whatever fails |
| Boot and supervision `rootfs-overlay/init`, `taq102-app` | attempts left | start the application again | a crash loop ends in a console |
| Reboot `reboot_target.c`, `reboot-loader.c` | the boot loader's message block | write it, sync it, verify it, reboot | the block and the settings are on the eMMC before the reboot |
| Rescue screen `rescue-screen.c` | the line that is selected | keys of the rescue system | - |
| Wi-Fi `br2-external/package/taq102-wifi` | module, supplicant, DHCP client | up, down | can be killed at any step and run again |
| Telemetry `status.c`, `wifi_status.c` | none | read sysfs and /proc | - |
| Drawing `canvas.c`, `font.c`, `statusbar.c`, `control_overlay.c`, `*_paint.c` | pixels | - | - |
| Tools, demos, kernel patches | - | - | - |

How they interact, in one frame of `glcube`: the power key and the touch descriptor
are read; each decoded event goes through `control_input_feed`, which ticks the panel,
tells the router whether the panel is visible, routes the event, and lets the panel act
on it; an action goes to the runtime, which changes settings, starts the worker, saves
or asks for sleep. Then `control_runtime_tick` reads telemetry, steps the brightness
policy, saves settings that have been pending for two seconds and asks for sleep when
idle. If sleep is asked for, runtime and input are reset, the screen goes dark and a
loop of its own reads the power key and the accelerometer, and discards touches, until
one of them wakes the tablet.

## How it can go wrong

The list is in `PROJECT.json` ("hazards"), each at its line. The kinds:

- **Two threads and the kernel** (worker): a signal and a reaped pid; parent and child
  both setting the process group; the deadline, a cancel and the child's exit together;
  who frees the struct, and when.
- **A lossy protocol** (decoder): the kernel's queue overflows, lifts are lost, the
  resynchronisation fails and is retried, silence expires a contact whose events are
  still in an unpublished frame.
- **State of another component, read before it changes** (router, panel): the panel's
  slide starts and ends between two events of a contact; sleep and turns fall into a
  drag, a slide or a confirmation.
- **Power loss** (settings, reboot): between any two calls of the save, and a restart the
  program causes itself while a save has failed half-way.
- **Hardware at its own pace** (main loop): a flip that is late, a sample that is
  overwritten before it is read, a key between two frames, a mode that cannot be set.
- **One value kept in several places** (runtime): brightness in the panel, the settings,
  the finger and the backlight; Wi-Fi as wanted, as read and as shown; the panel and its texture.
- **Long legal sequences** (policy, pick-up, confirmation, idle timer).

## The modules

    ActionJob  <--implements--  ActionWorker  <--  ActionWorkerProofs
    TouchInput  <--  MCTouchInput, TouchInputProofs
    TouchRouter + ControlCenter  -->  ControlInput  <--  MCControlInput, ControlInputProofs
    SettingsSave  <--  Reboot  <--  MCReboot
    SettingsSave  <--  SettingsSaveProofs  <--  RebootProofs  -->  Reboot
    PowerPolicy  <--  MCPowerPolicy, PowerPolicyProofs
    Pickup  <--  DisplayLoop  <--  MCDisplayLoop, DisplayLoopProofs
    ActionJob  <--instance--  ControlRuntime  <--  MCControlRuntime, ControlRuntimeProofs

Operators whose comment begins with "Defect" are not the model: each is a definition
with one plausible mistake in it, kept beside the definition it would replace, and shows
that a property notices the mistake.

**ActionJob** is what the rest of the program relies on the worker for: a command is
idle, running, or finished and not yet polled; a start is refused unless idle; each start
has one completion, with the child's status or -1; a running command always finishes.

**ActionWorker** is `action_worker.c`. The mutex is explicit (`lock`), every critical
section of caller and monitor is split into the steps between which the kernel can do
something, and the process table is a variable, so that a reaped pid can be taken by
somebody else's process (`ForeignStart`). `StartFork` and `StartRecord` are the two
sides of `fork`; `ChildSetpgid` is the child's own call. The monitor's loop is
`MonitorLock`, then `MonitorDestroy`, `MonitorDeadline`, `MonitorNotYet` or
`MonitorReap`, then `MonitorPublish`. `stray` and `missed` are history: a signal has hit
a process that is not the child, or a group that does not exist.

**TouchInput** is `touch_input.c`, one action per kind of raw event plus `Expire`,
`CancelAll`, `ResyncRetry` and `Drain`. Nothing is assumed of the raw events, with two
exceptions that are constants: `Redropped` (a second SYN_DROPPED may come before the
SYN_REPORT of the first) and `MidDiscardCalls` (the caller may cancel in between). Time
is one bit per slot, `silent`. The loops over the slots (`EventsFor`) and over the frame
(`Without`) are written by the n-th smallest of a set of numbers, `Nth`, rather than by recursion,
so that they can be reasoned about. A DOWN carries no coordinates; a `Position` only creates or
keeps a MOVE. `view` is history: the contacts the caller has been told are down.

**TouchRouter** and **ControlCenter** are `touch_router.c` and `control_center.c` as
operators from a state and an event to a state and what the call returns: both are plain
C structs changed by calls from one thread. **ControlInput** holds the state, and its
actions are what happens to it: `Touch` is `control_input_feed` of one event with the
whole chain behind it; `Frame`, `RequestSleep`, `Sleep`, `Wake`, `Turn` and `FirstShown`
are the main loop; `LostTouch` is an event that is read when nobody listens. Coordinates are
places (the bar, the handle, each tile, outside), a MOVE or UP knows if it is a drag up or
down, times are ages that stop at the limit the code compares them with. `down` is the
decoder's legal stream, which TouchInput shows. `tapped` is history: how long ago a
contact ended on each reboot tile.

**SettingsSave** is the save of `settings.c`, call by call, with the runtime's `pending`
and `failed`, under power loss, process restart, failure of any call, and the kernel's
own write-back. Each directory entry exists as processes see it (`path`) and as the disk
has it (`disk`); data that was never synced may be torn by a power loss. `recent` is
history: the settings a power loss may legitimately bring back.

**Reboot** puts `reboot_target.c` and `reboot-loader.c` on top of SettingsSave: the
confirmed tap on Rescue finds the eMMC, writes the boot message, syncs, verifies, syncs
everything and restarts, one action per call, each of which may fail; Loader hands the
process over. Main saves nothing meanwhile, and a save is never cut short by a reboot,
which is why `Saving` needs `call = "idle"` and a reboot needs `step = "idle"`.
`RebootSpec` contains SettingsSave's `Spec` as the steps that leave the reboot alone.

**PowerPolicy** is `power_policy.c`: `Read` is a reading that decides nothing yet,
`ReadAndDecide` the one that does, `Invalid`, `TooSoon` and `Discard` the three ways a
window is thrown away (`Discard` is the step in the dark and the switch of Auto). A tick is
the runtime's ten seconds. The ring of three currents and its sum are a sequence.
`streak`, `decided` and `rested` are history, kept per reading, per decision and per level.

**Pickup** is the detector of `sleep_state.c` as operators, and beside them what it should
compute, said of all samples at once (`Still`, `Lifted`). One axis stands for three; the
unit is 50 mg, the largest that keeps the two limits, 60 and 150 mg, apart.

**DisplayLoop** is the main loop of `glcube.c` with the display, the accelerometer's
thread and `taq102-app`. `at` is the place in the loop: `frame`, `draw`, `show`, `flip`,
`release`, and `off`, `crtc`, `dark`, `wake` for the sleep; every error exit leads to
`exited`, from which the supervisor starts the program again until it gives up. The display
takes a queued buffer when it likes (`FlipCompletes`), and the event may be read by a later
frame. `MayFail` names the calls that may fail; what the touches of a frame do is
ControlInput's, here a frame may ask for sleep. `missed` and `blind` are history: this
process went on without its flip; the power was not restored and nothing in the code will.

**ControlRuntime** is `control_runtime.c` for brightness, Auto, Wi-Fi, the idle timer and
the panel's repaint mark. A tick is split where something outside can happen: `Poll` of the worker, `Read` of the
telemetry, `Adopt` of a link that was read (which asks the worker again), `TickEnd`. The
worker is an instance of ActionJob, so that what ActionWorker implements is what the
runtime relies on; the script it started and the radio take their own steps. The policy
may decide on any level, since PowerPolicy says which. The hardware's level (`lit`)
follows unless the write fails, which nothing repeats.

## The runs

| Run | Module, cfg | Bounds | Distinct states |
|---|---|---|---|
| worker | ActionWorker | two pids, two exit statuses | 2536 |
| touch_decoder | MCTouchInput, TouchInput.cfg | two slots, two tracking ids, frame of 2, ready of 1 before a publish | 178608 |
| panel_reboot | MCControlInput, ControlInput.cfg | two contacts; handle, Rescue, Loader, bar, cube | 310832 |
| panel_settings | MCControlInput, ControlInputSettings.cfg | one contact; bright, auto, off, wifi, never; two levels | 76752 |
| settings_save | MCReboot, Reboot.cfg | three settings | 31224 |
| power_policy | MCPowerPolicy, PowerPolicy.cfg | one supply, two currents, levels to 80, ten minutes cut to 15 ticks | 237515 |
| display | MCDisplayLoop, DisplayLoop.cfg | two buffers, two starts, three accelerations, six samples in the dark | 791268 |
| runtime | MCControlRuntime, ControlRuntime.cfg | two levels and a stored one above them, a timer of one minute or none | 7302168 |
| touch_second_overflow, panel_turn, display_late_flip, pickup_drift | the same modules | smaller | stop at a violation |

**worker** asks whether anything the two threads and the kernel do together breaks the
contract. `OnlyOwnChildSignalled` is the promise of the comment on `stop_child`;
`GroupExistsWhenSignalled` that of the double `setpgid`; `FreedOnlyWhenUnused` and
`Reclaimed` that the monitor frees the struct neither too early nor never;
`NoOrphan` and `BusyOrPending` what `aw_start` checks before it forks;
`ImplementsActionJob` the whole, with the completion that must come. Two pids are
enough: one child exists at a time, and the other pid is the stranger or the next child.
Two statuses tell a failure from a success.

**touch_decoder** asks whether the stream is legal, nobody's contact is forgotten and none
stays for ever. `StreamAlternates` is what router and cube rely on. `AnnouncedIsVisible` and
`DecoderIsExact` relate three ideas of which contacts exist: the caller's, the announced
flags and the driver's. The parts of `DecoderIsExact`: once the frame is published the caller
knows what the driver knows (`FrameCatchesUp`); `frame_event`, an index into a buffer that
`discard_frame_slot` compacts, points at the slot's own event (`FrameIndexExact`); and a
resynchronisation finds no announced contact, the precondition `resync_driver` never tests
(`ResyncFindsNothing`). `CancelAllReachesEveryContact` quotes `touch_input.h`.
`SilentContactEnds` is about a contact whose lift never arrives, with any overflow and
failed resynchronisation on the way. Two slots show a contact beside another whose events
move in the frame; two events in a frame hold an UP and a DOWN, or two slots' events. TLC
stops raw events at `MaxFrame`, where the code grows its buffer. The run leaves out a
cancel between a SYN_DROPPED and its SYN_REPORT (`MidDiscardCalls = FALSE`): with it,
`CancelAllReachesEveryContact` fails, because the CANCELs are in the frame that
`touch_input_cancel_all` clears and the slots no longer say they were announced.
`touch_input.h:34` promises otherwise, but the one caller, `control_input_reset`, resets the
router as well and so hides it.

**panel_reboot** asks what two overlapping contacts can do to each other, with the panel
sliding, the tablet turning and the screen going dark. `RouterTracksContacts` says that
decoder and router never part company. `OwnerKeepsContact` and `VisiblePanelTakesContacts`
quote the journal's design. `RebootIsConfirmed` says that no sequence
of taps, drags, closings and sleeps reboots the tablet without two contacts that ended on
the tile within three seconds. It does not say that the first of them also began there, see below.

**panel_settings** asks about one contact on the tiles that change something.
`CancelActsOnNothing` is the journal's reason for cancelling silent contacts rather than
releasing them; `DarkIsQuiet` says what sleep leaves behind;
`ClosedPanelHides` that a closed panel does go away, so that the cube gets its touches
back. Slide, tap and arm limits of two ticks tell "at once", "in time" and "too late" apart;
nothing in the code compares two of the limits with each other.

**settings_save** asks what a power loss, or a restart the program causes, leaves.
`FileIsWhole`: the old file or the
new one, never a torn one. `SavedSurvives`: a save that reported success is durable, one
that did not leaves the old or the new settings. `UnsavedIsKnown`: settings that the file
does not hold are pending, or the panel says so. `RebootKeepsAll` quotes
`reboot_target.c:126`: when the tablet is told to restart, the eMMC holds the whole message and
the directory entry that processes see, also after a save that failed between its rename and its sync.
Three settings are the default, the one on the disk and the one being saved.

**power_policy** asks whether the brightness can be moved by readings that do not belong
together (`ThreeReadingsAgree`), more than once in thirty seconds (`DecisionsPaced`), or back
to a level that drained the battery a moment ago (`FailedLevelRests`). The last one is
not obvious: a supply remembers one failed level, and another failure overwrites it. It
holds because of the numbers. Steps up from the floor and steps down from the maximum visit different
levels, so a supply that failed at a level off the climbing steps comes back to it only by way of the floor, the
maximum and down again, sixteen levels and thirty seconds a decision. With 255 levels that is 27
windows, or 81 ticks, and longer than the ten minutes (60); a panel needs 200 levels for it. The run keeps
to the proportion, 80 levels and 15 ticks (`RetryIsShort`, which the theorem assumes). With 22 ticks
TLC finds the overwritten memory.

**display** asks what happens around a sleep when anything fails. `FlippedScanoutKept`:
as long as no flip was refused or late in this process, the buffer on the screen and the one queued are
not drawn into. `LitWhenAwake`: a program that shows frames shows them on a lit panel that
can be touched, unless a power write failed or a process died between waking and its first frame.
`PickupIsExact`: with samples overwritten, early or left over from before the dark, the tablet
wakes at exactly the sample that completes a pick-up, against the definition `Lifted`.
`KeyBringsPicture`: a press in the dark is followed by a picture, over any failures and restarts,
unless the supervisor gives up. Two buffers are the tightest ring; two starts show one process
inheriting another's power; 0, 50 and 200 mg lie on either side of both limits; six samples are
three to arm and three to wake.

**runtime** asks whether the four copies of the brightness agree after any order of drags,
Auto, decisions, sleeps and failed writes (`LevelsAgree`); whether Wi-Fi that was turned off
is wanted again only after a link was read since (`AdoptedWasSeen`); whether a change of the
panel can miss its texture (`ChangesAreMarked`); and whether the idle timer can put out a
screen in use (`TimerIsPatient`). One minute and none are the two kinds of timer; two levels
tell a level that changes from one that stays, and the stored one is clamped. It does not ask
that an adopted link is still there, which is false by one call: a reading
taken just before `down` ends is tested after it, and the panel says "Associating" until the next action.

**Fairness.** worker: each thread goes on, with strong fairness only for the monitor's
`pthread_mutex_lock`, which competes with a caller that takes the lock for microseconds
once a frame; the clock advances. Nothing is assumed of the child, and `Reclaimed` names
the one case that is left, a child in the kernel for ever. touch_decoder: the main loop
expires and drains every frame, time passes, and evdev ends a packet it has begun with a
SYN_REPORT; no lift and no working ioctl is assumed. panel_settings: frames are
drawn and the clock runs. display: the loop and its supervisor go on, since every wait in
them has a time limit, and a queued buffer is shown at some time. Nothing is assumed of samples,
keys or failures. Every other run has safety properties only.

Bounds that stop behaviour: `MaxFrame` of TouchInput, and `MaxSeen` of DisplayLoop (samples
looked at in one spell of the dark). `MaxQuiet`, and the limits of the ages in PowerPolicy and ControlInput, only
stop counters where no comparison tells them apart any more. Deadlock is checked in every
passing run but display, where the supervisor's giving up ends everything. The symmetry used,
permutations of slots, is in a run of safety properties only, and no definition of
ControlInput orders them.

## What disagrees with the code's own words

- `touch_second_overflow`: a second SYN_DROPPED before the SYN_REPORT of the first throws
  the CANCELs of the first away (`cancel_active_to_frame` empties the frame, and the
  slots are already cleared). The caller keeps contacts nobody ends, although
  `tests/control-centre/touch_test.c:136` asserts their CANCELs. With one overflow per
  packet (`Redropped = FALSE`) the property holds.
- `panel_turn`: a contact that begins on the closing panel is captured. When the slide ends
  before the contact does, `handle` returns early for its UP and for the CANCEL of
  `control_input_reset`, so the capture survives, against the assertion of
  `tests/control-centre/runtime_test.c:114`. What follows is visible in the model: the first DOWN after the
  next opening is ignored, and a brightness drag captured this way is completed by the next release.
- `display_late_flip`: `glcube.c:604` says "Only release the previous buffer, never the one
  being scanned out". `main` waits 100 ms for the flip and then releases the previous buffer
  whether the flip completed or not; after a late one that is the buffer on the screen, and the next
  frame may be drawn into it. The journal (665-668) saw `flip_done timed out` on the tablet. The event of the late flip
  then ends the wait for the following one, so that the loop stays a flip behind, over a mode set too.
- `pickup_drift`: `sleep_state.c:94-95` says that "a slow drift never accumulates into a
  false still" because samples are compared with their predecessor. That comparison is what lets it
  accumulate: 0, 50, 100 mg settle. The test's drift moves by 100 mg a sample and is not slow.

## The proofs

Every safety property of the passing runs is also a theorem, checked by TLAPS for every
value of the constants its assumptions allow: any number of slots, buffers and restarts, any set of pids, levels,
currents, samples, settings and tiles, any durations. Each module's proofs follow one
scheme: none of its properties is inductive by itself, `IInv` adds what is missing (TLC checked
each `IInv` on the bounds of the runs before it was proved), one lemma per action shows that the
action keeps it, and the theorems follow from the one that says `[]IInv`.

| Module | Inductive | Theorems about |
|---|---|---|
| ActionWorkerProofs | `Inductive` | `TypeOK`, `OnlyOwnChildSignalled`, `GroupExistsWhenSignalled`, `FreedOnlyWhenUnused`, `NoOrphan`, `BusyOrPending`, and the refinement of ActionJob |
| TouchInputProofs | `DecoderInductive` | `TypeOK`, `StreamAlternates`, `AnnouncedIsVisible`, `DecoderIsExact`, `CancelAllReachesEveryContact` |
| ControlInputProofs | `InputInductive` | `TypeOK`, `RouterTracksContacts`, `OwnerKeepsContact`, `VisiblePanelTakesContacts`, `RebootIsConfirmed`, `CancelActsOnNothing`, `DarkIsQuiet` |
| SettingsSaveProofs | `SettingsInductive` | `TypeOK`, `FileIsWhole`, `SavedSurvives`, `UnsavedIsKnown` |
| RebootProofs | `RebootInductive` | `RebootKeepsAll`, and the refinement of SettingsSave with what it brings |
| PowerPolicyProofs | `PolicyInductive` | `TypeOK`, `ThreeReadingsAgree`, `DecisionsPaced`, `FailedLevelRests` |
| DisplayLoopProofs | `LoopInductive` | `FlippedScanoutKept`, `LitWhenAwake`, `PickupIsExact` |
| ControlRuntimeProofs | `RuntimeInductive` | `TypeOK`, `LevelsAgree`, `AdoptedWasSeen`, `ChangesAreMarked`, `TimerIsPatient` |

**Assumptions.** Those declared with the constants, which TLC evaluates in every run: special
values (no pid, no slot, no file, torn, nothing) are none of the ordinary ones; what the code
starts from (defaults, levels, timers) is in range; a backlight has at least 8 levels and a ring of
buffers at least two; slots are a finite set of numbers; times are natural numbers, of which
the slide, a tap, a confirmation and the idle limit are not 0 and a window of three readings has
at least three ticks. Two theorem hypotheses go further. All of TouchInputProofs but `TypeCorrect` needs
`WholePackets` (neither `Redropped` nor `MidDiscardCalls`); the run touch_second_overflow shows
that the first half is needed. `FailedLevelRestsThm` needs `RetryIsShort`, the proportion of levels and
times that the device has and that the run keeps to; without it the property is false (see power_policy above).

**Worker.** That a signal hits the child only
follows from where each thread is. `IInv` adds `LockInv` (the lock's holder is exactly
the thread inside a critical section; the struct is released when the caller is gone),
`ChildInv` (`forked` and `pid` name a process of the worker's, except between the
monitor's `waitpid` and the store that forgets the pid; a recorded child leads its
group; a freed struct has neither) and `FlagInv` (busy is: a child that was not stopped;
a busy worker or a worker about to record a child has no completion pending).
The heart of it is `StopChildIInv`: outside that window, stopping the child signals
nobody else. `CallerIInv` and `MonitorIInv` take the two threads action by action,
`EnvironmentIInv` the kernel and the clock. `RefinesActionJob`: every step is a step of ActionJob
or a stutter.

**Decoder.** The stream is taken as a whole. `After` says which contacts are down when some events have
been seen, `Legal` that each event was legal where it stood, and `Concatenated` takes
both through a concatenation piece by piece. Then the three properties are three equations of `Flow`:
what is on its way is legal, ends in the driver's contacts, and has so far announced
what `announced` says. Every action appends a piece (`OneEvent`, `Downs`, `Cancels`), drops the
frame, or takes slots out of it (`WithoutKeeps`: the others' events keep their order and so
their legality). `NthOrders` is what makes that last step precise: it shows by counting that the n-th smallest
element exists. Needed beside the properties is only `DiscardFindsNothing`: between an overflow and its
report nothing is down and no resynchronisation is owed. `TypeOK` holds without any hypothesis, so
`frame_event` never leaves the frame, however the overflows come.

**Router, panel and input.** The lemmas follow the calls: what the router does with one contact
(`BeginStep`, `CarryStep`, `FeedTracks`), what the panel answers to one event (`HitCaptures`,
`DownAnswers`, `DragAnswers`, `TapAnswers`, `UpAnswers`, `HandleAnswers`), and both composed in
`control_input_feed` (`FedFacts`, `TouchRoutes`, `TouchStep`) and `control_input_reset` (`ResetStep`). `IInv` adds
that a dark panel slides from nowhere (`DarkInv`) and that an armed tile was tapped no longer ago than its
confirmation counts (`ArmedWasTapped`), which is what makes `RebootIsConfirmed` inductive.

**Settings and reboot.** `FileIsWhole`, `SavedSurvives` and `UnsavedIsKnown` need to know what the
save has achieved so far (`Progress`: the temporary file holds the settings, then holds
them synced, then is the visible file) and that write-back may at any time make the
visible entry the disk's (`VisibleIsRecent`). `BeforeRename`, `FromRename` and `RestartSteps`
group the steps; `RestartSteps` is where `FileIsWhole` pays off: a power loss has nothing to tear.
`RebootImplementsSave` shows that a reboot does to the file only what the kernel or a failure may
do at any time (`SyncIsWriteBack`), so that `RebootKeepsSettings` inherits the theorems; `CallProgress`, what
each call has achieved when the next is made, carries `RebootKeepsAll`.

**Brightness policy.** `WindowInv`: the readings in the window are of one supply and no more than agreed in
a row. `PaceInv`: the window is no older than the last decision. `FailedLevelRests` rests on `RestInv`: a level
that failed within ten minutes is either above the supply on the chain of levels it is stepping
along, with the remembered failure between them (`Barred`), or the supply has left that chain at the floor and the
time since the failure pays, a window each, for the decisions that took it where it is (`Away`, `Cost`).
`CostOfRaise` and `CostOfDescent` show that a decision adds one at most, `CostOfReturn` that the way
back costs all of `RetryIsShort`; `RaisedRests` and `LoweredRests` carry both through the decision. TLC checked
`RestInv` on the bounds of the run.

**Main loop.** Three independent parts. `BufferInv` says at each place of the loop which buffer is shown and
which queued while no flip was refused or late; `PowerInv` who has still to give the power back; `Tracks` what
the detector knows of all samples seen: while it waits, that none of them was still (`Waiting`), and when
armed, which sample armed it and how many since were far from it (`ArmedAt`). The last relates an incremental algorithm to
its definition over whole sequences, of any length.

**Runtime.** The properties are close to inductive. `TickInv` adds what a tick has established
between two of its steps; `TimerInv` that the deadline is never sooner than a whole timer after
the last touch.

**Only model-checked.** Liveness under fairness is beyond the prover, as is ENABLED: `Reclaimed`,
`SilentContactEnds`, `ClosedPanelHides`, `KeyBringsPicture` and the completion of
`ImplementsActionJob`. The four violations are TLC's.

## What is left out

- Worker: the argument vector, the descriptors the child closes, `aw_new`'s failure paths.
- Decoder: coordinates, the one-euro filter, the flip, the partial read of a record,
  allocation failure. The kernel's own queue, and which slot it has selected when the
  device is opened, are not modelled; raw events are arbitrary instead.
- Router: the queue of panel events that do not fit one call (`control_input_feed` passes one
  event at a time). A third contact, and with it two contacts of the panel at once
  (`touch_router.c:116`).
- Panel: pixels and the telemetry it shows; its `dirty` flag is in ControlRuntime. The code takes the time of a touch
  from the event and that of a frame from the frame's start; in the model there is one clock.
- Settings: the parsing of lines. A file that cannot be read counts as failed, loads
  the defaults, and is overwritten by the next save, as in the code. The temporary file a crash
  leaves behind is never read or removed by the code, and not modelled.
- Reboot: nothing takes the boot message back. A call that fails after it was written leaves the
  rescue system armed while the panel reports a failure; and a reboot within two seconds of a drag
  that was cancelled loses the pending settings. Neither is promised otherwise, so no property is about it.
- Main loop: what one and two fingers do to the cube (`glcube.c:481-554`), GL, the trace, the orientation
  vote itself (ControlInput turns at any time). A display that shows a released buffer may tear; the
  model says only that it could.
- Runtime: the texts of notes (so also that a "Backlight unavailable" is cleared by a Wi-Fi
  start), the network's name, signal strength. Supply readings that flicker between valid and
  invalid touch the idle timer each time; `Read` contains it, no property is about it.
- Wi-Fi script: the daemons it starts and stops. Desk and rescue system.
- Everything listed as `not_modelled` under "components".

## The plan

Done, in this order, the most concurrent parts first: ActionJob, ActionWorker, its proofs; TouchInput;
TouchRouter, ControlCenter, ControlInput; SettingsSave and its proofs; PowerPolicy; Pickup and
DisplayLoop; ControlRuntime; Reboot.

Then the proofs, in the order the modules were written in, with the decoder last, once its loops were written without recursion.

What a proof could still add: the worker's completion, up to the fairness that TLC checks.

Models that could be added: **EvdevTouch**, the driver and the kernel's queue with its
overflow (which streams of raw events there are, and the slot assumed at open,
`touch_input.c:208`); the gestures of the cube, which need the contacts of a pinch and
its anchor; and the Wi-Fi script, step by step.
