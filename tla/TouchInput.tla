----------------------------- MODULE TouchInput -----------------------------
(***************************************************************************)
(* touch_input.c: decodes the evdev multi-touch protocol (type B) into a   *)
(* stream of DOWN, MOVE, UP and CANCEL events per slot.                    *)
(*                                                                         *)
(* A raw event changes a slot's state at once and is collected in frame;   *)
(* a SYN_REPORT publishes the frame into ready, from where the caller      *)
(* drains.  A SYN_DROPPED cancels everything and discards raw events until *)
(* the next SYN_REPORT, after which the kernel is asked which contacts are *)
(* live (resync_driver).  A slot the driver has not spoken of for half a   *)
(* second is cancelled (touch_input_expire).                               *)
(*                                                                         *)
(* The raw events are arbitrary: nothing is assumed of the driver.  What   *)
(* the kernel's event queue is taken to guarantee is the subject of        *)
(* Redropped and MidDiscardCalls.  Coordinates, the filter and the flip    *)
(* scaling are left out, and so is failure of an allocation.               *)
(***************************************************************************)
EXTENDS Naturals, Sequences, FiniteSets

CONSTANTS
    Slots,              \* 0 .. TOUCH_MAX_SLOTS - 1
    BadSlot,            \* a slot number out of that range
    Ids,                \* tracking ids
    NoId,               \* the tracking id -1
    MaxFrame,           \* bound: raw events stop when the frame is this long
    MaxReady,           \* bound: no frame is published on a longer ready
    Redropped,          \* a second SYN_DROPPED may precede the SYN_REPORT
    MidDiscardCalls     \* the caller may cancel while events are discarded

ASSUME SlotAssumption ==
    Slots \subseteq Nat /\ IsFiniteSet(Slots) /\ BadSlot \notin Slots
ASSUME IdAssumption == NoId \notin Ids
ASSUME FlagAssumption == Redropped \in BOOLEAN /\ MidDiscardCalls \in BOOLEAN

VARIABLES
    active,         \* slot->active: the driver has a contact there
    announced,      \* slot->announced: a DOWN has been published
    tracking,       \* slot->tracking_id
    frameEvent,     \* slot->frame_event: index in frame, 0 for -1
    silent,         \* now - slot->last_spoke > SLOT_SILENCE_SECONDS
    current,        \* ti->current_slot
    discarding,     \* ti->discarding
    frame, ready,   \* the two event buffers
    resyncNeeded,   \* ti->resync_needed
    view            \* history: the contacts the caller has been told are down

slotVars == <<active, announced, tracking, frameEvent>>
vars == <<slotVars, silent, current, discarding, frame, ready, resyncNeeded,
          view>>

Kinds == {"DOWN", "MOVE", "UP", "CANCEL"}
Event(kind, s) == [kind |-> kind, slot |-> s]

(* The n-th smallest number of K. *)
Nth(K, n) == CHOOSE k \in K : Cardinality({j \in K : j < k}) = n - 1

(* The events of kind `kind' for every slot of S, in slot order. *)
EventsFor(kind, S) ==
    [i \in 1 .. Cardinality(S) |-> Event(kind, Nth(S, i))]

(* The events q without those of the slots of S. *)
Without(q, S) ==
    LET kept == {i \in DOMAIN q : q[i].slot \notin S}
    IN  [i \in 1 .. Cardinality(kept) |-> q[Nth(kept, i)]]

(* Is slot s down after the first n events of q, given what it was before
   them?  The last of them that is not a MOVE decides. *)
Turns(q, n, s) == {i \in 1 .. n : q[i].slot = s /\ q[i].kind # "MOVE"}

VisibleAfter(before, q, n, s) ==
    IF Turns(q, n, s) = {} THEN before
    ELSE \E i \in Turns(q, n, s) : /\ q[i].kind = "DOWN"
                                   /\ \A j \in Turns(q, n, s) : j <= i

Visible(before, q, s) == VisibleAfter(before, q, Len(q), s)

Init ==
    /\ active = [s \in Slots |-> FALSE]
    /\ announced = [s \in Slots |-> FALSE]
    /\ tracking = [s \in Slots |-> NoId]
    /\ frameEvent = [s \in Slots |-> 0]
    /\ silent = [s \in Slots |-> FALSE]
    /\ current = 0
    /\ discarding = FALSE
    /\ frame = <<>> /\ ready = <<>>
    /\ resyncNeeded = FALSE
    /\ view = [s \in Slots |-> FALSE]

-----------------------------------------------------------------------------
(* Defect: only the first of two events is indexed. *)
AppendToFrameFirst(s, new) ==
    /\ frame' = frame \o new
    /\ frameEvent' = [frameEvent EXCEPT ![s] = Len(frame) + 1]

(* append_frame_event, for the events `new' of slot s. *)
AppendToFrame(s, new) ==
    /\ frame' = frame \o new
    /\ frameEvent' = [frameEvent EXCEPT ![s] = Len(frame')]

(* clear_slot on the slots of S. *)
ClearSlots(S) ==
    /\ active' = [s \in Slots |-> s \notin S /\ active[s]]
    /\ announced' = [s \in Slots |-> s \notin S /\ announced[s]]
    /\ tracking' = [s \in Slots |-> IF s \in S THEN NoId ELSE tracking[s]]

(* Defect: it is the driver's contacts that are cancelled. *)
AnnouncedIfActive == {s \in Slots : active[s]}

Announced == {s \in Slots : announced[s]}

(* A raw event is fed: not while a resync is owed, since process_input_event
   retries it first and drops the event when it fails again. *)
Reading == ~resyncNeeded /\ Len(frame) < MaxFrame
Decoding == Reading /\ ~discarding

(* ABS_MT_SLOT *)
SelectSlot(s) ==
    /\ Decoding
    /\ current' = s
    /\ UNCHANGED <<slotVars, silent, discarding, frame, ready, resyncNeeded,
                   view>>

Speak(s) == silent' = [silent EXCEPT ![s] = FALSE]

(* ABS_MT_TRACKING_ID -1: the contact lifts, if there is one. *)
TrackingUp ==
    /\ Decoding /\ current \in Slots
    /\ Speak(current)
    /\ IF active[current]
       THEN /\ AppendToFrame(current, <<Event("UP", current)>>)
            /\ active' = [active EXCEPT ![current] = FALSE]
            /\ tracking' = [tracking EXCEPT ![current] = NoId]
       ELSE UNCHANGED <<active, tracking, frame, frameEvent>>
    /\ UNCHANGED <<announced, current, discarding, ready, resyncNeeded, view>>

(* Defect: a contact that replaces another does not cancel it. *)
TrackingDownOver(id) ==
    /\ Decoding /\ current \in Slots
    /\ Speak(current)
    /\ IF active[current] /\ tracking[current] = id
       THEN UNCHANGED <<active, tracking, frame, frameEvent>>
       ELSE /\ AppendToFrame(current, <<Event("DOWN", current)>>)
            /\ active' = [active EXCEPT ![current] = TRUE]
            /\ tracking' = [tracking EXCEPT ![current] = id]
    /\ UNCHANGED <<announced, current, discarding, ready, resyncNeeded, view>>

(* ABS_MT_TRACKING_ID id: a contact begins; if another one was there its end
   was lost, and it is cancelled. *)
TrackingDown(id) ==
    /\ Decoding /\ current \in Slots
    /\ Speak(current)
    /\ IF active[current] /\ tracking[current] = id
       THEN UNCHANGED <<active, tracking, frame, frameEvent>>
       ELSE /\ AppendToFrame(current,
                 (IF active[current] THEN <<Event("CANCEL", current)>>
                                     ELSE <<>>)
                 \o <<Event("DOWN", current)>>)
            /\ active' = [active EXCEPT ![current] = TRUE]
            /\ tracking' = [tracking EXCEPT ![current] = id]
    /\ UNCHANGED <<announced, current, discarding, ready, resyncNeeded, view>>

(* ABS_MT_POSITION_X or _Y: it updates the slot's DOWN or MOVE of this frame
   in place, or appends a MOVE. *)
Position ==
    /\ Decoding /\ current \in Slots
    /\ Speak(current)
    /\ IF active[current]
          /\ (\/ frameEvent[current] = 0
              \/ frame[frameEvent[current]].kind \notin {"DOWN", "MOVE"})
       THEN AppendToFrame(current, <<Event("MOVE", current)>>)
       ELSE UNCHANGED <<frame, frameEvent>>
    /\ UNCHANGED <<active, announced, tracking, current, discarding, ready,
                   resyncNeeded, view>>

(* publish_frame *)
Publish(tail) ==
    /\ ready' = ready \o frame \o tail
    /\ frame' = <<>>
    /\ frameEvent' = [s \in Slots |-> 0]

SynReport ==
    /\ ~resyncNeeded /\ ~discarding
    /\ Len(ready) <= MaxReady
    /\ Publish(<<>>)
    /\ announced' = [s \in Slots |-> Visible(announced[s], frame, s)]
    /\ UNCHANGED <<active, tracking, silent, current, discarding,
                   resyncNeeded, view>>

(* Defect: a contact that is not announced yet survives the overflow. *)
SynDroppedKeep ==
    /\ ~resyncNeeded
    /\ discarding => Redropped
    /\ frame' = EventsFor("CANCEL", Announced)
    /\ ClearSlots(Announced)
    /\ frameEvent' = [s \in Slots |-> 0]
    /\ discarding' = TRUE
    /\ current' = 0
    /\ UNCHANGED <<silent, ready, resyncNeeded, view>>

(* SYN_DROPPED: cancel_active_to_frame. *)
SynDropped ==
    /\ ~resyncNeeded
    /\ discarding => Redropped
    /\ frame' = EventsFor("CANCEL", Announced)
    /\ ClearSlots(Slots)
    /\ frameEvent' = [s \in Slots |-> 0]
    /\ discarding' = TRUE
    /\ current' = 0
    /\ UNCHANGED <<silent, ready, resyncNeeded, view>>

(* resync_driver: the ioctls name a selected slot and the live contacts,
   live being a partial function from slots to tracking ids.  It runs when
   nothing is active; tail is published before the contacts it announces. *)
Resync(live, selected) ==
    /\ active' = [s \in Slots |-> s \in DOMAIN live \/ active[s]]
    /\ announced' = [s \in Slots |-> s \in DOMAIN live \/ announced[s]]
    /\ tracking' = [s \in Slots |->
            IF s \in DOMAIN live THEN live[s] ELSE tracking[s]]
    /\ silent' = [s \in Slots |-> s \notin DOMAIN live /\ silent[s]]
    /\ current' = selected

LiveContacts == UNION {[S -> Ids] : S \in SUBSET Slots}

(* SYN_REPORT while discarding: the CANCELs are published and the kernel is
   asked; when an ioctl fails the resync is owed. *)
SynReportResync ==
    /\ discarding /\ ~resyncNeeded
    /\ Len(ready) <= MaxReady
    /\ discarding' = FALSE
    /\ \/ \E live \in LiveContacts, selected \in Slots \union {BadSlot} :
            /\ Publish(EventsFor("DOWN", DOMAIN live))
            /\ Resync(live, selected)
            /\ resyncNeeded' = FALSE
       \/ /\ Publish(<<>>)
          /\ resyncNeeded' = TRUE
          /\ UNCHANGED <<active, announced, tracking, silent, current>>
    /\ UNCHANGED view

(* The retry at the start of read_fd, or before the next event. *)
ResyncRetry ==
    /\ resyncNeeded
    /\ Len(ready) <= MaxReady
    /\ \E live \in LiveContacts, selected \in Slots \union {BadSlot} :
            /\ ready' = ready \o EventsFor("DOWN", DOMAIN live)
            /\ Resync(live, selected)
            /\ frameEvent' = [s \in Slots |->
                    IF s \in DOMAIN live THEN 0 ELSE frameEvent[s]]
    /\ resyncNeeded' = FALSE
    /\ UNCHANGED <<discarding, frame, view>>

-----------------------------------------------------------------------------
(* Defects: the frame is compacted and the indices are not; the indices are
   forgotten and the events are not. *)
DiscardFromFrameUnindexed(S) ==
    /\ frame' = Without(frame, S)
    /\ frameEvent' = [s \in Slots |-> IF s \in S THEN 0 ELSE frameEvent[s]]

DiscardFromFrameNothing(S) ==
    /\ frameEvent' = [s \in Slots |-> IF s \in S THEN 0 ELSE frameEvent[s]]
    /\ UNCHANGED frame

(* discard_frame_slot for the slots of S, then the indices of the rest. *)
DiscardFromFrame(S) ==
    /\ frame' = Without(frame, S)
    /\ frameEvent' = [s \in Slots |->
            IF s \in S THEN 0
            ELSE LET at == {i \in DOMAIN frame' : frame'[i].slot = s}
                 IN  IF at = {} THEN 0
                     ELSE CHOOSE i \in at : \A j \in at : j <= i]

(* Defect: a contact whose lift is not published yet is not stale. *)
StaleIfActive == {s \in Slots : active[s] /\ silent[s]}

(* touch_input_expire *)
Stale == {s \in Slots : (active[s] \/ announced[s]) /\ silent[s]}

(* Defect: a contact that lifted in this very frame is not cancelled. *)
ExpireActive ==
    /\ Stale # {}
    /\ DiscardFromFrame(Stale)
    /\ ready' = ready \o EventsFor("CANCEL", {s \in Stale \intersect Announced :
                                                active[s]})
    /\ ClearSlots(Stale)
    /\ UNCHANGED <<silent, current, discarding, resyncNeeded, view>>

Expire ==
    /\ Stale # {}
    /\ DiscardFromFrame(Stale)
    /\ ready' = ready \o EventsFor("CANCEL", Stale \intersect Announced)
    /\ ClearSlots(Stale)
    /\ UNCHANGED <<silent, current, discarding, resyncNeeded, view>>

(* touch_input_set_flipped to the other orientation, and
   touch_input_cancel_all: the kernel's slot selection survives. *)
CancelAll ==
    /\ discarding => MidDiscardCalls
    /\ frame' = <<>>
    /\ ready' = ready \o EventsFor("CANCEL", Announced)
    /\ ClearSlots(Slots)
    /\ frameEvent' = [s \in Slots |-> 0]
    /\ discarding' = FALSE
    /\ UNCHANGED <<silent, current, resyncNeeded, view>>

(* drain_ready: the caller takes the oldest event. *)
Drain ==
    /\ ready # <<>>
    /\ ready' = Tail(ready)
    /\ view' = [view EXCEPT ![Head(ready).slot] =
                    Visible(@, <<Head(ready)>>, Head(ready).slot)]
    /\ UNCHANGED <<slotVars, silent, current, discarding, frame,
                   resyncNeeded>>

(* Half a second passes without an event of slot s. *)
FallSilent(s) ==
    /\ ~silent[s]
    /\ silent' = [silent EXCEPT ![s] = TRUE]
    /\ UNCHANGED <<slotVars, current, discarding, frame, ready, resyncNeeded,
                   view>>

RawEvent ==
    \/ \E s \in Slots \union {BadSlot} : SelectSlot(s)
    \/ TrackingUp
    \/ \E id \in Ids : TrackingDown(id)
    \/ Position
    \/ SynReport
    \/ SynDropped
    \/ SynReportResync

Next ==
    \/ RawEvent
    \/ ResyncRetry
    \/ Expire
    \/ CancelAll
    \/ Drain
    \/ \E s \in Slots : FallSilent(s)

Spec == Init /\ [][Next]_vars

(* The main loop calls expire and drains every frame, and time passes.  The
   driver owes no lift and no working ioctl; of its packets only this, that a
   SYN_DROPPED is followed by a SYN_REPORT, because evdev makes a packet
   readable up to its SYN_REPORT. *)
Fairness ==
    /\ WF_vars(SynReportResync)
    /\ WF_vars(Expire)
    /\ WF_vars(Drain)
    /\ \A s \in Slots : WF_vars(FallSilent(s))

FairSpec == Spec /\ Fairness

-----------------------------------------------------------------------------
TypeOK ==
    /\ active \in [Slots -> BOOLEAN]
    /\ announced \in [Slots -> BOOLEAN]
    /\ tracking \in [Slots -> Ids \union {NoId}]
    /\ frameEvent \in [Slots -> 0 .. Len(frame)]
    /\ silent \in [Slots -> BOOLEAN]
    /\ current \in Slots \union {BadSlot, 0}
    /\ discarding \in BOOLEAN
    /\ frame \in Seq([kind : Kinds, slot : Slots])
    /\ ready \in Seq([kind : Kinds, slot : Slots])
    /\ resyncNeeded \in BOOLEAN
    /\ view \in [Slots -> BOOLEAN]

Pipeline == ready \o frame

(* Every event on its way to the caller is legal where it stands: a DOWN of
   a slot that is up, a MOVE, UP or CANCEL of one that is down.  The router
   and the cube rely on it: a second DOWN or a missing end is a phantom. *)
StreamAlternates ==
    \A i \in DOMAIN Pipeline :
        LET e == Pipeline[i]
        IN  (e.kind = "DOWN") <=>
                ~VisibleAfter(view[e.slot], Pipeline, i - 1, e.slot)

(* announced is what the caller will believe once it has drained ready, and,
   when a SYN_DROPPED is being handled, the CANCELs waiting in the frame:
   otherwise a contact would stay down that nobody will ever end. *)
AnnouncedIsVisible ==
    \A s \in Slots :
        announced[s] = Visible(view[s],
                               IF discarding THEN Pipeline ELSE ready, s)

(* Publishing the frame makes the caller's contacts the driver's. *)
FrameCatchesUp ==
    \A s \in Slots : active[s] = Visible(view[s], Pipeline, s)

(* frame_event, the index handle_position writes through, is in bounds and
   names the slot's own latest event; it is only forgotten when discarding. *)
FrameIndexExact ==
    \A s \in Slots :
        LET at == {i \in DOMAIN frame : frame[i].slot = s}
        IN  IF frameEvent[s] = 0
            THEN discarding \/ at = {}
            ELSE frameEvent[s] \in at /\ \A i \in at : i <= frameEvent[s]

(* resync_driver announces contacts without asking whether they were
   announced before; it may, because nothing is when a resync is owed. *)
ResyncFindsNothing ==
    resyncNeeded => frame = <<>> /\ \A s \in Slots : ~active[s] /\ ~announced[s]

(* What the code assumes of the frame and of a resynchronisation without
   asking: each part is an assumption of another function. *)
DecoderIsExact == FrameCatchesUp /\ FrameIndexExact /\ ResyncFindsNothing

(* A contact the caller sees, of which the driver stays silent, is ended:
   a lost lift can park a finger for half a second, not for ever. *)
SilentContactEnds ==
    \A s \in Slots : (view[s] /\ silent[s]) ~> (~view[s] \/ ~silent[s])

(* "A changed orientation queues cancellation of every visible contact"
   (touch_input.h:34). *)
CancelAllReachesEveryContact ==
    [][CancelAll => \A s \in Slots : ~Visible(view[s], ready', s)]_vars
==============================================================================
