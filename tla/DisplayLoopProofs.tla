--------------------------- MODULE DisplayLoopProofs ---------------------------
(***************************************************************************)
(* Proofs about DisplayLoop, for every set of buffers, every set of        *)
(* samples, any number of restarts and every choice of the calls that may  *)
(* fail.  The invariant has three independent parts: which buffer is where *)
(* while no flip was refused or late, who has to give the power back, and  *)
(* what the detector knows of the samples.  That a press of the key ends   *)
(* with a picture is liveness, and stays with TLC.                         *)
(***************************************************************************)
EXTENDS DisplayLoop, TLAPS

(* The buffers while no flip was refused or late: at the places of a frame
   the display shows the previous buffer, during a flip it takes the frame's
   own, and a mode set shows that at once. *)
BufferInv ==
    /\ at \in {"exited", "over"} => scanout = None /\ queued = None /\ events = 0
    /\ ~missed =>
        /\ at # "flip" => queued = None /\ events = 0
        /\ at \notin {"flip", "release"} => scanout \in {prev, None}
        /\ at = "flip" => \/ queued = bo /\ events = 0 /\ scanout \in {prev, None}
                          \/ queued = None /\ events = 1 /\ scanout = bo
        /\ at = "release" => scanout = bo

(* The power: what frames have not got back yet, the first of them will. *)
PowerInv ==
    /\ waking => first
    /\ at \in Running => power = On \/ blind \/ waking
    /\ at = "exited" => power = On \/ blind

SampleType == [x : Samples, early : BOOLEAN]

(* The samples: early ones are not kept, and none is early after one that
   is not. *)
SampleInv ==
    /\ seen \in Seq(Samples) /\ delay \in BOOLEAN
    /\ sample # None => sample \in SampleType /\ (sample.early \/ delay)
    /\ seen # <<>> => delay /\ (sample = None \/ ~sample.early)
    /\ at \notin {"dark", "wake"} => seen = <<>> /\ ~delay

(* The detector that is not armed saw nobody lie still: near is the last
   sample, still says whether that agreed with the one before. *)
Waiting(p, s) ==
    /\ \A i \in DOMAIN s : ~Still(s, i)
    /\ p.votes = 0 /\ p.still \in 0 .. 2
    /\ p.still = 0 <=> s = <<>>
    /\ s # <<>> => p.near = s[Len(s)]
    /\ p.still = 2 <=> Len(s) >= 2 /\ ~Unsettled(s[Len(s)], s[Len(s) - 1])

(* The armed one holds the first still sample, and counts the last ones that
   are far from it. *)
ArmedAt(p, s, a) ==
    /\ a \in DOMAIN s /\ Still(s, a) /\ p.base = s[a]
    /\ \A j \in 1 .. a - 1 : ~Still(s, j)
    /\ p.votes \in 0 .. 2 /\ p.votes <= Len(s) - a
    /\ \A j \in Len(s) - p.votes + 1 .. Len(s) : MovedFrom(s[j], s[a])
    /\ Len(s) - p.votes > a => ~MovedFrom(s[Len(s) - p.votes], s[a])

Tracks(p, s) ==
    /\ p \in Detectors
    /\ ~p.armed => Waiting(p, s)
    /\ p.armed => \E a \in DOMAIN s : ArmedAt(p, s, a)

PickupInv == at = "dark" => Tracks(pickup, seen)

IInv == BufferInv /\ PowerInv /\ SampleInv /\ PickupInv

-----------------------------------------------------------------------------
(* One more sample leaves what the earlier ones say as it is. *)
LEMMA StillAppended ==
    ASSUME NEW s \in Seq(Samples), NEW x \in Samples
    PROVE  /\ Append(s, x) \in Seq(Samples) /\ Len(Append(s, x)) = Len(s) + 1
           /\ Append(s, x)[Len(s) + 1] = x
           /\ \A i \in 1 .. Len(s) : Append(s, x)[i] = s[i]
           /\ \A i \in 1 .. Len(s) : Still(Append(s, x), i) <=> Still(s, i)
<1>1. /\ Append(s, x) \in Seq(Samples) /\ Len(Append(s, x)) = Len(s) + 1
      /\ Append(s, x)[Len(s) + 1] = x
      /\ \A i \in 1 .. Len(s) : Append(s, x)[i] = s[i]
  OBVIOUS
<1>2. ASSUME NEW i \in 1 .. Len(s)
      PROVE  Still(Append(s, x), i) <=> Still(s, i)
  <2>1. CASE i >= 3
    <3>1. i - 1 \in 1 .. Len(s) /\ i - 2 \in 1 .. Len(s)
      BY <2>1
    <3> QED
      BY <1>1, <3>1 DEF Still
  <2>2. CASE ~(i >= 3)
    BY <2>2 DEF Still
  <2> QED
    BY <2>1, <2>2
<1> QED
  BY <1>1, <1>2

(* What the detector that waits for stillness does with a sample. *)
LEMMA WaitingFeeds ==
    ASSUME NEW p \in Detectors, NEW s \in Seq(Samples), NEW x \in Samples,
           ~p.armed, Waiting(p, s)
    PROVE  LET q == PickupFeed(p, x, FALSE)
               t == Append(s, x)
           IN  ~PickedUp(q) /\ ~Lifted(t) /\ Tracks(q, t)
<1> DEFINE t == Append(s, x)
           m == Len(s) + 1
           n == Settled(p, x)
           q == PickupFeed(p, x, FALSE)
           k == IF p.still > 0 /\ Unsettled(x, p.near) THEN 1 ELSE p.still + 1
<1>1. /\ t \in Seq(Samples) /\ Len(t) = m /\ DOMAIN t = 1 .. m /\ t[m] = x
      /\ Len(s) \in Nat /\ DOMAIN s = 1 .. Len(s)
      /\ \A i \in 1 .. Len(s) : t[i] = s[i]
      /\ \A i \in 1 .. Len(s) : ~Still(t, i)
  BY StillAppended DEF Waiting
<1> HIDE DEF t
<1>2. /\ p.still \in 0 .. 2 /\ p.votes = 0
      /\ p.still = 0 <=> Len(s) = 0
      /\ Len(s) > 0 => p.near = t[Len(s)]
      /\ p.still = 2 <=> Len(s) >= 2 /\ ~Unsettled(t[Len(s)], t[Len(s) - 1])
  <2>1. s = <<>> <=> Len(s) = 0
    OBVIOUS
  <2>2. /\ Len(s) > 0 => t[Len(s)] = s[Len(s)]
        /\ Len(s) >= 2 => t[Len(s) - 1] = s[Len(s) - 1]
    BY <1>1
  <2> QED
    BY <1>1, <2>1, <2>2 DEF Waiting
<1>3. /\ k \in 1 .. 3
      /\ k = 3 <=> Still(t, m)
      /\ k < 3 => (k = 2 <=> m >= 2 /\ ~Unsettled(t[m], t[m - 1]))
  <2>1. CASE p.still = 0
    BY <1>1, <1>2, <2>1 DEF Still
  <2>2. CASE p.still # 0
    <3>1. /\ Len(s) >= 1 /\ m - 1 = Len(s) /\ p.near = t[m - 1]
          /\ p.still \in 1 .. 2
          /\ k = IF Unsettled(x, p.near) THEN 1 ELSE p.still + 1
      BY <1>1, <1>2, <2>2
    <3>2. Still(t, m) <=> p.still = 2 /\ ~Unsettled(x, p.near)
      BY <1>1, <1>2, <3>1 DEF Still
    <3> QED
      BY <1>1, <3>1, <3>2
  <2> QED
    BY <2>1, <2>2
<1>4. n \in Detectors /\ n.armed = FALSE /\ n.votes = 0 /\ n.near = x
      /\ n.still = k
  <2>1. p.armed = FALSE /\ k \in Votes
    BY <1>3 DEF Detectors, Votes
  <2>2. n = [p EXCEPT !.near = x, !.still = k]
    BY DEF Settled
  <2> HIDE DEF n, k
  <2> QED
    BY <1>2, <2>1, <2>2 DEF Detectors
<1> HIDE DEF n, k
<1>5. q = IF k < 3 THEN n ELSE [n EXCEPT !.armed = TRUE, !.base = x]
  BY <1>4 DEF PickupFeed, n
<1> HIDE DEF q
<1> SUFFICES ~PickedUp(q) /\ ~Lifted(t) /\ Tracks(q, t)
  BY DEF q, t
<1>6. CASE k < 3
  <2>1. q = n /\ ~Still(t, m)
    BY <1>3, <1>5, <1>6
  <2>2. \A i \in DOMAIN t : ~Still(t, i)
    BY <1>1, <2>1
  <2>3. Waiting(q, t)
    <3>1. q.votes = 0 /\ q.still = k /\ q.near = t[m] /\ k \in 1 .. 2
      BY <1>1, <1>3, <1>4, <1>6, <2>1
    <3>2. t # <<>>
      BY <1>1
    <3> QED
      BY <1>1, <1>3, <1>6, <2>2, <3>1, <3>2 DEF Waiting
  <2>4. ~Lifted(t) /\ ~PickedUp(q)
    BY <1>4, <2>1, <2>2 DEF Lifted, PickedUp
  <2> QED
    BY <1>4, <2>1, <2>3, <2>4 DEF Tracks
<1>7. CASE k = 3
  <2>1. Still(t, m) /\ q = [n EXCEPT !.armed = TRUE, !.base = x]
    BY <1>3, <1>5, <1>7
  <2>2. q \in Detectors /\ q.armed = TRUE /\ q.base = x /\ q.votes = 0
    BY <1>4, <2>1 DEF Detectors, Votes
  <2>3. ArmedAt(q, t, m)
    BY <1>1, <2>1, <2>2 DEF ArmedAt
  <2>4. ~Lifted(t) /\ ~PickedUp(q)
    BY <1>1, <2>2 DEF Lifted, PickedUp
  <2> QED
    BY <1>1, <2>2, <2>3, <2>4 DEF Tracks
<1> QED
  BY <1>3, <1>6, <1>7

(* What the armed detector does: it wakes the tablet exactly when the last
   three samples are far from where it lay. *)
LEMMA ArmedFeeds ==
    ASSUME NEW p \in Detectors, NEW s \in Seq(Samples), NEW x \in Samples,
           p.armed, NEW a \in DOMAIN s, ArmedAt(p, s, a)
    PROVE  LET q == PickupFeed(p, x, FALSE)
               t == Append(s, x)
           IN  /\ PickedUp(q) <=> Lifted(t)
               /\ ~PickedUp(q) => Tracks(q, t)
<1> DEFINE t == Append(s, x)
           m == Len(s) + 1
           q == PickupFeed(p, x, FALSE)
           k == IF MovedFrom(x, p.base) THEN p.votes + 1 ELSE 0
<1>1. /\ t \in Seq(Samples) /\ Len(t) = m /\ DOMAIN t = 1 .. m /\ t[m] = x
      /\ Len(s) \in Nat /\ DOMAIN s = 1 .. Len(s) /\ a \in 1 .. Len(s)
      /\ \A i \in 1 .. Len(s) : t[i] = s[i]
      /\ \A i \in 1 .. Len(s) : Still(t, i) <=> Still(s, i)
  BY StillAppended
<1> HIDE DEF t
<1>2. /\ Still(t, a) /\ p.base = t[a] /\ \A j \in 1 .. a - 1 : ~Still(t, j)
      /\ p.votes \in 0 .. 2 /\ p.votes <= m - 1 - a
      /\ \A j \in m - p.votes .. m - 1 : MovedFrom(t[j], t[a])
      /\ m - 1 - p.votes > a => ~MovedFrom(t[m - 1 - p.votes], t[a])
  BY <1>1 DEF ArmedAt
<1>3. q = [p EXCEPT !.votes = k]
  BY DEF PickupFeed
<1>4. k \in 0 .. 3
  BY <1>2
<1>5. q \in Detectors /\ q.armed = TRUE /\ q.base = t[a] /\ q.votes = k
  BY <1>2, <1>3, <1>4 DEF Detectors, Votes
<1> HIDE DEF q
<1>6. \A i \in DOMAIN t : (Still(t, i) /\ \A j \in 1 .. i - 1 : ~Still(t, j))
                          <=> i = a
  BY <1>1, <1>2
<1>7. Lifted(t) <=> m - a >= 3 /\ \A j \in m - 2 .. m : MovedFrom(t[j], t[a])
  BY <1>1, <1>6 DEF Lifted
<1>8. k = 3 <=> m - a >= 3 /\ \A j \in m - 2 .. m : MovedFrom(t[j], t[a])
  <2>1. ASSUME k = 3
        PROVE  m - a >= 3 /\ \A j \in m - 2 .. m : MovedFrom(t[j], t[a])
    <3>1. p.votes = 2 /\ MovedFrom(t[m], t[a])
      BY <1>1, <1>2, <2>1
    <3> QED
      BY <1>1, <1>2, <3>1
  <2>2. ASSUME m - a >= 3, \A j \in m - 2 .. m : MovedFrom(t[j], t[a])
        PROVE  k = 3
    <3>1. /\ MovedFrom(t[m], t[a]) /\ MovedFrom(t[m - 1], t[a])
          /\ MovedFrom(t[m - 2], t[a])
      BY <1>1, <2>2
    <3>2. p.votes # 0 /\ p.votes # 1
      BY <1>1, <1>2, <2>2, <3>1
    <3> QED
      BY <1>1, <1>2, <3>1, <3>2
  <2> QED
    BY <2>1, <2>2
<1>9. PickedUp(q) <=> k = 3
  BY <1>4, <1>5 DEF PickedUp
<1>10. ASSUME k # 3 PROVE ArmedAt(q, t, a)
  <2>1. CASE MovedFrom(x, p.base)
    <3>1. k = p.votes + 1 /\ k \in 1 .. 2 /\ k <= m - a /\ m - k = m - 1 - p.votes
      BY <1>1, <1>2, <1>4, <1>10, <2>1
    <3>2. MovedFrom(t[m], t[a])
      BY <1>1, <1>2, <2>1
    <3>3. \A j \in m - k + 1 .. m : MovedFrom(t[j], t[a])
      BY <1>1, <1>2, <3>1, <3>2
    <3>4. m - k > a => ~MovedFrom(t[m - k], t[a])
      BY <1>2, <3>1
    <3> HIDE DEF k, m
    <3> QED
      BY <1>1, <1>2, <1>5, <3>1, <3>3, <3>4 DEF ArmedAt
  <2>2. CASE ~MovedFrom(x, p.base)
    BY <1>1, <1>2, <1>4, <1>5, <1>10, <2>2 DEF ArmedAt
  <2> QED
    BY <2>1, <2>2
<1>11. /\ PickedUp(q) <=> Lifted(t)
       /\ ~PickedUp(q) => Tracks(q, t)
  BY <1>1, <1>5, <1>7, <1>8, <1>9, <1>10 DEF Tracks
<1> QED
  BY <1>11 DEF t, q

(* The sample that a pass of the dark loop looks at, if there is one. *)
LEMMA PassFeeds ==
    ASSUME IInv, DarkPass
    PROVE  /\ SampleInv' /\ PickupInv'
           /\ seen' # seen => (at' = "wake" <=> key \/ Lifted(seen'))
<1> DEFINE fed == IF Fresh THEN PickupFeed(pickup, sample.x, sample.early)
                  ELSE pickup
<1>1. /\ at = "dark" /\ pickup' = fed /\ sample' = None /\ delay' = delay
      /\ seen' = IF ~Fresh \/ sample.early THEN seen ELSE Append(seen, sample.x)
      /\ at' = IF key \/ PickedUp(fed) THEN "wake" ELSE "dark"
  BY DEF DarkPass, senseVars
<1>2. /\ seen \in Seq(Samples) /\ delay \in BOOLEAN
      /\ sample # None => sample \in SampleType /\ (sample.early \/ delay)
      /\ seen # <<>> => delay /\ (sample = None \/ ~sample.early)
  BY DEF IInv, SampleInv
<1>3. Tracks(pickup, seen)
  BY <1>1 DEF IInv, PickupInv
<1>4. CASE ~Fresh
  BY <1>1, <1>2, <1>3, <1>4 DEF SampleInv, PickupInv
<1>5. CASE Fresh /\ sample.early
  <2>1. seen = <<>> /\ ~pickup.armed
    <3>1. seen = <<>>
      BY <1>2, <1>5 DEF Fresh
    <3> QED
      BY <1>3, <3>1 DEF Tracks
  <2>2. fed = pickup
    BY <1>5, <2>1 DEF PickupFeed
  <2> QED
    BY <1>1, <1>2, <1>3, <1>5, <2>2 DEF SampleInv, PickupInv
<1>6. CASE Fresh /\ ~sample.early
  <2>1. /\ sample.x \in Samples /\ delay /\ sample.early = FALSE
    BY <1>2, <1>6 DEF Fresh, SampleType
  <2>2. /\ seen' = Append(seen, sample.x) /\ seen' \in Seq(Samples)
        /\ fed = PickupFeed(pickup, sample.x, FALSE)
    BY <1>1, <1>2, <1>6, <2>1, StillAppended
  <2>3. /\ PickedUp(fed) <=> Lifted(seen')
        /\ ~PickedUp(fed) => Tracks(fed, seen')
    <3>1. CASE ~pickup.armed
      <4>1. pickup \in Detectors /\ Waiting(pickup, seen)
        BY <1>3, <3>1 DEF Tracks
      <4> QED
        BY <1>2, <2>1, <2>2, <3>1, <4>1, WaitingFeeds
    <3>2. CASE pickup.armed
      <4>1. pickup \in Detectors /\ \E a \in DOMAIN seen : ArmedAt(pickup, seen, a)
        BY <1>3, <3>2 DEF Tracks
      <4> QED
        BY <1>2, <2>1, <2>2, <3>2, <4>1, ArmedFeeds
    <3> QED
      BY <3>1, <3>2
  <2> HIDE DEF fed
  <2> QED
    BY <1>1, <1>2, <2>1, <2>2, <2>3 DEF SampleInv, PickupInv
<1> QED
  BY <1>4, <1>5, <1>6

(* A detector that has seen nothing waits. *)
LEMMA StartTracks == Tracks(PickupStart, <<>>)
BY SampleAssumption
DEF Tracks, Waiting, PickupStart, Detectors, Votes

LEMMA SampleStep ==
    ASSUME IInv, [Next]_vars
    PROVE  SampleInv' /\ PickupInv'
<1> USE DEF IInv, SampleInv, PickupInv, senseVars
<1>1. CASE DarkPass
  BY <1>1, PassFeeds
<1>2. CASE CrtcOff
  <2>1. /\ [x |-> 0, early |-> TRUE] \in SampleType
        /\ [x |-> 0, early |-> TRUE].early
    BY SampleAssumption DEF SampleType
  <2>2. /\ pickup' = PickupStart /\ sample' \in {None, [x |-> 0, early |-> TRUE]}
        /\ seen' = <<>> /\ delay' = FALSE /\ seen = seen'
    BY <1>2 DEF CrtcOff
  <2>3. /\ <<>> \in Seq(Samples) /\ at' = "dark"
        /\ sample' # None => sample' \in SampleType /\ sample'.early
    BY <1>2, <2>1, <2>2 DEF CrtcOff
  <2>4. SampleInv'
    BY <2>2, <2>3
  <2> QED
    BY <2>2, <2>4, StartTracks
<1>3. CASE WakeUp
  <2>1. seen' = <<>> /\ delay' = FALSE /\ sample' = None /\ at' = "draw"
    BY <1>3 DEF WakeUp
  <2>2. <<>> \in Seq(Samples)
    OBVIOUS
  <2> QED
    BY <2>1, <2>2
<1>4. CASE Sense
  <2>1. PICK x \in Samples : sample' = [x |-> x, early |-> ~delay]
    BY <1>4 DEF Sense
  <2>2. sample' \in SampleType /\ sample'.early = ~delay
    BY <2>1 DEF SampleType
  <2> QED
    BY <1>4, <2>2 DEF Sense, loopVars
<1>5. CASE TwoSecondsPass
  BY <1>5 DEF TwoSecondsPass, loopVars
<1>6. CASE /\ UNCHANGED senseVars
           /\ \/ at' = at
              \/ at' # "dark" /\ (at \notin {"dark", "wake"} \/ at' = "wake")
  BY <1>6
<1>7. CASE Frame \/ Draw \/ SetMode \/ PageFlip \/ FlipEvent \/ Release \/ Darken
  BY <1>6, <1>7 DEF Frame, Draw, SetMode, PageFlip, FlipEvent, Release, Darken
<1>8. CASE Failures
  BY <1>6, <1>8 DEF Failures, ReadFails, CrtcOffFails, DarkFails, DrawFails,
      SetModeFails, PageFlipFails, FlipTimeout, Exit, Exited
<1>9. CASE Supervisor
  BY <1>6, <1>9 DEF Supervisor, Start, GiveUp
<1>10. CASE FlipCompletes \/ Press \/ UNCHANGED vars
  BY <1>6, <1>10 DEF FlipCompletes, Press, vars, loopVars
<1> QED
  BY <1>1, <1>2, <1>3, <1>4, <1>5, <1>7, <1>8, <1>9, <1>10 DEF Next, Awake, Asleep

-----------------------------------------------------------------------------
LEMMA BufferStep ==
    ASSUME IInv, [Next]_vars
    PROVE  BufferInv'
<1> USE DEF IInv, BufferInv
<1>1. CASE Awake
  BY <1>1 DEF Awake, Frame, Draw, SetMode, PageFlip, FlipEvent, Release,
      displayVars, bufferVars
<1>2. CASE Asleep
  BY <1>2 DEF Asleep, Darken, CrtcOff, DarkPass, WakeUp, displayVars, bufferVars
<1>3. CASE Failures
  BY <1>3 DEF Failures, ReadFails, CrtcOffFails, DarkFails, DrawFails,
      SetModeFails, PageFlipFails, FlipTimeout, Exit, Exited, displayVars,
      bufferVars
<1>4. CASE Supervisor
  BY <1>4 DEF Supervisor, Start, GiveUp, displayVars, bufferVars
<1>5. CASE FlipCompletes
  BY <1>5 DEF FlipCompletes, loopVars, bufferVars
<1>6. CASE Press \/ Sense \/ TwoSecondsPass \/ UNCHANGED vars
  BY <1>6 DEF Press, Sense, TwoSecondsPass, vars, loopVars, displayVars,
      bufferVars
<1> QED
  BY <1>1, <1>2, <1>3, <1>4, <1>5, <1>6 DEF Next

LEMMA PowerStep ==
    ASSUME IInv, [Next]_vars
    PROVE  PowerInv'
<1> USE DEF IInv, PowerInv, Running
<1>1. CASE Frame \/ Draw \/ PageFlip \/ FlipEvent \/ Release
  BY <1>1 DEF Frame, Draw, PageFlip, FlipEvent, Release, powerVars
<1>2. CASE SetMode
  BY <1>2 DEF SetMode, PowerOn, powerVars
<1>3. CASE Asleep
  BY <1>3 DEF Asleep, Darken, PowerOff, CrtcOff, DarkPass, WakeUp, powerVars
<1>4. CASE ReadFails \/ DrawFails \/ SetModeFails
  <2>1. /\ at \in Running /\ at' = "exited" /\ UNCHANGED <<first, waking, power>>
        /\ blind' = (blind \/ waking)
    BY <1>4 DEF ReadFails, DrawFails, SetModeFails, Exit, Exited
  <2>2. blind \/ waking => blind'
    BY <2>1
  <2> QED
    BY <2>1, <2>2
<1>5. CASE CrtcOffFails
  BY <1>5 DEF CrtcOffFails, PowerOn, Exited
<1>6. CASE DarkFails \/ PageFlipFails \/ FlipTimeout
  BY <1>6 DEF DarkFails, PageFlipFails, FlipTimeout, powerVars
<1>7. CASE Supervisor
  BY <1>7 DEF Supervisor, Start, GiveUp, powerVars
<1>8. CASE FlipCompletes \/ Press \/ Sense \/ TwoSecondsPass \/ UNCHANGED vars
  BY <1>8 DEF FlipCompletes, Press, Sense, TwoSecondsPass, vars, loopVars,
      powerVars
<1> QED
  BY <1>1, <1>2, <1>3, <1>4, <1>5, <1>6, <1>7, <1>8
  DEF Next, Awake, Failures

(* The inductive invariant holds in every reachable state. *)
THEOREM LoopInductive == Spec => []IInv
<1>1. Init => IInv
  <2> SUFFICES ASSUME Init PROVE IInv
    OBVIOUS
  <2>1. <<>> \in Seq(Samples)
    OBVIOUS
  <2>2. SampleInv /\ PickupInv
    BY <2>1 DEF Init, SampleInv, PickupInv
  <2> QED
    BY <2>2 DEF Init, IInv, BufferInv, PowerInv, Running
<1>2. IInv /\ [Next]_vars => IInv'
  BY BufferStep, PowerStep, SampleStep DEF IInv
<1> QED
  BY <1>1, <1>2, PTL DEF Spec

(* Only the previous buffer is released: what the display shows or is about
   to show is locked until a flip is refused or late. *)
THEOREM FlippedScanoutKeptThm == Spec => []FlippedScanoutKept
<1>1. IInv => FlippedScanoutKept
  BY DEF IInv, BufferInv, FlippedScanoutKept, ScanoutKept
<1> QED
  BY <1>1, LoopInductive, PTL

(* A program that shows frames shows them on a lit panel, whatever failed and
   whichever process went to sleep. *)
THEOREM LitWhenAwakeThm == Spec => []LitWhenAwake
<1>1. IInv => LitWhenAwake
  BY DEF IInv, PowerInv, LitWhenAwake
<1> QED
  BY <1>1, LoopInductive, PTL

(* The detector wakes the tablet exactly when the samples say that it was
   lying still and then lifted, for any samples at any time. *)
THEOREM PickupIsExactThm == Spec => PickupIsExact
<1>1. IInv /\ [Next]_vars =>
        [at = "dark" /\ seen' # seen
         => (at' = "wake" <=> key \/ Lifted(seen'))]_vars
  <2> SUFFICES ASSUME IInv, Next, at = "dark", seen' # seen
               PROVE  at' = "wake" <=> key \/ Lifted(seen')
    BY DEF vars
  <2>1. DarkPass
    BY DEF Next, Awake, Asleep, Failures, Supervisor, Frame, Draw, SetMode,
        PageFlip, FlipEvent, Release, Darken, CrtcOff, WakeUp, ReadFails,
        CrtcOffFails, DarkFails, DrawFails, SetModeFails, PageFlipFails,
        FlipTimeout, Start, GiveUp, FlipCompletes, Press, Sense,
        TwoSecondsPass, senseVars
  <2> QED
    BY <2>1, PassFeeds
<1> QED
  BY <1>1, LoopInductive, PTL DEF Spec, PickupIsExact
===============================================================================
