------------------------------- MODULE Pickup -------------------------------
(***************************************************************************)
(* sleep_state.c, the pick-up detector: after the screen went dark it      *)
(* waits two seconds, then for the tablet to lie still, takes where it     *)
(* lies for a baseline, and counts samples that are far from it.  The      *)
(* operators map a detector and a sample to the next detector; DisplayLoop *)
(* holds the state and decides which samples it gets.                      *)
(*                                                                         *)
(* The axes are treated alike and one stands for the three.  A sample is a *)
(* multiple of 50 mg, the largest unit that keeps 60 mg and 150 mg apart.  *)
(***************************************************************************)
EXTENDS Integers, Sequences

CONSTANT
    Samples         \* accelerations, in units of 50 mg

ASSUME SampleAssumption == Samples \subseteq Int /\ 0 \in Samples

Votes == 0 .. 3     \* PICKUP_REQUIRED_VOTES, PICKUP_SETTLE_REQUIRED_VOTES

Detectors ==
    [armed : BOOLEAN, base : Samples, votes : Votes,
     near : Samples, still : Votes]

(* pickup_start.  have_settle is still > 0. *)
PickupStart ==
    [armed |-> FALSE, base |-> 0, votes |-> 0, near |-> 0, still |-> 0]

DiffersBy(x, y, limit) == x - y > limit \/ y - x > limit
Unsettled(x, y) == DiffersBy(x, y, 1)       \* 60 mg
MovedFrom(x, base) == DiffersBy(x, base, 3) \* 150 mg

(* Defect: samples count that do not agree with the one before them. *)
SettledLoose(p, x) == [p EXCEPT !.near = x, !.still = p.still + 1]

(* settled: samples that agree with the one before them. *)
Settled(p, x) ==
    [p EXCEPT !.near = x,
              !.still = IF p.still > 0 /\ Unsettled(x, p.near) THEN 1
                        ELSE p.still + 1]

(* pickup_feed of a sample that is newer than the last one; early ones,
   taken in the first two seconds of the dark, are not looked at. *)
PickupFeed(p, x, early) ==
    LET n == Settled(p, x)
    IN  IF p.armed
        THEN [p EXCEPT !.votes = IF MovedFrom(x, p.base) THEN @ + 1 ELSE 0]
        ELSE IF early THEN p
        ELSE IF n.still < 3 THEN n
        ELSE [n EXCEPT !.armed = TRUE, !.base = x]

PickedUp(p) == p.votes >= 3

-----------------------------------------------------------------------------
(* The same, said of all the samples since the two seconds were over: three
   in a row where each agrees with the one before arm the detector, and
   later three in a row far from the last of those wake the tablet. *)
Still(seen, i) ==
    /\ i >= 3
    /\ ~Unsettled(seen[i - 1], seen[i - 2])
    /\ ~Unsettled(seen[i], seen[i - 1])

Lifted(seen) ==
    \E i \in DOMAIN seen :
        /\ Still(seen, i) /\ \A j \in 1 .. i - 1 : ~Still(seen, j)
        /\ Len(seen) - i >= 3
        /\ \A j \in Len(seen) - 2 .. Len(seen) : MovedFrom(seen[j], seen[i])
==============================================================================
