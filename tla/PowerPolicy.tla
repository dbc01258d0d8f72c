----------------------------- MODULE PowerPolicy -----------------------------
(***************************************************************************)
(* power_policy.c: the brightness that Auto chooses by what the battery    *)
(* does.  The runtime hands the policy a reading every ten seconds; three  *)
(* that agree, over thirty seconds, decide.  Each supply has a level of    *)
(* its own that steps down while the battery drains and up while it gains. *)
(*                                                                         *)
(* A tick is ten seconds, the runtime's cadence: two readings in one tick  *)
(* are less than 5 s apart, two readings two ticks apart more than 15 s.   *)
(* Times are kept as ages that stop at the limit they are compared with.   *)
(* The ring of three currents and its sum are a sequence; effective_source *)
(* only ever follows the decision and is left out.                         *)
(***************************************************************************)
EXTENDS Integers, Sequences

CONSTANTS
    Sources,        \* the supplies: usb, ac
    Battery,        \* no supply is online
    Nothing,        \* window_source -2, and a level that was never reached
    Currents,       \* battery currents, in mA
    MaxLevel,       \* max_level
    WindowTicks,    \* 30000 ms
    UpTicks,        \* 60000 ms
    RetryTicks      \* 600000 ms

ASSUME PolicyAssumption ==
    /\ Battery \notin Sources
    /\ Nothing \notin Sources \union {Battery} /\ Nothing \notin Nat
    /\ Currents \subseteq Int
    /\ MaxLevel \in Nat /\ MaxLevel >= 8
    /\ WindowTicks \in Nat /\ UpTicks \in Nat /\ RetryTicks \in Nat
    /\ WindowTicks >= 3

VARIABLES
    source,         \* per supply: level, its last raise, its last failure
    effective,      \* effective_level
    note,           \* does the footer say "cannot sustain"?
    window,         \* current_ua: at most three currents
    windowAge,      \* now - window_started_ms
    windowOf,       \* window_source and window_full
    readAge,        \* now - last_read_ms, or Nothing for 0
    streak,         \* history: readings in a row that agree, at most 3
    decided,        \* history: ticks since the last decision
    rested          \* history: ticks since a raise to each level failed

windowVars == <<window, windowAge, windowOf>>
vars == <<source, effective, note, windowVars, readAge, streak, decided, rested>>

Least(a, b) == IF a < b THEN a ELSE b
Floor == Least(40, MaxLevel)
Levels == Floor .. MaxLevel
OnBattery == Least(128, MaxLevel)
Unknown == [from |-> Nothing, full |-> FALSE]
FullTicks(limit) == limit + 1       \* an age past every comparison with limit

(* What a reading says of the supplies: "Full" counts only on a supply. *)
Supplies == [from : Sources \union {Battery}, full : {FALSE}]
            \union [from : Sources, full : {TRUE}]

(* power_policy_new *)
Init ==
    /\ source = [s \in Sources |->
            [level |-> 0, up |-> 0, upAge |-> FullTicks(UpTicks),
             failed |-> 0, failedAge |-> RetryTicks]]
    /\ effective = 0 /\ note = FALSE
    /\ window = <<>> /\ windowAge = 0 /\ windowOf = Unknown
    /\ readAge = Nothing
    /\ streak = 0 /\ decided = WindowTicks
    /\ rested = [s \in Sources |-> [l \in Levels |-> RetryTicks]]

-----------------------------------------------------------------------------
(* Defect: the start of the window is not reset with it. *)
ResetWindowKeepStart(age) ==
    window' = <<>> /\ windowOf' = Unknown /\ UNCHANGED windowAge

(* reset_window, started that many ticks ago. *)
ResetWindow(age) == window' = <<>> /\ windowAge' = age /\ windowOf' = Unknown

(* power_policy_step in the dark, and when Auto is switched: what was
   measured is discarded, what was learned is kept. *)
Discard ==
    /\ ResetWindow(0)
    /\ readAge' = Nothing
    /\ streak' = 0
    /\ UNCHANGED <<source, effective, note, decided, rested>>

(* A reading that is incomplete or not newer than the last one. *)
Invalid ==
    /\ ResetWindow(0)
    /\ streak' = 0
    /\ UNCHANGED <<source, effective, note, readAge, decided, rested>>

(* A reading less than 5 s after the last one. *)
TooSoon ==
    /\ readAge = 0
    /\ ResetWindow(0)
    /\ streak' = 0
    /\ UNCHANGED <<source, effective, note, readAge, decided, rested>>

(* Defect: neither a gap nor a supply that changes ends the window. *)
TakenUnbroken(supply, current) ==
    LET kept == IF Len(window) = 3 THEN Tail(window) ELSE window
    IN  [window |-> Append(kept, current), age |-> windowAge]

(* The window after a reading: it starts again, at the reading before, when
   one was missed or when supply or Full changed. *)
Taken(supply, current) ==
    LET late == readAge # Nothing /\ readAge > 1
        broken == late \/ windowOf \notin {Unknown, supply}
        kept == IF broken THEN <<>>
                ELSE IF Len(window) = 3 THEN Tail(window) ELSE window
    IN  [window |-> Append(kept, current),
         age |-> IF broken THEN 1 ELSE windowAge]

Ready(taken) == Len(taken.window) = 3 /\ taken.age >= WindowTicks

(* The average, as C divides. *)
Average(w) ==
    LET sum == w[1] + w[2] + w[3]
    IN  IF sum >= 0 THEN sum \div 3 ELSE -((-sum) \div 3)

(* Defect: a failure is remembered, but not asked for. *)
RaisedAgain(st) ==
    LET candidate == Least(st.level + 16, MaxLevel)
    IN  [st EXCEPT !.level = candidate, !.up = candidate, !.upAge = 0]

(* decide, while the battery gains: no level is tried again within ten
   minutes of failing. *)
Raised(st) ==
    LET candidate == Least(st.level + 16, MaxLevel)
    IN  IF candidate = st.failed /\ st.failedAge < RetryTicks THEN st
        ELSE [st EXCEPT !.level = candidate, !.up = candidate, !.upAge = 0]

(* A raise fails when its level drains within a minute. *)
Fails(st) == st.up = st.level /\ st.upAge <= UpTicks

(* Defect: the step down may pass the floor. *)
LoweredBelow(st) == [st EXCEPT !.level = st.level - 16]

(* decide, while the battery drains. *)
Lowered(st) ==
    LET lower == [st EXCEPT !.level = IF st.level - 16 < Floor THEN Floor
                                      ELSE st.level - 16]
    IN  IF Fails(st)
        THEN [lower EXCEPT !.failed = st.up, !.failedAge = 0, !.up = 0]
        ELSE lower

(* decide *)
Decide(st, average) ==
    IF st.level = 0 THEN [st EXCEPT !.level = Floor]
    ELSE IF average < -50
         THEN IF st.level = Floor THEN st ELSE Lowered(st)
    ELSE IF average > 100 /\ st.level < MaxLevel THEN Raised(st)
    ELSE st

CannotSustain(st, average) == st.level = Floor /\ average < -50

(* A reading that is kept and decides nothing yet. *)
Read(supply, current) ==
    LET taken == Taken(supply, current)
    IN  /\ readAge # 0
        /\ ~Ready(taken)
        /\ window' = taken.window /\ windowAge' = taken.age
        /\ windowOf' = supply
        /\ readAge' = 0
        /\ streak' = IF windowOf = supply THEN Least(streak + 1, 3) ELSE 1
        /\ UNCHANGED <<source, effective, note, decided, rested>>

(* The reading that decides. *)
ReadAndDecide(supply, current) ==
    LET taken == Taken(supply, current)
        average == Average(taken.window)
        s == supply.from
        st == Decide(source[s], average)
        failing == source[s].level > st.level /\ Fails(source[s])
    IN  /\ readAge # 0
        /\ Ready(taken)
        /\ ResetWindow(0)
        /\ readAge' = 0
        /\ streak' = IF windowOf = supply THEN Least(streak + 1, 3) ELSE 1
        /\ decided' = 0
        /\ IF s = Battery \/ supply.full
           THEN /\ effective' = IF s = Battery THEN OnBattery ELSE MaxLevel
                /\ note' = FALSE
                /\ UNCHANGED <<source, rested>>
           ELSE /\ source' = [source EXCEPT ![s] = st]
                /\ effective' = st.level
                /\ note' = CannotSustain(source[s], average)
                /\ rested' = IF failing
                             THEN [rested EXCEPT ![s][source[s].level] = 0]
                             ELSE rested

(* Ten seconds pass. *)
Elapse ==
    LET Grown(age, limit) == IF age < limit THEN age + 1 ELSE age
    IN  /\ source' = [s \in Sources |-> [source[s] EXCEPT
                !.upAge = Grown(@, FullTicks(UpTicks)),
                !.failedAge = Grown(@, RetryTicks)]]
        /\ windowAge' = Grown(windowAge, WindowTicks)
        /\ readAge' = IF readAge = Nothing THEN Nothing ELSE Grown(readAge, 2)
        /\ decided' = Grown(decided, WindowTicks)
        /\ rested' = [s \in Sources |-> [l \in Levels |->
                Grown(rested[s][l], RetryTicks)]]
        /\ UNCHANGED <<effective, note, window, windowOf, streak>>

Next ==
    \/ Discard \/ Invalid \/ TooSoon
    \/ \E supply \in Supplies, current \in Currents :
            Read(supply, current) \/ ReadAndDecide(supply, current)
    \/ Elapse

Spec == Init /\ [][Next]_vars

-----------------------------------------------------------------------------
TypeOK ==
    /\ source \in [Sources ->
            [level : Levels \union {0}, up : Levels \union {0},
             upAge : 0 .. FullTicks(UpTicks),
             failed : Levels \union {0}, failedAge : 0 .. RetryTicks]]
    /\ effective \in Levels \union {0} /\ note \in BOOLEAN
    /\ window \in Seq(Currents) /\ Len(window) <= 3
    /\ windowAge \in 0 .. WindowTicks
    /\ windowOf \in Supplies \union {Unknown}
    /\ readAge \in (0 .. 2) \union {Nothing}
    /\ streak \in 0 .. 3 /\ decided \in 0 .. WindowTicks
    /\ rested \in [Sources -> [Levels -> 0 .. RetryTicks]]

(* "decisions every 30 s from three valid readings" (journal.md:959): the
   brightness changes on three readings in a row that name the same supply,
   none of them from before a sleep, a switch of Auto or an invalid one. *)
ThreeReadingsAgree == [][effective' # effective => streak' = 3]_vars

(* The other half of that sentence: however supplies come and go, and
   however often the screen sleeps, the brightness does not hunt: it changes
   at most once in thirty seconds. *)
DecisionsPaced == [][effective' # effective => decided = WindowTicks]_vars

(* "step up 16 ... unless that level failed within the last ten minutes"
   (journal.md:962): the one failure a supply remembers is enough. *)
FailedLevelRests ==
    [][\A s \in Sources :
        source[s].level # 0 /\ source'[s].level > source[s].level
            => rested[s][source'[s].level] = RetryTicks]_vars
==============================================================================
