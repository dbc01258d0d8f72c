--------------------------- MODULE PowerPolicyProofs ---------------------------
(***************************************************************************)
(* Proofs about PowerPolicy, for any supplies, currents, levels and times. *)
(* Two facts carry the first properties: the readings in the window all    *)
(* name the same supply, and the window is never older than the last       *)
(* decision.  That a level which failed rests needs to know which levels a *)
(* supply can visit, and how many decisions apart they lie.  It holds for  *)
(* the times of the code, not for all of them: RetryIsShort.               *)
(***************************************************************************)
EXTENDS PowerPolicy, SequenceTheorems, TLAPS

(* The readings in the window agree, and no more are there than did. *)
WindowInv ==
    /\ windowOf = Unknown => window = <<>>
    /\ Len(window) <= streak

(* The window began at or after the last decision; a reading that is not the
   first of its tick lies a tick behind the decision. *)
PaceInv ==
    /\ windowAge <= decided
    /\ readAge \notin {Nothing, 0} => decided # 0
    /\ windowOf # Unknown => readAge # Nothing

IInv == TypeOK /\ WindowInv /\ PaceInv

(* The levels a supply visits: steps of 16 up from the floor, and down from
   the maximum, which need not meet. *)
Climbing(l) == (l - Floor) % 16 = 0
Falling(l) == (MaxLevel - l) % 16 = 0
OnChain(l) == Climbing(l) \/ Falling(l)
Rungs(l) == (l - Floor) \div 16

(* Decisions it takes at least, from the failure of L, to stand at l once the
   floor has been touched: down to the floor, up the one chain to the maximum
   and down the other. *)
Cost(L, l) ==
    Rungs(L) + (IF Climbing(l) /\ l < MaxLevel THEN Rungs(l)
                ELSE Rungs(MaxLevel + 15) + (MaxLevel - l) \div 16)

(* The supply is below L on the same chain, and a failure between, as recent
   as that of L, is the one it remembers. *)
Barred(st, L, age, since) ==
    /\ st.level < st.failed /\ st.failed <= L
    /\ (L - st.level) % 16 = 0 /\ (L - st.failed) % 16 = 0
    /\ st.failedAge <= age
    /\ age >= WindowTicks * ((L - 16 - st.level) \div 16) + since

(* It has left the chain of L at the floor, and is as far from L as the time
   since its failure allows. *)
Away(st, L, age, since) ==
    /\ ~Climbing(L)
    /\ age >= WindowTicks * Cost(L, st.level) + since

(* Every level that failed within ten minutes is barred or far away. *)
Rests(st, ages, since) ==
    /\ st.level # 0 => OnChain(st.level)
    /\ \A l \in Levels : ages[l] < RetryTicks =>
            /\ st.level # 0
            /\ OnChain(l)
            /\ Barred(st, l, ages[l], since) \/ Away(st, l, ages[l], since)

RestInv == \A s \in Sources : Rests(source[s], rested[s], decided)

(* Ten minutes are no longer than the way from the maximum to the floor, up
   again and back, a decision at a time: 81 ticks against 60 on the device. *)
RetryIsShort ==
    WindowTicks * (Rungs(MaxLevel) + Rungs(MaxLevel + 15)) >= RetryTicks

States == [level : Levels \union {0}, up : Levels \union {0},
           upAge : 0 .. FullTicks(UpTicks),
           failed : Levels \union {0}, failedAge : 0 .. RetryTicks]

-----------------------------------------------------------------------------
(* The levels lie between the floor and the maximum, and none is 0. *)
LEMMA LevelBounds ==
    /\ Floor \in Levels /\ MaxLevel \in Levels /\ OnBattery \in Levels
    /\ Levels \subseteq Nat /\ 0 \notin Levels
    /\ Floor \in Nat /\ Floor >= 8
BY PolicyAssumption DEF Levels, Floor, OnBattery, Least

(* A decision keeps a supply's levels among these. *)
LEMMA DecideType ==
    ASSUME NEW st \in States, NEW average
    PROVE  Decide(st, average) \in States
<1> DEFINE up == Least(st.level + 16, MaxLevel)
           down == IF st.level - 16 < Floor THEN Floor ELSE st.level - 16
<1>1. st.level \in Levels => up \in Levels /\ down \in Levels
  BY LevelBounds, PolicyAssumption DEF Levels, Least
<1>2. 0 \in 0 .. FullTicks(UpTicks) /\ 0 \in 0 .. RetryTicks
  BY PolicyAssumption DEF FullTicks
<1>3. st.level \in Levels => Raised(st) \in States
  <2>1. Raised(st) = IF up = st.failed /\ st.failedAge < RetryTicks THEN st
                     ELSE [st EXCEPT !.level = up, !.up = up, !.upAge = 0]
    BY DEF Raised
  <2> HIDE DEF up
  <2> QED
    BY <1>1, <1>2, <2>1 DEF States
<1>4. st.level \in Levels => Lowered(st) \in States
  <2> DEFINE lower == [st EXCEPT !.level = down]
  <2>1. Lowered(st) =
            IF Fails(st)
            THEN [lower EXCEPT !.failed = st.up, !.failedAge = 0, !.up = 0]
            ELSE lower
    BY DEF Lowered
  <2> HIDE DEF down
  <2>2. st.level \in Levels => lower \in States
    BY <1>1 DEF States
  <2> HIDE DEF lower
  <2> QED
    BY <1>2, <2>1, <2>2 DEF States
<1>5. [st EXCEPT !.level = Floor] \in States
  BY LevelBounds DEF States
<1>6. st.level # 0 => st.level \in Levels
  BY DEF States
<1> QED
  BY <1>3, <1>4, <1>5, <1>6 DEF Decide

(* The window after a reading: one current more, or only that. *)
LEMMA TakenType ==
    ASSUME TypeOK, NEW supply \in Supplies, NEW current \in Currents
    PROVE  LET taken == Taken(supply, current)
               broken == \/ readAge # Nothing /\ readAge > 1
                         \/ windowOf \notin {Unknown, supply}
           IN  /\ taken.window \in Seq(Currents)
               /\ Len(taken.window) =
                    IF broken THEN 1
                    ELSE IF Len(window) = 3 THEN 3 ELSE Len(window) + 1
               /\ taken.age = IF broken THEN 1 ELSE windowAge
<1> DEFINE broken == \/ readAge # Nothing /\ readAge > 1
                     \/ windowOf \notin {Unknown, supply}
           kept == IF broken THEN <<>>
                   ELSE IF Len(window) = 3 THEN Tail(window) ELSE window
<1>1. window \in Seq(Currents) /\ Len(window) \in Nat /\ Len(window) <= 3
  BY LenProperties DEF TypeOK
<1> HIDE DEF broken
<1>2. /\ kept \in Seq(Currents)
      /\ Len(kept) = IF broken THEN 0
                     ELSE IF Len(window) = 3 THEN 2 ELSE Len(window)
  <2>1. CASE broken
    BY <2>1
  <2>2. CASE ~broken /\ Len(window) = 3
    BY <1>1, <2>2
  <2>3. CASE ~broken /\ Len(window) # 3
    BY <1>1, <2>3
  <2> QED
    BY <2>1, <2>2, <2>3
<1>3. Taken(supply, current) = [window |-> Append(kept, current),
                                age |-> IF broken THEN 1 ELSE windowAge]
  BY DEF Taken, broken
<1> HIDE DEF kept
<1>4. /\ Append(kept, current) \in Seq(Currents)
      /\ Len(Append(kept, current)) = Len(kept) + 1
  BY <1>2, AppendProperties
<1> QED
  BY <1>1, <1>2, <1>3, <1>4 DEF broken

(* A reading's window is no longer than the streak it ends, and its age no
   greater than the time since the last decision. *)
LEMMA ReadingFacts ==
    ASSUME IInv, readAge # 0,
           NEW supply \in Supplies, NEW current \in Currents
    PROVE  LET taken == Taken(supply, current)
               agreeing == IF windowOf = supply THEN Least(streak + 1, 3)
                           ELSE 1
           IN  /\ taken.window \in Seq(Currents)
               /\ Len(taken.window) \in Nat /\ Len(taken.window) <= 3
               /\ agreeing \in 0 .. 3 /\ Len(taken.window) <= agreeing
               /\ taken.age \in 0 .. WindowTicks /\ taken.age <= decided
<1> DEFINE taken == Taken(supply, current)
           agreeing == IF windowOf = supply THEN Least(streak + 1, 3) ELSE 1
           late == readAge # Nothing /\ readAge > 1
           broken == late \/ windowOf \notin {Unknown, supply}
<1>1. /\ taken.window \in Seq(Currents)
      /\ Len(taken.window) = IF broken THEN 1
                             ELSE IF Len(window) = 3 THEN 3
                             ELSE Len(window) + 1
      /\ taken.age = IF broken THEN 1 ELSE windowAge
  BY TakenType DEF IInv
<1>2. /\ Len(window) \in Nat /\ Len(window) <= 3 /\ Len(window) <= streak
      /\ streak \in 0 .. 3 /\ decided \in 0 .. WindowTicks
      /\ windowAge \in 0 .. WindowTicks /\ windowAge <= decided
      /\ WindowTicks \in Nat /\ WindowTicks >= 3
  BY LenProperties, PolicyAssumption DEF IInv, TypeOK, WindowInv, PaceInv
<1>3. broken => decided # 0
  <2>1. windowOf # Unknown \/ late => readAge # Nothing
    BY DEF IInv, PaceInv
  <2> QED
    BY <2>1 DEF IInv, PaceInv
<1>4. windowOf = Unknown => Len(window) = 0
  BY DEF IInv, WindowInv
<1>5. agreeing \in 0 .. 3 /\ (windowOf = supply => agreeing > Len(window) \/ agreeing = 3)
      /\ agreeing >= 1
  BY <1>2 DEF Least
<1>6. ~broken /\ windowOf # supply => windowOf = Unknown
  OBVIOUS
<1> HIDE DEF taken, agreeing, broken
<1>7. Len(taken.window) <= agreeing /\ Len(taken.window) \in Nat
      /\ Len(taken.window) <= 3
  <2>1. CASE broken
    BY <1>1, <1>5, <2>1
  <2>2. CASE ~broken /\ windowOf = supply
    <3>1. CASE Len(window) = 3
      BY <1>1, <1>2, <1>5, <2>2, <3>1
    <3>2. CASE Len(window) # 3
      <4>1. Len(taken.window) = Len(window) + 1
        BY <1>1, <2>2, <3>2
      <4>2. agreeing > Len(window) \/ agreeing = 3
        BY <1>5, <2>2
      <4>3. \A n \in Nat, a \in 0 .. 3 :
                n <= 3 /\ n # 3 /\ (a > n \/ a = 3)
                    => n + 1 \in Nat /\ n + 1 <= a /\ n + 1 <= 3
        OBVIOUS
      <4> QED
        BY <1>2, <1>5, <3>2, <4>1, <4>2, <4>3
    <3> QED
      BY <3>1, <3>2
  <2>3. CASE ~broken /\ windowOf # supply
    BY <1>1, <1>4, <1>5, <1>6, <2>3
  <2> QED
    BY <2>1, <2>2, <2>3
<1>8. taken.age \in 0 .. WindowTicks /\ taken.age <= decided
  BY <1>1, <1>2, <1>3
<1> QED
  BY <1>1, <1>5, <1>7, <1>8 DEF taken, agreeing

-----------------------------------------------------------------------------
(* power_policy_new satisfies the invariant. *)
LEMMA InitIInv == Init => IInv
<1> SUFFICES ASSUME Init PROVE IInv
  OBVIOUS
<1>1. <<>> \in Seq(Currents) /\ Len(<<>>) = 0
  BY EmptySeq
<1>2. source \in [Sources -> States] /\ effective \in Levels \union {0}
  BY PolicyAssumption DEF Init, States, FullTicks
<1>3. rested \in [Sources -> [Levels -> 0 .. RetryTicks]]
  BY PolicyAssumption DEF Init
<1>4. TypeOK
  <2>1. /\ windowAge \in 0 .. WindowTicks /\ decided \in 0 .. WindowTicks
        /\ streak \in 0 .. 3 /\ readAge \in (0 .. 2) \union {Nothing}
        /\ windowOf \in Supplies \union {Unknown}
        /\ window \in Seq(Currents) /\ Len(window) <= 3
    <3>1. /\ window = <<>> /\ windowAge = 0 /\ windowOf = Unknown
          /\ readAge = Nothing /\ streak = 0 /\ decided = WindowTicks
      BY DEF Init
    <3>2. window \in Seq(Currents) /\ Len(window) = 0
      BY <1>1, <3>1
    <3>3. \A n : n = 0 => n <= 3
      OBVIOUS
    <3> QED
      BY <3>1, <3>2, <3>3, PolicyAssumption
  <2>2. note \in BOOLEAN
    BY DEF Init
  <2> QED
    BY <1>2, <1>3, <2>1, <2>2 DEF TypeOK, States
<1>5. WindowInv /\ PaceInv
  BY <1>1, PolicyAssumption DEF Init, WindowInv, PaceInv
<1> QED
  BY <1>4, <1>5 DEF IInv

(* A window that is discarded keeps the invariant. *)
LEMMA DiscardStep == IInv /\ (Discard \/ Invalid \/ TooSoon) => IInv'
<1> SUFFICES ASSUME IInv, Discard \/ Invalid \/ TooSoon PROVE IInv'
  OBVIOUS
<1>1. /\ window' = <<>> /\ windowAge' = 0 /\ windowOf' = Unknown
      /\ streak' = 0 /\ readAge' \in {readAge, Nothing}
      /\ UNCHANGED <<source, effective, note, decided, rested>>
  BY DEF Discard, Invalid, TooSoon, ResetWindow
<1>2. <<>> \in Seq(Currents) /\ Len(<<>>) = 0
  BY EmptySeq
<1>3. TypeOK'
  BY <1>1, <1>2, PolicyAssumption DEF IInv, TypeOK
<1>4. WindowInv'
  BY <1>1, <1>2 DEF WindowInv
<1>5. PaceInv'
  BY <1>1, PolicyAssumption DEF IInv, PaceInv, TypeOK
<1> QED
  BY <1>3, <1>4, <1>5 DEF IInv

(* A reading that decides nothing keeps the invariant. *)
LEMMA ReadStep ==
    ASSUME IInv, NEW supply \in Supplies, NEW current \in Currents,
           Read(supply, current)
    PROVE  IInv'
<1> DEFINE taken == Taken(supply, current)
           agreeing == IF windowOf = supply THEN Least(streak + 1, 3) ELSE 1
<1>1. /\ readAge # 0 /\ readAge' = 0 /\ windowOf' = supply
      /\ window' = taken.window /\ windowAge' = taken.age
      /\ streak' = agreeing
      /\ UNCHANGED <<source, effective, note, decided, rested>>
  BY DEF Read
<1>2. /\ taken.window \in Seq(Currents)
      /\ Len(taken.window) \in Nat /\ Len(taken.window) <= 3
      /\ agreeing \in 0 .. 3 /\ Len(taken.window) <= agreeing
      /\ taken.age \in 0 .. WindowTicks /\ taken.age <= decided
  BY <1>1, ReadingFacts
<1>3. supply # Unknown
  <2>1. supply.from \in Sources \union {Battery}
    BY DEF Supplies
  <2>2. Unknown.from = Nothing
    BY DEF Unknown
  <2> QED
    BY <2>1, <2>2, PolicyAssumption
<1> HIDE DEF taken, agreeing
<1>4. TypeOK'
  BY <1>1, <1>2 DEF IInv, TypeOK
<1>5. WindowInv'
  BY <1>1, <1>2, <1>3 DEF WindowInv
<1>6. PaceInv'
  BY <1>1, <1>2, PolicyAssumption DEF PaceInv
<1> QED
  BY <1>4, <1>5, <1>6 DEF IInv

(* A decision comes on three readings that agree, a full window after the
   one before. *)
LEMMA DecidingFacts ==
    ASSUME IInv, NEW supply \in Supplies, NEW current \in Currents,
           ReadAndDecide(supply, current)
    PROVE  streak' = 3 /\ decided = WindowTicks
<1> DEFINE taken == Taken(supply, current)
           agreeing == IF windowOf = supply THEN Least(streak + 1, 3) ELSE 1
<1>1. readAge # 0 /\ Ready(taken) /\ streak' = agreeing
  BY DEF ReadAndDecide
<1>2. /\ Len(taken.window) <= agreeing /\ agreeing \in 0 .. 3
      /\ taken.age <= decided /\ taken.age \in 0 .. WindowTicks
  BY <1>1, ReadingFacts
<1>3. Len(taken.window) = 3 /\ taken.age >= WindowTicks
  BY <1>1 DEF Ready
<1>4. decided \in 0 .. WindowTicks /\ WindowTicks \in Nat
  BY PolicyAssumption DEF IInv, TypeOK
<1> QED
  BY <1>1, <1>2, <1>3, <1>4

(* The reading that decides keeps the invariant. *)
LEMMA DecideStep ==
    ASSUME IInv, NEW supply \in Supplies, NEW current \in Currents,
           ReadAndDecide(supply, current)
    PROVE  IInv'
<1> DEFINE average == Average(Taken(supply, current).window)
           s == supply.from
           st == Decide(source[s], average)
           failing == source[s].level > st.level /\ Fails(source[s])
<1>1. /\ window' = <<>> /\ windowAge' = 0 /\ windowOf' = Unknown
      /\ readAge' = 0 /\ decided' = 0 /\ streak' = 3
  BY DecidingFacts DEF ReadAndDecide, ResetWindow
<1>2. IF s = Battery \/ supply.full
      THEN /\ effective' = IF s = Battery THEN OnBattery ELSE MaxLevel
           /\ note' = FALSE
           /\ UNCHANGED <<source, rested>>
      ELSE /\ source' = [source EXCEPT ![s] = st]
           /\ effective' = st.level
           /\ note' = CannotSustain(source[s], average)
           /\ rested' = IF failing
                        THEN [rested EXCEPT ![s][source[s].level] = 0]
                        ELSE rested
  BY DEF ReadAndDecide
<1>3. s \in Sources \union {Battery}
  BY DEF Supplies
<1>4. /\ source \in [Sources -> States]
      /\ rested \in [Sources -> [Levels -> 0 .. RetryTicks]]
  BY DEF IInv, TypeOK, States
<1>5. s \in Sources => st \in States
  BY <1>4, DecideType
<1> HIDE DEF st, average, failing
<1>6. /\ source' \in [Sources -> States]
      /\ effective' \in Levels \union {0}
      /\ note' \in BOOLEAN
      /\ rested' \in [Sources -> [Levels -> 0 .. RetryTicks]]
  <2>1. CASE s = Battery \/ supply.full
    BY <1>2, <1>4, <2>1, LevelBounds
  <2>2. CASE ~(s = Battery \/ supply.full)
    <3>1. s \in Sources /\ st \in States
      BY <1>3, <1>5, <2>2
    <3>2. CannotSustain(source[s], average) \in BOOLEAN
      BY DEF CannotSustain
    <3>3. st.level \in Levels \union {0}
      BY <3>1 DEF States
    <3>4. 0 \in 0 .. RetryTicks
      BY PolicyAssumption
    <3>5. [rested EXCEPT ![s][source[s].level] = 0]
              \in [Sources -> [Levels -> 0 .. RetryTicks]]
      BY <1>4, <3>1, <3>4
    <3> QED
      BY <1>2, <1>4, <2>2, <3>1, <3>2, <3>3, <3>5
  <2> QED
    BY <2>1, <2>2
<1>7. <<>> \in Seq(Currents) /\ Len(<<>>) = 0
  BY EmptySeq
<1>8. TypeOK'
  BY <1>1, <1>6, <1>7, PolicyAssumption DEF TypeOK, States
<1>9. WindowInv' /\ PaceInv'
  BY <1>1, <1>7 DEF WindowInv, PaceInv
<1> QED
  BY <1>8, <1>9 DEF IInv

(* Ten seconds keep the invariant. *)
LEMMA ElapseStep == IInv /\ Elapse => IInv'
<1> SUFFICES ASSUME IInv, Elapse PROVE IInv'
  OBVIOUS
<1> DEFINE Grown(age, limit) == IF age < limit THEN age + 1 ELSE age
<1>1. /\ source' = [s \in Sources |-> [source[s] EXCEPT
              !.upAge = Grown(source[s].upAge, FullTicks(UpTicks)),
              !.failedAge = Grown(source[s].failedAge, RetryTicks)]]
      /\ windowAge' = Grown(windowAge, WindowTicks)
      /\ readAge' = IF readAge = Nothing THEN Nothing ELSE Grown(readAge, 2)
      /\ decided' = Grown(decided, WindowTicks)
      /\ rested' = [s \in Sources |-> [l \in Levels |->
              Grown(rested[s][l], RetryTicks)]]
      /\ UNCHANGED <<effective, note, window, windowOf, streak>>
  BY DEF Elapse
<1>2. \A limit \in Nat, age \in Nat : age \in 0 .. limit
          => Grown(age, limit) \in 0 .. limit
  OBVIOUS
<1>3. /\ RetryTicks \in Nat /\ FullTicks(UpTicks) \in Nat
      /\ WindowTicks \in Nat /\ WindowTicks >= 3
  BY PolicyAssumption DEF FullTicks
<1>4. /\ windowAge \in 0 .. WindowTicks /\ decided \in 0 .. WindowTicks
      /\ windowAge <= decided /\ Nothing \notin Nat
      /\ readAge \in (0 .. 2) \union {Nothing}
  BY PolicyAssumption DEF IInv, TypeOK, PaceInv
<1>5. source' \in [Sources -> States]
  <2> SUFFICES ASSUME NEW s \in Sources
               PROVE  [source[s] EXCEPT
                  !.upAge = Grown(source[s].upAge, FullTicks(UpTicks)),
                  !.failedAge = Grown(source[s].failedAge, RetryTicks)]
                          \in States
    BY <1>1
  <2>1. source[s] \in States
    BY DEF IInv, TypeOK, States
  <2>2. /\ Grown(source[s].upAge, FullTicks(UpTicks))
              \in 0 .. FullTicks(UpTicks)
        /\ Grown(source[s].failedAge, RetryTicks) \in 0 .. RetryTicks
    BY <1>2, <1>3, <2>1 DEF States
  <2> HIDE DEF Grown
  <2> QED
    BY <2>1, <2>2 DEF States
<1>6. rested' \in [Sources -> [Levels -> 0 .. RetryTicks]]
  <2>1. \A s \in Sources, l \in Levels :
            Grown(rested[s][l], RetryTicks) \in 0 .. RetryTicks
    BY <1>2, <1>3 DEF IInv, TypeOK
  <2> HIDE DEF Grown
  <2> QED
    BY <1>1, <2>1
<1>7. /\ windowAge' = IF windowAge < WindowTicks THEN windowAge + 1
                      ELSE windowAge
      /\ decided' = IF decided < WindowTicks THEN decided + 1 ELSE decided
      /\ readAge' = IF readAge = Nothing THEN Nothing
                    ELSE IF readAge < 2 THEN readAge + 1 ELSE readAge
  BY DEF Elapse
<1>8. /\ windowAge' \in 0 .. WindowTicks /\ decided' \in 0 .. WindowTicks
      /\ windowAge' <= decided'
  BY <1>4, <1>7, <1>3
<1>9. readAge' \in (0 .. 2) \union {Nothing}
  BY <1>4, <1>7
<1>10. decided' # 0
  BY <1>4, <1>7, <1>3
<1>11. readAge # Nothing => readAge' # Nothing
  BY <1>4, <1>7
<1> HIDE DEF Grown
<1>12. TypeOK'
  BY <1>1, <1>5, <1>6, <1>8, <1>9 DEF IInv, TypeOK, States
<1>13. WindowInv' /\ PaceInv'
  BY <1>1, <1>8, <1>10, <1>11 DEF IInv, WindowInv, PaceInv
<1> QED
  BY <1>12, <1>13 DEF IInv

(* A step that changes nothing keeps the invariant. *)
LEMMA StutterStep == IInv /\ UNCHANGED vars => IInv'
BY DEF IInv, TypeOK, WindowInv, PaceInv, vars, windowVars

-----------------------------------------------------------------------------
(* The invariant holds in every state of the policy. *)
THEOREM PolicyInductive == Spec => []IInv
<1>1. IInv /\ [Next]_vars => IInv'
  BY DiscardStep, ReadStep, DecideStep, ElapseStep, StutterStep DEF Next
<1> QED
  BY <1>1, InitIInv, PTL DEF Spec

(* Levels stay between the floor and the maximum or 0, three currents are
   the most that are kept, and no age passes its limit: step and
   decide stay in range for any supplies and any currents. *)
THEOREM TypeCorrect == Spec => []TypeOK
BY PolicyInductive, PTL DEF IInv

(* decide is reached only on three readings in a row of one supply, none
   from before a sleep, a switch of Auto or an invalid reading. *)
THEOREM ThreeReadingsAgreeThm == Spec => ThreeReadingsAgree
<1>1. IInv /\ [Next]_vars => [effective' # effective => streak' = 3]_vars
  <2> SUFFICES ASSUME IInv, Next, effective' # effective
               PROVE  streak' = 3
    BY DEF vars
  <2>1. \E supply \in Supplies, current \in Currents :
            ReadAndDecide(supply, current)
    BY DEF Next, Discard, Invalid, TooSoon, Read, Elapse
  <2> QED
    BY <2>1, DecidingFacts
<1> QED
  BY <1>1, PolicyInductive, PTL DEF Spec, ThreeReadingsAgree

(* However supplies come and go, power_policy_step does not change the
   brightness again before a full window has passed. *)
THEOREM DecisionsPacedThm == Spec => DecisionsPaced
<1>1. IInv /\ [Next]_vars
          => [effective' # effective => decided = WindowTicks]_vars
  <2> SUFFICES ASSUME IInv, Next, effective' # effective
               PROVE  decided = WindowTicks
    BY DEF vars
  <2>1. \E supply \in Supplies, current \in Currents :
            ReadAndDecide(supply, current)
    BY DEF Next, Discard, Invalid, TooSoon, Read, Elapse
  <2> QED
    BY <2>1, DecidingFacts
<1> QED
  BY <1>1, PolicyInductive, PTL DEF Spec, DecisionsPaced
-----------------------------------------------------------------------------
(* The numbers the arithmetic below is about. *)
LEMMA LevelNumbers ==
    /\ Floor \in Nat /\ MaxLevel \in Nat /\ Floor <= MaxLevel /\ Floor > 0
    /\ WindowTicks \in Nat /\ RetryTicks \in Nat
    /\ \A l : l \in Levels <=> l \in Nat /\ Floor <= l /\ l <= MaxLevel
<1>1. Floor \in Nat /\ MaxLevel \in Nat /\ Floor <= MaxLevel /\ Floor > 0
  BY PolicyAssumption DEF Floor, Least
<1> QED
  BY <1>1, PolicyAssumption DEF Levels

(* Cost counts decisions. *)
LEMMA CostType ==
    ASSUME NEW L \in Levels, NEW l \in Levels
    PROVE  Cost(L, l) \in Nat
<1>1. Rungs(L) \in Nat /\ Rungs(l) \in Nat
  BY LevelNumbers DEF Rungs
<1>2. Rungs(MaxLevel + 15) \in Nat /\ (MaxLevel - l) \div 16 \in Nat
  BY LevelNumbers DEF Rungs
<1> QED
  BY <1>1, <1>2 DEF Cost

(* A raise is at most one decision further, and stays on a chain. *)
LEMMA CostOfRaise ==
    ASSUME NEW L \in Levels, NEW l \in Levels, OnChain(l), l < MaxLevel
    PROVE  LET c == Least(l + 16, MaxLevel)
           IN  c \in Levels /\ OnChain(c) /\ Cost(L, c) <= Cost(L, l) + 1
<1> DEFINE c == Least(l + 16, MaxLevel)
<1>1. c = IF l + 16 < MaxLevel THEN l + 16 ELSE MaxLevel
  BY DEF Least
<1> HIDE DEF c
<1>2. c \in Levels
  BY <1>1, LevelNumbers
<1>3. Rungs(L) \in Nat
  BY LevelNumbers DEF Rungs
<1>4. CASE Climbing(l)
  <2>1. CASE l + 16 < MaxLevel
    <3>1. Climbing(c) /\ Rungs(c) = Rungs(l) + 1 /\ Rungs(l) \in Nat
      BY <1>1, <1>4, <2>1, LevelNumbers DEF Climbing, Rungs
    <3>2. c < MaxLevel
      BY <1>1, <2>1
    <3> QED
      BY <1>2, <1>3, <1>4, <3>1, <3>2 DEF Cost, OnChain, c
  <2>2. CASE ~(l + 16 < MaxLevel)
    <3>1. c = MaxLevel
      BY <1>1, <2>2
    <3>2. /\ Rungs(MaxLevel + 15) = Rungs(l) + 1 /\ Rungs(l) \in Nat
          /\ Falling(MaxLevel) /\ (MaxLevel - MaxLevel) \div 16 = 0
      BY <1>4, <2>2, LevelNumbers DEF Climbing, Falling, Rungs
    <3>3. Cost(L, c) = Rungs(L) + Rungs(l) + 1
      BY <1>3, <3>1, <3>2, LevelNumbers DEF Cost
    <3>4. Cost(L, l) = Rungs(L) + Rungs(l)
      BY <1>4 DEF Cost
    <3> QED
      BY <1>2, <1>3, <3>1, <3>2, <3>3, <3>4 DEF OnChain, c
  <2> QED
    BY <2>1, <2>2
<1>5. CASE ~Climbing(l)
  <2>1. c = l + 16
    BY <1>1, <1>5, LevelNumbers DEF OnChain, Falling
  <2>2. /\ Falling(c) /\ ~Climbing(c)
        /\ (MaxLevel - c) \div 16 + 1 = (MaxLevel - l) \div 16
        /\ (MaxLevel - c) \div 16 \in Nat
        /\ Rungs(MaxLevel + 15) \in Nat
    BY <1>2, <1>5, <2>1, LevelNumbers DEF OnChain, Climbing, Falling, Rungs
  <2> QED
    BY <1>2, <1>3, <1>5, <2>2 DEF Cost, OnChain, c
<1> QED
  BY <1>4, <1>5

(* So is a step down. *)
LEMMA CostOfDescent ==
    ASSUME NEW L \in Levels, NEW l \in Levels, OnChain(l), l # Floor
    PROVE  LET d == IF l - 16 < Floor THEN Floor ELSE l - 16
           IN  d \in Levels /\ OnChain(d) /\ Cost(L, d) <= Cost(L, l) + 1
<1> DEFINE d == IF l - 16 < Floor THEN Floor ELSE l - 16
<1>1. d \in Levels /\ d < l
  BY LevelNumbers
<1>2. /\ Rungs(L) \in Nat /\ Rungs(l) \in Nat
      /\ (MaxLevel - l) \div 16 \in Nat
      /\ Rungs(MaxLevel + 15) \in Nat /\ l <= MaxLevel
      /\ Rungs(MaxLevel) \in Nat /\ Rungs(MaxLevel) <= Rungs(MaxLevel + 15)
  BY LevelNumbers DEF Rungs
<1>3. CASE l - 16 < Floor
  <2>1. Climbing(d) /\ Rungs(d) = 0 /\ d < MaxLevel
    BY <1>1, <1>3, LevelNumbers DEF Climbing, Rungs
  <2>2. Cost(L, d) = Rungs(L)
    BY <1>2, <2>1 DEF Cost
  <2>3. Cost(L, l) >= Rungs(L) /\ Cost(L, l) \in Nat
    BY <1>2 DEF Cost
  <2> QED
    BY <1>1, <1>2, <2>1, <2>2, <2>3 DEF OnChain
<1>4. CASE l - 16 >= Floor /\ Climbing(l)
  <2>1. /\ Climbing(d) /\ Rungs(d) + 1 = Rungs(l) /\ Rungs(d) \in Nat
        /\ d < MaxLevel
    BY <1>1, <1>4, LevelNumbers DEF Climbing, Rungs
  <2>2. Rungs(d) < Rungs(MaxLevel + 15)
    BY <1>1, <1>4, LevelNumbers DEF Rungs
  <2>3. Cost(L, d) = Rungs(L) + Rungs(d)
    BY <2>1 DEF Cost
  <2>4. Cost(L, l) >= Rungs(L) + Rungs(d) /\ Cost(L, l) \in Nat
    BY <1>2, <2>1, <2>2 DEF Cost
  <2> QED
    BY <1>1, <1>2, <2>1, <2>3, <2>4 DEF OnChain
<1>5. CASE l - 16 >= Floor /\ ~Climbing(l)
  <2>1. /\ Falling(d) /\ ~Climbing(d)
        /\ (MaxLevel - d) \div 16 = (MaxLevel - l) \div 16 + 1
    BY <1>1, <1>5, LevelNumbers DEF OnChain, Climbing, Falling
  <2> HIDE DEF d
  <2>2. Cost(L, d) = Cost(L, l) + 1
    BY <1>2, <1>5, <2>1 DEF Cost
  <2>3. Cost(L, l) \in Nat
    BY CostType
  <2> QED
    BY <1>1, <2>1, <2>2, <2>3 DEF OnChain, d
<1> QED
  BY <1>3, <1>4, <1>5, LevelNumbers

(* A raise back to a level off the climbing chain ends the whole way round. *)
LEMMA CostOfReturn ==
    ASSUME NEW l \in Levels, OnChain(l), l < MaxLevel,
           NEW L, L = Least(l + 16, MaxLevel), ~Climbing(L)
    PROVE  Rungs(MaxLevel) + Rungs(MaxLevel + 15) <= Cost(L, l) + 1
<1>1. L = IF l + 16 < MaxLevel THEN l + 16 ELSE MaxLevel
  BY DEF Least
<1>2. CASE Climbing(l)
  <2>1. L = MaxLevel /\ l + 16 > MaxLevel
    BY <1>1, <1>2, LevelNumbers DEF Climbing
  <2>2. Rungs(MaxLevel + 15) = Rungs(l) + 1 /\ Rungs(l) \in Nat
        /\ Rungs(MaxLevel) \in Nat
    BY <1>2, <2>1, LevelNumbers DEF Climbing, Rungs
  <2> QED
    BY <1>2, <2>1, <2>2 DEF Cost
<1>3. CASE ~Climbing(l)
  <2>1. L = l + 16
    BY <1>1, <1>3, LevelNumbers DEF OnChain, Falling
  <2>2. /\ Rungs(L) + (MaxLevel - l) \div 16 >= Rungs(MaxLevel)
        /\ Rungs(L) \in Nat /\ Rungs(MaxLevel) \in Nat
        /\ Rungs(MaxLevel + 15) \in Nat /\ (MaxLevel - l) \div 16 \in Nat
    BY <1>3, <2>1, LevelNumbers DEF OnChain, Falling, Climbing, Rungs
  <2> QED
    BY <1>3, <2>2 DEF Cost
<1> QED
  BY <1>2, <1>3

(* A decision comes a window after the one before: time for one more. *)
LEMMA Credit ==
    ASSUME NEW more \in Nat, NEW fewer \in Nat, more <= fewer + 1,
           NEW age \in Nat, age >= WindowTicks * fewer + WindowTicks
    PROVE  age >= WindowTicks * more + 0
<1>1. WindowTicks \in Nat
  BY PolicyAssumption
<1>2. WindowTicks * (fewer + 1) = WindowTicks * fewer + WindowTicks
  BY <1>1
<1>3. WindowTicks * more <= WindowTicks * (fewer + 1)
  <2>1. PICK gap \in Nat : fewer + 1 = more + gap
    <3>1. fewer + 1 - more \in Nat /\ fewer + 1 = more + (fewer + 1 - more)
      OBVIOUS
    <3> QED
      BY <3>1
  <2>2. WindowTicks * (more + gap) = WindowTicks * more + WindowTicks * gap
    BY <1>1
  <2>3. WindowTicks * gap \in Nat /\ WindowTicks * more \in Nat
    BY <1>1
  <2> QED
    BY <2>1, <2>2, <2>3
<1>4. WindowTicks * more \in Nat /\ WindowTicks * fewer \in Nat
  BY <1>1
<1> QED
  BY <1>1, <1>2, <1>3, <1>4

-----------------------------------------------------------------------------
(* A supply that is raised: no level that failed within ten minutes is the
   one it is raised to, and all stay barred or far away. *)
LEMMA RaisedRests ==
    ASSUME RetryIsShort, NEW st \in States, st.level \in Levels,
           st.level < MaxLevel,
           NEW ages \in [Levels -> 0 .. RetryTicks],
           Rests(st, ages, WindowTicks),
           ~(Least(st.level + 16, MaxLevel) = st.failed
                /\ st.failedAge < RetryTicks)
    PROVE  /\ Rests(Raised(st), ages, 0)
           /\ ages[Raised(st).level] = RetryTicks
<1> DEFINE l == st.level
           c == Least(l + 16, MaxLevel)
           nu == Raised(st)
<1>1. c = IF l + 16 < MaxLevel THEN l + 16 ELSE MaxLevel
  BY DEF Least
<1>2. OnChain(l) /\ l # 0
  BY LevelNumbers DEF Rests
<1>3. c \in Levels /\ OnChain(c)
  BY <1>2, LevelNumbers, CostOfRaise
<1>4. /\ nu.level = c /\ nu.failed = st.failed
      /\ nu.failedAge = st.failedAge
  BY DEF Raised, States
<1>5. st.failed \in Nat /\ st.failedAge \in 0 .. RetryTicks
  BY LevelNumbers DEF States
<1> HIDE DEF c, nu
<1>6. ASSUME NEW L \in Levels, ages[L] < RetryTicks
      PROVE  /\ OnChain(L) /\ L # c
             /\ Barred(nu, L, ages[L], 0) \/ Away(nu, L, ages[L], 0)
  <2> DEFINE age == ages[L]
  <2>1. age \in Nat /\ age < RetryTicks /\ OnChain(L) /\ RetryTicks \in Nat
    BY <1>6, LevelNumbers DEF Rests
  <2>2. CASE Barred(st, L, age, WindowTicks)
    <3>1. /\ l < st.failed /\ st.failed <= L
          /\ (L - l) % 16 = 0 /\ (L - st.failed) % 16 = 0
          /\ st.failedAge <= age
          /\ age >= WindowTicks * ((L - 16 - l) \div 16) + WindowTicks
      BY <2>2 DEF Barred
    <3>2. c = l + 16 /\ c <= st.failed
      <4>1. l \in Nat /\ L \in Nat /\ L <= MaxLevel
        BY LevelNumbers
      <4>2. \A a, b, n \in Nat :
                a < b /\ b <= n /\ (n - a) % 16 = 0 /\ (n - b) % 16 = 0
                    => a + 16 <= b
        OBVIOUS
      <4>3. l + 16 <= st.failed
        BY <1>5, <3>1, <4>1, <4>2
      <4>4. st.failed <= MaxLevel
        BY LevelNumbers DEF States
      <4>5. l + 16 <= MaxLevel
        BY <1>5, <4>1, <4>3, <4>4, LevelNumbers
      <4>6. c = l + 16
        BY <1>1, <4>1, <4>5, LevelNumbers
      <4> QED
        BY <4>3, <4>6
    <3>3. c # st.failed
      BY <1>5, <2>1, <3>1 DEF c
    <3>4. /\ c < st.failed /\ (L - c) % 16 = 0 /\ L \in Nat /\ c \in Nat
          /\ (L - 16 - c) \div 16 + 1 = (L - 16 - l) \div 16
          /\ (L - 16 - c) \div 16 \in Nat
      BY <1>3, <1>5, <3>1, <3>2, <3>3, LevelNumbers
    <3>5. age >= WindowTicks * ((L - 16 - c) \div 16) + 0
      BY <2>1, <3>1, <3>4, Credit
    <3>6. Barred(nu, L, age, 0)
      BY <1>4, <3>1, <3>4, <3>5 DEF Barred
    <3> QED
      BY <1>5, <2>1, <3>1, <3>4, <3>6
  <2>3. CASE Away(st, L, age, WindowTicks)
    <3>1. ~Climbing(L) /\ age >= WindowTicks * Cost(L, l) + WindowTicks
      BY <2>3 DEF Away
    <3>2. /\ Cost(L, l) \in Nat /\ Cost(L, c) \in Nat
          /\ Cost(L, c) <= Cost(L, l) + 1
      BY <1>2, <1>3, CostOfRaise, CostType DEF c
    <3>3. Away(nu, L, age, 0)
      BY <1>4, <2>1, <3>1, <3>2, Credit DEF Away
    <3>4. L # c
      <4> SUFFICES ASSUME L = c PROVE FALSE
        OBVIOUS
      <4> DEFINE round == Rungs(MaxLevel) + Rungs(MaxLevel + 15)
      <4>1. round \in Nat /\ round <= Cost(L, l) + 1
        <5>1. round <= Cost(L, l) + 1
          BY <1>2, <3>1, CostOfReturn DEF c
        <5>2. round \in Nat
          BY LevelNumbers DEF Rungs
        <5> QED
          BY <5>1, <5>2
      <4> HIDE DEF round
      <4>2. age >= WindowTicks * round + 0
        BY <2>1, <3>1, <3>2, <4>1, Credit
      <4>3. WindowTicks * round >= RetryTicks
        BY DEF RetryIsShort, round
      <4>4. WindowTicks * round \in Nat
        BY <4>1, LevelNumbers
      <4> QED
        BY <2>1, <4>2, <4>3, <4>4
    <3> QED
      BY <2>1, <3>3, <3>4
  <2> QED
    BY <1>6, <2>2, <2>3 DEF Rests
<1>7. Rests(nu, ages, 0)
  BY <1>3, <1>4, <1>6, LevelNumbers DEF Rests
<1>8. ages[c] = RetryTicks
  BY <1>3, <1>6, LevelNumbers
<1> QED
  BY <1>4, <1>7, <1>8 DEF nu

(* A supply that is lowered, and the level it leaves when that fails. *)
LEMMA LoweredRests ==
    ASSUME NEW st \in States, st.level \in Levels, st.level # Floor,
           NEW ages \in [Levels -> 0 .. RetryTicks],
           Rests(st, ages, WindowTicks)
    PROVE  /\ Lowered(st).level < st.level
           /\ Rests(Lowered(st),
                    IF Fails(st) THEN [ages EXCEPT ![st.level] = 0] ELSE ages,
                    0)
<1> DEFINE l == st.level
           d == IF l - 16 < Floor THEN Floor ELSE l - 16
           nu == Lowered(st)
           now == IF Fails(st) THEN [ages EXCEPT ![l] = 0] ELSE ages
<1>1. OnChain(l) /\ l # 0
  BY LevelNumbers DEF Rests
<1>2. d \in Levels /\ OnChain(d)
  BY <1>1, CostOfDescent
<1>3. d < l /\ Floor < l /\ l <= MaxLevel /\ l \in Nat
  BY LevelNumbers
<1>4. /\ nu.level = d
      /\ Fails(st) => nu.failed = l /\ nu.failedAge = 0
      /\ ~Fails(st) => nu.failed = st.failed /\ nu.failedAge = st.failedAge
  <2>1. Fails(st) => st.up = l
    BY DEF Fails
  <2> QED
    BY <2>1 DEF Lowered, States
<1>5. st.failed \in Nat /\ st.failedAge \in 0 .. RetryTicks
  BY LevelNumbers DEF States
<1>6. l - 16 >= Floor => d = l - 16
  BY LevelNumbers
<1>7. l - 16 < Floor => /\ d = Floor /\ ~Climbing(l)
                        /\ Climbing(d) /\ Rungs(d) = 0 /\ d < MaxLevel
  BY <1>3, LevelNumbers DEF Climbing, Rungs
<1>8. now = IF Fails(st) THEN [ages EXCEPT ![l] = 0] ELSE ages
  OBVIOUS
<1> HIDE DEF d, nu, now
<1>9. ASSUME NEW L \in Levels, now[L] < RetryTicks
      PROVE  OnChain(L) /\ (Barred(nu, L, now[L], 0) \/ Away(nu, L, now[L], 0))
  <2> DEFINE age == ages[L]
  <2>1. L \in Nat /\ L <= MaxLevel /\ d \in Nat
    BY <1>2, LevelNumbers
  <2>2. CASE Fails(st) /\ L = l
    <3>1. now[L] = 0
      BY <1>8, <2>2
    <3>2. CASE l - 16 >= Floor
      <4>1. /\ d < l /\ l <= L /\ (L - d) % 16 = 0 /\ (L - l) % 16 = 0
            /\ (L - 16 - d) \div 16 = 0
        BY <1>3, <1>6, <2>2, <3>2
      <4>2. 0 >= WindowTicks * 0 + 0
        BY LevelNumbers
      <4> QED
        BY <1>1, <1>4, <2>2, <3>1, <4>1, <4>2 DEF Barred
    <3>3. CASE l - 16 < Floor
      <4>1. Rungs(L) = 0
        BY <1>3, <2>2, <3>3, LevelNumbers DEF Rungs
      <4>2. Cost(L, d) = 0
        BY <1>7, <3>3, <4>1 DEF Cost
      <4>3. 0 >= WindowTicks * 0 + 0
        BY LevelNumbers
      <4> QED
        BY <1>1, <1>4, <1>7, <2>2, <3>1, <3>3, <4>2, <4>3 DEF Away
    <3> QED
      BY <1>3, <3>2, <3>3, LevelNumbers
  <2>3. CASE ~(Fails(st) /\ L = l)
    <3>1. now[L] = age /\ age \in Nat /\ age < RetryTicks /\ OnChain(L)
      BY <1>8, <1>9, <2>3, LevelNumbers DEF Rests
    <3>2. CASE Barred(st, L, age, WindowTicks)
      <4>1. /\ l < st.failed /\ st.failed <= L
            /\ (L - l) % 16 = 0 /\ (L - st.failed) % 16 = 0
            /\ st.failedAge <= age
            /\ age >= WindowTicks * ((L - 16 - l) \div 16) + WindowTicks
        BY <3>2 DEF Barred
      <4>2. (L - 16 - l) \div 16 \in Nat
        BY <1>3, <1>5, <2>1, <4>1
      <4>3. CASE l - 16 >= Floor
        <5>1. /\ d = l - 16 /\ (L - d) % 16 = 0
              /\ (L - 16 - d) \div 16 = (L - 16 - l) \div 16 + 1
          BY <1>3, <1>6, <2>1, <4>1, <4>3
        <5>2. age >= WindowTicks * ((L - 16 - d) \div 16) + 0
          BY <3>1, <4>1, <4>2, <5>1, Credit
        <5>3. /\ d < nu.failed /\ nu.failed <= L
              /\ (L - nu.failed) % 16 = 0 /\ nu.failedAge <= age
          BY <1>3, <1>4, <1>5, <2>1, <3>1, <4>1
        <5> QED
          BY <1>4, <3>1, <5>1, <5>2, <5>3 DEF Barred
      <4>4. CASE l - 16 < Floor
        <5>1. ~Climbing(L) /\ Rungs(L) = (L - 16 - l) \div 16 + 1
          BY <1>3, <1>5, <2>1, <4>1, <4>4, LevelNumbers DEF Climbing, Rungs
        <5>2. Cost(L, d) = (L - 16 - l) \div 16 + 1
          BY <1>7, <4>2, <4>4, <5>1 DEF Cost
        <5>3. age >= WindowTicks * Cost(L, d) + 0
          BY <3>1, <4>1, <4>2, <5>2, Credit
        <5> QED
          BY <1>4, <3>1, <5>1, <5>3 DEF Away
      <4> QED
        BY <1>3, <4>3, <4>4, LevelNumbers
    <3>3. CASE Away(st, L, age, WindowTicks)
      <4>1. ~Climbing(L) /\ age >= WindowTicks * Cost(L, l) + WindowTicks
        BY <3>3 DEF Away
      <4>2. /\ Cost(L, l) \in Nat /\ Cost(L, d) \in Nat
            /\ Cost(L, d) <= Cost(L, l) + 1
        BY <1>1, <1>2, CostOfDescent, CostType DEF d
      <4> QED
        BY <1>4, <3>1, <4>1, <4>2, Credit DEF Away
    <3> QED
      BY <3>1, <3>2, <3>3 DEF Rests
  <2> QED
    BY <2>2, <2>3
<1>10. Rests(nu, now, 0)
  BY <1>2, <1>4, <1>9, LevelNumbers DEF Rests
<1> QED
  BY <1>3, <1>4, <1>8, <1>10 DEF nu

(* A decision that leaves a supply alone costs it nothing. *)
LEMMA RestsLater ==
    ASSUME NEW st \in States, NEW ages \in [Levels -> 0 .. RetryTicks],
           Rests(st, ages, WindowTicks)
    PROVE  Rests(st, ages, 0)
<1>1. \A L \in Levels :
          Barred(st, L, ages[L], WindowTicks) => Barred(st, L, ages[L], 0)
  <2> SUFFICES ASSUME NEW L \in Levels,
                      Barred(st, L, ages[L], WindowTicks)
               PROVE  Barred(st, L, ages[L], 0)
    OBVIOUS
  <2>1. /\ (L - 16 - st.level) \div 16 \in Int /\ ages[L] \in Int
        /\ WindowTicks \in Nat
    BY LevelNumbers DEF States
  <2>2. WindowTicks * ((L - 16 - st.level) \div 16) \in Int
    BY <2>1
  <2> QED
    BY <2>1, <2>2 DEF Barred
<1>2. \A L \in Levels :
          st.level \in Levels /\ Away(st, L, ages[L], WindowTicks)
              => Away(st, L, ages[L], 0)
  <2> SUFFICES ASSUME NEW L \in Levels, st.level \in Levels,
                      Away(st, L, ages[L], WindowTicks)
               PROVE  Away(st, L, ages[L], 0)
    OBVIOUS
  <2>1. /\ Cost(L, st.level) \in Nat /\ ages[L] \in Int
        /\ WindowTicks \in Nat
    BY CostType, LevelNumbers
  <2>2. WindowTicks * Cost(L, st.level) \in Int
    BY <2>1
  <2> QED
    BY <2>1, <2>2 DEF Away
<1>3. st.level # 0 => st.level \in Levels
  BY DEF States
<1> QED
  BY <1>1, <1>2, <1>3 DEF Rests

(* A decision about one supply, whatever the currents say. *)
LEMMA DecideRests ==
    ASSUME RetryIsShort, NEW st \in States, NEW average,
           NEW ages \in [Levels -> 0 .. RetryTicks],
           Rests(st, ages, WindowTicks)
    PROVE  LET nu == Decide(st, average)
               failing == st.level > nu.level /\ Fails(st)
           IN  /\ Rests(nu, IF failing THEN [ages EXCEPT ![st.level] = 0]
                            ELSE ages, 0)
               /\ st.level # 0 /\ nu.level > st.level
                      => ages[nu.level] = RetryTicks
<1> DEFINE nu == Decide(st, average)
           failing == st.level > nu.level /\ Fails(st)
<1>1. st.level \in Levels \/ st.level = 0
  BY DEF States
<1>2. st.level \in Nat /\ Floor \in Nat /\ Floor > 0
  BY <1>1, LevelNumbers
<1>3. CASE nu = st
  <2>1. ~failing /\ ~(nu.level > st.level)
    BY <1>2, <1>3
  <2> QED
    BY <1>3, <2>1, RestsLater
<1>4. CASE st.level = 0
  <2>1. nu = [st EXCEPT !.level = Floor]
    BY <1>4 DEF Decide
  <2>2. nu.level = Floor /\ ~failing
    BY <1>2, <1>4, <2>1 DEF States
  <2>3. OnChain(Floor)
    BY LevelNumbers DEF OnChain, Climbing
  <2>4. \A L \in Levels : ~(ages[L] < RetryTicks)
    BY <1>4 DEF Rests
  <2> QED
    BY <1>4, <2>2, <2>3, <2>4 DEF Rests
<1>5. CASE st.level # 0 /\ st.level # Floor /\ nu = Lowered(st)
  <2>1. /\ nu.level < st.level
        /\ Rests(nu, IF Fails(st) THEN [ages EXCEPT ![st.level] = 0]
                     ELSE ages, 0)
    BY <1>1, <1>5, LoweredRests
  <2>2. nu.level \in Nat
    <3>1. nu \in States
      BY DecideType
    <3> QED
      BY <3>1, LevelNumbers DEF States
  <2>3. (failing <=> Fails(st)) /\ ~(nu.level > st.level)
    BY <1>2, <2>1, <2>2
  <2> HIDE DEF nu
  <2> QED
    BY <2>1, <2>3 DEF nu
<1>6. CASE st.level # 0 /\ st.level < MaxLevel /\ nu = Raised(st) /\ nu # st
  <2>1. ~(Least(st.level + 16, MaxLevel) = st.failed
              /\ st.failedAge < RetryTicks)
    BY <1>6 DEF Raised
  <2>2. Rests(nu, ages, 0) /\ ages[nu.level] = RetryTicks
    BY <1>1, <1>6, <2>1, RaisedRests
  <2>3. nu.level >= st.level /\ nu.level \in Nat
    <3>1. nu.level = Least(st.level + 16, MaxLevel)
      BY <1>6, <2>1 DEF Raised, States
    <3> QED
      BY <1>2, <1>6, <3>1, LevelNumbers DEF Least
  <2>4. ~failing
    BY <1>2, <2>3
  <2> QED
    BY <2>2, <2>4
<1>7. \/ st.level = 0 \/ nu = st
      \/ st.level # 0 /\ st.level # Floor /\ nu = Lowered(st)
      \/ st.level # 0 /\ st.level < MaxLevel /\ nu = Raised(st)
  BY DEF Decide
<1> QED
  BY <1>3, <1>4, <1>5, <1>6, <1>7

-----------------------------------------------------------------------------
(* No level has failed yet when the policy starts. *)
LEMMA InitRests == Init => RestInv
<1> SUFFICES ASSUME Init, NEW s \in Sources
             PROVE  Rests(source[s], rested[s], decided)
  BY DEF RestInv
<1>1. source[s].level = 0
  BY DEF Init
<1>2. \A l \in Levels : rested[s][l] = RetryTicks
  BY DEF Init
<1> QED
  BY <1>1, <1>2, LevelNumbers DEF Rests

(* A decision keeps every other supply's failures where they are, and finds
   its own level rested. *)
LEMMA RestOfDecision ==
    ASSUME RetryIsShort, IInv, RestInv,
           NEW supply \in Supplies, NEW current \in Currents,
           ReadAndDecide(supply, current)
    PROVE  /\ RestInv'
           /\ \A s \in Sources :
                  source[s].level # 0 /\ source'[s].level > source[s].level
                      => rested[s][source'[s].level] = RetryTicks
<1> DEFINE average == Average(Taken(supply, current).window)
           t == supply.from
           st == Decide(source[t], average)
           failing == source[t].level > st.level /\ Fails(source[t])
<1>1. IF t = Battery \/ supply.full
      THEN UNCHANGED <<source, rested>>
      ELSE /\ source' = [source EXCEPT ![t] = st]
           /\ rested' = IF failing
                        THEN [rested EXCEPT ![t][source[t].level] = 0]
                        ELSE rested
  BY DEF ReadAndDecide
<1>2. decided = WindowTicks /\ decided' = 0
  BY DecidingFacts DEF ReadAndDecide
<1>3. /\ source \in [Sources -> States]
      /\ rested \in [Sources -> [Levels -> 0 .. RetryTicks]]
  BY DEF IInv, TypeOK, States
<1>4. \A s \in Sources : Rests(source[s], rested[s], WindowTicks)
  BY <1>2 DEF RestInv
<1>5. ASSUME NEW s \in Sources
      PROVE  Rests(source[s], rested[s], 0)
  BY <1>3, <1>4, RestsLater
<1>6. ASSUME NEW s \in Sources, source'[s] = source[s],
             rested'[s] = rested[s]
      PROVE  /\ Rests(source'[s], rested'[s], decided')
             /\ ~(source'[s].level > source[s].level)
  <2>1. source[s].level \in Int
    BY <1>3, LevelNumbers DEF States
  <2> QED
    BY <1>2, <1>5, <1>6, <2>1
<1>7. CASE t = Battery \/ supply.full
  BY <1>1, <1>6, <1>7 DEF RestInv
<1>8. CASE ~(t = Battery \/ supply.full)
  <2>1. t \in Sources
    BY <1>8 DEF Supplies
  <2>2. /\ Rests(st, IF failing THEN [rested[t] EXCEPT ![source[t].level] = 0]
                     ELSE rested[t], 0)
        /\ source[t].level # 0 /\ st.level > source[t].level
               => rested[t][st.level] = RetryTicks
    BY <1>3, <1>4, <2>1, DecideRests
  <2> HIDE DEF st, failing
  <2>3. /\ source'[t] = st
        /\ rested'[t] = IF failing
                        THEN [rested[t] EXCEPT ![source[t].level] = 0]
                        ELSE rested[t]
    BY <1>1, <1>3, <1>8, <2>1
  <2>4. \A s \in Sources : s # t => source'[s] = source[s]
                                   /\ rested'[s] = rested[s]
    BY <1>1, <1>3, <1>8
  <2>5. \A s \in Sources :
            /\ Rests(source'[s], rested'[s], decided')
            /\ source[s].level # 0 /\ source'[s].level > source[s].level
                   => rested[s][source'[s].level] = RetryTicks
    BY <1>2, <1>6, <2>2, <2>3, <2>4
  <2> QED
    BY <2>5 DEF RestInv
<1> QED
  BY <1>7, <1>8

(* Ten seconds age a failure at least as fast as anything it is compared
   with. *)
LEMMA RestOfElapse == IInv /\ RestInv /\ Elapse => RestInv'
<1> SUFFICES ASSUME IInv, RestInv, Elapse, NEW s \in Sources
             PROVE  Rests(source'[s], rested'[s], decided')
  BY DEF RestInv
<1> DEFINE st == source[s]
           nu == source'[s]
           ages == rested[s]
           now == rested'[s]
<1>1. st \in States /\ ages \in [Levels -> 0 .. RetryTicks]
      /\ decided \in 0 .. WindowTicks
  BY DEF IInv, TypeOK, States
<1>2. Rests(st, ages, decided)
  BY DEF RestInv
<1>3. /\ nu.level = st.level /\ nu.failed = st.failed
      /\ nu.failedAge = IF st.failedAge < RetryTicks THEN st.failedAge + 1
                        ELSE st.failedAge
  BY <1>1 DEF Elapse, States
<1>4. \A L \in Levels : now[L] = IF ages[L] < RetryTicks THEN ages[L] + 1
                                 ELSE ages[L]
  BY DEF Elapse
<1>5. decided' = IF decided < WindowTicks THEN decided + 1 ELSE decided
  BY DEF Elapse
<1>6. decided' \in Int /\ decided' <= decided + 1
  BY <1>1, <1>5, LevelNumbers
<1> HIDE DEF st, nu, ages, now
<1>7. ASSUME NEW L \in Levels, now[L] < RetryTicks
      PROVE  /\ st.level # 0 /\ OnChain(L)
             /\ Barred(nu, L, now[L], decided') \/ Away(nu, L, now[L], decided')
  <2> DEFINE age == ages[L]
  <2>1. age < RetryTicks /\ age \in Nat /\ now[L] = age + 1
    BY <1>1, <1>4, <1>7, LevelNumbers
  <2>2. st.level \in Levels /\ st.level # 0 /\ OnChain(L)
    BY <1>1, <1>2, <2>1 DEF Rests, States
  <2>3. CASE Barred(st, L, age, decided)
    <3> DEFINE way == WindowTicks * ((L - 16 - st.level) \div 16)
    <3>1. way \in Int
      <4>1. (L - 16 - st.level) \div 16 \in Int
        BY <2>2, LevelNumbers
      <4> QED
        BY <4>1, LevelNumbers
    <3>2. age >= way + decided /\ st.failedAge <= age
      BY <2>3 DEF Barred
    <3>3. now[L] >= way + decided'
      BY <1>1, <1>6, <2>1, <3>1, <3>2
    <3>4. nu.failedAge <= now[L]
      BY <1>1, <1>3, <2>1, <3>2, LevelNumbers DEF States
    <3> QED
      BY <1>3, <2>2, <2>3, <3>3, <3>4 DEF Barred
  <2>4. CASE Away(st, L, age, decided)
    <3> DEFINE way == WindowTicks * Cost(L, st.level)
    <3>1. way \in Int
      BY <2>2, CostType, LevelNumbers
    <3>2. age >= way + decided
      BY <2>4 DEF Away
    <3>3. now[L] >= way + decided'
      BY <1>1, <1>6, <2>1, <3>1, <3>2
    <3> QED
      BY <1>3, <2>2, <2>4, <3>3 DEF Away
  <2> QED
    BY <1>2, <2>1, <2>2, <2>3, <2>4 DEF Rests
<1>8. Rests(nu, now, decided')
  BY <1>2, <1>3, <1>7 DEF Rests
<1> QED
  BY <1>8 DEF nu, now

(* The other steps leave the supplies and their failures alone. *)
LEMMA RestOfOthers ==
    ASSUME RestInv,
           \/ Discard \/ Invalid \/ TooSoon \/ UNCHANGED vars
           \/ \E supply \in Supplies, current \in Currents :
                  Read(supply, current)
    PROVE  RestInv'
<1>1. source' = source /\ rested' = rested /\ decided' = decided
  BY DEF Discard, Invalid, TooSoon, Read, vars
<1> QED
  BY <1>1 DEF RestInv

(* However the battery drains and gains, decide does not raise a supply to a
   level that failed within ten minutes, though only one failure is
   remembered: where another has taken its place, that one stands in the way,
   or the way round by the floor is longer than ten minutes. *)
THEOREM FailedLevelRestsThm ==
    ASSUME RetryIsShort
    PROVE  Spec => FailedLevelRests
<1> DEFINE Rested ==
        \A s \in Sources :
            source[s].level # 0 /\ source'[s].level > source[s].level
                => rested[s][source'[s].level] = RetryTicks
<1>1. Init => RestInv
  BY InitRests
<1>2. IInv /\ RestInv /\ [Next]_vars => RestInv'
  BY RestOfOthers, RestOfElapse, RestOfDecision DEF Next
<1>3. IInv /\ RestInv /\ [Next]_vars => [Rested]_vars
  <2> SUFFICES ASSUME IInv, RestInv, Next PROVE Rested
    OBVIOUS
  <2>1. CASE \E supply \in Supplies, current \in Currents :
                ReadAndDecide(supply, current)
    BY <2>1, RestOfDecision
  <2>2. CASE ~\E supply \in Supplies, current \in Currents :
                 ReadAndDecide(supply, current)
    <3>1. \A s \in Sources : source'[s].level = source[s].level
      <4>1. \A s \in Sources : source[s] \in States
        BY DEF IInv, TypeOK, States
      <4> QED
        BY <2>2, <4>1 DEF Next, Discard, Invalid, TooSoon, Read, Elapse, States
    <3>2. \A s \in Sources : source[s].level \in Int
      BY LevelNumbers DEF IInv, TypeOK
    <3> QED
      BY <3>1, <3>2
  <2> QED
    BY <2>1, <2>2
<1> QED
  BY <1>1, <1>2, <1>3, PolicyInductive, PTL DEF Spec, FailedLevelRests
===============================================================================
