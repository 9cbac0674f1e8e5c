--------------------------- MODULE ScheduleProofs ---------------------------
(***************************************************************************)
(* Proofs about the timing of a loop: for any triggers, jitter fraction,   *)
(* run times, late polls and clock steps no sleep is cut short; and an     *)
(* interval job keeps to its grid, is never stacked, never sleeps longer   *)
(* than its jittered gap and overflows only where two gaps do not fit. A   *)
(* cron job is never stacked and never overflows while its schedule still  *)
(* has an instant to come.                                                 *)
(***************************************************************************)
EXTENDS Schedule, FiniteSetTheorems, WellFoundedInduction, TLAPS

\* Every set of instants has an earliest one.
LEMMA Earliest ==
    ASSUME NEW T \in SUBSET Nat, T # {}
    PROVE  \E x \in T : \A y \in T : x <= y
PROOF
<1> DEFINE R == OpToRel(<, Nat)
<1>1. IsWellFoundedOn(R, Nat)
  BY NatLessThanWellFounded, Zenon
<1>2. \A x, y \in Nat : <<y, x>> \notin R => x <= y
  BY DEF OpToRel
<1> HIDE DEF R
<1>3. PICK x \in T : \A y \in T : <<y, x>> \notin R
  BY <1>1, WFMin
<1> QED
  BY <1>2, <1>3

\* The next tick is an instant; of an interval, one period on.
LEMMA NextTick ==
    ASSUME NEW t \in Triggers, NEW after \in Int, NEW from \in Int
    PROVE  /\ next_tick_or_park(t, after, from) \in Int
           /\ from = after => after <= next_tick_or_park(t, after, from)
           /\ t.kind = "interval" =>
                /\ next_tick_or_park(t, after, from) = after + Period(t)
                /\ Period(t) \in Nat /\ Period(t) >= 1
PROOF
<1>1. CASE t.kind = "interval"
  <2>1. t.period \in Nat
    BY <1>1, TriggersAssumption DEF TriggerKinds
  <2>2. Period(t) \in Nat /\ Period(t) >= 1
    BY <2>1 DEF Period, Larger, MinInterval
  <2> QED
    BY <1>1, <2>2 DEF next_tick_or_park, Exhausted, next_fire_after
<1>2. CASE t.kind # "interval"
  <2>1. t.kind = "cron" /\ t.grid \in SUBSET Nat
    BY <1>2, TriggersAssumption DEF TriggerKinds
  <2>2. CASE Later(t, after) = {}
    BY <2>1, <2>2, TimesAssumption DEF next_tick_or_park, Exhausted
  <2>3. CASE Later(t, after) # {}
    <3>1. Later(t, after) \in SUBSET Nat
      BY <2>1 DEF Later
    <3>2. \E g \in Later(t, after) : \A h \in Later(t, after) : g <= h
      BY <2>3, <3>1, Earliest
    <3>3. next_fire_after(t, after) \in Later(t, after)
      BY <1>2, <3>2 DEF next_fire_after
    <3>4. next_fire_after(t, after) \in Nat /\ next_fire_after(t, after) > after
      BY <3>1, <3>3 DEF Later
    <3> QED
      BY <1>2, <2>1, <2>3, <3>4 DEF next_tick_or_park, Exhausted
  <2> QED
    BY <1>2, <2>2, <2>3
<1> QED
  BY <1>1, <1>2

-----------------------------------------------------------------------------
(***************************************************************************)
(* No sleep is cut short.                                                  *)
(***************************************************************************)

\* The time to the tick of a sleeping loop, less what the clock was put back
\* in its sleep, is no more than the time to its deadline; and no sleep
\* begins after its deadline.
Timely ==
    /\ mark <= back
    /\ pc = "sleeping" => slept <= deadline
    /\ pc = "sleeping" => tick - (wall + (back - mark)) <= deadline - clock
    /\ pc = "firing" => tick <= wall + (back - mark)

\* What the loop does when it goes to sleep.
LEMMA Sleeps ==
    ASSUME TypeOK, Timely, NEW t \in Int, wall <= t, Sleep(t),
           UNCHANGED <<trigger, fire_at_start, clock, wall, fires, back>>,
           begin' \in Int, overran' \in BOOLEAN
    PROVE  TypeOK' /\ Timely'
PROOF
<1>1. PICK j \in 0 .. window(Larger(t - wall, 0)) : Slumber(t, t + j)
  BY DEF Sleep
<1>2. j \in Int /\ 0 <= j
  OBVIOUS
<1>3. CASE pc' = "sleeping"
  <2>1. /\ tick' = t /\ deadline' = clock + ((t + j) - wall)
        /\ slept' = clock /\ mark' = back /\ owed' = back - mark
    BY <1>1, <1>3 DEF Slumber
  <2> QED
    BY <1>2, <1>3, <2>1 DEF TypeOK, Timely
<1>4. CASE pc' # "sleeping"
  BY <1>1, <1>4 DEF Slumber, TypeOK, Timely
<1> QED
  BY <1>3, <1>4

LEMMA TimelyStep ==
    ASSUME TypeOK, Timely, [Next]_vars
    PROVE  TypeOK' /\ Timely'
PROOF
<1> DEFINE first == next_tick_or_park(trigger, wall, wall)
           next == next_tick_or_park(trigger, tick, wall)
<1>1. first \in Int /\ wall <= first /\ next \in Int
  BY NextTick DEF TypeOK
<1>2. CASE Begin
  <2>1. CASE fire_at_start
    BY <1>2, <2>1 DEF Begin, TypeOK, Timely
  <2>2. CASE ~fire_at_start
    <3>1. Sleep(first) /\ begin' = wall /\ overran' = overran
          /\ UNCHANGED <<trigger, fire_at_start, clock, wall, fires, back>>
      BY <1>2, <2>2 DEF Begin
    <3> QED
      BY <1>1, <3>1, Sleeps DEF TypeOK
  <2> QED
    BY <2>1, <2>2
<1>3. CASE StartFireDone
  <2>1. Sleep(first) /\ begin' = wall /\ overran' = overran
        /\ UNCHANGED <<trigger, fire_at_start, clock, wall, fires, back>>
    BY <1>3 DEF StartFireDone
  <2> QED
    BY <1>1, <2>1, Sleeps DEF TypeOK
<1>4. CASE Wake
  BY <1>4 DEF Wake, TypeOK, Timely
<1>5. CASE Complete
  <2>1. Sleep(Larger(next, wall)) /\ begin' = begin /\ overran' \in BOOLEAN
        /\ UNCHANGED <<trigger, fire_at_start, clock, wall, fires, back>>
    BY <1>5 DEF Complete, TypeOK
  <2>2. Larger(next, wall) \in Int /\ wall <= Larger(next, wall)
    BY <1>1 DEF Larger, TypeOK
  <2> HIDE DEF next
  <2> QED
    BY <2>1, <2>2, Sleeps DEF TypeOK
<1>6. CASE Pass
  BY <1>6 DEF Pass, TypeOK, Timely
<1>7. CASE StepClock
  <2>1. PICK d \in ClockSteps : wall' = wall + d /\ back' = back + Larger(-d, 0)
    BY <1>7 DEF StepClock
  <2>2. d \in Int
    BY TimesAssumption
  <2>3. Larger(-d, 0) \in Nat /\ Larger(-d, 0) >= -d
    BY <2>2 DEF Larger
  <2> QED
    BY <1>7, <2>1, <2>2, <2>3 DEF StepClock, TypeOK, Timely
<1>8. CASE UNCHANGED vars
  BY <1>8 DEF vars, TypeOK, Timely
<1> QED
  BY <1>2, <1>3, <1>4, <1>5, <1>6, <1>7, <1>8 DEF Next

LEMMA TimelyAlways == Spec => [](TypeOK /\ Timely)
PROOF
<1>1. Init => TypeOK /\ Timely
  <2> SUFFICES ASSUME Init PROVE TypeOK /\ Timely
    OBVIOUS
  <2>1. TypeOK
    <3>1. fire_at_start \in BOOLEAN /\ overran \in BOOLEAN
      BY Zenon DEF Init
    <3> QED
      BY <3>1 DEF Init, TypeOK
  <2>2. Timely
    BY DEF Init, Timely
  <2> QED
    BY <2>1, <2>2
<1>2. (TypeOK /\ Timely) /\ [Next]_vars => (TypeOK /\ Timely)'
  BY TimelyStep
<1> QED
  BY <1>1, <1>2, PTL DEF Spec

\* For every trigger, jitter and clock, a fire starts when the wall clock has
\* reached its tick, but for what it was put back (run_loop, runner.rs
\* 208-234, and std_instant_at, runner.rs 405-414).
THEOREM FiresNotEarly == Spec => []NeverEarly
PROOF
<1>1. TypeOK /\ Timely => NeverEarly
  BY DEF TypeOK, Timely, NeverEarly
<1> QED
  BY <1>1, TimelyAlways, PTL

-----------------------------------------------------------------------------
(***************************************************************************)
(* The jitter window.                                                      *)
(***************************************************************************)
LEMMA Products ==
    ASSUME NEW n \in Nat, NEW a \in Nat, NEW b \in Nat, a <= b
    PROVE  n * a \in Nat /\ n * a <= n * b
PROOF
  OBVIOUS

LEMMA Quotients ==
    ASSUME NEW d \in Nat \ {0}, NEW x \in Nat, NEW y \in Nat, x <= y
    PROVE  x \div d \in Nat /\ x \div d <= y \div d
PROOF
<1>1. /\ x \div d \in Nat /\ d * (x \div d) <= x
      /\ y \div d \in Nat /\ y < d * (y \div d + 1)
  OBVIOUS
<1>2. SUFFICES ASSUME y \div d + 1 <= x \div d PROVE FALSE
  BY <1>1
<1>3. d * (y \div d + 1) <= d * (x \div d)
  BY <1>1, <1>2, Products
<1> QED
  BY <1>1, <1>3

\* A longer gap has a larger window, and no window is larger than its gap.
LEMMA Windows ==
    ASSUME NEW a \in Nat, NEW b \in Nat, a <= b
    PROVE  window(a) \in Nat /\ window(a) <= window(b) /\ window(a) <= a
PROOF
<1>1. FractionNum * a \in Nat /\ FractionNum * a <= FractionNum * b
      /\ FractionNum * b \in Nat
  BY Products, FractionAssumption
<1>2. window(a) \in Nat /\ window(a) <= window(b)
  BY <1>1, Quotients, FractionAssumption DEF window
<1>3. FractionNum * a <= FractionDen * a
  BY Products, FractionAssumption
<1>4. (FractionDen * a) \div FractionDen = a
  BY FractionAssumption
<1>5. window(a) <= (FractionDen * a) \div FractionDen
  <2>1. FractionDen * a \in Nat
    BY Products, FractionAssumption
  <2> QED
    BY <1>1, <1>3, <2>1, Quotients, FractionAssumption DEF window
<1> QED
  BY <1>2, <1>4, <1>5

-----------------------------------------------------------------------------
(***************************************************************************)
(* Interval triggers.                                                      *)
(***************************************************************************)

\* The wall time by which the n-th fire is due.
Due(n) == begin + n * Period(trigger)

\* How far ahead a tick may be: the period, and what the clock was put back
\* since the sleep before.
Reach == Period(trigger) + (back - mark)

\* The fires made were due, the one to come is not early in the grid.
Paced ==
    /\ pc \in {"new", "starting"} => fires = 0 /\ ~overran
    /\ Due(fires) <= wall + back
    /\ pc = "sleeping" => Due(fires + 1) <= tick
    /\ pc = "firing" => Due(fires) <= tick

\* What is proved of a loop with an interval trigger.
OnInterval ==
    trigger.kind = "interval" =>
        Paced /\ NoDrift /\ SleepBounded /\ OnlyHugeIntervalsUnwind

\* The tick the loop goes to sleep for.
Following(t) ==
    /\ t \in Int
    /\ Sleep(t)
    /\ wall <= t
    /\ t - wall <= Reach
    /\ begin' \in Int /\ overran' \in BOOLEAN
    /\ begin' + fires * Period(trigger) <= wall + back
    /\ begin' + (fires + 1) * Period(trigger) <= t
    /\ ~overran' => t = begin' + (fires + 1) * Period(trigger)
    /\ UNCHANGED <<trigger, clock, wall, fires, back>>

\* One period more.
LEMMA DueNext ==
    ASSUME NEW p \in Nat, NEW n \in Nat
    PROVE  n * p \in Nat /\ (n + 1) * p = n * p + p /\ 0 * p = 0 /\ (0 + 1) * p = p
PROOF
  OBVIOUS

\* A loop that goes to sleep keeps all of it.
LEMMA Continues ==
    ASSUME TypeOK, Timely, trigger.kind = "interval", NEW t, Following(t)
    PROVE  (Paced /\ NoDrift /\ SleepBounded /\ OnlyHugeIntervalsUnwind)'
PROOF
<1> DEFINE p == Period(trigger)
           gap == Larger(t - wall, 0)
           fits == p + (back - mark)
<1>1. p \in Nat /\ p >= 1
  BY NextTick DEF TypeOK
<1>2. PICK j \in 0 .. window(gap) : Slumber(t, t + j)
  BY DEF Following, Sleep
<1>3. gap \in Nat /\ fits \in Nat /\ gap <= fits /\ t - wall <= gap
  BY <1>1 DEF Following, Reach, TypeOK, Timely, Larger
<1>4. window(gap) \in Nat /\ window(gap) <= gap /\ window(gap) <= window(fits)
      /\ window(fits) \in Nat
  BY <1>3, Windows
<1>5. j \in Nat /\ j <= gap /\ j <= window(fits)
  BY <1>3, <1>4
<1>6. /\ trigger' = trigger /\ clock' = clock /\ wall' = wall
      /\ fires' = fires /\ back' = back
  BY DEF Following
<1>7. Period(trigger)' = p
  BY <1>6 DEF Period
<1>8. /\ fires * p \in Nat /\ (fires + 1) * p \in Nat
  BY <1>1, DueNext DEF TypeOK
<1>9. /\ t \in Int /\ begin' \in Int /\ wall <= t /\ t - wall <= fits
      /\ begin' + fires * p <= wall + back
      /\ begin' + (fires + 1) * p <= t
      /\ ~overran' => t = begin' + (fires + 1) * p
  BY DEF Following, Reach
<1>10. CASE pc' = "sleeping"
  <2>1. /\ tick' = t /\ deadline' = clock + ((t + j) - wall)
        /\ slept' = clock /\ mark' = back /\ owed' = back - mark
    BY <1>2, <1>10 DEF Slumber
  <2>2. Paced'
    BY <1>6, <1>7, <1>9, <1>10, <2>1 DEF Paced, Due
  <2>3. NoDrift'
    BY <1>6, <1>7, <1>9, <1>10, <2>1 DEF NoDrift
  <2>4. SleepBounded'
    <3>1. slept' <= deadline'
      BY <1>5, <1>9, <2>1 DEF TypeOK
    <3>2. deadline' - slept' <= fits + window(fits)
      BY <1>3, <1>4, <1>5, <1>9, <2>1 DEF TypeOK
    <3>3. fits = Period(trigger)' + owed'
      BY <1>7, <2>1
    <3> HIDE DEF fits
    <3> QED
      BY <1>10, <3>1, <3>2, <3>3 DEF SleepBounded, window
  <2>5. OnlyHugeIntervalsUnwind'
    BY <1>10 DEF OnlyHugeIntervalsUnwind
  <2> QED
    BY <2>2, <2>3, <2>4, <2>5
<1>11. CASE pc' # "sleeping"
  <2>1. pc' = "unwound" /\ mark' = mark /\ Larger(t, t + j) > LastInstant
    BY <1>2, <1>11 DEF Slumber
  <2>2. t + j > LastInstant
    BY <1>5, <1>9, <2>1 DEF Larger
  <2>3. wall + 2 * fits > LastInstant
    BY <1>3, <1>5, <1>9, <2>2, TimesAssumption DEF TypeOK
  <2>4. OnlyHugeIntervalsUnwind'
    BY <1>6, <1>7, <2>1, <2>3 DEF OnlyHugeIntervalsUnwind
  <2>5. Paced'
    BY <1>6, <1>7, <1>9, <2>1 DEF Paced, Due
  <2>6. NoDrift' /\ SleepBounded'
    BY <2>1 DEF NoDrift, SleepBounded
  <2> QED
    BY <2>4, <2>5, <2>6
<1> QED
  BY <1>10, <1>11

\* Time and clock steps: wall and what it was put back never lose together.
LEMMA ClockMoves ==
    ASSUME TypeOK, Timely, trigger.kind = "interval",
           Paced, NoDrift, SleepBounded, OnlyHugeIntervalsUnwind,
           NEW up \in Nat, NEW down \in Nat,
           wall' = wall + up - down, back' = back + down,
           UNCHANGED <<trigger, pc, tick, deadline, begin, fires, slept, overran,
                       mark, owed>>
    PROVE  (Paced /\ NoDrift /\ SleepBounded /\ OnlyHugeIntervalsUnwind)'
PROOF
<1> DEFINE p == Period(trigger)
<1>1. p \in Nat /\ p >= 1
  BY NextTick DEF TypeOK
<1>2. Period(trigger)' = p
  BY DEF Period
<1>3. fires * p \in Nat
  BY <1>1, DueNext DEF TypeOK
<1>4. Paced'
  <2>1. Due(fires)' = Due(fires) /\ Due(fires + 1)' = Due(fires + 1)
    BY <1>2 DEF Due
  <2>2. Due(fires) \in Int
    BY <1>3 DEF Due, TypeOK
  <2> QED
    BY <2>1, <2>2 DEF Paced, TypeOK
<1>5. NoDrift'
  BY <1>2 DEF NoDrift
<1>6. SleepBounded'
  BY <1>2 DEF SleepBounded, window
<1>7. OnlyHugeIntervalsUnwind'
  BY <1>1, <1>2, TimesAssumption DEF OnlyHugeIntervalsUnwind, TypeOK
<1> QED
  BY <1>4, <1>5, <1>6, <1>7

LEMMA IntervalStep ==
    ASSUME TypeOK, Timely, Timely', OnInterval, [Next]_vars
    PROVE  OnInterval'
PROOF
<1>1. trigger' = trigger
  BY DEF Next, vars, Begin, StartFireDone, Wake, Complete, Pass, StepClock
<1>2. SUFFICES ASSUME trigger.kind = "interval"
      PROVE  (Paced /\ NoDrift /\ SleepBounded /\ OnlyHugeIntervalsUnwind)'
  BY <1>1 DEF OnInterval
<1>3. Paced /\ NoDrift /\ SleepBounded /\ OnlyHugeIntervalsUnwind
  BY <1>2 DEF OnInterval
<1> DEFINE p == Period(trigger)
<1>4. p \in Nat /\ p >= 1
  BY <1>2, NextTick DEF TypeOK
<1>5. /\ fires * p \in Nat /\ (fires + 1) * p = fires * p + p
      /\ 0 * p = 0 /\ (0 + 1) * p = p
  BY <1>4, DueNext DEF TypeOK
<1>6. Period(trigger)' = p
  BY <1>1 DEF Period
<1>7. /\ next_tick_or_park(trigger, wall, wall) = wall + p
      /\ next_tick_or_park(trigger, tick, wall) = tick + p
  BY <1>2, NextTick DEF TypeOK
<1>8. ASSUME Sleep(wall + p), begin' = wall, pc \in {"new", "starting"},
             UNCHANGED <<trigger, clock, wall, fires, overran, back>>
      PROVE  (Paced /\ NoDrift /\ SleepBounded /\ OnlyHugeIntervalsUnwind)'
  <2>1. fires = 0
    BY <1>3, <1>8 DEF Paced
  <2>2. Following(wall + p)
    <3>1. /\ wall + p \in Int /\ wall <= wall + p
          /\ (wall + p) - wall <= p + (back - mark)
      BY <1>4 DEF TypeOK, Timely
    <3>2. begin' + fires * p <= wall + back
      BY <1>5, <1>8, <2>1 DEF TypeOK
    <3>3. wall + p = begin' + (fires + 1) * p
      BY <1>5, <1>8, <2>1
    <3>4. begin' \in Int /\ overran' \in BOOLEAN
      BY <1>8 DEF TypeOK
    <3> QED
      BY <1>8, <3>1, <3>2, <3>3, <3>4 DEF Following, Reach
  <2> QED
    BY <1>2, <2>2, Continues
<1>9. CASE Begin
  <2>1. CASE fire_at_start
    <3>1. /\ pc' = "starting" /\ begin' = wall /\ fires = 0 /\ ~overran
          /\ wall' = wall /\ back' = back /\ fires' = fires /\ overran' = overran
      BY <1>3, <1>9, <2>1 DEF Begin, Paced
    <3>2. Due(fires)' = wall
      BY <1>5, <1>6, <3>1 DEF Due, TypeOK
    <3>3. Paced'
      BY <3>1, <3>2 DEF Paced, TypeOK
    <3> QED
      BY <3>1, <3>3 DEF NoDrift, SleepBounded, OnlyHugeIntervalsUnwind
  <2>2. CASE ~fire_at_start
    BY <1>7, <1>8, <1>9, <2>2 DEF Begin
  <2> QED
    BY <2>1, <2>2
<1>10. CASE StartFireDone
  BY <1>7, <1>8, <1>10 DEF StartFireDone
<1>11. CASE Wake
  <2>1. /\ pc = "sleeping" /\ pc' = "firing" /\ fires' = fires + 1
        /\ UNCHANGED <<wall, back, tick, begin, mark, overran>>
    BY <1>11 DEF Wake
  <2>2. tick <= wall + (back - mark) /\ mark <= back
    BY <2>1 DEF Timely
  <2>3. Due(fires)' = Due(fires + 1)
    BY <1>6, <2>1 DEF Due
  <2>4. Due(fires + 1) \in Int /\ Due(fires + 1) <= tick
    BY <1>3, <1>4, <1>5, <2>1 DEF Due, Paced, TypeOK
  <2>5. Paced'
    BY <2>1, <2>2, <2>3, <2>4 DEF Paced, TypeOK
  <2>6. NoDrift'
    BY <1>3, <1>1, <1>6, <2>1 DEF NoDrift
  <2> QED
    BY <2>1, <2>5, <2>6 DEF SleepBounded, OnlyHugeIntervalsUnwind
<1>12. CASE Complete
  <2> DEFINE t == Larger(tick + p, wall)
  <2>1. /\ pc = "firing" /\ Sleep(t) /\ overran' = (overran \/ wall >= tick + p)
        /\ UNCHANGED <<trigger, clock, wall, begin, fires, back>>
    BY <1>7, <1>12 DEF Complete
  <2>2. tick <= wall + (back - mark) /\ mark <= back
    BY <2>1 DEF Timely
  <2>3. begin + fires * p <= tick /\ begin + fires * p <= wall + back
    BY <1>3, <2>1 DEF Paced, Due
  <2>4. t \in Int /\ wall <= t /\ tick + p <= t /\ t - wall <= p + (back - mark)
    BY <1>4, <2>2 DEF Larger, TypeOK
  <2>5. ~overran' => t = begin + (fires + 1) * p
    <3> SUFFICES ASSUME ~overran' PROVE t = begin + (fires + 1) * p
      OBVIOUS
    <3>1. ~overran /\ ~(wall >= tick + p)
      BY <2>1
    <3>2. tick = begin + fires * p
      BY <1>2, <1>3, <2>1, <3>1 DEF NoDrift
    <3> QED
      BY <1>4, <1>5, <3>1, <3>2 DEF Larger, TypeOK
  <2>6. begin + (fires + 1) * p <= t
    BY <1>4, <1>5, <2>3, <2>4 DEF TypeOK
  <2>7. begin' \in Int /\ overran' \in BOOLEAN
    BY <2>1 DEF TypeOK
  <2> HIDE DEF t
  <2>8. Following(t)
    BY <2>1, <2>3, <2>4, <2>5, <2>6, <2>7 DEF Following, Reach
  <2> QED
    BY <1>2, <2>8, Continues
<1>13. CASE Pass
  <2>1. wall' = wall + 1 - 0 /\ back' = back + 0
    BY <1>13 DEF Pass, TypeOK
  <2> QED
    BY <1>2, <1>3, <1>13, <2>1, ClockMoves DEF Pass
<1>14. CASE StepClock
  <2>1. PICK d \in ClockSteps : wall' = wall + d /\ back' = back + Larger(-d, 0)
    BY <1>14 DEF StepClock
  <2>2. d \in Int
    BY TimesAssumption
  <2>3. PICK up \in Nat, down \in Nat :
            wall' = wall + up - down /\ back' = back + down
    <3>1. CASE d >= 0
      BY <2>1, <2>2, <3>1 DEF Larger, TypeOK
    <3>2. CASE ~(d >= 0)
      BY <2>1, <2>2, <3>2 DEF Larger, TypeOK
    <3> QED
      BY <3>1, <3>2
  <2> QED
    BY <1>2, <1>3, <1>14, <2>3, ClockMoves DEF StepClock
<1>15. CASE UNCHANGED vars
  <2>1. wall' = wall + 0 - 0 /\ back' = back + 0
    BY <1>15 DEF vars, TypeOK
  <2> QED
    BY <1>2, <1>3, <1>15, <2>1, ClockMoves DEF vars
<1> QED
  BY <1>9, <1>10, <1>11, <1>12, <1>13, <1>14, <1>15 DEF Next

LEMMA IntervalAlways == Spec => [](TypeOK /\ Timely /\ OnInterval)
PROOF
<1>1. Init => OnInterval
  <2> SUFFICES ASSUME Init, trigger.kind = "interval"
               PROVE  Paced /\ NoDrift /\ SleepBounded /\ OnlyHugeIntervalsUnwind
    BY DEF OnInterval
  <2>1. Period(trigger) \in Nat
    BY NextTick DEF Init
  <2>2. Due(fires) = 0
    BY <2>1, DueNext DEF Init, Due
  <2>3. Paced
    BY <2>2 DEF Init, Paced
  <2> QED
    BY <2>3 DEF Init, NoDrift, SleepBounded, OnlyHugeIntervalsUnwind
<1>2. (TypeOK /\ Timely) /\ (TypeOK /\ Timely)' /\ OnInterval /\ [Next]_vars
      => OnInterval'
  BY IntervalStep
<1> QED
  BY <1>1, <1>2, TimelyAlways, PTL DEF Spec

\* For every trigger, a loop that goes to sleep is not late, and with an
\* interval sleeps no longer than the jittered gap (run_loop, runner.rs
\* 208-234).
THEOREM SleepsBounded == Spec => []SleepBounded
PROOF
<1>1. TypeOK /\ Timely /\ OnInterval => SleepBounded
  BY DEF Timely, OnInterval, SleepBounded
<1> QED
  BY <1>1, IntervalAlways, PTL

\* Until a run outlasts its gap, an interval job stays on the grid it began
\* on, for every period, jitter and clock (next_fire_after, trigger.rs).
THEOREM StaysOnGrid == Spec => []NoDrift
PROOF
<1>1. TypeOK /\ Timely /\ OnInterval => NoDrift
  BY DEF OnInterval, NoDrift
<1> QED
  BY <1>1, IntervalAlways, PTL

\* An interval job never has more fires than periods have elapsed.  (A cron
\* job that is exhausted has: it fires at every SCHEDULE_PARK.)
THEOREM IntervalNeverStacked ==
    Spec => [](trigger.kind = "interval" => NeverStacked)
PROOF
<1>1. TypeOK /\ OnInterval => (trigger.kind = "interval" => NeverStacked)
  <2> SUFFICES ASSUME TypeOK, OnInterval, trigger.kind = "interval"
               PROVE  NeverStacked
    OBVIOUS
  <2> DEFINE p == Period(trigger)
             elapsed == (wall + back) - begin
  <2>1. p \in Nat \ {0}
    BY NextTick DEF TypeOK
  <2>2. fires * p \in Nat /\ p * fires = fires * p
    BY <2>1, DueNext DEF TypeOK
  <2>3. elapsed \in Nat /\ fires * p <= elapsed
    BY <2>2 DEF OnInterval, Paced, Due, TypeOK
  <2>4. (p * fires) \div p = fires
    BY <2>1 DEF TypeOK
  <2> HIDE DEF p, elapsed
  <2>5. fires <= elapsed \div p
    BY <2>1, <2>2, <2>3, <2>4, Quotients DEF TypeOK
  <2>6. Ticks(trigger, begin, wall + back) = elapsed \div p
    BY DEF Ticks, elapsed, p
  <2> QED
    BY <2>5, <2>6 DEF NeverStacked
<1> QED
  BY <1>1, IntervalAlways, PTL

\* An interval job loses its loop to an overflow only if two periods do not
\* fit between the clock and the last instant (trigger.rs 56, runner.rs).
THEOREM IntervalUnwinds ==
    Spec => [](trigger.kind = "interval" => OnlyHugeIntervalsUnwind)
PROOF
<1>1. TypeOK /\ OnInterval => (trigger.kind = "interval" => OnlyHugeIntervalsUnwind)
  BY DEF OnInterval
<1> QED
  BY <1>1, IntervalAlways, PTL

-----------------------------------------------------------------------------
(***************************************************************************)
(* Cron triggers.                                                          *)
(***************************************************************************)

\* The next instant of a schedule that is not exhausted, and how it moves
\* with the time asked about.
LEMMA NextInstant ==
    ASSUME NEW t \in Triggers, t.kind = "cron",
           NEW a \in Int, NEW b \in Int, a <= b, Later(t, b) # {}
    PROVE  /\ ~Exhausted(t, a)
           /\ next_fire_after(t, a) \in t.grid /\ next_fire_after(t, a) \in Nat
           /\ a < next_fire_after(t, a)
           /\ next_fire_after(t, a) <= next_fire_after(t, b)
           /\ next_fire_after(t, b) \in Nat /\ b < next_fire_after(t, b)
PROOF
<1>1. t.grid \in SUBSET Nat
  BY TriggersAssumption DEF TriggerKinds
<1>2. Later(t, b) \in SUBSET Nat /\ Later(t, a) \in SUBSET Nat
      /\ Later(t, b) \subseteq Later(t, a)
  BY <1>1 DEF Later
<1>3. ASSUME NEW c \in Int, Later(t, c) # {}, Later(t, c) \in SUBSET Nat
      PROVE  /\ next_fire_after(t, c) \in Later(t, c)
             /\ \A h \in Later(t, c) : next_fire_after(t, c) <= h
  <2>1. \E g \in Later(t, c) : \A h \in Later(t, c) : g <= h
    BY <1>3, Earliest
  <2> QED
    BY <2>1 DEF next_fire_after
<1>4. /\ next_fire_after(t, a) \in Later(t, a)
      /\ next_fire_after(t, b) \in Later(t, b)
      /\ next_fire_after(t, a) <= next_fire_after(t, b)
  BY <1>2, <1>3
<1> QED
  BY <1>1, <1>2, <1>4 DEF Later, Exhausted

\* The instants of the schedule from the loop's beginning to x.
Past(x) == {g \in trigger.grid : begin < g /\ g <= x}

\* How many instants of S come after b, up to x.
HowMany(S, b, x) == Cardinality({g \in S : b < g /\ g <= x})

\* They are finitely many, grow with x, and gain one at a later instant.
LEMMA PastGrows ==
    ASSUME NEW b \in Int, NEW S \in SUBSET Nat,
           NEW x \in Int, NEW y \in Int, x <= y
    PROVE  /\ HowMany(S, b, x) \in Nat /\ HowMany(S, b, y) \in Nat
           /\ HowMany(S, b, x) <= HowMany(S, b, y)
           /\ y \in S /\ x < y /\ b < y
                 => HowMany(S, b, x) + 1 <= HowMany(S, b, y)
PROOF
<1> DEFINE P(z) == {g \in S : b < g /\ g <= z}
<1>1. IsFiniteSet(P(y))
  <2>1. \A g \in P(y) : g \in b .. y
    OBVIOUS
  <2> QED
    BY <2>1, FS_Interval, FS_Subset
<1>2. \A g \in P(x) : g \in P(y)
  OBVIOUS
<1>3. /\ IsFiniteSet(P(x)) /\ Cardinality(P(x)) <= Cardinality(P(y))
      /\ Cardinality(P(y)) = Cardinality(P(x)) => P(y) = P(x)
  BY <1>1, <1>2, FS_Subset
<1>4. Cardinality(P(x)) \in Nat /\ Cardinality(P(y)) \in Nat
  BY <1>1, <1>3, FS_CardinalityType
<1>5. y \in S /\ x < y /\ b < y => y \in P(y) /\ y \notin P(x)
  OBVIOUS
<1> HIDE DEF P
<1>6. y \in S /\ x < y /\ b < y => Cardinality(P(x)) + 1 <= Cardinality(P(y))
  BY <1>3, <1>4, <1>5
<1> QED
  BY <1>3, <1>4, <1>6 DEF P, HowMany

\* How far the clocks get.
Bounded ==
    /\ clock <= Horizon /\ back <= MaxSkew
    /\ -MaxSkew <= wall - clock /\ wall - clock <= MaxSkew

\* The fires made were due by now, the one to come is due by its tick.
CronPaced ==
    /\ pc # "unwound"
    /\ pc \in {"new", "starting"} => fires = 0
    /\ pc \in {"sleeping", "firing"} => begin <= tick
    /\ fires <= Cardinality(Past(wall + back))
    /\ pc = "sleeping" => fires + 1 <= Cardinality(Past(tick))
    /\ pc = "firing" => fires <= Cardinality(Past(tick))

OnCron == Bounded /\ (trigger.kind = "cron" => CronPaced)

\* A cron loop that goes to sleep for an instant the schedule has, or for
\* now, finds room for it.
LEMMA CronSleeps ==
    ASSUME TypeOK, Timely, Bounded, trigger.kind = "cron", CronGoesOn,
           NEW t \in Int, wall <= t,
           t <= next_fire_after(trigger, LastLook), Sleep(t)
    PROVE  pc' = "sleeping" /\ tick' = t
PROOF
<1> DEFINE gap == Larger(t - wall, 0)
           last == next_fire_after(trigger, LastLook)
<1>1. /\ last \in Nat /\ last + window(last + MaxSkew) <= LastInstant
  <2>1. LastLook \in Int
    BY TimesAssumption DEF LastLook
  <2> QED
    BY <2>1, NextInstant DEF CronGoesOn, TypeOK
<1>2. PICK j \in 0 .. window(gap) : Slumber(t, t + j)
  BY DEF Sleep
<1>3. gap \in Nat /\ last + MaxSkew \in Nat /\ gap <= last + MaxSkew
  BY <1>1, TimesAssumption DEF Larger, TypeOK, Bounded
<1>4. /\ window(gap) \in Nat /\ window(last + MaxSkew) \in Nat
      /\ window(gap) <= window(last + MaxSkew)
  BY <1>3, Windows
<1>5. j \in Nat /\ t + j <= LastInstant
  BY <1>1, <1>4, TimesAssumption
<1>6. ~(Larger(t, t + j) > LastInstant)
  BY <1>5, TimesAssumption DEF Larger
<1> QED
  BY <1>2, <1>6 DEF Slumber

LEMMA CronStep ==
    ASSUME CronGoesOn, TypeOK, TypeOK', Timely, Timely', OnCron, [Next]_vars
    PROVE  OnCron'
PROOF
<1>1. trigger' = trigger
  BY DEF Next, vars, Begin, StartFireDone, Wake, Complete, Pass, StepClock
<1>2. Bounded'
  <2>1. CASE Pass
    BY <2>1, TimesAssumption DEF Pass, OnCron, Bounded, TypeOK
  <2>2. CASE StepClock
    BY <2>2, TimesAssumption DEF StepClock, OnCron, Bounded, TypeOK
  <2>3. CASE UNCHANGED <<clock, wall, back>>
    BY <2>3 DEF OnCron, Bounded
  <2> QED
    BY <2>1, <2>2, <2>3 DEF Next, vars, Begin, StartFireDone, Wake, Complete
<1>3. SUFFICES ASSUME trigger.kind = "cron" PROVE CronPaced'
  BY <1>1, <1>2 DEF OnCron
<1>4. Bounded /\ CronPaced
  BY <1>3 DEF OnCron
<1>5. /\ trigger.grid \in SUBSET Nat /\ LastLook \in Int
      /\ Later(trigger, LastLook) # {} /\ trigger \in Triggers
  BY <1>3, TriggersAssumption, TimesAssumption
  DEF TypeOK, TriggerKinds, CronGoesOn, LastLook
<1> DEFINE C(b, x) == HowMany(trigger.grid, b, x)
<1>6. /\ \A x : Cardinality(Past(x)) = C(begin, x)
      /\ \A x : Cardinality(Past(x))' = C(begin', x')
  BY <1>1 DEF Past, HowMany
<1>7. ASSUME NEW b \in Int, NEW x \in Int, NEW y \in Int, x <= y
      PROVE  /\ C(b, x) \in Nat /\ C(b, y) \in Nat /\ C(b, x) <= C(b, y)
             /\ y \in trigger.grid /\ x < y /\ b < y => C(b, x) + 1 <= C(b, y)
  BY <1>5, <1>7, PastGrows
<1> HIDE DEF C
<1>8. ASSUME NEW t \in Int, NEW n \in trigger.grid, wall <= t, n <= t,
             t <= next_fire_after(trigger, LastLook), Sleep(t),
             begin' \in Int, begin' < n, fires' = fires,
             fires <= C(begin', wall + back),
             wall' = wall, back' = back,
             \/ fires = 0
             \/ \E x \in Int : x < n /\ fires <= C(begin', x)
      PROVE  CronPaced'
  <2>1. pc' = "sleeping" /\ tick' = t
    BY <1>3, <1>4, <1>8, CronSleeps
  <2>2. n \in Int
    BY <1>5
  <2>3. fires + 1 <= C(begin', n)
    <3>1. CASE fires = 0
      <4>1. begin' <= n
        BY <1>8, <2>2
      <4>2. C(begin', begin') + 1 <= C(begin', n) /\ C(begin', begin') \in Nat
            /\ C(begin', n) \in Nat
        BY <1>7, <1>8, <2>2, <4>1, Zenon
      <4> QED
        BY <3>1, <4>2
    <3>2. CASE \E x \in Int : x < n /\ fires <= C(begin', x)
      <4>1. PICK x \in Int : x < n /\ fires <= C(begin', x)
        BY <3>2
      <4>2. x <= n
        BY <2>2, <4>1
      <4>3. C(begin', x) + 1 <= C(begin', n) /\ C(begin', x) \in Nat
            /\ C(begin', n) \in Nat
        BY <1>7, <1>8, <2>2, <4>1, <4>2, Zenon
      <4> QED
        BY <4>1, <4>3 DEF TypeOK
    <3> QED
      BY <1>8, <3>1, <3>2
  <2>4. C(begin', n) <= C(begin', t) /\ C(begin', n) \in Nat
        /\ C(begin', t) \in Nat
    BY <1>7, <1>8, <2>2
  <2>5. fires' + 1 <= C(begin', tick')
    BY <1>8, <2>1, <2>3, <2>4 DEF TypeOK
  <2>6. begin' <= tick'
    BY <1>8, <2>1, <2>2
  <2>7. fires' <= C(begin', wall' + back')
    BY <1>8
  <2> QED
    BY <1>6, <2>1, <2>5, <2>6, <2>7 DEF CronPaced
<1>9. ASSUME Sleep(next_tick_or_park(trigger, wall, wall)), begin' = wall,
             pc \in {"new", "starting"},
             UNCHANGED <<fires, wall, back>>
      PROVE  CronPaced'
  <2> DEFINE n == next_fire_after(trigger, wall)
  <2>1. wall \in Int /\ wall <= LastLook
    BY <1>4, TimesAssumption DEF TypeOK, Bounded, LastLook
  <2>2. /\ n \in trigger.grid /\ n \in Nat /\ wall < n
        /\ n <= next_fire_after(trigger, LastLook)
        /\ next_tick_or_park(trigger, wall, wall) = n
    BY <1>3, <1>5, <2>1, NextInstant DEF next_tick_or_park
  <2>3. fires = 0 /\ 0 <= C(wall, wall + back)
    <3>1. C(wall, wall + back) \in Nat
      <4>1. wall + back \in Int /\ wall <= wall + back
        BY DEF TypeOK
      <4> QED
        BY <1>7, <2>1, <4>1, Zenon
    <3> QED
      BY <1>4, <1>9, <3>1 DEF CronPaced
  <2> HIDE DEF n
  <2> QED
    BY <1>8, <1>9, <2>1, <2>2, <2>3
<1>10. CASE Begin
  <2>1. CASE fire_at_start
    <3>1. /\ pc' = "starting" /\ fires' = 0 /\ begin' \in Int
          /\ wall' + back' \in Int /\ wall' + back' <= wall' + back'
      BY <1>4, <1>10, <2>1 DEF Begin, CronPaced, TypeOK
    <3>2. C(begin', wall' + back') \in Nat
      BY <1>7, <3>1, Zenon
    <3> QED
      BY <1>6, <3>1, <3>2 DEF CronPaced
  <2>2. CASE ~fire_at_start
    BY <1>9, <1>10, <2>2 DEF Begin
  <2> QED
    BY <2>1, <2>2
<1>11. CASE StartFireDone
  BY <1>9, <1>11 DEF StartFireDone
<1>12. CASE Wake
  <2>1. /\ pc = "sleeping" /\ pc' = "firing" /\ fires' = fires + 1
        /\ UNCHANGED <<wall, back, tick, begin, mark>>
    BY <1>12 DEF Wake
  <2>2. /\ tick <= wall + back /\ tick \in Int /\ wall + back \in Int
        /\ begin \in Int
    BY <2>1 DEF Timely, TypeOK
  <2>3. begin <= tick /\ fires + 1 <= C(begin, tick)
    BY <1>4, <1>6, <2>1 DEF CronPaced
  <2>4. /\ C(begin, tick) <= C(begin, wall + back)
        /\ C(begin, tick) \in Nat /\ C(begin, wall + back) \in Nat
    BY <1>7, <2>2, Zenon
  <2>5. fires' <= C(begin, wall + back)
    BY <2>1, <2>3, <2>4 DEF TypeOK
  <2> QED
    BY <1>6, <2>1, <2>3, <2>5 DEF CronPaced
<1>13. CASE Complete
  <2> DEFINE n == next_fire_after(trigger, tick)
  <2>1. /\ pc = "firing" /\ begin' = begin
        /\ Sleep(Larger(next_tick_or_park(trigger, tick, wall), wall))
        /\ UNCHANGED <<fires, wall, back>>
    BY <1>13 DEF Complete
  <2>2. tick \in Int /\ tick <= LastLook /\ wall <= LastLook
    BY <1>4, <2>1, TimesAssumption DEF TypeOK, Bounded, LastLook, Timely
  <2>3. /\ n \in trigger.grid /\ n \in Nat /\ tick < n
        /\ n <= next_fire_after(trigger, LastLook)
        /\ next_tick_or_park(trigger, tick, wall) = n
        /\ next_fire_after(trigger, LastLook) \in Nat
        /\ LastLook < next_fire_after(trigger, LastLook)
    BY <1>3, <1>5, <2>2, NextInstant DEF next_tick_or_park
  <2> HIDE DEF n
  <2>4. /\ Larger(n, wall) \in Int /\ wall <= Larger(n, wall)
        /\ n <= Larger(n, wall)
        /\ Larger(n, wall) <= next_fire_after(trigger, LastLook)
    BY <1>5, <2>2, <2>3 DEF Larger, TypeOK
  <2>5. /\ begin <= tick /\ fires <= C(begin, tick)
        /\ fires <= C(begin, wall + back)
    BY <1>4, <1>6, <2>1 DEF CronPaced
  <2>6. begin < n /\ begin \in Int
    BY <2>2, <2>3, <2>5 DEF TypeOK
  <2>7. Sleep(Larger(n, wall))
    BY <2>1, <2>3
  <2> QED
    BY <1>8, <2>1, <2>2, <2>3, <2>4, <2>5, <2>6, <2>7
<1>14. ASSUME wall + back <= wall' + back',
              UNCHANGED <<pc, tick, begin, fires>>
       PROVE  CronPaced'
  <2>0. begin \in Int /\ wall + back \in Int /\ wall' + back' \in Int
    BY DEF TypeOK
  <2>1. /\ C(begin, wall + back) <= C(begin, wall' + back')
        /\ C(begin, wall + back) \in Nat /\ C(begin, wall' + back') \in Nat
    BY <1>7, <1>14, <2>0, Zenon
  <2>2. fires <= C(begin, wall + back)
    BY <1>4, <1>6 DEF CronPaced
  <2>3. fires' <= C(begin', wall' + back')
    BY <1>14, <2>1, <2>2 DEF TypeOK
  <2> QED
    BY <1>4, <1>6, <1>14, <2>3 DEF CronPaced
<1>15. CASE Pass \/ UNCHANGED vars
  <2>1. /\ wall' = wall + 1 \/ wall' = wall
        /\ UNCHANGED <<back, pc, tick, begin, fires>>
    BY <1>15 DEF Pass, vars
  <2>2. wall + back <= wall' + back'
    <3>1. wall \in Int /\ back \in Int
      BY DEF TypeOK
    <3>2. CASE wall' = wall
      BY <2>1, <3>1, <3>2
    <3>3. CASE wall' = wall + 1
      BY <2>1, <3>1, <3>3
    <3> QED
      BY <2>1, <3>2, <3>3
  <2> QED
    BY <1>14, <2>1, <2>2
<1>16. CASE StepClock
  <2>1. PICK d \in ClockSteps : wall' = wall + d /\ back' = back + Larger(-d, 0)
    BY <1>16 DEF StepClock
  <2>2. d \in Int
    BY TimesAssumption
  <2>3. wall + back <= wall' + back'
    BY <2>1, <2>2 DEF Larger, TypeOK
  <2> QED
    BY <1>14, <1>16, <2>3 DEF StepClock
<1> QED
  BY <1>10, <1>11, <1>12, <1>13, <1>15, <1>16 DEF Next

LEMMA CronAlways ==
    ASSUME CronGoesOn
    PROVE  Spec => [](TypeOK /\ OnCron)
PROOF
<1>1. Init => OnCron
  <2> SUFFICES ASSUME Init PROVE OnCron
    OBVIOUS
  <2>1. Bounded
    BY TimesAssumption DEF Init, Bounded
  <2>2. ASSUME trigger.kind = "cron" PROVE CronPaced
    <3>1. trigger.grid \in SUBSET Nat
      BY <2>2, TriggersAssumption DEF Init, TriggerKinds
    <3>2. wall + back = 0 /\ begin = 0
      BY DEF Init
    <3>3. Past(wall + back) = {}
      BY <3>1, <3>2 DEF Past
    <3>4. Cardinality(Past(wall + back)) \in Nat
      BY <3>3, FS_EmptySet
    <3> QED
      BY <3>4 DEF Init, CronPaced
  <2> QED
    BY <2>1, <2>2 DEF OnCron
<1>2. (TypeOK /\ Timely) /\ (TypeOK /\ Timely)' /\ OnCron /\ [Next]_vars
      => OnCron'
  BY CronStep
<1> QED
  BY <1>1, <1>2, TimelyAlways, PTL DEF Spec

\* Never stacked, for any trigger of either kind that is not exhausted: a
\* job has never had more fires than its schedule had ticks, however runs,
\* polls, jitter and clock steps go (run_loop, runner.rs 198-239).  An
\* exhausted one has: it fires at every SCHEDULE_PARK.
THEOREM NoStacking ==
    ASSUME CronGoesOn
    PROVE  Spec => []NeverStacked
PROOF
<1>1. TypeOK /\ OnCron /\ (trigger.kind = "interval" => NeverStacked)
      => NeverStacked
  <2> SUFFICES ASSUME TypeOK, OnCron, trigger.kind # "interval"
               PROVE  NeverStacked
    OBVIOUS
  <2>1. trigger.kind = "cron"
    BY TriggersAssumption DEF TypeOK, TriggerKinds
  <2> QED
    BY <2>1 DEF OnCron, CronPaced, NeverStacked, Ticks, Past
<1> QED
  BY <1>1, CronAlways, IntervalNeverStacked, PTL

\* Only an interval of which no two fit before the last instant ever loses
\* its loop to an overflow (trigger.rs 56, runner.rs 211-219).
THEOREM OnlyHugeUnwind ==
    ASSUME CronGoesOn
    PROVE  Spec => []OnlyHugeIntervalsUnwind
PROOF
<1>1. /\ TypeOK /\ OnCron
      /\ (trigger.kind = "interval" => OnlyHugeIntervalsUnwind)
      => OnlyHugeIntervalsUnwind
  <2> SUFFICES ASSUME TypeOK, OnCron, trigger.kind # "interval"
               PROVE  OnlyHugeIntervalsUnwind
    OBVIOUS
  <2>1. trigger.kind = "cron"
    BY TriggersAssumption DEF TypeOK, TriggerKinds
  <2> QED
    BY <2>1 DEF OnCron, CronPaced, OnlyHugeIntervalsUnwind
<1> QED
  BY <1>1, CronAlways, IntervalUnwinds, PTL
=============================================================================
