------------------------------ MODULE Schedule ------------------------------
(***************************************************************************)
(* When a job fires: the timing of run_loop (src/src/runner.rs) over       *)
(* Trigger::next_fire_after and JitterPolicy (src/src/trigger.rs).  One    *)
(* job; what its fires do is module JobRunner.                             *)
(*                                                                         *)
(* The schedule is kept in wall-clock time, the sleep in monotonic time:   *)
(* std_instant_at converts one into the other when the loop goes to sleep, *)
(* and the wall clock may be put forward or back while it sleeps.  The     *)
(* unit is MIN_INTERVAL, one millisecond.                                  *)
(***************************************************************************)
EXTENDS Integers, FiniteSets

CONSTANTS
    Triggers,       \* the triggers to explore (see TriggerKinds)
    FractionNum,    \* JitterPolicy.fraction, as a rational in [0, 1]
    FractionDen,
    Park,           \* SCHEDULE_PARK
    LastInstant,    \* the latest instant a SystemTime holds
    ClockSteps,     \* by how much the wall clock may be stepped
    Horizon,        \* bound: monotonic time explored
    MaxSkew         \* bound: how far the wall clock is off, and how far it is
                    \* put back in all

\* Trigger::Interval(period), or Trigger::Cron as the set of its instants.
TriggerKinds == [kind : {"interval"}, period : Nat]
                \cup [kind : {"cron"}, grid : SUBSET Nat]

ASSUME TriggersAssumption == Triggers \subseteq TriggerKinds
ASSUME FractionAssumption ==
    /\ FractionNum \in Nat
    /\ FractionDen \in Nat \ {0}
    /\ FractionNum <= FractionDen
ASSUME TimesAssumption ==
    /\ Park \in Nat \ {0}
    /\ LastInstant \in Nat
    /\ ClockSteps \subseteq Int
    /\ Horizon \in Nat
    /\ MaxSkew \in Nat

VARIABLES
    trigger,        \* spec.trigger
    fire_at_start,  \* spec.fire_at_start
    clock,          \* the monotonic clock
    wall,           \* the wall clock
    pc,             \* "new", "starting" (the fire at start), "sleeping",
                    \* "firing", "unwound" (an addition overflowed)
    tick,           \* the grid tick the loop waits for, in wall time
    deadline,       \* when the sleep ends, in monotonic time
    begin,          \* reference: wall time when the first tick was computed
    fires,          \* reference: scheduled fires so far
    slept,          \* reference: monotonic time when the loop went to sleep
    overran,        \* reference: some run has outlasted its gap
    back,           \* reference: by how much the wall clock was put back in all
    mark,           \* reference: back when the loop went to sleep
    owed            \* reference: of that, since the sleep before

vars == <<trigger, fire_at_start, clock, wall, pc, tick, deadline, begin,
          fires, slept, overran, back, mark, owed>>

MinInterval == 1

Larger(a, b) == IF a > b THEN a ELSE b

Period(t) == Larger(t.period, MinInterval)

\* The cron instants after a time; the next fire is the earliest of them.
Later(t, after) == {g \in t.grid : g > after}
Exhausted(t, after) == t.kind = "cron" /\ Later(t, after) = {}

\* Mutant: the interval is counted twice.
next_fire_doubled(t, after) ==
    IF t.kind = "interval"
    THEN after + 2 * Period(t)
    ELSE CHOOSE g \in Later(t, after) : \A h \in Later(t, after) : g <= h

next_fire_after(t, after) ==
    IF t.kind = "interval"
    THEN after + Period(t)
    ELSE CHOOSE g \in Later(t, after) : \A h \in Later(t, after) : g <= h

\* first_tick and next_tick_or_park: an exhausted schedule parks.
next_tick_or_park(t, after, from) ==
    IF Exhausted(t, after) THEN from + Park ELSE next_fire_after(t, after)

\* The jitter window of a gap: fraction * gap, at most the gap.
window(gap) == (FractionNum * gap) \div FractionDen

-----------------------------------------------------------------------------
TypeOK ==
    /\ trigger \in Triggers
    /\ fire_at_start \in BOOLEAN
    /\ clock \in Nat
    /\ wall \in Int
    /\ pc \in {"new", "starting", "sleeping", "firing", "unwound"}
    /\ tick \in Int
    /\ deadline \in Int
    /\ begin \in Int
    /\ fires \in Nat
    /\ slept \in Nat
    /\ overran \in BOOLEAN
    /\ back \in Nat
    /\ mark \in Nat
    /\ owed \in Nat

Init ==
    /\ trigger \in Triggers
    /\ fire_at_start \in BOOLEAN
    /\ clock = 0
    /\ wall = 0
    /\ pc = "new"
    /\ tick = 0
    /\ deadline = 0
    /\ begin = 0
    /\ fires = 0
    /\ slept = 0
    /\ overran = FALSE
    /\ back = 0
    /\ mark = 0
    /\ owed = 0

\* The loop goes to sleep for tick t until fire_at; an instant that no
\* SystemTime holds is a panic, outside catch_unwind, and ends it.  The
\* readings of the clock at the top of the loop and in std_instant_at are
\* one.  Its fallbacks to now are left out: the one for a deadline before the
\* first Instant is a deadline that has passed either way, the one for a
\* deadline after the last needs a wall clock that reads less than the uptime.
Slumber(t, fire_at) ==
    \/ /\ Larger(t, fire_at) <= LastInstant
       /\ pc' = "sleeping"
       /\ tick' = t
       /\ deadline' = clock + (fire_at - wall)
       /\ slept' = clock
       /\ mark' = back
       /\ owed' = back - mark
    \/ /\ Larger(t, fire_at) > LastInstant
       /\ pc' = "unwound"
       /\ UNCHANGED <<tick, deadline, slept, mark, owed>>

\* Mutant: the jitter spreads the fire to both sides of the tick.
SleepBothWays(t) ==
    LET gap == Larger(t - wall, 0)
    IN \E j \in (-window(gap))..window(gap) : Slumber(t, t + j)

\* Top of the loop: jitter the gap to tick t and go to sleep.
Sleep(t) ==
    LET gap == Larger(t - wall, 0)
    IN \E j \in 0..window(gap) : Slumber(t, t + j)

\* The loop starts: fire at once, or wait for the first tick.
Begin ==
    /\ pc = "new"
    /\ \/ /\ fire_at_start
          /\ pc' = "starting"
          /\ UNCHANGED <<tick, deadline, slept, mark, owed>>
       \/ ~fire_at_start /\ Sleep(next_tick_or_park(trigger, wall, wall))
    /\ begin' = wall
    /\ UNCHANGED <<trigger, fire_at_start, clock, wall, fires, overran, back>>

\* The fire at start returns; the schedule starts from here.
StartFireDone ==
    /\ pc = "starting"
    /\ Sleep(next_tick_or_park(trigger, wall, wall))
    /\ begin' = wall
    /\ UNCHANGED <<trigger, fire_at_start, clock, wall, fires, overran, back>>

\* The sleep is over, now or a while ago.
Wake ==
    /\ pc = "sleeping"
    /\ clock >= deadline
    /\ pc' = "firing"
    /\ fires' = fires + 1
    /\ UNCHANGED <<trigger, fire_at_start, clock, wall, tick, deadline, begin,
                   slept, overran, back, mark, owed>>

\* Mutant: an overrun is not coalesced; missed ticks pile up.
CompleteStacked ==
    /\ pc = "firing"
    /\ LET next == next_tick_or_park(trigger, tick, wall)
       IN Sleep(next) /\ overran' = (overran \/ wall >= next)
    /\ UNCHANGED <<trigger, fire_at_start, clock, wall, begin, fires, back>>

\* Mutant: the next tick is counted from the completion, not from the tick.
CompleteDrifting ==
    /\ pc = "firing"
    /\ LET next == next_tick_or_park(trigger, tick, wall)
       IN /\ Sleep(next_tick_or_park(trigger, wall, wall))
          /\ overran' = (overran \/ wall >= next)
    /\ UNCHANGED <<trigger, fire_at_start, clock, wall, begin, fires, back>>

\* fire() returns.  The schedule goes on from the tick, except that a run
\* that outlasted its gap fires again at once.
Complete ==
    /\ pc = "firing"
    /\ LET next == next_tick_or_park(trigger, tick, wall)
       IN /\ Sleep(Larger(next, wall))
          /\ overran' = (overran \/ wall >= next)
    /\ UNCHANGED <<trigger, fire_at_start, clock, wall, begin, fires, back>>

Pass ==
    /\ clock < Horizon
    /\ clock' = clock + 1
    /\ wall' = wall + 1
    /\ UNCHANGED <<trigger, fire_at_start, pc, tick, deadline, begin,
                   fires, slept, overran, back, mark, owed>>

\* The wall clock is set, forward or back.
StepClock ==
    /\ \E d \in ClockSteps : /\ wall' = wall + d
                            /\ back' = back + Larger(-d, 0)
    /\ wall' - clock \in (-MaxSkew)..MaxSkew
    /\ back' <= MaxSkew
    /\ UNCHANGED <<trigger, fire_at_start, clock, pc, tick, deadline, begin,
                   fires, slept, overran, mark, owed>>

Next ==
    \/ Begin
    \/ StartFireDone
    \/ Wake
    \/ Complete
    \/ Pass
    \/ StepClock
    \/ clock = Horizon /\ UNCHANGED vars

Spec == Init /\ [][Next]_vars

-----------------------------------------------------------------------------
(***************************************************************************)
(* Properties.                                                             *)
(***************************************************************************)

\* The ticks the schedule had between two wall times.
Ticks(t, from, to) ==
    IF t.kind = "interval"
    THEN (to - from) \div Period(t)
    ELSE Cardinality({g \in t.grid : from < g /\ g <= to})

\* Never stacked: however long the runs last, however late the loop is
\* polled, whatever the jitter draws and however the clock is set, a job
\* has never had more scheduled fires than its schedule had ticks, those of
\* the time the clock was put back counted again, and none before the first
\* period has elapsed.
NeverStacked == fires <= Ticks(trigger, begin, wall + back)

\* A loop that goes to sleep owes no fire and waits no longer than the
\* jittered gap: its deadline is not in the past, so that one overrun is
\* followed by one immediate fire and no backlog, and at most one period
\* and its window ahead, whatever overruns and clock steps came before.  A
\* clock put back makes the loop wait for the time put back as well, in the
\* one sleep that follows and in no other.
SleepBounded ==
    pc = "sleeping" =>
        /\ slept <= deadline
        /\ trigger.kind = "interval" =>
              LET gap == Period(trigger) + owed
              IN deadline - slept <= gap + window(gap)

\* Neither jitter nor late polls nor slow runs shift the schedule: until a
\* run outlasts its gap, the n-th fire is for the n-th tick of the grid
\* the loop started on.
NoDrift ==
    /\ trigger.kind = "interval" /\ ~overran
    => /\ pc = "sleeping" => tick = begin + (fires + 1) * Period(trigger)
       /\ pc = "firing" => tick = begin + fires * Period(trigger)

\* No sleep is cut short: a fire starts only when the wall clock has
\* reached the tick it is for, or would have, had it not been put back
\* since the loop went to sleep.
NeverEarly == pc = "firing" => wall + (back - mark) >= tick

\* The additions of next_fire_after and run_loop overflow only for intervals
\* of which no two fit between the clock, as far as it was put back since
\* the last sleep, and the last instant; any other job keeps its loop,
\* however its runs, the jitter and the clock go.
OnlyHugeIntervalsUnwind ==
    pc = "unwound" =>
        /\ trigger.kind = "interval"
        /\ wall + 2 * (Period(trigger) + (back - mark)) > LastInstant

\* The latest instant a loop may ask its schedule about.
LastLook == Horizon + 2 * MaxSkew

\* No cron schedule is exhausted by then, and its next instant and the
\* window before it are no later than the last one.
CronGoesOn ==
    \A t \in Triggers : t.kind = "cron" =>
        /\ Later(t, LastLook) # {}
        /\ LET next == next_fire_after(t, LastLook)
           IN next + window(next + MaxSkew) <= LastInstant

\* What trigger.rs says of an exhausted schedule: the loop parks and
\* re-evaluates, so every fire is one the schedule asked for.
OnlyScheduledFires ==
    trigger.kind = "cron" =>
        fires <= Cardinality({g \in trigger.grid : begin < g /\ g <= wall})
=============================================================================
