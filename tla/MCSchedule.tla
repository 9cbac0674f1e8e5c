----------------------------- MODULE MCSchedule -----------------------------
(***************************************************************************)
(* Instances of Schedule for TLC.                                          *)
(***************************************************************************)
EXTENDS Schedule

\* Intervals of zero (clamped) to four units, longer ones, one near and one
\* beyond the last instant, and two cron schedules, the second irregular;
\* neither is exhausted before the horizon is.
MCTriggers ==
    {[kind |-> "interval", period |-> p] : p \in {0, 1, 3, 4, 15, 29, 41}}
    \cup {[kind |-> "cron", grid |-> {g \in 1..30 : g % 3 = 2}],
          [kind |-> "cron", grid |-> {1, 2, 6, 7, 11} \cup 15..30]}

\* The wall clock may be put forward and back.
MCSteps == {2, -2}

\* A cron schedule with two instants.
MCExhausted == {[kind |-> "cron", grid |-> {1, 3}]}
MCSteady == {}

\* The hypothesis of NoStacking and OnlyHugeUnwind holds of MCTriggers.
ASSUME CronGoesOnHere == Triggers = MCTriggers => CronGoesOn
=============================================================================
