---------------------------- MODULE MCSupervisor ----------------------------
(***************************************************************************)
(* Instances of Supervisor for TLC: two jobs with one attempt each, and    *)
(* one job with every kind of attempt.                                     *)
(***************************************************************************)
EXTENDS Supervisor

MCSpec(name, budget, leader, start, drain, hook) ==
    [name |-> name, failure_budget |-> budget, leader |-> leader,
     fire_at_start |-> start, drain_pass |-> drain, use_breaker |-> leader,
     on_degraded |-> hook]

\* Jobs whose first failure degrades them: "1" makes one attempt at start,
\* "2" one in the drain.  Two jobs may be registered in either order, or
\* both under one name.
MCTwoJobs == 1..2
MCTwoSpecs == {MCSpec(1, 1, FALSE, TRUE, FALSE, FALSE),
               MCSpec(2, 1, FALSE, FALSE, TRUE, FALSE)}

MCOneJob == 1..1
MCEverySpec == {MCSpec(1, b, l, d, d, h) : b \in 1..2, l, d, h \in BOOLEAN}

MCAlways == {TRUE}
MCSometimes == BOOLEAN
MCBody == {"body"}
MCEverySite == {"body", "future", "hook"}
=============================================================================
