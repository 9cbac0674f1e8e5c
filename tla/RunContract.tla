---------------------------- MODULE RunContract ----------------------------
(***************************************************************************)
(* What WorkerSupervisor::run promises its caller, and nothing about how:  *)
(* counters only grow, a report exists only after the drain has closed, it *)
(* has an entry for every job, and every number in it lies between what    *)
(* the job had recorded when the drain closed and what it has recorded by  *)
(* the time run returns.                                                   *)
(***************************************************************************)
EXTENDS Naturals

CONSTANTS Jobs

VARIABLES
    tally,      \* what each job has recorded so far
    stage,      \* "running", "closed" (the drain is over), "returned"
    floor,      \* the tallies when the drain closed
    entries     \* the numbers of the report

Kinds == {"fires", "failures", "skips", "paused"}
Tallies == [Jobs -> [Kinds -> Nat]]
Nothing == [j \in Jobs |-> [k \in Kinds |-> 0]]

Init ==
    /\ tally = Nothing
    /\ stage = "running"
    /\ floor = Nothing
    /\ entries = Nothing

\* A job records something.  An abandoned job may do so even after the
\* report was made.
Attempt ==
    /\ \E j \in Jobs, k \in Kinds : tally' = [tally EXCEPT ![j][k] = @ + 1]
    /\ UNCHANGED <<stage, floor, entries>>

Close ==
    /\ stage = "running"
    /\ stage' = "closed"
    /\ floor' = tally
    /\ UNCHANGED <<tally, entries>>

Between(lo, x, hi) ==
    \A j \in Jobs, k \in Kinds : lo[j][k] <= x[j][k] /\ x[j][k] <= hi[j][k]

Return ==
    /\ stage = "closed"
    /\ stage' = "returned"
    /\ entries' \in Tallies /\ Between(floor, entries', tally)
    /\ UNCHANGED <<tally, floor>>

Next == Attempt \/ Close \/ Return

Spec == Init /\ [][Next]_<<tally, stage, floor, entries>>
=============================================================================
