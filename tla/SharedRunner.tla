---------------------------- MODULE SharedRunner ----------------------------
(***************************************************************************)
(* The counters of one JobRunner under several loops: WorkerSupervisor::   *)
(* run takes an Arc and may be called more than once, so that the loops    *)
(* record their attempts in one Stats, write by write (fire,               *)
(* src/src/runner.rs).  The one loop, with its gate and its breaker, is    *)
(* module JobRunner.                                                       *)
(*                                                                         *)
(* Every write is Relaxed or under the mutex of last_error; each is a step *)
(* of its own here.                                                        *)
(***************************************************************************)
EXTENDS Integers, FiniteSets, SequencesExt

CONSTANTS
    Loops,          \* the loops that share the runner
    failure_budget,
    MaxAttempts     \* bound: attempts of all loops together

ASSUME LoopsAssumption == IsFiniteSet(Loops)
ASSUME NumbersAssumption == failure_budget \in Nat /\ MaxAttempts \in Nat

VARIABLES
    stats,      \* Stats
    at,         \* loop -> the write it makes next, or "idle"
    attempts,   \* reference: outcome -> attempts that began to be recorded
    hooks,      \* reference: calls of on_degraded
    rises,      \* reference: how often degraded became true
    crossed     \* reference: a loop wrote consecutive between another loop's
                \* writes of consecutive and of degraded

vars == <<stats, at, attempts, hooks, rises, crossed>>

Outcomes == {"success", "failure", "skip", "pause"}
Locations == {"idle", "skip", "pause", "ok_fire", "reset", "clear", "bad_fire",
              "failure", "spend", "swap", "hook", "record", "unwound"}

\* Stats.  last_error is whether there is one.
StatsRecords ==
    [fires : Nat, failures : Nat, skips : Nat, paused : Nat, consecutive : Nat,
     degraded : BOOLEAN, last_error : BOOLEAN]

NewStats ==
    [fires |-> 0, failures |-> 0, skips |-> 0, paused |-> 0, consecutive |-> 0,
     degraded |-> FALSE, last_error |-> FALSE]

TypeOK ==
    /\ stats \in StatsRecords
    /\ at \in [Loops -> Locations]
    /\ attempts \in [Outcomes -> Nat]
    /\ hooks \in Nat
    /\ rises \in Nat
    /\ crossed \in BOOLEAN

Init ==
    /\ stats = NewStats
    /\ at = [l \in Loops |-> "idle"]
    /\ attempts = [o \in Outcomes |-> 0]
    /\ hooks = 0
    /\ rises = 0
    /\ crossed = FALSE

-----------------------------------------------------------------------------
Goto(l, from, to) == at[l] = from /\ at' = [at EXCEPT ![l] = to]

\* An attempt of loop l has its outcome; its first write is to.
Record(l, outcome, to) ==
    /\ SumFunction(attempts) < MaxAttempts
    /\ Goto(l, "idle", to)
    /\ attempts' = [attempts EXCEPT ![outcome] = @ + 1]
    /\ UNCHANGED <<stats, hooks, rises, crossed>>

\* Mutant: a load and a store: loops that load together add one together.
CountByStore(l, from, c, to) ==
    /\ at[l] = from
    /\ at' = [k \in Loops |-> IF at[k] = from THEN to ELSE at[k]]
    /\ stats' = [stats EXCEPT ![c] = @ + 1]
    /\ UNCHANGED <<attempts, hooks, rises, crossed>>

\* fetch_add of counter c
Count(l, from, c, to) ==
    /\ Goto(l, from, to)
    /\ stats' = [stats EXCEPT ![c] = @ + 1]
    /\ UNCHANGED <<attempts, hooks, rises, crossed>>

\* Some other loop is between its write of consecutive and of degraded.
Crossing(l) == \E k \in Loops \ {l} : at[k] \in {"swap", "clear"}

ResetBudget(l) ==
    /\ Goto(l, "reset", "clear")
    /\ stats' = [stats EXCEPT !.consecutive = 0]
    /\ crossed' = (crossed \/ Crossing(l))
    /\ UNCHANGED <<attempts, hooks, rises>>

\* Mutant: a success resets the budget and leaves the flag.
ClearNothing(l) ==
    /\ Goto(l, "clear", "idle")
    /\ UNCHANGED <<stats, attempts, hooks, rises, crossed>>

ClearDegraded(l) ==
    /\ Goto(l, "clear", "idle")
    /\ stats' = [stats EXCEPT !.degraded = FALSE]
    /\ UNCHANGED <<attempts, hooks, rises, crossed>>

\* The value fetch_add returns decides whether degraded is looked at.
SpendBudget(l) ==
    /\ stats' = [stats EXCEPT !.consecutive = @ + 1]
    /\ Goto(l, "spend", IF stats.consecutive + 1 >= failure_budget
                        THEN "swap" ELSE "record")
    /\ crossed' = (crossed \/ Crossing(l))
    /\ UNCHANGED <<attempts, hooks, rises>>

\* Mutant: a load and a store: all who load false call the hook.
SwapByStore(l) ==
    /\ at[l] = "swap"
    /\ at' = [k \in Loops |-> CASE at[k] # "swap" -> at[k]
                                [] at[k] = "swap" /\ stats.degraded -> "record"
                                [] OTHER -> "hook"]
    /\ stats' = [stats EXCEPT !.degraded = TRUE]
    /\ rises' = IF stats.degraded THEN rises ELSE rises + 1
    /\ UNCHANGED <<attempts, hooks, crossed>>

\* degraded.swap(true); who finds it false calls the hook.
SwapDegraded(l) ==
    /\ Goto(l, "swap", IF stats.degraded THEN "record" ELSE "hook")
    /\ stats' = [stats EXCEPT !.degraded = TRUE]
    /\ rises' = IF stats.degraded THEN rises ELSE rises + 1
    /\ UNCHANGED <<attempts, hooks, crossed>>

\* The hook may panic: its loop ends there, before record_last_error.
CallHook(l) ==
    /\ \E to \in {"record", "unwound"} : Goto(l, "hook", to)
    /\ hooks' = hooks + 1
    /\ UNCHANGED <<stats, attempts, rises, crossed>>

RecordLastError(l) ==
    /\ Goto(l, "record", "idle")
    /\ stats' = [stats EXCEPT !.last_error = TRUE]
    /\ UNCHANGED <<attempts, hooks, rises, crossed>>

\* The writes of fire, in their order.
LoopStep(l) ==
    \/ Record(l, "skip", "skip")
    \/ Record(l, "pause", "pause")
    \/ Record(l, "success", "ok_fire")
    \/ Record(l, "failure", "bad_fire")
    \/ Count(l, "skip", "skips", "idle")
    \/ Count(l, "pause", "paused", "idle")
    \/ Count(l, "ok_fire", "fires", "reset")
    \/ Count(l, "bad_fire", "fires", "failure")
    \/ Count(l, "failure", "failures", "spend")
    \/ ResetBudget(l)
    \/ ClearDegraded(l)
    \/ SpendBudget(l)
    \/ SwapDegraded(l)
    \/ CallHook(l)
    \/ RecordLastError(l)

\* The loops at a location; no loop is recording.
In(locations) == {l \in Loops : at[l] \in locations}
Settled == In(Locations \ {"idle", "unwound"}) = {}

Next ==
    \/ \E l \in Loops : LoopStep(l)
    \/ Settled /\ UNCHANGED vars  \* the loops wait for their ticks

Spec == Init /\ [][Next]_vars

-----------------------------------------------------------------------------
(***************************************************************************)
(* Properties.                                                             *)
(***************************************************************************)

\* However many loops record at once, no increment is lost and none is made
\* twice: a counter and the increments still to come are the attempts.
NothingLost ==
    /\ stats.fires + Cardinality(In({"ok_fire", "bad_fire"}))
          = attempts["success"] + attempts["failure"]
    /\ stats.failures + Cardinality(In({"bad_fire", "failure"}))
          = attempts["failure"]
    /\ stats.skips + Cardinality(In({"skip"})) = attempts["skip"]
    /\ stats.paused + Cardinality(In({"pause"})) = attempts["pause"]

\* "Exactly once per Degraded transition", also when two loops find the
\* budget spent at the same time or a success clears the flag between them.
HookPerTransition == rises = hooks + Cardinality(In({"hook"}))

\* Budget and flag agree at rest, unless two loops have crossed: a write of
\* consecutive came between another loop's writes of consecutive and of
\* degraded.  Only then may a job stay Degraded after a success, or be
\* healthy with its budget spent.
Spent == stats.consecutive > 0 /\ stats.consecutive >= failure_budget
FlagMatchesBudget == Settled /\ ~crossed => (stats.degraded <=> Spent)
=============================================================================
