----------------------------- MODULE JobRunner -----------------------------
(***************************************************************************)
(* The per-job loop of src/src/runner.rs.  Every job is one tokio task:    *)
(* it subscribes to the shutdown signal, optionally fires at start, then   *)
(* parks in a select! between the signal and its next tick, fires through  *)
(* the leader gate and the circuit breaker, and records the outcome one    *)
(* atomic at a time.  Time is left out here (module Schedule has it): a    *)
(* parked loop may wake at any moment.                                     *)
(*                                                                         *)
(* A task only loses control at an await that really waits: before its     *)
(* first poll, in the select!, in a lease call and while the closure's     *)
(* future is pending.  An abort takes effect at such a point, and not      *)
(* before it.                                                              *)
(***************************************************************************)
EXTENDS JobLedger

CONSTANTS
    Jobs,                 \* the registered runners
    Specs,                \* the JobSpec settings a job may be registered with
    LeaseAnswers,         \* what the lease may answer; {TRUE} is MemoryLease
    PanicSites,           \* where user code may panic: body, future, hook
    BreakerTimesOut,      \* whether the breaker's timeout feature is unified in
    LateReceiverNotices,  \* whether a receiver made after the signal sees it
    TripAfter,            \* breaker: consecutive failures that open it
    SuccessThreshold,     \* breaker: probe successes that close it
    ConsecutiveRange,     \* 2^32: AtomicU32 wraps at it
    MaxAttempts           \* bound: scheduled attempts explored per job

\* A name is its rank among all strings; two jobs may have the same.
JobSpecs == [name : Nat, failure_budget : Nat, leader : BOOLEAN,
             fire_at_start : BOOLEAN, drain_pass : BOOLEAN,
             use_breaker : BOOLEAN, on_degraded : BOOLEAN]

ASSUME SpecsAssumption ==
    \A s \in Specs : s \in JobSpecs /\ s.failure_budget < ConsecutiveRange
ASSUME EnvironmentAssumption ==
    /\ LeaseAnswers \subseteq BOOLEAN
    /\ PanicSites \subseteq {"body", "future", "hook"}
    /\ BreakerTimesOut \in BOOLEAN
    /\ LateReceiverNotices \in BOOLEAN
ASSUME NumbersAssumption ==
    /\ TripAfter \in Nat \ {0}
    /\ SuccessThreshold \in Nat \ {0}
    /\ ConsecutiveRange \in Nat \ {0}
    /\ MaxAttempts \in Nat

VARIABLES
    spec,       \* JobSpec of each runner, fixed at registration
    shutdown,   \* the ShutdownGuard's flag
    aborted,    \* JoinSet::abort_all was called, or the JoinSet dropped
    pc,         \* where each loop is
    site,       \* which call of fire it is in: start, tick or drain
    notices,    \* whether the loop's watch receiver will report the signal
    outcome,    \* FireOutcome of the fire being recorded
    stats,      \* struct Stats
    brk,        \* the per-job circuit breaker (external crate)
    history,    \* reference: how every attempt ended, in order
    calls,      \* reference: invocations of the closure
    hooks       \* reference: invocations of on_degraded

envVars == <<spec, shutdown, aborted>>
refVars == <<history, calls, hooks>>
vars == <<spec, shutdown, aborted, pc, site, notices, outcome, stats, brk,
          history, calls, hooks>>

(***************************************************************************)
(* Where a loop can be.  The Recording locations are the gaps between two  *)
(* atomic writes of fire(); nothing is awaited there.                      *)
(***************************************************************************)
Awaiting == {"spawned", "select", "gate", "running"}
Recording == {"ok_fires", "ok_reset", "ok_clear", "bad_fires", "bad_failures",
              "bad_budget", "bad_swap", "bad_hook", "bad_error"}

\* done: returned its summary.  aborted/abandoned: cancelled while parked /
\* inside a fire.  crashed: a panic of the closure body unwound the task.
\* hook_panic: a panic of the on_degraded hook did.
Ended == {"done", "aborted", "abandoned", "crashed", "hook_panic"}
Locations == Awaiting \cup Recording \cup Ended \cup {"invoke", "finish"}

Breakers == [state : {"Closed", "Open", "HalfOpen"}, fails : Nat, wins : Nat,
             total : Nat]
StatsRecords == [fires : Nat, failures : Nat, skips : Nat, paused : Nat,
                 consecutive : Nat, degraded : BOOLEAN, last_error : Messages]

TypeOK ==
    /\ spec \in [Jobs -> Specs]
    /\ shutdown \in BOOLEAN
    /\ aborted \in BOOLEAN
    /\ pc \in [Jobs -> Locations]
    /\ site \in [Jobs -> {"start", "tick", "drain"}]
    /\ notices \in [Jobs -> BOOLEAN]
    /\ outcome \in [Jobs -> Ran]
    /\ stats \in [Jobs -> StatsRecords]
    /\ brk \in [Jobs -> Breakers]
    /\ history \in [Jobs -> Seq(Outcomes)]
    /\ calls \in [Jobs -> Nat]
    /\ hooks \in [Jobs -> Nat]

-----------------------------------------------------------------------------
(***************************************************************************)
(* The circuit breaker, an external crate: closed until TripAfter          *)
(* consecutive failures (or earlier, when its failure rate says so), open  *)
(* until its wait elapses, then half-open: a failed probe reopens it,      *)
(* enough successful ones close it.                                        *)
(***************************************************************************)
NewBreaker == [state |-> "Closed", fails |-> 0, wins |-> 0, total |-> 0]

OnSuccess(b) ==
    IF b.state = "HalfOpen" /\ b.wins + 1 < SuccessThreshold
    THEN {[b EXCEPT !.wins = @ + 1]}
    ELSE {[b EXCEPT !.state = "Closed", !.fails = 0, !.wins = 0]}

OnFailure(b) ==
    {[state |-> "Open", fails |-> 0, wins |-> 0, total |-> b.total + 1]}
    \cup
    IF b.state = "Closed" /\ b.fails + 1 < TripAfter
    THEN {[b EXCEPT !.fails = @ + 1, !.total = @ + 1]}
    ELSE {}

\* Mutant: a bare catch_unwind leaves job errors in the Ok position.
BreakerSlotBare(r) == IF r \in Failed \ {"err"} THEN "Err" ELSE "Ok"

\* What the operation handed to breaker.call returns for a job outcome:
\* errors and caught panics go to the Err slot.
BreakerSlot(r) == IF r \in Failed THEN "Err" ELSE "Ok"

AfterCall(b, r) ==
    IF BreakerSlot(r) = "Err" THEN OnFailure(b) ELSE OnSuccess(b)

\* The breaker's open wait elapses.
CoolDown(j) ==
    /\ brk[j].state = "Open"
    /\ brk' = [brk EXCEPT ![j].state = "HalfOpen"]
    /\ UNCHANGED <<envVars, pc, site, notices, outcome, stats, refVars>>

-----------------------------------------------------------------------------
(***************************************************************************)
(* The loop.                                                               *)
(***************************************************************************)

\* Call fire(): leader jobs ask the lease first.
EnterFire(j, s) ==
    /\ pc' = [pc EXCEPT ![j] = IF spec[j].leader THEN "gate" ELSE "invoke"]
    /\ site' = [site EXCEPT ![j] = s]

\* Mutant: the drain pass returns into the loop.
AfterFireLoops(j) == "select"

\* Where the loop goes when fire() returns.
AfterFire(j) == IF site[j] = "drain" THEN "finish" ELSE "select"

Goto(j, to) == pc' = [pc EXCEPT ![j] = to]

\* First poll: subscribe to the signal, then fire at once or park.
Start(j) ==
    /\ pc[j] = "spawned"
    /\ notices' = [notices EXCEPT ![j] = ~shutdown \/ LateReceiverNotices]
    /\ \/ spec[j].fire_at_start /\ EnterFire(j, "start")
       \/ ~spec[j].fire_at_start /\ Goto(j, "select") /\ UNCHANGED site
    /\ UNCHANGED <<envVars, outcome, stats, brk, refVars>>

\* The sleep branch of the select!.  The branches are polled in random
\* order, so a due tick may win over a pending signal.
WakeTick(j) ==
    /\ pc[j] = "select"
    /\ Len(history[j]) < MaxAttempts
    /\ EnterFire(j, "tick")
    /\ UNCHANGED <<envVars, notices, outcome, stats, brk, refVars>>

\* The shutdown branch: leave the loop, with one last fire for drain_pass.
ObserveShutdown(j) ==
    /\ pc[j] = "select"
    /\ shutdown /\ notices[j]
    /\ \/ spec[j].drain_pass /\ EnterFire(j, "drain")
       \/ ~spec[j].drain_pass /\ Goto(j, "finish") /\ UNCHANGED site
    /\ UNCHANGED <<envVars, notices, outcome, stats, brk, refVars>>

\* The leader gate: renew and acquire are folded into the lease's answer
\* (module LeaderLease has the protocol).
Gate(j) ==
    /\ pc[j] = "gate"
    /\ \/ /\ TRUE \in LeaseAnswers
          /\ Goto(j, "invoke")
          /\ UNCHANGED <<stats, history>>
       \/ /\ FALSE \in LeaseAnswers
          /\ stats' = [stats EXCEPT ![j].skips = @ + 1]
          /\ history' = [history EXCEPT ![j] = Append(@, "skip")]
          /\ Goto(j, AfterFire(j))
    /\ UNCHANGED <<envVars, site, notices, outcome, brk, calls, hooks>>

\* Mutant: a paused attempt counts among the skips.
PauseAsSkip(j) ==
    /\ pc[j] = "invoke"
    /\ spec[j].use_breaker
    /\ brk[j].state # "Closed"
    /\ stats' = [stats EXCEPT ![j].skips = @ + 1]
    /\ history' = [history EXCEPT ![j] = Append(@, "paused")]
    /\ Goto(j, AfterFire(j))
    /\ UNCHANGED <<envVars, site, notices, outcome, brk, calls, hooks>>

\* The breaker refuses: open, or half-open with no probe slot.
Pause(j) ==
    /\ pc[j] = "invoke"
    /\ spec[j].use_breaker
    /\ brk[j].state # "Closed"
    /\ stats' = [stats EXCEPT ![j].paused = @ + 1]
    /\ history' = [history EXCEPT ![j] = Append(@, "paused")]
    /\ Goto(j, AfterFire(j))
    /\ UNCHANGED <<envVars, site, notices, outcome, brk, calls, hooks>>

\* job(ctx): the body of the closure runs before there is a future for
\* catch_unwind to wrap, so a panic in it unwinds the whole task.
Invoke(j) ==
    /\ pc[j] = "invoke"
    /\ spec[j].use_breaker => brk[j].state # "Open"
    /\ calls' = [calls EXCEPT ![j] = @ + 1]
    /\ \/ Goto(j, "running")
       \/ "body" \in PanicSites /\ Goto(j, "crashed")
    /\ UNCHANGED <<envVars, site, notices, outcome, stats, brk, history, hooks>>

Results(j) ==
    {"ok", "err"}
    \cup (IF "future" \in PanicSites THEN {"panic"} ELSE {})
    \cup (IF BreakerTimesOut /\ spec[j].use_breaker THEN {"timeout"} ELSE {})

\* The closure's future resolves, panics or is timed out; the breaker
\* takes note of it in the same poll.
Resolve(j) ==
    /\ pc[j] = "running"
    /\ \E r \in Results(j) :
        /\ outcome' = [outcome EXCEPT ![j] = r]
        /\ history' = [history EXCEPT ![j] = Append(@, r)]
        /\ Goto(j, IF r \in Failed THEN "bad_fires" ELSE "ok_fires")
        /\ \/ /\ spec[j].use_breaker
              /\ \E b \in AfterCall(brk[j], r) : brk' = [brk EXCEPT ![j] = b]
           \/ ~spec[j].use_breaker /\ UNCHANGED brk
    /\ UNCHANGED <<envVars, site, notices, stats, calls, hooks>>

-----------------------------------------------------------------------------
(***************************************************************************)
(* Recording an outcome: one relaxed atomic operation per step.            *)
(***************************************************************************)
Record(j, at, to) ==
    /\ pc[j] = at
    /\ Goto(j, to)
    /\ UNCHANGED <<envVars, site, notices, outcome, brk, history, calls>>

\* Mutant: only successful fires are counted as fires.
CountFireOnSuccess(j) ==
    /\ \/ /\ Record(j, "ok_fires", "ok_reset")
          /\ stats' = [stats EXCEPT ![j].fires = @ + 1]
       \/ Record(j, "bad_fires", "bad_failures") /\ UNCHANGED stats
    /\ UNCHANGED hooks

CountFire(j) ==
    /\ \/ Record(j, "ok_fires", "ok_reset")
       \/ Record(j, "bad_fires", "bad_failures")
    /\ stats' = [stats EXCEPT ![j].fires = @ + 1]
    /\ UNCHANGED hooks

ResetBudget(j) ==
    /\ Record(j, "ok_reset", "ok_clear")
    /\ stats' = [stats EXCEPT ![j].consecutive = 0]
    /\ UNCHANGED hooks

\* Mutant: a success also clears the last error.
ClearDegradedAndError(j) ==
    /\ Record(j, "ok_clear", AfterFire(j))
    /\ stats' = [stats EXCEPT ![j].degraded = FALSE, ![j].last_error = NoError]
    /\ UNCHANGED hooks

ClearDegraded(j) ==
    /\ Record(j, "ok_clear", AfterFire(j))
    /\ stats' = [stats EXCEPT ![j].degraded = FALSE]
    /\ UNCHANGED hooks

CountFailure(j) ==
    /\ Record(j, "bad_failures", "bad_budget")
    /\ stats' = [stats EXCEPT ![j].failures = @ + 1]
    /\ UNCHANGED hooks

\* Mutant: off by one.
OverBudgetStrictly(j, consecutive) == consecutive > spec[j].failure_budget

OverBudget(j, consecutive) == consecutive >= spec[j].failure_budget

\* fetch_add on the AtomicU32, and the comparison with the budget.
SpendBudget(j) ==
    LET consecutive == (stats[j].consecutive + 1) % ConsecutiveRange IN
    /\ Record(j, "bad_budget",
              IF OverBudget(j, consecutive) THEN "bad_swap" ELSE "bad_error")
    /\ stats' = [stats EXCEPT ![j].consecutive = consecutive]
    /\ UNCHANGED hooks

\* Mutant: level-triggered; every failure past the budget calls the hook.
SwapDegradedLevel(j) ==
    /\ Record(j, "bad_swap",
              IF spec[j].on_degraded THEN "bad_hook" ELSE "bad_error")
    /\ stats' = [stats EXCEPT ![j].degraded = TRUE]
    /\ UNCHANGED hooks

\* degraded.swap(true): only the edge calls the hook.
SwapDegraded(j) ==
    /\ Record(j, "bad_swap",
              IF ~stats[j].degraded /\ spec[j].on_degraded
              THEN "bad_hook" ELSE "bad_error")
    /\ stats' = [stats EXCEPT ![j].degraded = TRUE]
    /\ UNCHANGED hooks

\* The hook is user code outside catch_unwind.
CallHook(j) ==
    /\ \/ Record(j, "bad_hook", "bad_error")
       \/ "hook" \in PanicSites /\ Record(j, "bad_hook", "hook_panic")
    /\ hooks' = [hooks EXCEPT ![j] = @ + 1]
    /\ UNCHANGED stats

RecordLastError(j) ==
    /\ Record(j, "bad_error", AfterFire(j))
    /\ stats' = [stats EXCEPT ![j].last_error = Message[outcome[j]]]
    /\ UNCHANGED hooks

\* run_loop returns (module Supervisor keeps the summary it returns).
Finish(j) ==
    /\ Record(j, "finish", "done")
    /\ UNCHANGED <<stats, hooks>>

\* Mutant: an abort does not reach a task inside a fire.
CancelParked(j) ==
    /\ aborted
    /\ pc[j] \in {"spawned", "select"}
    /\ Goto(j, "aborted")
    /\ UNCHANGED <<envVars, site, notices, outcome, stats, brk, refVars>>

\* The abort reaches a task that waits: its future is dropped there.
Cancel(j) ==
    /\ aborted
    /\ pc[j] \in Awaiting
    /\ Goto(j, IF pc[j] \in {"gate", "running"} THEN "abandoned" ELSE "aborted")
    /\ UNCHANGED <<envVars, site, notices, outcome, stats, brk, refVars>>

-----------------------------------------------------------------------------
NewStats == [fires |-> 0, failures |-> 0, skips |-> 0, paused |-> 0,
             consecutive |-> 0, degraded |-> FALSE, last_error |-> NoError]

Init ==
    /\ spec \in [Jobs -> Specs]
    /\ shutdown \in BOOLEAN
    /\ aborted = FALSE
    /\ pc = [j \in Jobs |-> "spawned"]
    /\ site = [j \in Jobs |-> "start"]
    /\ notices = [j \in Jobs |-> FALSE]
    /\ outcome = [j \in Jobs |-> "ok"]
    /\ stats = [j \in Jobs |-> NewStats]
    /\ brk = [j \in Jobs |-> NewBreaker]
    /\ history = [j \in Jobs |-> <<>>]
    /\ calls = [j \in Jobs |-> 0]
    /\ hooks = [j \in Jobs |-> 0]

\* ShutdownGuard::shutdown, called by the host.
Signal ==
    /\ ~shutdown
    /\ shutdown' = TRUE
    /\ UNCHANGED <<spec, aborted, pc, site, notices, outcome, stats, brk, refVars>>

\* The JoinSet aborts its tasks.
AbortAll ==
    /\ ~aborted
    /\ aborted' = TRUE
    /\ UNCHANGED <<spec, shutdown, pc, site, notices, outcome, stats, brk, refVars>>

RecordStep(j) ==
    \/ CountFire(j)
    \/ ResetBudget(j)
    \/ ClearDegraded(j)
    \/ CountFailure(j)
    \/ SpendBudget(j)
    \/ SwapDegraded(j)
    \/ CallHook(j)
    \/ RecordLastError(j)

LoopStep(j) ==
    \/ Start(j)
    \/ WakeTick(j)
    \/ ObserveShutdown(j)
    \/ Gate(j)
    \/ Pause(j)
    \/ Invoke(j)
    \/ Resolve(j)
    \/ RecordStep(j)
    \/ Cancel(j)

AllEnded == \A j \in Jobs : pc[j] \in Ended

Next ==
    \/ Signal
    \/ AbortAll
    \/ \E j \in Jobs : LoopStep(j) \/ Finish(j) \/ CoolDown(j)
    \/ AllEnded /\ UNCHANGED vars

Spec == Init /\ [][Next]_vars

-----------------------------------------------------------------------------
(***************************************************************************)
(* Properties.  A job is settled when it is not between two writes of     *)
(* fire(): its counters then describe exactly the attempts made so far.    *)
(***************************************************************************)
Settled(j) == pc[j] \notin Recording

\* Every attempt is counted once, under its own counter: fires are the
\* invocations that resolved, failures those that failed, skips the
\* leader-gated ones, paused the ones the breaker refused (fire()).
CountersMatchHistory ==
    \A j \in Jobs : Settled(j) =>
        /\ stats[j].fires = Count(history[j], Ran)
        /\ stats[j].failures = Count(history[j], Failed)
        /\ stats[j].skips = Count(history[j], {"skip"})
        /\ stats[j].paused = Count(history[j], {"paused"})

\* The failure budget of fire(): the AtomicU32 holds the failures since the
\* last success, modulo its width, and the job is Degraded exactly while
\* they reach the budget, also after the counter has wrapped.  Skipped and
\* paused attempts leave both alone.
BudgetMatchesHistory ==
    \A j \in Jobs : Settled(j) =>
        /\ stats[j].consecutive = Streak(history[j]) % ConsecutiveRange
        /\ stats[j].degraded <=>
               Streak(history[j]) >= Threshold(spec[j].failure_budget)

\* on_degraded runs exactly once per transition to Degraded, for every
\* sequence of outcomes, and never for a job without a hook.
HookOncePerDegradation ==
    \A j \in Jobs : Settled(j) =>
        hooks[j] = IF spec[j].on_degraded
                   THEN Cardinality(Degradations(history[j],
                                                 spec[j].failure_budget))
                   ELSE 0

\* last_error is the message of the most recent failure, and a success, a
\* skip or a pause does not erase it.  A hook that panicked is the
\* exception: it unwinds fire() before record_last_error.
LatestErrorKept ==
    \A j \in Jobs : Settled(j) /\ pc[j] # "hook_panic" =>
        IsLatestError(history[j], stats[j].last_error)

\* The fires reported are the closure's own invocations: none fabricated,
\* and at most one lost, the one in flight when the task was unwound by the
\* closure body or cancelled.
EveryCallCounted ==
    \A j \in Jobs : Settled(j) =>
        /\ pc[j] \in {"running", "crashed"} => calls[j] = stats[j].fires + 1
        /\ pc[j] = "abandoned" => calls[j] - stats[j].fires \in {0, 1}
        /\ pc[j] \notin {"running", "crashed", "abandoned"}
              => calls[j] = stats[j].fires

\* Job errors, caught panics and timeouts all reach the breaker as
\* failures, and a paused or skipped attempt does not: while the breaker is
\* closed it counts the same streak as the failure budget does, so a closed
\* breaker bounds the streak, and its metrics agree with the job's.
BreakerSeesTheFailures ==
    \A j \in Jobs : spec[j].use_breaker =>
        /\ brk[j].total = Count(history[j], Failed)
        /\ brk[j].state = "Closed" => /\ brk[j].fails = Streak(history[j])
                                      /\ Streak(history[j]) < TripAfter

\* A loop returns only after it observed the signal, and a drain_pass job
\* only after its final fire.
ReturnsAfterDrain ==
    \A j \in Jobs : pc[j] = "done" =>
        shutdown /\ (spec[j].drain_pass <=> site[j] = "drain")

\* The drain pass is the last fire: no scheduled fire follows it.
DrainPassIsFinal ==
    [][\A j \in Jobs : site[j] = "drain" => site'[j] = "drain"]_vars

\* Both: whichever branch of the select! wins, and whatever the fire in
\* progress comes to, a loop leaves by the signal, through the drain pass if
\* it has one, and by nothing after it.
DrainPassIsLast == []ReturnsAfterDrain /\ DrainPassIsFinal

\* What README.md says of panics: the supervisor outlives buggy jobs.  No
\* panic of the closure takes its loop down.
LoopsOutlivePanics == \A j \in Jobs : pc[j] # "crashed"
=============================================================================
