# worker-kit in TLA+

A TLA+ model of `worker-kit`, a Rust crate that runs an application's
background jobs: a `WorkerSupervisor` owns a set of registered jobs, gives each
one a tokio task with a schedule, a failure budget, an optional circuit breaker
and an optional leader gate, and drains them all when the host signals
shutdown. The modules are translated from `src/src/*.rs`; TLC checks them on
small instances and TLAPS proves the central results for every instance.

- [The system](#the-system)
- [The modules and the code](#the-modules-and-the-code)
- [What the runs check](#what-the-runs-check)
- [Bounds](#bounds)
- [Fairness](#fairness)
- [What is proved](#what-is-proved)
- [Where code and documentation disagree](#where-code-and-documentation-disagree)
- [What is not modelled](#what-is-not-modelled)
- [Plan](#plan)

## The system

| Component | State it keeps | Operations | What makes it correct |
|---|---|---|---|
| Job loop (`runner.rs`: `run_loop`, `fire`, `invoke*`) | `Stats`: six atomics and a mutex-guarded message; `leader_held`; the breaker; the loop's watch receiver | subscribe, fire at start, select between signal and tick, gate, invoke, record, drain pass, return | every attempt counted once under its own counter; Degraded exactly while the failures since the last success reach the budget; the hook once per transition; loops survive their jobs |
| Supervisor (`supervisor.rs`: `run`) | the `JoinSet`, the summary slots | spawn, park, join, cap, abort, fill, sort, return | no job vanishes from the report; a finished loop is reported exactly; `run` returns after a signal whatever the jobs do |
| Leader gate and leases (`runner.rs` `fire`, `leader/mod.rs`, `leader/redis_lease.rs`) | the Redis key and its TTL; `leader_held` per job; the holder id per supervisor | renew, acquire, fall back, skip | two supervisors do not run leader jobs at once; a lapsed or dead leader is replaced |
| Schedule (`trigger.rs`, `run_loop`) | the next tick (wall clock), the sleep (monotonic clock) | next tick, jitter, sleep, coalesce, park | never stacked, no drift, never early, and a clock put back costs no more than the time it was put back |
| One runner under several loops (`run` called again on the `Arc`) | the same `Stats` | the writes of `fire`, interleaved | no count lost, one hook per transition, flag and budget agree |
| Live status (`status`, `breaker_state`, `breaker_metrics`) | none | read counters field by field, sort by name, look a job up by name | advisory; see [below](#where-code-and-documentation-disagree) for what it may show |
| Registration and setters (`register`, `jitter`, `lease`, ...) | the vector of runners and the settings each copied | validate, copy, push | the configuration of the supervisor applies to every job (a later setter does not reach earlier jobs); a refused spec leaves nothing behind and a job that is accepted can be scheduled |
| Jitter randomness (`rng.rs`, seeds) | a SplitMix64 state per loop | draw, map into the window | draws stay in the window and cover it; workers are decorrelated; a seed reproduces a run (it does not) |
| Memory-pressure watcher (`pressure.rs`) | none but its configuration | check, read, parse, compare, call back, sleep | it reports while pressure lasts and not after; errors do not end it, shutdown does |
| Errors, job types, facade (`error.rs`, `job.rs`, `lib.rs`) | none | conversions | |

How the parts interact. The host builds a supervisor, registers jobs and awaits
`run`, which spawns one task per job. The tasks share nothing with each other,
unless the host calls `run` again on the same `Arc`, which puts a second loop on
every job, and except that leader jobs of *all* supervisors share one Redis key and that every
job of a supervisor uses its holder id. The `ShutdownGuard` reaches the loops
through a watch channel and `run` through a wait; after it, `run` joins the
tasks with `join_next` for at most `drain_cap`, aborts the rest and reads the
counters of whatever did not return a summary - while, on a multi-threaded
runtime, an aborted task that is inside a poll may still be writing them.

What is hard about it: user code (closure body, closure future, hook) may
panic at three places with three different outcomes; a fire's record is up to
seven separate atomic writes that readers may fall between; aborts take effect
only where a task waits; the `select!` is unbiased; a lease call may be lost on
either side of its execution and executed late; `leader_held` is a cached
belief; the schedule lives on the wall clock and the sleep on the monotonic
one, which may be set either way while a loop sleeps; settings are copied when a
job is registered; and the counters have widths. `PROJECT.json` lists each of these under
`hazards`, at its line.

## The modules and the code

    JobLedger      what the counters mean, as functions of an attempt history
      JobRunner    the job loop, all jobs side by side
        JobRunnerProofs        types, counters, budget, hook, breaker, drain
        Supervisor run() around the loops          --implements--> RunContract
          SupervisorProofs     the report, the contract (uses JobRunnerProofs)
    LeaderLease    the leader gate over Redis, several supervisors
                                                   --implements--> Leadership
      LeaderLeaseProofs
    Schedule       the timing of one loop, for any delay in the jitter window
      ScheduleProofs
    Jitter         the generator of those delays, and its seeds
      JitterProofs
    SharedRunner   the counters of one job under several loops
      SharedRunnerProofs
    Registration   setters, register and run
      RegistrationProofs
    Pressure       the memory-pressure watcher
      PressureProofs
    MC*            instances of the above for TLC

**JobLedger.** Not code but the reference the code is compared with: `Count`,
`Streak` (failures no later success has wiped out; skips and pauses neither
extend nor break it), `Degradations` and `IsLatestError` over the sequence of
an attempt's endings. Only `Failed`, `Ran`, `Outcomes`, `Message` and
`Threshold` translate lines of `runner.rs`.

**JobRunner** (`runner.rs` 38-379). Each job has a location `pc`; a location is
an await that really waits (`spawned`, `select`, `gate`, `running`), a gap
between two writes of `fire` (`ok_*`, `bad_*`) or an end.

| Action | Code |
|---|---|
| `Start` | first poll of `run_loop`: `watch_receiver()`, `fire_at_start` |
| `WakeTick`, `ObserveShutdown` | the two branches of the `select!` (either may win when both are ready), then the drain pass |
| `Gate` | the `leader` block of `fire`; `LeaseAnswers = {TRUE}` is `MemoryLease` |
| `Pause` | `CircuitOpen` / `Rejected`, `FireOutcome::Paused` |
| `Invoke` | `job(ctx)`: the closure body, evaluated outside `catch_unwind` |
| `Resolve` | the future resolves, panics (caught) or is timed out by the breaker; the breaker's bookkeeping happens in the same poll |
| `CountFire`, `ResetBudget`, `ClearDegraded` | the three writes after a success |
| `CountFire`, `CountFailure`, `SpendBudget`, `SwapDegraded`, `CallHook`, `RecordLastError` | the writes after a failure, with the `AtomicU32` width in `SpendBudget` and the hook's own panic in `CallHook` |
| `Finish` | `run_loop` returns |
| `Signal`, `AbortAll`, `Cancel`, `CoolDown` | `ShutdownGuard::shutdown`, `JoinSet::abort_all`, an abort reaching a task that waits, the breaker's open wait elapsing |

The breaker is an external crate, modelled from what `invoke_through_breaker`
relies on: closed until a run of failures (or, nondeterministically earlier, a
failure rate) opens it, open until its wait elapses, half-open with probes.
`BreakerTimesOut` says whether its additive `timeout` feature was unified in by
another dependent. `history`, `calls` and `hooks` are reference variables that
no action reads, except for the bound on `WakeTick`.

**Supervisor** (`supervisor.rs` 312-356) adds `run`'s own steps: `StopParking`,
`JoinNext` (a loop that unwound is a `JoinError` and leaves its slot empty),
`DrainCompletes` / `DrainCapExpires`, and the final pass, where `ReadField`
reads one counter at a time while loops still move, `KeepSlot`, `FillSlot`, and
`MakeReport` with the stable sort and the drop of the `JoinSet`. The sort is
stated by its outcome: an entry's `Place` is one more than the number of entries
that go before it, by name and, among equals, by index.

**RunContract** is what `run` promises, without a loop in sight: counters only
grow, there is one report, after the drain has closed, and every number in it
lies between what the job had recorded when the drain closed and what it has
recorded when `run` returns. `Supervisor` implements it through the mapping at
the end of the module.

**LeaderLease** (`runner.rs` 247-267, `leader/redis_lease.rs` 11-75). A lease
call is three events: sent, executed by the server (`ExecuteRenew`,
`ExecuteAcquire`), answered (`Elected`, `FallBack`, `Skip`). `LoseRequest` and
`LoseReply` are the two places where `is_ok_and` turns a failed call into
`false`; a request given up on may still be executed (`ExecuteLate`).
`Restart` replaces a supervisor by one with another holder id. Time is the
countdown of the key's TTL and of `granted`, a reference variable that says for
how long each job may rely on what it was last granted.

**Leadership** is what the gate promises, without keys, calls or holder ids:
`Elect` gives a job an election that lasts `TTL` units, only while no job of
another supervisor has one that lasts; the job begins its closure once for it or
never learns of it; elections run out with time and end with their supervisor.
`LeaderLease` implements it through the mapping at its end: an election is an
answer `true` on its way to the job, its term what is left of the grant.

**Schedule** (`trigger.rs` 34-147, `runner.rs` 197-233 and 380-414). One loop on
two clocks: ticks are wall-clock instants, the sleep ends at a monotonic
deadline computed when it starts (`std_instant_at`). `Complete` is the end of a
fire with the coalescing rule; `Wake` may be late; `StepClock` sets the wall
clock forward or back. `Slumber` ends the loop when an instant does not fit a
`SystemTime`, as the two unchecked additions do. The jitter is any value of its
window, which covers every generator and seed. No time passes between a fire's
completion and the top of the loop, and its readings of the two clocks are one.
Left out are the two fallbacks of `std_instant_at` to *now*: with a deadline
before the first `Instant` it makes no difference, since either has passed, and
a deadline after the last one takes a wall clock that reads less than the
uptime.
`back`, `mark` and `owed` are reference variables: by how much the clock was put
back in all, until the loop went to sleep, and in the cycle before that sleep.

**Jitter** (`rng.rs` 10-63, `trigger.rs` 105-194, `runner.rs` 185-196).
SplitMix64 on words of `Width` bits, with its multipliers and shifts as
constants of which only what the algorithm needs is assumed (odd, not zero). The
exclusive or is a constant operator with its laws (`XorAssumption`, and
`ShiftAssumption` for shifts to the right), which `MCJitter` gives as the bitwise
one.
`Begin` computes the seed of a loop: the supervisor's, or the scrambled clock,
xored with a hash of the job's name whose keys are fresh for every loop, so any
value. `Draw` is `JitterPolicy::jitter` with the casts of `random_range`;
`NoDraw` its early return, `Unwind` the panic of `mul_f64` on a product that is
no duration. That product is exact in the model and a rounded `f64` in the
code; they differ only for a fraction of one and a gap within rounding of
`Duration::MAX`. `Policies` are the fractions `JitterPolicy::new` makes and those a
literal may hold, NaN and the infinities included.

**SharedRunner** (`runner.rs` 51-63 and 243-305). Several loops on the `Stats`
of one job. `at` is the write a loop makes next for the attempt it records
(`Record`); a write is one action, and two of them branch: `SpendBudget` on the
value `fetch_add` returned, `SwapDegraded` on the value `swap` returned. A hook
that panics (`CallHook`) ends its loop. The module is smaller than `JobRunner`,
which has the rest of the loop and one loop per job: here it matters that the
accesses are atomic read-modify-writes.

**Registration** (`supervisor.rs` 173-268 and 312-320, `error.rs` 9-24 and
78-101, `trigger.rs` 70-84, `runner.rs` 65-111). The six setters, `register`
with its two refusals and `run`, called in any order: a host may keep its `Arc`,
and configure the supervisor further once a run is over. `log`, a reference
variable, keeps the calls; a runner's `call` is its place in it. A name is a
sequence of characters, so that the length and the alphabet are those of the
code.

**Pressure** (`pressure.rs` 61-187). The watcher does not await between two
sleeps, but the flag and the file belong to others, so `Check`, `Read`, `Call`
and `Report` are separate steps. `SetShutdown` and `SetFile` come between any
two of them. `parse_some` works on lines whose fields are already split.

## What the runs check

Passing runs (times with two workers):

| Run | Shows | Distinct states |
|---|---|---|
| `job_loop` | One job under all combinations of its settings, a panic at each site, skips, pauses, timeouts, shutdown and abort at each await. Counters match the history (`CountersMatchHistory`), the budget is exact across wrap and at zero (`BudgetMatchesHistory`), the hook runs once per transition (`HookOncePerDegradation`), the last error survives successes (`LatestErrorKept`), invocations are neither invented nor lost (`EveryCallCounted`), the breaker counts the same failures (`BreakerSeesTheFailures`), a loop returns only after the signal and its drain pass, which is its last fire (`DrainPassIsLast`). | 2.5 million, 1 min |
| `report` | Two jobs, registered in either order or under one name, drained under a cap that may expire anywhere. The report is complete and ordered (`ReportComplete`), exact for loops that had ended, by whichever path their entry came (`ReportExact`), and `run` implements `RunContract` (`ImplementsContract`). | 0.8 million, 1 min |
| `drain_liveness` | One job with every kind of attempt, whose receiver misses a signal given before it was made. After a signal `run` returns even when the closure or the lease call hangs for ever (`RunReturns`), abandoned tasks end (`StragglersEnd`), and the report is exact under skips and pauses too (`ReportExact`). | 0.3 million, 1 min |
| `lease` | Two supervisors with a leader job each, a lost or late call, one restart each: a leader is alone while its TTL lasts (`SoleLeaderWithinTTL`); some leader job always runs again (`LeadershipRecovers`); the lease of a dead supervisor goes away, even if a request of it is executed after its death (`DeadLeaderReplaced`); and the gate implements `Leadership` (`KeepsTheGate`). | 0.1 million |
| `schedule` | Interval and cron triggers, runs of any length, any jitter, late polls, the wall clock put forward and back: no more fires than ticks (`NeverStacked`), no backlog, and no sleep longer than the jittered gap plus what the clock was put back in the cycle before (`SleepBounded`), no drift until a run outlasts its gap (`NoDrift`), no fire before its tick (`NeverEarly`), and no overflow but for intervals that do not fit twice before the last instant (`OnlyHugeIntervalsUnwind`). | 4.4 million, 1 min |
| `jitter` | Two loops over a whole period of the generator, with gaps of nothing, of a word and beyond, and fractions that are negative, NaN, infinite and above one: a delay is never outside its window (`DelayWithinWindow`), nothing asked of `JitterPolicy::new` ends a loop (`ClampedNeverPanics`), each delay of a window comes up over a period, its two ends included (`EveryDelayDrawn`), and loops that differ in their hash or their clock reading alone never draw the same bits for the same wait (`NeverInStep`). | 0.4 million |
| `registration` | Every sequence of five calls of setters, `register` and `run`, with names and triggers that are refused: a run spawns the sound jobs registered before it, in order, and no other (`RunsTheSoundJobs`). | 2.2 million up to symmetry, 1 min |
| `shared_runner` | Three loops on one job, six attempts, a hook that may panic: no increment lost or made twice (`NothingLost`), one hook per rise of the flag (`HookPerTransition`), and flag and budget agree at rest unless one loop wrote the budget between another's two writes (`FlagMatchesBudget`). | 44 thousand up to symmetry |
| `pressure` | A file that is missing, empty, spoiled, below, at and above the threshold, changed between any two steps: at most one call after the flag is set and at most one for a pressure that is gone (`AtMostOneCallBehind`), calls for as long as pressure lasts whatever failed before (`PersistentPressureReported`), and an end after the flag is set (`StopsOnShutdown`). | 10 thousand |

Each module states the types of its variables in a `TypeOK` (`SupTypeOK`), which
the proofs establish as a theorem of its own (`JobRunner`, `Supervisor`,
`LeaderLease`, `Registration`) or within the inductive invariant; the runs leave
them out and spend their properties on behaviour.

Three runs are expected to end in a violation; see
[below](#where-code-and-documentation-disagree).

Every property of a passing run has a mutant in `PROJECT.json`: a variant of
one mapped definition, defined just before it and marked `Mutant`, under which
TLC must find the property violated.

## Bounds

| Bound | Value | Why it is enough |
|---|---|---|
| `MaxAttempts` | 4 (1 in the supervisor runs, whose jobs fire at start or in the drain) | With budgets 0..2 four scheduled attempts reach degradation, recovery and a second degradation, and a counter wrap; start and drain fires come on top. |
| `ConsecutiveRange` | 3 | Stands for 2^32. It only has to exceed the largest budget, which is what the width guarantees in the code. |
| `TripAfter`, `SuccessThreshold` | 2 | The breaker opens after more than one failure and closes after more than one probe. Opening early by failure rate is always possible. |
| jobs | 1, or 2 in `report` | Loops share nothing inside a supervisor but the signal and the abort; two are needed for the order of entries and a mixed drain. |
| `TTL` | 2 | A lease can be fresh, about to expire, expired. |
| `MaxFaults`, `MaxRestarts` | 1, 1 per supervisor | The proofs of the safety properties cover any number of both, and of leader jobs per supervisor. |
| `Horizon`, `MaxSkew` | 10, 4 | Several periods of the short triggers, and clock steps past a whole period, two of them back. |
| `LastInstant` | 40 | Beyond what the short triggers reach; intervals of 15, 29 and 41 fit twice before it, once, and not at all. |
| `MaxCalls` | 5 | Set, register, set, register under the same name, run. Two values per setting tell the last from the first. |
| `MaxAttempts` of `SharedRunner` | 6, budget 2, three loops | Two failures, a success across them, and as much again: a second rise of the flag. The loops are symmetric. |
| `DurationMax` | 70 | A literal fraction of two overflows it for the largest gap. |
| `Width` | 4 | A word is small enough to run through its whole period; the case where the window is a full word is reached. |
| `MaxChanges` | 3 | The file can show pressure, lose it or fail, and show it again within one poll. |
| `Park` | 3 | Stands for the minute of `SCHEDULE_PARK`. |

`exhausted_cron` keeps the clock steady, so that nothing else can explain its
fires.

## Fairness

`FairSupSpec`: the host keeps polling `run` (and the drain cap's timer is part
of it), and the runtime keeps polling a task that is not waiting. Nothing is
assumed of a task that waits: ticks, lease answers and closures may never come.
Cancellation is strongly fair, since an aborted task is dropped the next time it
waits, however briefly. `LateReceiverNotices` is an assumption about
`shutdown-kit` (a receiver created after the signal still reports it).
`RunReturns` does not depend on it, because of the cap: `drain_liveness` is run
without it.

`FairSpec` of `LeaderLease`: each schedule keeps ticking, each call is answered
or fails, each closure returns, time passes. No fairness is given to faults,
late requests or restarts.

`FairSpec` of `Pressure`: the runtime polls the watcher and its timer, and the
host's callbacks return. A callback may panic, which ends the watcher.

`MCJitter.cfg` does not check for deadlock: a loop stops drawing after a whole
period, which is a bound of the model.

## What is proved

All proofs hold for any set of jobs, specs, supervisors, leader jobs and loops
on one runner, and any number of attempts, faults and restarts.

- `TypeCorrect`: `Spec => []TypeOK` for the job loop. `TypeOK` is not inductive:
  `RecordLastError` looks the message of `outcome` up, which is only there if
  the outcome is a failure. The invariant proved is `Typed`, `TypeOK` together
  with `RecordsAFailure` (a loop on the failure path holds a failure).
- `CountersCorrect`, `CallsCounted`: the two counter
  properties of `job_loop`. The properties speak about settled jobs; the
  inductive invariant `Tallied` says at *every* location by how much each
  counter lags behind the history, and its conjuncts follow from one lemma on
  histories (`CountAppend`: appending an attempt adds one to the count of the
  sets it belongs to). Each action then moves the location and one side of one
  equation. `OthersUnchanged` reduces a step to the job that takes it.
- `BudgetCorrect`: `BudgetInv` says for each location what `fire` has written of
  the budget so far, in terms of the failures in a row (`Streak`). Two lemmas
  carry it: `StreakAppend`, on what one attempt adds, and `SpendLemma`, on the
  counter. The counter wraps, and the code compares the wrapped value with the
  budget; this is sound because a counter that has wrapped below the budget
  belongs to a job that is Degraded already, and nothing but a success clears
  the flag. It needs that a budget fits the counter's type.
- `HookOnce`: `HookInv` counts the calls of the hook against the attempts at
  which the streak reached the budget (`DegradationsAppend`), less one between
  the failure and the call.
- `BreakerCorrect`: `BreakerSeesTheFailures` is inductive as it stands.
- `ErrorKept`: `ErrorInv` adds that on the failure path the message to be
  written is the one of the attempt just appended.
- `DrainLast` (`DrainObserved`, `DrainFinal`): `DrainInv` adds that the drain
  pass is entered after the signal by jobs that have one, and never left for the
  `select!`.
- `LeaseInvariant`: types and `GrantsBackedByKey`, which is inductive once
  stated for all grants and not only for running jobs: time takes from the key
  and from the grants alike, a grant is only written together with the key, and
  the key of another holder is only written when it has expired, so when no
  grant is left.
- `SoleLeader`: two unexpired grants of two supervisors would be backed by one
  key with two holders.
- `GateKept`: `Spec => KeepsTheGate`, the refinement of `Leadership`. A call that
  the server grants is `Elect`: the key is free or the caller's, so by
  `GrantsBackedByKey` no other supervisor has a grant left. A lost reply is
  `Forget`, `Elected` is `Begin`, and `FallBack` and `Skip` are stutters, because
  only a job that waits for an answer has one (`AnswerAwaited`, the one addition
  to the invariant).
- `NoCountLost`, `OneHookPerTransition`: `Totals` relates each counter and the
  number of loops that have yet to add to it to the attempts. It is inductive
  with the types (`LoopsTyped`) and rests on one lemma, `MovedEach`: a loop
  that moves takes one off the loops at its old location and adds one at its
  new one.
- `FlagAgrees`: `FlagMatchesBudget` speaks about rest. `FlagFollows` says, as
  long as no two loops crossed, that at most one loop is between its writes of
  `consecutive` and `degraded`, that it is about to make the flag agree, and
  that the flag agrees when there is none.
- `FiresNotEarly`: `Timely` says that the time to the tick of a sleeping loop,
  less what the clock was put back in its sleep, is no more than the time to
  its deadline; time takes from both sides alike, a clock put forward from one.
- `SleepsBounded`, `StaysOnGrid`, `IntervalNeverStacked`, `IntervalUnwinds`: one
  invariant of interval jobs, `OnInterval`. Its part `Paced` says that the fires
  made were due by the clock and that the next is for a tick not before its
  place in the grid. `Windows` (a longer gap has a larger window, none larger
  than the gap) bounds the deadline.
- `NoStacking`, `OnlyHugeUnwind`: `NeverStacked` and `OnlyHugeIntervalsUnwind`
  for every job, interval or cron, under the hypothesis `CronGoesOn`: a cron
  schedule still has an instant after the last moment a loop may ask it about,
  and that instant with its window is one the clock can show. The hypothesis is
  needed: an exhausted cron job is stacked (below), and an expression for a far
  year overflows. The invariant `OnCron` says how far the clocks get (`Bounded`),
  and of a cron job (`CronPaced`) that it has not overflowed, that it has made
  no more fires than the schedule has instants up to now, and that the instants
  up to the tick of a sleeping loop have room for one fire more. `PastGrows`
  carries it: the instants up to a moment are finitely many, never fewer later,
  and one more where the later moment is itself an instant. TLC evaluates `CronGoesOn` of
  the cron triggers of `MCSchedule`.
- `DelaysFit`, `ClampSuffices`: `random_range` from the casts up
  (`RandomRangeFacts`: the result is in the window also where the window is as
  wide as a word or wider), the window from the rounding division
  (`WindowFacts`), and the clamp (`ClampedFits`: a fraction between 0 and 1 of a
  gap that is a `Duration` is one).
- `WorkersDecorrelated`, `JitterIsFull`: the invariant
  `JitterInv` gives the state of a loop in closed form: `n` additions of `Gamma`
  to its origin, modulo the word (`OnOrbit`), with the bits and delays drawn in
  terms of it (`Drawn`). The first needs that different
  states give different bits and the second that, over a period, each
  word comes up, by counting (an injection of a finite set into itself is onto).
  Both rest on the steps of the generator losing nothing, for every width.
  `XorShiftInjective`: if two words had the same `x ^ (x >> s)`, their difference
  `d = x ^ y` would be its own shift, `d = d >> s`, so zero, as a shift makes any
  other word smaller; this needs no bits, only the laws of the two operators.
  `OddFactor`: where a power of two divides the product of a number with an odd
  one, it divides the number; the proof takes the smallest power for which that
  fails (`Earliest`). So a product with an odd constant can be undone modulo the
  word (`TimesInjective`).
- `SettingsInTime`, `SoundJobsRun`, `RegistrationTyped`: `RegInv` relates the
  present to the log: each setting is the one set last (`Current`), the runners
  are the sound jobs registered, in order (`Roster`). `LogStep` and `LogAdds` say
  what one more call changes of what was set and registered before a call,
  `RefusalFacts` that `register` takes exactly the sound jobs. `SettingsInTime`
  (`SettingsOfTheirTime`, which no run checks) is what does hold where the docs
  promise a setting to every job: a job keeps what was set last before its
  registration.
- `ImplementsJobRunner`: each step of `run` is a step of the job loops or leaves
  them alone, so the theorems above hold of the jobs of a supervisor, and the
  proofs below may use them.
- `ReportIsComplete`, `ReportIsExact`, `RunTypeCorrect`: the invariant `RunInv`
  has five parts. `SlotInv`: a filled slot belongs to its job; until the drain
  closes it is the summary of a loop that is done, and after it each field is
  `Sound`: as the loop left it if it had ended at the close, a counter no less
  than at the close and no more than now. `ReadInv`: so are the
  fields read so far of the summary being made. `PassInv`: the slots before the
  cursor are filled, and the report is the slots in sorted order. `EndedInv`: a
  loop that is done has returned its summary, one that had ended at the close
  has not moved since (`EndedStays`), and no counter is below what it was at the
  close. `RunTyped`: the types. The report has an entry for each
  job because `Place` is a bijection (`PlaceFacts`).
- `KeepsTheContract`: `SupSpec => ImplementsContract`, the refinement of
  `RunContract`. A step of a loop adds to one counter of one job at most
  (`OneCounter`, `TallyStep`) and takes nothing back (`NothingTakenBack`); the
  end of the drain is `Close`, and the bounds of `ReadInv` make `MakeReport` a
  `Return` (`ContractStep`).
- `CallsBehind` (`LateCalls`, `StaleCalls`): the watcher that has made a call
  after the flag was set, or after the pressure had gone, is on its way to a
  check or a reading that leads to no other (`LateInv`, `StaleInv`).

The assumptions are the `ASSUME`s of the modules: `SpecsAssumption` (a budget is
a `u32`), `EnvironmentAssumption`, `NumbersAssumption`, `NodeOfAssumption`,
`TTLAssumption`, `BoundsAssumption`, `LoopsAssumption`, `TriggersAssumption`,
`FractionAssumption`, `TimesAssumption`, `JobsAssumption`, `SettingsAssumption`,
and for the generator `ParametersAssumption`, `InputsAssumption`,
`PowersAssumption` (a power of two is twice the one before it: the provers know
nothing of exponents), `XorAssumption` and `ShiftAssumption`. They are evaluated
by TLC in every run of their modules, and so is the hypothesis `CronGoesOn` in
the run `schedule`.

So every invariant, every action property and both refinements that the passing
runs check are proved. Only model-checked are the liveness properties
(`RunReturns`, `StragglersEnd`, `LeadershipRecovers`, `DeadLeaderReplaced`,
`PersistentPressureReported`, `StopsOnShutdown`), since fairness is out of the
prover's reach.

## Where code and documentation disagree

| Run | What TLC shows |
|---|---|
| `panic_in_body` | `catch_unwind(AssertUnwindSafe(job(ctx)))` runs the closure body before there is a future to guard. A panic there unwinds the loop, and the job never fires again (`runner.rs:322`; README: "the supervisor outlives buggy jobs"). |
| `acquire_own_lease` | `SET NX` refuses the holder of the key as well, and `leader_held` is per job: a second leader job of the leader, or a leader that lost a reply, is refused until the key expires (`leader/mod.rs:22`). |
| `exhausted_cron` | A schedule without further instants gets a tick `SCHEDULE_PARK` ahead, and the loop fires at it, once a minute for ever (`runner.rs:399`; `trigger.rs:17`: "park the loop ... and re-evaluate"). |

Where the docs promise more than the code keeps, with nothing left to check but
the promise itself, there is no run:

- *Seeds.* The seed of a loop is xored with a hash of the job's name under the
  fresh keys of `RandomState::new()` (`runner.rs:191`), so one job under one
  supervisor seed draws different jitter in every run, against
  `supervisor.rs:195` ("Same seed + same job set = same jitter sequence across
  runs") and `runner.rs:187`. In `Jitter`, `Begin` gives two loops of one seed
  any two hashes.
- *Late setters.* `register` copies the configuration (`supervisor.rs:260`), so
  `breaker_config` called after it does not reach the job, against
  `supervisor.rs:215` ("used for every registered job") and `lib.rs:163`. The
  same goes for `jitter`, `lease` and `lease_ttl`: a leader job registered
  before `lease` is gated by `MemoryLease` and fires everywhere.
- *Twins.* Of two jobs of one name, both with a breaker, `breaker_state` stops
  at the first, and in the map of `breaker_metrics` the last replaces the others
  (`supervisor.rs:302`), against `supervisor.rs:297` ("Every job's breaker
  metrics"). Duplicate names are allowed (`job.rs:86`, which advises against
  them for observability).
- *Torn status.* `status` loads `fires` before `failures` (`runner.rs:138`); a
  fire that fails in between is a failure that is not among the fires, against
  `supervisor.rs:48` ("Completed fires that failed"). A comment on the private
  `Stats` calls the counters advisory (`runner.rs:51`), the public docs speak of
  a snapshot.

Smaller observations that have no run of their own: the lease is checked before
a fire only, so a run longer than the TTL overlaps with the next leader's
(`leader/mod.rs:8` says "not two leaders firing"; `SoleLeaderWithinTTL` is what
does hold); when two loops
share a job, a success that falls between a failure's `fetch_add` and its `swap`
leaves the job Degraded with no failure in a row, and one whose `store(0)` is
followed by enough failures before its `store(false)` leaves it healthy with the
budget spent (drop `~crossed` from `FlagMatchesBudget` to see it); the `select!` is unbiased,
so a tick that is due may win over the signal and start a scheduled fire after
shutdown (`WakeTick`); `run` awaits the signal alone and stays parked when every
loop has unwound, against the comment at `supervisor.rs:322`; the watcher does
not treat `/dev/null` specially but reads it at every poll and reports an error
for each (`pressure.rs:13` says the path "disables the watcher entirely"); a
negative, infinite or NaN `fraction` written into the public field is not clamped
and panics in the loop; `breaker_state` is `None` for a job that opted out of the
breaker, not only for an unknown name, also when a later job of the same name
has one that `breaker_metrics` shows; the doc of
`JobRunSummary.skips` (`supervisor.rs:73`) includes paused attempts, which
`fire` counts under `paused` only; a hook that panics unwinds before
`record_last_error`, so the report has a stale message (the exception in
`LatestErrorKept`); an entry read while its task still writes can show more
failures than fires, like a live status (`RunContract` allows it); with
overflow checks on, the wrap of `consecutive + 1` panics instead; an interval
near the end of `SystemTime`, `Duration::MAX` say, panics in the loop before a
drain pass could run; a lease TTL below a
millisecond becomes `PX 0`.

## What is not modelled

- Error types, conversions, `JobContext`, builder defaults and re-exports
  (`error.rs`, `job.rs`, `lib.rs`): types without behaviour; the settings of
  `JobSpec` are the records in `Specs`.
- The insides of external crates: tokio, `breaker`, `shutdown-kit`, `redis`,
  `cron`. They appear as far as this code depends on them, marked external in
  the map. A cron trigger is the set of its instants; whether an expression
  parses is a fact about the spec.
- The live accessors, `status`, `breaker_state` and `breaker_metrics`: they
  change nothing, and promise nothing across the fields they load.
- The `leader_held` and the breaker of a job with two loops; `SharedRunner` has
  its counters.
- Memory ordering: relaxed atomics are modelled as interleaved. With one loop
  each is written by one task only, with several by atomic read-modify-writes or
  by stores whose order `SharedRunner` explores. `run` reads them after a join or accepts any
  value in between; a reordering of two of the task's writes as seen by a
  concurrent reader is not explored.

## Plan

The components that keep state are modelled and their safety is proved. What is
left:

1. That a signal always leaves `run` or one of its tasks something to do, for
   any number of jobs, which `RunReturns` rests on. It speaks of what is
   enabled, which TLC checks with deadlock detection on.
2. The relation of `Jitter` and `Schedule`: the delays of the one are delays the
   other allows.
3. The `leader_held` and the breaker of a job with two loops.
