---------------------------- MODULE Registration ----------------------------
(***************************************************************************)
(* How a supervisor is put together: its setters and register              *)
(* (src/src/supervisor.rs), with is_valid_name (src/src/error.rs),         *)
(* Trigger::validate (src/src/trigger.rs) and JobRunner::new               *)
(* (src/src/runner.rs).                                                    *)
(*                                                                         *)
(* A host may call setters, register and run in any order, and again after *)
(* a run has returned.  register copies jitter, breaker_config, lease and  *)
(* lease_ttl into the job; seed and drain_cap are read by run.             *)
(***************************************************************************)
EXTENDS Integers, Sequences, FiniteSetsExt

CONSTANTS
    Specs,          \* the job specs a host may register
    NameChars,      \* the characters [a-z0-9_.-], as numbers
    NAME_MAX_LEN,
    Values,         \* the values a setting may be given
    MaxCalls        \* bound: calls a host makes

\* Trigger::Interval, Trigger::Cron, and a Cron that does not parse.
Triggers == {"interval", "cron", "bad_cron"}

\* Of a JobSpec, what registration looks at.
JobSpecs == [name : Seq(Nat), trigger : Triggers, use_breaker : BOOLEAN]

\* The value a setting has before it is set; a runner without a breaker.
Default == 0
NoBreaker == -1

ASSUME SpecsAssumption == \A s \in Specs : s \in JobSpecs
ASSUME SettingsAssumption ==
    /\ NameChars \subseteq Nat
    /\ NAME_MAX_LEN \in Nat
    /\ Values \cap {Default, NoBreaker} = {}
    /\ MaxCalls \in Nat

VARIABLES
    settings,   \* the supervisor's fields, one for each setter
    runners,    \* the jobs registered, in order
    log         \* reference: the calls made, with their outcomes

vars == <<settings, runners, log>>

\* The setters.  A default of None (no lease, no seed) is a Default too.
Copied == {"jitter", "breaker_config", "lease", "lease_ttl"}
ReadByRun == {"seed", "drain_cap"}
Setters == Copied \cup ReadByRun
Given == Values \cup {Default}

\* What a runner keeps: the spec, the jitter, and what with_breaker and
\* with_lease gave it.  For reference, call is the call that made it.
Runners == [spec : Specs, jitter : Given, breaker : Given \cup {NoBreaker},
            lease : Given, lease_ttl : Given, call : Nat]

\* RegisterError
RegisterErrors == {"InvalidName", "InvalidCron"}

\* The calls a host makes.  loops are the jobs of a run, by the calls that
\* registered them.
Calls ==
    [call : Setters, value : Values]
    \cup [call : {"register"}, spec : Specs, result : RegisterErrors \cup {"Ok"}]
    \cup [call : {"run"}, seed : Given, drain_cap : Given, loops : Seq(Nat)]

-----------------------------------------------------------------------------
is_valid_name(name) ==
    /\ name # <<>>
    /\ Len(name) <= NAME_MAX_LEN
    /\ Range(name) \subseteq NameChars

\* Trigger::validate
validate(trigger) == trigger # "bad_cron"

\* Mutant: the trigger is left to the loop.
refusal_late(spec) == IF ~is_valid_name(spec.name) THEN "InvalidName" ELSE "Ok"

\* register's checks, in their order.
refusal(spec) ==
    CASE ~is_valid_name(spec.name) -> "InvalidName"
      [] is_valid_name(spec.name) /\ ~validate(spec.trigger) -> "InvalidCron"
      [] OTHER -> "Ok"

TypeOK ==
    /\ settings \in [Setters -> Given]
    /\ runners \in Seq(Runners)
    /\ log \in Seq(Calls)
    /\ Len(log) <= MaxCalls

\* WorkerSupervisor::new
Init ==
    /\ settings = [s \in Setters |-> Default]
    /\ runners = <<>>
    /\ log = <<>>

Logged(entry) ==
    /\ Len(log) < MaxCalls
    /\ log' = Append(log, entry)

\* The setters seed, jitter, drain_cap, breaker_config, lease, lease_ttl.
Set(s, v) ==
    /\ settings' = [settings EXCEPT ![s] = v]
    /\ Logged([call |-> s, value |-> v])
    /\ UNCHANGED runners

\* JobRunner::new, with_breaker and with_lease.
NewRunner(spec) ==
    [spec |-> spec,
     jitter |-> settings["jitter"],
     breaker |-> IF spec.use_breaker THEN settings["breaker_config"]
                                     ELSE NoBreaker,
     lease |-> settings["lease"],
     lease_ttl |-> settings["lease_ttl"],
     call |-> Len(log) + 1]

register(spec) ==
    /\ runners' = IF refusal(spec) = "Ok" THEN Append(runners, NewRunner(spec))
                                         ELSE runners
    /\ Logged([call |-> "register", spec |-> spec, result |-> refusal(spec)])
    /\ UNCHANGED settings

\* run: what it reads of the supervisor, and the loops it spawns.
run ==
    /\ Logged([call |-> "run", seed |-> settings["seed"],
               drain_cap |-> settings["drain_cap"],
               loops |-> [i \in DOMAIN runners |-> runners[i].call]])
    /\ UNCHANGED <<settings, runners>>

Next ==
    \/ \E s \in Setters, v \in Values : Set(s, v)
    \/ \E spec \in Specs : register(spec)
    \/ run
    \/ Len(log) = MaxCalls /\ UNCHANGED vars

Spec == Init /\ [][Next]_vars

-----------------------------------------------------------------------------
(***************************************************************************)
(* Properties.                                                             *)
(***************************************************************************)

\* The value a setting had been given last, before the n-th call.
LastSet(s, n) ==
    LET sets == {k \in 1 .. n - 1 : log[k].call = s}
    IN IF sets = {} THEN Default ELSE log[Max(sets)].value

\* Every job works with the jitter, the breaker configuration, the lease and
\* the lease TTL set last before its own registration, and with nothing set
\* later; a run takes the seed and the drain cap set last before it.
SettingsOfTheirTime ==
    /\ \A i \in DOMAIN runners :
          LET r == runners[i]
          IN /\ r.jitter = LastSet("jitter", r.call)
             /\ r.lease = LastSet("lease", r.call)
             /\ r.lease_ttl = LastSet("lease_ttl", r.call)
             /\ r.breaker = IF r.spec.use_breaker
                            THEN LastSet("breaker_config", r.call) ELSE NoBreaker
    /\ \A k \in DOMAIN log :
          log[k].call = "run" => /\ log[k].seed = LastSet("seed", k)
                                 /\ log[k].drain_cap = LastSet("drain_cap", k)

\* A name of [a-z0-9_.-]{1,64}, and a trigger that can be scheduled.
Sound(spec) ==
    /\ spec.name \in UNION {[1 .. n -> NameChars] : n \in 1 .. NAME_MAX_LEN}
    /\ spec.trigger \in {"interval", "cron"}

\* The calls before the k-th that registered a sound job.
SoundBefore(k) ==
    {j \in 1 .. k - 1 : log[j].call = "register" /\ Sound(log[j].spec)}

\* A run spawns one loop for each sound job registered before it, in order,
\* duplicate names included, and none for a refused one: a cron expression
\* that does not parse never reaches the loop, which would take it for an
\* exhausted schedule and fire it at every SCHEDULE_PARK.
RunsTheSoundJobs ==
    \A k \in DOMAIN log :
        log[k].call = "run" =>
            /\ Range(log[k].loops) = SoundBefore(k)
            /\ \A i, j \in DOMAIN log[k].loops :
                  i < j => log[k].loops[i] < log[k].loops[j]
=============================================================================
