----------------------------- MODULE Supervisor -----------------------------
(***************************************************************************)
(* WorkerSupervisor::run of src/src/supervisor.rs, around the loops of     *)
(* JobRunner: spawn every loop into a JoinSet, park until the shutdown     *)
(* signal, join the loops for at most drain_cap, abort the rest, fill the  *)
(* missing summaries from live counters, sort by name and return.          *)
(*                                                                         *)
(* Only run() aborts the loops here.  After abort_all a task in the middle *)
(* of a poll keeps writing its counters on its own worker thread until it  *)
(* next waits, while run() reads them field by field.                      *)
(***************************************************************************)
EXTENDS JobRunner

\* `index` of enumerate(): a job is its place in the Vec of runners.
ASSUME JobsAssumption == IsFiniteSet(Jobs) /\ Jobs = 1..Cardinality(Jobs)

VARIABLES
    phase,      \* how far run() is
    returned,   \* the JobRunSummary a finished loop returned
    joined,     \* the tasks join_next has returned
    slots,      \* summaries: the filled entries, by index
    cursor,     \* the runner the final pass looks at
    read,       \* how many fields of its summary have been read
    partial,    \* those fields
    report,     \* RunReport.per_job
    floor,      \* reference: all counters when the drain closed
    ended       \* reference: the loops that had ended by then

runVars == <<phase, returned, joined, slots, cursor, read, partial,
             report, floor, ended>>
supVars == <<vars, runVars>>

Fields == <<"fires", "failures", "skips", "paused", "degraded", "last_error">>
FieldNames == {Fields[k] : k \in DOMAIN Fields}

\* JobRunSummary; "job" is the registration index, for the properties only.
Summaries == [job : Jobs, name : Nat, fires : Nat, failures : Nat,
              skips : Nat, paused : Nat, degraded : BOOLEAN,
              last_error : Messages]

Blank(j) == [job |-> j, name |-> spec[j].name, fires |-> 0, failures |-> 0,
             skips |-> 0, paused |-> 0, degraded |-> FALSE,
             last_error |-> NoError]

\* Mutant: the summary leaves the degraded flag out.
SummaryHealthy(j) ==
    [job |-> j, name |-> spec[j].name, fires |-> stats[j].fires,
     failures |-> stats[j].failures, skips |-> stats[j].skips,
     paused |-> stats[j].paused, degraded |-> FALSE,
     last_error |-> stats[j].last_error]


Summary(j) ==
    [job |-> j, name |-> spec[j].name, fires |-> stats[j].fires,
     failures |-> stats[j].failures, skips |-> stats[j].skips,
     paused |-> stats[j].paused, degraded |-> stats[j].degraded,
     last_error |-> stats[j].last_error]

SupTypeOK ==
    /\ TypeOK
    /\ phase \in {"parked", "draining", "filling", "reported"}
    /\ returned \in [Jobs -> Summaries]
    /\ joined \subseteq Jobs
    /\ DOMAIN slots \subseteq Jobs
    /\ \A j \in DOMAIN slots : slots[j] \in Summaries
    /\ cursor \in 1..(Cardinality(Jobs) + 1)
    /\ read \in 0..Len(Fields)
    /\ read > 0 => partial \in Summaries
    /\ \A k \in DOMAIN report : report[k] \in Summaries
    /\ floor \in [Jobs -> StatsRecords]
    /\ ended \subseteq Jobs

-----------------------------------------------------------------------------
SupInit ==
    /\ Init
    /\ phase = "parked"
    /\ returned = [j \in Jobs |-> Blank(j)]
    /\ joined = {}
    /\ slots = <<>>
    /\ cursor = 1
    /\ read = 0
    /\ partial = <<>>
    /\ report = <<>>
    /\ floor = stats
    /\ ended = {}

\* run_loop's last expression: self.summary(), read by the loop itself.
Return(j) ==
    /\ Finish(j)
    /\ returned' = [returned EXCEPT ![j] = Summary(j)]
    /\ UNCHANGED <<phase, joined, slots, cursor, read, partial, report,
                   floor, ended>>

StopParking ==
    /\ phase = "parked"
    /\ shutdown
    /\ phase' = "draining"
    /\ UNCHANGED <<vars, returned, joined, slots, cursor, read, partial,
                   report, floor, ended>>

\* The slots with the one at index j filled.
Filled(j, summary) ==
    [k \in DOMAIN slots \cup {j} |-> IF k = j THEN summary ELSE slots[k]]

\* join_next: a loop that returned fills its slot, one that unwound is a
\* JoinError and leaves it empty.
JoinNext(j) ==
    /\ phase = "draining"
    /\ j \notin joined
    /\ pc[j] \in Ended
    /\ joined' = joined \cup {j}
    /\ slots' = IF pc[j] = "done" THEN Filled(j, returned[j]) ELSE slots
    /\ UNCHANGED <<vars, phase, returned, cursor, read, partial, report,
                   floor, ended>>

CloseDrain ==
    /\ phase' = "filling"
    /\ floor' = stats
    /\ ended' = {j \in Jobs : pc[j] \in Ended}
    /\ UNCHANGED <<spec, shutdown, pc, site, notices, outcome, stats, brk,
                   refVars, returned, joined, slots, cursor, read,
                   partial, report>>

DrainCompletes ==
    /\ phase = "draining"
    /\ joined = Jobs
    /\ CloseDrain
    /\ UNCHANGED aborted

\* Mutant: no drain cap; the drain waits for every loop.
DrainUncapped ==
    /\ phase = "draining"
    /\ joined # Jobs
    /\ AllEnded
    /\ CloseDrain
    /\ aborted' = TRUE

\* timeout(drain_cap, drain) elapses: abort_all.  timeout polls the drain
\* first, so it cannot elapse once every task is joined.
DrainCapExpires ==
    /\ phase = "draining"
    /\ joined # Jobs
    /\ CloseDrain
    /\ aborted' = TRUE

Filling(j) == phase = "filling" /\ cursor = j

\* get_or_insert_with on a filled slot.
KeepSlot(j) ==
    /\ Filling(j)
    /\ j \in DOMAIN slots
    /\ cursor' = j + 1
    /\ UNCHANGED <<vars, phase, returned, joined, slots, read, partial,
                   report, floor, ended>>

\* Mutant: a missing summary is a default one, not read from the counters.
ReadDefault(j) ==
    /\ Filling(j)
    /\ j \notin DOMAIN slots
    /\ read < Len(Fields)
    /\ partial' = Blank(j)
    /\ read' = read + 1
    /\ UNCHANGED <<vars, phase, returned, joined, slots, cursor, report,
                   floor, ended>>

\* runner.summary(), one relaxed load (or lock) at a time.
ReadField(j) ==
    /\ Filling(j)
    /\ j \notin DOMAIN slots
    /\ read < Len(Fields)
    /\ LET f == Fields[read + 1]
           s == IF read = 0 THEN Blank(j) ELSE partial
       IN partial' = [s EXCEPT ![f] = stats[j][f]]
    /\ read' = read + 1
    /\ UNCHANGED <<vars, phase, returned, joined, slots, cursor, report,
                   floor, ended>>

FillSlot(j) ==
    /\ Filling(j)
    /\ j \notin DOMAIN slots
    /\ read = Len(Fields)
    /\ slots' = Filled(j, partial)
    /\ cursor' = j + 1
    /\ read' = 0
    /\ UNCHANGED <<vars, phase, returned, joined, partial, report, floor,
                   ended>>

\* Flatten the slots in registration order, sort them by name, and return.
\* Returning drops the JoinSet, which aborts what is left in it.
ReportWith(r) ==
    /\ phase = "filling"
    /\ cursor = Cardinality(Jobs) + 1
    /\ report' = r
    /\ phase' = "reported"
    /\ aborted' = TRUE
    /\ UNCHANGED <<spec, shutdown, pc, site, notices, outcome, stats, brk,
                   refVars, returned, joined, slots, cursor, read, partial,
                   floor, ended>>

PerJob == [k \in Jobs |-> slots[k]]

\* Mutant: not sorted.
ReportAsRegistered == ReportWith(PerJob)

\* sort_by is stable: equal names keep their registration order.
Before(i, j) ==
    \/ slots[i].name < slots[j].name
    \/ slots[i].name = slots[j].name /\ i < j

Place(j) == Cardinality({i \in Jobs : Before(i, j)}) + 1

SortedByName == [n \in Jobs |-> slots[CHOOSE j \in Jobs : Place(j) = n]]

MakeReport == ReportWith(SortedByName)

RunStep ==
    \/ StopParking
    \/ DrainCompletes
    \/ DrainCapExpires
    \/ \E j \in Jobs : JoinNext(j) \/ KeepSlot(j) \/ ReadField(j) \/ FillSlot(j)
    \/ MakeReport

Loops ==
    /\ Signal \/ \E j \in Jobs : LoopStep(j) \/ CoolDown(j)
    /\ UNCHANGED runVars

SupNext ==
    \/ Loops
    \/ \E j \in Jobs : Return(j)
    \/ RunStep
    \/ AllEnded /\ phase = "reported" /\ UNCHANGED supVars

SupSpec == SupInit /\ [][SupNext]_supVars

(***************************************************************************)
(* Fairness.  The host keeps polling run(), and the runtime keeps polling  *)
(* a task that is not waiting.  Nothing is assumed of a waiting one: a     *)
(* closure or a lease call may hang for ever, a tick may never come, the   *)
(* host may never signal.  An aborted task is dropped the next time it     *)
(* waits, so it does not escape by waiting only briefly each time.         *)
(***************************************************************************)
Poll(j) ==
    \/ Return(j)
    \/ (Pause(j) \/ Invoke(j) \/ RecordStep(j)) /\ UNCHANGED runVars

Fairness ==
    /\ WF_supVars(RunStep)
    /\ \A j \in Jobs : /\ WF_supVars(Poll(j))
                       /\ SF_supVars(Cancel(j) /\ UNCHANGED runVars)

FairSupSpec == SupSpec /\ Fairness

-----------------------------------------------------------------------------
(***************************************************************************)
(* Properties.                                                             *)
(***************************************************************************)
Reported == phase = "reported"

\* "No job vanishes from the report" (run): one entry per registered job,
\* whether its loop returned, unwound or was aborted, ordered by name,
\* duplicates in registration order.
ReportComplete ==
    Reported =>
        /\ Len(report) = Cardinality(Jobs)
        /\ {report[k].job : k \in DOMAIN report} = Jobs
        /\ \A k, l \in DOMAIN report : k < l =>
               \/ report[k].name < report[l].name
               \/ /\ report[k].name = report[l].name
                  /\ report[k].job < report[l].job

\* A loop that had ended when the drain closed is reported exactly as its
\* attempts went, whichever of the two paths its entry took: the summary
\* it returned, or the one run() read from its counters (a JoinError, or a
\* loop that ended unjoined).
ReportExact ==
    Reported => \A k \in DOMAIN report :
        LET e == report[k]
            h == history[e.job]
        IN e.job \in ended =>
              /\ e.name = spec[e.job].name
              /\ e.fires = Count(h, Ran)
              /\ e.failures = Count(h, Failed)
              /\ e.skips = Count(h, {"skip"})
              /\ e.paused = Count(h, {"paused"})
              /\ e.degraded <=>
                     Streak(h) >= Threshold(spec[e.job].failure_budget)
              /\ pc[e.job] # "hook_panic" => IsLatestError(h, e.last_error)

\* run() implements the promise to its caller (module RunContract).
Tally(s) == [j \in Jobs |-> [k \in {"fires", "failures", "skips", "paused"} |->
                                s[j][k]]]
Entries == [j \in Jobs |->
               LET k == CHOOSE k \in DOMAIN report : report[k].job = j
               IN [f \in {"fires", "failures", "skips", "paused"} |->
                      IF Reported THEN report[k][f] ELSE 0]]
Stage == CASE phase \in {"parked", "draining"} -> "running"
           [] phase = "filling" -> "closed"
           [] phase = "reported" -> "returned"
Contract == INSTANCE RunContract WITH
    tally   <- Tally(stats),
    stage   <- Stage,
    floor   <- Tally(floor),
    entries <- Entries

ImplementsContract == Contract!Spec

\* Once the host signals shutdown, run() returns: the drain cap bounds the
\* wait whatever the closures and the lease do, a hang included.
RunReturns == shutdown ~> Reported

\* Nothing outlives the report for ever: every loop that was abandoned
\* past the cap ends, also one whose closure never resolves.
StragglersEnd == Reported ~> AllEnded
=============================================================================
