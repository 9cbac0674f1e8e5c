-------------------------- MODULE SupervisorProofs --------------------------
(***************************************************************************)
(* The report of WorkerSupervisor::run (src/src/supervisor.rs 312-356) is  *)
(* complete and exact for any number of jobs, whatever the loops do while  *)
(* run() joins, aborts and reads them, and run() implements RunContract.   *)
(***************************************************************************)
EXTENDS JobRunnerProofs, Supervisor

-----------------------------------------------------------------------------
(***************************************************************************)
(* The loops under run() are the loops of JobRunner.                       *)
(***************************************************************************)

\* Whatever run() does is, for the loops, a step of theirs, abort_all or
\* nothing.
LEMMA RunnerStep == Typed /\ [SupNext]_supVars => [Next]_vars
<1> SUFFICES ASSUME Typed, [SupNext]_supVars
             PROVE  [Next]_vars
  OBVIOUS
<1>1. CASE UNCHANGED supVars
  BY <1>1 DEF supVars
<1>2. CASE Loops
  BY <1>2 DEF Loops, Next
<1>3. CASE \E j \in Jobs : Return(j)
  BY <1>3 DEF Return, Next
<1>4. ASSUME RunStep PROVE [Next]_vars
  <2>1. CASE StopParking
    BY <2>1 DEF StopParking
  <2>2. CASE DrainCompletes
    BY <2>2 DEF DrainCompletes, CloseDrain, vars, refVars
  <2>3. ASSUME aborted' = TRUE,
               UNCHANGED <<spec, shutdown, pc, site, notices, outcome, stats,
                           brk, refVars>>
        PROVE  [Next]_vars
    <3>1. CASE ~aborted
      BY <2>3, <3>1 DEF AbortAll, Next
    <3>2. CASE aborted
      <4>1. aborted = TRUE
        BY <3>2 DEF Typed, TypeOK
      <4> QED BY <2>3, <4>1 DEF vars, refVars
    <3> QED BY <3>1, <3>2
  <2>4. CASE DrainCapExpires
    BY <2>3, <2>4 DEF DrainCapExpires, CloseDrain
  <2>5. CASE MakeReport
    BY <2>3, <2>5 DEF MakeReport, ReportWith
  <2>6. CASE \E j \in Jobs : \/ JoinNext(j) \/ KeepSlot(j) \/ ReadField(j)
                             \/ FillSlot(j)
    BY <2>6 DEF JoinNext, KeepSlot, ReadField, FillSlot
  <2> QED BY <1>4, <2>1, <2>2, <2>4, <2>5, <2>6 DEF RunStep
<1>5. CASE AllEnded /\ phase = "reported" /\ UNCHANGED supVars
  BY <1>5 DEF supVars
<1> QED BY <1>1, <1>2, <1>3, <1>4, <1>5 DEF SupNext

\* The loops are typed under run() too.
LEMMA RunnerTyped == SupSpec => []Typed
<1>1. SupInit => Typed
  BY InitTyped DEF SupInit
<1>2. Typed /\ [SupNext]_supVars => Typed'
  BY RunnerStep, TypeInductive
<1> QED BY <1>1, <1>2, PTL DEF SupSpec

\* A supervisor's loops behave as module JobRunner says: every theorem
\* about them holds under run(), its drain cap and its aborts.
THEOREM ImplementsJobRunner == SupSpec => Spec
<1>1. SupInit => Init
  BY DEF SupInit
<1> QED BY <1>1, RunnerStep, RunnerTyped, PTL DEF SupSpec, Spec

-----------------------------------------------------------------------------
(***************************************************************************)
(* What a loop never takes back.                                           *)
(***************************************************************************)
Counters == {"fires", "failures", "skips", "paused"}

\* One step of a loop changes at most one of the counters that are
\* reported, by one.
LEMMA OneCounter ==
    ASSUME Typed, NEW j \in Jobs, LoopStep(j) \/ Finish(j) \/ CoolDown(j)
    PROVE  \/ \A f \in Counters : stats'[j][f] = stats[j][f]
           \/ \E k \in Counters : \A f \in Counters :
                 stats'[j][f] = IF f = k THEN stats[j][f] + 1 ELSE stats[j][f]
<1>0. stats \in [Jobs -> StatsRecords] /\ stats[j] \in StatsRecords
  BY DEF Typed, TypeOK
<1>1. CASE \/ Start(j) \/ WakeTick(j) \/ ObserveShutdown(j) \/ Invoke(j)
           \/ Resolve(j) \/ CallHook(j) \/ Cancel(j) \/ Finish(j) \/ CoolDown(j)
  BY <1>1 DEF Start, WakeTick, ObserveShutdown, Invoke, Resolve, CallHook,
              Cancel, Finish, CoolDown
<1>2. CASE UNCHANGED stats
  BY <1>2
<1>3. CASE stats' = [stats EXCEPT ![j].skips = @ + 1]
  <2>1. \A f \in Counters : stats'[j][f] = IF f = "skips" THEN stats[j][f] + 1
                                                       ELSE stats[j][f]
    BY <1>0, <1>3 DEF Counters, StatsRecords
  <2> QED BY <2>1 DEF Counters
<1>4. CASE stats' = [stats EXCEPT ![j].paused = @ + 1]
  <2>1. \A f \in Counters : stats'[j][f] = IF f = "paused" THEN stats[j][f] + 1
                                                        ELSE stats[j][f]
    BY <1>0, <1>4 DEF Counters, StatsRecords
  <2> QED BY <2>1 DEF Counters
<1>5. CASE stats' = [stats EXCEPT ![j].fires = @ + 1]
  <2>1. \A f \in Counters : stats'[j][f] = IF f = "fires" THEN stats[j][f] + 1
                                                       ELSE stats[j][f]
    BY <1>0, <1>5 DEF Counters, StatsRecords
  <2> QED BY <2>1 DEF Counters
<1>6. CASE stats' = [stats EXCEPT ![j].failures = @ + 1]
  <2>1. \A f \in Counters : stats'[j][f] = IF f = "failures" THEN stats[j][f] + 1
                                                          ELSE stats[j][f]
    BY <1>0, <1>6 DEF Counters, StatsRecords
  <2> QED BY <2>1 DEF Counters
<1>7. ASSUME NEW c, stats' = [stats EXCEPT ![j].consecutive = c]
      PROVE  \A f \in Counters : stats'[j][f] = stats[j][f]
  BY <1>0, <1>7 DEF Counters, StatsRecords
<1>8. ASSUME NEW c, stats' = [stats EXCEPT ![j].degraded = c]
      PROVE  \A f \in Counters : stats'[j][f] = stats[j][f]
  BY <1>0, <1>8 DEF Counters, StatsRecords
<1>9. ASSUME NEW c, stats' = [stats EXCEPT ![j].last_error = c]
      PROVE  \A f \in Counters : stats'[j][f] = stats[j][f]
  BY <1>0, <1>9 DEF Counters, StatsRecords
<1>10. CASE Gate(j) \/ Pause(j)
  BY <1>2, <1>3, <1>4, <1>10 DEF Gate, Pause
<1>11. CASE CountFire(j) \/ CountFailure(j)
  BY <1>5, <1>6, <1>11 DEF CountFire, CountFailure
<1>12. CASE ResetBudget(j) \/ SpendBudget(j)
  BY <1>7, <1>12 DEF ResetBudget, SpendBudget
<1>13. CASE ClearDegraded(j) \/ SwapDegraded(j)
  BY <1>8, <1>13 DEF ClearDegraded, SwapDegraded
<1>14. CASE RecordLastError(j)
  BY <1>9, <1>14 DEF RecordLastError
<1> QED BY <1>1, <1>10, <1>11, <1>12, <1>13, <1>14 DEF LoopStep, RecordStep

\* No loop runs on after it ended.
LEMMA EndedStays ==
    ASSUME Typed, NEW j \in Jobs, pc[j] \in Ended
    PROVE  ~(LoopStep(j) \/ Finish(j))
<1> USE DEF Ended
<1>1. /\ ~Start(j) /\ ~WakeTick(j) /\ ~ObserveShutdown(j) /\ ~Gate(j)
      /\ ~Pause(j) /\ ~Invoke(j) /\ ~Resolve(j) /\ ~Cancel(j)
  BY DEF Start, WakeTick, ObserveShutdown, Gate, Pause, Invoke, Resolve,
         Cancel, Awaiting
<1>2. /\ ~CountFire(j) /\ ~ResetBudget(j) /\ ~ClearDegraded(j)
      /\ ~CountFailure(j) /\ ~SpendBudget(j) /\ ~SwapDegraded(j)
      /\ ~CallHook(j) /\ ~RecordLastError(j) /\ ~Finish(j)
  BY DEF CountFire, ResetBudget, ClearDegraded, CountFailure, SpendBudget,
         SwapDegraded, CallHook, RecordLastError, Finish, Record
<1> QED BY <1>1, <1>2 DEF LoopStep, RecordStep

\* Through any step: the settings stay, a counter never falls, and the
\* counters, the history and the end of a loop that ended are final.
LEMMA NothingTakenBack ==
    ASSUME Typed, [Next]_vars, NEW j \in Jobs
    PROVE  /\ spec' = spec
           /\ \A f \in Counters : stats[j][f] <= stats'[j][f]
           /\ pc[j] \in Ended => /\ pc'[j] = pc[j] /\ stats'[j] = stats[j]
                                 /\ history'[j] = history[j]
<1>0. stats[j] \in StatsRecords /\ \A f \in Counters : stats[j][f] \in Nat
  BY DEF Typed, TypeOK, StatsRecords, Counters
<1>1. spec' = spec
  BY SpecUnchanged DEF Next, vars, Signal, AbortAll
<1>2. CASE UNCHANGED <<pc, stats, history>>
  BY <1>0, <1>1, <1>2
<1>3. CASE UNCHANGED vars \/ Signal \/ AbortAll
  BY <1>2, <1>3 DEF vars, Signal, AbortAll, refVars
<1>4. CASE \E k \in Jobs : LoopStep(k) \/ Finish(k) \/ CoolDown(k)
  <2>1. PICK k \in Jobs : LoopStep(k) \/ Finish(k) \/ CoolDown(k)
    BY <1>4
  <2>2. CASE k # j
    <3>1. pc'[j] = pc[j] /\ stats'[j] = stats[j] /\ history'[j] = history[j]
      BY <2>1, <2>2, OthersUnchanged DEF Typed
    <3> QED BY <1>0, <1>1, <3>1
  <2>3. CASE k = j
    <3>1. \A f \in Counters : stats[j][f] <= stats'[j][f]
      BY <1>0, <2>1, <2>3, OneCounter
    <3>2. ASSUME pc[j] \in Ended
          PROVE  UNCHANGED <<pc, stats, history>>
      <4>1. CoolDown(j)
        BY <2>1, <2>3, <3>2, EndedStays
      <4> QED BY <4>1 DEF CoolDown, refVars
    <3> QED BY <1>1, <3>1, <3>2
  <2> QED BY <2>2, <2>3
<1> QED BY <1>3, <1>4 DEF Next

-----------------------------------------------------------------------------
(***************************************************************************)
(* What run() has read.  ReportExact and the contract speak of the report  *)
(* alone; the strengthening says where every number of every slot and of   *)
(* the half-read summary came from.                                        *)
(***************************************************************************)
Open == phase \in {"parked", "draining"}

\* Field f of summary s is a value job j had: its final one when the loop
\* had ended before the drain closed, and for a counter no less than it was
\* then and no more than it is now.
Sound(j, s, f) ==
    /\ j \in ended => s[f] = stats[j][f]
    /\ f \in Counters => floor[j][f] <= s[f] /\ s[f] <= stats[j][f]

Owned(j, s) == s \in Summaries /\ s.job = j /\ s.name = spec[j].name

\* What joined loops returned, and what the final pass read.
SlotInv ==
    \A j \in DOMAIN slots :
        /\ Owned(j, slots[j])
        /\ Open => pc[j] = "done" /\ slots[j] = Summary(j)
        /\ ~Open => \A f \in FieldNames : Sound(j, slots[j], f)

\* The summary the final pass is in the middle of.
ReadInv ==
    read > 0 =>
        /\ phase = "filling" /\ cursor \in Jobs /\ cursor \notin DOMAIN slots
        /\ Owned(cursor, partial)
        /\ \A n \in 1..read : Sound(cursor, partial, Fields[n])

\* The final pass leaves no gap, and the report is the sorted slots.
PassInv ==
    /\ \A j \in Jobs : j < cursor => j \in DOMAIN slots
    /\ Reported => cursor = Cardinality(Jobs) + 1 /\ report = SortedByName

\* A loop that ended stays as it was when it did.
EndedInv ==
    /\ \A j \in Jobs : pc[j] = "done" => returned[j] = Summary(j)
    /\ \A j \in ended : pc[j] \in Ended
    /\ ~Open => \A j \in Jobs, f \in Counters : floor[j][f] <= stats[j][f]

RunTyped ==
    /\ phase \in {"parked", "draining", "filling", "reported"}
    /\ returned \in [Jobs -> Summaries]
    /\ joined \subseteq Jobs
    /\ DOMAIN slots \subseteq Jobs
    /\ cursor \in 1..(Cardinality(Jobs) + 1)
    /\ read \in 0..Len(Fields)
    /\ floor \in [Jobs -> StatsRecords]
    /\ ended \subseteq Jobs

RunInv == RunTyped /\ SlotInv /\ ReadInv /\ PassInv /\ EndedInv

\* The fields of a summary, in the order summary() reads them.
LEMMA FieldFacts ==
    /\ Len(Fields) = 6
    /\ Fields[1] = "fires" /\ Fields[2] = "failures" /\ Fields[3] = "skips"
    /\ Fields[4] = "paused" /\ Fields[5] = "degraded"
    /\ Fields[6] = "last_error"
    /\ FieldNames = {"fires", "failures", "skips", "paused", "degraded",
                     "last_error"}
    /\ \A f \in FieldNames : \E n \in 1..6 : Fields[n] = f
    /\ Counters \subseteq FieldNames
<1>1. /\ Len(Fields) = 6 /\ DOMAIN Fields = 1..6
      /\ Fields[1] = "fires" /\ Fields[2] = "failures" /\ Fields[3] = "skips"
      /\ Fields[4] = "paused" /\ Fields[5] = "degraded"
      /\ Fields[6] = "last_error"
  BY DEF Fields
<1>2. \A n : n \in 1..6 <=> n \in {1, 2, 3, 4, 5, 6}
  OBVIOUS
<1>3. FieldNames = {"fires", "failures", "skips", "paused", "degraded",
                    "last_error"}
  BY <1>1, <1>2 DEF FieldNames
<1> QED BY <1>1, <1>2, <1>3 DEF Counters

\* The summary of a job is a summary, and is the job's own.
LEMMA SummaryFacts ==
    ASSUME Typed, NEW j \in Jobs
    PROVE  /\ Owned(j, Summary(j))
           /\ \A f \in FieldNames : Summary(j)[f] = stats[j][f]
           /\ Owned(j, Blank(j))
<1>1. stats[j] \in StatsRecords /\ spec[j].name \in Nat
  BY SpecsAssumption DEF Typed, TypeOK, JobSpecs
<1>2. Summary(j) \in Summaries
  BY <1>1 DEF Summary, Summaries, StatsRecords
<1>3. \A f \in FieldNames : Summary(j)[f] = stats[j][f]
  BY FieldFacts DEF Summary
<1>4. Blank(j) \in Summaries
  BY <1>1 DEF Blank, Summaries, Messages
<1> QED BY <1>2, <1>3, <1>4 DEF Owned, Summary, Blank

\* Steps of the loops keep what run() has read sound.
LEMMA LoopsKeepRunInv ==
    ASSUME Typed, Typed', RunInv, [Next]_vars,
           UNCHANGED <<phase, joined, slots, cursor, read, partial, report,
                       floor, ended>>,
           returned' \in [Jobs -> Summaries],
           \A j \in Jobs : pc'[j] = "done" => returned'[j] = Summary(j)'
    PROVE  RunInv'
<1>0. /\ spec' = spec \/ Jobs = {}
      /\ \A j \in Jobs : \A f \in Counters : stats[j][f] <= stats'[j][f]
      /\ \A j \in Jobs : pc[j] \in Ended =>
             /\ pc'[j] = pc[j] /\ stats'[j] = stats[j]
             /\ history'[j] = history[j]
  BY NothingTakenBack
<1>1. RunTyped'
  BY DEF RunInv, RunTyped
<1>2. ASSUME NEW j \in Jobs, NEW s \in Summaries, NEW f \in FieldNames,
             Sound(j, s, f)
      PROVE  Sound(j, s, f)'
  <2>1. j \in ended => stats'[j] = stats[j]
    BY <1>0 DEF RunInv, EndedInv
  <2>2. ASSUME f \in Counters
        PROVE  floor[j][f] <= s[f] /\ s[f] <= stats'[j][f]
    <3>1. /\ s[f] \in Nat /\ stats[j][f] \in Nat /\ stats'[j][f] \in Nat
          /\ floor[j][f] \in Nat
      BY <2>2 DEF Typed, TypeOK, RunInv, RunTyped, StatsRecords, Counters,
                  Summaries
    <3> QED BY <1>0, <1>2, <2>2, <3>1 DEF Sound
  <2> QED BY <1>2, <2>1, <2>2 DEF Sound
<1>3. ASSUME NEW j \in Jobs, NEW s, Owned(j, s)
      PROVE  Owned(j, s)'
  BY <1>0, <1>3 DEF Owned
<1>4. SlotInv'
  <2> SUFFICES ASSUME NEW j \in DOMAIN slots
               PROVE  /\ Owned(j, slots[j])'
                      /\ Open => pc'[j] = "done" /\ slots[j] = Summary(j)'
                      /\ ~Open => \A f \in FieldNames : Sound(j, slots[j], f)'
    BY DEF SlotInv, Open
  <2>1. j \in Jobs /\ Owned(j, slots[j]) /\ slots[j] \in Summaries
    BY DEF RunInv, RunTyped, SlotInv, Owned
  <2>2. ASSUME Open PROVE pc'[j] = "done" /\ slots[j] = Summary(j)'
    <3>1. pc[j] = "done" /\ slots[j] = Summary(j)
      BY <2>2 DEF RunInv, SlotInv
    <3>2. pc'[j] = pc[j] /\ stats'[j] = stats[j] /\ spec' = spec
      BY <1>0, <2>1, <3>1 DEF Ended
    <3> QED BY <3>1, <3>2 DEF Summary
  <2>3. ASSUME ~Open, NEW f \in FieldNames PROVE Sound(j, slots[j], f)'
    <3>1. Sound(j, slots[j], f)
      BY <2>3 DEF RunInv, SlotInv
    <3> QED BY <1>2, <2>1, <3>1
  <2> QED BY <1>3, <2>1, <2>2, <2>3
<1>5. ReadInv'
  <2> SUFFICES ASSUME read > 0
               PROVE  /\ phase = "filling" /\ cursor \in Jobs
                      /\ cursor \notin DOMAIN slots
                      /\ Owned(cursor, partial)'
                      /\ \A n \in 1..read : Sound(cursor, partial, Fields[n])'
    BY DEF ReadInv
  <2>1. /\ phase = "filling" /\ cursor \in Jobs /\ cursor \notin DOMAIN slots
        /\ Owned(cursor, partial) /\ partial \in Summaries
        /\ \A n \in 1..read : Sound(cursor, partial, Fields[n])
    BY DEF RunInv, ReadInv, Owned
  <2>2. Owned(cursor, partial)'
    BY <1>3, <2>1
  <2>3. ASSUME NEW n \in 1..read PROVE Sound(cursor, partial, Fields[n])'
    <3>1. n \in 1..6
      BY FieldFacts DEF RunInv, RunTyped
    <3>2. Fields[n] \in FieldNames
      BY <3>1 DEF FieldNames, Fields
    <3>3. Sound(cursor, partial, Fields[n])
      BY <2>1
    <3> QED BY <1>2, <2>1, <3>2, <3>3
  <2> QED BY <2>1, <2>2, <2>3
<1>6. PassInv'
  <2>1. SortedByName' = SortedByName
    BY DEF SortedByName, Place, Before
  <2> QED BY <2>1 DEF RunInv, PassInv, Reported
<1>7. EndedInv'
  <2>1. \A j \in ended : j \in Jobs /\ pc'[j] \in Ended
    BY <1>0 DEF RunInv, EndedInv, RunTyped
  <2>2. ASSUME ~Open, NEW j \in Jobs, NEW f \in Counters
        PROVE  floor[j][f] <= stats'[j][f]
    <3>1. stats[j][f] \in Nat /\ stats'[j][f] \in Nat /\ floor[j][f] \in Nat
      BY DEF Typed, TypeOK, RunInv, RunTyped, StatsRecords, Counters
    <3>2. floor[j][f] <= stats[j][f] /\ stats[j][f] <= stats'[j][f]
      BY <1>0, <2>2 DEF RunInv, EndedInv
    <3> QED BY <3>1, <3>2
  <2> QED BY <2>1, <2>2 DEF EndedInv, Open
<1> QED BY <1>1, <1>4, <1>5, <1>6, <1>7 DEF RunInv

\* Joining a loop: a loop that returned gave its final counters.
LEMMA JoinKeepsRunInv ==
    ASSUME Typed, RunInv, NEW j \in Jobs, JoinNext(j)
    PROVE  RunInv'
<1> USE DEF JoinNext
<1>0. /\ Open /\ Open' /\ phase = "draining" /\ ~Reported'
      /\ UNCHANGED <<spec, stats, pc>>
  BY DEF Open, Reported, vars
<1>1. read = 0
  BY <1>0 DEF RunInv, RunTyped, ReadInv
<1>2. CASE pc[j] # "done"
  <2>1. slots' = slots
    BY <1>2
  <2>2. SlotInv'
    BY <1>0, <2>1 DEF RunInv, SlotInv, Owned, Summary
  <2>3. RunTyped'
    BY <2>1 DEF RunInv, RunTyped
  <2>4. ReadInv' /\ PassInv' /\ EndedInv'
    BY <1>0, <1>1, <2>1 DEF RunInv, ReadInv, PassInv, EndedInv, Summary
  <2> QED BY <2>2, <2>3, <2>4 DEF RunInv
<1>3. CASE pc[j] = "done"
  <2>1. slots' = [k \in DOMAIN slots \cup {j} |->
                     IF k = j THEN returned[j] ELSE slots[k]]
    BY <1>3 DEF Filled
  <2>2. /\ DOMAIN slots' = DOMAIN slots \cup {j}
        /\ slots'[j] = returned[j]
        /\ \A k \in DOMAIN slots : k # j => slots'[k] = slots[k]
    BY <2>1
  <2>3. returned[j] = Summary(j) /\ Owned(j, Summary(j))
    BY <1>3, SummaryFacts DEF RunInv, EndedInv
  <2>4. SlotInv'
    <3> SUFFICES ASSUME NEW k \in DOMAIN slots'
                 PROVE  Owned(k, slots'[k]) /\ pc[k] = "done"
                        /\ slots'[k] = Summary(k)
      BY <1>0 DEF SlotInv, Owned, Summary
    <3>1. CASE k = j
      BY <1>3, <2>2, <2>3, <3>1
    <3>2. CASE k # j
      <4>1. k \in DOMAIN slots /\ slots'[k] = slots[k]
        BY <2>2, <3>2
      <4> QED BY <1>0, <4>1 DEF RunInv, SlotInv
    <3> QED BY <3>1, <3>2
  <2>5. RunTyped'
    BY <2>2 DEF RunInv, RunTyped
  <2>6. ReadInv' /\ PassInv' /\ EndedInv'
    BY <1>0, <1>1, <2>2 DEF RunInv, ReadInv, PassInv, EndedInv, Summary
  <2> QED BY <2>4, <2>5, <2>6 DEF RunInv
<1> QED BY <1>2, <1>3

\* Closing the drain: what was joined is final, and the counters are noted.
LEMMA CloseKeepsRunInv ==
    ASSUME Typed, RunInv, phase = "draining", CloseDrain
    PROVE  RunInv'
<1> USE DEF CloseDrain
<1>0. /\ Open /\ ~Open' /\ ~Reported' /\ UNCHANGED <<spec, stats, pc, slots>>
      /\ floor' = stats
  BY DEF Open, Reported
<1>1. read = 0
  BY DEF RunInv, RunTyped, ReadInv
<1>2. stats \in [Jobs -> StatsRecords]
  BY DEF Typed, TypeOK
<1>3. RunTyped'
  BY <1>2 DEF RunInv, RunTyped
<1>4. SlotInv'
  <2> SUFFICES ASSUME NEW j \in DOMAIN slots
               PROVE  /\ Owned(j, slots[j])'
                      /\ \A f \in FieldNames : Sound(j, slots[j], f)'
    BY <1>0 DEF SlotInv
  <2>1. j \in Jobs /\ Owned(j, slots[j]) /\ slots[j] = Summary(j)
    BY <1>0 DEF RunInv, RunTyped, SlotInv
  <2>2. ASSUME NEW f \in FieldNames PROVE Sound(j, slots[j], f)'
    <3>1. slots[j][f] = stats[j][f]
      BY <2>1, SummaryFacts
    <3>2. f \in Counters => stats[j][f] \in Nat
      BY <1>2, <2>1 DEF StatsRecords, Counters
    <3> QED BY <1>0, <3>1, <3>2 DEF Sound
  <2> QED BY <1>0, <2>1, <2>2 DEF Owned
<1>5. ReadInv' /\ PassInv'
  BY <1>0, <1>1 DEF RunInv, ReadInv, PassInv
<1>6. EndedInv'
  <2>1. \A j \in Jobs, f \in Counters : stats[j][f] \in Nat
    BY <1>2 DEF StatsRecords, Counters
  <2>2. \A j \in Jobs, f \in Counters : floor'[j][f] <= stats'[j][f]
    BY <1>0, <2>1
  <2> QED BY <1>0, <2>2 DEF RunInv, EndedInv, Summary
<1> QED BY <1>3, <1>4, <1>5, <1>6 DEF RunInv

\* The final pass, one load at a time.
LEMMA PassKeepsRunInv ==
    ASSUME Typed, RunInv, NEW j \in Jobs,
           KeepSlot(j) \/ ReadField(j) \/ FillSlot(j)
    PROVE  RunInv'
<1>0. /\ ~Open /\ ~Open' /\ phase = "filling" /\ phase' = "filling"
      /\ ~Reported' /\ cursor = j
      /\ UNCHANGED <<spec, stats, pc, floor, ended, returned, joined>>
  BY DEF KeepSlot, ReadField, FillSlot, Filling, Open, Reported, vars
<1>2. EndedInv'
  BY <1>0 DEF RunInv, EndedInv, Summary
<1>3. j + 1 \in 1..(Cardinality(Jobs) + 1) /\ Jobs \subseteq Nat
  BY JobsAssumption, FS_CardinalityType
<1>4. CASE KeepSlot(j)
  <2>1. /\ j \in DOMAIN slots /\ cursor' = j + 1
        /\ UNCHANGED <<slots, read, partial>>
    BY <1>4 DEF KeepSlot
  <2>2. ~(read > 0)
    BY <1>0, <2>1 DEF RunInv, ReadInv
  <2>3. RunTyped'
    BY <1>0, <1>3, <2>1 DEF RunInv, RunTyped
  <2>4. SlotInv'
    BY <1>0, <2>1 DEF RunInv, SlotInv, Owned, Sound
  <2>5. ReadInv'
    BY <2>1, <2>2 DEF ReadInv
  <2>6. PassInv'
    BY <1>0, <1>3, <2>1 DEF RunInv, PassInv
  <2> QED BY <1>2, <2>3, <2>4, <2>5, <2>6 DEF RunInv
<1>5. CASE ReadField(j)
  <2> DEFINE s == IF read = 0 THEN Blank(j) ELSE partial
             f == Fields[read + 1]
  <2>1. /\ j \notin DOMAIN slots /\ read < 6 /\ read' = read + 1
        /\ partial' = [s EXCEPT ![f] = stats[j][f]]
        /\ UNCHANGED <<slots, cursor>>
    BY <1>5, FieldFacts DEF ReadField
  <2>2. read \in 0..5
    BY <2>1, FieldFacts DEF RunInv, RunTyped
  <2>3. /\ Owned(j, s)
        /\ \A n \in 1..read : Sound(j, s, Fields[n])
    BY <1>0, <2>2, SummaryFacts DEF RunInv, ReadInv
  <2>4. RunTyped'
    BY <1>0, <2>1, <2>2, FieldFacts DEF RunInv, RunTyped
  <2>5. SlotInv'
    BY <1>0, <2>1 DEF RunInv, SlotInv, Owned, Sound
  <2>6. PassInv'
    BY <1>0, <2>1 DEF RunInv, PassInv
  <2>7. stats[j] \in StatsRecords /\ s \in Summaries
    BY <2>3 DEF Typed, TypeOK, Owned
  <2>8. read \in {0, 1, 2, 3, 4, 5}
    BY <2>2
  <2>9. f \in FieldNames
    BY <2>8, FieldFacts
  <2> HIDE DEF s
  <2>10. /\ partial' \in Summaries /\ partial'.job = s.job
         /\ partial'.name = s.name
    <3>1. f = "fires" => [s EXCEPT ![f] = stats[j][f]] \in Summaries
      BY <2>7 DEF StatsRecords, Summaries
    <3>2. f = "failures" => [s EXCEPT ![f] = stats[j][f]] \in Summaries
      BY <2>7 DEF StatsRecords, Summaries
    <3>3. f = "skips" => [s EXCEPT ![f] = stats[j][f]] \in Summaries
      BY <2>7 DEF StatsRecords, Summaries
    <3>4. f = "paused" => [s EXCEPT ![f] = stats[j][f]] \in Summaries
      BY <2>7 DEF StatsRecords, Summaries
    <3>5. f = "degraded" => [s EXCEPT ![f] = stats[j][f]] \in Summaries
      BY <2>7 DEF StatsRecords, Summaries
    <3>6. f = "last_error" => [s EXCEPT ![f] = stats[j][f]] \in Summaries
      BY <2>7 DEF StatsRecords, Summaries
    <3>7. f # "job" /\ f # "name"
      BY <2>9, FieldFacts
    <3> HIDE DEF f
    <3>8. partial'.job = s.job /\ partial'.name = s.name
      BY <2>1, <2>7, <3>7 DEF Summaries
    <3> QED BY <2>1, <2>9, <3>1, <3>2, <3>3, <3>4, <3>5, <3>6, <3>8, FieldFacts
  <2>11. /\ partial'[f] = stats[j][f]
         /\ \A g \in FieldNames : g # f => partial'[g] = s[g]
    <3>1. DOMAIN s = {"job", "name"} \cup FieldNames
      BY <2>7, FieldFacts DEF Summaries
    <3> QED BY <2>1, <2>9, <3>1
  <2>12. Sound(j, partial', f)
    <3>1. ASSUME f \in Counters
          PROVE  floor[j][f] <= stats[j][f] /\ stats[j][f] <= stats[j][f]
      <4>1. stats[j][f] \in Nat
        BY <2>7, <3>1 DEF StatsRecords, Counters
      <4> QED BY <1>0, <3>1, <4>1 DEF RunInv, EndedInv
    <3> QED BY <2>11, <3>1 DEF Sound
  <2>13. ASSUME NEW n \in 1..read
         PROVE  Sound(j, partial', Fields[n])
    <3>1. Fields[n] \in FieldNames /\ Fields[n] # f
      <4>1. n \in {1, 2, 3, 4, 5} /\ n <= read
        BY <2>2
      <4> QED BY <2>8, <4>1, FieldFacts
    <3>2. partial'[Fields[n]] = s[Fields[n]]
      BY <2>11, <3>1
    <3> QED BY <2>3, <3>2 DEF Sound
  <2>14. \A n \in 1..(read + 1) : Sound(j, partial', Fields[n])
    BY <2>2, <2>12, <2>13 DEF f
  <2>15. ReadInv'
    BY <1>0, <2>1, <2>3, <2>10, <2>14 DEF ReadInv, Owned, Sound
  <2> QED BY <1>2, <2>4, <2>5, <2>6, <2>15 DEF RunInv
<1>6. CASE FillSlot(j)
  <2>1. /\ j \notin DOMAIN slots /\ read = 6 /\ read' = 0
        /\ slots' = [k \in DOMAIN slots \cup {j} |->
                        IF k = j THEN partial ELSE slots[k]]
        /\ cursor' = j + 1
    BY <1>6, FieldFacts DEF FillSlot, Filled
  <2>2. /\ DOMAIN slots' = DOMAIN slots \cup {j}
        /\ slots'[j] = partial
        /\ \A k \in DOMAIN slots : slots'[k] = slots[k]
    BY <2>1
  <2>3. /\ Owned(j, partial)
        /\ \A n \in 1..6 : Sound(j, partial, Fields[n])
    BY <1>0, <2>1 DEF RunInv, ReadInv
  <2>4. \A f \in FieldNames : Sound(j, partial, f)
    BY <2>3, FieldFacts
  <2>5. SlotInv'
    BY <1>0, <2>2, <2>3, <2>4 DEF RunInv, SlotInv, Owned, Sound
  <2>6. RunTyped'
    BY <1>0, <1>3, <2>1, <2>2, FieldFacts DEF RunInv, RunTyped
  <2>7. ReadInv'
    BY <2>1 DEF ReadInv
  <2>8. PassInv'
    BY <1>0, <1>3, <2>1, <2>2 DEF RunInv, PassInv
  <2> QED BY <1>2, <2>5, <2>6, <2>7, <2>8 DEF RunInv
<1> QED BY <1>4, <1>5, <1>6

\* Every step keeps the invariant.
LEMMA RunInductive ==
    Typed /\ Typed' /\ RunInv /\ [SupNext]_supVars => RunInv'
<1> SUFFICES ASSUME Typed, Typed', RunInv, [SupNext]_supVars
             PROVE  RunInv'
  OBVIOUS
<1>0. [Next]_vars
  BY RunnerStep
<1>1. ASSUME UNCHANGED runVars,
             \A j \in Jobs : pc'[j] = "done" => pc[j] = "done"
      PROVE  RunInv'
  <2>1. UNCHANGED <<phase, joined, slots, cursor, read, partial, report,
                    floor, ended>> /\ returned' = returned
    BY <1>1 DEF runVars
  <2>2. returned' \in [Jobs -> Summaries]
    BY <2>1 DEF RunInv, RunTyped
  <2>3. ASSUME NEW j \in Jobs, pc'[j] = "done"
        PROVE  returned'[j] = Summary(j)'
    <3>1. pc[j] = "done" /\ returned[j] = Summary(j)
      BY <1>1, <2>3 DEF RunInv, EndedInv
    <3>2. spec' = spec /\ stats'[j] = stats[j]
      BY <1>0, <3>1, NothingTakenBack DEF Ended
    <3> QED BY <2>1, <3>1, <3>2 DEF Summary
  <2> QED BY <1>0, <2>1, <2>2, <2>3, LoopsKeepRunInv
<1>2. CASE UNCHANGED supVars
  BY <1>1, <1>2 DEF supVars, vars
<1>3. CASE Loops
  <2>1. ASSUME NEW j \in Jobs, LoopStep(j)
        PROVE  \A k \in Jobs : pc'[k] = "done" => pc[k] = "done"
    <3>1. pc \in [Jobs -> Locations]
      BY DEF Typed, TypeOK
    <3>2. \E to : /\ pc' = [pc EXCEPT ![j] = to]
                  /\ to # "done"
      <4> USE <2>1 DEF Goto, EnterFire, AfterFire
      <4>1. CASE \/ Start(j) \/ WakeTick(j) \/ ObserveShutdown(j)
        BY <4>1, ZenonT(40) DEF Start, WakeTick, ObserveShutdown
      <4>2. CASE Gate(j) \/ Pause(j) \/ Invoke(j)
        BY <4>2, ZenonT(40) DEF Gate, Pause, Invoke
      <4>3. CASE Resolve(j)
        <5>1. PICK r \in Results(j) :
                  Goto(j, IF r \in Failed THEN "bad_fires" ELSE "ok_fires")
          BY <4>3 DEF Resolve
        <5>2. Goto(j, "bad_fires") \/ Goto(j, "ok_fires")
          BY <5>1
        <5> QED BY <5>2
      <4>4. CASE Cancel(j)
        <5>1. Goto(j, "abandoned") \/ Goto(j, "aborted")
          BY <4>4 DEF Cancel
        <5> QED BY <5>1
      <4>5. CASE CountFire(j) \/ ResetBudget(j) \/ ClearDegraded(j)
        BY <4>5 DEF CountFire, ResetBudget, ClearDegraded, Record
      <4>6. CASE CountFailure(j) \/ CallHook(j) \/ RecordLastError(j)
        BY <4>6 DEF CountFailure, CallHook, RecordLastError, Record
      <4>7. CASE SpendBudget(j)
        <5>1. \/ Record(j, "bad_budget", "bad_swap")
              \/ Record(j, "bad_budget", "bad_error")
          BY <4>7, Zenon DEF SpendBudget
        <5> QED BY <5>1 DEF Record
      <4>8. CASE SwapDegraded(j)
        <5>1. \/ Record(j, "bad_swap", "bad_hook")
              \/ Record(j, "bad_swap", "bad_error")
          BY <4>8, Zenon DEF SwapDegraded
        <5> QED BY <5>1 DEF Record
      <4> QED BY <2>1, <4>1, <4>2, <4>3, <4>4, <4>5, <4>6, <4>7, <4>8
              DEF LoopStep, RecordStep
    <3> QED BY <3>1, <3>2
  <2>2. \A k \in Jobs : pc'[k] = "done" => pc[k] = "done"
    BY <1>3, <2>1 DEF Loops, Signal, CoolDown
  <2> QED BY <1>1, <1>3, <2>2 DEF Loops
<1>4. ASSUME NEW j \in Jobs, Return(j) PROVE RunInv'
  <2>1. /\ pc' = [pc EXCEPT ![j] = "done"] /\ stats' = stats /\ spec' = spec
        /\ returned' = [returned EXCEPT ![j] = Summary(j)]
        /\ UNCHANGED <<phase, joined, slots, cursor, read, partial, report,
                       floor, ended>>
    BY <1>4 DEF Return, Finish, Record, Goto, envVars
  <2>2. Summary(j) \in Summaries
    BY SummaryFacts DEF Owned
  <2>3. returned \in [Jobs -> Summaries] /\ pc \in [Jobs -> Locations]
    BY DEF RunInv, RunTyped, Typed, TypeOK
  <2>4. returned' \in [Jobs -> Summaries]
    BY <2>1, <2>2, <2>3
  <2>5. ASSUME NEW k \in Jobs, pc'[k] = "done"
        PROVE  returned'[k] = Summary(k)'
    <3>1. Summary(k)' = Summary(k)
      BY <2>1 DEF Summary
    <3>2. CASE k = j
      BY <2>1, <2>3, <3>1, <3>2
    <3>3. CASE k # j
      <4>1. pc[k] = "done" /\ returned'[k] = returned[k]
        BY <2>1, <2>3, <2>5, <3>3
      <4> QED BY <3>1, <4>1 DEF RunInv, EndedInv
    <3> QED BY <3>2, <3>3
  <2> QED BY <1>0, <2>1, <2>4, <2>5, LoopsKeepRunInv
<1>5. CASE StopParking
  <2>1. /\ phase = "parked" /\ phase' = "draining"
        /\ UNCHANGED <<spec, pc, stats, returned, joined, slots, cursor, read,
                       partial, report, floor, ended>>
    BY <1>5 DEF StopParking, vars
  <2>2. Open /\ Open' /\ ~Reported' /\ ~(read > 0)
    BY <2>1 DEF Open, Reported, RunInv, ReadInv
  <2>3. RunTyped'
    BY <2>1 DEF RunInv, RunTyped
  <2>4. SlotInv' /\ EndedInv'
    BY <2>1, <2>2 DEF RunInv, SlotInv, EndedInv, Owned, Summary
  <2>5. ReadInv' /\ PassInv'
    BY <2>1, <2>2 DEF RunInv, ReadInv, PassInv
  <2> QED BY <2>3, <2>4, <2>5 DEF RunInv
<1>6. CASE DrainCompletes \/ DrainCapExpires
  BY <1>6, CloseKeepsRunInv DEF DrainCompletes, DrainCapExpires
<1>7. CASE \E j \in Jobs : JoinNext(j)
  BY <1>7, JoinKeepsRunInv
<1>8. CASE \E j \in Jobs : KeepSlot(j) \/ ReadField(j) \/ FillSlot(j)
  BY <1>8, PassKeepsRunInv
<1>9. CASE MakeReport
  <2>1. /\ phase = "filling" /\ phase' = "reported"
        /\ cursor = Cardinality(Jobs) + 1 /\ report' = SortedByName
        /\ UNCHANGED <<spec, pc, stats, returned, joined, slots, cursor, read,
                       partial, floor, ended>>
    BY <1>9 DEF MakeReport, ReportWith
  <2>2. ~Open /\ ~Open'
    BY <2>1 DEF Open
  <2>3. RunTyped'
    BY <2>1 DEF RunInv, RunTyped
  <2>4. SlotInv' /\ EndedInv'
    BY <2>1, <2>2 DEF RunInv, SlotInv, EndedInv, Owned, Summary, Sound
  <2>5. Cardinality(Jobs) + 1 \notin Jobs
    BY JobsAssumption, FS_CardinalityType
  <2>6. ~(read > 0)
    BY <2>1, <2>5 DEF RunInv, ReadInv
  <2>7. SortedByName' = SortedByName
    BY <2>1 DEF SortedByName, Place, Before
  <2>8. ReadInv' /\ PassInv'
    BY <2>1, <2>6, <2>7 DEF RunInv, ReadInv, PassInv
  <2> QED BY <2>3, <2>4, <2>8 DEF RunInv
<1> QED BY <1>2, <1>3, <1>4, <1>5, <1>6, <1>7, <1>8, <1>9
        DEF SupNext, RunStep

\* The invariant holds of every state run() can be in.
LEMMA RunAlways == SupSpec => [](Typed /\ RunInv)
<1>1. SupInit => Typed /\ RunInv
  <2> SUFFICES ASSUME SupInit, Typed
               PROVE  RunInv
    BY InitTyped DEF SupInit
  <2>0. Open /\ ~Reported /\ DOMAIN slots = {} /\ read = 0 /\ ended = {}
    BY DEF SupInit, Open, Reported
  <2>1. returned \in [Jobs -> Summaries] /\ stats \in [Jobs -> StatsRecords]
    BY SummaryFacts DEF SupInit, Owned, Typed, TypeOK
  <2>2. Cardinality(Jobs) \in Nat
    BY JobsAssumption, FS_CardinalityType
  <2>3. RunTyped
    BY <2>0, <2>1, <2>2, FieldFacts DEF SupInit, RunTyped
  <2>4. SlotInv /\ ReadInv
    BY <2>0 DEF SlotInv, ReadInv
  <2>5. PassInv
    BY <2>0, JobsAssumption DEF SupInit, PassInv
  <2>6. EndedInv
    BY <2>0 DEF SupInit, Init, EndedInv
  <2> QED BY <2>3, <2>4, <2>5, <2>6 DEF RunInv
<1> QED BY <1>1, RunInductive, RunnerTyped, PTL DEF SupSpec

-----------------------------------------------------------------------------
(***************************************************************************)
(* The sort.  The names and, among equals, the registration order put the  *)
(* jobs in a strict total order, so every job has a place of its own.      *)
(***************************************************************************)
Earlier(j) == {i \in Jobs : Before(i, j)}

\* Nobody shares a place, no place is empty, and places follow the names.
LEMMA PlaceFacts ==
    ASSUME \A j \in Jobs : slots[j].name \in Nat
    PROVE  /\ \A j \in Jobs : Place(j) \in Jobs
           /\ \A i, j \in Jobs : Before(i, j) <=> Place(i) < Place(j)
           /\ \A n \in Jobs : \E j \in Jobs : Place(j) = n
<1> DEFINE N == Cardinality(Jobs)
<1>0. IsFiniteSet(Jobs) /\ Jobs = 1..N /\ N \in Nat
  BY JobsAssumption, FS_CardinalityType
<1> HIDE DEF N
<1>1. /\ \A i \in Jobs : ~Before(i, i)
      /\ \A i, j \in Jobs : i # j => Before(i, j) \/ Before(j, i)
      /\ \A i, j, k \in Jobs : Before(i, j) /\ Before(j, k) => Before(i, k)
  BY <1>0 DEF Before
<1>2. \A j \in Jobs : /\ IsFiniteSet(Earlier(j))
                      /\ Cardinality(Earlier(j)) \in Nat
                      /\ Cardinality(Earlier(j)) < N
  <2> SUFFICES ASSUME NEW j \in Jobs
               PROVE  /\ IsFiniteSet(Earlier(j))
                      /\ Cardinality(Earlier(j)) \in Nat
                      /\ Cardinality(Earlier(j)) < N
    OBVIOUS
  <2>1. Earlier(j) \in SUBSET Jobs /\ Earlier(j) # Jobs
    BY <1>1 DEF Earlier
  <2>2. /\ IsFiniteSet(Earlier(j))
        /\ Cardinality(Earlier(j)) <= Cardinality(Jobs)
        /\ Cardinality(Jobs) # Cardinality(Earlier(j))
    BY <1>0, <2>1, FS_Subset
  <2>3. Cardinality(Earlier(j)) \in Nat
    BY <2>2, FS_CardinalityType
  <2> QED BY <1>0, <2>2, <2>3 DEF N
<1>3. \A j \in Jobs : Place(j) = Cardinality(Earlier(j)) + 1
  BY DEF Place, Earlier
<1>4. ASSUME NEW j \in Jobs PROVE Place(j) \in Jobs
  <2>1. /\ Cardinality(Earlier(j)) \in Nat /\ Cardinality(Earlier(j)) < N
        /\ Place(j) = Cardinality(Earlier(j)) + 1
    BY <1>2, <1>3
  <2> QED
    BY <1>0, <2>1
<1>5. ASSUME NEW i \in Jobs, NEW j \in Jobs, Before(i, j)
      PROVE  Place(i) < Place(j)
  <2>1. /\ Earlier(i) \in SUBSET Earlier(j)
        /\ i \in Earlier(j) /\ i \notin Earlier(i)
    BY <1>1, <1>5 DEF Earlier
  <2>2. /\ Cardinality(Earlier(i)) <= Cardinality(Earlier(j))
        /\ Cardinality(Earlier(i)) # Cardinality(Earlier(j))
    BY <1>2, <2>1, FS_Subset
  <2> QED BY <1>2, <1>3, <2>2
<1>6. \A i, j \in Jobs : Before(i, j) <=> Place(i) < Place(j)
  <2>1. \A i, j \in Jobs : Place(i) \in Nat /\ Place(j) \in Nat
    BY <1>0, <1>4
  <2> QED BY <1>1, <1>5, <2>1
<1>7. \A n \in Jobs : \E j \in Jobs : Place(j) = n
  <2> DEFINE F == [j \in Jobs |-> Place(j)]
  <2>1. F \in [Jobs -> Jobs]
    BY <1>4
  <2>2. \A i, j \in Jobs : F[i] = F[j] => i = j
    <3>1. \A i, j \in Jobs : Place(i) \in Nat /\ Place(j) \in Nat
      BY <1>0, <1>4
    <3> QED BY <1>1, <1>5, <3>1
  <2>3. F \in Injection(Jobs, Jobs)
    BY <2>1, <2>2 DEF Injection, IsInjective
  <2>4. F \in Surjection(Jobs, Jobs)
    BY <1>0, <2>3, FS_Injection
  <2> QED BY <2>4 DEF Surjection
<1> QED BY <1>4, <1>6, <1>7

\* The job whose summary is at place n of the report.
JobAt(n) == CHOOSE j \in Jobs : Place(j) = n

\* A report has an entry at every place, that of the job the place is for.
LEMMA ReportFacts ==
    ASSUME Typed, RunInv, Reported
    PROVE  /\ DOMAIN slots = Jobs
           /\ \A j \in Jobs : slots[j].job = j /\ slots[j].name = spec[j].name
           /\ \A j \in Jobs : slots[j].name \in Nat
           /\ DOMAIN report = Jobs
           /\ \A n \in Jobs : /\ JobAt(n) \in Jobs /\ Place(JobAt(n)) = n
                               /\ report[n] = slots[JobAt(n)]
           /\ \A j \in Jobs : Place(j) \in Jobs /\ JobAt(Place(j)) = j
<1>0. Jobs = 1..Cardinality(Jobs) /\ Cardinality(Jobs) \in Nat
  BY JobsAssumption, FS_CardinalityType
<1>1. /\ \A j \in Jobs : j < Cardinality(Jobs) + 1 /\ j \in Nat
      /\ cursor = Cardinality(Jobs) + 1
      /\ report = SortedByName
  BY <1>0 DEF RunInv, PassInv
<1>2. DOMAIN slots = Jobs
  BY <1>1 DEF RunInv, PassInv, RunTyped
<1>3. \A j \in Jobs : /\ slots[j].job = j /\ slots[j].name = spec[j].name
                      /\ slots[j].name \in Nat
  BY <1>2 DEF RunInv, SlotInv, Owned, Summaries
<1>4. /\ \A j \in Jobs : Place(j) \in Jobs
      /\ \A i, j \in Jobs : Before(i, j) <=> Place(i) < Place(j)
      /\ \A n \in Jobs : \E j \in Jobs : Place(j) = n
  BY <1>3, PlaceFacts
<1>5. \A n \in Jobs : JobAt(n) \in Jobs /\ Place(JobAt(n)) = n
  BY <1>4 DEF JobAt
<1>6. ASSUME NEW j \in Jobs PROVE JobAt(Place(j)) = j
  <2>1. JobAt(Place(j)) \in Jobs /\ Place(JobAt(Place(j))) = Place(j)
    BY <1>4, <1>5
  <2>2. \A i \in Jobs : i # j => Before(i, j) \/ Before(j, i)
    BY <1>1, <1>3 DEF Before
  <2>3. \A i \in Jobs : Place(i) \in Nat
    BY <1>1, <1>4
  <2> QED BY <1>4, <2>1, <2>2, <2>3
<1>7. DOMAIN report = Jobs /\ \A n \in Jobs : report[n] = slots[JobAt(n)]
  BY <1>1 DEF SortedByName, JobAt
<1> QED BY <1>2, <1>3, <1>4, <1>5, <1>6, <1>7

\* "No job vanishes from the report" (run, src/src/supervisor.rs 325-329):
\* for any number of jobs the report has one entry per job, in the order of
\* the names and, among equal names, of the registrations.
THEOREM ReportIsComplete == SupSpec => []ReportComplete
<1>1. Typed /\ RunInv => ReportComplete
  <2> SUFFICES ASSUME Typed, RunInv, Reported
               PROVE  /\ Len(report) = Cardinality(Jobs)
                      /\ {report[k].job : k \in DOMAIN report} = Jobs
                      /\ \A k, l \in DOMAIN report : k < l =>
                             \/ report[k].name < report[l].name
                             \/ /\ report[k].name = report[l].name
                                /\ report[k].job < report[l].job
    BY DEF ReportComplete
  <2>0. Jobs = 1..Cardinality(Jobs) /\ Cardinality(Jobs) \in Nat
    BY JobsAssumption, FS_CardinalityType
  <2>1. /\ \A j \in Jobs : slots[j].job = j /\ slots[j].name \in Nat
        /\ DOMAIN report = Jobs
        /\ \A n \in Jobs : /\ JobAt(n) \in Jobs /\ Place(JobAt(n)) = n
                            /\ report[n] = slots[JobAt(n)]
        /\ \A j \in Jobs : Place(j) \in Jobs /\ JobAt(Place(j)) = j
    BY ReportFacts
  <2>2. Len(report) = Cardinality(Jobs)
    <3>1. report = [n \in 1..Cardinality(Jobs) |-> report[n]]
      BY <2>0, <2>1 DEF RunInv, PassInv, SortedByName
    <3> QED BY <2>0, <2>1, <3>1
  <2>3. \A n \in Jobs : report[n].job = JobAt(n)
    BY <2>1
  <2>4. {report[k].job : k \in DOMAIN report} = Jobs
    <3>1. ASSUME NEW n \in Jobs PROVE report[n].job \in Jobs
      BY <2>1, <2>3
    <3>2. ASSUME NEW j \in Jobs PROVE \E n \in Jobs : report[n].job = j
      <4>1. Place(j) \in Jobs /\ report[Place(j)].job = j
        BY <2>1, <2>3
      <4> QED BY <4>1
    <3>3. {report[k].job : k \in Jobs} = Jobs
      BY <3>1, <3>2, Zenon
    <3> QED BY <2>1, <3>3
  <2>5. ASSUME NEW k \in Jobs, NEW l \in Jobs, k < l
        PROVE  \/ report[k].name < report[l].name
               \/ /\ report[k].name = report[l].name
                  /\ report[k].job < report[l].job
    <3>1. Before(JobAt(k), JobAt(l))
      BY <2>1, <2>5, PlaceFacts
    <3> QED BY <2>1, <2>3, <3>1 DEF Before
  <2> QED BY <2>1, <2>2, <2>4, <2>5
<1> QED BY <1>1, RunAlways, PTL

\* A loop that had ended when the drain closed is reported as its attempts
\* went, by whichever path its entry was made (run, JobRunner::summary).
THEOREM ReportIsExact == SupSpec => []ReportExact
<1>1. /\ Typed /\ RunInv /\ CountersMatchHistory /\ BudgetMatchesHistory
      /\ LatestErrorKept
      => ReportExact
  <2> SUFFICES ASSUME Typed, RunInv, CountersMatchHistory,
                      BudgetMatchesHistory, LatestErrorKept, Reported,
                      NEW k \in DOMAIN report, report[k].job \in ended
               PROVE  LET e == report[k]
                          h == history[e.job]
                      IN /\ e.name = spec[e.job].name
                         /\ e.fires = Count(h, Ran)
                         /\ e.failures = Count(h, Failed)
                         /\ e.skips = Count(h, {"skip"})
                         /\ e.paused = Count(h, {"paused"})
                         /\ e.degraded <=>
                              Streak(h) >= Threshold(spec[e.job].failure_budget)
                         /\ pc[e.job] # "hook_panic" =>
                              IsLatestError(h, e.last_error)
    BY DEF ReportExact
  <2> DEFINE j == JobAt(k)
  <2>1. /\ j \in Jobs /\ j \in DOMAIN slots /\ report[k] = slots[j]
        /\ slots[j].job = j /\ slots[j].name = spec[j].name
    BY ReportFacts
  <2> HIDE DEF j
  <2>2. j \in ended /\ report[k].job = j
    BY <2>1
  <2>3. Settled(j)
    BY <2>2 DEF RunInv, EndedInv, Settled, Ended, Recording
  <2>4. ~Open
    BY DEF Reported, Open
  <2>5. \A f \in FieldNames : slots[j][f] = stats[j][f]
    BY <2>1, <2>2, <2>4 DEF RunInv, SlotInv, Sound
  <2>6. /\ slots[j].fires = stats[j].fires
        /\ slots[j].failures = stats[j].failures
        /\ slots[j].skips = stats[j].skips
        /\ slots[j].paused = stats[j].paused
        /\ slots[j].degraded = stats[j].degraded
        /\ slots[j].last_error = stats[j].last_error
    BY <2>5, FieldFacts
  <2>7. /\ stats[j].fires = Count(history[j], Ran)
        /\ stats[j].failures = Count(history[j], Failed)
        /\ stats[j].skips = Count(history[j], {"skip"})
        /\ stats[j].paused = Count(history[j], {"paused"})
    BY <2>1, <2>3 DEF CountersMatchHistory
  <2>8. stats[j].degraded <=>
           Streak(history[j]) >= Threshold(spec[j].failure_budget)
    BY <2>1, <2>3, Zenon DEF BudgetMatchesHistory
  <2>9. pc[j] # "hook_panic" => IsLatestError(history[j], stats[j].last_error)
    BY <2>1, <2>3 DEF LatestErrorKept
  <2> QED BY <2>1, <2>2, <2>6, <2>7, <2>8, <2>9, Zenon
<1> QED BY <1>1, RunAlways, ImplementsJobRunner, CountersCorrect,
           BudgetCorrect, ErrorKept, PTL

\* There is no report before there is one.
LEMMA NoEarlyReport == SupSpec => [](~Reported => report = <<>>)
<1>1. SupInit => (~Reported => report = <<>>)
  BY DEF SupInit
<1>2. (~Reported => report = <<>>) /\ [SupNext]_supVars
         => (~Reported => report = <<>>)'
  BY DEF Reported, SupNext, RunStep, Loops, supVars, runVars, Return,
         StopParking, DrainCompletes, DrainCapExpires, CloseDrain, JoinNext,
         KeepSlot, ReadField, FillSlot, Filling, MakeReport, ReportWith
<1> QED BY <1>1, <1>2, PTL DEF SupSpec

\* Every variable of run() keeps its type.
THEOREM RunTypeCorrect == SupSpec => []SupTypeOK
<1>1. Typed /\ RunInv /\ (~Reported => report = <<>>) => SupTypeOK
  <2> SUFFICES ASSUME Typed, RunInv, ~Reported => report = <<>>
               PROVE  SupTypeOK
    OBVIOUS
  <2>1. \A j \in DOMAIN slots : slots[j] \in Summaries
    BY DEF RunInv, SlotInv, Owned
  <2>2. read > 0 => partial \in Summaries
    BY DEF RunInv, ReadInv, Owned
  <2>3. ASSUME NEW k \in DOMAIN report PROVE report[k] \in Summaries
    <3>1. CASE Reported
      BY <2>1, <3>1, ReportFacts
    <3>2. CASE ~Reported
      BY <2>3, <3>2
    <3> QED BY <3>1, <3>2
  <2> QED BY <2>1, <2>2, <2>3 DEF SupTypeOK, RunInv, RunTyped, Typed
<1> QED BY <1>1, RunAlways, NoEarlyReport, PTL

-----------------------------------------------------------------------------
(***************************************************************************)
(* The contract.                                                           *)
(***************************************************************************)

\* In a report the entry of job j is its slot.
LEMMA EntriesFacts ==
    ASSUME Typed, RunInv
    PROVE  /\ Reported =>
                 Entries = [j \in Jobs |-> [f \in Counters |-> slots[j][f]]]
           /\ ~Reported => Entries = [j \in Jobs |-> [f \in Counters |-> 0]]
<1>1. ASSUME Reported, NEW j \in Jobs
      PROVE  report[CHOOSE k \in DOMAIN report : report[k].job = j] = slots[j]
  <2>1. /\ DOMAIN report = Jobs
        /\ \A i \in Jobs : slots[i].job = i
        /\ \A n \in Jobs : JobAt(n) \in Jobs /\ report[n] = slots[JobAt(n)]
        /\ Place(j) \in Jobs /\ JobAt(Place(j)) = j
    BY <1>1, ReportFacts
  <2>2. \E k \in DOMAIN report : report[k].job = j
    BY <2>1
  <2>3. ASSUME NEW k \in DOMAIN report, report[k].job = j
        PROVE  report[k] = slots[j]
    <3>1. JobAt(k) \in Jobs /\ report[k] = slots[JobAt(k)]
      BY <2>1, <2>3
    <3>2. slots[JobAt(k)].job = JobAt(k)
      BY <2>1, <3>1
    <3> QED BY <2>3, <3>1, <3>2
  <2> QED BY <2>2, <2>3
<1>2. CASE Reported
  BY <1>1, <1>2 DEF Entries, Counters
<1>3. CASE ~Reported
  BY <1>3 DEF Entries, Counters
<1> QED BY <1>2, <1>3

\* The same after a step.
LEMMA EntriesNext ==
    (Typed /\ RunInv)' =>
        /\ (Reported => DOMAIN slots = Jobs)'
        /\ (Reported =>
               Entries = [j \in Jobs |-> [f \in Counters |-> slots[j][f]]])'
<1>1. Typed /\ RunInv =>
        /\ Reported => DOMAIN slots = Jobs
        /\ Reported =>
                 Entries = [j \in Jobs |-> [f \in Counters |-> slots[j][f]]]
  BY EntriesFacts, ReportFacts
<1> QED BY <1>1, PTL

\* A step that leaves run() alone is, for its caller, one more recorded
\* number or nothing.
LEMMA TallyStep ==
    ASSUME Typed, Typed', [Next]_vars
    PROVE  \/ Tally(stats)' = Tally(stats)
           \/ \E j \in Jobs, k \in Counters :
                 Tally(stats)' = [Tally(stats) EXCEPT ![j][k] = @ + 1]
<1>1. CASE stats' = stats
  BY <1>1 DEF Tally
<1>2. CASE UNCHANGED vars \/ Signal \/ AbortAll
  BY <1>1, <1>2 DEF vars, Signal, AbortAll
<1>3. ASSUME NEW j \in Jobs, LoopStep(j) \/ Finish(j) \/ CoolDown(j)
      PROVE  \/ Tally(stats)' = Tally(stats)
             \/ \E k \in Counters :
                   Tally(stats)' = [Tally(stats) EXCEPT ![j][k] = @ + 1]
  <2>1. \A i \in Jobs : i # j => stats'[i] = stats[i]
    BY <1>3, OthersUnchanged DEF Typed
  <2>2. CASE \A f \in Counters : stats'[j][f] = stats[j][f]
    <3>1. \A i \in Jobs, f \in Counters : stats'[i][f] = stats[i][f]
      BY <2>1, <2>2
    <3> QED BY <3>1 DEF Tally, Counters
  <2>3. ASSUME NEW k \in Counters,
               \A f \in Counters : stats'[j][f] = IF f = k THEN stats[j][f] + 1
                                                        ELSE stats[j][f]
        PROVE  Tally(stats)' = [Tally(stats) EXCEPT ![j][k] = @ + 1]
    <3> DEFINE T == [i \in Jobs |-> [f \in Counters |-> stats[i][f]]]
               U == [i \in Jobs |-> [f \in Counters |-> stats'[i][f]]]
    <3>1. Tally(stats) = T /\ Tally(stats)' = U
      BY DEF Tally, Counters
    <3>2. U = [i \in Jobs |-> IF i = j THEN [T[j] EXCEPT ![k] = T[j][k] + 1]
                                       ELSE T[i]]
      <4>1. ASSUME NEW i \in Jobs, i # j
            PROVE  [f \in Counters |-> stats'[i][f]] = T[i]
        BY <2>1, <4>1
      <4>2. [f \in Counters |-> stats'[j][f]] = [T[j] EXCEPT ![k] = T[j][k] + 1]
        BY <2>3
      <4> QED BY <4>1, <4>2
    <3>3. U = [T EXCEPT ![j] = [T[j] EXCEPT ![k] = T[j][k] + 1]]
      BY <3>2
    <3> HIDE DEF T, U
    <3> QED BY <3>1, <3>3
  <2> QED BY <1>3, <2>2, <2>3, OneCounter
<1> QED BY <1>2, <1>3 DEF Next

\* Every step of run() and its loops is a step of the contract, or none.
LEMMA ContractStep ==
    ASSUME Typed, Typed', RunInv, RunInv', [SupNext]_supVars
    PROVE  [Contract!Next]_<<Tally(stats), Stage, Tally(floor), Entries>>
<1>0. [Next]_vars
  BY RunnerStep
<1>1. ASSUME UNCHANGED <<phase, floor, report>>
      PROVE  [Contract!Next]_<<Tally(stats), Stage, Tally(floor), Entries>>
  <2>1. UNCHANGED <<Stage, Tally(floor), Entries>>
    BY <1>1 DEF Stage, Tally, Entries, Reported
  <2> QED BY <1>0, <2>1, TallyStep
          DEF Contract!Next, Contract!Attempt, Contract!Kinds, Counters
<1>2. CASE UNCHANGED supVars
  BY <1>1, <1>2 DEF supVars, runVars
<1>3. CASE Loops \/ \E j \in Jobs : Return(j)
  BY <1>1, <1>3 DEF Loops, runVars, Return
<1>4. CASE StopParking
  <2>1. UNCHANGED <<Tally(stats), Stage, Tally(floor)>>
    BY <1>4 DEF StopParking, Stage, Tally, vars
  <2>2. Entries' = Entries
    BY <1>4 DEF StopParking, Entries, Reported
  <2> QED BY <2>1, <2>2
<1>5. CASE DrainCompletes \/ DrainCapExpires
  <2>1. /\ phase = "draining" /\ phase' = "filling" /\ floor' = stats
        /\ stats' = stats /\ report' = report
    BY <1>5 DEF DrainCompletes, DrainCapExpires, CloseDrain
  <2>2. Stage = "running" /\ Stage' = "closed"
    BY <2>1 DEF Stage
  <2>3. Tally(floor)' = Tally(stats) /\ Tally(stats)' = Tally(stats)
    BY <2>1 DEF Tally
  <2>4. Entries' = Entries
    BY <2>1 DEF Entries, Reported
  <2> QED BY <2>2, <2>3, <2>4 DEF Contract!Next, Contract!Close
<1>6. CASE \E j \in Jobs :
               JoinNext(j) \/ KeepSlot(j) \/ ReadField(j) \/ FillSlot(j)
  BY <1>1, <1>6 DEF JoinNext, KeepSlot, ReadField, FillSlot
<1>7. CASE MakeReport
  <2>1. /\ phase = "filling" /\ phase' = "reported"
        /\ UNCHANGED <<stats, slots, floor>>
    BY <1>7 DEF MakeReport, ReportWith
  <2>2. Stage = "closed" /\ Stage' = "returned"
    BY <2>1 DEF Stage
  <2>3. UNCHANGED <<Tally(stats), Tally(floor)>>
    BY <2>1 DEF Tally
  <2>4. Entries' = [j \in Jobs |-> [f \in Counters |-> slots[j][f]]]
    BY <2>1, EntriesNext DEF Reported
  <2>5. ASSUME NEW j \in Jobs, NEW f \in Counters
        PROVE  /\ slots[j][f] \in Nat
               /\ floor[j][f] <= slots[j][f] /\ slots[j][f] <= stats[j][f]
    <3>1. j \in DOMAIN slots /\ ~Open /\ f \in FieldNames
      BY <2>1, EntriesNext, FieldFacts DEF Reported, Open
    <3>2. slots[j] \in Summaries /\ Sound(j, slots[j], f)
      BY <3>1 DEF RunInv, SlotInv, Owned
    <3> QED BY <3>2 DEF Sound, Summaries, Counters
  <2>6. Entries' \in [Jobs -> [Counters -> Nat]]
    BY <2>4, <2>5
  <2>7. ASSUME NEW j \in Jobs, NEW f \in Counters
        PROVE  /\ Tally(floor)[j][f] <= Entries'[j][f]
               /\ Entries'[j][f] <= Tally(stats)[j][f]
    <3>1. Tally(floor)[j][f] = floor[j][f] /\ Tally(stats)[j][f] = stats[j][f]
      BY DEF Tally, Counters
    <3> QED BY <2>4, <2>5, <3>1
  <2> QED BY <2>2, <2>3, <2>6, <2>7
          DEF Contract!Next, Contract!Return, Contract!Between,
              Contract!Tallies, Contract!Kinds, Counters
<1> QED BY <1>2, <1>3, <1>4, <1>5, <1>6, <1>7 DEF SupNext, RunStep

\* run() keeps its promise to the caller, for any number of jobs: counters
\* only grow, and every number of the report lies between what the job had
\* recorded when the drain closed and what it has when run() returns.
THEOREM KeepsTheContract == SupSpec => ImplementsContract
<1>1. SupInit => Contract!Init
  <2> SUFFICES ASSUME SupInit
               PROVE  Contract!Init
    OBVIOUS
  <2>1. stats = [j \in Jobs |-> NewStats] /\ floor = stats /\ phase = "parked"
    BY DEF SupInit, Init
  <2>2. Tally(stats) = [j \in Jobs |-> [k \in Counters |-> 0]]
    BY <2>1 DEF Tally, Counters, NewStats
  <2>3. Stage = "running" /\ ~Reported
    BY <2>1 DEF Stage, Reported
  <2>4. Entries = [j \in Jobs |-> [k \in Counters |-> 0]]
    BY <2>3 DEF Entries, Counters
  <2> QED BY <2>1, <2>2, <2>3, <2>4
          DEF Contract!Init, Contract!Nothing, Contract!Kinds, Counters
<1>2. /\ Typed /\ RunInv /\ (Typed /\ RunInv)' /\ [SupNext]_supVars
      => [Contract!Next]_<<Tally(stats), Stage, Tally(floor), Entries>>
  BY ContractStep
<1> QED BY <1>1, <1>2, RunAlways, PTL
        DEF SupSpec, ImplementsContract, Contract!Spec

=============================================================================
