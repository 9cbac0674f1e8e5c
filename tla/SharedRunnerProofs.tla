-------------------------- MODULE SharedRunnerProofs --------------------------
(***************************************************************************)
(* Proofs about SharedRunner, for any finite number of loops on one runner *)
(* and any number of attempts: no count is lost, the hook runs once per    *)
(* transition, and flag and budget part only when loops cross.             *)
(***************************************************************************)
EXTENDS SharedRunner, FiniteSetTheorems, TLAPS

Counters == {"fires", "failures", "skips", "paused"}

\* The types of what the loops write.
LoopsTyped ==
    /\ stats \in StatsRecords
    /\ at \in [Loops -> Locations]
    /\ attempts \in [Outcomes -> Nat]
    /\ hooks \in Nat
    /\ rises \in Nat
    /\ crossed \in BOOLEAN

\* How many loops have yet to make each kind of write.
Owed(S) == Cardinality(In(S))

\* One, if a location is in a set.
One(loc, S) == IF loc \in S THEN 1 ELSE 0

\* A loop that moves takes itself off the loops at its old location and puts
\* itself to those at the new one (at of fire, runner.rs 262-304).
LEMMA MoveCounts ==
    ASSUME NEW f \in [Loops -> Locations], NEW l \in Loops, NEW to \in Locations,
           NEW S
    PROVE  LET before == {k \in Loops : f[k] \in S}
               after == {k \in Loops : [f EXCEPT ![l] = to][k] \in S}
           IN /\ Cardinality(before) \in Nat
              /\ Cardinality(after) \in Nat
              /\ Cardinality(after) + One(f[l], S)
                     = Cardinality(before) + One(to, S)
PROOF
<1> DEFINE before == {k \in Loops : f[k] \in S}
           after == {k \in Loops : [f EXCEPT ![l] = to][k] \in S}
           rest == before \ {l}
<1>1. IsFiniteSet(before) /\ IsFiniteSet(after) /\ IsFiniteSet(rest)
  BY LoopsAssumption, FS_Subset
<1>2. Cardinality(before) \in Nat /\ Cardinality(after) \in Nat
      /\ Cardinality(rest) \in Nat
  BY <1>1, FS_CardinalityType
<1>3. before = IF f[l] \in S THEN rest \cup {l} ELSE rest
  OBVIOUS
<1>4. after = IF to \in S THEN rest \cup {l} ELSE rest
  OBVIOUS
<1>5. l \notin rest
  OBVIOUS
<1>6. Cardinality(rest \cup {l}) = Cardinality(rest) + 1
  BY <1>1, <1>5, FS_AddElement
<1>7. Cardinality(before) = Cardinality(rest) + One(f[l], S)
  <2>1. CASE f[l] \in S
    BY <2>1, <1>3, <1>6, <1>2 DEF One
  <2>2. CASE f[l] \notin S
    BY <2>2, <1>3, <1>2 DEF One
  <2> QED
    BY <2>1, <2>2
<1>8. Cardinality(after) = Cardinality(rest) + One(to, S)
  <2>1. CASE to \in S
    BY <2>1, <1>4, <1>6, <1>2 DEF One
  <2>2. CASE to \notin S
    BY <2>2, <1>4, <1>2 DEF One
  <2> QED
    BY <2>1, <2>2
<1>9. One(f[l], S) \in {0, 1} /\ One(to, S) \in {0, 1}
  BY DEF One
<1> HIDE DEF before, after, rest
<1>10. Cardinality(after) + One(f[l], S) = Cardinality(before) + One(to, S)
  BY <1>2, <1>7, <1>8, <1>9
<1> QED
  BY <1>2, <1>10 DEF before, after

\* The same, for a step of the specification.
LEMMA Moved ==
    ASSUME LoopsTyped, NEW l \in Loops, NEW from, NEW to \in Locations,
           Goto(l, from, to), NEW S
    PROVE  /\ Owed(S) \in Nat
           /\ Owed(S)' \in Nat
           /\ Owed(S)' + One(from, S) = Owed(S) + One(to, S)
PROOF
<1>1. at \in [Loops -> Locations] /\ at[l] = from /\ at' = [at EXCEPT ![l] = to]
  BY DEF LoopsTyped, Goto
<1>2. In(S)' = {k \in Loops : [at EXCEPT ![l] = to][k] \in S}
  BY <1>1 DEF In
<1>3. In(S) = {k \in Loops : at[k] \in S}
  BY DEF In
<1> DEFINE before == {k \in Loops : at[k] \in S}
           after == {k \in Loops : [at EXCEPT ![l] = to][k] \in S}
<1>4. /\ Cardinality(before) \in Nat
      /\ Cardinality(after) \in Nat
      /\ Cardinality(after) + One(at[l], S) = Cardinality(before) + One(to, S)
  BY <1>1, MoveCounts
<1>5. Owed(S) = Cardinality(before)
  BY <1>3 DEF Owed
<1>6. Owed(S)' = Cardinality(after)
  BY <1>2 DEF Owed
<1> HIDE DEF before, after
<1> QED
  BY <1>1, <1>4, <1>5, <1>6

-----------------------------------------------------------------------------
(***************************************************************************)
(* No count is lost, and one hook per transition.                          *)
(***************************************************************************)

\* The totals of NothingLost and HookPerTransition.
Fires == {"ok_fire", "bad_fire"}
Failures == {"bad_fire", "failure"}

Totals ==
    /\ stats.fires + Owed(Fires) = attempts["success"] + attempts["failure"]
    /\ stats.failures + Owed(Failures) = attempts["failure"]
    /\ stats.skips + Owed({"skip"}) = attempts["skip"]
    /\ stats.paused + Owed({"pause"}) = attempts["pause"]
    /\ rises = hooks + Owed({"hook"})

\* What a move does to each of the numbers of loops in Totals.
LEMMA MovedEach ==
    ASSUME LoopsTyped, NEW l \in Loops, NEW from, NEW to \in Locations,
           Goto(l, from, to)
    PROVE  /\ Owed(Fires) \in Nat /\ Owed(Fires)' \in Nat
           /\ Owed(Fires)' + One(from, Fires) = Owed(Fires) + One(to, Fires)
           /\ Owed(Failures) \in Nat /\ Owed(Failures)' \in Nat
           /\ Owed(Failures)' + One(from, Failures)
                  = Owed(Failures) + One(to, Failures)
           /\ Owed({"skip"}) \in Nat /\ Owed({"skip"})' \in Nat
           /\ Owed({"skip"})' + One(from, {"skip"})
                  = Owed({"skip"}) + One(to, {"skip"})
           /\ Owed({"pause"}) \in Nat /\ Owed({"pause"})' \in Nat
           /\ Owed({"pause"})' + One(from, {"pause"})
                  = Owed({"pause"}) + One(to, {"pause"})
           /\ Owed({"hook"}) \in Nat /\ Owed({"hook"})' \in Nat
           /\ Owed({"hook"})' + One(from, {"hook"})
                  = Owed({"hook"}) + One(to, {"hook"})
PROOF
<1>1. ASSUME NEW S
      PROVE  /\ Owed(S) \in Nat /\ Owed(S)' \in Nat
             /\ Owed(S)' + One(from, S) = Owed(S) + One(to, S)
  BY Moved
<1> QED
  BY <1>1, Zenon DEF Fires, Failures

\* The loops' part of the state keeps its type in every step.
LEMMA LoopsTypedStep ==
    ASSUME LoopsTyped, [Next]_vars
    PROVE  LoopsTyped'
PROOF
<1> USE DEF LoopsTyped, StatsRecords, Goto
<1>1. CASE UNCHANGED vars
  BY <1>1 DEF vars
<1>2. ASSUME NEW l \in Loops, LoopStep(l)
      PROVE  LoopsTyped'
  <2>1. ASSUME NEW o \in Outcomes, NEW to \in Locations, Record(l, o, to)
        PROVE  LoopsTyped'
    BY <2>1 DEF Record
  <2>2. ASSUME NEW from, NEW c \in Counters, NEW to \in Locations,
               Count(l, from, c, to)
        PROVE  LoopsTyped'
    BY <2>2 DEF Count, Counters
  <2>3. CASE ResetBudget(l)
    BY <2>3 DEF ResetBudget, Locations
  <2>4. CASE ClearDegraded(l)
    BY <2>4 DEF ClearDegraded, Locations
  <2>5. CASE SpendBudget(l)
    BY <2>5 DEF SpendBudget, Locations
  <2>6. CASE SwapDegraded(l)
    <3>1. PICK to \in {"record", "hook"} : Goto(l, "swap", to)
      BY <2>6 DEF SwapDegraded
    <3>2. at' \in [Loops -> Locations]
      BY <3>1 DEF Locations
    <3>3. rises' \in Nat
      BY <2>6 DEF SwapDegraded
    <3>4. stats' \in StatsRecords
      BY <2>6 DEF SwapDegraded
    <3> QED
      BY <2>6, <3>2, <3>3, <3>4 DEF SwapDegraded
  <2>7. CASE CallHook(l)
    BY <2>7 DEF CallHook, Locations
  <2>8. CASE RecordLastError(l)
    BY <2>8 DEF RecordLastError, Locations
  <2> HIDE DEF LoopsTyped, StatsRecords, Goto
  <2> QED
    BY <1>2, <2>1, <2>2, <2>3, <2>4, <2>5, <2>6, <2>7, <2>8
       DEF LoopStep, Outcomes, Counters, Locations
<1> QED
  BY <1>1, <1>2 DEF Next

\* Outside the loops nothing that Totals or a count of loops is about moves.
LEMMA NobodyMoves ==
    ASSUME NEW S, UNCHANGED at
    PROVE  Owed(S)' = Owed(S)
PROOF
  BY DEF Owed, In

\* Every write of a loop keeps the totals: what it adds to a counter it takes
\* off the loops that have yet to add (fire, runner.rs 262-304).
LEMMA TotalsStep ==
    ASSUME LoopsTyped, Totals, [Next]_vars
    PROVE  Totals'
PROOF
<1>1. CASE UNCHANGED <<stats, at, attempts, hooks, rises>>
  <2>1. ASSUME NEW S PROVE Owed(S)' = Owed(S)
    BY <1>1, NobodyMoves
  <2>2. /\ Owed(Fires)' = Owed(Fires)
        /\ Owed(Failures)' = Owed(Failures)
        /\ Owed({"skip"})' = Owed({"skip"})
        /\ Owed({"pause"})' = Owed({"pause"})
        /\ Owed({"hook"})' = Owed({"hook"})
    BY <2>1, Zenon DEF Fires, Failures
  <2> QED
    BY <1>1, <2>2 DEF Totals
<1>2. ASSUME NEW l \in Loops, LoopStep(l)
      PROVE  Totals'
  <2> USE DEF Totals, One, Fires, Failures, Locations, LoopsTyped, StatsRecords,
              Outcomes
  <2>1. CASE Record(l, "skip", "skip")
    <3>1. /\ Goto(l, "idle", "skip")
          /\ UNCHANGED <<stats, hooks, rises>>
          /\ attempts' = [attempts EXCEPT !["skip"] = @ + 1]
      BY <2>1 DEF Record
    <3>2. /\ Owed(Fires)' = Owed(Fires)
          /\ Owed(Failures)' = Owed(Failures)
          /\ Owed({"skip"})' = Owed({"skip"}) + 1
          /\ Owed({"pause"})' = Owed({"pause"})
          /\ Owed({"hook"})' = Owed({"hook"})
      BY <3>1, MovedEach
    <3>3. /\ Owed(Fires) \in Nat /\ Owed(Failures) \in Nat
          /\ Owed({"skip"}) \in Nat /\ Owed({"pause"}) \in Nat
      BY <3>1, MovedEach
    <3> QED
      BY <3>1, <3>2, <3>3
  <2>2. CASE Record(l, "pause", "pause")
    <3>1. /\ Goto(l, "idle", "pause")
          /\ UNCHANGED <<stats, hooks, rises>>
          /\ attempts' = [attempts EXCEPT !["pause"] = @ + 1]
      BY <2>2 DEF Record
    <3>2. /\ Owed(Fires)' = Owed(Fires)
          /\ Owed(Failures)' = Owed(Failures)
          /\ Owed({"skip"})' = Owed({"skip"})
          /\ Owed({"pause"})' = Owed({"pause"}) + 1
          /\ Owed({"hook"})' = Owed({"hook"})
      BY <3>1, MovedEach
    <3>3. /\ Owed(Fires) \in Nat /\ Owed(Failures) \in Nat
          /\ Owed({"skip"}) \in Nat /\ Owed({"pause"}) \in Nat
      BY <3>1, MovedEach
    <3> QED
      BY <3>1, <3>2, <3>3
  <2>3. CASE Record(l, "success", "ok_fire")
    <3>1. /\ Goto(l, "idle", "ok_fire")
          /\ UNCHANGED <<stats, hooks, rises>>
          /\ attempts' = [attempts EXCEPT !["success"] = @ + 1]
      BY <2>3 DEF Record
    <3>2. /\ Owed(Fires)' = Owed(Fires) + 1
          /\ Owed(Failures)' = Owed(Failures)
          /\ Owed({"skip"})' = Owed({"skip"})
          /\ Owed({"pause"})' = Owed({"pause"})
          /\ Owed({"hook"})' = Owed({"hook"})
      BY <3>1, MovedEach
    <3>3. /\ Owed(Fires) \in Nat /\ Owed(Failures) \in Nat
          /\ Owed({"skip"}) \in Nat /\ Owed({"pause"}) \in Nat
      BY <3>1, MovedEach
    <3> QED
      BY <3>1, <3>2, <3>3
  <2>4. CASE Record(l, "failure", "bad_fire")
    <3>1. /\ Goto(l, "idle", "bad_fire")
          /\ UNCHANGED <<stats, hooks, rises>>
          /\ attempts' = [attempts EXCEPT !["failure"] = @ + 1]
      BY <2>4 DEF Record
    <3>2. /\ Owed(Fires)' = Owed(Fires) + 1
          /\ Owed(Failures)' = Owed(Failures) + 1
          /\ Owed({"skip"})' = Owed({"skip"})
          /\ Owed({"pause"})' = Owed({"pause"})
          /\ Owed({"hook"})' = Owed({"hook"})
      BY <3>1, MovedEach
    <3>3. /\ Owed(Fires) \in Nat /\ Owed(Failures) \in Nat
          /\ Owed({"skip"}) \in Nat /\ Owed({"pause"}) \in Nat
      BY <3>1, MovedEach
    <3> QED
      BY <3>1, <3>2, <3>3
  <2>5. CASE Count(l, "skip", "skips", "idle")
    BY <2>5, MovedEach DEF Count
  <2>6. CASE Count(l, "pause", "paused", "idle")
    BY <2>6, MovedEach DEF Count
  <2>7. CASE Count(l, "ok_fire", "fires", "reset")
    BY <2>7, MovedEach DEF Count
  <2>8. CASE Count(l, "bad_fire", "fires", "failure")
    BY <2>8, MovedEach DEF Count
  <2>9. CASE Count(l, "failure", "failures", "spend")
    <3>1. /\ Goto(l, "failure", "spend")
          /\ UNCHANGED <<attempts, hooks, rises>>
          /\ stats' = [stats EXCEPT !["failures"] = @ + 1]
      BY <2>9 DEF Count
    <3>2. /\ Owed(Fires)' = Owed(Fires)
          /\ Owed(Failures)' + 1 = Owed(Failures)
          /\ Owed({"skip"})' = Owed({"skip"})
          /\ Owed({"pause"})' = Owed({"pause"})
          /\ Owed({"hook"})' = Owed({"hook"})
      BY <3>1, MovedEach
    <3>3. /\ Owed(Fires) \in Nat /\ Owed(Failures) \in Nat
          /\ Owed({"skip"}) \in Nat /\ Owed({"pause"}) \in Nat
          /\ Owed(Fires)' \in Nat /\ Owed(Failures)' \in Nat
          /\ Owed({"skip"})' \in Nat /\ Owed({"pause"})' \in Nat
      BY <3>1, MovedEach
    <3> QED
      BY <3>1, <3>2, <3>3
  <2>10. CASE ResetBudget(l)
    BY <2>10, MovedEach DEF ResetBudget
  <2>11. CASE ClearDegraded(l)
    BY <2>11, MovedEach DEF ClearDegraded
  <2>12. CASE SpendBudget(l)
    BY <2>12, MovedEach DEF SpendBudget
  <2>13. CASE SwapDegraded(l)
    <3>1. CASE stats.degraded
      <4>1. Goto(l, "swap", "record") /\ rises' = rises
        BY <2>13, <3>1 DEF SwapDegraded
      <4> QED
        BY <2>13, <4>1, MovedEach DEF SwapDegraded
    <3>2. CASE ~stats.degraded
      <4>1. Goto(l, "swap", "hook") /\ rises' = rises + 1
        BY <2>13, <3>2 DEF SwapDegraded
      <4> QED
        BY <2>13, <4>1, MovedEach DEF SwapDegraded
    <3> QED
      BY <3>1, <3>2
  <2>14. CASE CallHook(l)
    <3>1. PICK to \in {"record", "unwound"} : Goto(l, "hook", to)
      BY <2>14 DEF CallHook
    <3> QED
      BY <2>14, <3>1, MovedEach DEF CallHook
  <2>15. CASE RecordLastError(l)
    BY <2>15, MovedEach DEF RecordLastError
  <2> QED
    BY <1>2, <2>1, <2>2, <2>3, <2>4, <2>5, <2>6, <2>7, <2>8, <2>9, <2>10, <2>11,
       <2>12, <2>13, <2>14, <2>15 DEF LoopStep
<1> QED
  BY <1>1, <1>2 DEF Next, vars

LEMMA TotalsInit ==
    ASSUME Init
    PROVE  LoopsTyped /\ Totals
PROOF
<1>1. LoopsTyped
  BY DEF Init, LoopsTyped, NewStats, StatsRecords, Locations
<1>2. ASSUME NEW S, "idle" \notin S PROVE Owed(S) = 0
  <2>1. In(S) = {}
    BY <1>2 DEF Init, In
  <2> QED
    BY <2>1, FS_EmptySet DEF Owed
<1>3. /\ Owed(Fires) = 0
      /\ Owed(Failures) = 0
      /\ Owed({"skip"}) = 0
      /\ Owed({"pause"}) = 0
      /\ Owed({"hook"}) = 0
  BY <1>2 DEF Fires, Failures
<1> QED
  BY <1>1, <1>3 DEF Init, Totals, NewStats, Outcomes

LEMMA TotalsAlways == Spec => [](LoopsTyped /\ Totals)
PROOF
<1>1. Init => LoopsTyped /\ Totals
  BY TotalsInit
<1>2. (LoopsTyped /\ Totals) /\ [Next]_vars => (LoopsTyped /\ Totals)'
  BY LoopsTypedStep, TotalsStep
<1> QED
  BY <1>1, <1>2, PTL DEF Spec

\* Whatever the number of loops that one runner has, and however their writes
\* interleave, every attempt is counted once (fetch_add of fires, failures,
\* skips and paused in fire, runner.rs 262-304).
THEOREM NoCountLost == Spec => []NothingLost
PROOF
<1>1. LoopsTyped /\ Totals => NothingLost
  BY DEF Totals, NothingLost, Owed, Fires, Failures
<1> QED
  BY <1>1, TotalsAlways, PTL

\* The swap gives every transition of the flag to one loop: on_degraded has
\* been called, or is about to be, once for each (fire, runner.rs 287-295).
THEOREM OneHookPerTransition == Spec => []HookPerTransition
PROOF
<1>1. LoopsTyped /\ Totals => HookPerTransition
  BY DEF Totals, HookPerTransition, Owed
<1> QED
  BY <1>1, TotalsAlways, PTL

-----------------------------------------------------------------------------
(***************************************************************************)
(* Flag and budget.                                                        *)
(***************************************************************************)

\* A loop has written consecutive and not yet degraded.
Between(k) == at[k] \in {"swap", "clear"}

\* As long as no two loops crossed, at most one is between its two writes;
\* it is about to make the flag agree with the budget, and when there is
\* none the flag does agree.
FlagFollows ==
    ~crossed =>
        /\ \A k, m \in Loops : Between(k) /\ Between(m) => k = m
        /\ \A k \in Loops : at[k] = "swap" => Spent
        /\ \A k \in Loops : at[k] = "clear" => stats.consecutive = 0
        /\ (\A k \in Loops : ~Between(k)) => (stats.degraded <=> Spent)

\* A loop that moves elsewhere leaves all of it as it was.
LEMMA MovesElsewhere ==
    ASSUME LoopsTyped, FlagFollows, NEW l \in Loops, NEW from, NEW to \in Locations,
           Goto(l, from, to), {from, to} \cap {"swap", "clear"} = {},
           stats'.consecutive = stats.consecutive,
           stats'.degraded = stats.degraded, crossed' = crossed
    PROVE  FlagFollows'
PROOF
<1>1. \A k \in Loops : \/ at'[k] = at[k]
                       \/ k = l /\ ~Between(k) /\ ~Between(k)'
  BY DEF Goto, Between, LoopsTyped
<1> QED
  BY <1>1 DEF FlagFollows, Between, Spent

LEMMA FlagStep ==
    ASSUME LoopsTyped, FlagFollows, [Next]_vars
    PROVE  FlagFollows'
PROOF
<1>1. CASE UNCHANGED <<stats, at, crossed>>
  BY <1>1 DEF FlagFollows, Between, Spent
<1>2. ASSUME NEW l \in Loops, LoopStep(l)
      PROVE  FlagFollows'
  <2>1. ASSUME NEW o \in Outcomes, NEW to \in Locations \ {"swap", "clear"},
               Record(l, o, to)
        PROVE  FlagFollows'
    BY <2>1, MovesElsewhere DEF Record, Locations
  <2>2. ASSUME NEW from \in Locations \ {"swap", "clear"}, NEW c \in Counters,
               NEW to \in Locations \ {"swap", "clear"}, Count(l, from, c, to)
        PROVE  FlagFollows'
    <3>1. stats'.consecutive = stats.consecutive /\ stats'.degraded = stats.degraded
      BY <2>2 DEF Count, Counters, LoopsTyped, StatsRecords
    <3> QED
      BY <2>2, <3>1, MovesElsewhere DEF Count
  <2>3. CASE ResetBudget(l)
    <3>1. Goto(l, "reset", "clear") /\ stats'.consecutive = 0
      BY <2>3 DEF ResetBudget, LoopsTyped, StatsRecords
    <3>2. crossed' \/ \A k \in Loops : k # l => ~Between(k)'
      BY <2>3 DEF ResetBudget, Crossing, Between, Goto, LoopsTyped
    <3> QED
      BY <3>1, <3>2 DEF FlagFollows, Between, Goto, LoopsTyped
  <2>4. CASE ClearDegraded(l)
    <3>1. /\ Goto(l, "clear", "idle")
          /\ ~stats'.degraded
          /\ stats'.consecutive = stats.consecutive
          /\ crossed' = crossed
      BY <2>4 DEF ClearDegraded, LoopsTyped, StatsRecords
    <3>2. crossed \/ (stats.consecutive = 0 /\ \A k \in Loops : ~Between(k)')
      BY <3>1 DEF FlagFollows, Between, Goto, LoopsTyped
    <3> QED
      BY <3>1, <3>2 DEF FlagFollows, Between, Spent
  <2>5. CASE SpendBudget(l)
    <3>1. /\ stats'.consecutive = stats.consecutive + 1
          /\ stats'.degraded = stats.degraded
          /\ stats.consecutive \in Nat
      BY <2>5 DEF SpendBudget, LoopsTyped, StatsRecords
    <3>2. crossed' \/ (~crossed /\ \A k \in Loops : ~Between(k) /\ (k # l => ~Between(k)'))
      BY <2>5 DEF SpendBudget, Crossing, Between, Goto, LoopsTyped
    <3>3. CASE stats.consecutive + 1 >= failure_budget
      <4>1. Goto(l, "spend", "swap") /\ Spent'
        BY <2>5, <3>1, <3>3, NumbersAssumption DEF SpendBudget, Spent
      <4> QED
        BY <3>2, <4>1 DEF FlagFollows, Between, Goto, LoopsTyped
    <3>4. CASE ~(stats.consecutive + 1 >= failure_budget)
      <4>1. Goto(l, "spend", "record") /\ ~Spent /\ ~Spent'
        BY <2>5, <3>1, <3>4, NumbersAssumption DEF SpendBudget, Spent
      <4>2. crossed' \/ ~stats.degraded
        BY <3>2, <4>1 DEF FlagFollows
      <4>3. crossed' \/ \A k \in Loops : ~Between(k)'
        BY <3>2, <4>1 DEF Between, Goto, LoopsTyped
      <4> QED
        BY <3>1, <4>1, <4>2, <4>3 DEF FlagFollows, Between
    <3> QED
      BY <3>3, <3>4
  <2>6. CASE SwapDegraded(l)
    <3>1. PICK to \in {"record", "hook"} : Goto(l, "swap", to)
      BY <2>6 DEF SwapDegraded
    <3>2. /\ stats'.degraded
          /\ stats'.consecutive = stats.consecutive
          /\ crossed' = crossed
      BY <2>6 DEF SwapDegraded, LoopsTyped, StatsRecords
    <3>3. crossed \/ (Spent /\ \A k \in Loops : ~Between(k)')
      BY <3>1 DEF FlagFollows, Between, Goto, LoopsTyped
    <3> QED
      BY <3>2, <3>3 DEF FlagFollows, Between, Spent
  <2>7. CASE CallHook(l)
    <3>1. PICK to \in {"record", "unwound"} : Goto(l, "hook", to)
      BY <2>7 DEF CallHook
    <3> QED
      BY <2>7, <3>1, MovesElsewhere DEF CallHook, Locations
  <2>8. CASE RecordLastError(l)
    <3>1. stats'.consecutive = stats.consecutive /\ stats'.degraded = stats.degraded
      BY <2>8 DEF RecordLastError, LoopsTyped, StatsRecords
    <3> QED
      BY <2>8, <3>1, MovesElsewhere DEF RecordLastError, Locations
  <2> QED
    BY <1>2, <2>1, <2>2, <2>3, <2>4, <2>5, <2>6, <2>7, <2>8
       DEF LoopStep, Outcomes, Counters, Locations
<1> QED
  BY <1>1, <1>2 DEF Next, vars

\* Flag and budget part only where two loops crossed: one loop alone, and
\* loops whose writes of consecutive and degraded do not interleave, leave
\* the flag up exactly when the budget is spent (fire, runner.rs 262-304).
THEOREM FlagAgrees == Spec => []FlagMatchesBudget
PROOF
<1>1. Init => LoopsTyped /\ FlagFollows
  <2> SUFFICES ASSUME Init PROVE LoopsTyped /\ FlagFollows
    OBVIOUS
  <2>1. stats.degraded = FALSE /\ stats.consecutive = 0
    BY DEF Init, NewStats
  <2>2. \A k \in Loops : at[k] = "idle"
    BY DEF Init
  <2> QED
    BY <2>1, <2>2, TotalsInit DEF FlagFollows, Between, Spent
<1>2. (LoopsTyped /\ FlagFollows) /\ [Next]_vars => (LoopsTyped /\ FlagFollows)'
  BY LoopsTypedStep, FlagStep
<1>3. LoopsTyped /\ FlagFollows => FlagMatchesBudget
  <2> SUFFICES ASSUME LoopsTyped, FlagFollows, Settled, ~crossed
               PROVE  stats.degraded <=> Spent
    BY DEF FlagMatchesBudget
  <2>1. \A k \in Loops : ~Between(k)
    BY DEF Settled, In, Between, LoopsTyped, Locations
  <2> QED
    BY <2>1 DEF FlagFollows
<1> QED
  BY <1>1, <1>2, <1>3, PTL DEF Spec
=============================================================================
