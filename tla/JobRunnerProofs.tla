-------------------------- MODULE JobRunnerProofs --------------------------
(***************************************************************************)
(* The job loop is right for any number of jobs, any settings and any      *)
(* sequence of attempts, at every interleaving: its counters, its failure  *)
(* budget and hook, its breaker, its last error and its drain.             *)
(***************************************************************************)
EXTENDS JobRunner, FiniteSetTheorems, SequenceTheorems, TLAPS

(***************************************************************************)
(* The ledger: what one more attempt does to a count.                      *)
(***************************************************************************)

\* Appending an attempt raises the count of the classes it belongs to by
\* one, and no other.
LEMMA CountAppend ==
    ASSUME NEW h \in Seq(Outcomes), NEW o \in Outcomes, NEW S
    PROVE  /\ Count(h, S) \in Nat
           /\ Count(Append(h, o), S) = Count(h, S) + (IF o \in S THEN 1 ELSE 0)
<1> DEFINE A == {i \in DOMAIN h : h[i] \in S}
           B == {i \in DOMAIN Append(h, o) : Append(h, o)[i] \in S}
           n == Len(h) + 1
<1>1. n \in Nat /\ DOMAIN h = 1..Len(h) /\ Len(h) \in Nat
  OBVIOUS
<1>2. IsFiniteSet(A)
  <2>1. IsFiniteSet(1..Len(h))
    BY <1>1, FS_Interval
  <2>2. A \subseteq 1..Len(h)
    BY <1>1
  <2> QED BY <2>1, <2>2, FS_Subset
<1>3. B = IF o \in S THEN A \cup {n} ELSE A
  OBVIOUS
<1>4. n \notin A
  BY <1>1
<1>5. Cardinality(A) \in Nat
  BY <1>2, FS_CardinalityType
<1>6. Cardinality(A \cup {n}) = Cardinality(A) + 1
  BY <1>2, <1>4, FS_AddElement
<1> HIDE DEF A, B, n
<1>7. Cardinality(B) = Cardinality(A) + (IF o \in S THEN 1 ELSE 0)
  BY <1>3, <1>5, <1>6
<1> QED BY <1>5, <1>7 DEF A, B, Count

\* A count is a number.
LEMMA CountType ==
    ASSUME NEW h \in Seq(Outcomes), NEW S
    PROVE  Count(h, S) \in Nat
BY CountAppend DEF Outcomes

\* No attempt, nothing counted.
LEMMA CountEmpty ==
    ASSUME NEW S
    PROVE  Count(<<>>, S) = 0
<1>1. {i \in DOMAIN <<>> : <<>>[i] \in S} = {}
  OBVIOUS
<1> QED BY <1>1, FS_EmptySet DEF Count

-----------------------------------------------------------------------------
(***************************************************************************)
(* Types.                                                                  *)
(***************************************************************************)

\* Whatever the breaker does with a result, it stays a breaker.
LEMMA BreakerType ==
    ASSUME NEW b \in Breakers, NEW r \in Ran, NEW c \in AfterCall(b, r)
    PROVE  c \in Breakers
<1>1. b.fails + 1 \in Nat /\ b.wins + 1 \in Nat /\ b.total + 1 \in Nat
  BY DEF Breakers
<1>2. [b EXCEPT !.wins = b.wins + 1] \in Breakers
  BY <1>1 DEF Breakers
<1>3. [b EXCEPT !.state = "Closed", !.fails = 0, !.wins = 0] \in Breakers
  BY DEF Breakers
<1>4. [state |-> "Open", fails |-> 0, wins |-> 0, total |-> b.total + 1]
         \in Breakers
  BY <1>1 DEF Breakers
<1>5. [b EXCEPT !.fails = b.fails + 1, !.total = b.total + 1] \in Breakers
  BY <1>1 DEF Breakers
<1>6. OnSuccess(b) \subseteq Breakers
  BY <1>2, <1>3 DEF OnSuccess
<1>7. OnFailure(b) \subseteq Breakers
  BY <1>4, <1>5 DEF OnFailure
<1> QED BY <1>6, <1>7 DEF AfterCall

\* Each counter may be replaced by a value of its type.
LEMMA StatsType ==
    ASSUME NEW s \in [Jobs -> StatsRecords], NEW j \in Jobs, NEW n \in Nat,
           NEW b \in BOOLEAN, NEW m \in Messages
    PROVE  /\ [s EXCEPT ![j].fires = n] \in [Jobs -> StatsRecords]
           /\ [s EXCEPT ![j].failures = n] \in [Jobs -> StatsRecords]
           /\ [s EXCEPT ![j].skips = n] \in [Jobs -> StatsRecords]
           /\ [s EXCEPT ![j].paused = n] \in [Jobs -> StatsRecords]
           /\ [s EXCEPT ![j].consecutive = n] \in [Jobs -> StatsRecords]
           /\ [s EXCEPT ![j].degraded = b] \in [Jobs -> StatsRecords]
           /\ [s EXCEPT ![j].last_error = m] \in [Jobs -> StatsRecords]
           /\ s[j].fires + 1 \in Nat
           /\ s[j].failures + 1 \in Nat
           /\ s[j].skips + 1 \in Nat
           /\ s[j].paused + 1 \in Nat
           /\ s[j].consecutive + 1 \in Nat
BY DEF StatsRecords

\* The places fire() and the loop go to are locations.
LEMMA LocationType ==
    /\ \A j \in Jobs : AfterFire(j) \in Locations
    /\ "finish" \in Locations /\ "select" \in Locations
    /\ "gate" \in Locations /\ "invoke" \in Locations
    /\ "running" \in Locations /\ "crashed" \in Locations
    /\ "ok_fires" \in Locations /\ "bad_fires" \in Locations
    /\ "abandoned" \in Locations /\ "aborted" \in Locations
    /\ "ok_reset" \in Locations /\ "ok_clear" \in Locations
    /\ "bad_failures" \in Locations /\ "bad_budget" \in Locations
    /\ "bad_swap" \in Locations /\ "bad_hook" \in Locations
    /\ "bad_error" \in Locations /\ "hook_panic" \in Locations
    /\ "done" \in Locations /\ "spawned" \in Locations
BY DEF AfterFire, Locations, Awaiting, Recording, Ended

\* Where the outcome being recorded is a failure.
BadLocations == {"bad_fires", "bad_failures", "bad_budget", "bad_swap",
                 "bad_hook", "bad_error"}

\* TypeOK alone is not inductive: that record_last_error has a message to
\* record rests on which outcomes lead there.
RecordsAFailure ==
    \A j \in Jobs : pc[j] \in BadLocations => outcome[j] \in Failed

Typed == TypeOK /\ RecordsAFailure

\* Moving one loop to a place outside the recording of a failure keeps
\* RecordsAFailure, and so does moving it within.
LEMMA MoveType ==
    ASSUME TypeOK, RecordsAFailure, NEW j \in Jobs, NEW to \in Locations,
           Goto(j, to), UNCHANGED outcome,
           to \in BadLocations => pc[j] \in BadLocations
    PROVE  pc' \in [Jobs -> Locations] /\ RecordsAFailure'
BY DEF TypeOK, RecordsAFailure, Goto

\* Recording steps: one loop moves, everything but counters stays.
LEMMA RecordType ==
    ASSUME Typed, NEW j \in Jobs, NEW from \in Locations,
           NEW to \in Locations, Record(j, from, to),
           to \in BadLocations => from \in BadLocations,
           stats' \in [Jobs -> StatsRecords], hooks' \in [Jobs -> Nat]
    PROVE  Typed'
<1>1. /\ pc[j] = from
      /\ Goto(j, to)
      /\ UNCHANGED <<spec, shutdown, aborted, site, notices, outcome, brk,
                     history, calls>>
  BY DEF Record, envVars
<1>2. pc' \in [Jobs -> Locations] /\ RecordsAFailure'
  BY <1>1, MoveType DEF Typed
<1> QED BY <1>1, <1>2 DEF Typed, TypeOK

\* Every step of the system preserves the types.
LEMMA TypeInductive == Typed /\ [Next]_vars => Typed'
<1> SUFFICES ASSUME Typed, [Next]_vars
             PROVE  Typed'
  OBVIOUS
<1> USE LocationType
<1>0. TypeOK /\ RecordsAFailure
  BY DEF Typed
<1>1. CASE UNCHANGED vars
  BY <1>0, <1>1 DEF vars, Typed, TypeOK, RecordsAFailure
<1>2. CASE Signal \/ AbortAll
  BY <1>0, <1>2
  DEF Signal, AbortAll, refVars, Typed, TypeOK, RecordsAFailure
<1>3. ASSUME NEW j \in Jobs, CoolDown(j)
      PROVE  Typed'
  <2>0. brk[j] \in Breakers
    BY <1>0 DEF TypeOK
  <2>1. [brk[j] EXCEPT !.state = "HalfOpen"] \in Breakers
    BY <2>0, SMT DEF Breakers
  <2>2. brk' \in [Jobs -> Breakers]
    BY <1>0, <1>3, <2>1 DEF CoolDown, TypeOK
  <2> QED
    BY <1>0, <1>3, <2>2
    DEF CoolDown, envVars, refVars, Typed, TypeOK, RecordsAFailure
<1>4. ASSUME NEW j \in Jobs, NEW s \in {"start", "tick", "drain"},
             EnterFire(j, s), UNCHANGED outcome
      PROVE  /\ pc' \in [Jobs -> Locations] /\ RecordsAFailure'
             /\ site' \in [Jobs -> {"start", "tick", "drain"}]
  <2>1. PICK to \in {"gate", "invoke"} : Goto(j, to)
    BY <1>4 DEF EnterFire, Goto
  <2>2. to \in Locations /\ to \notin BadLocations
    BY <2>1 DEF BadLocations
  <2>3. pc' \in [Jobs -> Locations] /\ RecordsAFailure'
    BY <1>0, <1>4, <2>1, <2>2, MoveType
  <2> QED BY <1>0, <1>4, <2>3 DEF EnterFire, TypeOK
<1>5. ASSUME NEW j \in Jobs, NEW to \in Locations \ BadLocations,
             Goto(j, to), UNCHANGED outcome
      PROVE  pc' \in [Jobs -> Locations] /\ RecordsAFailure'
  BY <1>0, <1>5, MoveType
<1>6. /\ \A j \in Jobs : AfterFire(j) \notin BadLocations
      /\ "select" \notin BadLocations /\ "finish" \notin BadLocations
      /\ "invoke" \notin BadLocations /\ "running" \notin BadLocations
      /\ "crashed" \notin BadLocations
      /\ "aborted" \notin BadLocations /\ "abandoned" \notin BadLocations
  BY DEF BadLocations, AfterFire
<1>7. ASSUME NEW j \in Jobs, Start(j)
      PROVE  Typed'
  <2>1. notices' \in [Jobs -> BOOLEAN]
    BY <1>0, <1>7, EnvironmentAssumption DEF Start, TypeOK
  <2>2. /\ pc' \in [Jobs -> Locations] /\ RecordsAFailure'
        /\ site' \in [Jobs -> {"start", "tick", "drain"}]
    BY <1>0, <1>4, <1>5, <1>6, <1>7 DEF Start, TypeOK
  <2> QED
    BY <1>0, <1>7, <2>1, <2>2 DEF Start, envVars, refVars, Typed, TypeOK
<1>8. ASSUME NEW j \in Jobs, WakeTick(j)
      PROVE  Typed'
  <2>1. /\ pc' \in [Jobs -> Locations] /\ RecordsAFailure'
        /\ site' \in [Jobs -> {"start", "tick", "drain"}]
    BY <1>4, <1>8 DEF WakeTick
  <2> QED BY <1>0, <1>8, <2>1 DEF WakeTick, envVars, refVars, Typed, TypeOK
<1>9. ASSUME NEW j \in Jobs, ObserveShutdown(j)
      PROVE  Typed'
  <2>1. /\ pc' \in [Jobs -> Locations] /\ RecordsAFailure'
        /\ site' \in [Jobs -> {"start", "tick", "drain"}]
    BY <1>0, <1>4, <1>5, <1>6, <1>9 DEF ObserveShutdown, TypeOK
  <2> QED
    BY <1>0, <1>9, <2>1 DEF ObserveShutdown, envVars, refVars, Typed, TypeOK
<1>10. ASSUME NEW j \in Jobs, Gate(j)
       PROVE  Typed'
  <2>1. pc' \in [Jobs -> Locations] /\ RecordsAFailure'
    BY <1>5, <1>6, <1>10 DEF Gate
  <2>2. stats' \in [Jobs -> StatsRecords]
    <3>1. [stats EXCEPT ![j].skips = stats[j].skips + 1]
             \in [Jobs -> StatsRecords]
      BY <1>0, StatsType DEF TypeOK, Messages
    <3>2. stats \in [Jobs -> StatsRecords]
      BY <1>0 DEF TypeOK
    <3> QED BY <1>10, <3>1, <3>2 DEF Gate
  <2>3. history' \in [Jobs -> Seq(Outcomes)]
    <3>1. Append(history[j], "skip") \in Seq(Outcomes)
      BY <1>0 DEF TypeOK, Outcomes
    <3>2. history \in [Jobs -> Seq(Outcomes)]
      BY <1>0 DEF TypeOK
    <3> QED BY <1>10, <3>1, <3>2 DEF Gate
  <2> QED BY <1>0, <1>10, <2>1, <2>2, <2>3 DEF Gate, envVars, Typed, TypeOK
<1>11. ASSUME NEW j \in Jobs, Pause(j)
       PROVE  Typed'
  <2>1. pc' \in [Jobs -> Locations] /\ RecordsAFailure'
    BY <1>5, <1>6, <1>11 DEF Pause
  <2>2. stats' \in [Jobs -> StatsRecords]
    <3>1. [stats EXCEPT ![j].paused = stats[j].paused + 1]
             \in [Jobs -> StatsRecords]
      BY <1>0, StatsType DEF TypeOK, Messages
    <3> QED BY <1>0, <1>11, <3>1 DEF Pause, TypeOK
  <2>3. history' \in [Jobs -> Seq(Outcomes)]
    <3>1. Append(history[j], "paused") \in Seq(Outcomes)
      BY <1>0 DEF TypeOK, Outcomes
    <3> QED BY <1>0, <1>11, <3>1 DEF Pause, TypeOK
  <2> QED BY <1>0, <1>11, <2>1, <2>2, <2>3 DEF Pause, envVars, Typed, TypeOK
<1>12. ASSUME NEW j \in Jobs, Invoke(j)
       PROVE  Typed'
  <2>1. pc' \in [Jobs -> Locations] /\ RecordsAFailure'
    BY <1>5, <1>6, <1>12 DEF Invoke
  <2>2. calls' \in [Jobs -> Nat]
    BY <1>0, <1>12 DEF Invoke, TypeOK
  <2>3. UNCHANGED <<spec, shutdown, aborted, site, notices, outcome, stats,
                    brk, history, hooks>>
    BY <1>12 DEF Invoke, envVars
  <2> QED BY <1>0, <2>1, <2>2, <2>3 DEF Typed, TypeOK
<1>13. ASSUME NEW j \in Jobs, Resolve(j)
       PROVE  Typed'
  <2>1. PICK r \in Results(j) :
            /\ outcome' = [outcome EXCEPT ![j] = r]
            /\ history' = [history EXCEPT ![j] = Append(@, r)]
            /\ Goto(j, IF r \in Failed THEN "bad_fires" ELSE "ok_fires")
            /\ \/ \E b \in AfterCall(brk[j], r) : brk' = [brk EXCEPT ![j] = b]
               \/ UNCHANGED brk
    BY <1>13 DEF Resolve
  <2>2. r \in Ran /\ r \in Outcomes
    BY <2>1 DEF Results, Ran, Failed, Outcomes
  <2>3. brk' \in [Jobs -> Breakers]
    <3>1. brk[j] \in Breakers
      BY <1>0 DEF TypeOK
    <3>2. AfterCall(brk[j], r) \subseteq Breakers
      BY <2>2, <3>1, BreakerType
    <3> QED BY <1>0, <2>1, <3>2 DEF TypeOK
  <2>4. pc' \in [Jobs -> Locations] /\ outcome' \in [Jobs -> Ran]
    BY <1>0, <2>1, <2>2 DEF Goto, TypeOK
  <2>5. history' \in [Jobs -> Seq(Outcomes)]
    <3>1. Append(history[j], r) \in Seq(Outcomes)
      BY <1>0, <2>2 DEF TypeOK
    <3> QED BY <1>0, <2>1, <3>1 DEF TypeOK
  <2>6. RecordsAFailure'
    <3>1. "ok_fires" \notin BadLocations
      BY DEF BadLocations
    <3> QED BY <1>0, <2>1, <3>1 DEF RecordsAFailure, Goto, TypeOK
  <2> QED
    BY <1>0, <1>13, <2>3, <2>4, <2>5, <2>6 DEF Resolve, envVars, Typed, TypeOK
<1> DEFINE StatsOK == stats' \in [Jobs -> StatsRecords]
           HooksOK == hooks' \in [Jobs -> Nat]
<1>14. ASSUME UNCHANGED hooks
       PROVE  HooksOK
  BY <1>0, <1>14 DEF TypeOK
<1>15. ASSUME NEW j \in Jobs, CountFire(j)
       PROVE  Typed'
  <2>1. StatsOK
    BY <1>0, <1>15, StatsType DEF CountFire, TypeOK, Messages
  <2> QED
    BY <1>14, <1>15, <2>1, RecordType DEF CountFire, BadLocations
<1>16. ASSUME NEW j \in Jobs, ResetBudget(j)
       PROVE  Typed'
  <2>1. StatsOK
    BY <1>0, <1>16, StatsType DEF ResetBudget, TypeOK, Messages
  <2> QED BY <1>14, <1>16, <2>1, RecordType DEF ResetBudget, BadLocations
<1>17. ASSUME NEW j \in Jobs, ClearDegraded(j)
       PROVE  Typed'
  <2>1. StatsOK
    BY <1>0, <1>17, StatsType DEF ClearDegraded, TypeOK, Messages
  <2> QED BY <1>6, <1>14, <1>17, <2>1, RecordType DEF ClearDegraded
<1>18. ASSUME NEW j \in Jobs, CountFailure(j)
       PROVE  Typed'
  <2>1. StatsOK
    BY <1>0, <1>18, StatsType DEF CountFailure, TypeOK, Messages
  <2> QED BY <1>14, <1>18, <2>1, RecordType DEF CountFailure, BadLocations
<1>19. ASSUME NEW j \in Jobs, SpendBudget(j)
       PROVE  Typed'
  <2>1. (stats[j].consecutive + 1) % ConsecutiveRange \in Nat
    BY <1>0, NumbersAssumption DEF TypeOK, StatsRecords
  <2>2. StatsOK
    BY <1>0, <1>19, <2>1, StatsType DEF SpendBudget, TypeOK, Messages
  <2>3. PICK to \in {"bad_swap", "bad_error"} : Record(j, "bad_budget", to)
    BY <1>19 DEF SpendBudget
  <2>4. "bad_budget" \in BadLocations
    BY DEF BadLocations
  <2> QED BY <1>14, <1>19, <2>2, <2>3, <2>4, RecordType DEF SpendBudget
<1>20. ASSUME NEW j \in Jobs, SwapDegraded(j)
       PROVE  Typed'
  <2>1. StatsOK
    BY <1>0, <1>20, StatsType DEF SwapDegraded, TypeOK, Messages
  <2>2. PICK to \in {"bad_hook", "bad_error"} : Record(j, "bad_swap", to)
    BY <1>20 DEF SwapDegraded
  <2>3. "bad_swap" \in BadLocations
    BY DEF BadLocations
  <2> QED BY <1>14, <1>20, <2>1, <2>2, <2>3, RecordType DEF SwapDegraded
<1>21. ASSUME NEW j \in Jobs, CallHook(j)
       PROVE  Typed'
  <2>1. StatsOK /\ HooksOK
    BY <1>0, <1>21 DEF CallHook, TypeOK
  <2>2. PICK to \in {"bad_error", "hook_panic"} : Record(j, "bad_hook", to)
    BY <1>21 DEF CallHook
  <2>3. "bad_hook" \in BadLocations
    BY DEF BadLocations
  <2> QED BY <2>1, <2>2, <2>3, RecordType
<1>22. ASSUME NEW j \in Jobs, RecordLastError(j)
       PROVE  Typed'
  <2>1. outcome[j] \in Failed
    BY <1>0, <1>22 DEF RecordLastError, Record, RecordsAFailure, BadLocations
  <2>2. Message[outcome[j]] \in Messages
    BY <2>1 DEF Messages
  <2>3. StatsOK
    BY <1>0, <1>22, <2>2, StatsType DEF RecordLastError, TypeOK
  <2> QED BY <1>6, <1>14, <1>22, <2>3, RecordType DEF RecordLastError
<1>23. ASSUME NEW j \in Jobs, Finish(j)
       PROVE  Typed'
  <2>1. StatsOK /\ HooksOK
    BY <1>0, <1>23 DEF Finish, TypeOK
  <2> QED BY <1>23, <2>1, RecordType DEF Finish, BadLocations
<1>24. ASSUME NEW j \in Jobs, Cancel(j)
       PROVE  Typed'
  <2>1. pc' \in [Jobs -> Locations] /\ RecordsAFailure'
    BY <1>5, <1>6, <1>24 DEF Cancel
  <2> QED BY <1>0, <1>24, <2>1 DEF Cancel, envVars, refVars, Typed, TypeOK
<1> QED
  BY <1>1, <1>2, <1>3, <1>7, <1>8, <1>9, <1>10, <1>11, <1>12, <1>13, <1>15,
     <1>16, <1>17, <1>18, <1>19, <1>20, <1>21, <1>22, <1>23, <1>24
  DEF Next, LoopStep, RecordStep

\* The loops start out typed.
LEMMA InitTyped == Init => Typed
<1>1. NewBreaker \in Breakers
  BY DEF NewBreaker, Breakers
<1>2. NewStats \in StatsRecords
  BY DEF NewStats, StatsRecords, Messages
<1>3. /\ "spawned" \in Locations /\ "spawned" \notin BadLocations
      /\ "ok" \in Ran /\ <<>> \in Seq(Outcomes)
  BY LocationType DEF Ran, BadLocations
<1> SUFFICES ASSUME Init
             PROVE  Typed
  OBVIOUS
<1>4. /\ stats \in [Jobs -> StatsRecords] /\ brk \in [Jobs -> Breakers]
      /\ pc \in [Jobs -> Locations] /\ outcome \in [Jobs -> Ran]
      /\ history \in [Jobs -> Seq(Outcomes)]
  BY <1>1, <1>2, <1>3 DEF Init
<1>5. /\ spec \in [Jobs -> Specs]
      /\ shutdown \in BOOLEAN
      /\ aborted \in BOOLEAN
      /\ site \in [Jobs -> {"start", "tick", "drain"}]
      /\ notices \in [Jobs -> BOOLEAN]
      /\ calls \in [Jobs -> Nat]
      /\ hooks \in [Jobs -> Nat]
  BY DEF Init
<1>6. RecordsAFailure
  BY <1>3 DEF Init, RecordsAFailure
<1> QED BY <1>4, <1>5, <1>6 DEF Typed, TypeOK

\* Every variable of the job loop keeps its type, and a failure is recorded
\* as one.
LEMMA TypedAlways == Spec => []Typed
BY InitTyped, TypeInductive, PTL DEF Spec

\* Every variable of the job loop keeps its type.
THEOREM TypeCorrect == Spec => []TypeOK
BY TypedAlways, PTL DEF Typed

-----------------------------------------------------------------------------
(***************************************************************************)
(* The counters.  CountersMatchHistory says nothing while a fire is being  *)
(* recorded; the strengthening says what is still to be written there.     *)
(***************************************************************************)
One(b) == IF b THEN 1 ELSE 0

\* A job at location p, with counters s, history h and c invocations: what
\* was counted and what is still due make up what happened.
Tallied(p, s, h, c) ==
    /\ s.fires + One(p \in {"ok_fires", "bad_fires"}) = Count(h, Ran)
    /\ s.failures + One(p \in {"bad_fires", "bad_failures"}) = Count(h, Failed)
    /\ s.skips = Count(h, {"skip"})
    /\ s.paused = Count(h, {"paused"})
    /\ s.failures + One(p = "bad_failures") <= s.fires
    /\ p \in {"running", "crashed", "ok_fires", "bad_fires"}
          => c = s.fires + 1
    /\ p = "abandoned" => c \in {s.fires, s.fires + 1}
    /\ p \notin {"running", "crashed", "ok_fires", "bad_fires", "abandoned"}
          => c = s.fires

CountersInv == \A j \in Jobs : Tallied(pc[j], stats[j], history[j], calls[j])

\* A step of one job leaves the state of the others alone.
LEMMA OthersUnchanged ==
    ASSUME TypeOK, NEW j \in Jobs, NEW k \in Jobs, k # j,
           LoopStep(j) \/ Finish(j) \/ CoolDown(j)
    PROVE  /\ pc'[k] = pc[k] /\ stats'[k] = stats[k]
           /\ history'[k] = history[k] /\ calls'[k] = calls[k]
           /\ hooks'[k] = hooks[k] /\ brk'[k] = brk[k]
           /\ outcome'[k] = outcome[k] /\ site'[k] = site[k]
<1> USE DEF Goto, refVars, TypeOK
<1>1. CASE CoolDown(j) \/ Cancel(j)
  BY <1>1 DEF CoolDown, Cancel
<1>2. CASE Start(j) \/ WakeTick(j) \/ ObserveShutdown(j)
  BY <1>2 DEF Start, WakeTick, ObserveShutdown, EnterFire
<1>3. CASE Gate(j) \/ Pause(j)
  BY <1>3 DEF Gate, Pause
<1>4. CASE Invoke(j) \/ Resolve(j)
  BY <1>4 DEF Invoke, Resolve
<1>5. CASE CountFire(j) \/ ResetBudget(j) \/ ClearDegraded(j) \/ CountFailure(j)
  BY <1>5 DEF CountFire, ResetBudget, ClearDegraded, CountFailure, Record
<1>6. CASE \/ SpendBudget(j) \/ SwapDegraded(j) \/ CallHook(j)
           \/ RecordLastError(j) \/ Finish(j)
  BY <1>6 DEF SpendBudget, SwapDegraded, CallHook, RecordLastError, Finish, Record
<1> QED BY <1>1, <1>2, <1>3, <1>4, <1>5, <1>6 DEF LoopStep, RecordStep

\* Every step of a job keeps its counters in step with its history.
LEMMA TalliedStep ==
    ASSUME Typed, NEW j \in Jobs,
           Tallied(pc[j], stats[j], history[j], calls[j]),
           LoopStep(j) \/ Finish(j) \/ CoolDown(j)
    PROVE  Tallied(pc'[j], stats'[j], history'[j], calls'[j])
<1>0. /\ TypeOK
      /\ history[j] \in Seq(Outcomes) /\ stats[j] \in StatsRecords
      /\ calls[j] \in Nat
  BY DEF Typed, TypeOK
<1>c. \A S, o : o \in Outcomes =>
         /\ Count(history[j], S) \in Nat
         /\ Count(Append(history[j], o), S) = Count(history[j], S) + One(o \in S)
  BY <1>0, CountAppend DEF One
<1>n. /\ stats[j].fires \in Nat /\ stats[j].failures \in Nat
      /\ stats[j].skips \in Nat /\ stats[j].paused \in Nat
  BY <1>0 DEF StatsRecords
<1>1. CASE CoolDown(j)
  BY <1>1 DEF CoolDown, refVars
<1>2. CASE Start(j) \/ WakeTick(j) \/ ObserveShutdown(j)
  <2>1. /\ pc[j] \in {"spawned", "select"}
        /\ pc'[j] \in {"gate", "invoke", "select", "finish"}
        /\ UNCHANGED <<stats, history, calls>>
    BY <1>0, <1>2
    DEF Start, WakeTick, ObserveShutdown, EnterFire, Goto, refVars, TypeOK
  <2> QED BY <2>1 DEF Tallied, One
<1>3. CASE Gate(j)
  <2>1. CASE UNCHANGED <<stats, history>>
    <3>1. pc[j] = "gate" /\ pc'[j] \in {"invoke", "select", "finish"}
          /\ UNCHANGED calls
      BY <1>0, <1>3 DEF Gate, Goto, AfterFire, TypeOK
    <3> QED BY <2>1, <3>1 DEF Tallied, One
  <2>2. CASE ~UNCHANGED <<stats, history>>
    <3>1. /\ pc[j] = "gate" /\ pc'[j] \in {"select", "finish"}
          /\ stats'[j] = [stats[j] EXCEPT !.skips = @ + 1]
          /\ history'[j] = Append(history[j], "skip")
          /\ calls'[j] = calls[j]
      BY <1>0, <1>3, <2>2 DEF Gate, Goto, AfterFire, TypeOK
    <3>2. /\ stats'[j].skips = stats[j].skips + 1
          /\ stats'[j].fires = stats[j].fires
          /\ stats'[j].failures = stats[j].failures
          /\ stats'[j].paused = stats[j].paused
      BY <1>0, <3>1 DEF StatsRecords
    <3>3. /\ Count(history'[j], Ran) = Count(history[j], Ran)
          /\ Count(history'[j], Failed) = Count(history[j], Failed)
          /\ Count(history'[j], {"skip"}) = Count(history[j], {"skip"}) + 1
          /\ Count(history'[j], {"paused"}) = Count(history[j], {"paused"})
      BY <1>c, <3>1 DEF One, Outcomes, Ran, Failed
    <3> QED BY <3>1, <3>2, <3>3 DEF Tallied, One
  <2> QED BY <2>1, <2>2
<1>4. CASE Pause(j)
  <2>1. /\ pc[j] = "invoke" /\ pc'[j] \in {"select", "finish"}
        /\ stats'[j] = [stats[j] EXCEPT !.paused = @ + 1]
        /\ history'[j] = Append(history[j], "paused")
        /\ calls'[j] = calls[j]
    BY <1>0, <1>4 DEF Pause, Goto, AfterFire, TypeOK
  <2>2. /\ stats'[j].paused = stats[j].paused + 1
        /\ stats'[j].fires = stats[j].fires
        /\ stats'[j].failures = stats[j].failures
        /\ stats'[j].skips = stats[j].skips
    BY <1>0, <2>1 DEF StatsRecords
  <2>3. /\ Count(history'[j], Ran) = Count(history[j], Ran)
        /\ Count(history'[j], Failed) = Count(history[j], Failed)
        /\ Count(history'[j], {"paused"}) = Count(history[j], {"paused"}) + 1
        /\ Count(history'[j], {"skip"}) = Count(history[j], {"skip"})
    BY <1>c, <2>1 DEF One, Outcomes, Ran, Failed
  <2> QED BY <2>1, <2>2, <2>3 DEF Tallied, One
<1>5. CASE Invoke(j)
  <2>1. /\ pc[j] = "invoke" /\ pc'[j] \in {"running", "crashed"}
        /\ calls'[j] = calls[j] + 1
        /\ UNCHANGED <<stats, history>>
    BY <1>0, <1>5 DEF Invoke, Goto, TypeOK
  <2> QED BY <2>1 DEF Tallied, One
<1>6. CASE Resolve(j)
  <2>1. PICK r \in Results(j) :
            /\ pc[j] = "running"
            /\ pc' = [pc EXCEPT ![j] =
                         IF r \in Failed THEN "bad_fires" ELSE "ok_fires"]
            /\ history' = [history EXCEPT ![j] = Append(@, r)]
            /\ UNCHANGED <<stats, calls>>
    BY <1>6 DEF Resolve, Goto
  <2>2. r \in Ran /\ r \in Outcomes
    BY <2>1 DEF Results, Ran, Failed, Outcomes
  <2>3. /\ pc'[j] = IF r \in Failed THEN "bad_fires" ELSE "ok_fires"
        /\ history'[j] = Append(history[j], r)
    BY <1>0, <2>1 DEF TypeOK
  <2>4. /\ Count(history'[j], Ran) = Count(history[j], Ran) + 1
        /\ Count(history'[j], Failed)
              = Count(history[j], Failed) + One(r \in Failed)
        /\ Count(history'[j], {"skip"}) = Count(history[j], {"skip"})
        /\ Count(history'[j], {"paused"}) = Count(history[j], {"paused"})
    <3>1. r # "skip" /\ r # "paused"
      BY <2>2 DEF Ran, Failed
    <3> QED BY <1>c, <2>2, <2>3, <3>1 DEF One
  <2> QED BY <1>n, <2>1, <2>3, <2>4 DEF Tallied, One
<1>7. CASE CountFire(j)
  <2>1. /\ \/ pc[j] = "ok_fires" /\ pc'[j] = "ok_reset"
           \/ pc[j] = "bad_fires" /\ pc'[j] = "bad_failures"
        /\ stats'[j] = [stats[j] EXCEPT !.fires = @ + 1]
        /\ UNCHANGED <<history, calls>>
    BY <1>0, <1>7 DEF CountFire, Record, Goto, TypeOK
  <2>2. /\ stats'[j].fires = stats[j].fires + 1
        /\ stats'[j].failures = stats[j].failures
        /\ stats'[j].skips = stats[j].skips
        /\ stats'[j].paused = stats[j].paused
    BY <1>0, <2>1 DEF StatsRecords
  <2> QED BY <1>n, <2>1, <2>2 DEF Tallied, One
<1>8. CASE CountFailure(j)
  <2>1. /\ pc[j] = "bad_failures" /\ pc'[j] = "bad_budget"
        /\ stats'[j] = [stats[j] EXCEPT !.failures = @ + 1]
        /\ UNCHANGED <<history, calls>>
    BY <1>0, <1>8 DEF CountFailure, Record, Goto, TypeOK
  <2>2. /\ stats'[j].failures = stats[j].failures + 1
        /\ stats'[j].fires = stats[j].fires
        /\ stats'[j].skips = stats[j].skips
        /\ stats'[j].paused = stats[j].paused
    BY <1>0, <2>1 DEF StatsRecords
  <2> QED BY <1>n, <2>1, <2>2 DEF Tallied, One
<1>9. CASE \/ ResetBudget(j) \/ ClearDegraded(j) \/ SpendBudget(j)
           \/ SwapDegraded(j) \/ CallHook(j) \/ RecordLastError(j) \/ Finish(j)
  <2>1. /\ pc[j] \in {"ok_reset", "ok_clear", "bad_budget", "bad_swap",
                       "bad_hook", "bad_error", "finish"}
        /\ pc'[j] \in {"ok_clear", "bad_swap", "bad_hook", "bad_error",
                        "hook_panic", "select", "finish", "done"}
        /\ UNCHANGED <<history, calls>>
    BY <1>0, <1>9
    DEF ResetBudget, ClearDegraded, SpendBudget, SwapDegraded, CallHook,
        RecordLastError, Finish, Record, Goto, AfterFire, TypeOK
  <2>2. /\ stats'[j].failures = stats[j].failures
        /\ stats'[j].fires = stats[j].fires
        /\ stats'[j].skips = stats[j].skips
        /\ stats'[j].paused = stats[j].paused
    <3>1. \/ \E n : stats' = [stats EXCEPT ![j].consecutive = n]
          \/ \E b : stats' = [stats EXCEPT ![j].degraded = b]
          \/ \E m : stats' = [stats EXCEPT ![j].last_error = m]
          \/ UNCHANGED stats
      BY <1>9
      DEF ResetBudget, ClearDegraded, SpendBudget, SwapDegraded, CallHook,
          RecordLastError, Finish
    <3> QED BY <1>0, <3>1 DEF StatsRecords, TypeOK
  <2> QED BY <2>1, <2>2 DEF Tallied, One
<1>10. CASE Cancel(j)
  <2>1. /\ \/ pc[j] \in {"spawned", "select"} /\ pc'[j] = "aborted"
           \/ pc[j] \in {"gate", "running"} /\ pc'[j] = "abandoned"
        /\ UNCHANGED <<stats, history, calls>>
    BY <1>0, <1>10 DEF Cancel, Awaiting, Goto, refVars, TypeOK
  <2> QED BY <2>1 DEF Tallied, One
<1> QED
  BY <1>1, <1>2, <1>3, <1>4, <1>5, <1>6, <1>7, <1>8, <1>9, <1>10
  DEF LoopStep, RecordStep

\* The strengthened invariant is inductive.
LEMMA CountersInductive == Typed /\ CountersInv /\ [Next]_vars => CountersInv'
<1> SUFFICES ASSUME Typed, CountersInv, [Next]_vars
             PROVE  CountersInv'
  OBVIOUS
<1>1. CASE UNCHANGED <<pc, stats, history, calls>>
  BY <1>1 DEF CountersInv
<1>2. ASSUME NEW j \in Jobs, LoopStep(j) \/ Finish(j) \/ CoolDown(j)
      PROVE  CountersInv'
  <2> SUFFICES ASSUME NEW k \in Jobs
               PROVE  Tallied(pc'[k], stats'[k], history'[k], calls'[k])
    BY DEF CountersInv
  <2>1. Tallied(pc[k], stats[k], history[k], calls[k])
    BY DEF CountersInv
  <2>2. CASE k = j
    BY <1>2, <2>1, <2>2, TalliedStep
  <2>3. CASE k # j
    BY <1>2, <2>1, <2>3, OthersUnchanged DEF Typed
  <2> QED BY <2>2, <2>3
<1> QED BY <1>1, <1>2 DEF Next, vars, Signal, AbortAll, refVars

\* Types and tallies, in every reachable state.
LEMMA CountersAlways == Spec => [](Typed /\ CountersInv)
<1>1. Init => CountersInv
  BY CountEmpty DEF Init, CountersInv, Tallied, One, NewStats
<1> QED BY <1>1, TypedAlways, CountersInductive, PTL DEF Spec

\* Every attempt is counted once, under its own counter, for every job.
THEOREM CountersCorrect == Spec => []CountersMatchHistory
<1>1. Typed /\ CountersInv => CountersMatchHistory
  <2> SUFFICES ASSUME Typed, CountersInv, NEW j \in Jobs, Settled(j)
               PROVE  /\ stats[j].fires = Count(history[j], Ran)
                      /\ stats[j].failures = Count(history[j], Failed)
                      /\ stats[j].skips = Count(history[j], {"skip"})
                      /\ stats[j].paused = Count(history[j], {"paused"})
    BY DEF CountersMatchHistory
  <2>1. pc[j] \notin {"ok_fires", "bad_fires", "bad_failures"}
    BY DEF Settled, Recording
  <2>2. stats[j].fires \in Nat /\ stats[j].failures \in Nat
    BY DEF Typed, TypeOK, StatsRecords
  <2> QED BY <2>1, <2>2 DEF CountersInv, Tallied, One
<1> QED BY <1>1, CountersAlways, PTL

\* The fires reported are the closure's own invocations, but for the one
\* in flight when the task was unwound or cancelled.
THEOREM CallsCounted == Spec => []EveryCallCounted
<1>1. Typed /\ CountersInv => EveryCallCounted
  <2> SUFFICES ASSUME Typed, CountersInv, NEW j \in Jobs, Settled(j)
               PROVE  /\ pc[j] \in {"running", "crashed"}
                            => calls[j] = stats[j].fires + 1
                      /\ pc[j] = "abandoned"
                            => calls[j] - stats[j].fires \in {0, 1}
                      /\ pc[j] \notin {"running", "crashed", "abandoned"}
                            => calls[j] = stats[j].fires
    BY DEF EveryCallCounted
  <2>1. pc[j] \notin {"ok_fires", "bad_fires"}
    BY DEF Settled, Recording
  <2>2. stats[j].fires \in Nat
    BY DEF Typed, TypeOK, StatsRecords
  <2> QED BY <2>1, <2>2 DEF CountersInv, Tallied
<1> QED BY <1>1, CountersAlways, PTL

-----------------------------------------------------------------------------
(***************************************************************************)
(* Arithmetic of the wrapping counter, and what one attempt adds to the    *)
(* failures in a row.                                                      *)
(***************************************************************************)

\* A remainder is the only one of its size.
LEMMA ModuloUnique ==
    ASSUME NEW R \in Nat \ {0}, NEW q \in Int, NEW r \in 0..(R - 1)
    PROVE  (q * R + r) % R = r
<1> DEFINE y == q * R + r
           p == y \div R
           s == y % R
<1>0. y \in Int /\ p \in Int
  OBVIOUS
<1>1. y = R * p + s /\ s \in 0..(R - 1)
  BY <1>0
<1>2. (q - p) * R = s - r
  BY <1>1
<1>3. ASSUME q - p >= 1 PROVE FALSE
  <2>1. (q - p) * R >= R
    BY <1>0, <1>3
  <2> QED BY <1>1, <1>2, <2>1
<1>4. ASSUME q - p <= -1 PROVE FALSE
  <2>1. (q - p) * R <= -R
    BY <1>0, <1>4
  <2> QED BY <1>1, <1>2, <2>1
<1>5. q = p
  BY <1>0, <1>3, <1>4
<1> QED BY <1>1, <1>2, <1>5

\* Incrementing a wrapped counter wraps the incremented number, so the
\* AtomicU32 is the number of failures in a row modulo its range.
LEMMA ModuloNext ==
    ASSUME NEW R \in Nat \ {0}, NEW x \in Nat
    PROVE  ((x % R) + 1) % R = (x + 1) % R
<1> DEFINE q == x \div R
           r == x % R
<1>1. x = q * R + r /\ r \in 0..(R - 1) /\ q \in Int
  OBVIOUS
<1>2. CASE r + 1 < R
  <2>1. r + 1 \in 0..(R - 1)
    BY <1>1, <1>2
  <2>2. (q * R + (r + 1)) % R = r + 1
    BY <1>1, <2>1, ModuloUnique
  <2>3. (0 * R + (r + 1)) % R = r + 1
    BY <2>1, ModuloUnique
  <2> QED BY <1>1, <2>1, <2>2, <2>3
<1>3. CASE r + 1 = R
  <2>1. 0 \in 0..(R - 1)
    OBVIOUS
  <2>2. ((q + 1) * R + 0) % R = 0
    BY <1>1, <2>1, ModuloUnique
  <2>3. (1 * R + 0) % R = 0
    BY <2>1, ModuloUnique
  <2>4. x + 1 = (q + 1) * R + 0
    BY <1>1, <1>3
  <2> QED BY <1>1, <1>3, <2>2, <2>3, <2>4
<1> QED BY <1>1, <1>2, <1>3

\* A number below the range is not changed by wrapping it.
LEMMA ModuloSmall ==
    ASSUME NEW R \in Nat \ {0}, NEW x \in Nat
    PROVE  /\ x % R \in Nat
           /\ x % R <= x
           /\ x < R => x % R = x
OBVIOUS

\* One more attempt: a success ends the failures in a row, a failure adds
\* one, and an attempt that ran nothing leaves them.
LEMMA StreakAppend ==
    ASSUME NEW h \in Seq(Outcomes), NEW o \in Outcomes
    PROVE  /\ Streak(h) \in Nat
           /\ o = "ok" => Streak(Append(h, o)) = 0
           /\ o \in Failed => Streak(Append(h, o)) = Streak(h) + 1
           /\ o \in {"skip", "paused"} => Streak(Append(h, o)) = Streak(h)
<1> DEFINE A == SinceSuccess(h)
           B == SinceSuccess(Append(h, o))
           n == Len(h) + 1
<1>1. n \in Nat /\ DOMAIN h = 1..Len(h) /\ Len(h) \in Nat
  OBVIOUS
<1>2. /\ DOMAIN Append(h, o) = 1..n /\ Len(Append(h, o)) = n
      /\ Append(h, o)[n] = o
      /\ \A i \in 1..Len(h) : Append(h, o)[i] = h[i]
  OBVIOUS
<1>3. IsFiniteSet(A)
  <2>1. IsFiniteSet(1..Len(h))
    BY <1>1, FS_Interval
  <2>2. A \subseteq 1..Len(h)
    BY <1>1 DEF SinceSuccess
  <2> QED BY <2>1, <2>2, FS_Subset
<1>4. n \notin A
  BY <1>1 DEF SinceSuccess
<1>5. Cardinality(A) \in Nat
  BY <1>3, FS_CardinalityType
<1>6. Cardinality(A \cup {n}) = Cardinality(A) + 1
  BY <1>3, <1>4, FS_AddElement
<1>7. \A i : i \in B <=> /\ i \in 1..n
                         /\ Append(h, o)[i] \in Failed
                         /\ \A k \in i..n : Append(h, o)[k] # "ok"
  BY <1>2 DEF SinceSuccess
<1>8. \A i : i \in A <=> /\ i \in 1..Len(h)
                         /\ h[i] \in Failed
                         /\ \A k \in i..Len(h) : h[k] # "ok"
  BY <1>1 DEF SinceSuccess
<1>9. \A i \in 1..Len(h) : \A k : k \in i..n <=> k \in i..Len(h) \/ k = n
  BY <1>1
<1> HIDE DEF A, B
<1>10. CASE o = "ok"
  <2>1. B = {}
    BY <1>1, <1>2, <1>7, <1>10
  <2> QED BY <1>5, <1>10, <2>1, FS_EmptySet DEF A, B, Streak, Failed
<1>11. ASSUME o # "ok", NEW i \in 1..Len(h)
       PROVE  i \in B <=> i \in A
  <2>1. i \in 1..n /\ Append(h, o)[i] = h[i]
    BY <1>1, <1>2
  <2>2. (\A k \in i..n : Append(h, o)[k] # "ok")
           <=> (\A k \in i..Len(h) : h[k] # "ok")
    <3>1. \A k \in i..Len(h) : Append(h, o)[k] = h[k]
      BY <1>1, <1>2
    <3> QED BY <1>2, <1>9, <1>11, <3>1
  <2> QED BY <1>7, <1>8, <2>1, <2>2
<1>12. ASSUME o # "ok"
       PROVE  n \in B <=> o \in Failed
  <2>1. \A k \in n..n : k = n
    BY <1>1
  <2>2. n \in 1..n
    BY <1>1
  <2> QED BY <1>2, <1>7, <1>12, <2>1, <2>2
<1>13. \A i : i \in 1..n <=> i \in 1..Len(h) \/ i = n
  BY <1>1
<1>14. CASE o \in Failed
  <2>0. o # "ok"
    BY <1>14 DEF Failed
  <2>1. B = A \cup {n}
    BY <1>7, <1>8, <1>11, <1>12, <1>13, <1>14, <2>0
  <2> QED BY <1>5, <1>6, <1>14, <2>0, <2>1 DEF A, B, Streak, Failed
<1>15. CASE o \in {"skip", "paused"}
  <2>0. o # "ok" /\ o \notin Failed
    BY <1>15 DEF Failed
  <2>1. B = A
    BY <1>7, <1>8, <1>11, <1>12, <1>13, <2>0
  <2> QED BY <1>5, <2>0, <2>1 DEF A, B, Streak
<1> QED BY <1>10, <1>14, <1>15 DEF Outcomes, Ran

\* No attempt, no streak.
LEMMA StreakEmpty == Streak(<<>>) = 0
<1>1. SinceSuccess(<<>>) = {}
  BY DEF SinceSuccess
<1> QED BY <1>1, FS_EmptySet DEF Streak

\* No step of a loop changes the settings of a job or raises the signal.
LEMMA SpecUnchanged ==
    ASSUME NEW j \in Jobs, LoopStep(j) \/ Finish(j) \/ CoolDown(j)
    PROVE  spec' = spec /\ shutdown' = shutdown
BY DEF LoopStep, RecordStep, Finish, CoolDown, Start, WakeTick,
       ObserveShutdown, Gate, Pause, Invoke, Resolve, CountFire, ResetBudget,
       ClearDegraded, CountFailure, SpendBudget, SwapDegraded, CallHook,
       RecordLastError, Cancel, Record, envVars

\* An attempt that does not invoke the closure leaves the budget alone: it
\* is elected and goes on, or is skipped, or is paused.
LEMMA NotInvoked ==
    ASSUME TypeOK, NEW j \in Jobs, Gate(j) \/ Pause(j)
    PROVE  /\ pc[j] \in {"gate", "invoke"}
           /\ pc'[j] \in {"invoke", "select", "finish"}
           /\ stats'[j].consecutive = stats[j].consecutive
           /\ stats'[j].degraded = stats[j].degraded
           /\ stats'[j].last_error = stats[j].last_error
           /\ \/ history'[j] = history[j]
              \/ history'[j] = Append(history[j], "skip")
              \/ history'[j] = Append(history[j], "paused")
           /\ UNCHANGED <<brk, hooks, outcome>>
<1>0. stats[j] \in StatsRecords
  BY DEF TypeOK
<1>1. /\ pc[j] \in {"gate", "invoke"}
      /\ pc'[j] \in {"invoke", "select", "finish"}
      /\ UNCHANGED <<brk, hooks, outcome>>
  BY DEF Gate, Pause, Goto, AfterFire, TypeOK
<1>2. \/ UNCHANGED stats
      \/ stats' = [stats EXCEPT ![j].skips = @ + 1]
      \/ stats' = [stats EXCEPT ![j].paused = @ + 1]
  BY DEF Gate, Pause
<1>3. /\ stats'[j].consecutive = stats[j].consecutive
      /\ stats'[j].degraded = stats[j].degraded
      /\ stats'[j].last_error = stats[j].last_error
  BY <1>0, <1>2 DEF TypeOK, StatsRecords
<1>4. \/ history'[j] = history[j]
      \/ history'[j] = Append(history[j], "skip")
      \/ history'[j] = Append(history[j], "paused")
  BY DEF Gate, Pause, TypeOK
<1> QED BY <1>1, <1>3, <1>4

-----------------------------------------------------------------------------
(***************************************************************************)
(* The failure budget.                                                     *)
(***************************************************************************)

\* The failure is in the history and not yet in the AtomicU32.
Unspent == {"bad_fires", "bad_failures", "bad_budget"}

\* A success on its way: the streak is over, the counter not yet reset.
Clearing == {"ok_fires", "ok_reset", "ok_clear"}

\* Counter c and flag d stand for n failures in a row, with budget b.
Stands(c, d, n, b) ==
    /\ c = n % ConsecutiveRange
    /\ d <=> n >= Threshold(b)

\* A job at location p, with counter c, flag d, n failures in a row and
\* budget b: what fire() has written of the budget so far.
Budgeted(p, c, d, n, b) ==
    /\ p \in Clearing => n = 0 /\ (p = "ok_clear" => c = 0)
    /\ p \in Unspent => n > 0 /\ Stands(c, d, n - 1, b)
    /\ p = "bad_swap" => /\ n >= Threshold(b)
                         /\ c = n % ConsecutiveRange
                         /\ d <=> n - 1 >= Threshold(b)
    /\ p \notin Clearing \cup Unspent \cup {"bad_swap"} => Stands(c, d, n, b)

BudgetInv ==
    \A j \in Jobs : Budgeted(pc[j], stats[j].consecutive, stats[j].degraded,
                             Streak(history[j]), spec[j].failure_budget)

\* One more failure: the wrapping increment counts it, and comparing the
\* wrapped counter with the budget tells when the budget is first reached.
\* A counter that has wrapped below the budget belongs to a job that is
\* Degraded already.
LEMMA SpendLemma ==
    ASSUME NEW b \in Nat, b < ConsecutiveRange, NEW n \in Nat, n > 0,
           NEW c, c = (n - 1) % ConsecutiveRange, NEW d,
           d <=> n - 1 >= Threshold(b)
    PROVE  LET e == (c + 1) % ConsecutiveRange IN
           /\ e = n % ConsecutiveRange
           /\ e >= b => n >= Threshold(b)
           /\ ~(e >= b) => n # Threshold(b) /\ (d <=> n >= Threshold(b))
<1> DEFINE R == ConsecutiveRange
           e == (c + 1) % R
           T == Threshold(b)
<1>0. R \in Nat \ {0} /\ n - 1 \in Nat /\ T \in Nat
  BY NumbersAssumption DEF Threshold
<1>1. e = n % R
  <2>1. (((n - 1) % R) + 1) % R = ((n - 1) + 1) % R
    BY <1>0, ModuloNext
  <2> QED BY <2>1
<1>2. e \in Nat /\ e <= n /\ (n < R => e = n)
  BY <1>0, <1>1, ModuloSmall
<1> HIDE DEF e, R
<1>3. e >= b => n >= T
  BY <1>2 DEF Threshold
<1>4. ASSUME ~(e >= b) PROVE n # T
  <2>1. b > 0 /\ T = b
    BY <1>2, <1>4 DEF Threshold
  <2>2. n = T => n < R
    BY <2>1 DEF R
  <2> QED BY <1>2, <1>4, <2>1, <2>2
<1>5. ASSUME ~(e >= b) PROVE d <=> n >= T
  BY <1>0, <1>4, <1>5
<1> QED BY <1>1, <1>3, <1>4, <1>5 DEF e, R

\* Every step of a job keeps its budget in step with its history.
LEMMA BudgetStep ==
    ASSUME Typed, NEW j \in Jobs,
           Budgeted(pc[j], stats[j].consecutive, stats[j].degraded,
                    Streak(history[j]), spec[j].failure_budget),
           LoopStep(j) \/ Finish(j) \/ CoolDown(j)
    PROVE  Budgeted(pc'[j], stats'[j].consecutive, stats'[j].degraded,
                    Streak(history'[j]), spec'[j].failure_budget)
<1> DEFINE n == Streak(history[j])
           b == spec[j].failure_budget
           c == stats[j].consecutive
           d == stats[j].degraded
<1>0. /\ TypeOK
      /\ history[j] \in Seq(Outcomes) /\ stats[j] \in StatsRecords
      /\ b \in Nat /\ b < ConsecutiveRange
  BY SpecsAssumption DEF Typed, TypeOK, JobSpecs
<1>s. spec' = spec
  BY SpecUnchanged
<1>n. n \in Nat /\ c \in Nat /\ d \in BOOLEAN /\ Threshold(b) \in Nat \ {0}
  <2>1. "ok" \in Outcomes
    BY DEF Outcomes, Ran
  <2> QED BY <1>0, <2>1, StreakAppend DEF StatsRecords, Threshold
<1>z. 0 % ConsecutiveRange = 0
  BY NumbersAssumption
<1>1. CASE \/ CoolDown(j) \/ Start(j) \/ WakeTick(j) \/ ObserveShutdown(j)
           \/ Invoke(j) \/ Cancel(j) \/ Finish(j)
  <2>1. /\ UNCHANGED <<stats, history>>
        /\ \/ pc'[j] = pc[j]
           \/ /\ pc[j] \in {"spawned", "select", "gate", "invoke", "running",
                            "finish"}
              /\ pc'[j] \in {"select", "gate", "invoke", "running", "crashed",
                             "finish", "abandoned", "aborted", "done"}
    BY <1>0, <1>1
    DEF CoolDown, Start, WakeTick, ObserveShutdown, EnterFire, Invoke, Cancel,
        Finish, Record, Goto, Awaiting, refVars, TypeOK
  <2> QED BY <1>s, <2>1 DEF Budgeted, Clearing, Unspent
<1>2. CASE Gate(j) \/ Pause(j)
  <2>1. /\ pc[j] \in {"gate", "invoke"}
        /\ pc'[j] \in {"invoke", "select", "finish"}
        /\ stats'[j].consecutive = c /\ stats'[j].degraded = d
        /\ \/ history'[j] = history[j]
           \/ history'[j] = Append(history[j], "skip")
           \/ history'[j] = Append(history[j], "paused")
    BY <1>0, <1>2, NotInvoked
  <2>2. Streak(history'[j]) = n
    BY <1>0, <2>1, StreakAppend DEF Outcomes
  <2> QED BY <1>s, <2>1, <2>2 DEF Budgeted, Clearing, Unspent
<1>3. CASE Resolve(j)
  <2>1. PICK r \in Results(j) :
            /\ pc[j] = "running"
            /\ pc' = [pc EXCEPT ![j] =
                         IF r \in Failed THEN "bad_fires" ELSE "ok_fires"]
            /\ history' = [history EXCEPT ![j] = Append(@, r)]
            /\ UNCHANGED stats
    BY <1>3 DEF Resolve, Goto
  <2>2. r \in Outcomes /\ (r \notin Failed => r = "ok")
    BY <2>1 DEF Results, Ran, Failed, Outcomes
  <2>3. /\ pc'[j] = IF r \in Failed THEN "bad_fires" ELSE "ok_fires"
        /\ history'[j] = Append(history[j], r)
    BY <1>0, <2>1 DEF TypeOK
  <2>4. Stands(c, d, n, b)
    BY <2>1 DEF Budgeted, Clearing, Unspent
  <2>5. CASE r \in Failed
    <3>1. Streak(history'[j]) = n + 1
      BY <1>0, <2>2, <2>3, <2>5, StreakAppend
    <3>2. Streak(history'[j]) > 0 /\ Streak(history'[j]) - 1 = n
      BY <1>n, <3>1
    <3> QED BY <1>s, <2>1, <2>3, <2>4, <2>5, <3>2
            DEF Budgeted, Clearing, Unspent
  <2>6. CASE r \notin Failed
    <3>1. Streak(history'[j]) = 0
      BY <1>0, <2>2, <2>3, <2>6, StreakAppend
    <3> QED BY <1>s, <2>3, <2>6, <3>1 DEF Budgeted, Clearing, Unspent
  <2> QED BY <2>5, <2>6
<1>4. CASE CountFire(j) \/ CountFailure(j)
  <2>1. /\ \/ pc[j] = "ok_fires" /\ pc'[j] = "ok_reset"
           \/ pc[j] = "bad_fires" /\ pc'[j] = "bad_failures"
           \/ pc[j] = "bad_failures" /\ pc'[j] = "bad_budget"
        /\ stats'[j].consecutive = c /\ stats'[j].degraded = d
        /\ UNCHANGED history
    BY <1>0, <1>4 DEF CountFire, CountFailure, Record, Goto, TypeOK, StatsRecords
  <2> QED BY <1>s, <2>1 DEF Budgeted, Clearing, Unspent
<1>5. CASE ResetBudget(j)
  <2>1. /\ pc[j] = "ok_reset" /\ pc'[j] = "ok_clear"
        /\ stats'[j].consecutive = 0
        /\ UNCHANGED history
    BY <1>0, <1>5 DEF ResetBudget, Record, Goto, TypeOK, StatsRecords
  <2> QED BY <1>s, <2>1 DEF Budgeted, Clearing, Unspent
<1>6. CASE ClearDegraded(j)
  <2>1. /\ pc[j] = "ok_clear" /\ pc'[j] \in {"select", "finish"}
        /\ stats'[j].consecutive = c /\ stats'[j].degraded = FALSE
        /\ UNCHANGED history
    BY <1>0, <1>6 DEF ClearDegraded, Record, Goto, AfterFire, TypeOK, StatsRecords
  <2>2. n = 0 /\ c = 0
    BY <2>1 DEF Budgeted, Clearing
  <2>3. Stands(0, FALSE, 0, b)
    BY <1>n, <1>z DEF Stands
  <2> QED BY <1>s, <2>1, <2>2, <2>3 DEF Budgeted, Clearing, Unspent
<1>7. CASE SpendBudget(j)
  <2> DEFINE e == (c + 1) % ConsecutiveRange
  <2>1. /\ pc[j] = "bad_budget"
        /\ pc'[j] = IF e >= b THEN "bad_swap" ELSE "bad_error"
        /\ stats'[j].consecutive = e /\ stats'[j].degraded = d
        /\ UNCHANGED history
    BY <1>0, <1>7
    DEF SpendBudget, OverBudget, Record, Goto, TypeOK, StatsRecords
  <2>2. n > 0 /\ c = (n - 1) % ConsecutiveRange /\ (d <=> n - 1 >= Threshold(b))
    BY <2>1 DEF Budgeted, Unspent, Stands
  <2>3. /\ e = n % ConsecutiveRange
        /\ e >= b => n >= Threshold(b)
        /\ ~(e >= b) => (d <=> n >= Threshold(b))
    BY <1>0, <1>n, <2>2, SpendLemma
  <2> HIDE DEF e
  <2> QED BY <1>s, <2>1, <2>2, <2>3 DEF Budgeted, Clearing, Unspent, Stands
<1>8. CASE SwapDegraded(j)
  <2>1. /\ pc[j] = "bad_swap" /\ pc'[j] \in {"bad_hook", "bad_error"}
        /\ stats'[j].consecutive = c /\ stats'[j].degraded = TRUE
        /\ UNCHANGED history
    BY <1>0, <1>8 DEF SwapDegraded, Record, Goto, TypeOK, StatsRecords
  <2> QED BY <1>s, <2>1 DEF Budgeted, Clearing, Unspent, Stands
<1>9. CASE CallHook(j) \/ RecordLastError(j)
  <2>1. /\ pc[j] \in {"bad_hook", "bad_error"}
        /\ pc'[j] \in {"bad_error", "hook_panic", "select", "finish"}
        /\ stats'[j].consecutive = c /\ stats'[j].degraded = d
        /\ UNCHANGED history
    BY <1>0, <1>9
    DEF CallHook, RecordLastError, Record, Goto, AfterFire, TypeOK, StatsRecords
  <2> QED BY <1>s, <2>1 DEF Budgeted, Clearing, Unspent
<1> QED
  BY <1>1, <1>2, <1>3, <1>4, <1>5, <1>6, <1>7, <1>8, <1>9
  DEF LoopStep, RecordStep

\* The strengthened invariant is inductive.
LEMMA BudgetInductive == Typed /\ BudgetInv /\ [Next]_vars => BudgetInv'
<1> SUFFICES ASSUME Typed, BudgetInv, [Next]_vars
             PROVE  BudgetInv'
  OBVIOUS
<1>1. CASE UNCHANGED <<spec, pc, stats, history>>
  BY <1>1 DEF BudgetInv
<1>2. ASSUME NEW j \in Jobs, LoopStep(j) \/ Finish(j) \/ CoolDown(j)
      PROVE  BudgetInv'
  <2> SUFFICES ASSUME NEW k \in Jobs
               PROVE  Budgeted(pc'[k], stats'[k].consecutive,
                               stats'[k].degraded, Streak(history'[k]),
                               spec'[k].failure_budget)
    BY DEF BudgetInv
  <2>1. Budgeted(pc[k], stats[k].consecutive, stats[k].degraded,
                 Streak(history[k]), spec[k].failure_budget)
    BY DEF BudgetInv
  <2>2. CASE k = j
    BY <1>2, <2>1, <2>2, BudgetStep
  <2>3. CASE k # j
    <3>1. spec' = spec
      BY <1>2, SpecUnchanged
    <3> QED BY <1>2, <2>1, <2>3, <3>1, OthersUnchanged DEF Typed
  <2> QED BY <2>2, <2>3
<1> QED BY <1>1, <1>2 DEF Next, vars, Signal, AbortAll, refVars

\* The budget is in step with the history in every reachable state.
LEMMA BudgetAlways == Spec => [](Typed /\ BudgetInv)
<1>1. Init => BudgetInv
  <2>1. 0 % ConsecutiveRange = 0
    BY NumbersAssumption
  <2> SUFFICES ASSUME Init, NEW j \in Jobs
               PROVE  Budgeted(pc[j], stats[j].consecutive, stats[j].degraded,
                               Streak(history[j]), spec[j].failure_budget)
    BY DEF BudgetInv
  <2>2. Threshold(spec[j].failure_budget) \in Nat \ {0}
    BY SpecsAssumption DEF Init, JobSpecs, Threshold
  <2>3. /\ pc[j] = "spawned" /\ stats[j].consecutive = 0
        /\ stats[j].degraded = FALSE /\ Streak(history[j]) = 0
    BY StreakEmpty DEF Init, NewStats
  <2>4. Stands(0, FALSE, 0, spec[j].failure_budget)
    BY <2>1, <2>2 DEF Stands
  <2> QED BY <2>3, <2>4 DEF Budgeted, Clearing, Unspent
<1> QED BY <1>1, TypedAlways, BudgetInductive, PTL DEF Spec

\* consecutive_failures is the failures in a row, and a job is Degraded
\* exactly when they have reached its budget, for every job.
THEOREM BudgetCorrect == Spec => []BudgetMatchesHistory
<1>1. BudgetInv => BudgetMatchesHistory
  BY DEF BudgetInv, BudgetMatchesHistory, Budgeted, Stands, Clearing, Unspent,
         Settled, Recording
<1> QED BY <1>1, BudgetAlways, PTL

-----------------------------------------------------------------------------
(***************************************************************************)
(* The on_degraded hook.                                                   *)
(***************************************************************************)

\* What came before an attempt is what came before it, whatever follows.
LEMMA PrefixAppend ==
    ASSUME NEW h \in Seq(Outcomes), NEW o \in Outcomes
    PROVE  /\ \A i \in 1..Len(h) : SubSeq(Append(h, o), 1, i) = SubSeq(h, 1, i)
           /\ SubSeq(Append(h, o), 1, Len(h) + 1) = Append(h, o)
<1> DEFINE g == Append(h, o)
<1>1. /\ g \in Seq(Outcomes) /\ Len(g) = Len(h) + 1 /\ Len(h) \in Nat
      /\ \A i \in 1..Len(h) : g[i] = h[i]
  OBVIOUS
<1> HIDE DEF g
<1>2. ASSUME NEW i \in 1..Len(h)
      PROVE  SubSeq(g, 1, i) = SubSeq(h, 1, i)
  <2>1. /\ SubSeq(h, 1, i) \in Seq(Outcomes) /\ Len(SubSeq(h, 1, i)) = i
        /\ \A k \in 1..i : SubSeq(h, 1, i)[k] = h[k]
    OBVIOUS
  <2>2. i \in 1..Len(g)
    BY <1>1
  <2>3. /\ SubSeq(g, 1, i) \in Seq(Outcomes) /\ Len(SubSeq(g, 1, i)) = i
        /\ \A k \in 1..i : SubSeq(g, 1, i)[k] = g[k]
    BY <1>1, <2>2
  <2>4. \A k \in 1..i : SubSeq(g, 1, i)[k] = SubSeq(h, 1, i)[k]
    BY <1>1, <2>1, <2>3
  <2> QED BY <2>1, <2>3, <2>4, SeqEqual, Zenon
<1>3. SubSeq(g, 1, Len(g)) = g
  BY <1>1, SubSeqFull
<1> QED BY <1>1, <1>2, <1>3 DEF g

\* One more attempt is a degradation exactly if it is the failure with
\* which the streak reaches the budget.
LEMMA DegradationsAppend ==
    ASSUME NEW h \in Seq(Outcomes), NEW o \in Outcomes, NEW b \in Nat
    PROVE  /\ Cardinality(Degradations(h, b)) \in Nat
           /\ Cardinality(Degradations(Append(h, o), b))
                = Cardinality(Degradations(h, b))
                  + One(o \in Failed /\ Streak(Append(h, o)) = Threshold(b))
<1> DEFINE g == Append(h, o)
           A == Degradations(h, b)
           B == Degradations(g, b)
           n == Len(h) + 1
           new == o \in Failed /\ Streak(g) = Threshold(b)
<1>1. /\ n \in Nat /\ DOMAIN h = 1..Len(h) /\ Len(h) \in Nat
      /\ DOMAIN g = 1..n /\ g[n] = o
      /\ \A i \in 1..Len(h) : g[i] = h[i]
  OBVIOUS
<1>2. /\ \A i \in 1..Len(h) : SubSeq(g, 1, i) = SubSeq(h, 1, i)
      /\ SubSeq(g, 1, n) = g
  BY PrefixAppend
<1> HIDE DEF g
<1>3. IsFiniteSet(A)
  <2>1. IsFiniteSet(1..Len(h))
    BY <1>1, FS_Interval
  <2>2. A \subseteq 1..Len(h)
    BY <1>1 DEF Degradations
  <2> QED BY <2>1, <2>2, FS_Subset
<1>4. n \notin A
  BY <1>1 DEF Degradations
<1>5. Cardinality(A) \in Nat
  BY <1>3, FS_CardinalityType
<1>6. Cardinality(A \cup {n}) = Cardinality(A) + 1
  BY <1>3, <1>4, FS_AddElement
<1>a. \A i : i \in A <=> /\ i \in 1..Len(h) /\ h[i] \in Failed
                         /\ Streak(SubSeq(h, 1, i)) = Threshold(b)
  BY <1>1, Zenon DEF Degradations
<1>b. \A i : i \in B <=> /\ i \in 1..n /\ g[i] \in Failed
                         /\ Streak(SubSeq(g, 1, i)) = Threshold(b)
  BY <1>1, Zenon DEF Degradations
<1>c. n \in 1..n /\ \A i \in 1..Len(h) : i \in 1..n
  BY <1>1
<1>7. \A i \in 1..Len(h) : i \in B <=> i \in A
  BY <1>1, <1>2, <1>a, <1>b, <1>c, Zenon
<1>8. n \in B <=> new
  BY <1>1, <1>2, <1>b, <1>c, Zenon
<1>9. B \subseteq 1..n /\ A \subseteq 1..Len(h)
  BY <1>1 DEF Degradations
<1>10. \A i : i \in 1..n <=> i \in 1..Len(h) \/ i = n
  BY <1>1
<1> HIDE DEF A, B, n, new
<1>11. B = IF new THEN A \cup {n} ELSE A
  <2>1. CASE new
    BY <1>7, <1>8, <1>9, <1>10, <2>1, Zenon
  <2>2. CASE ~new
    <3>1. \A i : i \in B => i \in A
      BY <1>7, <1>8, <1>9, <1>10, <2>2, Zenon
    <3>2. \A i : i \in A => i \in B
      BY <1>7, <1>9, Zenon
    <3> QED BY <2>2, <3>1, <3>2
  <2> QED BY <2>1, <2>2
<1>12. Cardinality(B) = Cardinality(A) + One(new)
  BY <1>5, <1>6, <1>11 DEF One
<1> QED BY <1>5, <1>12 DEF A, B, new, g

\* A job at location p with n failures in a row, budget b, and a hook if
\* `on`: c calls of it, and the one still due, make up the degradations
\* of its history h.
Hooked(p, n, b, on, c, h) ==
    LET due == \/ p \in Unspent \cup {"bad_swap"} /\ n = Threshold(b)
               \/ p = "bad_hook"
    IN /\ c + One(on /\ due)
             = IF on THEN Cardinality(Degradations(h, b)) ELSE 0
       /\ p = "bad_hook" => on

HookInv ==
    \A j \in Jobs : Hooked(pc[j], Streak(history[j]), spec[j].failure_budget,
                           spec[j].on_degraded, hooks[j], history[j])

\* Every step of a job keeps the calls of its hook in step.
LEMMA HookStep ==
    ASSUME Typed, NEW j \in Jobs,
           Budgeted(pc[j], stats[j].consecutive, stats[j].degraded,
                    Streak(history[j]), spec[j].failure_budget),
           Hooked(pc[j], Streak(history[j]), spec[j].failure_budget,
                  spec[j].on_degraded, hooks[j], history[j]),
           LoopStep(j) \/ Finish(j) \/ CoolDown(j)
    PROVE  Hooked(pc'[j], Streak(history'[j]), spec'[j].failure_budget,
                  spec'[j].on_degraded, hooks'[j], history'[j])
<1> DEFINE n == Streak(history[j])
           b == spec[j].failure_budget
           on == spec[j].on_degraded
           D == Cardinality(Degradations(history[j], b))
<1>0. /\ TypeOK
      /\ history[j] \in Seq(Outcomes) /\ hooks[j] \in Nat
      /\ stats[j] \in StatsRecords
      /\ b \in Nat /\ b < ConsecutiveRange /\ on \in BOOLEAN
  BY SpecsAssumption DEF Typed, TypeOK, JobSpecs
<1>s. spec' = spec
  BY SpecUnchanged
<1>n. n \in Nat /\ D \in Nat /\ Threshold(b) \in Nat \ {0}
  <2>1. "ok" \in Outcomes
    BY DEF Outcomes, Ran
  <2> QED BY <1>0, <2>1, StreakAppend, DegradationsAppend DEF Threshold
<1>1. CASE \/ CoolDown(j) \/ Start(j) \/ WakeTick(j) \/ ObserveShutdown(j)
           \/ Invoke(j) \/ Cancel(j) \/ Finish(j)
  <2>1. /\ UNCHANGED <<history, hooks>>
        /\ \/ pc'[j] = pc[j]
           \/ /\ pc[j] \in {"spawned", "select", "gate", "invoke", "running",
                            "finish"}
              /\ pc'[j] \in {"select", "gate", "invoke", "running", "crashed",
                             "finish", "abandoned", "aborted", "done"}
    BY <1>0, <1>1
    DEF CoolDown, Start, WakeTick, ObserveShutdown, EnterFire, Invoke, Cancel,
        Finish, Record, Goto, Awaiting, refVars, TypeOK
  <2> QED BY <1>s, <2>1 DEF Hooked, Unspent
<1>2. CASE Gate(j) \/ Pause(j)
  <2>1. /\ pc[j] \in {"gate", "invoke"}
        /\ pc'[j] \in {"invoke", "select", "finish"}
        /\ hooks'[j] = hooks[j]
        /\ \/ history'[j] = history[j]
           \/ history'[j] = Append(history[j], "skip")
           \/ history'[j] = Append(history[j], "paused")
    BY <1>0, <1>2, NotInvoked
  <2>2. Cardinality(Degradations(history'[j], b)) = D
    <3>1. /\ "skip" \in Outcomes /\ "skip" \notin Failed
          /\ "paused" \in Outcomes /\ "paused" \notin Failed
      BY DEF Outcomes, Failed
    <3>2. \A o \in {"skip", "paused"} :
             Cardinality(Degradations(Append(history[j], o), b)) = D + 0
      BY <1>0, <3>1, DegradationsAppend DEF One
    <3>3. D + 0 = D
      BY <1>n
    <3> HIDE DEF D
    <3>4. CASE history'[j] = history[j]
      BY <3>4 DEF D
    <3> QED BY <2>1, <3>2, <3>3, <3>4, Zenon
  <2> QED BY <1>s, <2>1, <2>2 DEF Hooked, Unspent
<1>3. CASE Resolve(j)
  <2>1. PICK r \in Results(j) :
            /\ pc[j] = "running"
            /\ pc' = [pc EXCEPT ![j] =
                         IF r \in Failed THEN "bad_fires" ELSE "ok_fires"]
            /\ history' = [history EXCEPT ![j] = Append(@, r)]
            /\ UNCHANGED hooks
    BY <1>3 DEF Resolve, Goto
  <2>2. r \in Outcomes
    BY <2>1 DEF Results, Ran, Failed, Outcomes
  <2>3. /\ pc'[j] = IF r \in Failed THEN "bad_fires" ELSE "ok_fires"
        /\ history'[j] = Append(history[j], r)
    BY <1>0, <2>1 DEF TypeOK
  <2>4. Cardinality(Degradations(history'[j], b))
           = D + One(r \in Failed /\ Streak(history'[j]) = Threshold(b))
    <3>1. history[j] \in Seq(Outcomes) /\ b \in Nat
      BY <1>0
    <3>2. Cardinality(Degradations(Append(history[j], r), b))
             = D + One(r \in Failed /\ Streak(Append(history[j], r)) = Threshold(b))
      BY <2>2, <3>1, DegradationsAppend, Zenon
    <3> QED BY <2>3, <3>2, Zenon
  <2>5. hooks[j] = IF on THEN D ELSE 0
    BY <1>0, <2>1 DEF Hooked, Unspent, One
  <2> QED BY <1>s, <1>n, <2>1, <2>3, <2>4, <2>5 DEF Hooked, Unspent, One
<1>4. CASE \/ CountFire(j) \/ CountFailure(j) \/ ResetBudget(j)
           \/ ClearDegraded(j) \/ RecordLastError(j)
  <2>1. /\ \/ pc[j] = "ok_fires" /\ pc'[j] = "ok_reset"
           \/ pc[j] = "bad_fires" /\ pc'[j] = "bad_failures"
           \/ pc[j] = "bad_failures" /\ pc'[j] = "bad_budget"
           \/ pc[j] = "ok_reset" /\ pc'[j] = "ok_clear"
           \/ /\ pc[j] \in {"ok_clear", "bad_error"}
              /\ pc'[j] \in {"select", "finish"}
        /\ UNCHANGED <<history, hooks>>
    BY <1>0, <1>4
    DEF CountFire, CountFailure, ResetBudget, ClearDegraded, RecordLastError,
        Record, Goto, AfterFire, TypeOK
  <2> QED BY <1>s, <2>1 DEF Hooked, Unspent
<1>5. CASE SpendBudget(j)
  <2> DEFINE e == (stats[j].consecutive + 1) % ConsecutiveRange
  <2>1. /\ pc[j] = "bad_budget"
        /\ pc'[j] = IF e >= b THEN "bad_swap" ELSE "bad_error"
        /\ UNCHANGED <<history, hooks>>
    BY <1>0, <1>5 DEF SpendBudget, OverBudget, Record, Goto, TypeOK
  <2>2. /\ n > 0 /\ stats[j].consecutive = (n - 1) % ConsecutiveRange
        /\ stats[j].degraded <=> n - 1 >= Threshold(b)
    BY <2>1 DEF Budgeted, Unspent, Stands
  <2>3. ~(e >= b) => n # Threshold(b)
    BY <1>0, <1>n, <2>2, SpendLemma
  <2> HIDE DEF e
  <2> QED BY <1>s, <2>1, <2>3 DEF Hooked, Unspent
<1>6. CASE SwapDegraded(j)
  <2>1. /\ pc[j] = "bad_swap"
        /\ pc'[j] = IF ~stats[j].degraded /\ on THEN "bad_hook" ELSE "bad_error"
        /\ UNCHANGED <<history, hooks>>
    BY <1>0, <1>6 DEF SwapDegraded, Record, Goto, TypeOK
  <2>2. ~stats[j].degraded <=> n = Threshold(b)
    <3>1. n >= Threshold(b) /\ (stats[j].degraded <=> n - 1 >= Threshold(b))
      BY <2>1 DEF Budgeted
    <3> QED BY <1>n, <3>1
  <2> QED BY <1>s, <2>1, <2>2 DEF Hooked, Unspent
<1>7. CASE CallHook(j)
  <2>1. /\ pc[j] = "bad_hook" /\ pc'[j] \in {"bad_error", "hook_panic"}
        /\ hooks'[j] = hooks[j] + 1
        /\ UNCHANGED history
    BY <1>0, <1>7 DEF CallHook, Record, Goto, TypeOK
  <2> QED BY <1>0, <1>s, <1>n, <2>1 DEF Hooked, Unspent, One
<1> QED
  BY <1>1, <1>2, <1>3, <1>4, <1>5, <1>6, <1>7 DEF LoopStep, RecordStep

\* The strengthened invariant is inductive.
LEMMA HookInductive ==
    Typed /\ BudgetInv /\ HookInv /\ [Next]_vars => HookInv'
<1> SUFFICES ASSUME Typed, BudgetInv, HookInv, [Next]_vars
             PROVE  HookInv'
  OBVIOUS
<1>1. CASE UNCHANGED <<spec, pc, hooks, history>>
  BY <1>1 DEF HookInv
<1>2. ASSUME NEW j \in Jobs, LoopStep(j) \/ Finish(j) \/ CoolDown(j)
      PROVE  HookInv'
  <2> SUFFICES ASSUME NEW k \in Jobs
               PROVE  Hooked(pc'[k], Streak(history'[k]),
                             spec'[k].failure_budget, spec'[k].on_degraded,
                             hooks'[k], history'[k])
    BY DEF HookInv
  <2>1. Hooked(pc[k], Streak(history[k]), spec[k].failure_budget,
               spec[k].on_degraded, hooks[k], history[k])
    BY DEF HookInv
  <2>2. CASE k = j
    <3>1. Budgeted(pc[j], stats[j].consecutive, stats[j].degraded,
                   Streak(history[j]), spec[j].failure_budget)
      BY DEF BudgetInv
    <3> QED BY <1>2, <2>1, <2>2, <3>1, HookStep
  <2>3. CASE k # j
    BY <1>2, <2>1, <2>3, SpecUnchanged, OthersUnchanged DEF Typed
  <2> QED BY <2>2, <2>3
<1> QED BY <1>1, <1>2 DEF Next, vars, Signal, AbortAll, refVars

\* on_degraded runs exactly once per transition to Degraded, for every job
\* and every history.
THEOREM HookOnce == Spec => []HookOncePerDegradation
<1>1. Init => HookInv
  <2> SUFFICES ASSUME Init, NEW j \in Jobs
               PROVE  Hooked(pc[j], Streak(history[j]), spec[j].failure_budget,
                             spec[j].on_degraded, hooks[j], history[j])
    BY DEF HookInv
  <2>1. pc[j] = "spawned" /\ hooks[j] = 0 /\ history[j] = <<>>
    BY DEF Init
  <2>2. Degradations(<<>>, spec[j].failure_budget) = {}
    BY DEF Degradations
  <2>3. Cardinality(Degradations(history[j], spec[j].failure_budget)) = 0
    BY <2>1, <2>2, FS_EmptySet
  <2> QED BY <2>1, <2>3 DEF Hooked, Unspent, One
<1>2. Typed /\ HookInv => HookOncePerDegradation
  <2> SUFFICES ASSUME Typed, HookInv, NEW j \in Jobs, Settled(j)
               PROVE  hooks[j] = IF spec[j].on_degraded
                                 THEN Cardinality(Degradations(history[j],
                                                     spec[j].failure_budget))
                                 ELSE 0
    BY DEF HookOncePerDegradation
  <2>1. pc[j] \notin Unspent \cup {"bad_swap", "bad_hook"}
    BY DEF Settled, Recording, Unspent
  <2>2. hooks[j] \in Nat
    BY DEF Typed, TypeOK
  <2> QED BY <2>1, <2>2 DEF HookInv, Hooked, One
<1> QED BY <1>1, <1>2, BudgetAlways, HookInductive, PTL DEF Spec

-----------------------------------------------------------------------------
(***************************************************************************)
(* The circuit breaker.                                                    *)
(***************************************************************************)

\* A breaker b beside history h: it has seen the failures, and while
\* closed it counts the same streak as the budget.
Watched(b, h) ==
    /\ b.total = Count(h, Failed)
    /\ b.state = "Closed" => b.fails = Streak(h) /\ Streak(h) < TripAfter

\* Whatever the call of the closure returned, the breaker is told.
LEMMA WatchedCall ==
    ASSUME NEW b \in Breakers, NEW h \in Seq(Outcomes), NEW r \in Ran,
           Watched(b, h), NEW c \in AfterCall(b, r)
    PROVE  Watched(c, Append(h, r))
<1>1. r \in Outcomes /\ (r \notin Failed => r = "ok")
  BY DEF Outcomes, Ran
<1>2. /\ Count(h, Failed) \in Nat /\ Streak(h) \in Nat
      /\ TripAfter \in Nat \ {0}
  BY <1>1, CountAppend, StreakAppend, NumbersAssumption
<1>3. CASE r \in Failed
  <2>1. Count(Append(h, r), Failed) = Count(h, Failed) + 1
    BY <1>1, <1>3, CountAppend
  <2>2. Streak(Append(h, r)) = Streak(h) + 1
    BY <1>1, <1>3, StreakAppend
  <2>3. c \in OnFailure(b)
    BY <1>3 DEF AfterCall, BreakerSlot
  <2>4. CASE c = [state |-> "Open", fails |-> 0, wins |-> 0,
                  total |-> b.total + 1]
    <3>1. c.state = "Open" /\ c.total = b.total + 1
      BY <2>4
    <3> QED BY <2>1, <3>1 DEF Watched
  <2>5. CASE c # [state |-> "Open", fails |-> 0, wins |-> 0,
                  total |-> b.total + 1]
    <3>1. /\ b.state = "Closed" /\ b.fails + 1 < TripAfter
          /\ c = [b EXCEPT !.fails = b.fails + 1, !.total = b.total + 1]
      BY <2>3, <2>5 DEF OnFailure
    <3>2. c.fails = b.fails + 1 /\ c.total = b.total + 1
      BY <3>1 DEF Breakers
    <3> QED BY <1>2, <2>1, <2>2, <3>1, <3>2 DEF Watched
  <2> QED BY <2>4, <2>5
<1>4. CASE r \notin Failed
  <2>1. Count(Append(h, r), Failed) = Count(h, Failed)
    BY <1>1, <1>2, <1>4, CountAppend
  <2>2. Streak(Append(h, r)) = 0
    BY <1>1, <1>4, StreakAppend
  <2>3. c \in OnSuccess(b)
    BY <1>4 DEF AfterCall, BreakerSlot
  <2>4. CASE b.state = "HalfOpen" /\ b.wins + 1 < SuccessThreshold
    <3>1. c = [b EXCEPT !.wins = b.wins + 1]
      BY <2>3, <2>4 DEF OnSuccess
    <3>2. c.state = "HalfOpen" /\ c.total = b.total
      BY <2>4, <3>1 DEF Breakers
    <3> QED BY <2>1, <3>2 DEF Watched
  <2>5. CASE ~(b.state = "HalfOpen" /\ b.wins + 1 < SuccessThreshold)
    <3>1. c = [b EXCEPT !.state = "Closed", !.fails = 0, !.wins = 0]
      BY <2>3, <2>5 DEF OnSuccess
    <3>2. c.fails = 0 /\ c.total = b.total
      BY <3>1 DEF Breakers
    <3> QED BY <1>2, <2>1, <2>2, <3>2 DEF Watched
  <2> QED BY <2>4, <2>5
<1> QED BY <1>3, <1>4

\* Every step of a job keeps its breaker in step with its history.
LEMMA WatchedStep ==
    ASSUME Typed, NEW j \in Jobs,
           spec[j].use_breaker => Watched(brk[j], history[j]),
           LoopStep(j) \/ Finish(j) \/ CoolDown(j)
    PROVE  spec'[j].use_breaker => Watched(brk'[j], history'[j])
<1>0. /\ TypeOK
      /\ history[j] \in Seq(Outcomes) /\ brk[j] \in Breakers
  BY DEF Typed, TypeOK
<1>s. spec' = spec
  BY SpecUnchanged
<1>1. CASE CoolDown(j)
  <2>1. /\ brk'[j].state = "HalfOpen" /\ brk'[j].total = brk[j].total
        /\ UNCHANGED history
    BY <1>0, <1>1 DEF CoolDown, refVars, TypeOK, Breakers
  <2> QED BY <1>s, <2>1 DEF Watched
<1>2. CASE Gate(j) \/ Pause(j)
  <2>1. /\ brk'[j] = brk[j]
        /\ \/ history'[j] = history[j]
           \/ history'[j] = Append(history[j], "skip")
           \/ history'[j] = Append(history[j], "paused")
    BY <1>0, <1>2, NotInvoked
  <2>2. /\ Count(history'[j], Failed) = Count(history[j], Failed)
        /\ Streak(history'[j]) = Streak(history[j])
    <3>1. \A o \in {"skip", "paused"} : o \in Outcomes /\ o \notin Failed
      BY DEF Outcomes, Failed
    <3>2. \A o \in {"skip", "paused"} :
             /\ Count(Append(history[j], o), Failed) = Count(history[j], Failed)
             /\ Streak(Append(history[j], o)) = Streak(history[j])
      BY <1>0, <3>1, CountAppend, StreakAppend
    <3> QED BY <2>1, <3>2
  <2> QED BY <1>s, <2>1, <2>2 DEF Watched
<1>3. CASE Resolve(j)
  <2>1. PICK r \in Results(j) :
            /\ history' = [history EXCEPT ![j] = Append(@, r)]
            /\ \/ /\ spec[j].use_breaker
                  /\ \E b \in AfterCall(brk[j], r) : brk' = [brk EXCEPT ![j] = b]
               \/ ~spec[j].use_breaker /\ UNCHANGED brk
    BY <1>3 DEF Resolve
  <2>2. r \in Ran /\ history'[j] = Append(history[j], r)
    BY <1>0, <2>1 DEF Results, Ran, Failed, TypeOK
  <2> SUFFICES ASSUME spec[j].use_breaker
               PROVE  Watched(brk'[j], history'[j])
    BY <1>s
  <2>3. PICK b \in AfterCall(brk[j], r) : brk' = [brk EXCEPT ![j] = b]
    BY <2>1
  <2>4. brk'[j] = b
    BY <1>0, <2>3 DEF TypeOK
  <2> QED BY <1>0, <2>2, <2>4, WatchedCall
<1>4. CASE Start(j) \/ WakeTick(j) \/ ObserveShutdown(j) \/ Invoke(j) \/ Cancel(j)
  BY <1>s, <1>4 DEF Start, WakeTick, ObserveShutdown, Invoke, Cancel, refVars
<1>5. CASE RecordStep(j) \/ Finish(j)
  BY <1>s, <1>5
  DEF RecordStep, CountFire, CountFailure, ResetBudget, ClearDegraded,
      SpendBudget, SwapDegraded, CallHook, RecordLastError, Finish, Record
<1> QED BY <1>1, <1>2, <1>3, <1>4, <1>5 DEF LoopStep

\* BreakerSeesTheFailures is inductive as it stands.
LEMMA BreakerInductive ==
    Typed /\ BreakerSeesTheFailures /\ [Next]_vars => BreakerSeesTheFailures'
<1> SUFFICES ASSUME Typed, BreakerSeesTheFailures, [Next]_vars
             PROVE  BreakerSeesTheFailures'
  OBVIOUS
<1>1. CASE UNCHANGED <<spec, brk, history>>
  BY <1>1 DEF BreakerSeesTheFailures
<1>2. ASSUME NEW j \in Jobs, LoopStep(j) \/ Finish(j) \/ CoolDown(j)
      PROVE  BreakerSeesTheFailures'
  <2> SUFFICES ASSUME NEW k \in Jobs
               PROVE  spec'[k].use_breaker => Watched(brk'[k], history'[k])
    BY DEF BreakerSeesTheFailures, Watched
  <2>1. spec[k].use_breaker => Watched(brk[k], history[k])
    BY DEF BreakerSeesTheFailures, Watched
  <2>2. CASE k = j
    BY <1>2, <2>1, <2>2, WatchedStep
  <2>3. CASE k # j
    BY <1>2, <2>1, <2>3, SpecUnchanged, OthersUnchanged DEF Typed
  <2> QED BY <2>2, <2>3
<1> QED BY <1>1, <1>2 DEF Next, vars, Signal, AbortAll, refVars

\* The breaker counts what the budget counts, for every job.
THEOREM BreakerCorrect == Spec => []BreakerSeesTheFailures
<1>1. Init => BreakerSeesTheFailures
  BY CountEmpty, StreakEmpty, NumbersAssumption
  DEF Init, NewBreaker, BreakerSeesTheFailures
<1> QED BY <1>1, TypedAlways, BreakerInductive, PTL DEF Spec

-----------------------------------------------------------------------------
(***************************************************************************)
(* The last error.                                                         *)
(***************************************************************************)

\* A failure is the latest, and any other attempt leaves the latest one
\* what it was.
LEMMA LatestErrorAppend ==
    ASSUME NEW h \in Seq(Outcomes), NEW o \in Outcomes
    PROVE  /\ o \in Failed => IsLatestError(Append(h, o), Message[o])
           /\ \A m : o \notin Failed /\ IsLatestError(h, m)
                        => IsLatestError(Append(h, o), m)
<1> DEFINE g == Append(h, o)
           n == Len(h) + 1
<1>1. /\ n \in Nat /\ DOMAIN h = 1..Len(h) /\ Len(h) \in Nat
      /\ DOMAIN g = 1..n /\ Len(g) = n /\ g[n] = o
      /\ \A i \in 1..Len(h) : g[i] = h[i]
  OBVIOUS
<1> HIDE DEF g
<1>2. \A i : i \in 1..n <=> i \in 1..Len(h) \/ i = n
  BY <1>1
<1>3. ASSUME o \in Failed PROVE IsLatestError(g, Message[o])
  <2>1. n \in DOMAIN g /\ \A k \in (n + 1)..n : FALSE
    BY <1>1
  <2> QED BY <1>1, <1>3, <2>1 DEF IsLatestError
<1>4. ASSUME NEW m, o \notin Failed, IsLatestError(h, m)
      PROVE  IsLatestError(g, m)
  <2>1. CASE m = NoError /\ \A i \in DOMAIN h : h[i] \notin Failed
    <3>1. \A i \in DOMAIN g : g[i] \notin Failed
      BY <1>1, <1>2, <1>4, <2>1
    <3> QED BY <2>1, <3>1 DEF IsLatestError
  <2>2. CASE \E i \in DOMAIN h : /\ h[i] \in Failed
                                 /\ m = Message[h[i]]
                                 /\ \A k \in (i + 1)..Len(h) : h[k] \notin Failed
    <3>1. PICK i \in DOMAIN h : /\ h[i] \in Failed
                                /\ m = Message[h[i]]
                                /\ \A k \in (i + 1)..Len(h) : h[k] \notin Failed
      BY <2>2
    <3>2. i \in DOMAIN g /\ g[i] \in Failed /\ m = Message[g[i]]
      BY <1>1, <3>1
    <3>3. ASSUME NEW k \in (i + 1)..n PROVE g[k] \notin Failed
      <4>1. k = n \/ (k \in (i + 1)..Len(h) /\ k \in 1..Len(h))
        BY <1>1
      <4> QED BY <1>1, <1>4, <3>1, <4>1
    <3> QED BY <1>1, <3>2, <3>3 DEF IsLatestError
  <2> QED BY <1>4, <2>1, <2>2 DEF IsLatestError
<1> QED BY <1>3, <1>4 DEF g

\* A job at location p with history h, outcome o and last error m.  While
\* a failure is being recorded, its message is the one to be written.
Explained(p, h, o, m) ==
    /\ p \in BadLocations => IsLatestError(h, Message[o])
    /\ p \notin BadLocations \cup {"hook_panic"} => IsLatestError(h, m)

ErrorInv ==
    \A j \in Jobs : Explained(pc[j], history[j], outcome[j], stats[j].last_error)

\* Every step of a job keeps its last error up to date.
LEMMA ErrorStep ==
    ASSUME Typed, NEW j \in Jobs,
           Explained(pc[j], history[j], outcome[j], stats[j].last_error),
           LoopStep(j) \/ Finish(j) \/ CoolDown(j)
    PROVE  Explained(pc'[j], history'[j], outcome'[j], stats'[j].last_error)
<1>0. /\ TypeOK
      /\ history[j] \in Seq(Outcomes) /\ stats[j] \in StatsRecords
  BY DEF Typed, TypeOK
<1>1. CASE \/ CoolDown(j) \/ Start(j) \/ WakeTick(j) \/ ObserveShutdown(j)
           \/ Invoke(j) \/ Cancel(j) \/ Finish(j)
  <2>1. /\ UNCHANGED <<stats, history, outcome>>
        /\ \/ pc'[j] = pc[j]
           \/ /\ pc[j] \in {"spawned", "select", "gate", "invoke", "running",
                            "finish"}
              /\ pc'[j] \in {"select", "gate", "invoke", "running", "crashed",
                             "finish", "abandoned", "aborted", "done"}
    BY <1>0, <1>1
    DEF CoolDown, Start, WakeTick, ObserveShutdown, EnterFire, Invoke, Cancel,
        Finish, Record, Goto, Awaiting, refVars, TypeOK
  <2> QED BY <2>1 DEF Explained, BadLocations
<1>2. CASE Gate(j) \/ Pause(j)
  <2>1. /\ pc[j] \in {"gate", "invoke"}
        /\ pc'[j] \in {"invoke", "select", "finish"}
        /\ stats'[j].last_error = stats[j].last_error
        /\ \/ history'[j] = history[j]
           \/ history'[j] = Append(history[j], "skip")
           \/ history'[j] = Append(history[j], "paused")
    BY <1>0, <1>2, NotInvoked
  <2>2. IsLatestError(history[j], stats[j].last_error)
    BY <2>1 DEF Explained, BadLocations
  <2>3. \A o \in {"skip", "paused"} :
           IsLatestError(Append(history[j], o), stats[j].last_error)
    <3>1. \A o \in {"skip", "paused"} : o \in Outcomes /\ o \notin Failed
      BY DEF Outcomes, Failed
    <3> QED BY <1>0, <2>2, <3>1, LatestErrorAppend
  <2> QED BY <2>1, <2>2, <2>3 DEF Explained, BadLocations
<1>3. CASE Resolve(j)
  <2>1. PICK r \in Results(j) :
            /\ pc[j] = "running"
            /\ pc' = [pc EXCEPT ![j] =
                         IF r \in Failed THEN "bad_fires" ELSE "ok_fires"]
            /\ history' = [history EXCEPT ![j] = Append(@, r)]
            /\ outcome' = [outcome EXCEPT ![j] = r]
            /\ UNCHANGED stats
    BY <1>3 DEF Resolve, Goto
  <2>2. r \in Outcomes
    BY <2>1 DEF Results, Ran, Failed, Outcomes
  <2>3. /\ pc'[j] = IF r \in Failed THEN "bad_fires" ELSE "ok_fires"
        /\ history'[j] = Append(history[j], r)
        /\ outcome'[j] = r
    BY <1>0, <2>1 DEF TypeOK
  <2>4. IsLatestError(history[j], stats[j].last_error)
    BY <2>1 DEF Explained, BadLocations
  <2>5. CASE r \in Failed
    BY <1>0, <2>2, <2>3, <2>5, LatestErrorAppend DEF Explained, BadLocations
  <2>6. CASE r \notin Failed
    BY <1>0, <2>1, <2>2, <2>3, <2>4, <2>6, LatestErrorAppend
    DEF Explained, BadLocations
  <2> QED BY <2>5, <2>6
<1>4. CASE \/ CountFire(j) \/ CountFailure(j) \/ ResetBudget(j)
           \/ ClearDegraded(j) \/ SpendBudget(j) \/ SwapDegraded(j)
           \/ CallHook(j)
  <2>1. /\ pc[j] \in Recording
        /\ pc'[j] \in BadLocations => pc[j] \in BadLocations
        /\ pc[j] \in BadLocations => pc'[j] \in BadLocations \cup {"hook_panic"}
        /\ UNCHANGED <<history, outcome>>
    BY <1>0, <1>4
    DEF CountFire, CountFailure, ResetBudget, ClearDegraded, SpendBudget,
        SwapDegraded, CallHook, Record, Goto, AfterFire, TypeOK, BadLocations,
        Recording
  <2>2. stats'[j].last_error = stats[j].last_error
    <3>1. \/ \E n : stats' = [stats EXCEPT ![j].fires = n]
          \/ \E n : stats' = [stats EXCEPT ![j].failures = n]
          \/ \E n : stats' = [stats EXCEPT ![j].consecutive = n]
          \/ \E b : stats' = [stats EXCEPT ![j].degraded = b]
          \/ UNCHANGED stats
      BY <1>4
      DEF CountFire, CountFailure, ResetBudget, ClearDegraded, SpendBudget,
          SwapDegraded, CallHook
    <3> QED BY <1>0, <3>1 DEF TypeOK, StatsRecords
  <2> QED BY <2>1, <2>2 DEF Explained, Recording
<1>5. CASE RecordLastError(j)
  <2>1. /\ pc[j] = "bad_error" /\ pc'[j] \in {"select", "finish"}
        /\ stats'[j].last_error = Message[outcome[j]]
        /\ UNCHANGED history
    BY <1>0, <1>5
    DEF RecordLastError, Record, Goto, AfterFire, TypeOK, StatsRecords
  <2> QED BY <2>1 DEF Explained, BadLocations
<1> QED BY <1>1, <1>2, <1>3, <1>4, <1>5 DEF LoopStep, RecordStep

\* last_error is the message of the latest failure, for every job.
THEOREM ErrorKept == Spec => []LatestErrorKept
<1>1. Init => ErrorInv
  <2> SUFFICES ASSUME Init, NEW j \in Jobs
               PROVE  Explained(pc[j], history[j], outcome[j],
                                stats[j].last_error)
    BY DEF ErrorInv
  <2>1. /\ pc[j] = "spawned" /\ history[j] = <<>>
        /\ stats[j].last_error = NoError
    BY DEF Init, NewStats
  <2> QED BY <2>1 DEF Explained, BadLocations, IsLatestError
<1>2. Typed /\ ErrorInv /\ [Next]_vars => ErrorInv'
  <2> SUFFICES ASSUME Typed, ErrorInv, [Next]_vars
               PROVE  ErrorInv'
    OBVIOUS
  <2>1. CASE UNCHANGED <<pc, history, outcome, stats>>
    BY <2>1 DEF ErrorInv
  <2>2. ASSUME NEW j \in Jobs, LoopStep(j) \/ Finish(j) \/ CoolDown(j)
        PROVE  ErrorInv'
    <3> SUFFICES ASSUME NEW k \in Jobs
                 PROVE  Explained(pc'[k], history'[k], outcome'[k],
                                  stats'[k].last_error)
      BY DEF ErrorInv
    <3>1. Explained(pc[k], history[k], outcome[k], stats[k].last_error)
      BY DEF ErrorInv
    <3>2. CASE k = j
      BY <2>2, <3>1, <3>2, ErrorStep
    <3>3. CASE k # j
      BY <2>2, <3>1, <3>3, OthersUnchanged DEF Typed
    <3> QED BY <3>2, <3>3
  <2> QED BY <2>1, <2>2 DEF Next, vars, Signal, AbortAll, refVars
<1>3. ErrorInv => LatestErrorKept
  BY DEF ErrorInv, LatestErrorKept, Explained, BadLocations, Settled, Recording
<1> QED BY <1>1, <1>2, <1>3, TypedAlways, PTL DEF Spec

-----------------------------------------------------------------------------
(***************************************************************************)
(* The drain.                                                              *)
(***************************************************************************)

\* A job at location p, in or after the fire at site s, with the drain_pass
\* setting d and the signal g: the drain pass is entered only after the
\* signal and never left for the select!, and a loop that leaves the select!
\* otherwise has no drain pass to make.
Drains(p, s, d, g) ==
    /\ s = "drain" => g /\ d
    /\ p \in {"spawned", "select"} => s # "drain"
    /\ p \in {"finish", "done"} => g /\ (d <=> s = "drain")

DrainInv == \A j \in Jobs : Drains(pc[j], site[j], spec[j].drain_pass, shutdown)

\* Every step of a job keeps to the order of the drain, and none leaves it.
LEMMA DrainStep ==
    ASSUME Typed, NEW j \in Jobs,
           Drains(pc[j], site[j], spec[j].drain_pass, shutdown),
           LoopStep(j) \/ Finish(j) \/ CoolDown(j)
    PROVE  /\ Drains(pc'[j], site'[j], spec'[j].drain_pass, shutdown')
           /\ site[j] = "drain" => site'[j] = "drain"
<1>0. TypeOK /\ spec[j].drain_pass \in BOOLEAN
  BY SpecsAssumption DEF Typed, TypeOK, JobSpecs
<1>s. spec' = spec /\ shutdown' = shutdown
  BY SpecUnchanged
<1>1. CASE Start(j) \/ WakeTick(j)
  <2>1. /\ pc[j] \in {"spawned", "select"}
        /\ pc'[j] \in {"gate", "invoke", "select"}
        /\ site'[j] = site[j] \/ site'[j] \in {"start", "tick"}
    BY <1>0, <1>1 DEF Start, WakeTick, EnterFire, Goto, TypeOK
  <2> QED BY <1>s, <2>1 DEF Drains
<1>2. CASE ObserveShutdown(j)
  <2>1. /\ pc[j] = "select" /\ shutdown
        /\ \/ /\ spec[j].drain_pass
              /\ pc'[j] \in {"gate", "invoke"} /\ site'[j] = "drain"
           \/ /\ ~spec[j].drain_pass
              /\ pc'[j] = "finish" /\ site'[j] = site[j]
    BY <1>0, <1>2 DEF ObserveShutdown, EnterFire, Goto, TypeOK
  <2> QED BY <1>s, <2>1 DEF Drains
<1>3. CASE Gate(j) \/ Pause(j) \/ ClearDegraded(j) \/ RecordLastError(j)
  <2>1. /\ pc[j] \in {"gate", "invoke", "ok_clear", "bad_error"}
        /\ \/ pc'[j] = "invoke"
           \/ pc'[j] = IF site[j] = "drain" THEN "finish" ELSE "select"
        /\ UNCHANGED site
    BY <1>0, <1>3
    DEF Gate, Pause, ClearDegraded, RecordLastError, Record, Goto, AfterFire,
        TypeOK
  <2> QED BY <1>s, <2>1 DEF Drains
<1>4. CASE \/ Invoke(j) \/ Resolve(j) \/ CountFire(j) \/ ResetBudget(j)
           \/ CountFailure(j) \/ SpendBudget(j) \/ SwapDegraded(j)
           \/ CallHook(j) \/ Cancel(j)
  <2>1. /\ pc'[j] \notin {"spawned", "select", "finish", "done"}
        /\ UNCHANGED site
    BY <1>0, <1>4
    DEF Invoke, Resolve, CountFire, ResetBudget, CountFailure, SpendBudget,
        SwapDegraded, CallHook, Cancel, Record, Goto, TypeOK
  <2> QED BY <1>s, <2>1 DEF Drains
<1>5. CASE Finish(j) \/ CoolDown(j)
  <2>1. /\ pc'[j] = pc[j] \/ (pc[j] = "finish" /\ pc'[j] = "done")
        /\ UNCHANGED site
    BY <1>0, <1>5 DEF Finish, CoolDown, Record, Goto, TypeOK
  <2> QED BY <1>s, <2>1 DEF Drains
<1> QED BY <1>1, <1>2, <1>3, <1>4, <1>5 DEF LoopStep, RecordStep

\* The order of the drain is kept by every step of the system, and no step
\* leaves a drain pass.
LEMMA DrainInductive ==
    Typed /\ DrainInv /\ [Next]_vars
    => /\ DrainInv'
       /\ \A j \in Jobs : site[j] = "drain" => site'[j] = "drain"
<1> SUFFICES ASSUME Typed, DrainInv, [Next]_vars
             PROVE  /\ DrainInv'
                    /\ \A j \in Jobs : site[j] = "drain" => site'[j] = "drain"
  OBVIOUS
<1>1. CASE UNCHANGED <<spec, pc, site>> /\ (shutdown => shutdown')
  BY <1>1 DEF DrainInv, Drains
<1>2. ASSUME NEW j \in Jobs, LoopStep(j) \/ Finish(j) \/ CoolDown(j),
             NEW k \in Jobs
      PROVE  /\ Drains(pc'[k], site'[k], spec'[k].drain_pass, shutdown')
             /\ site[k] = "drain" => site'[k] = "drain"
  <2>1. Drains(pc[k], site[k], spec[k].drain_pass, shutdown)
    BY DEF DrainInv
  <2>2. CASE k = j
    BY <1>2, <2>1, <2>2, DrainStep
  <2>3. CASE k # j
    <3>1. spec' = spec /\ shutdown' = shutdown
      BY <1>2, SpecUnchanged
    <3> QED BY <1>2, <2>1, <2>3, <3>1, OthersUnchanged DEF Typed
  <2> QED BY <2>2, <2>3
<1>3. \/ UNCHANGED <<spec, pc, site>> /\ (shutdown => shutdown')
      \/ \E j \in Jobs : LoopStep(j) \/ Finish(j) \/ CoolDown(j)
  BY DEF Next, vars, Signal, AbortAll
<1> QED BY <1>1, <1>2, <1>3 DEF DrainInv

\* The drain order, in every reachable state.
LEMMA DrainAlways == Spec => [](Typed /\ DrainInv)
<1>1. Init => DrainInv
  BY DEF Init, DrainInv, Drains
<1> QED BY <1>1, TypedAlways, DrainInductive, PTL DEF Spec

\* A loop returns only after it observed the signal, and a drain_pass job
\* only after its final fire.
THEOREM DrainObserved == Spec => []ReturnsAfterDrain
<1>1. DrainInv => ReturnsAfterDrain
  BY DEF DrainInv, Drains, ReturnsAfterDrain
<1> QED BY <1>1, DrainAlways, PTL

\* No scheduled fire follows the drain pass.
THEOREM DrainFinal == Spec => DrainPassIsFinal
<1>1. Typed /\ DrainInv /\ [Next]_vars
      => [\A j \in Jobs : site[j] = "drain" => site'[j] = "drain"]_vars
  BY DrainInductive
<1> QED BY <1>1, DrainAlways, PTL DEF Spec, DrainPassIsFinal

\* A loop leaves by the signal, through its drain pass, and by nothing after
\* it.
THEOREM DrainLast == Spec => DrainPassIsLast
BY DrainObserved, DrainFinal, PTL DEF DrainPassIsLast
=============================================================================
