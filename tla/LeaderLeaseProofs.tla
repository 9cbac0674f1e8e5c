------------------------- MODULE LeaderLeaseProofs -------------------------
(***************************************************************************)
(* The leader gate is safe for any number of supervisors, jobs, lost       *)
(* calls, late requests and restarts, and for any TTL.  The inductive      *)
(* invariant is TypeOK /\ GrantsBackedByKey: as long as a grant lasts, the *)
(* key carries its holder for at least as long.                            *)
(***************************************************************************)
EXTENDS LeaderLease, TLAPS

\* The states a lease call, an answer or a tick leaves behind are well
\* typed.
LEMMA TypeInductive == TypeOK /\ [Next]_vars => TypeOK'
<1> SUFFICES ASSUME TypeOK, [Next]_vars
             PROVE  TypeOK'
  OBVIOUS
<1> USE NodeOfAssumption, TTLAssumption DEF TypeOK, Holders, Locations
<1>0. \A r \in Runners : Holder(r) \in Holders
  BY DEF Holder
<1>1. CASE UNCHANGED vars
  BY <1>1 DEF vars
<1>2. ASSUME NEW r \in Runners, Fire(r)
      PROVE  TypeOK'
  BY <1>2 DEF Fire, Goto
<1>3. ASSUME NEW r \in Runners, NEW kind \in {"renew", "acquire"},
             Execute(r, kind)
      PROVE  TypeOK'
  <2>1. Executed[kind] \in Locations
    BY DEF Executed
  <2>2. pc' \in [Runners -> Locations]
    BY <1>3, <2>1 DEF Execute, Goto
  <2>3. /\ key' \in [holder : Holders, left : 0..TTL]
        /\ granted' \in [Runners -> 0..TTL]
        /\ answer' \in [Runners -> BOOLEAN]
    <3>1. CASE Grant(r)
      BY <1>0, <3>1 DEF Grant
    <3>2. CASE Refuse(r)
      BY <3>2 DEF Refuse
    <3> QED BY <1>3, <3>1, <3>2 DEF Execute
  <2> QED BY <1>3, <2>2, <2>3 DEF Execute
<1>4. ASSUME NEW r \in Runners, LoseRequest(r)
      PROVE  TypeOK'
  BY <1>0, <1>4 DEF LoseRequest, Executed, Goto
<1>5. ASSUME NEW r \in Runners, LoseReply(r)
      PROVE  TypeOK'
  BY <1>5 DEF LoseReply
<1>6. ASSUME NEW r \in Runners, Answered(r) \/ Complete(r)
      PROVE  TypeOK'
  BY <1>6 DEF Answered, Elected, FallBack, Skip, Complete, Goto
<1>7. ASSUME NEW m \in late, ExecuteLate(m)
      PROVE  TypeOK'
  BY <1>7 DEF ExecuteLate
<1>8. ASSUME Tick
      PROVE  TypeOK'
  BY <1>8 DEF Tick, Less
<1>9. ASSUME NEW n \in Nodes, Restart(n)
      PROVE  TypeOK'
  <2>1. late' \subseteq {"renew", "acquire"} \X Holders
    BY <1>0, <1>9 DEF Restart
  <2> QED BY <1>9, <2>1 DEF Restart
<1> QED
  BY <1>1, <1>2, <1>3, <1>4, <1>5, <1>6, <1>7, <1>8, <1>9
  DEF Next, Call, ExecuteRenew, ExecuteAcquire

\* No step separates a grant from the key: only the holder renews a living
\* key, and only a dead key is taken.
LEMMA GrantsInductive ==
    TypeOK /\ GrantsBackedByKey /\ [Next]_vars => GrantsBackedByKey'
<1> SUFFICES ASSUME TypeOK, GrantsBackedByKey, [Next]_vars
             PROVE  GrantsBackedByKey'
  OBVIOUS
<1> USE NodeOfAssumption, TTLAssumption DEF TypeOK, Holders
<1>1. CASE UNCHANGED <<key, life, granted>>
  BY <1>1 DEF GrantsBackedByKey, Holder
<1>2. ASSUME NEW r \in Runners, NEW kind \in {"renew", "acquire"},
             Execute(r, kind)
      PROVE  GrantsBackedByKey'
  <2>1. CASE Succeeds(kind, Holder(r))
    <3>1. \A s \in Runners : granted[s] > 0 => Holder(s) = Holder(r)
      BY <2>1 DEF GrantsBackedByKey, Succeeds, Exists
    <3>2. /\ key' = [holder |-> Holder(r), left |-> TTL]
          /\ granted' = [granted EXCEPT ![r] = TTL]
          /\ life' = life
      BY <1>2, <2>1 DEF Execute, Grant
    <3> QED BY <3>1, <3>2 DEF GrantsBackedByKey, Holder
  <2>2. CASE ~Succeeds(kind, Holder(r))
    BY <1>1, <1>2, <2>2 DEF Execute, Refuse
  <2> QED BY <2>1, <2>2
<1>3. ASSUME NEW m \in late, ExecuteLate(m)
      PROVE  GrantsBackedByKey'
  <2>1. CASE Succeeds(m[1], m[2])
    <3>1. \A s \in Runners : granted[s] > 0 => Holder(s) = m[2]
      BY <2>1 DEF GrantsBackedByKey, Succeeds, Exists
    <3> QED BY <1>3, <2>1, <3>1 DEF ExecuteLate, GrantsBackedByKey, Holder
  <2>2. CASE ~Succeeds(m[1], m[2])
    BY <1>1, <1>3, <2>2 DEF ExecuteLate
  <2> QED BY <2>1, <2>2
<1>4. ASSUME Tick
      PROVE  GrantsBackedByKey'
  BY <1>4 DEF Tick, Less, GrantsBackedByKey, Holder
<1>5. ASSUME NEW n \in Nodes, Restart(n)
      PROVE  GrantsBackedByKey'
  BY <1>5 DEF Restart, GrantsBackedByKey, Holder
<1>6. ASSUME NEW r \in Runners,
             \/ Fire(r) \/ LoseRequest(r) \/ LoseReply(r)
             \/ Answered(r) \/ Complete(r)
      PROVE  GrantsBackedByKey'
  BY <1>1, <1>6
  DEF Fire, LoseRequest, LoseReply, Answered, Elected, FallBack, Skip, Complete
<1> QED
  BY <1>1, <1>2, <1>3, <1>4, <1>5, <1>6
  DEF vars, Next, Call, ExecuteRenew, ExecuteAcquire

\* The typing invariant and the backing of every grant by the key hold in
\* every reachable state.
THEOREM LeaseInvariant == Spec => [](TypeOK /\ GrantsBackedByKey)
<1>1. Init => TypeOK /\ GrantsBackedByKey
  BY TTLAssumption DEF Init, TypeOK, GrantsBackedByKey, Holders, Locations
<1>2. TypeOK /\ GrantsBackedByKey /\ [Next]_vars
      => (TypeOK /\ GrantsBackedByKey)'
  BY TypeInductive, GrantsInductive
<1> QED BY <1>1, <1>2, PTL DEF Spec

\* While the TTL it was granted lasts, the supervisor that runs a leader
\* job is the only one that runs any on a grant that lasts.
THEOREM SoleLeader == Spec => []SoleLeaderWithinTTL
<1>1. TypeOK /\ GrantsBackedByKey => SoleLeaderWithinTTL
  BY NodeOfAssumption
  DEF TypeOK, GrantsBackedByKey, SoleLeaderWithinTTL, Holder, Holders
<1> QED BY <1>1, LeaseInvariant, PTL
-----------------------------------------------------------------------------
(***************************************************************************)
(* The gate implements Leadership.                                         *)
(***************************************************************************)

\* An answer is on its way only to a job that waits for one.
AnswerAwaited ==
    \A r \in Runners : answer[r] => pc[r] \in {"renewed", "acquired"}

\* A call starts without an answer, and the answer is used up with it.
LEMMA AnswerInductive ==
    TypeOK /\ AnswerAwaited /\ [Next]_vars => AnswerAwaited'
<1> SUFFICES ASSUME TypeOK, AnswerAwaited, [Next]_vars
             PROVE  AnswerAwaited'
  OBVIOUS
<1> USE DEF TypeOK, AnswerAwaited
<1>1. CASE UNCHANGED <<pc, answer>>
  BY <1>1
<1>2. ASSUME NEW r \in Runners, NEW kind \in {"renew", "acquire"},
             Execute(r, kind)
      PROVE  AnswerAwaited'
  BY <1>2 DEF Execute, Grant, Refuse, Executed, Goto
<1>3. ASSUME NEW r \in Runners, Fire(r) \/ LoseRequest(r) \/ LoseReply(r)
      PROVE  AnswerAwaited'
  BY <1>3 DEF Fire, LoseRequest, LoseReply, Executed, Goto
<1>4. ASSUME NEW r \in Runners, Answered(r) \/ Complete(r)
      PROVE  AnswerAwaited'
  BY <1>4 DEF Answered, Elected, FallBack, Skip, Complete, Goto
<1>5. ASSUME NEW n \in Nodes, Restart(n)
      PROVE  AnswerAwaited'
  BY <1>5 DEF Restart
<1> QED
  BY <1>1, <1>2, <1>3, <1>4, <1>5
  DEF vars, Next, Call, ExecuteRenew, ExecuteAcquire, ExecuteLate, Tick

gateVars ==
    <<{r \in Runners : answer[r]}, {r \in Runners : Running(r)}, granted>>

\* Every step of the gate elects, forgets, begins, ends, lets time pass or
\* loses a supervisor, or is none of these.
LEMMA GateStep ==
    ASSUME TypeOK, GrantsBackedByKey, AnswerAwaited, [Next]_vars
    PROVE  [Gate!Next]_gateVars
<1> DEFINE elected == {r \in Runners : answer[r]}
           running == {r \in Runners : Running(r)}
<1>1. CASE UNCHANGED <<answer, pc, granted>>
  BY <1>1 DEF gateVars, Running
<1>2. ASSUME NEW r \in Runners, NEW kind \in {"renew", "acquire"},
             Execute(r, kind)
      PROVE  [Gate!Next]_gateVars
  <2>1. ~answer[r] /\ ~Running(r) /\ Executed[kind] # "running"
    BY <1>2 DEF AnswerAwaited, Execute, Running, Executed
  <2>2. running' = running
    BY <1>2, <2>1 DEF Execute, Goto, Running, TypeOK
  <2>3. CASE Succeeds(kind, Holder(r))
    <3>1. Grant(r)
      BY <1>2, <2>3 DEF Execute
    <3>2. \A s \in Runners : NodeOf[s] # NodeOf[r] => granted[s] = 0
      <4> SUFFICES ASSUME NEW s \in Runners, NodeOf[s] # NodeOf[r],
                          granted[s] # 0
                   PROVE  FALSE
        OBVIOUS
      <4>1. key.holder = Holder(s) /\ Exists
        BY TTLAssumption DEF GrantsBackedByKey, TypeOK, Exists
      <4>2. key.holder = Holder(r)
        BY <2>3, <4>1 DEF Succeeds
      <4> QED
        BY <4>1, <4>2 DEF Holder
    <3>3. elected' = elected \cup {r} /\ r \notin elected \cup running
      BY <2>1, <3>1 DEF Grant, TypeOK
    <3>4. Gate!Elect(r)
      BY <2>2, <3>1, <3>2, <3>3 DEF Gate!Elect, Grant
    <3> QED
      BY <3>4 DEF Gate!Next
  <2>4. CASE ~Succeeds(kind, Holder(r))
    <3>1. elected' = elected /\ granted' = granted
      BY <1>2, <2>1, <2>4 DEF Execute, Refuse, TypeOK
    <3> QED
      BY <2>2, <3>1 DEF gateVars
  <2> QED
    BY <2>3, <2>4
<1>3. ASSUME NEW r \in Runners, Fire(r) \/ LoseRequest(r) \/ FallBack(r) \/ Skip(r)
      PROVE  [Gate!Next]_gateVars
  <2>1. answer' = answer
    BY <1>3 DEF AnswerAwaited, Fire, LoseRequest, FallBack, Skip, TypeOK
  <2>2. running' = running /\ granted' = granted
    BY <1>3 DEF Fire, LoseRequest, FallBack, Skip, Goto, Executed, Running, TypeOK
  <2> QED
    BY <2>1, <2>2 DEF gateVars
<1>4. ASSUME NEW r \in Runners, LoseReply(r)
      PROVE  [Gate!Next]_gateVars
  <2>1. elected' = elected \ {r} /\ r \in elected
    BY <1>4 DEF LoseReply, TypeOK
  <2>2. running' = running /\ granted' = granted
    BY <1>4 DEF LoseReply, Running
  <2>3. Gate!Forget(r)
    BY <2>1, <2>2 DEF Gate!Forget
  <2> QED
    BY <2>3 DEF Gate!Next
<1>5. ASSUME NEW r \in Runners, Elected(r)
      PROVE  [Gate!Next]_gateVars
  <2>1. elected' = elected \ {r} /\ r \in elected
    BY <1>5 DEF Elected, TypeOK
  <2>2. running' = running \cup {r} /\ granted' = granted
    BY <1>5 DEF Elected, Goto, Running, TypeOK
  <2>3. Gate!Begin(r)
    BY <2>1, <2>2 DEF Gate!Begin
  <2> QED
    BY <2>3 DEF Gate!Next
<1>6. ASSUME NEW r \in Runners, Complete(r)
      PROVE  [Gate!Next]_gateVars
  <2>1. elected' = elected /\ granted' = granted
    BY <1>6 DEF Complete
  <2>2. running' = running \ {r} /\ r \in running
    BY <1>6 DEF Complete, Goto, Running, TypeOK
  <2>3. Gate!End(r)
    BY <2>1, <2>2 DEF Gate!End
  <2> QED
    BY <2>3 DEF Gate!Next
<1>7. ASSUME Tick
      PROVE  [Gate!Next]_gateVars
  <2>1. Gate!Pass
    BY <1>7 DEF Tick, Less, Running, Gate!Pass
  <2> QED
    BY <2>1 DEF Gate!Next
<1>8. ASSUME NEW n \in Nodes, Restart(n)
      PROVE  [Gate!Next]_gateVars
  <2> DEFINE lost == {r \in Runners : NodeOf[r] = n}
  <2>1. elected' = elected \ lost
    BY <1>8 DEF Restart, TypeOK
  <2>2. running' = running \ lost
    BY <1>8 DEF Restart, Running, TypeOK
  <2>3. granted' = [r \in Runners |-> IF r \in lost THEN 0 ELSE granted[r]]
    BY <1>8 DEF Restart
  <2>4. Gate!Die(n)
    BY <2>1, <2>2, <2>3 DEF Gate!Die
  <2> QED
    BY <2>4 DEF Gate!Next
<1>9. ASSUME NEW m \in late, ExecuteLate(m)
      PROVE  [Gate!Next]_gateVars
  BY <1>1, <1>9 DEF ExecuteLate
<1> QED
  BY <1>1, <1>2, <1>3, <1>4, <1>5, <1>6, <1>7, <1>8, <1>9
  DEF vars, Next, Call, Answered, ExecuteRenew, ExecuteAcquire

\* The lease protocol implements the promise of the leader gate, for any
\* number of supervisors, jobs, lost and late calls and restarts: initial
\* states map to initial states, every step to a step or a stutter.
THEOREM GateKept == Spec => KeepsTheGate
<1>1. Init => AnswerAwaited /\ Gate!Init
  BY DEF Init, AnswerAwaited, Running, Gate!Init
<1>2. TypeOK /\ GrantsBackedByKey /\ AnswerAwaited /\ [Next]_vars
      => AnswerAwaited' /\ [Gate!Next]_gateVars
  BY AnswerInductive, GateStep
<1> QED
  BY <1>1, <1>2, LeaseInvariant, PTL
  DEF Spec, KeepsTheGate, Gate!Spec, gateVars

=============================================================================
