---------------------------- MODULE LeaderLease ----------------------------
(***************************************************************************)
(* The leader gate of JobRunner::fire (src/src/runner.rs) over RedisLease  *)
(* (src/src/leader/redis_lease.rs): several supervisors, each with its own *)
(* holder id and several leader jobs, share one Redis key.                 *)
(*                                                                         *)
(* A lease call is a request the server executes some time after the call  *)
(* and a reply that arrives some time after that; it fails (false) when    *)
(* the request or the reply is lost, and a request given up on may still   *)
(* be executed later.  Time is the countdown of the key's TTL, so that no  *)
(* clock is needed; Tick lets a unit of it pass.  A supervisor may be      *)
(* killed and replaced at any moment; the new one has a new holder id,     *)
(* drawn from the clock.                                                   *)
(***************************************************************************)
EXTENDS Integers

CONSTANTS
    Nodes,          \* supervisor processes
    Runners,        \* leader: true jobs, of all of them
    NodeOf,         \* the supervisor each runs in
    TTL,            \* lease_ttl, in ticks
    MaxFaults,      \* bound: lost requests and replies explored
    MaxRestarts     \* bound: restarts explored per supervisor

ASSUME NodeOfAssumption == NodeOf \in [Runners -> Nodes]
ASSUME TTLAssumption == TTL \in Nat \ {0}
ASSUME BoundsAssumption == MaxFaults \in Nat /\ MaxRestarts \in Nat

VARIABLES
    key,        \* the Redis key: its value and the rest of its TTL
    life,       \* which incarnation of each supervisor is running
    pc,         \* where each job is
    answer,     \* the reply on its way to the job
    leader_held,\* JobRunner.leader_held
    late,       \* requests given up on that the server may yet execute
    granted,    \* reference: the rest of the TTL last granted to the job
    faults      \* requests and replies lost so far

vars == <<key, life, pc, answer, leader_held, late, granted, faults>>

\* Mutant: the id is the host's, the same after a restart.
HolderByHost(r) == <<NodeOf[r], 0>>

\* WorkerSupervisor.holder of a job.
Holder(r) == <<NodeOf[r], life[NodeOf[r]]>>
Holders == Nodes \X Nat

\* A call is sent ("renew"), executed ("renewed"), then answered.
Locations == {"idle", "renew", "renewed", "acquire", "acquired", "running"}

TypeOK ==
    /\ key \in [holder : Holders, left : 0..TTL]
    /\ life \in [Nodes -> Nat]
    /\ pc \in [Runners -> Locations]
    /\ answer \in [Runners -> BOOLEAN]
    /\ leader_held \in [Runners -> BOOLEAN]
    /\ late \subseteq {"renew", "acquire"} \X Holders
    /\ granted \in [Runners -> 0..TTL]
    /\ faults \in Nat

\* An expired key does not exist.
Exists == key.left > 0

Init ==
    /\ \E n \in Nodes : key = [holder |-> <<n, 0>>, left |-> 0]
    /\ life = [n \in Nodes |-> 0]
    /\ pc = [r \in Runners |-> "idle"]
    /\ answer = [r \in Runners |-> FALSE]
    /\ leader_held = [r \in Runners |-> FALSE]
    /\ late = {}
    /\ granted = [r \in Runners |-> 0]
    /\ faults = 0

Goto(r, to) == pc' = [pc EXCEPT ![r] = to]

-----------------------------------------------------------------------------
\* fire(): a job that believes itself leader renews, another acquires.
Fire(r) ==
    /\ pc[r] = "idle"
    /\ Goto(r, IF leader_held[r] THEN "renew" ELSE "acquire")
    /\ UNCHANGED <<key, life, answer, leader_held, late, granted, faults>>

\* The server writes the key for the holder of r, for a whole TTL.
Grant(r) ==
    /\ key' = [holder |-> Holder(r), left |-> TTL]
    /\ granted' = [granted EXCEPT ![r] = TTL]
    /\ answer' = [answer EXCEPT ![r] = TRUE]

Refuse(r) ==
    /\ answer' = [answer EXCEPT ![r] = FALSE]
    /\ UNCHANGED <<key, granted>>

\* Mutant: the renewal does not compare the holder.
SucceedsBlindRenew(kind, holder) ==
    \/ kind = "renew" /\ Exists
    \/ kind = "acquire" /\ ~Exists

\* RENEW_LUA extends the key only if it still holds our value; SET NX
\* writes it only if there is no key.
Succeeds(kind, holder) ==
    \/ kind = "renew" /\ Exists /\ key.holder = holder
    \/ kind = "acquire" /\ ~Exists

Executed == [renew |-> "renewed", acquire |-> "acquired"]

Execute(r, kind) ==
    /\ pc[r] = kind
    /\ Goto(r, Executed[kind])
    /\ IF Succeeds(kind, Holder(r)) THEN Grant(r) ELSE Refuse(r)
    /\ UNCHANGED <<life, leader_held, late, faults>>

ExecuteRenew(r) == Execute(r, "renew")
ExecuteAcquire(r) == Execute(r, "acquire")

\* A request is lost, or given up on before the server executes it.
LoseRequest(r) ==
    /\ pc[r] \in {"renew", "acquire"}
    /\ faults < MaxFaults
    /\ faults' = faults + 1
    /\ Goto(r, Executed[pc[r]])
    /\ answer' = [answer EXCEPT ![r] = FALSE]
    /\ \/ late' = late \cup {<<pc[r], Holder(r)>>}
       \/ UNCHANGED late
    /\ UNCHANGED <<key, life, leader_held, granted>>

\* The server executed the request, but its answer is lost.
LoseReply(r) ==
    /\ pc[r] \in {"renewed", "acquired"}
    /\ answer[r]
    /\ faults < MaxFaults
    /\ faults' = faults + 1
    /\ answer' = [answer EXCEPT ![r] = FALSE]
    /\ UNCHANGED <<key, life, pc, leader_held, late, granted>>

\* The server executes a request nobody waits for any more.
ExecuteLate(m) ==
    /\ late' = late \ {m}
    /\ IF Succeeds(m[1], m[2])
       THEN key' = [holder |-> m[2], left |-> TTL]
       ELSE UNCHANGED key
    /\ UNCHANGED <<life, pc, answer, leader_held, granted, faults>>

\* Mutant: a job that was leader before runs without being told true.
ElectedByBelief(r) ==
    /\ pc[r] \in {"renewed", "acquired"}
    /\ answer[r] \/ leader_held[r]
    /\ leader_held' = [leader_held EXCEPT ![r] = TRUE]
    /\ answer' = [answer EXCEPT ![r] = FALSE]
    /\ Goto(r, "running")
    /\ UNCHANGED <<key, life, late, granted, faults>>

\* Elected: run the closure.
Elected(r) ==
    /\ pc[r] \in {"renewed", "acquired"}
    /\ answer[r]
    /\ leader_held' = [leader_held EXCEPT ![r] = TRUE]
    /\ answer' = [answer EXCEPT ![r] = FALSE]
    /\ Goto(r, "running")
    /\ UNCHANGED <<key, life, late, granted, faults>>

\* Mutant: a failed renewal is a skip, and the next fire renews again.
FallBackNever(r) ==
    /\ pc[r] = "renewed"
    /\ ~answer[r]
    /\ Goto(r, "idle")
    /\ UNCHANGED <<key, life, answer, leader_held, late, granted, faults>>

\* A failed renewal falls back to acquire.
FallBack(r) ==
    /\ pc[r] = "renewed"
    /\ ~answer[r]
    /\ Goto(r, "acquire")
    /\ UNCHANGED <<key, life, answer, leader_held, late, granted, faults>>

\* Not elected: skips + 1.  leader_held keeps its value.
Skip(r) ==
    /\ pc[r] = "acquired"
    /\ ~answer[r]
    /\ Goto(r, "idle")
    /\ UNCHANGED <<key, life, answer, leader_held, late, granted, faults>>

\* The closure's future resolves.
Complete(r) ==
    /\ pc[r] = "running"
    /\ Goto(r, "idle")
    /\ UNCHANGED <<key, life, answer, leader_held, late, granted, faults>>

\* A unit of time passes.
Less(n) == IF n = 0 THEN 0 ELSE n - 1
Tick ==
    /\ key' = [key EXCEPT !.left = Less(@)]
    /\ granted' = [r \in Runners |-> Less(granted[r])]
    /\ UNCHANGED <<life, pc, answer, leader_held, late, faults>>

\* A supervisor is killed and another one started in its place.  Its
\* requests may or may not have left it.
Restart(n) ==
    /\ life[n] < MaxRestarts
    /\ life' = [life EXCEPT ![n] = @ + 1]
    /\ pc' = [r \in Runners |-> IF NodeOf[r] = n THEN "idle" ELSE pc[r]]
    /\ answer' = [r \in Runners |-> NodeOf[r] # n /\ answer[r]]
    /\ leader_held' = [r \in Runners |-> NodeOf[r] # n /\ leader_held[r]]
    /\ \E S \in SUBSET {r \in Runners : /\ NodeOf[r] = n
                                        /\ pc[r] \in {"renew", "acquire"}} :
          late' = late \cup {<<pc[r], Holder(r)>> : r \in S}
    /\ granted' = [r \in Runners |-> IF NodeOf[r] = n THEN 0 ELSE granted[r]]
    /\ UNCHANGED <<key, faults>>

Call(r) ==
    ExecuteRenew(r) \/ ExecuteAcquire(r) \/ LoseRequest(r) \/ LoseReply(r)
Answered(r) == Elected(r) \/ FallBack(r) \/ Skip(r)

Next ==
    \/ \E r \in Runners : Fire(r) \/ Call(r) \/ Answered(r) \/ Complete(r)
    \/ \E m \in late : ExecuteLate(m)
    \/ Tick
    \/ \E n \in Nodes : Restart(n)

Spec == Init /\ [][Next]_vars

\* Every schedule keeps ticking, every call is answered or fails, every
\* closure returns, time passes.  Faults and restarts may happen or not.
Fairness ==
    /\ \A r \in Runners : WF_vars(Fire(r) \/ Call(r) \/ Answered(r) \/ Complete(r))
    /\ WF_vars(Tick)

FairSpec == Spec /\ Fairness

-----------------------------------------------------------------------------
(***************************************************************************)
(* Properties.                                                             *)
(***************************************************************************)
Running(r) == pc[r] = "running"

\* Jobs of two supervisors run at the same time only if the lease of one of
\* them has run out under it: while its TTL lasts, a leader is alone,
\* whatever is lost and whoever restarts (the gate of fire with RENEW_LUA
\* and SET NX).
SoleLeaderWithinTTL ==
    \A r, s \in Runners :
        /\ NodeOf[r] # NodeOf[s]
        /\ Running(r) /\ granted[r] > 0
        /\ Running(s)
        => granted[s] = 0

\* A grant is backed by the key: a job that was given the lease, and whose
\* time is not up, finds its own supervisor's holder id in the key with at
\* least as much time left, even when other jobs of the same supervisor
\* renew it.
GrantsBackedByKey ==
    \A r \in Runners : granted[r] > 0 => /\ key.holder = Holder(r)
                                         /\ key.left >= granted[r]

\* The lease of a supervisor that died is not kept alive by anything: it
\* expires or passes to a living one, even if a request of the dead one is
\* executed after its death.
Dead(h) == h[2] < life[h[1]]
DeadLeaderReplaced == (Exists /\ Dead(key.holder)) ~> ~(Exists /\ Dead(key.holder))

\* The gate keeps the promise of Leadership: whatever is lost, late or
\* restarted, a job is told true only while no job of another supervisor has
\* a grant that lasts, and runs its closure once for each time it is told.
Gate == INSTANCE Leadership WITH
    elected <- {r \in Runners : answer[r]},
    running <- {r \in Runners : Running(r)},
    term <- granted
KeepsTheGate == Gate!Spec

\* "A lapsed leader can take over again": as long as the schedules tick
\* there is always some later fire that runs, through lost calls, expired
\* leases and restarts.
LeadershipRecovers == []<>(\E r \in Runners : Running(r))

\* What the trait says of acquire: it returns true if this holder holds the
\* lease now.
AcquireTellsTheHolder ==
    [][\A r \in Runners : ExecuteAcquire(r) =>
          (answer'[r] <=> key'.left > 0 /\ key'.holder = Holder(r))]_vars
=============================================================================
