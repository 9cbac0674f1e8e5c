----------------------------- MODULE JobLedger -----------------------------
(***************************************************************************)
(* What a job's counters promise (src/src/supervisor.rs, JobStatus), as    *)
(* functions of the history of its fire attempts.  The runner never keeps  *)
(* this history: it is the reference the AtomicU64/AtomicU32/AtomicBool    *)
(* counters of src/src/runner.rs (struct Stats) are compared with.         *)
(***************************************************************************)
EXTENDS Naturals, Sequences, FiniteSets

(***************************************************************************)
(* How one attempt ended.  The first four are fires of the closure, the    *)
(* last two are the attempts that never invoke it.                         *)
(*   ok       the closure's future resolved to Ok                          *)
(*   err      it resolved to Err                                           *)
(*   panic    it panicked while being polled (caught by catch_unwind)      *)
(*   timeout  the breaker gave up on it (its additive `timeout` feature)   *)
(*   skip     the leader gate refused the attempt                          *)
(*   paused   the breaker refused the attempt (CircuitOpen or Rejected)    *)
(***************************************************************************)
Failed == {"err", "panic", "timeout"}
Ran == Failed \cup {"ok"}
Outcomes == Ran \cup {"skip", "paused"}

NoError == "none"

\* The message recorded for each kind of failure: the error's own text, or
\* one of the two static messages.
Message == [err     |-> "error text",
            panic   |-> "JOB_PANIC_MESSAGE",
            timeout |-> "JOB_UNCLASSIFIED_MESSAGE"]

Messages == {Message[r] : r \in Failed} \cup {NoError}

Count(h, S) == Cardinality({i \in DOMAIN h : h[i] \in S})

\* The failures no later success has wiped out.  Skipped and paused
\* attempts neither extend nor break the streak.
SinceSuccess(h) ==
    {i \in DOMAIN h : h[i] \in Failed /\ \A k \in i..Len(h) : h[k] # "ok"}

Streak(h) == Cardinality(SinceSuccess(h))

\* `consecutive >= failure_budget` is first true at the first failure when
\* the budget is zero.
Threshold(budget) == IF budget = 0 THEN 1 ELSE budget

\* The attempts at which the job becomes Degraded: the streak reaches the
\* budget exactly there.
Degradations(h, budget) ==
    {i \in DOMAIN h : /\ h[i] \in Failed
                      /\ Streak(SubSeq(h, 1, i)) = Threshold(budget)}

IsLatestError(h, m) ==
    \/ m = NoError /\ \A i \in DOMAIN h : h[i] \notin Failed
    \/ \E i \in DOMAIN h : /\ h[i] \in Failed
                           /\ m = Message[h[i]]
                           /\ \A k \in (i + 1)..Len(h) : h[k] \notin Failed
=============================================================================
