--------------------------- MODULE MCJobRunner ---------------------------
(***************************************************************************)
(* Instances of JobRunner for TLC: one job, every combination of its       *)
(* settings that the loop tells apart, and every panic site.               *)
(***************************************************************************)
EXTENDS JobRunner

\* Budgets 0 (trips at the first failure), 1 and 2.  The flags the loop
\* only reads at its ends are varied together, the others freely.
MCSpecs ==
    {[name |-> 1, failure_budget |-> b, leader |-> l, fire_at_start |-> e,
      drain_pass |-> e, use_breaker |-> u, on_degraded |-> o] :
        b \in 0..2, l, e, u, o \in BOOLEAN}

\* JobSpec::new's settings: no leadership, no drain pass, no hook.
MCPlainSpecs ==
    {[name |-> 1, failure_budget |-> 2, leader |-> FALSE,
      fire_at_start |-> FALSE, drain_pass |-> FALSE,
      use_breaker |-> TRUE, on_degraded |-> FALSE]}

MCLeaseAnswers == BOOLEAN
MCPanicSites == {"body", "future", "hook"}
=============================================================================
