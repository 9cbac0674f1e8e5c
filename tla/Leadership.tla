----------------------------- MODULE Leadership -----------------------------
(***************************************************************************)
(* What the leader gate promises (src/src/leader/mod.rs: "a skipped fire,  *)
(* not two leaders firing"), and nothing about keys, calls or holder ids:  *)
(* a job is elected only while no job of another supervisor has an         *)
(* election that lasts, and it runs its closure once for every election    *)
(* that it learns of.                                                      *)
(***************************************************************************)
EXTENDS Integers

CONSTANTS Nodes, Runners, NodeOf, TTL

VARIABLES
    elected,    \* jobs that know of an election they have not used yet
    running,    \* jobs whose closure runs
    term        \* job -> the rest of its latest election

Init ==
    /\ elected = {}
    /\ running = {}
    /\ term = [r \in Runners |-> 0]

\* A fire that is told true.
Elect(r) ==
    /\ r \notin elected \cup running
    /\ \A s \in Runners : NodeOf[s] # NodeOf[r] => term[s] = 0
    /\ elected' = elected \cup {r}
    /\ term' = [term EXCEPT ![r] = TTL]
    /\ UNCHANGED running

\* The job never learns of it.
Forget(r) ==
    /\ r \in elected
    /\ elected' = elected \ {r}
    /\ UNCHANGED <<running, term>>

Begin(r) ==
    /\ r \in elected
    /\ elected' = elected \ {r}
    /\ running' = running \cup {r}
    /\ UNCHANGED term

End(r) ==
    /\ r \in running
    /\ running' = running \ {r}
    /\ UNCHANGED <<elected, term>>

Pass ==
    /\ term' = [r \in Runners |-> IF term[r] = 0 THEN 0 ELSE term[r] - 1]
    /\ UNCHANGED <<elected, running>>

\* A supervisor dies with all its jobs.
Die(n) ==
    LET lost == {r \in Runners : NodeOf[r] = n}
    IN  /\ elected' = elected \ lost
        /\ running' = running \ lost
        /\ term' = [r \in Runners |-> IF r \in lost THEN 0 ELSE term[r]]

Next ==
    \/ \E r \in Runners : Elect(r) \/ Forget(r) \/ Begin(r) \/ End(r)
    \/ Pass
    \/ \E n \in Nodes : Die(n)

Spec == Init /\ [][Next]_<<elected, running, term>>
=============================================================================
