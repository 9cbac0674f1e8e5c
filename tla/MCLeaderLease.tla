--------------------------- MODULE MCLeaderLease ---------------------------
(***************************************************************************)
(* Instances of LeaderLease for TLC: two supervisors, the first with one   *)
(* or two leader jobs, the second with one.                                *)
(***************************************************************************)
EXTENDS LeaderLease

MCNodes == {"A", "B"}
MCRunners == {"a1", "a2", "b1"}
MCNodeOf == [a1 |-> "A", a2 |-> "A", b1 |-> "B"]

MCPair == {"a1", "b1"}
MCNodeOfPair == [a1 |-> "A", b1 |-> "B"]
=============================================================================
