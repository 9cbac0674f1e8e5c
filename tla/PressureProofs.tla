--------------------------- MODULE PressureProofs ---------------------------
(***************************************************************************)
(* Proofs about the memory-pressure watcher, for any contents of the file  *)
(* and any number of changes: how often the host is called back after the  *)
(* flag was set, and after the pressure has gone.                          *)
(***************************************************************************)
EXTENDS Pressure, TLAPS

\* A call that comes after the flag was set is the last: the watcher is on
\* its way to the check that ends it.
LateInv ==
    /\ late \in {0, 1}
    /\ late = 1 => shutdown
    /\ pc \in {"read", "call", "report"} => late = 0

\* A call that comes after the pressure has gone is the last until it is
\* back: the next reading does not show any.
StaleInv ==
    /\ stale \in {0, 1}
    /\ stale = 1 => ~Pressing
    /\ pc = "call" => stale = 0

\* Only the file and the path decide whether there is pressure.
LEMMA SamePressure ==
    ASSUME UNCHANGED <<path, file>>
    PROVE  Pressing' <=> Pressing
PROOF
  BY DEF Pressing, read_sample, Content

\* "Run the watcher until shutdown fires": at most the call it was about to
\* make when the flag was set (the loop of watch, pressure.rs 168-187).
THEOREM LateCalls == Spec => []AtMostOneLateCall
PROOF
<1>1. Init => LateInv
  BY DEF Init, LateInv
<1>2. LateInv /\ [Next]_vars => LateInv'
  <2> SUFFICES ASSUME LateInv, [Next]_vars PROVE LateInv'
    OBVIOUS
  <2> USE DEF LateInv, Goto
  <2>1. CASE Check
    BY <2>1 DEF Check
  <2>2. CASE Read
    BY <2>2 DEF Read
  <2>3. CASE Call
    BY <2>3 DEF Call, OneMore
  <2>4. CASE Report
    BY <2>4 DEF Report
  <2>5. CASE Wake
    BY <2>5 DEF Wake
  <2>6. CASE SetShutdown
    BY <2>6 DEF SetShutdown
  <2>7. CASE SetFile
    BY <2>7 DEF SetFile
  <2>8. CASE UNCHANGED vars
    BY <2>8 DEF vars
  <2> QED
    BY <2>1, <2>2, <2>3, <2>4, <2>5, <2>6, <2>7, <2>8 DEF Next, TaskStep
<1>3. LateInv => AtMostOneLateCall
  BY DEF LateInv, AtMostOneLateCall
<1> QED
  BY <1>1, <1>2, <1>3, PTL DEF Spec

\* The watcher acts on its latest reading and on no other: once the pressure
\* is gone there is at most the call it was about to make (the loop of
\* watch, pressure.rs 168-187).
THEOREM StaleCalls == Spec => []AtMostOneStaleCall
PROOF
<1>1. Init => StaleInv
  BY DEF Init, StaleInv
<1>2. StaleInv /\ [Next]_vars => StaleInv'
  <2> SUFFICES ASSUME StaleInv, [Next]_vars PROVE StaleInv'
    OBVIOUS
  <2>1. CASE Check
    BY <2>1, SamePressure DEF Check, StaleInv, Goto
  <2>2. CASE Read
    <3>1. pc' = "call" => Pressing
      BY <2>2 DEF Read, Goto
    <3>2. UNCHANGED <<path, file, stale>>
      BY <2>2 DEF Read, Goto
    <3> QED
      BY <3>1, <3>2, SamePressure DEF StaleInv
  <2>3. CASE Call
    <3>1. stale = 0 /\ pc' # "call" /\ UNCHANGED <<path, file>>
      BY <2>3 DEF Call, Goto, StaleInv
    <3>2. CASE Pressing
      BY <2>3, <3>1, <3>2 DEF Call, StaleInv
    <3>3. CASE ~Pressing
      BY <2>3, <3>1, <3>3, SamePressure DEF Call, OneMore, StaleInv
    <3> QED
      BY <3>2, <3>3
  <2>4. CASE Report
    BY <2>4, SamePressure DEF Report, StaleInv, Goto
  <2>5. CASE Wake
    BY <2>5, SamePressure DEF Wake, StaleInv, Goto
  <2>6. CASE SetShutdown
    BY <2>6, SamePressure DEF SetShutdown, StaleInv
  <2>7. CASE SetFile
    <3>1. pc' = pc
      BY <2>7 DEF SetFile
    <3>2. CASE Pressing'
      BY <2>7, <3>1, <3>2 DEF SetFile, StaleInv
    <3>3. CASE ~Pressing'
      BY <2>7, <3>1, <3>3 DEF SetFile, StaleInv
    <3> QED
      BY <3>2, <3>3
  <2>8. CASE UNCHANGED vars
    BY <2>8, SamePressure DEF vars, StaleInv
  <2> QED
    BY <2>1, <2>2, <2>3, <2>4, <2>5, <2>6, <2>7, <2>8 DEF Next, TaskStep
<1>3. StaleInv => AtMostOneStaleCall
  BY DEF StaleInv, AtMostOneStaleCall
<1> QED
  BY <1>1, <1>2, <1>3, PTL DEF Spec

\* The host is called back at most once after the flag is set, and at most
\* once after the pressure is gone.
THEOREM CallsBehind == Spec => []AtMostOneCallBehind
BY LateCalls, StaleCalls, PTL DEF AtMostOneCallBehind
=============================================================================
