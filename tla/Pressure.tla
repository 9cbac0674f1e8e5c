------------------------------ MODULE Pressure ------------------------------
(***************************************************************************)
(* The memory-pressure watcher (src/src/pressure.rs): a task that polls a  *)
(* PSI file and calls back while the `some` avg60 is at or above a         *)
(* threshold, until a shared flag tells it to stop.                        *)
(*                                                                         *)
(* Between two sleeps the task does not await, but the flag and the file   *)
(* are changed by others at any time, so the check, the read and the call  *)
(* are steps of their own.                                                 *)
(***************************************************************************)
EXTENDS Integers, Sequences, FiniteSetsExt

CONSTANTS
    Missing,        \* there is no file to read
    Texts,          \* contents the PSI file may have (see Lines), or Missing
    Environments,   \* values of $MEMORY_PRESSURE_WATCH (see EnvValues)
    Threshold,      \* PressureConfig.threshold
    MaxChanges      \* bound: how often the file changes

Bad == -1           \* the value of a field that is not key=number
Averages == {"avg10", "avg60", "avg300"}
EnvValues == {"unset", "blank", "/dev/null", "a path"}

\* A line of the file: whether it starts with "some ", and its fields.
Lines == [some : BOOLEAN,
          fields : Seq((Averages \cup {"total"}) \X (Nat \cup {Bad}))]

ASSUME TextsAssumption ==
    \A t \in Texts : t = Missing \/ \A i \in DOMAIN t : t[i] \in Lines
ASSUME SettingsAssumption ==
    /\ Environments \subseteq EnvValues
    /\ Threshold \in Nat
    /\ MaxChanges \in Nat

VARIABLES
    path,       \* PressureConfig.path
    on_error,   \* whether the host gave an error callback
    file,       \* what is in the PSI file
    shutdown,   \* the AtomicBool
    pc,         \* "check", "read", "call", "report", "sleep", or an end
    sample,     \* the latest avg60 read, or None
    changes,    \* changes of the file so far
    stale,      \* reference: callbacks (0, 1, or more) since the file
                \* last showed pressure
    late        \* reference: callbacks (0, 1, or more) since the flag was set

vars == <<path, on_error, file, shutdown, pc, sample, changes, stale, late>>

None == -1
Ended == {"returned", "crashed"}

-----------------------------------------------------------------------------
\* PressureConfig::from_env: a path that is not blank replaces the default.
from_env(env) == IF env \in {"unset", "blank"} THEN "default" ELSE env

\* parse_some: the first `some` line decides.  One bad field spoils it, the
\* last field of a name counts, and all three averages must be there.  Of
\* the sample only avg60 is kept.
parse_some(text) ==
    LET somes == {i \in DOMAIN text : text[i].some}
        fields == text[Min(somes)].fields
        named(key) == {i \in DOMAIN fields : fields[i][1] = key}
    IN IF \/ somes = {}
          \/ \E i \in DOMAIN fields : fields[i][2] = Bad
          \/ \E key \in Averages : named(key) = {}
       THEN None
       ELSE fields[Max(named("avg60"))][2]

\* read_sample: /dev/null reads as an empty file.
Content == IF path = "/dev/null" THEN <<>> ELSE file
read_sample == IF Content = Missing THEN None ELSE parse_some(Content)

Pressing == read_sample # None /\ read_sample >= Threshold

-----------------------------------------------------------------------------
TypeOK ==
    /\ path \in {"default", "/dev/null", "a path"}
    /\ on_error \in BOOLEAN
    /\ file \in Texts
    /\ shutdown \in BOOLEAN
    /\ pc \in {"check", "read", "call", "report", "sleep"} \cup Ended
    /\ sample \in Nat \cup {None}
    /\ changes \in 0 .. MaxChanges
    /\ stale \in 0 .. 2
    /\ late \in 0 .. 2

Init ==
    /\ path \in {from_env(env) : env \in Environments}
    /\ on_error \in BOOLEAN
    /\ file \in Texts
    /\ shutdown \in BOOLEAN
    /\ pc = "check"
    /\ sample = None
    /\ changes = 0
    /\ stale = 0
    /\ late = 0

Goto(loc) == pc' = loc /\ UNCHANGED <<path, on_error, file, shutdown, changes>>

\* Mutant: the flag is not looked at.
CheckNothing ==
    /\ pc = "check"
    /\ Goto("read")
    /\ UNCHANGED <<sample, stale, late>>

\* Top of the loop: return if the flag is set.
Check ==
    /\ pc = "check"
    /\ Goto(IF shutdown THEN "returned" ELSE "read")
    /\ UNCHANGED <<sample, stale, late>>

\* Mutant: a reading failure ends the watcher.
ReadFatal ==
    /\ pc = "read"
    /\ sample' = read_sample
    /\ Goto(IF read_sample = None THEN "returned"
            ELSE IF Pressing THEN "call" ELSE "sleep")
    /\ UNCHANGED <<stale, late>>

\* Mutant: a reading failure is taken for the previous sample.
ReadCached ==
    /\ pc = "read"
    /\ sample' = IF read_sample = None THEN sample ELSE read_sample
    /\ Goto(IF sample' # None /\ sample' >= Threshold THEN "call" ELSE "sleep")
    /\ UNCHANGED <<stale, late>>

\* Read the file and compare.
Read ==
    /\ pc = "read"
    /\ sample' = read_sample
    /\ Goto(IF read_sample = None THEN IF on_error THEN "report" ELSE "sleep"
            ELSE IF Pressing THEN "call" ELSE "sleep")
    /\ UNCHANGED <<stale, late>>

\* 0, 1, or more
OneMore(n) == IF n = 0 THEN 1 ELSE 2

\* callback(sample), or report(&e).  Nothing catches a panic of either.
Call ==
    /\ pc = "call"
    /\ \E loc \in {"sleep", "crashed"} : Goto(loc)
    /\ stale' = IF Pressing THEN 0 ELSE OneMore(stale)
    /\ late' = IF shutdown THEN OneMore(late) ELSE 0
    /\ UNCHANGED sample

Report ==
    /\ pc = "report"
    /\ \E loc \in {"sleep", "crashed"} : Goto(loc)
    /\ UNCHANGED <<sample, stale, late>>

Wake ==
    /\ pc = "sleep"
    /\ Goto("check")
    /\ UNCHANGED <<sample, stale, late>>

\* The host sets the flag.
SetShutdown ==
    /\ ~shutdown
    /\ shutdown' = TRUE
    /\ UNCHANGED <<path, on_error, file, pc, sample, changes, stale, late>>

\* The kernel writes the file, or takes it away.
SetFile ==
    /\ changes < MaxChanges
    /\ changes' = changes + 1
    /\ \E t \in Texts : t # file /\ file' = t
    /\ UNCHANGED <<path, on_error, shutdown, pc, sample, late>>
    /\ stale' = IF Pressing' THEN 0 ELSE stale

TaskStep == Check \/ Read \/ Call \/ Report \/ Wake

Next ==
    \/ TaskStep
    \/ SetShutdown
    \/ SetFile
    \/ pc \in Ended /\ UNCHANGED vars

Spec == Init /\ [][Next]_vars

\* The runtime keeps polling the task and its timer, and the host's
\* callbacks return.
FairSpec == Spec /\ WF_vars(TaskStep)

-----------------------------------------------------------------------------
(***************************************************************************)
(* Properties.                                                             *)
(***************************************************************************)

\* Once the flag is set the host is called back at most once more, whatever
\* the watcher was doing when it was set.
AtMostOneLateCall == late <= 1

\* Once the pressure is gone, or the file has become unreadable, the host is
\* called back at most once more: no reading but the latest is acted on.
AtMostOneStaleCall == stale <= 1

\* Both: the watcher is at most one call behind the flag and the file,
\* whatever changes between its check, its reading and its call.
AtMostOneCallBehind == AtMostOneLateCall /\ AtMostOneStaleCall

\* The watcher calls back for as long as pressure persists, however often
\* the file was missing or unparsable before, unless it was told to stop
\* or a callback panicked.
PersistentPressureReported ==
    <>[]Pressing => []<>(pc = "call") \/ <>shutdown \/ <>(pc = "crashed")

\* "Run the watcher until shutdown fires": whatever it is doing, it ends.
StopsOnShutdown == shutdown ~> pc \in Ended
=============================================================================
