------------------------- MODULE RegistrationProofs -------------------------
(***************************************************************************)
(* Registration, for any jobs, names, settings and number of calls.  The   *)
(* inductive invariant relates what the supervisor holds now to the log of *)
(* the calls: each setting is the one set last, and the runners are the    *)
(* sound jobs registered, in order; register takes exactly the sound jobs. *)
(***************************************************************************)
EXTENDS Registration, FiniteSetTheorems, WellFoundedInduction, TLAPS

(***************************************************************************)
(* Least and greatest.                                                     *)
(***************************************************************************)

\* A set of numbers has a least one.
LEMMA Least ==
    ASSUME NEW S \in SUBSET Nat, S # {}
    PROVE  \E x \in S : \A y \in S : x <= y
<1> DEFINE R == OpToRel(<, Nat)
<1>1. IsWellFoundedOn(R, Nat)
  BY NatLessThanWellFounded, Zenon
<1>2. \A x, y \in Nat : <<y, x>> \notin R => x <= y
  BY DEF OpToRel
<1> HIDE DEF R
<1>3. PICK x \in S : \A y \in S : <<y, x>> \notin R
  BY <1>1, WFMin
<1> QED
  BY <1>2, <1>3

\* A set of numbers from 1 to n has a greatest one, which Max returns.
LEMMA Greatest ==
    ASSUME NEW n \in Nat, NEW S \in SUBSET (1 .. n), S # {}
    PROVE  Max(S) \in S /\ \A x \in S : Max(S) >= x
<1> DEFINE T == {m \in Nat : \E x \in S : m = n - x}
<1>1. \A x \in S : x \in Int /\ n - x \in Nat /\ n - x \in T
  OBVIOUS
<1>2. T # {}
  BY <1>1
<1>3. PICK t \in T : \A u \in T : t <= u
  BY <1>2, Least
<1>4. PICK x \in S : t = n - x
  BY <1>3
<1>5. \A y \in S : x >= y
  <2> TAKE y \in S
  <2>1. n - x <= n - y
    BY <1>1, <1>3, <1>4
  <2> QED
    BY <1>1, <2>1
<1> QED
  BY <1>5 DEF Max

-----------------------------------------------------------------------------
(***************************************************************************)
(* Names.                                                                  *)
(***************************************************************************)

\* register takes exactly the sound jobs.
LEMMA RefusalFacts ==
    ASSUME NEW spec \in Specs
    PROVE  /\ refusal(spec) \in RegisterErrors \cup {"Ok"}
           /\ refusal(spec) = "Ok" <=> Sound(spec)
<1> DEFINE name == spec.name
<1>1. name \in Seq(Nat) /\ spec.trigger \in Triggers
  BY SpecsAssumption DEF JobSpecs
<1>2. validate(spec.trigger) <=> spec.trigger \in {"interval", "cron"}
  BY <1>1 DEF validate, Triggers
<1>3. is_valid_name(name) <=>
          name \in UNION {[1 .. n -> NameChars] : n \in 1 .. NAME_MAX_LEN}
  <2> HIDE DEF name
  <2>1. ASSUME is_valid_name(name)
        PROVE  \E n \in 1 .. NAME_MAX_LEN : name \in [1 .. n -> NameChars]
    <3>1. Len(name) \in 1 .. NAME_MAX_LEN
      BY <1>1, <2>1, SettingsAssumption DEF is_valid_name
    <3>2. name \in [1 .. Len(name) -> Nat]
      BY <1>1
    <3>3. \A i \in 1 .. Len(name) : name[i] \in NameChars
      BY <2>1, <3>2 DEF is_valid_name, Range
    <3> QED
      BY <3>1, <3>2, <3>3
  <2>2. ASSUME NEW n \in 1 .. NAME_MAX_LEN, name \in [1 .. n -> NameChars]
        PROVE  is_valid_name(name)
    <3>1. DOMAIN name = 1 .. n /\ n \in Nat
      BY <2>2, SettingsAssumption
    <3>2. Len(name) = n
      BY <1>1, <3>1
    <3> QED
      BY <1>1, <2>2, <3>1, <3>2, SettingsAssumption, SMTT(40)
      DEF is_valid_name, Range
  <2> QED
    BY <2>1, <2>2, SMTT(40)
<1>4. Sound(spec) <=> is_valid_name(name) /\ validate(spec.trigger)
  BY <1>2, <1>3 DEF Sound
<1>5. CASE ~is_valid_name(name)
  BY <1>4, <1>5 DEF refusal, RegisterErrors
<1>6. CASE is_valid_name(name) /\ ~validate(spec.trigger)
  BY <1>4, <1>6 DEF refusal, RegisterErrors
<1>7. CASE is_valid_name(name) /\ validate(spec.trigger)
  BY <1>4, <1>7 DEF refusal, RegisterErrors
<1> QED
  BY <1>5, <1>6, <1>7

-----------------------------------------------------------------------------
(***************************************************************************)
(* The invariant: what the supervisor and its runners hold now, in terms   *)
(* of the calls made so far.                                               *)
(***************************************************************************)

\* Every setting is what it was set to last.
Current == \A s \in Setters : settings[s] = LastSet(s, Len(log) + 1)

\* The runners are the sound jobs registered so far, in the order of their
\* registrations, and the ones that asked for a breaker have one.
Roster ==
    /\ \A i \in DOMAIN runners :
          LET r == runners[i]
          IN /\ r.call \in 1 .. Len(log)
             /\ Sound(r.spec)
             /\ IF r.spec.use_breaker THEN r.breaker \in Given
                                      ELSE r.breaker = NoBreaker
    /\ \A i, j \in DOMAIN runners : i < j => runners[i].call < runners[j].call
    /\ {runners[i].call : i \in DOMAIN runners} = SoundBefore(Len(log) + 1)

RegInv ==
    TypeOK /\ Current /\ Roster /\ SettingsOfTheirTime /\ RunsTheSoundJobs

\* A call is written at the end of the log and changes nothing of what was
\* written before, so neither does it change what was set or registered
\* before an earlier call.
LEMMA LogStep ==
    ASSUME TypeOK, NEW e \in Calls, log' = Append(log, e),
           NEW m \in Nat, m = Len(log)
    PROVE  /\ log' \in Seq(Calls) /\ Len(log') = m + 1
           /\ DOMAIN log = 1 .. m /\ DOMAIN log' = 1 .. m + 1
           /\ log'[m + 1] = e
           /\ \A k \in 1 .. m : log'[k] = log[k]
           /\ \A n \in 1 .. m + 1 : SoundBefore(n)' = SoundBefore(n)
           /\ \A s \in Setters, n \in 1 .. m + 1 : LastSet(s, n)' = LastSet(s, n)
<1>1. log \in Seq(Calls)
  BY DEF TypeOK
<1>2. /\ log' \in Seq(Calls) /\ Len(log') = m + 1 /\ log'[m + 1] = e
      /\ \A k \in 1 .. m : log'[k] = log[k]
  BY <1>1
<1>3. DOMAIN log = 1 .. m /\ DOMAIN log' = 1 .. m + 1
  BY <1>1, <1>2
<1>4. ASSUME NEW n \in 1 .. m + 1
      PROVE  SoundBefore(n)' = SoundBefore(n)
  <2>1. \A k \in 1 .. n - 1 : log'[k] = log[k]
    BY <1>2
  <2> QED
    BY <2>1 DEF SoundBefore, Sound
<1>5. ASSUME NEW s \in Setters, NEW n \in 1 .. m + 1
      PROVE  LastSet(s, n)' = LastSet(s, n)
  <2> DEFINE S == {k \in 1 .. n - 1 : log[k].call = s}
  <2>1. \A k \in 1 .. n - 1 : log'[k] = log[k]
    BY <1>2
  <2>2. {k \in 1 .. n - 1 : log'[k].call = s} = S
    BY <2>1
  <2>3. LastSet(s, n) = IF S = {} THEN Default ELSE log[Max(S)].value
    BY DEF LastSet
  <2>4. LastSet(s, n)' = IF S = {} THEN Default ELSE log'[Max(S)].value
    BY <2>2 DEF LastSet
  <2>5. ASSUME S # {} PROVE Max(S) \in 1 .. n - 1
    <3>1. n - 1 \in Nat /\ S \in SUBSET (1 .. n - 1)
      OBVIOUS
    <3>2. Max(S) \in S
      BY <2>5, <3>1, Greatest
    <3> QED
      BY <3>2
  <2> HIDE DEF S
  <2> QED
    BY <2>1, <2>3, <2>4, <2>5
<1> QED
  BY <1>2, <1>3, <1>4, <1>5

\* What the call just written adds.
LEMMA LogAdds ==
    ASSUME TypeOK, NEW e \in Calls, log' = Append(log, e),
           NEW m \in Nat, m = Len(log)
    PROVE  /\ \A s \in Setters :
                 LastSet(s, m + 2)' = IF e.call = s THEN e.value
                                                    ELSE LastSet(s, m + 1)
           /\ SoundBefore(m + 2)' =
                 SoundBefore(m + 1)
                    \cup IF e.call = "register" /\ Sound(e.spec) THEN {m + 1}
                                                                 ELSE {}
<1>1. /\ log'[m + 1] = e /\ \A k \in 1 .. m : log'[k] = log[k]
      /\ \A s \in Setters, n \in 1 .. m + 1 : LastSet(s, n)' = LastSet(s, n)
      /\ \A n \in 1 .. m + 1 : SoundBefore(n)' = SoundBefore(n)
  BY LogStep, Zenon
<1>2. \A k : k \in 1 .. (m + 2) - 1 <=> k \in 1 .. (m + 1) - 1 \/ k = m + 1
  OBVIOUS
<1>3. ASSUME NEW s \in Setters
      PROVE  LastSet(s, m + 2)' =
                 IF e.call = s THEN e.value ELSE LastSet(s, m + 1)
  <2> DEFINE S == {k \in 1 .. (m + 1) - 1 : log'[k].call = s}
             T == {k \in 1 .. (m + 2) - 1 : log'[k].call = s}
  <2>1. LastSet(s, m + 2)' = IF T = {} THEN Default ELSE log'[Max(T)].value
    BY DEF LastSet
  <2>2. LastSet(s, m + 1)' = IF S = {} THEN Default ELSE log'[Max(S)].value
    BY DEF LastSet
  <2>3. CASE e.call = s
    <3>1. m + 1 \in T /\ \A x \in T : x \in Int /\ x <= m + 1
      BY <1>1, <2>3
    <3>2. Max(T) = m + 1
      <4> HIDE DEF T
      <4>1. \E x \in T : \A y \in T : x >= y
        BY <3>1
      <4>2. Max(T) \in T /\ \A y \in T : Max(T) >= y
        BY <4>1 DEF Max
      <4> QED
        BY <3>1, <4>2
    <3> QED
      BY <1>1, <2>1, <2>3, <3>1, <3>2
  <2>4. CASE e.call # s
    <3>1. T = S
      BY <1>1, <1>2, <2>4
    <3>2. LastSet(s, m + 1)' = LastSet(s, m + 1)
      <4>1. m + 1 \in 1 .. m + 1
        OBVIOUS
      <4> QED
        BY <1>1, <4>1, Zenon
    <3> HIDE DEF S, T
    <3> QED
      BY <2>1, <2>2, <2>4, <3>1, <3>2
  <2> QED
    BY <2>3, <2>4
<1>4. SoundBefore(m + 2)' =
         SoundBefore(m + 1)
            \cup IF e.call = "register" /\ Sound(e.spec) THEN {m + 1} ELSE {}
  <2> DEFINE P(k) == log'[k].call = "register" /\ Sound(log'[k].spec)
  <2>1. SoundBefore(m + 2)' = {k \in 1 .. (m + 2) - 1 : P(k)}
    BY DEF SoundBefore, Sound
  <2>2. SoundBefore(m + 1)' = {k \in 1 .. (m + 1) - 1 : P(k)}
    BY DEF SoundBefore, Sound
  <2>3. SoundBefore(m + 1)' = SoundBefore(m + 1)
    <3>1. m + 1 \in 1 .. m + 1
      OBVIOUS
    <3> QED
      BY <1>1, <3>1, Zenon
  <2>4. P(m + 1) <=> e.call = "register" /\ Sound(e.spec)
    BY <1>1
  <2> HIDE DEF P
  <2> QED
    BY <1>2, <2>1, <2>2, <2>3, <2>4
<1> QED
  BY <1>3, <1>4

\* Calls are told apart by their names.
LEMMA CallFacts ==
    /\ "register" \notin Setters /\ "run" \notin Setters
    /\ \A s \in Setters, v \in Values : [call |-> s, value |-> v] \in Calls
    /\ {"jitter", "breaker_config", "lease", "lease_ttl", "seed", "drain_cap"}
          = Setters
    /\ NoBreaker \notin Given
<1>1. NoBreaker \notin Given
  BY SettingsAssumption DEF Given, NoBreaker, Default
<1> QED
  BY <1>1 DEF Setters, Copied, ReadByRun, Calls

\* A runner with the settings of the time of its registration.
OfItsTime(r) ==
    /\ r.jitter = LastSet("jitter", r.call)
    /\ r.lease = LastSet("lease", r.call)
    /\ r.lease_ttl = LastSet("lease_ttl", r.call)
    /\ r.breaker = IF r.spec.use_breaker
                   THEN LastSet("breaker_config", r.call) ELSE NoBreaker

\* What the log says of the k-th call, if it is a run.
RunOfItsTime(k) ==
    log[k].call = "run" =>
        /\ log[k].seed = LastSet("seed", k)
        /\ log[k].drain_cap = LastSet("drain_cap", k)
        /\ Range(log[k].loops) = SoundBefore(k)
        /\ \A i, j \in DOMAIN log[k].loops :
              i < j => log[k].loops[i] < log[k].loops[j]

\* The two properties about the log, entry by entry.
LEMMA TimesFacts ==
    SettingsOfTheirTime /\ RunsTheSoundJobs <=>
        /\ \A i \in DOMAIN runners : OfItsTime(runners[i])
        /\ \A k \in DOMAIN log : RunOfItsTime(k)
BY DEF SettingsOfTheirTime, RunsTheSoundJobs, OfItsTime, RunOfItsTime

\* The same of the next state.
LEMMA TimesNext ==
    /\ \A i \in DOMAIN runners' : OfItsTime(runners[i])'
    /\ \A k \in DOMAIN log' : RunOfItsTime(k)'
    => SettingsOfTheirTime' /\ RunsTheSoundJobs'
BY DEF SettingsOfTheirTime, RunsTheSoundJobs, OfItsTime, RunOfItsTime

\* What an earlier call left is as it was.
LEMMA OldEntries ==
    ASSUME RegInv, NEW e \in Calls, log' = Append(log, e),
           NEW m \in Nat, m = Len(log)
    PROVE  /\ \A i \in DOMAIN runners :
                 runners'[i] = runners[i] => OfItsTime(runners[i])'
           /\ \A k \in 1 .. m : RunOfItsTime(k)'
<1>0. TypeOK /\ Roster
  BY DEF RegInv
<1>1. /\ \A k \in 1 .. m : log'[k] = log[k]
      /\ DOMAIN log = 1 .. m
      /\ \A s \in Setters, n \in 1 .. m + 1 : LastSet(s, n)' = LastSet(s, n)
      /\ \A n \in 1 .. m + 1 : SoundBefore(n)' = SoundBefore(n)
  BY <1>0, LogStep, ZenonT(60)
<1>2. \A k \in 1 .. m : k \in 1 .. m + 1
  OBVIOUS
<1>3. /\ \A i \in DOMAIN runners : OfItsTime(runners[i])
      /\ \A k \in DOMAIN log : RunOfItsTime(k)
  BY TimesFacts DEF RegInv
<1>4. ASSUME NEW i \in DOMAIN runners, runners'[i] = runners[i]
      PROVE  OfItsTime(runners[i])'
  <2>1. PICK r : r = runners[i]
    OBVIOUS
  <2>2. r.call \in 1 .. m + 1
    BY <1>0, <1>2, <2>1 DEF Roster
  <2>3. PICK c \in 1 .. m + 1 : c = r.call
    BY <2>2
  <2>4. \A s \in Setters : LastSet(s, c)' = LastSet(s, c)
    BY <1>1, Zenon
  <2>5. LastSet("jitter", c)' = LastSet("jitter", c)
        /\ LastSet("lease", c)' = LastSet("lease", c)
        /\ LastSet("lease_ttl", c)' = LastSet("lease_ttl", c)
        /\ LastSet("breaker_config", c)' = LastSet("breaker_config", c)
    BY <2>4, CallFacts
  <2>6. OfItsTime(r)
    BY <1>3, <2>1
  <2>7. OfItsTime(r)'
    BY <2>3, <2>5, <2>6 DEF OfItsTime
  <2>8. r = runners'[i]
    BY <1>4, <2>1
  <2> QED
    BY <2>7, <2>8, Zenon DEF OfItsTime, LastSet
<1>5. ASSUME NEW k \in 1 .. m
      PROVE  RunOfItsTime(k)'
  <2>1. RunOfItsTime(k) /\ log'[k] = log[k] /\ k \in 1 .. m + 1
    BY <1>1, <1>2, <1>3
  <2>2. LastSet("seed", k)' = LastSet("seed", k)
        /\ LastSet("drain_cap", k)' = LastSet("drain_cap", k)
        /\ SoundBefore(k)' = SoundBefore(k)
    BY <1>1, <2>1, CallFacts
  <2> QED
    BY <2>1, <2>2 DEF RunOfItsTime
<1> QED
  BY <1>4, <1>5

\* The settings and the runners are right again, once they are for the call
\* just written.
LEMMA NowNext ==
    ASSUME NEW m \in Nat, Len(log') = m + 1
    PROVE  /\ (\A s \in Setters : settings'[s] = LastSet(s, m + 2)') => Current'
           /\ SoundBefore(Len(log) + 1)' = SoundBefore(m + 2)'
<1>1. Len(log') + 1 = m + 2
  OBVIOUS
<1> QED
  BY <1>1 DEF Current, LastSet, SoundBefore, Sound

\* Nothing registered: the runners are still the sound jobs.
LEMMA RosterKept ==
    ASSUME Roster, NEW m \in Nat, m = Len(log), Len(log') = m + 1,
           runners' = runners, SoundBefore(m + 2)' = SoundBefore(m + 1)
    PROVE  Roster'
<1>1. SoundBefore(Len(log) + 1)' = SoundBefore(m + 1)
  BY NowNext
<1>2. {runners'[i].call : i \in DOMAIN runners'} = SoundBefore(Len(log) + 1)'
  BY <1>1 DEF Roster
<1>3. 1 .. Len(log) \subseteq 1 .. Len(log')
  OBVIOUS
<1>4. \A i \in DOMAIN runners' :
          LET r == runners'[i]
          IN  /\ r.call \in 1 .. Len(log')
              /\ Sound(r.spec)
              /\ IF r.spec.use_breaker THEN r.breaker \in Given
                                       ELSE r.breaker = NoBreaker
  BY <1>3 DEF Roster
<1>5. \A i, j \in DOMAIN runners' :
          i < j => runners'[i].call < runners'[j].call
  BY DEF Roster
<1> QED
  BY <1>2, <1>4, <1>5 DEF Roster, Sound

\* A setter: what is set last is what it was given, and no runner notices.
LEMMA SetInv ==
    ASSUME RegInv, NEW s \in Setters, NEW v \in Values, Set(s, v)
    PROVE  RegInv'
<1> DEFINE e == [call |-> s, value |-> v]
<1>0. TypeOK /\ Current /\ Roster
  BY DEF RegInv
<1>1. /\ e \in Calls /\ log' = Append(log, e) /\ Len(log) < MaxCalls
      /\ runners' = runners /\ settings' = [settings EXCEPT ![s] = v]
  BY CallFacts DEF Set, Logged
<1>2. PICK m \in Nat : m = Len(log)
  BY <1>0 DEF TypeOK
<1>3. /\ log' \in Seq(Calls) /\ Len(log') = m + 1 /\ log'[m + 1] = e
      /\ DOMAIN log' = 1 .. m + 1
  BY <1>0, <1>1, <1>2, LogStep, Zenon
<1>4. /\ \A t \in Setters :
            LastSet(t, m + 2)' =
               IF e.call = t THEN e.value ELSE LastSet(t, m + 1)
      /\ SoundBefore(m + 2)' = SoundBefore(m + 1)
            \cup IF e.call = "register" /\ Sound(e.spec) THEN {m + 1} ELSE {}
  BY <1>0, <1>1, <1>2, LogAdds, Zenon
<1>5. e.call = s /\ e.value = v /\ e.call # "register" /\ e.call # "run"
  BY CallFacts
<1> HIDE DEF e
<1>6. TypeOK'
  <2>1. settings' \in [Setters -> Given]
    BY <1>0, <1>1 DEF TypeOK, Given
  <2> QED
    BY <1>0, <1>1, <1>2, <1>3, <2>1, SettingsAssumption DEF TypeOK
<1>7. Current'
  <2>1. ASSUME NEW t \in Setters PROVE settings'[t] = LastSet(t, m + 2)'
    <3>1. settings[t] = LastSet(t, m + 1)
      BY <1>0, <1>2 DEF Current
    <3>2. settings'[t] = IF t = s THEN v ELSE settings[t]
      BY <1>0, <1>1 DEF TypeOK
    <3> QED
      BY <1>4, <1>5, <3>1, <3>2
  <2> QED
    BY <1>3, <2>1, NowNext
<1>8. Roster'
  <2>1. SoundBefore(m + 2)' = SoundBefore(m + 1)
    BY <1>4, <1>5
  <2> QED
    BY <1>0, <1>1, <1>2, <1>3, <2>1, RosterKept
<1>9. SettingsOfTheirTime' /\ RunsTheSoundJobs'
  <2>1. \A i \in DOMAIN runners' : OfItsTime(runners[i])'
    BY <1>1, <1>2, OldEntries
  <2>2. \A k \in 1 .. m : RunOfItsTime(k)'
    BY <1>1, <1>2, OldEntries
  <2>3. RunOfItsTime(m + 1)'
    BY <1>3, <1>5 DEF RunOfItsTime
  <2>4. \A k \in DOMAIN log' : k \in 1 .. m \/ k = m + 1
    BY <1>3
  <2>5. \A k \in DOMAIN log' : RunOfItsTime(k)'
    BY <2>2, <2>3, <2>4
  <2> QED
    BY <2>1, <2>5, TimesNext
<1> QED
  BY <1>6, <1>7, <1>8, <1>9 DEF RegInv

\* A run reads the settings as they are, and its loops are the runners.
LEMMA RunInv ==
    ASSUME RegInv, run
    PROVE  RegInv'
<1> DEFINE loops == [i \in DOMAIN runners |-> runners[i].call]
           e == [call |-> "run", seed |-> settings["seed"],
                 drain_cap |-> settings["drain_cap"], loops |-> loops]
<1>0. TypeOK /\ Current /\ Roster
  BY DEF RegInv
<1>1. /\ log' = Append(log, e) /\ Len(log) < MaxCalls
      /\ runners' = runners /\ settings' = settings
  BY DEF run, Logged
<1>2. PICK m \in Nat : m = Len(log)
  BY <1>0 DEF TypeOK
<1>3. loops \in Seq(Nat) /\ DOMAIN loops = DOMAIN runners
  <2>1. runners \in Seq(Runners) /\ DOMAIN runners = 1 .. Len(runners)
        /\ Len(runners) \in Nat
    BY <1>0 DEF TypeOK
  <2>2. \A i \in DOMAIN runners : runners[i].call \in Nat
    BY <1>0, <1>2 DEF Roster
  <2> QED
    BY <2>1, <2>2
<1>4. e \in Calls
  <2>1. settings["seed"] \in Given /\ settings["drain_cap"] \in Given
    BY <1>0, CallFacts DEF TypeOK
  <2> HIDE DEF loops
  <2> QED
    BY <1>3, <2>1 DEF Calls
<1>5. /\ log' \in Seq(Calls) /\ Len(log') = m + 1 /\ log'[m + 1] = e
      /\ DOMAIN log' = 1 .. m + 1
      /\ \A s \in Setters, n \in 1 .. m + 1 : LastSet(s, n)' = LastSet(s, n)
      /\ \A n \in 1 .. m + 1 : SoundBefore(n)' = SoundBefore(n)
  BY <1>0, <1>1, <1>2, <1>4, LogStep, Zenon
<1>6. /\ \A t \in Setters :
            LastSet(t, m + 2)' =
               IF e.call = t THEN e.value ELSE LastSet(t, m + 1)
      /\ SoundBefore(m + 2)' = SoundBefore(m + 1)
            \cup IF e.call = "register" /\ Sound(e.spec) THEN {m + 1} ELSE {}
  BY <1>0, <1>1, <1>2, <1>4, LogAdds, Zenon
<1>7. /\ e.call = "run" /\ e.call \notin Setters /\ e.call # "register"
      /\ e.seed = settings["seed"] /\ e.drain_cap = settings["drain_cap"]
      /\ e.loops = loops
  BY CallFacts
<1> HIDE DEF e
<1>8. TypeOK'
  BY <1>0, <1>1, <1>2, <1>5, SettingsAssumption DEF TypeOK
<1>9. Current'
  <2>1. ASSUME NEW t \in Setters PROVE settings'[t] = LastSet(t, m + 2)'
    BY <1>0, <1>1, <1>2, <1>6, <1>7 DEF Current
  <2> QED
    BY <1>5, <2>1, NowNext
<1>10. Roster'
  <2>1. SoundBefore(m + 2)' = SoundBefore(m + 1)
    BY <1>6, <1>7
  <2> QED
    BY <1>0, <1>1, <1>2, <1>5, <2>1, RosterKept
<1>11. RunOfItsTime(m + 1)'
  <2>0. m + 1 \in 1 .. m + 1
    OBVIOUS
  <2>1. LastSet("seed", m + 1)' = settings["seed"]
        /\ LastSet("drain_cap", m + 1)' = settings["drain_cap"]
    <3>1. LastSet("seed", m + 1)' = LastSet("seed", m + 1)
          /\ LastSet("drain_cap", m + 1)' = LastSet("drain_cap", m + 1)
      BY <1>5, <2>0, CallFacts
    <3>2. settings["seed"] = LastSet("seed", m + 1)
          /\ settings["drain_cap"] = LastSet("drain_cap", m + 1)
      BY <1>0, <1>2, CallFacts DEF Current
    <3> QED
      BY <3>1, <3>2
  <2>2. SoundBefore(m + 1)' = SoundBefore(m + 1)
    BY <1>5, <2>0, Zenon
  <2>3. Range(loops) = SoundBefore(m + 1)
    BY <1>0, <1>2 DEF Roster, Range
  <2>4. \A i, j \in DOMAIN loops : i < j => loops[i] < loops[j]
    BY <1>0 DEF Roster
  <2> HIDE DEF loops
  <2> QED
    BY <1>5, <1>7, <2>1, <2>2, <2>3, <2>4 DEF RunOfItsTime
<1>12. SettingsOfTheirTime' /\ RunsTheSoundJobs'
  <2>1. \A i \in DOMAIN runners' : OfItsTime(runners[i])'
    BY <1>1, <1>2, <1>4, OldEntries
  <2>2. \A k \in 1 .. m : RunOfItsTime(k)'
    BY <1>1, <1>2, <1>4, OldEntries
  <2>4. \A k \in DOMAIN log' : k \in 1 .. m \/ k = m + 1
    BY <1>5
  <2>5. \A k \in DOMAIN log' : RunOfItsTime(k)'
    BY <1>11, <2>2, <2>4
  <2> QED
    BY <2>1, <2>5, TimesNext
<1> QED
  BY <1>8, <1>9, <1>10, <1>12 DEF RegInv

\* register writes a call, and takes a sound job over with the settings as
\* they are.
LEMMA RegisterInv ==
    ASSUME RegInv, NEW spec \in Specs, register(spec)
    PROVE  RegInv'
<1> DEFINE e == [call |-> "register", spec |-> spec, result |-> refusal(spec)]
           r == NewRunner(spec)
<1>0. TypeOK /\ Current /\ Roster
  BY DEF RegInv
<1>1. /\ log' = Append(log, e) /\ Len(log) < MaxCalls /\ settings' = settings
      /\ runners' = IF refusal(spec) = "Ok" THEN Append(runners, r) ELSE runners
  BY DEF register, Logged
<1>2. PICK m \in Nat : m = Len(log)
  BY <1>0 DEF TypeOK
<1>3. e \in Calls
  BY RefusalFacts DEF Calls
<1>4. /\ log' \in Seq(Calls) /\ Len(log') = m + 1 /\ log'[m + 1] = e
      /\ DOMAIN log' = 1 .. m + 1
      /\ \A s \in Setters, n \in 1 .. m + 1 : LastSet(s, n)' = LastSet(s, n)
  BY <1>0, <1>1, <1>2, <1>3, LogStep, Zenon
<1>5. /\ \A t \in Setters :
            LastSet(t, m + 2)' =
               IF e.call = t THEN e.value ELSE LastSet(t, m + 1)
      /\ SoundBefore(m + 2)' = SoundBefore(m + 1)
            \cup IF e.call = "register" /\ Sound(e.spec) THEN {m + 1} ELSE {}
  BY <1>0, <1>1, <1>2, <1>3, LogAdds, Zenon
<1>6. /\ e.call = "register" /\ e.call \notin Setters /\ e.call # "run"
      /\ e.spec = spec
  BY CallFacts
<1> HIDE DEF e
<1>7. /\ settings["jitter"] = LastSet("jitter", m + 1)
      /\ settings["lease"] = LastSet("lease", m + 1)
      /\ settings["lease_ttl"] = LastSet("lease_ttl", m + 1)
      /\ settings["breaker_config"] = LastSet("breaker_config", m + 1)
  BY <1>0, <1>2, CallFacts DEF Current
<1>8. /\ settings["jitter"] \in Given /\ settings["lease"] \in Given
      /\ settings["lease_ttl"] \in Given /\ settings["breaker_config"] \in Given
  BY <1>0, CallFacts DEF TypeOK
<1>9. /\ r.spec = spec /\ r.call = m + 1
      /\ r.jitter = settings["jitter"] /\ r.lease = settings["lease"]
      /\ r.lease_ttl = settings["lease_ttl"]
      /\ r.breaker = IF spec.use_breaker THEN settings["breaker_config"]
                                         ELSE NoBreaker
  BY <1>2 DEF NewRunner
<1>10. r \in Runners
  <2>1. (IF spec.use_breaker THEN settings["breaker_config"] ELSE NoBreaker)
           \in Given \cup {NoBreaker}
    BY <1>8
  <2>2. Len(log) + 1 \in Nat
    BY <1>2
  <2> QED
    BY <1>8, <2>1, <2>2 DEF NewRunner, Runners
<1>11. PICK q \in Runners : q = r
  BY <1>10
<1> HIDE DEF r
<1>12. runners' \in Seq(Runners)
  BY <1>0, <1>1, <1>10 DEF TypeOK
<1>13. TypeOK'
  BY <1>0, <1>1, <1>2, <1>4, <1>12, SettingsAssumption DEF TypeOK
<1>14. Current'
  <2>1. ASSUME NEW t \in Setters PROVE settings'[t] = LastSet(t, m + 2)'
    BY <1>0, <1>1, <1>2, <1>5, <1>6 DEF Current
  <2> QED
    BY <1>4, <2>1, NowNext
<1>15. RunOfItsTime(m + 1)'
  BY <1>4, <1>6 DEF RunOfItsTime
<1>16. \A k \in DOMAIN log' : RunOfItsTime(k)'
  <2>1. \A k \in 1 .. m : RunOfItsTime(k)'
    BY <1>1, <1>2, <1>3, OldEntries
  <2>2. \A k \in DOMAIN log' : k \in 1 .. m \/ k = m + 1
    BY <1>4
  <2> QED
    BY <1>15, <2>1, <2>2
<1>17. 1 .. Len(log) \subseteq 1 .. Len(log') /\ m + 1 \in 1 .. Len(log')
  BY <1>2, <1>4
<1>18. CASE refusal(spec) # "Ok"
  <2>1. runners' = runners /\ ~Sound(spec)
    BY <1>1, <1>18, RefusalFacts
  <2>2. SoundBefore(m + 2)' = SoundBefore(m + 1)
    BY <1>5, <1>6, <2>1
  <2>3. Roster'
    BY <1>0, <1>2, <1>4, <2>1, <2>2, RosterKept
  <2>4. \A i \in DOMAIN runners' : OfItsTime(runners[i])'
    BY <1>1, <1>2, <1>3, <2>1, OldEntries
  <2> QED
    BY <1>13, <1>14, <1>16, <2>3, <2>4, TimesNext DEF RegInv
<1>19. CASE refusal(spec) = "Ok"
  <2>1. runners' = Append(runners, r) /\ Sound(spec)
    BY <1>1, <1>19, RefusalFacts
  <2>2. PICK n \in Nat : n = Len(runners)
    BY <1>0 DEF TypeOK
  <2>3. /\ DOMAIN runners = 1 .. n /\ DOMAIN runners' = 1 .. n + 1
        /\ runners'[n + 1] = r
        /\ \A i \in 1 .. n : runners'[i] = runners[i]
    BY <1>0, <1>10, <1>12, <2>1, <2>2 DEF TypeOK
  <2>4. \A i \in DOMAIN runners' : i \in 1 .. n \/ i = n + 1
    BY <2>3
  <2>5. SoundBefore(Len(log) + 1)' = SoundBefore(m + 1) \cup {m + 1}
    BY <1>4, <1>5, <1>6, <2>1, NowNext
  <2>6. {runners'[i].call : i \in DOMAIN runners'} = SoundBefore(Len(log) + 1)'
    <3>1. \A x : (\E i \in DOMAIN runners' : x = runners'[i].call)
                   <=> \/ \E i \in DOMAIN runners : x = runners[i].call
                       \/ x = m + 1
      <4>1. n + 1 \in DOMAIN runners' /\ \A i \in 1 .. n : i \in DOMAIN runners'
        BY <2>3
      <4> QED
        BY <1>9, <2>3, <2>4, <4>1, Zenon
    <3>2. {runners[i].call : i \in DOMAIN runners} = SoundBefore(m + 1)
      BY <1>0, <1>2 DEF Roster
    <3> QED
      BY <2>5, <3>1, <3>2
  <2>7. \A i \in DOMAIN runners' :
            LET x == runners'[i]
            IN  /\ x.call \in 1 .. Len(log')
                /\ Sound(x.spec)
                /\ IF x.spec.use_breaker THEN x.breaker \in Given
                                         ELSE x.breaker = NoBreaker
    <3> TAKE i \in DOMAIN runners'
    <3>1. CASE i \in 1 .. n
      BY <1>0, <1>17, <2>3, <3>1 DEF Roster
    <3>2. CASE i = n + 1
      BY <1>8, <1>9, <1>17, <2>1, <2>3, <3>2
    <3> QED
      BY <2>4, <3>1, <3>2
  <2>8. \A i, j \in DOMAIN runners' :
            i < j => runners'[i].call < runners'[j].call
    <3> SUFFICES ASSUME NEW i \in DOMAIN runners', NEW j \in DOMAIN runners',
                        i < j
                 PROVE  runners'[i].call < runners'[j].call
      OBVIOUS
    <3>1. i \in 1 .. n
      BY <2>3, <2>4
    <3>2. CASE j \in 1 .. n
      BY <1>0, <2>3, <3>1, <3>2 DEF Roster
    <3>3. CASE j = n + 1
      <4>1. runners[i].call \in 1 .. m
        BY <1>0, <1>2, <2>3, <3>1 DEF Roster
      <4> QED
        BY <1>9, <2>3, <3>1, <3>3, <4>1
    <3> QED
      BY <2>4, <3>2, <3>3
  <2>9. Roster'
    BY <2>6, <2>7, <2>8 DEF Roster, Sound
  <2>10. OfItsTime(q)'
    <3>1. m + 1 \in 1 .. m + 1
      OBVIOUS
    <3>2. /\ LastSet("jitter", m + 1)' = LastSet("jitter", m + 1)
          /\ LastSet("lease", m + 1)' = LastSet("lease", m + 1)
          /\ LastSet("lease_ttl", m + 1)' = LastSet("lease_ttl", m + 1)
          /\ LastSet("breaker_config", m + 1)' = LastSet("breaker_config", m + 1)
      BY <1>4, <3>1, CallFacts
    <3>3. q.call = m + 1
      BY <1>9, <1>11
    <3> QED
      BY <1>7, <1>9, <1>11, <3>2, <3>3 DEF OfItsTime
  <2>11. \A i \in DOMAIN runners' : OfItsTime(runners[i])'
    <3> TAKE i \in DOMAIN runners'
    <3>1. CASE i \in 1 .. n
      BY <1>1, <1>2, <1>3, <2>3, <3>1, OldEntries
    <3>2. CASE i = n + 1
      <4>1. runners'[i] = q
        BY <1>11, <2>3, <3>2
      <4> QED
        BY <2>10, <4>1 DEF OfItsTime, LastSet
    <3> QED
      BY <2>4, <3>1, <3>2
  <2> QED
    BY <1>13, <1>14, <1>16, <2>9, <2>11, TimesNext DEF RegInv
<1> QED
  BY <1>18, <1>19

\* A new supervisor has its defaults and no jobs.
LEMMA InitInv == Init => RegInv
<1> SUFFICES ASSUME Init PROVE RegInv
  OBVIOUS
<1>1. /\ DOMAIN runners = {} /\ DOMAIN log = {} /\ Len(log) = 0
      /\ settings = [s \in Setters |-> Default]
  BY DEF Init
<1>2. TypeOK
  BY <1>1, SettingsAssumption DEF Init, TypeOK, Given
<1>3. 1 .. (0 + 1) - 1 = {}
  OBVIOUS
<1>4. Current
  BY <1>1, <1>3 DEF Current, LastSet
<1>5. Roster
  BY <1>1, <1>3 DEF Roster, SoundBefore
<1>6. SettingsOfTheirTime /\ RunsTheSoundJobs
  BY <1>1 DEF SettingsOfTheirTime, RunsTheSoundJobs
<1> QED
  BY <1>2, <1>4, <1>5, <1>6 DEF RegInv

\* Every call keeps the invariant.
LEMMA NextInv == RegInv /\ [Next]_vars => RegInv'
<1> SUFFICES ASSUME RegInv, [Next]_vars PROVE RegInv'
  OBVIOUS
<1>1. CASE UNCHANGED vars
  <2>1. settings' = settings /\ runners' = runners /\ log' = log
    BY <1>1 DEF vars
  <2>2. TypeOK'
    BY <2>1 DEF RegInv, TypeOK
  <2>3. Current'
    BY <2>1 DEF RegInv, Current, LastSet
  <2>4. Roster'
    BY <2>1 DEF RegInv, Roster, SoundBefore, Sound
  <2>5. SettingsOfTheirTime'
    <3>1. \A c, n : LastSet(c, n)' = LastSet(c, n)
      BY <2>1 DEF LastSet
    <3>2. ASSUME NEW i \in DOMAIN runners' PROVE OfItsTime(runners[i])'
      <4>1. PICK r : r = runners[i] /\ r = runners'[i]
        BY <2>1
      <4>2. OfItsTime(r)
        BY <2>1, <4>1, TimesFacts DEF RegInv
      <4>3. OfItsTime(r)'
        BY <3>1, <4>2 DEF OfItsTime
      <4> QED
        BY <4>1, <4>3 DEF OfItsTime, LastSet
    <3>3. ASSUME NEW k \in DOMAIN log' PROVE RunOfItsTime(k)'
      <4>1. RunOfItsTime(k)
        BY <2>1, TimesFacts DEF RegInv
      <4> QED
        BY <2>1, <3>1, <4>1 DEF RunOfItsTime, SoundBefore, Sound
    <3> QED
      BY <3>2, <3>3, TimesNext
  <2>6. RunsTheSoundJobs'
    BY <2>1 DEF RegInv, RunsTheSoundJobs, SoundBefore, Sound
  <2> QED
    BY <2>2, <2>3, <2>4, <2>5, <2>6 DEF RegInv
<1>2. CASE Next
  BY <1>1, <1>2, SetInv, RegisterInv, RunInv DEF Next
<1> QED
  BY <1>1, <1>2

\* It holds in every reachable state.
LEMMA RegAlways == Spec => []RegInv
BY InitInv, NextInv, PTL DEF Spec

-----------------------------------------------------------------------------
(***************************************************************************)
(* The theorems.                                                           *)
(***************************************************************************)

\* The settings, the runners and the log keep their types.
THEOREM RegistrationTyped == Spec => []TypeOK
<1>1. RegInv => TypeOK
  BY DEF RegInv
<1> QED
  BY <1>1, RegAlways, PTL

\* Every job works with what was set last before its registration, and every
\* run with the seed and the drain cap set last before it, for any sequence
\* of setters, registrations and runs.
THEOREM SettingsInTime == Spec => []SettingsOfTheirTime
<1>1. RegInv => SettingsOfTheirTime
  BY DEF RegInv
<1> QED
  BY <1>1, RegAlways, PTL

\* Every run spawns one loop for each sound job registered before it, in
\* order, and none for a refused one, for any names and triggers.
THEOREM SoundJobsRun == Spec => []RunsTheSoundJobs
<1>1. RegInv => RunsTheSoundJobs
  BY DEF RegInv
<1> QED
  BY <1>1, RegAlways, PTL

=============================================================================
