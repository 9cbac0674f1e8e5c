------------------------------- MODULE Jitter -------------------------------
(***************************************************************************)
(* The randomness of the schedule: SplitMix64 and its mapping into a       *)
(* jitter window (src/src/rng.rs), JitterPolicy and clock_seed             *)
(* (src/src/trigger.rs), and the seed a job loop starts from               *)
(* (src/src/runner.rs 185-196).  Module Schedule takes any delay of the    *)
(* window; this module shows that the generator delivers just those.       *)
(*                                                                         *)
(* A u64 is a word of Width bits.  The multipliers and shifts of           *)
(* SplitMix64 are constants; what the algorithm needs of them is that the  *)
(* multipliers are odd and the shifts are not zero.                        *)
(***************************************************************************)
EXTENDS Integers

CONSTANTS
    Width,      \* bits of a u64
    Gamma,      \* 0x9E37_79B9_7F4A_7C15
    Mul1, Mul2, \* 0xBF58_476D_1CE4_E5B9, 0x94D0_49BB_1331_11EB
    Shift1, Shift2, Shift3, \* 30, 27, 31
    BitXor(_, _),  \* ^ of two words
    Loops,      \* job loops, of one run of the program or of several
    Seeds,      \* seeds the host may set, and Unset
    Clocks,     \* nanoseconds since the epoch a starting loop may read
    Hashes,     \* values of the hash of a job name
    Gaps,       \* gaps to the next tick, in nanoseconds
    DurationMax,\* Duration::MAX, in nanoseconds
    Fractions   \* fractions asked for, as pairs <<numerator, denominator>>;
                \* <<0, 0>> is NaN, <<1, 0>> and <<-1, 0>> are infinite

Modulus == 2 ^ Width
Word == 0 .. Modulus - 1
Unset == -1

ASSUME ParametersAssumption ==
    /\ Width \in Nat \ {0}
    /\ {Gamma, Mul1, Mul2} \subseteq {k \in Word : k % 2 = 1}
    /\ {Shift1, Shift2, Shift3} \subseteq 1 .. Width - 1
ASSUME PowersAssumption ==
    /\ 2 ^ 0 = 1
    /\ \A s \in 0 .. Width : 2 ^ s \in Nat \ {0}
    /\ \A s \in 1 .. Width : 2 ^ s = 2 * 2 ^ (s - 1)
ASSUME XorAssumption ==
    \A a, b, c \in Word :
        /\ BitXor(a, b) \in Word /\ BitXor(a, b) = BitXor(b, a)
        /\ BitXor(a, 0) = a /\ BitXor(a, a) = 0
        /\ BitXor(a, BitXor(b, c)) = BitXor(BitXor(a, b), c)
ASSUME ShiftAssumption ==
    \A a, b \in Word, s \in {Shift1, Shift2, Shift3} :
        BitXor(a, b) \div 2 ^ s = BitXor(a \div 2 ^ s, b \div 2 ^ s)
ASSUME InputsAssumption ==
    /\ Seeds \subseteq Word \cup {Unset}
    /\ Hashes \subseteq Word
    /\ Clocks \subseteq Nat
    /\ DurationMax \in Nat
    /\ Gaps \subseteq 0 .. DurationMax
    /\ Fractions \subseteq Int \X Nat

VARIABLES
    seed,       \* WorkerSupervisor.seed, one for all loops
    policy,     \* JitterPolicy: its fraction, and whether `new` made it
    gap,        \* the gap each wait is computed from
    nanos,      \* loop -> the clock reading its seed came from, or Unset
    hash,       \* loop -> name_hash
    state,      \* loop -> SplitMix64.state, or Unset before it runs
    unwound,    \* loops that a panic has ended
    raw,        \* reference: loop -> the latest 64 bits drawn, or Unset
    delays,     \* reference: loop -> all delays drawn
    count       \* reference: loop -> draws so far

vars == <<seed, policy, gap, nanos, hash, state, unwound, raw, delays, count>>

-----------------------------------------------------------------------------
\* Mutant: the shifted word replaces the word instead of being xored to it.
XorShiftLost(z, s) == z \div 2 ^ s

\* z ^ (z >> s)
XorShift(z, s) == BitXor(z, z \div 2 ^ s)

\* The finalizer, shared by next_u64 and mix64: a table over all words.
Finalized ==
    [x \in Word |->
        LET a == (XorShift(x, Shift1) * Mul1) % Modulus
            b == (XorShift(a, Shift2) * Mul2) % Modulus
        IN XorShift(b, Shift3)]

\* self.state.wrapping_add(GAMMA)
Advance(x) == (x + Gamma) % Modulus

mix64(x) == Finalized[Advance(x)]

\* The low bits of the nanoseconds, scrambled.
clock_seed(now) == mix64(now % Modulus)

\* hi.saturating_sub(lo), after the casts to u64.
Span(lo, hi) ==
    LET low == lo % Modulus
        high == hi % Modulus
    IN IF high >= low THEN high - low ELSE 0

\* Mutant: the upper end of the range is left out.
random_range_exclusive(lo, hi, draw) ==
    LET span == Span(lo, hi)
    IN ((lo % Modulus) + (IF span = 0 THEN 0 ELSE draw % span)) % Modulus

\* Mutant: the range is one too wide.
random_range_wide(lo, hi, draw) ==
    ((lo % Modulus) + (draw % (Span(lo, hi) + 2))) % Modulus

\* A draw mapped into [lo, hi]; span + 1 must not overflow.
random_range(lo, hi, draw) ==
    LET span == Span(lo, hi)
        offset == IF span = Modulus - 1 THEN draw ELSE draw % (span + 1)
    IN ((lo % Modulus) + offset) % Modulus

NaN == <<0, 0>>

\* Mutant: f64::clamp alone, which keeps NaN.
clamp_fraction_only(f) ==
    IF f[1] < 0 THEN <<0, 1>> ELSE IF f[1] > f[2] THEN <<1, 1>> ELSE f

clamp_fraction(f) ==
    IF f = NaN \/ f[1] < 0 THEN <<0, 1>>
    ELSE IF f[1] > f[2] THEN <<1, 1>> ELSE f

\* JitterPolicy::new clamps.  The field is public, and a literal is not
\* clamped.
Policies ==
    {[made |-> "new", fraction |-> clamp_fraction(f)] : f \in Fractions}
    \cup {[made |-> "literal", fraction |-> f] : f \in Fractions}

\* gap.mul_f64(fraction) panics when the product is not a Duration.  The
\* product is exact here and a rounded f64 in the code: they differ only for
\* a fraction of one and a gap within rounding of Duration::MAX.
Panics ==
    LET f == policy.fraction
    IN \/ f[2] = 0
       \/ f[1] * gap < 0
       \/ f[1] * gap > f[2] * DurationMax

\* fraction * gap, saturated at the gap.
window ==
    LET scaled == (policy.fraction[1] * gap) \div policy.fraction[2]
    IN IF scaled <= gap THEN scaled ELSE gap

-----------------------------------------------------------------------------
TypeOK ==
    /\ seed \in Seeds
    /\ policy \in Policies
    /\ gap \in Gaps
    /\ nanos \in [Loops -> Clocks \cup {Unset}]
    /\ hash \in [Loops -> Hashes \cup {Unset}]
    /\ state \in [Loops -> Word \cup {Unset}]
    /\ unwound \subseteq Loops
    /\ raw \in [Loops -> Word \cup {Unset}]
    /\ delays \in [Loops -> SUBSET Word]
    /\ count \in [Loops -> 0 .. Modulus]

Init ==
    /\ seed \in Seeds
    /\ policy \in Policies
    /\ gap \in Gaps
    /\ nanos = [l \in Loops |-> Unset]
    /\ hash = [l \in Loops |-> Unset]
    /\ state = [l \in Loops |-> Unset]
    /\ unwound = {}
    /\ raw = [l \in Loops |-> Unset]
    /\ delays = [l \in Loops |-> {}]
    /\ count = [l \in Loops |-> 0]

\* SplitMix64::new(seed ^ name_hash), the seed being the supervisor's or,
\* failing that, the clock's.
Seeded(l, now, h) ==
    LET base == IF seed # Unset THEN seed ELSE clock_seed(now)
    IN state' = [state EXCEPT ![l] = BitXor(base, h)]

\* A loop starts.  RandomState::new() has fresh keys, so the hash of the
\* name may be anything.
Begin(l) ==
    /\ state[l] = Unset
    /\ \E now \in Clocks, h \in Hashes :
          /\ Seeded(l, now, h)
          /\ nanos' = [nanos EXCEPT ![l] = IF seed = Unset THEN now ELSE Unset]
          /\ hash' = [hash EXCEPT ![l] = h]
    /\ UNCHANGED <<seed, policy, gap, unwound, raw, delays, count>>

\* A loop is about to compute its next wait.
Waits(l) == state[l] # Unset /\ l \notin unwound /\ count[l] < Modulus

\* The loop draws the delay of its next wait.
Draw(l) ==
    /\ Waits(l)
    /\ ~Panics
    /\ window > 0
    /\ LET next == Advance(state[l])
           bits == Finalized[next]
       IN /\ state' = [state EXCEPT ![l] = next]
          /\ raw' = [raw EXCEPT ![l] = bits]
          /\ delays' = [delays EXCEPT ![l] =
                           @ \cup {random_range(0, window, bits)}]
    /\ count' = [count EXCEPT ![l] = @ + 1]
    /\ UNCHANGED <<seed, policy, gap, nanos, hash, unwound>>

\* Without a window there is no draw, and no delay.
NoDraw(l) ==
    /\ Waits(l)
    /\ ~Panics
    /\ window = 0
    /\ delays' = [delays EXCEPT ![l] = @ \cup {0}]
    /\ count' = [count EXCEPT ![l] = @ + 1]
    /\ UNCHANGED <<seed, policy, gap, nanos, hash, state, unwound, raw>>

\* The window cannot be computed: the panic, outside catch_unwind, ends the
\* loop.
Unwind(l) ==
    /\ Waits(l)
    /\ Panics
    /\ unwound' = unwound \cup {l}
    /\ UNCHANGED <<seed, policy, gap, nanos, hash, state, raw, delays, count>>

Next == \E l \in Loops : Begin(l) \/ Draw(l) \/ NoDraw(l) \/ Unwind(l)

Spec == Init /\ [][Next]_vars

-----------------------------------------------------------------------------
(***************************************************************************)
(* Properties.                                                             *)
(***************************************************************************)

\* "The only contract is the bound of each draw" (rng.rs): whatever the
\* seed, the fraction and the gap, zero, as wide as a word or wider, no
\* delay of random_range exceeds the window or the gap.
DelayWithinWindow ==
    \A l \in Loops : \A d \in delays[l] : d <= window /\ d <= gap

\* No fraction asked of JitterPolicy::new, NaN, infinite, negative or above
\* one, makes mul_f64 panic and takes a job loop down, whatever the gap; a
\* literal in the public field may.
ClampedNeverPanics == unwound # {} => policy.made = "literal"

\* The jitter is full: over a period each delay of the window is drawn, its
\* two ends included, so that fires do spread over the whole of it.
EveryDelayDrawn ==
    \A l \in Loops :
        count[l] = Modulus /\ window < Modulus => delays[l] = 0 .. window

\* Workers are decorrelated: two loops that differ in the hash of their
\* names alone, or in the clock reading they started at alone, never draw
\* the same bits for the same wait.
NeverInStep ==
    \A k, l \in Loops :
        /\ k # l /\ count[k] = count[l] /\ raw[k] # Unset
        /\ \/ nanos[k] = nanos[l] /\ hash[k] # hash[l]
           \/ hash[k] = hash[l] /\ nanos[k] % Modulus # nanos[l] % Modulus
        => raw[k] # raw[l]
=============================================================================
