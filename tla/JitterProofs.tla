---------------------------- MODULE JitterProofs ----------------------------
(***************************************************************************)
(* The jitter generator, for words of any width, any seeds, gaps and       *)
(* fractions, and any number of loops.  The inductive invariant says which *)
(* bits the n-th wait of a loop gets: those of the word that n additions   *)
(* of Gamma lead to from the loop's origin.  What the finalizer makes of   *)
(* different words is different because each of its steps can be undone:   *)
(* x ^ (x >> s) and a product with an odd constant.  A bound on a delay    *)
(* needs nothing of the generator.                                         *)
(***************************************************************************)
EXTENDS Jitter, FiniteSetTheorems, WellFoundedInduction, TLAPS

\* Every set of numbers has a least one.
LEMMA Earliest ==
    ASSUME NEW T \in SUBSET Nat, T # {}
    PROVE  \E x \in T : \A y \in T : x <= y
PROOF
<1> DEFINE R == OpToRel(<, Nat)
<1>1. IsWellFoundedOn(R, Nat)
  BY NatLessThanWellFounded, Zenon
<1>2. \A x, y \in Nat : <<y, x>> \notin R => x <= y
  BY DEF OpToRel
<1> HIDE DEF R
<1>3. PICK x \in T : \A y \in T : <<y, x>> \notin R
  BY <1>1, WFMin
<1> QED
  BY <1>2, <1>3

(***************************************************************************)
(* Remainders.                                                             *)
(***************************************************************************)

\* Quotient and remainder.

LEMMA ModFacts ==
    ASSUME NEW r \in Nat \ {0}, NEW x \in Int
    PROVE  /\ x % r \in 0 .. r - 1
           /\ x \div r \in Int
           /\ x = r * (x \div r) + (x % r)
OBVIOUS

\* The remainder is unique.
LEMMA ModUnique ==
    ASSUME NEW r \in Nat \ {0}, NEW p \in Int, NEW q \in Int,
           NEW a \in 0 .. r - 1, NEW b \in 0 .. r - 1,
           r * p + a = r * q + b
    PROVE  a = b
<1>1. CASE p = q
  BY <1>1
<1>2. CASE p < q
  <2>1. r * (q - p) >= r
    BY <1>2
  <2> QED
    BY <2>1
<1>3. CASE p > q
  <2>1. r * (p - q) >= r
    BY <1>3
  <2> QED
    BY <2>1
<1> QED
  BY <1>1, <1>2, <1>3

\* What is left of a multiple and a remainder is the remainder.
LEMMA ModIs ==
    ASSUME NEW r \in Nat \ {0}, NEW q \in Int, NEW a \in 0 .. r - 1
    PROVE  (r * q + a) % r = a
<1> DEFINE x == r * q + a
<1>1. x \in Int
  OBVIOUS
<1>2. x % r \in 0 .. r - 1 /\ x \div r \in Int /\ x = r * (x \div r) + (x % r)
  BY <1>1, ModFacts
<1> HIDE DEF x
<1>3. r * q + a = r * (x \div r) + (x % r)
  BY <1>2 DEF x
<1> QED
  BY <1>2, <1>3, ModUnique DEF x

\* A remainder may be taken before an addition.
LEMMA ModAdd ==
    ASSUME NEW r \in Nat \ {0}, NEW x \in Int, NEW g \in Int
    PROVE  ((x % r) + g) % r = (x + g) % r
<1> DEFINE a == x % r
           q == x \div r
           b == (a + g) % r
           p == (a + g) \div r
<1>1. a \in 0 .. r - 1 /\ q \in Int /\ x = r * q + a
  BY ModFacts
<1>2. a + g \in Int
  BY <1>1
<1>3. b \in 0 .. r - 1 /\ p \in Int /\ a + g = r * p + b
  BY <1>2, ModFacts
<1> HIDE DEF a, b, p, q
<1>4. x + g = r * (q + p) + b
  BY <1>1, <1>3
<1>5. (r * (q + p) + b) % r = b
  BY <1>1, <1>3, ModIs
<1> QED
  BY <1>4, <1>5 DEF a, b

-----------------------------------------------------------------------------
(***************************************************************************)
(* The operators: words stay words, and the generator loses nothing.       *)
(***************************************************************************)

\* There is a word, and words are counted from zero.
LEMMA WordFacts == Modulus \in Nat \ {0} /\ Word = 0 .. Modulus - 1
BY ParametersAssumption, PowersAssumption DEF Modulus, Word

\* Two numbers that leave one word after an addition leave one before it.
LEMMA WordCancel ==
    ASSUME NEW x \in Int, NEW y \in Int, NEW g \in Int,
           (x + g) % Modulus = (y + g) % Modulus
    PROVE  x % Modulus = y % Modulus
<1>0. Modulus \in Nat \ {0}
  BY WordFacts
<1>1. x + g \in Int /\ y + g \in Int /\ 0 - g \in Int
  OBVIOUS
<1>2. ((x + g) + (0 - g)) % Modulus = (((x + g) % Modulus) + (0 - g)) % Modulus
  BY <1>0, <1>1, ModAdd
<1>3. ((y + g) + (0 - g)) % Modulus = (((y + g) % Modulus) + (0 - g)) % Modulus
  BY <1>0, <1>1, ModAdd
<1>4. (x + g) + (0 - g) = x /\ (y + g) + (0 - g) = y
  OBVIOUS
<1> QED
  BY <1>2, <1>3, <1>4

\* The factors of the generator are odd words.
LEMMA FactorFacts ==
    ASSUME NEW k \in {Gamma, Mul1, Mul2}
    PROVE  k \in Nat /\ k \in Word /\ k % 2 = 1
<1>1. k \in {c \in Word : c % 2 = 1}
  BY ParametersAssumption, Zenon
<1>2. k \in Word /\ k % 2 = 1
  BY <1>1, Zenon
<1> QED
  BY <1>2, WordFacts

\* z ^ (z >> s) is a word.
LEMMA ShiftWord ==
    ASSUME NEW z \in Word, NEW s \in {Shift1, Shift2, Shift3}
    PROVE  z \div 2 ^ s \in Word
<1>1. s \in 0 .. Width
  BY ParametersAssumption
<1> DEFINE d == 2 ^ s
<1>2. d \in Nat \ {0}
  BY <1>1, PowersAssumption
<1> HIDE DEF d
<1>3. z \in Nat /\ z < Modulus
  BY WordFacts
<1>4. z \div d \in 0 .. z
  <2>1. z = d * (z \div d) + (z % d) /\ z % d \in 0 .. d - 1 /\ z \div d \in Int
    BY <1>2, <1>3, ModFacts
  <2> DEFINE q == z \div d
             r == z % d
  <2>2. q \in Int /\ r \in 0 .. d - 1 /\ z = d * q + r
    BY <2>1
  <2> HIDE DEF q, r
  <2>3. q >= 0
    <3> SUFFICES ASSUME q < 0 PROVE FALSE
      BY <2>2
    <3>1. d * q <= 0 - d
      BY <1>2, <2>2
    <3> QED
      BY <1>2, <1>3, <2>2, <3>1
  <2>4. d * q >= q
    BY <1>2, <2>2, <2>3
  <2>5. q <= z
    BY <1>2, <1>3, <2>2, <2>4
  <2> QED
    BY <2>2, <2>3, <2>5 DEF q
<1>5. z \div d \in Word
  BY <1>3, <1>4, WordFacts
<1> QED
  BY <1>5 DEF d

LEMMA XorShiftWord ==
    ASSUME NEW z \in Word, NEW s \in {Shift1, Shift2, Shift3}
    PROVE  XorShift(z, s) \in Word
BY ShiftWord, XorAssumption DEF XorShift

\* A product is a word again.
LEMMA TimesWord ==
    ASSUME NEW z \in Word, NEW k \in {Gamma, Mul1, Mul2}
    PROVE  z * k \in Int /\ (z * k) % Modulus \in Word
<1>1. k \in Nat /\ z \in Nat
  BY FactorFacts, WordFacts
<1>2. z * k \in Int
  BY <1>1
<1> DEFINE x == z * k
<1>3. x \in Int
  BY <1>2
<1> HIDE DEF x
<1>4. x % Modulus \in Word
  BY <1>3, WordFacts, ModFacts
<1> QED
  BY <1>2, <1>4 DEF x

\* wrapping_add stays within a word.
LEMMA AdvanceWord ==
    ASSUME NEW z \in Word
    PROVE  Advance(z) \in Word
<1>1. z + Gamma \in Int
  BY FactorFacts, WordFacts
<1> QED
  BY <1>1, WordFacts, ModFacts DEF Advance

\* The finalizer as three reversible steps.
LEMMA FinalizedWord ==
    ASSUME NEW x \in Word
    PROVE  LET a == (XorShift(x, Shift1) * Mul1) % Modulus
               b == (XorShift(a, Shift2) * Mul2) % Modulus
           IN  /\ a \in Word /\ b \in Word
               /\ Finalized[x] = XorShift(b, Shift3)
               /\ Finalized[x] \in Word
<1> DEFINE a == (XorShift(x, Shift1) * Mul1) % Modulus
           b == (XorShift(a, Shift2) * Mul2) % Modulus
<1>1. a \in Word
  BY XorShiftWord, TimesWord
<1> HIDE DEF a
<1>2. b \in Word
  BY <1>1, XorShiftWord, TimesWord
<1>3. Finalized[x] = XorShift(b, Shift3)
  BY DEF Finalized, a, b
<1> HIDE DEF b
<1>4. Finalized[x] \in Word
  BY <1>2, <1>3, XorShiftWord
<1> QED
  BY <1>1, <1>2, <1>3, <1>4 DEF a, b

\* An exclusive or is its own inverse.
LEMMA XorTwice ==
    ASSUME NEW a \in Word, NEW b \in Word
    PROVE  BitXor(a, BitXor(a, b)) = b
<1>1. BitXor(a, BitXor(a, b)) = BitXor(BitXor(a, a), b)
  BY XorAssumption
<1>2. BitXor(a, a) = 0 /\ BitXor(0, b) = BitXor(b, 0) /\ BitXor(b, 0) = b
  BY WordFacts, XorAssumption
<1> QED
  BY <1>1, <1>2

\* Of four words whose exclusive ors agree in pairs, so do the crossed ones.
LEMMA XorSolve ==
    ASSUME NEW x \in Word, NEW y \in Word, NEW p \in Word, NEW q \in Word,
           BitXor(x, p) = BitXor(y, q)
    PROVE  BitXor(x, y) = BitXor(p, q)
<1>0. 0 \in Word /\ BitXor(x, y) \in Word
  BY WordFacts, XorAssumption
<1>1. BitXor(y, BitXor(y, q)) = q
  BY XorTwice
<1>2. BitXor(y, BitXor(x, p)) = BitXor(BitXor(x, y), p)
  <2>1. BitXor(y, BitXor(x, p)) = BitXor(BitXor(y, x), p)
    BY XorAssumption
  <2>2. BitXor(y, x) = BitXor(x, y)
    BY XorAssumption
  <2> QED
    BY <2>1, <2>2
<1>3. BitXor(BitXor(x, y), p) = q
  BY <1>1, <1>2
<1> DEFINE d == BitXor(x, y)
<1>4. d \in Word /\ BitXor(d, p) = q
  BY <1>0, <1>3
<1> HIDE DEF d
<1>5. BitXor(BitXor(d, p), p) = d
  <2>1. BitXor(d, BitXor(p, p)) = BitXor(BitXor(d, p), p)
    BY <1>4, XorAssumption
  <2>2. BitXor(p, p) = 0 /\ BitXor(d, 0) = d
    BY <1>4, XorAssumption
  <2> QED
    BY <2>1, <2>2
<1>6. BitXor(q, p) = BitXor(p, q)
  BY XorAssumption
<1> QED
  BY <1>4, <1>5, <1>6 DEF d

\* z ^ (z >> s) loses nothing: what two words with one result differ in
\* would have to be its own shift.
LEMMA XorShiftInjective ==
    ASSUME NEW x \in Word, NEW y \in Word,
           NEW s \in {Shift1, Shift2, Shift3}, XorShift(x, s) = XorShift(y, s)
    PROVE  x = y
<1> DEFINE m == 2 ^ s
           d == BitXor(x, y)
<1>1. m \in Nat /\ m >= 2
  <2>1. s \in 1 .. Width /\ s - 1 \in 0 .. Width
    BY ParametersAssumption
  <2>2. 2 ^ s = 2 * 2 ^ (s - 1) /\ 2 ^ (s - 1) \in Nat \ {0}
    BY <2>1, PowersAssumption
  <2> DEFINE h == 2 ^ (s - 1)
  <2>3. m = 2 * h /\ h \in Nat \ {0}
    BY <2>2
  <2> HIDE DEF m, h
  <2> QED
    BY <2>3
<1>2. d \in Word /\ d \div m = d
  <2>1. x \div m \in Word /\ y \div m \in Word
    BY ShiftWord
  <2>2. BitXor(x, y) = BitXor(x \div m, y \div m)
    BY <2>1, XorSolve DEF XorShift
  <2>3. BitXor(x, y) \div m = BitXor(x \div m, y \div m)
    BY ShiftAssumption
  <2>4. d \in Word
    BY XorAssumption
  <2> QED
    BY <2>2, <2>3, <2>4
<1>3. d = 0
  <2>1. d \in Nat
    BY <1>2, WordFacts
  <2> HIDE DEF d, m
  <2>2. d = m * (d \div m) + (d % m) /\ d % m \in 0 .. m - 1
    BY <1>1, <2>1, ModFacts
  <2>3. d = m * d + (d % m)
    BY <1>2, <2>2
  <2> DEFINE r == d % m
             t == m * d
  <2>4. r \in Nat /\ d = t + r /\ t >= 2 * d /\ t \in Nat
    BY <1>1, <2>1, <2>2, <2>3
  <2> HIDE DEF r, t
  <2> QED
    BY <2>1, <2>4
<1>4. BitXor(x, BitXor(x, y)) = y
  BY XorTwice
<1>5. BitXor(x, 0) = x
  BY XorAssumption
<1> QED
  BY <1>3, <1>4, <1>5 DEF d

\* An odd factor has no part in a power of two that divides a product.
LEMMA OddFactor ==
    ASSUME NEW k \in Nat, k % 2 = 1, NEW n \in 0 .. Width,
           NEW d \in Int, NEW e \in Int, k * d = 2 ^ n * e
    PROVE  \E g \in Int : d = 2 ^ n * g
<1> DEFINE Divides(m, c) == \E g \in Int : c = 2 ^ m * g
           T == {m \in 0 .. Width : \E c \in Int :
                     Divides(m, k * c) /\ ~Divides(m, c)}
<1>1. SUFFICES T = {}
  OBVIOUS
<1>2. SUFFICES ASSUME T # {} PROVE FALSE
  OBVIOUS
<1>3. PICK m \in T : \A j \in T : m <= j
  <2>1. T \in SUBSET Nat
    BY ParametersAssumption
  <2> HIDE DEF T
  <2> QED
    BY <1>2, <2>1, Earliest
<1>4. PICK c \in Int : Divides(m, k * c) /\ ~Divides(m, c)
  BY <1>3
<1>5. m \in 0 .. Width /\ Width \in Nat
  BY <1>3, ParametersAssumption
<1>6. m # 0
  <2> SUFFICES ASSUME m = 0 PROVE FALSE
    OBVIOUS
  <2>1. 2 ^ m = 1
    BY PowersAssumption
  <2>2. c = 1 * c
    OBVIOUS
  <2> QED
    BY <1>4, <2>1, <2>2
<1>7. m - 1 \in 0 .. Width /\ m \in 1 .. Width /\ m - 1 < m
  BY <1>5, <1>6
<1> DEFINE r == 2 ^ (m - 1)
<1>8. 2 ^ m = 2 * r /\ r \in Nat
  BY <1>7, PowersAssumption
<1>9. PICK w \in Int : k * c = (2 * r) * w
  BY <1>4, <1>8
<1>10. PICK h \in Int : k = 2 * h + 1
  <2>1. k = 2 * (k \div 2) + 1 /\ k \div 2 \in Int
    OBVIOUS
  <2> QED
    BY <2>1
<1> DEFINE f == r * w - h * c
<1>11. f \in Int /\ c = 2 * f
  <2> HIDE DEF r
  <2>1. (2 * h + 1) * c = 2 * (h * c) + c /\ (2 * r) * w = 2 * (r * w)
    BY <1>8
  <2> DEFINE u == h * c
             v == r * w
  <2>2. u \in Int /\ v \in Int /\ 2 * u + c = 2 * v
    BY <1>8, <1>9, <1>10, <2>1
  <2>3. f = v - u
    OBVIOUS
  <2> HIDE DEF u, v, f
  <2> QED
    BY <2>2, <2>3
<1> HIDE DEF f
<1>12. k * f = r * w
  <2> HIDE DEF r
  <2>1. k * c = 2 * (k * f) /\ (2 * r) * w = 2 * (r * w)
    BY <1>8, <1>11
  <2> DEFINE u == k * f
             v == r * w
  <2>2. u \in Int /\ v \in Int /\ 2 * u = 2 * v
    BY <1>8, <1>9, <1>11, <2>1
  <2> HIDE DEF u, v
  <2>3. u = v
    BY <2>2
  <2> QED
    BY <2>3 DEF u, v
<1>13. m - 1 \notin T
  <2>1. m \in Int
    BY <1>5
  <2> HIDE DEF T
  <2> QED
    BY <1>3, <2>1
<1>14. PICK g \in Int : f = r * g
  BY <1>7, <1>11, <1>12, <1>13
<1>15. c = (2 * r) * g
  <2> HIDE DEF r
  <2> QED
    BY <1>8, <1>11, <1>14
<1> QED
  BY <1>4, <1>8, <1>15

\* A product with an odd constant loses nothing.
LEMMA TimesInjective ==
    ASSUME NEW x \in Word, NEW y \in Word, NEW k \in {Gamma, Mul1, Mul2},
           (x * k) % Modulus = (y * k) % Modulus
    PROVE  x = y
<1>1. k \in Nat /\ k % 2 = 1
  BY FactorFacts
<1>2. x \in 0 .. Modulus - 1 /\ y \in 0 .. Modulus - 1 /\ Modulus \in Nat \ {0}
  BY WordFacts
<1> DEFINE a == x * k
           b == y * k
<1>3. a \in Int /\ b \in Int
  BY <1>1, <1>2
<1> HIDE DEF a, b
<1>4. /\ a = Modulus * (a \div Modulus) + (a % Modulus) /\ a \div Modulus \in Int
      /\ b = Modulus * (b \div Modulus) + (b % Modulus) /\ b \div Modulus \in Int
      /\ a % Modulus \in 0 .. Modulus - 1
  BY <1>2, <1>3, ModFacts
<1> DEFINE p == a \div Modulus
           q == b \div Modulus
           u == a % Modulus
<1>5. /\ p \in Int /\ q \in Int /\ u \in Int
      /\ a = Modulus * p + u /\ b = Modulus * q + u
  BY <1>2, <1>4 DEF a, b
<1> HIDE DEF p, q, u
<1>6. k * (x - y) = Modulus * (p - q)
  <2>1. a - b = Modulus * p - Modulus * q
    BY <1>2, <1>3, <1>5
  <2>2. k * (x - y) = x * k - y * k
    BY <1>1, <1>2
  <2>3. Modulus * (p - q) = Modulus * p - Modulus * q
    BY <1>2, <1>5
  <2> QED
    BY <2>1, <2>2, <2>3 DEF a, b
<1>7. PICK g \in Int : x - y = Modulus * g
  <2>1. Width \in 0 .. Width /\ x - y \in Int /\ p - q \in Int
    BY <1>2, <1>5, ParametersAssumption
  <2> QED
    BY <1>1, <1>6, <2>1, OddFactor, ZenonT(60) DEF Modulus
<1>8. x = Modulus * g + y /\ x = Modulus * 0 + x
  BY <1>2, <1>7
<1> QED
  BY <1>2, <1>8, ModUnique

\* Different states give different bits.
LEMMA FinalizedInjective ==
    ASSUME NEW x \in Word, NEW y \in Word,
           Finalized[x] = Finalized[y]
    PROVE  x = y
<1> DEFINE a(z) == (XorShift(z, Shift1) * Mul1) % Modulus
           b(z) == (XorShift(a(z), Shift2) * Mul2) % Modulus
<1>1. \A z \in Word : /\ a(z) \in Word /\ b(z) \in Word
                      /\ Finalized[z] = XorShift(b(z), Shift3)
  BY FinalizedWord
<1>2. \A u, v \in Word : \A s \in {Shift1, Shift2, Shift3} :
          XorShift(u, s) = XorShift(v, s) => u = v
  BY XorShiftInjective
<1>3. \A u, v \in Word : \A s \in {Shift1, Shift2, Shift3} :
          \A k \in {Gamma, Mul1, Mul2} :
          (XorShift(u, s) * k) % Modulus = (XorShift(v, s) * k) % Modulus
             => u = v
  <2> TAKE u, v \in Word
  <2> TAKE s \in {Shift1, Shift2, Shift3}
  <2> TAKE k \in {Gamma, Mul1, Mul2}
  <2>1. XorShift(u, s) \in Word /\ XorShift(v, s) \in Word
    BY XorShiftWord
  <2> DEFINE m == XorShift(u, s)
             n == XorShift(v, s)
  <2>2. m \in Word /\ n \in Word
    BY <2>1
  <2> HIDE DEF m, n
  <2>3. (m * k) % Modulus = (n * k) % Modulus => m = n
    BY <2>2, TimesInjective
  <2> QED
    BY <1>2, <2>3 DEF m, n
<1>4. b(x) = b(y)
  BY <1>1, <1>2
<1>5. a(x) = a(y)
  <2>1. (XorShift(a(x), Shift2) * Mul2) % Modulus
           = (XorShift(a(y), Shift2) * Mul2) % Modulus
    BY <1>4
  <2> HIDE DEF a
  <2> QED
    BY <1>1, <1>3, <2>1
<1> QED
  BY <1>3, <1>5

\* wrapping_add(GAMMA) loses nothing.
LEMMA AdvanceInjective ==
    ASSUME NEW x \in Word, NEW y \in Word, Advance(x) = Advance(y)
    PROVE  x = y
<1>1. Gamma \in Int /\ x \in Int /\ y \in Int
  BY FactorFacts, WordFacts
<1>2. (x + Gamma) % Modulus = (y + Gamma) % Modulus
  BY DEF Advance
<1>3. x % Modulus = y % Modulus
  BY <1>1, <1>2, WordCancel, Zenon
<1>4. x % Modulus = x /\ y % Modulus = y
  BY WordFacts
<1> QED
  BY <1>3, <1>4

\* mix64 returns a word.
LEMMA mix64Word ==
    ASSUME NEW x \in Word
    PROVE  mix64(x) \in Word
BY AdvanceWord, FinalizedWord DEF mix64

\* mix64 loses nothing.
LEMMA mix64Injective ==
    ASSUME NEW x \in Word, NEW y \in Word, mix64(x) = mix64(y)
    PROVE  x = y
<1>1. Advance(x) \in Word /\ Advance(y) \in Word
  BY AdvanceWord
<1>2. Advance(x) = Advance(y)
  BY <1>1, FinalizedInjective DEF mix64
<1> QED
  BY <1>2, AdvanceInjective

\* The clock's seed is a word.
LEMMA clock_seedWord ==
    ASSUME NEW now \in Nat
    PROVE  now % Modulus \in Word /\ clock_seed(now) \in Word
<1>1. now % Modulus \in Word
  BY WordFacts, ModFacts
<1> QED
  BY <1>1, mix64Word DEF clock_seed

\* A draw lands in [0, hi], and a draw of [0, hi] is taken as it is.
LEMMA RandomRangeFacts ==
    ASSUME NEW hi \in Nat, NEW draw \in Word
    PROVE  /\ random_range(0, hi, draw) \in Word
           /\ random_range(0, hi, draw) <= hi
           /\ hi < Modulus /\ draw <= hi => random_range(0, hi, draw) = draw
<1> DEFINE high == hi % Modulus
<1>1. high \in 0 .. Modulus - 1 /\ high <= hi /\ (hi < Modulus => high = hi)
  BY WordFacts
<1>2. 0 % Modulus = 0
  BY WordFacts
<1> HIDE DEF high
<1>3. Span(0, hi) = high
  BY <1>1, <1>2, WordFacts DEF Span, high
<1> DEFINE offset == IF high = Modulus - 1 THEN draw ELSE draw % (high + 1)
<1>4. offset \in 0 .. high /\ (draw <= high => offset = draw)
  <2>1. CASE high = Modulus - 1
    BY <2>1, <1>1, WordFacts
  <2>2. CASE high # Modulus - 1
    <3>1. high + 1 \in Nat \ {0} /\ draw \in Nat
      BY <1>1, WordFacts
    <3> DEFINE r == high + 1
    <3>2. r \in Nat \ {0} /\ r = high + 1
      BY <3>1
    <3> HIDE DEF r
    <3>3. draw % r \in 0 .. r - 1 /\ (draw < r => draw % r = draw)
      BY <3>1, <3>2
    <3> QED
      BY <1>1, <2>2, <3>1, <3>2, <3>3, WordFacts
  <2> QED
    BY <2>1, <2>2
<1>5. random_range(0, hi, draw) = (0 + offset) % Modulus
  BY <1>2, <1>3 DEF random_range
<1> HIDE DEF offset
<1>6. (0 + offset) % Modulus = offset
  BY <1>1, <1>4, WordFacts
<1> QED
  BY <1>1, <1>4, <1>5, <1>6, WordFacts

\* Fractions of a gap that do not panic make a window, which is at most the
\* gap.
LEMMA WindowFacts ==
    ASSUME policy \in Policies, gap \in Gaps, ~Panics
    PROVE  window \in Nat /\ window <= gap
<1>1. policy.fraction \in Int \X Nat
  BY InputsAssumption DEF Policies, clamp_fraction
<1>2. gap \in Nat
  BY InputsAssumption
<1> DEFINE n == policy.fraction[1]
           d == policy.fraction[2]
           x == n * gap
           q == x \div d
<1>3. n \in Int /\ d \in Nat
  BY <1>1
<1>4. x \in Int
  BY <1>2, <1>3
<1>5. d # 0 /\ x >= 0
  <2>1. d # 0 /\ ~(x < 0)
    BY DEF Panics
  <2> HIDE DEF x
  <2> QED
    BY <1>4, <2>1
<1> HIDE DEF n, d, x
<1>6. q \in Int /\ q >= 0
  <2>1. x % d \in 0 .. d - 1 /\ x \div d \in Int /\ x = d * (x \div d) + (x % d)
    BY <1>3, <1>4, <1>5, ModFacts
  <2> DEFINE r == x % d
  <2>2. r \in 0 .. d - 1 /\ q \in Int /\ x = d * q + r
    BY <2>1
  <2> HIDE DEF q, r
  <2> SUFFICES ASSUME q < 0 PROVE FALSE
    BY <2>2
  <2>3. d * q <= 0 - d
    BY <1>3, <1>5, <2>2
  <2> QED
    BY <1>3, <1>5, <2>2, <2>3
<1>7. window = IF q <= gap THEN q ELSE gap
  BY DEF window, n, d, x
<1> HIDE DEF q
<1> QED
  BY <1>2, <1>6, <1>7

\* What JitterPolicy::new made is a number from 0 to 1, and mul_f64 takes
\* it, whatever the gap.
LEMMA ClampedFraction ==
    ASSUME NEW f \in Fractions
    PROVE  LET c == clamp_fraction(f)
           IN  c[1] \in Int /\ c[2] \in Nat \ {0} /\ 0 <= c[1] /\ c[1] <= c[2]
<1>1. f[1] \in Int /\ f[2] \in Nat /\ f = <<f[1], f[2]>>
  BY InputsAssumption
<1>2. CASE f = NaN \/ f[1] < 0
  <2>1. clamp_fraction(f) = <<0, 1>>
    BY <1>2 DEF clamp_fraction
  <2> QED
    BY <2>1
<1>3. CASE ~(f = NaN \/ f[1] < 0) /\ f[1] > f[2]
  <2>1. clamp_fraction(f) = <<1, 1>>
    BY <1>3 DEF clamp_fraction
  <2> QED
    BY <2>1
<1>4. CASE ~(f = NaN \/ f[1] < 0) /\ ~(f[1] > f[2])
  <2>1. clamp_fraction(f) = f
    BY <1>4 DEF clamp_fraction
  <2>2. f[2] = 0 => f[1] = 0
    BY <1>1, <1>4
  <2>3. f[2] # 0
    BY <1>1, <1>4, <2>2 DEF NaN
  <2> QED
    BY <1>1, <1>4, <2>1, <2>3
<1> QED
  BY <1>2, <1>3, <1>4

\* Such a fraction of a gap is a Duration.
LEMMA ClampedFits ==
    ASSUME policy \in Policies, gap \in Gaps, policy.made # "literal"
    PROVE  ~Panics
<1>1. PICK f \in Fractions : policy.fraction = clamp_fraction(f)
  BY DEF Policies
<1> DEFINE n == policy.fraction[1]
           d == policy.fraction[2]
<1>2. n \in Int /\ d \in Nat \ {0} /\ 0 <= n /\ n <= d
  BY <1>1, ClampedFraction
<1>3. gap \in Nat /\ DurationMax \in Nat /\ gap <= DurationMax
  BY InputsAssumption
<1>4. Panics <=> (d = 0 \/ n * gap < 0 \/ n * gap > d * DurationMax)
  BY DEF Panics
<1> HIDE DEF n, d
<1>5. n * gap >= 0
  BY <1>2, <1>3
<1>6. n * gap <= d * gap
  <2>1. (d - n) * gap >= 0
    BY <1>2, <1>3
  <2> QED
    BY <1>2, <1>3, <2>1
<1>7. d * gap <= d * DurationMax
  <2>1. d * (DurationMax - gap) >= 0
    BY <1>2, <1>3
  <2> QED
    BY <1>2, <1>3, <2>1
<1> DEFINE u == n * gap
           v == d * gap
           w == d * DurationMax
<1>8. u \in Int /\ v \in Int /\ w \in Int /\ u >= 0 /\ u <= v /\ v <= w
  BY <1>2, <1>3, <1>5, <1>6, <1>7
<1>9. Panics <=> (d = 0 \/ u < 0 \/ u > w)
  BY <1>4
<1> HIDE DEF u, v, w
<1> QED
  BY <1>2, <1>8, <1>9

-----------------------------------------------------------------------------
(***************************************************************************)
(* The invariant.  The generator of a loop is where count steps of Gamma   *)
(* take it from its origin, so the bits of its n-th wait follow from the   *)
(* seed or the clock reading, the hash, and n.                             *)
(***************************************************************************)

\* There is a window to draw from.
Jittered == ~Panics /\ window > 0

Base(l) == IF seed # Unset THEN seed ELSE clock_seed(nanos[l])
Origin(l) == BitXor(Base(l), hash[l])

\* The state that the n-th draw leaves.
At(l, n) == (Origin(l) + n * Gamma) % Modulus

\* The delay of the n-th wait.
DelayOf(l, n) ==
    IF Jittered THEN random_range(0, window, Finalized[At(l, n)]) ELSE 0

\* A loop that has begun stands on its orbit, and its clock reading is the
\* one its origin came from.
OnOrbit(l) ==
    IF state[l] = Unset
    THEN count[l] = 0
    ELSE /\ hash[l] \in Hashes
         /\ IF seed = Unset THEN nanos[l] \in Clocks ELSE nanos[l] = Unset
         /\ state[l] = IF Jittered THEN At(l, count[l]) ELSE Origin(l)

\* The bits and the delays drawn are those of the orbit.
Drawn(l) ==
    /\ raw[l] = IF count[l] > 0 /\ Jittered THEN Finalized[At(l, count[l])]
                                            ELSE Unset
    /\ \A n \in 1 .. count[l] : DelayOf(l, n) \in delays[l]
    /\ \A d \in delays[l] : d <= window /\ d <= gap

\* Only a window that can be computed is drawn from, and only one that
\* cannot unwinds a loop.
Computed(l) == (count[l] > 0 => ~Panics) /\ (l \in unwound => Panics)

JitterInv == TypeOK /\ \A l \in Loops : OnOrbit(l) /\ Drawn(l) /\ Computed(l)

\* The origin of a loop that has begun is a word.
LEMMA OriginWord ==
    ASSUME TypeOK, NEW l \in Loops, OnOrbit(l), state[l] # Unset
    PROVE  Base(l) \in Word /\ hash[l] \in Word /\ Origin(l) \in Word
<1>1. hash[l] \in Word
  BY InputsAssumption DEF OnOrbit
<1>2. Base(l) \in Word
  <2>1. CASE seed # Unset
    BY <2>1, InputsAssumption DEF Base, TypeOK
  <2>2. CASE seed = Unset
    <3>1. nanos[l] \in Nat
      BY <2>2, InputsAssumption DEF OnOrbit
    <3> QED
      BY <2>2, <3>1, clock_seedWord DEF Base
  <2> QED
    BY <2>1, <2>2
<1> QED
  BY <1>1, <1>2, XorAssumption DEF Origin

\* An orbit begins at the origin, and Advance follows it.
LEMMA OrbitFacts ==
    ASSUME NEW l \in Loops, Origin(l) \in Word, NEW n \in Nat
    PROVE  /\ At(l, n) \in Word
           /\ At(l, 0) = Origin(l)
           /\ Advance(At(l, n)) = At(l, n + 1)
<1> DEFINE o == Origin(l)
           x == o + n * Gamma
<1>1. o \in Nat /\ o < Modulus /\ Gamma \in Nat
  BY FactorFacts, WordFacts
<1> HIDE DEF o
<1>2. x \in Int /\ x + Gamma = o + (n + 1) * Gamma /\ o + 0 * Gamma = o
  BY <1>1
<1> HIDE DEF x
<1>3. (o + 0 * Gamma) % Modulus = o
  BY <1>1, <1>2, WordFacts
<1>4. ((x % Modulus) + Gamma) % Modulus = (x + Gamma) % Modulus
  <2>1. Modulus \in Nat \ {0} /\ x \in Int /\ Gamma \in Int
    BY <1>1, <1>2, WordFacts
  <2> QED
    BY <2>1, ModAdd, Zenon
<1>5. x % Modulus \in Word
  BY <1>2, WordFacts, ModFacts
<1>6. At(l, n) = x % Modulus
  BY DEF At, x, o
<1>7. At(l, 0) = o
  BY <1>3 DEF At, o
<1>8. At(l, n + 1) = (x + Gamma) % Modulus
  BY <1>2 DEF At, o
<1> QED
  BY <1>4, <1>5, <1>6, <1>7, <1>8 DEF Advance, o

\* The settings are fixed, and with them the window.
LEMMA SameWindow ==
    ASSUME UNCHANGED <<seed, policy, gap>>
    PROVE  /\ Panics' <=> Panics
           /\ window' = window
           /\ Jittered' <=> Jittered
<1>1. Panics' <=> Panics
  BY DEF Panics
<1>2. window' = window
  BY DEF window
<1> QED
  BY <1>1, <1>2 DEF Jittered

\* A step of one loop does not touch another.
LEMMA OtherLoop ==
    ASSUME UNCHANGED <<seed, policy, gap>>, NEW l \in Loops,
           OnOrbit(l), Drawn(l), Computed(l),
           state'[l] = state[l], nanos'[l] = nanos[l], hash'[l] = hash[l],
           raw'[l] = raw[l], delays'[l] = delays[l], count'[l] = count[l],
           l \in unwound' <=> l \in unwound
    PROVE  OnOrbit(l)' /\ Drawn(l)' /\ Computed(l)'
<1>1. (Panics' <=> Panics) /\ window' = window /\ (Jittered' <=> Jittered)
  BY SameWindow
<1>2. Origin(l)' = Origin(l)
  BY DEF Origin, Base
<1>3. \A n : At(l, n)' = At(l, n)
  BY <1>2 DEF At
<1>4. \A n : DelayOf(l, n)' = DelayOf(l, n)
  BY <1>1, <1>3 DEF DelayOf
<1>5. OnOrbit(l)'
  BY <1>1, <1>2, <1>3 DEF OnOrbit
<1>6. Drawn(l)'
  BY <1>1, <1>3, <1>4 DEF Drawn
<1>7. Computed(l)'
  BY <1>1 DEF Computed
<1> QED
  BY <1>5, <1>6, <1>7

\* Before any loop begins, nothing is drawn.
LEMMA InitInv == Init => JitterInv
<1> SUFFICES ASSUME Init PROVE JitterInv
  OBVIOUS
<1>1. TypeOK
  BY WordFacts DEF Init, TypeOK
<1>2. ASSUME NEW l \in Loops
      PROVE  OnOrbit(l) /\ Drawn(l) /\ Computed(l)
  <2>1. state[l] = Unset /\ count[l] = 0 /\ raw[l] = Unset /\ delays[l] = {}
        /\ unwound = {}
    BY DEF Init
  <2>2. 1 .. 0 = {}
    OBVIOUS
  <2> QED
    BY <2>1, <2>2 DEF OnOrbit, Drawn, Computed
<1> QED
  BY <1>1, <1>2 DEF JitterInv

\* Begin: the origin is fixed, and nothing is drawn yet.
LEMMA BeginInv ==
    ASSUME JitterInv, NEW l \in Loops, Begin(l)
    PROVE  JitterInv'
<1>1. PICK now \in Clocks, h \in Hashes :
          /\ Seeded(l, now, h)
          /\ nanos' = [nanos EXCEPT ![l] = IF seed = Unset THEN now ELSE Unset]
          /\ hash' = [hash EXCEPT ![l] = h]
  BY DEF Begin
<1> USE DEF JitterInv
<1>2. /\ state[l] = Unset
      /\ UNCHANGED <<seed, policy, gap, unwound, raw, delays, count>>
  BY DEF Begin
<1>3. (Panics' <=> Panics) /\ window' = window /\ (Jittered' <=> Jittered)
  BY <1>2, SameWindow
<1> DEFINE base == IF seed # Unset THEN seed ELSE clock_seed(now)
<1>4. state' = [state EXCEPT ![l] = BitXor(base, h)]
  BY <1>1 DEF Seeded
<1>5. base \in Word /\ h \in Word /\ BitXor(base, h) \in Word
  <2>1. base \in Word
    BY InputsAssumption, clock_seedWord DEF TypeOK
  <2> QED
    BY <2>1, InputsAssumption, XorAssumption
<1>6. /\ state'[l] = BitXor(base, h) /\ hash'[l] = h
      /\ nanos'[l] = IF seed = Unset THEN now ELSE Unset
  BY <1>1, <1>4 DEF TypeOK
<1>7. TypeOK'
  <2>1. nanos' \in [Loops -> Clocks \cup {Unset}]
    BY <1>1 DEF TypeOK
  <2>2. /\ state' \in [Loops -> Word \cup {Unset}]
        /\ hash' \in [Loops -> Hashes \cup {Unset}]
    BY <1>1, <1>4, <1>5 DEF TypeOK
  <2> QED
    BY <1>2, <2>1, <2>2 DEF TypeOK
<1>8. count[l] = 0 /\ count'[l] = 0
  BY <1>2 DEF OnOrbit
<1>9. state'[l] # Unset
  BY <1>5, <1>6, WordFacts DEF Unset
<1>10. Origin(l)' = BitXor(base, h)
  <2>1. Base(l)' = base
    BY <1>2, <1>6 DEF Base
  <2> QED
    BY <1>6, <2>1 DEF Origin
<1>11. At(l, 0)' = Origin(l)'
  <2> DEFINE o == Origin(l)'
  <2>1. o \in Word
    BY <1>5, <1>10
  <2>2. At(l, 0)' = (o + 0 * Gamma) % Modulus
    BY DEF At
  <2> HIDE DEF o
  <2>3. (o + 0 * Gamma) % Modulus = o
    <3>1. Gamma \in Nat /\ o \in 0 .. Modulus - 1
      BY <2>1, WordFacts, ParametersAssumption
    <3>2. o + 0 * Gamma = o
      BY <3>1
    <3>3. o % Modulus = o
      BY <3>1, WordFacts
    <3> QED
      BY <3>2, <3>3
  <2> QED
    BY <2>2, <2>3 DEF o
<1>12. OnOrbit(l)'
  <2>1. hash'[l] \in Hashes
    BY <1>6
  <2>2. IF seed' = Unset THEN nanos'[l] \in Clocks ELSE nanos'[l] = Unset
    BY <1>2, <1>6
  <2>3. state'[l] = IF Jittered' THEN At(l, 0)' ELSE Origin(l)'
    BY <1>6, <1>10, <1>11
  <2> QED
    BY <1>8, <1>9, <2>1, <2>2, <2>3 DEF OnOrbit
<1>13. Drawn(l)' /\ Computed(l)'
  <2>1. 1 .. 0 = {} /\ ~(0 > 0)
    OBVIOUS
  <2>2. raw'[l] = Unset
    BY <1>2, <1>8, <2>1 DEF Drawn
  <2>3. \A d \in delays'[l] : d <= window' /\ d <= gap'
    BY <1>2, <1>3 DEF Drawn
  <2>4. Computed(l)'
    BY <1>2, <1>3 DEF Computed
  <2> QED
    BY <1>8, <2>1, <2>2, <2>3, <2>4 DEF Drawn
<1>14. ASSUME NEW k \in Loops, k # l
       PROVE  OnOrbit(k)' /\ Drawn(k)' /\ Computed(k)'
  <2>1. state'[k] = state[k] /\ nanos'[k] = nanos[k] /\ hash'[k] = hash[k]
    BY <1>1, <1>4, <1>14 DEF TypeOK
  <2> QED
    BY <1>2, <2>1, OtherLoop
<1> QED
  BY <1>7, <1>12, <1>13, <1>14

\* Draw: the generator advances by one, and what is drawn fits the window.
LEMMA DrawInv ==
    ASSUME JitterInv, NEW l \in Loops, Draw(l)
    PROVE  JitterInv'
<1> USE DEF JitterInv
<1>0. PICK n \in Nat : n = count[l]
  BY WordFacts DEF TypeOK
<1> DEFINE next == Advance(state[l])
           bits == Finalized[next]
           delay == random_range(0, window, bits)
<1>1. /\ state[l] # Unset /\ count[l] < Modulus /\ Jittered /\ ~Panics
      /\ UNCHANGED <<seed, policy, gap, nanos, hash, unwound>>
  BY DEF Draw, Waits, Jittered
<1>2. /\ state' = [state EXCEPT ![l] = next]
      /\ raw' = [raw EXCEPT ![l] = bits]
      /\ delays' = [delays EXCEPT ![l] = @ \cup {delay}]
      /\ count' = [count EXCEPT ![l] = @ + 1]
  BY DEF Draw
<1>3. (Panics' <=> Panics) /\ window' = window /\ (Jittered' <=> Jittered)
  BY <1>1, SameWindow
<1>4. Origin(l) \in Word
  BY <1>1, OriginWord
<1>5. n \in Nat /\ n + 1 \in 0 .. Modulus
  BY <1>0, <1>1, WordFacts
<1>6. At(l, n) \in Word /\ Advance(At(l, n)) = At(l, n + 1)
  BY <1>4, <1>5, OrbitFacts
<1>7. state[l] = At(l, n)
  BY <1>0, <1>1 DEF OnOrbit
<1>8. next = At(l, n + 1) /\ next \in Word /\ bits \in Word
  BY <1>6, <1>7, AdvanceWord, FinalizedWord
<1>9. window \in Nat /\ window <= gap /\ gap \in Nat
  BY <1>1, WindowFacts, InputsAssumption DEF TypeOK
<1>10. delay \in Word /\ delay <= window
  BY <1>8, <1>9, RandomRangeFacts
<1>11. /\ state'[l] = next /\ raw'[l] = bits /\ count'[l] = n + 1
       /\ delays'[l] = delays[l] \cup {delay}
  BY <1>0, <1>2 DEF TypeOK
<1>12. \A m : At(l, m)' = At(l, m)
  BY <1>1 DEF At, Origin, Base
<1>13. \A m : DelayOf(l, m)' = DelayOf(l, m)
  BY <1>3, <1>12 DEF DelayOf
<1>14. delay = DelayOf(l, n + 1)
  BY <1>1, <1>8 DEF DelayOf
<1> HIDE DEF next, bits, delay
<1>15. TypeOK'
  <2>1. /\ state' \in [Loops -> Word \cup {Unset}]
        /\ raw' \in [Loops -> Word \cup {Unset}]
    BY <1>2, <1>8 DEF TypeOK
  <2>2. delays' \in [Loops -> SUBSET Word]
    BY <1>2, <1>10 DEF TypeOK
  <2>3. count' \in [Loops -> 0 .. Modulus]
    BY <1>0, <1>2, <1>5 DEF TypeOK
  <2> QED
    BY <1>1, <2>1, <2>2, <2>3 DEF TypeOK
<1>16. OnOrbit(l)'
  <2>1. state'[l] # Unset
    BY <1>8, <1>11, WordFacts DEF Unset
  <2>2. state'[l] = At(l, n + 1)'
    BY <1>8, <1>11, <1>12
  <2>3. hash'[l] \in Hashes
        /\ IF seed' = Unset THEN nanos'[l] \in Clocks ELSE nanos'[l] = Unset
    BY <1>1 DEF OnOrbit
  <2> QED
    BY <1>1, <1>3, <1>11, <2>1, <2>2, <2>3 DEF OnOrbit
<1>17. Drawn(l)'
  <2>1. n + 1 > 0
    BY <1>5
  <2>2. raw'[l] = Finalized[At(l, n + 1)']
    BY <1>8, <1>11, <1>12 DEF bits
  <2>3. \A m \in 1 .. n + 1 : DelayOf(l, m)' \in delays'[l]
    <3>1. \A m \in 1 .. n : DelayOf(l, m) \in delays[l]
      BY <1>0 DEF Drawn
    <3>2. \A m \in 1 .. n + 1 : m \in 1 .. n \/ m = n + 1
      BY <1>5
    <3> QED
      BY <1>11, <1>13, <1>14, <3>1, <3>2
  <2>4. \A d \in delays'[l] : d <= window' /\ d <= gap'
    <3>1. delay <= gap
      BY <1>9, <1>10, WordFacts
    <3> QED
      BY <1>1, <1>3, <1>10, <1>11, <3>1 DEF Drawn
  <2> QED
    BY <1>1, <1>3, <1>11, <2>1, <2>2, <2>3, <2>4 DEF Drawn
<1>18. Computed(l)'
  BY <1>1, <1>3 DEF Computed
<1>19. ASSUME NEW k \in Loops, k # l
       PROVE  OnOrbit(k)' /\ Drawn(k)' /\ Computed(k)'
  <2>1. /\ state'[k] = state[k] /\ raw'[k] = raw[k]
        /\ delays'[k] = delays[k] /\ count'[k] = count[k]
    BY <1>2, <1>19 DEF TypeOK
  <2> QED
    BY <1>1, <2>1, OtherLoop
<1> QED
  BY <1>15, <1>16, <1>17, <1>18, <1>19

\* NoDraw: the generator rests, and the delay is nothing.
LEMMA NoDrawInv ==
    ASSUME JitterInv, NEW l \in Loops, NoDraw(l)
    PROVE  JitterInv'
<1> USE DEF JitterInv
<1> DEFINE n == count[l]
<1>1. /\ state[l] # Unset /\ count[l] < Modulus /\ ~Panics /\ window = 0
      /\ UNCHANGED <<seed, policy, gap, nanos, hash, state, unwound, raw>>
  BY DEF NoDraw, Waits
<1>2. /\ delays' = [delays EXCEPT ![l] = @ \cup {0}]
      /\ count' = [count EXCEPT ![l] = @ + 1]
  BY DEF NoDraw
<1>3. (Panics' <=> Panics) /\ window' = window /\ (Jittered' <=> Jittered)
  BY <1>1, SameWindow
<1>4. ~Jittered
  BY <1>1 DEF Jittered
<1>5. n \in Nat /\ n + 1 \in 0 .. Modulus
  BY <1>1, WordFacts DEF TypeOK
<1>6. count'[l] = n + 1 /\ delays'[l] = delays[l] \cup {0}
  BY <1>2 DEF TypeOK
<1>7. TypeOK'
  <2>1. delays' \in [Loops -> SUBSET Word]
    BY <1>2, WordFacts DEF TypeOK
  <2>2. count' \in [Loops -> 0 .. Modulus]
    BY <1>2, <1>5 DEF TypeOK
  <2> QED
    BY <1>1, <2>1, <2>2 DEF TypeOK
<1>8. OnOrbit(l)'
  <2>1. Origin(l)' = Origin(l)
    BY <1>1 DEF Origin, Base
  <2>2. state'[l] = Origin(l)'
    BY <1>1, <1>4, <2>1 DEF OnOrbit
  <2>3. hash'[l] \in Hashes
        /\ IF seed' = Unset THEN nanos'[l] \in Clocks ELSE nanos'[l] = Unset
    BY <1>1 DEF OnOrbit
  <2> QED
    BY <1>1, <1>3, <1>4, <2>2, <2>3 DEF OnOrbit
<1>9. Drawn(l)'
  <2>1. raw'[l] = Unset
    BY <1>1, <1>4 DEF Drawn
  <2>2. \A m : DelayOf(l, m)' = 0
    BY <1>3, <1>4 DEF DelayOf
  <2>3. \A d \in delays'[l] : d <= window' /\ d <= gap'
    <3>1. 0 <= window /\ 0 <= gap
      BY <1>1, InputsAssumption DEF TypeOK
    <3> QED
      BY <1>1, <1>3, <1>6, <3>1 DEF Drawn
  <2> QED
    BY <1>3, <1>4, <1>6, <2>1, <2>2, <2>3 DEF Drawn
<1>10. Computed(l)'
  BY <1>1, <1>3 DEF Computed
<1>11. ASSUME NEW k \in Loops, k # l
       PROVE  OnOrbit(k)' /\ Drawn(k)' /\ Computed(k)'
  <2>1. delays'[k] = delays[k] /\ count'[k] = count[k]
    BY <1>2, <1>11 DEF TypeOK
  <2> QED
    BY <1>1, <2>1, OtherLoop
<1> QED
  BY <1>7, <1>8, <1>9, <1>10, <1>11

\* Unwind: nothing was drawn, and nothing will be.
LEMMA UnwindInv ==
    ASSUME JitterInv, NEW l \in Loops, Unwind(l)
    PROVE  JitterInv'
<1> USE DEF JitterInv
<1>1. /\ Panics /\ unwound' = unwound \cup {l}
      /\ UNCHANGED <<seed, policy, gap, nanos, hash, state, raw, delays, count>>
  BY DEF Unwind
<1>2. TypeOK'
  BY <1>1 DEF TypeOK
<1>3. (Panics' <=> Panics) /\ window' = window /\ (Jittered' <=> Jittered)
  BY <1>1, SameWindow
<1>4. ASSUME NEW k \in Loops
      PROVE  OnOrbit(k)' /\ Drawn(k)' /\ Computed(k)'
  <2>1. Computed(k)'
    BY <1>1, <1>3 DEF Computed
  <2>2. \A m : At(k, m)' = At(k, m)
    BY <1>1 DEF At, Origin, Base
  <2>3. \A m : DelayOf(k, m)' = DelayOf(k, m)
    BY <1>3, <2>2 DEF DelayOf
  <2>4. Origin(k)' = Origin(k)
    BY <1>1 DEF Origin, Base
  <2>5. OnOrbit(k)'
    BY <1>1, <1>3, <2>2, <2>4 DEF OnOrbit
  <2>6. Drawn(k)'
    BY <1>1, <1>3, <2>2, <2>3 DEF Drawn
  <2> QED
    BY <2>1, <2>5, <2>6
<1> QED
  BY <1>2, <1>4

\* Every step keeps the invariant.
LEMMA NextInv == JitterInv /\ [Next]_vars => JitterInv'
<1> SUFFICES ASSUME JitterInv, [Next]_vars PROVE JitterInv'
  OBVIOUS
<1>1. CASE Next
  BY <1>1, BeginInv, DrawInv, NoDrawInv, UnwindInv DEF Next
<1>2. CASE UNCHANGED vars
  <2>1. TypeOK'
    BY <1>2 DEF vars, JitterInv, TypeOK
  <2>2. ASSUME NEW l \in Loops
        PROVE  OnOrbit(l)' /\ Drawn(l)' /\ Computed(l)'
    <3>1. OnOrbit(l) /\ Drawn(l) /\ Computed(l)
      BY DEF JitterInv
    <3> QED
      BY <1>2, <3>1, OtherLoop DEF vars
  <2> QED
    BY <2>1, <2>2 DEF JitterInv
<1> QED
  BY <1>1, <1>2

\* It holds in every reachable state.
LEMMA JitterAlways == Spec => []JitterInv
BY InitInv, NextInv, PTL DEF Spec

-----------------------------------------------------------------------------
(***************************************************************************)
(* The theorems.                                                           *)
(***************************************************************************)

\* No delay of random_range exceeds its window or the gap, for words of any
\* width, any multipliers, shifts, seeds, gaps and fractions.
THEOREM DelaysFit == Spec => []DelayWithinWindow
<1>1. JitterInv => DelayWithinWindow
  BY DEF JitterInv, Drawn, DelayWithinWindow
<1> QED
  BY <1>1, JitterAlways, PTL

\* Only a literal in the public field can make mul_f64 panic and take a loop
\* down; whatever is asked of JitterPolicy::new, and whatever the gap, what
\* it made never does.
THEOREM ClampSuffices == Spec => []ClampedNeverPanics
<1>1. JitterInv => ClampedNeverPanics
  <2> SUFFICES ASSUME JitterInv, unwound # {} PROVE policy.made = "literal"
    BY DEF ClampedNeverPanics
  <2>1. PICK l \in unwound : TRUE
    OBVIOUS
  <2>2. l \in Loops
    BY DEF JitterInv, TypeOK
  <2>3. Panics
    BY <2>1, <2>2 DEF JitterInv, Computed
  <2> QED
    BY <2>3, ClampedFits DEF JitterInv, TypeOK
<1> QED
  BY <1>1, JitterAlways, PTL

\* Two orbits meet nowhere, wait by wait, unless they have one origin.
LEMMA OrbitsApart ==
    ASSUME NEW k \in Loops, NEW l \in Loops, NEW n \in Nat,
           Origin(k) \in Word, Origin(l) \in Word, At(k, n) = At(l, n)
    PROVE  Origin(k) = Origin(l)
<1> DEFINE x == Origin(k)
           y == Origin(l)
           g == n * Gamma
<1>1. Modulus \in Nat \ {0} /\ x \in Int /\ y \in Int /\ g \in Int
  BY FactorFacts, WordFacts
<1>2. (x + g) % Modulus = (y + g) % Modulus
  BY DEF At
<1>3. x \in 0 .. Modulus - 1 /\ y \in 0 .. Modulus - 1
  BY WordFacts
<1> HIDE DEF x, y, g
<1>4. x % Modulus = y % Modulus
  BY <1>1, <1>2, WordCancel, Zenon
<1>5. x % Modulus = x /\ y % Modulus = y
  BY <1>1, <1>3
<1> QED
  BY <1>4, <1>5 DEF x, y

\* One orbit does not come back to a state within a period.
LEMMA OrbitFresh ==
    ASSUME NEW l \in Loops, Origin(l) \in Word,
           NEW a \in Word, NEW b \in Word, At(l, a + 1) = At(l, b + 1)
    PROVE  a = b
<1> DEFINE o == Origin(l)
           x == a * Gamma
           y == b * Gamma
           g == o + Gamma
<1>1. o \in Nat /\ a \in Nat /\ b \in Nat /\ Gamma \in Nat
  BY FactorFacts, WordFacts
<1>2. At(l, a + 1) = (o + (a + 1) * Gamma) % Modulus
      /\ At(l, b + 1) = (o + (b + 1) * Gamma) % Modulus
  BY DEF At
<1> HIDE DEF o
<1>3. o + (a + 1) * Gamma = x + g /\ o + (b + 1) * Gamma = y + g
  BY <1>1
<1>4. Modulus \in Nat \ {0} /\ x \in Int /\ y \in Int /\ g \in Int
  BY <1>1, WordFacts
<1> HIDE DEF x, y, g
<1>5. x % Modulus = y % Modulus
  <2>1. (x + g) % Modulus = (y + g) % Modulus
    BY <1>2, <1>3
  <2> QED
    BY <1>4, <2>1, WordCancel, Zenon
<1> QED
  BY <1>5, TimesInjective DEF x, y

\* Two loops that differ in the hash of their names alone, or in their clock
\* reading alone, never draw the same bits for the same wait, for any width,
\* any odd multipliers and any shifts.
THEOREM WorkersDecorrelated == Spec => []NeverInStep
<1>1. JitterInv => NeverInStep
  <2> SUFFICES ASSUME JitterInv, NEW k \in Loops, NEW l \in Loops,
                      k # l, count[k] = count[l], raw[k] # Unset,
                      \/ nanos[k] = nanos[l] /\ hash[k] # hash[l]
                      \/ /\ hash[k] = hash[l]
                         /\ nanos[k] % Modulus # nanos[l] % Modulus,
                      raw[k] = raw[l]
               PROVE  FALSE
    BY DEF NeverInStep
  <2> USE DEF JitterInv
  <2>1. PICK n \in Nat : n = count[k]
    BY WordFacts DEF TypeOK
  <2>2. n > 0 /\ Jittered
    BY <2>1 DEF Drawn
  <2>3. raw[k] = Finalized[At(k, n)] /\ raw[l] = Finalized[At(l, n)]
    BY <2>1, <2>2 DEF Drawn
  <2>4. state[k] # Unset /\ state[l] # Unset
    BY <2>1, <2>2 DEF OnOrbit
  <2>5. /\ Base(k) \in Word /\ hash[k] \in Word /\ Origin(k) \in Word
        /\ Base(l) \in Word /\ hash[l] \in Word /\ Origin(l) \in Word
    BY <2>4, OriginWord
  <2>6. At(k, n) \in Word /\ At(l, n) \in Word
    BY <2>5, OrbitFacts
  <2>7. At(k, n) = At(l, n)
    BY <2>3, <2>6, FinalizedInjective
  <2>8. Origin(k) = Origin(l)
    BY <2>5, <2>7, OrbitsApart
  <2>9. CASE nanos[k] = nanos[l] /\ hash[k] # hash[l]
    <3>1. Base(k) = Base(l)
      BY <2>9 DEF Base
    <3>2. BitXor(Base(k), BitXor(Base(k), hash[k])) = hash[k]
          /\ BitXor(Base(k), BitXor(Base(k), hash[l])) = hash[l]
      BY <2>5, XorTwice
    <3>3. BitXor(Base(k), hash[k]) = BitXor(Base(k), hash[l])
      BY <2>8, <3>1 DEF Origin
    <3> QED
      BY <2>9, <3>2, <3>3
  <2>10. CASE hash[k] = hash[l] /\ nanos[k] % Modulus # nanos[l] % Modulus
    <3>1. seed = Unset /\ nanos[k] \in Nat /\ nanos[l] \in Nat
      <4>1. seed = Unset
        BY <2>4, <2>10 DEF OnOrbit
      <4> QED
        BY <2>4, <4>1, InputsAssumption DEF OnOrbit
    <3>2. BitXor(hash[k], BitXor(hash[k], Base(k))) = Base(k)
          /\ BitXor(hash[k], BitXor(hash[k], Base(l))) = Base(l)
      BY <2>5, XorTwice
    <3>3. BitXor(hash[k], Base(k)) = BitXor(Base(k), hash[k])
          /\ BitXor(hash[k], Base(l)) = BitXor(Base(l), hash[k])
      BY <2>5, XorAssumption
    <3>4. Base(k) = Base(l)
      BY <2>8, <2>10, <3>2, <3>3 DEF Origin
    <3>5. mix64(nanos[k] % Modulus) = mix64(nanos[l] % Modulus)
      BY <3>1, <3>4 DEF Base, clock_seed
    <3>6. nanos[k] % Modulus \in Word /\ nanos[l] % Modulus \in Word
      BY <3>1, clock_seedWord
    <3> QED
      BY <2>10, <3>5, <3>6, mix64Injective
  <2> QED
    BY <2>9, <2>10
<1> QED
  BY <1>1, JitterAlways, PTL

\* Over a period of the generator each delay of the window is drawn, its two
\* ends included, for any width, odd multipliers and shifts:
\* the states of a period are all words, and so are the bits.
THEOREM JitterIsFull == Spec => []EveryDelayDrawn
<1>1. JitterInv => EveryDelayDrawn
  <2> SUFFICES ASSUME JitterInv, NEW l \in Loops, count[l] = Modulus,
                      window < Modulus
               PROVE  delays[l] = 0 .. window
    BY DEF EveryDelayDrawn
  <2> USE DEF JitterInv
  <2>1. count[l] > 0 /\ ~Panics
    BY WordFacts DEF Computed
  <2>2. window \in Nat /\ window <= gap
    BY <2>1, WindowFacts DEF TypeOK
  <2>3. \A d \in delays[l] : d \in 0 .. window
    <3>1. \A d \in delays[l] : d \in Nat /\ d <= window
      BY WordFacts DEF TypeOK, Drawn
    <3> QED
      BY <2>2, <3>1
  <2>4. \A d \in 0 .. window : d \in delays[l]
    <3>1. CASE window = 0
      <4>1. ~Jittered
        BY <3>1 DEF Jittered
      <4>2. 1 \in 1 .. count[l]
        BY WordFacts
      <4>3. 0 \in delays[l]
        BY <4>1, <4>2 DEF Drawn, DelayOf
      <4> QED
        BY <3>1, <4>3
    <3>2. CASE window # 0
      <4>1. Jittered
        BY <2>1, <2>2, <3>2 DEF Jittered
      <4>2. Origin(l) \in Word
        BY <2>1, WordFacts, OriginWord DEF OnOrbit
      <4> DEFINE F == [a \in Word |-> Finalized[At(l, a + 1)]]
      <4>3. ASSUME NEW a \in Word
            PROVE  a + 1 \in 1 .. count[l] /\ At(l, a + 1) \in Word
                   /\ Finalized[At(l, a + 1)] \in Word
        <5>1. a + 1 \in Nat /\ a + 1 \in 1 .. count[l]
          BY WordFacts
        <5>2. At(l, a + 1) \in Word
          BY <4>2, <5>1, OrbitFacts
        <5> QED
          BY <5>1, <5>2, FinalizedWord
      <4>4. F \in [Word -> Word]
        BY <4>3
      <4>5. \A a, b \in Word : F[a] = F[b] => a = b
        BY <4>2, <4>3, FinalizedInjective, OrbitFresh
      <4>6. F \in Injection(Word, Word)
        BY <4>4, <4>5 DEF Injection, IsInjective
      <4>7. IsFiniteSet(Word)
        BY WordFacts, FS_Interval
      <4>8. F \in Surjection(Word, Word)
        BY <4>6, <4>7, FS_Injection
      <4> TAKE d \in 0 .. window
      <4>9. d \in Word /\ d <= window
        BY <2>2, WordFacts
      <4>10. PICK a \in Word : F[a] = d
        BY <4>8, <4>9 DEF Surjection
      <4>11. random_range(0, window, d) = d
        BY <2>2, <4>9, RandomRangeFacts
      <4>12. DelayOf(l, a + 1) = d
        BY <4>1, <4>10, <4>11 DEF DelayOf
      <4> QED
        BY <4>3, <4>12 DEF Drawn
    <3> QED
      BY <3>1, <3>2
  <2> QED
    BY <2>3, <2>4
<1> QED
  BY <1>1, JitterAlways, PTL
=============================================================================
