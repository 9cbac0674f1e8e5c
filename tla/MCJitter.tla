------------------------------ MODULE MCJitter ------------------------------
(***************************************************************************)
(* Instances of Jitter for TLC: words of four bits, two loops.             *)
(***************************************************************************)
EXTENDS Jitter, Bitwise

MCXor(a, b) == a ^^ b

MCLoops == {1, 2}

\* No seed, or one; clock readings within a word and beyond it.
MCSeeds == {Unset, 9}
MCClocks == {0, 6, 17}
MCHashes == {0, 5}

\* Gaps of nothing, of a few units, of exactly a word, and larger.
MCGaps == {0, 1, 5, 15, 16, 40}

\* NaN, the infinities, less than nothing, the default fifth, and twice the
\* gap.
MCFractions ==
    {<<0, 0>>, <<1, 0>>, <<-1, 0>>, <<-1, 2>>, <<1, 5>>, <<2, 1>>}
=============================================================================
