--------------------------- MODULE MCRegistration ---------------------------
(***************************************************************************)
(* An instance of Registration for TLC.                                    *)
(***************************************************************************)
EXTENDS Registration, TLC

CONSTANTS v1, v2

Job(name, trigger, use_breaker) ==
    [name |-> name, trigger |-> trigger, use_breaker |-> use_breaker]

\* Three sound names, one a prefix of another, one with and without a
\* breaker; names that are empty, too long and of other characters; and a
\* cron expression that does not parse.
MCSpecs ==
    {Job(<<2>>, "interval", TRUE), Job(<<2>>, "cron", FALSE),
     Job(<<1, 2>>, "interval", TRUE), Job(<<1>>, "interval", TRUE),
     Job(<<1>>, "bad_cron", TRUE), Job(<<>>, "interval", TRUE),
     Job(<<1, 1, 1>>, "interval", FALSE), Job(<<1, 9>>, "bad_cron", TRUE)}
MCChars == {1, 2}
MCValues == {v1, v2}
MCSymmetry == Permutations(MCValues)
=============================================================================
