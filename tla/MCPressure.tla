----------------------------- MODULE MCPressure -----------------------------
(***************************************************************************)
(* Instance of Pressure for TLC.                                           *)
(***************************************************************************)
EXTENDS Pressure

Line(s, avg60) ==
    [some |-> s, fields |-> <<<<"avg10", 0>>, <<"avg60", avg60>>, <<"avg300", 0>>>>]

\* No file, an empty one, no `some` line, pressure below, at and above the
\* threshold, two `some` lines, a spoiled and an incomplete line, and a
\* field given twice.
MCTexts ==
    {Missing, <<>>, <<Line(FALSE, 3)>>, <<Line(TRUE, 1)>>,
     <<Line(TRUE, 2), Line(FALSE, 0)>>, <<Line(FALSE, 0), Line(TRUE, 3)>>,
     <<Line(TRUE, 1), Line(TRUE, 3)>>, <<Line(TRUE, Bad)>>,
     <<[some |-> TRUE, fields |-> <<<<"avg60", 3>>, <<"total", 9>>>>]>>,
     <<[some |-> TRUE, fields |-> Line(TRUE, 1).fields \o <<<<"avg60", 3>>>>]>>}
=============================================================================
