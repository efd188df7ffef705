----------------------------- MODULE MCAgingTest -----------------------------
(***************************************************************************)
(* AgingTest on an area of six pages.                                     *)
(***************************************************************************)
EXTENDS AgingTest

AllTests == AgingTestCases \cup ReadDisturbCases

\* Long and short requests and gaps.  Two attempts at a loop may leave it with a hole at
\* which requests of both of them begin and end: neither seed alone writes such a loop.
TwoSeeds == {<<2, 0, 2, 2, 0>>, <<0, 0, 0, 0, 0, 2, 0>>}
===============================================================================
