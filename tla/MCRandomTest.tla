---------------------------- MODULE MCRandomTest ----------------------------
(* RandomTest over a few zones.                                              *)
EXTENDS RandomTest

ShortAndLong == <<1, 3>>

Every == RandomTestCases \X BOOLEAN

TwoSeeds == {<<0, 1>>, <<1, 0, 0>>}
===============================================================================
