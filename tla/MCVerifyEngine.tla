---------------------------- MODULE MCVerifyEngine ----------------------------
(* VerifyEngine over a pattern of three requests and a window of two.       *)
EXTENDS VerifyEngine

MCPattern == <<0, 1, 2>>

T == TRUE
F == FALSE

\* All new, all old, and every way three pages can be torn that the classes tell apart.
MCPageSeqs == {<<T, T, T>>, <<F, F, F>>, <<F, T, T>>, <<T, F, F>>, <<T, F, T>>}

\* Where the power was cut matters to internal tests of writes without a cache,
\* how much tearing is tolerated to every test without a cache.
MCConfigs ==
  [ cache : {FALSE}, internal : {TRUE}, erase : {FALSE}, poffPos : 0 .. 2,
    minor : {2}, cycle : {2} ]
  \cup
  [ cache : {FALSE}, internal : BOOLEAN, erase : {TRUE}, poffPos : {1},
    minor : {0, 1}, cycle : {2} ]
  \cup
  [ cache : {TRUE}, internal : {TRUE}, erase : {FALSE}, poffPos : {1},
    minor : {0}, cycle : {1, 2} ]
===============================================================================
