--------------------------- MODULE MCPowerLossTest ---------------------------
(* PowerLossTest over four to six requests.  Odd loops go up and even loops  *)
(* down, so that a request's place in the pattern differs between loops.     *)
EXTENDS PowerLossTest

\* A test area that begins at sector 0.
Up0   == <<0, 1, 2, 3>>
Down0 == <<3, 2, 1, 0>>

TearOrLose == [tearing |-> 5, lossy |-> 4]
KeepOrLose == [atomic |-> 5, lossy |-> 3]
LoseOnly   == [lossy |-> 4]

Up6   == <<1, 2, 3, 4, 5, 6>>
Down6 == <<6, 5, 4, 3, 2, 1>>
===============================================================================
