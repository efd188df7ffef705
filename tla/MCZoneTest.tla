----------------------------- MODULE MCZoneTest -----------------------------
(* ZoneTest over three zones of eight pages, of which dpin_0008 keeps one.   *)
EXTENDS ZoneTest

OneTwo == <<1, 2>>

\* What dpin_0008 checks no request ever touches, with a cache or without.
Every == Cases \X BOOLEAN \ {<<"dpin_0008", TRUE>>}
===============================================================================
