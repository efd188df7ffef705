------------------------------- MODULE ZoneTest -------------------------------
(***************************************************************************)
(* A power loss test of the cases of ZoneCases: write until the power is   *)
(* cut or the loop is done, verify, check a zone, go on.  The verification *)
(* proper is taken by its result, which VerifyEngine and PowerLossTest     *)
(* establish: the write goes on at the first request of the phase that is  *)
(* not there.  With a cache it also predicts the last page a request of    *)
(* the phase may have reached, counted as set_last_lsn_in_cached_list does.*)
(***************************************************************************)
EXTENDS ZoneCases

CONSTANTS
  FlushCycle,  \* cache_flush_cycle
  MaxLoop,     \* bound: the test ends after this many loops
  Tests        \* the test cases that are run, each with or without cache

ASSUME FlushCycleAssumption == FlushCycle \in Nat \ {0}

ASSUME TestsAssumption == Tests \subseteq Cases \X BOOLEAN

VARIABLES
  loop,      \* loop_cnt
  req,       \* the request to be written next, NoRequest behind the last
  count,     \* its request_count in this phase
  cached,    \* requests written and not flushed, in order
  disk,      \* page -> the loop it is of
  verified,  \* what the last verification left
  pc

vars == <<TestCase, CacheOn, loop, req, count, cached, disk, verified, pc>>

Pages == 0 .. AreaStart + AreaLength - 1

PagesOf(r) == r.lsn .. r.lsn + r.len - 1

\* Erased, and for the read disturbance test filled (fill_read_disturb_area).
Filled ==
  [lsn \in Pages |-> IF TestCase = "dpin_0008" /\ lsn < RD_PAGES THEN Magic ELSE 0]

Init ==
  /\ \E test \in Tests : TestCase = test[1] /\ CacheOn = test[2]
  /\ loop = 1
  /\ req = FirstRequest
  /\ count = 1
  /\ cached = <<>>
  /\ disk = Filled
  /\ verified = [lsn |-> first_sector, len |-> 1, loop |-> 1,
                 last |-> first_sector, lastLoop |-> 1]
  /\ pc = "write"

Store(d, requests, l) ==
  LET stored == UNION {PagesOf(r) : r \in requests}
  IN  [lsn \in Pages |-> IF lsn \in stored THEN l ELSE d[lsn]]

IsCommit(n) == n % FlushCycle = 0

\* A commit is flushed before and after, the end of a loop before verification.
FlushDue ==
  /\ CacheOn /\ cached # <<>>
  /\ IsCommit(count) \/ (count > 1 /\ IsCommit(count - 1)) \/ req = NoRequest

Write ==
  /\ pc = "write" /\ req # NoRequest /\ ~FlushDue
  /\ IF CacheOn THEN cached' = Append(cached, req) /\ UNCHANGED disk
                ELSE disk' = Store(disk, {req}, loop) /\ UNCHANGED cached
  /\ req' = Following(loop, req)
  /\ count' = count + 1
  /\ UNCHANGED <<loop, verified, pc>>

Elements(s) == {s[i] : i \in DOMAIN s}

Flush ==
  /\ pc = "write" /\ FlushDue
  /\ disk' = Store(disk, Elements(cached), loop)
  /\ cached' = <<>>
  /\ UNCHANGED <<loop, req, count, verified, pc>>

\* A place in the pattern, and the place behind it, over the end of the loop.
Place(l, r) == IF r = NoRequest THEN [loop |-> l + 1, req |-> Entry(l + 1, FirstRequest)]
                                ELSE [loop |-> l, req |-> r]

NextPlace(place) == Place(place.loop, Following(place.loop, place.req))

Ahead(place, n) ==
  LET walk[i \in 0 .. n] == IF i = 0 THEN place ELSE NextPlace(walk[i - 1])
  IN  walk[n]

\* Mutant: the prediction stops one request short.
Predicted_TooShort(place, n) ==
  LET flushed == ((n - 1) \div FlushCycle) * FlushCycle
      last    == (IF flushed = 0 THEN FlushCycle ELSE flushed + FlushCycle - 1) - 1
  IN  Ahead(place, IF last > n THEN last - n ELSE 0)

\* set_last_lsn_in_cached_list over the pattern: counted from the phase's first
\* request, or from its last commit that is there; n is the missing request's count.
Predicted(place, n) ==
  LET flushed == ((n - 1) \div FlushCycle) * FlushCycle
      last    == IF flushed = 0 THEN FlushCycle ELSE flushed + FlushCycle - 1
  IN  Ahead(place, IF last > n THEN last - n ELSE 0)

\* The phase ended and request number n, at that place, is the first not there.
Verified(place, n) ==
  /\ verified' = LET ahead == Predicted(place, n)
                     last  == ahead.req.lsn + ahead.req.len - 1
                 IN  [lsn |-> place.req.lsn, len |-> place.req.len, loop |-> place.loop,
                      last     |-> IF CacheOn THEN last ELSE 0,
                      lastLoop |-> IF CacheOn THEN ahead.loop ELSE place.loop]
  /\ pc' = "verified"

\* Without a cache the request in flight may be torn.
CutUncached ==
  /\ pc = "write" /\ req # NoRequest /\ ~CacheOn
  /\ \E n \in 0 .. req.len - 1 : disk' = Store(disk, {[lsn |-> req.lsn, len |-> n]}, loop)
  /\ Verified(Place(loop, req), count)
  /\ UNCHANGED <<loop, req, count, cached>>

\* The cache comes back in part, in any order.
CutCached ==
  /\ pc = "write" /\ CacheOn
  /\ \E kept \in SUBSET DOMAIN cached :
       LET gone  == DOMAIN cached \ kept
           first == CHOOSE i \in gone : \A j \in gone : i <= j
       IN  /\ disk' = Store(disk, {cached[i] : i \in kept}, loop)
           /\ IF gone = {} THEN Verified(Place(loop, req), count)
              ELSE Verified([loop |-> loop, req |-> cached[first]],
                            count - Len(cached) + first - 1)
  /\ cached' = <<>>
  /\ UNCHANGED <<loop, req, count>>

LoopWritten ==
  /\ pc = "write" /\ req = NoRequest /\ cached = <<>>
  /\ Verified(Place(loop, req), count)
  /\ UNCHANGED <<loop, req, count, cached, disk>>

\* do_extra_verification of a random zone, and the next phase when it is passed.
ExtraVerification ==
  /\ pc = "verified"
  /\ \E zone \in Zones :
       pc' = IF ExtraFails(zone, verified, disk) THEN "crash"
             ELSE IF verified.loop > MaxLoop THEN "finished" ELSE "write"
  /\ loop' = verified.loop
  /\ req' = Entry(verified.loop, [lsn |-> verified.lsn, len |-> verified.len])
  /\ count' = 1
  /\ UNCHANGED <<cached, disk, verified>>

Stopped == pc \in {"crash", "finished"} /\ UNCHANGED vars

Next ==
  /\ \/ Write \/ Flush
     \/ CutUncached \/ CutCached
     \/ LoopWritten \/ ExtraVerification \/ Stopped
  /\ UNCHANGED <<TestCase, CacheOn>>

Spec == Init /\ [][Next]_vars

-------------------------------------------------------------------------------
\* The last page the cache may have held is one of the next loop: its place in the
\* zone, or its zone, is then that of a page this loop has long written.
NextLoopPredicted == CacheOn /\ verified.lastLoop # verified.loop

\* An even loop of dpin_0005, when that page is not in the current zone.
OtherZonePredicted ==
  /\ TestCase = "dpin_0005" /\ CacheOn
  /\ ~Odd(verified.loop) /\ get_zone_num(verified.last) # current_zone_num(verified)

\* An even loop, when whole zones lie on the way to that page.
ZoneBetween ==
  CacheOn /\ ~Odd(verified.loop) /\ get_zone_num(verified.last) > current_zone_num(verified) + 1

(* The check of a random zone reports a device that only lost what it had   *)
(* not flushed, or tore the request that was being written, in just these   *)
(* cases, all with a cache.                                                 *)
NoOtherFalseAlarm == pc = "crash" => NextLoopPredicted \/ OtherZonePredicted \/ ZoneBetween

InFlight(lsn) == lsn \in PagesOf(verified)

(* Without a cache the check of a zone looks at every page of it that is in *)
(* use, but for the request to resume at: none can go bad unnoticed.        *)
ZoneIsCovered ==
  pc = "verified" /\ ~CacheOn /\ TestCase # "dpin_0008" =>
    \A zone \in Zones :
      \A lsn \in get_first_sector_in_zone(zone) .. LastTested(zone) - 1 :
        \/ InFlight(lsn)
        \/ ExtraFails(zone, verified, [disk EXCEPT ![lsn] = Broken])
===============================================================================
