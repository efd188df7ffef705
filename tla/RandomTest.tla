------------------------------ MODULE RandomTest ------------------------------
(***************************************************************************)
(* A power loss test of the cases of RandomCases.  Every write phase draws *)
(* its numbers from a seed of its own, which the host keeps together with  *)
(* where the phase began, so that the verification walks through the same  *)
(* requests, on into what was never written; then a zone is checked from   *)
(* what is on the medium, and the next phase goes on at the first request  *)
(* that is not there.                                                      *)
(*                                                                         *)
(* The driver reports no sector (internal_poweroff_type is 0), the storage *)
(* loses only what it did not acknowledge, and a torn request is accepted  *)
(* (test_minor 2): what is at stake is that the test accepts it.           *)
(***************************************************************************)
EXTENDS RandomCases, EraseCase, TLC

CONSTANTS
  Tests,    \* the test cases that are run, each with or without cache
  Seeds,    \* the numbers drawn, as sequences that repeat
  MaxEnds   \* bound: cuts survived and loops written when the test ends

ASSUME TestsAssumption ==
  /\ Tests \subseteq RandomTestCases \X BOOLEAN
  /\ Seeds \subseteq Seq(Nat) \ {<<>>}

VARIABLES
  boot,     \* boot_cnt
  host,     \* what the host keeps of the write phase: where it began, and its seed
  p,        \* the pattern in the write phase
  cached,   \* pages written and not flushed, a function for each request, in order
  owed,     \* history: the first request of the phase that is not on the medium
  disk,     \* page -> its header
  left,     \* what the last verification left
  pc

vars == <<TestCase, CacheOn, boot, host, p, cached, owed, disk, left, pc>>

Pages == AreaStart .. AreaStart + AreaLength - 1

\* init_pattern_1_2
Beginning(loop) == [lsn |-> first_sector, len |-> InitialLength, loop |-> loop]

Init ==
  /\ \E test \in Tests : TestCase = test[1] /\ CacheOn = test[2]
  /\ boot = 1
  /\ host = [lsn |-> first_sector, len |-> InitialLength, loop |-> 1, boot |-> 0, seed |-> <<0>>]
  /\ p = EndOfLoop(1, 0)
  /\ cached = <<>>
  /\ owed = Beginning(1)
  /\ disk = [lsn \in Pages |-> Erased]
  /\ left = [lsn |-> first_sector, len |-> InitialLength, loop |-> 1, last |-> 0,
             result |-> 0]
  /\ pc = "begin"

-------------------------------------------------------------------------------
\* write_pattern up to its first request.
BeginWriting ==
  /\ pc = "begin"
  /\ \E seed \in Seeds :
       /\ host' = [lsn |-> left.lsn, len |-> left.len, loop |-> left.loop,
                   boot |-> boot, seed |-> seed]
       /\ p' = Start(left.loop, left.lsn, left.len, 0, seed)
  /\ pc' = "write"
  /\ UNCHANGED <<boot, cached, owed, disk, left>>

IsCommit(count) == count % FlushCycle = 0

\* make_header for the writer, make_expected_header for the verification.
Header(r, i, loop, itsBoot) ==
  [magic |-> IF CacheOn /\ IsCommit(r.count) THEN "FLUSH" ELSE "PAGE",
   loop  |-> loop, boot |-> itsBoot, seq |-> r.count, num |-> r.len, idx |-> i,
   next  |-> IF TestCase \in Linked THEN r.next ELSE 0]

PagesOf(r) == r.lsn .. r.lsn + r.len - 1

\* What a request leaves of its page i.
PageOf(r, i, loop, itsBoot) == IF Erases(loop) THEN Erased ELSE Header(r, i, loop, itsBoot)

\* The pages of the request the pattern is at, as they are written.
Written == [lsn \in PagesOf(p) |-> PageOf(p, lsn - p.lsn, host.loop, boot)]

\* An erase does not wait in the cache.
InCache == CacheOn /\ ~Erases(host.loop)

InLoop == p.len > 0

\* Before and after a commit, and at the end of the loop.
FlushDue ==
  CacheOn /\ cached # <<>> /\ (IsCommit(p.count) \/ IsCommit(p.count - 1) \/ ~InLoop)

Write ==
  /\ pc = "write" /\ InLoop /\ ~FlushDue
  /\ IF InCache THEN cached' = Append(cached, Written) /\ UNCHANGED disk
                ELSE disk' = Written @@ disk /\ UNCHANGED cached
  /\ p' = Following(host.loop, p, host.seed)
  /\ UNCHANGED <<boot, host, owed, left, pc>>

\* The requests of the cache that are kept, written over the medium in order.
WrittenBack(kept) ==
  LET medium[i \in 0 .. Len(cached)] ==
        IF i = 0 THEN disk
        ELSE IF i \in kept THEN cached[i] @@ medium[i - 1] ELSE medium[i - 1]
  IN  medium[Len(cached)]

Flush ==
  /\ pc = "write" /\ FlushDue
  /\ disk' = WrittenBack(DOMAIN cached)
  /\ cached' = <<>>
  /\ UNCHANGED <<boot, host, p, owed, left, pc>>

Place(r) == [lsn |-> r.lsn, len |-> r.len, loop |-> host.loop]

\* The loop is through: the next one begins.
LoopWritten ==
  /\ pc = "write" /\ ~InLoop /\ cached = <<>>
  /\ owed' = Beginning(host.loop + 1)
  /\ pc' = "verify"
  /\ UNCHANGED <<boot, host, p, cached, disk, left>>

\* Without a cache the first pages of the request being written may arrive.
CutUncached ==
  /\ pc = "write" /\ InLoop /\ ~InCache
  /\ \E n \in 0 .. p.len - 1 :
       disk' = [lsn \in p.lsn .. p.lsn + n - 1 |-> Written[lsn]] @@ disk
  /\ owed' = Place(p)
  /\ boot' = boot + 1
  /\ pc' = "verify"
  /\ UNCHANGED <<host, p, cached, left>>

FirstPage(pages) == CHOOSE lsn \in DOMAIN pages : pages[lsn].idx = 0

\* The cache comes back in part, in any order.
CutCached ==
  /\ pc = "write" /\ CacheOn /\ (InLoop => InCache)
  /\ \E kept \in SUBSET DOMAIN cached :
       LET gone == DOMAIN cached \ kept
           pages == cached[CHOOSE i \in gone : \A j \in gone : i <= j]
       IN  /\ disk' = WrittenBack(kept)
           /\ owed' = IF gone # {}
                      THEN Place([lsn |-> FirstPage(pages), len |-> pages[FirstPage(pages)].num])
                      ELSE IF InLoop THEN Place(p) ELSE Beginning(host.loop + 1)
  /\ cached' = <<>>
  /\ boot' = boot + 1
  /\ pc' = "verify"
  /\ UNCHANGED <<host, p, left>>

-------------------------------------------------------------------------------
Config == [ cache |-> CacheOn, internal |-> FALSE, erase |-> TestCase = "dpin_0009_12",
            poffPos |-> 0, minor |-> 2, cycle |-> FlushCycle ]

\* With a cache only a flush request proves that what lies before it was written.
Proof(page, loop) ==
  \/ ~PageIsGood(page)
  \/ ~Erases(loop) /\ page.loop = loop /\ (CacheOn => page.magic = "FLUSH")

Observe(r, loop) ==
  [ io    |-> FALSE,
    pages |-> [i \in 1 .. r.len |->
                 disk[r.lsn + i - 1] = PageOf(r, i - 1, loop, host.boot)],
    hit   |-> \E lsn \in PagesOf(r) : Proof(disk[lsn], loop) ]

\* Mutant: the seed of the phase before is the one the host has.
SeedOfVerification_Stale == <<0>>

\* recv_random_seed
SeedOfVerification == host.seed

\* One request of the walk, or the step into the next loop.  v holds the engine, the
\* pattern and its loop, the request to resume at and the last page predicted.
Step(v) ==
  IF v.at.len = 0
  THEN [v EXCEPT !.loop = @ + 1, !.eng = verify_set_loop_count(@, v.loop + 1),
                 !.at = Start(v.loop + 1, first_sector, InitialLength, v.at.drawn,
                              SeedOfVerification)]
  ELSE LET o == Observe(v.at, v.loop)
           r == IF Config.erase THEN do_verify_customized(v.eng, Config, v.at.lsn, v.at.count, o)
                                ELSE do_verify(v.eng, Config, v.at.lsn, v.at.count, o)
       IN  [eng    |-> r.eng,
            loop   |-> v.loop,
            at     |-> IF r.ret = 0 THEN Following(v.loop, v.at, SeedOfVerification) ELSE v.at,
            len    |-> IF v.eng.status = "NORMAL" THEN v.at.len ELSE v.len,
            last   |-> IF r.eng.gotLast /\ ~v.eng.gotLast THEN v.at.lsn + v.at.len - 1
                                                          ELSE v.last,
            ended  |-> r.ret # 0]

\* verify_pattern's loop: ends with the window full, at the latest AreaLength + 2
\* steps after the first request that is not there.
Verification ==
  LET start == [eng |-> verify_reset(host.loop, host.boot), loop |-> host.loop,
                at |-> Start(host.loop, host.lsn, host.len, 0, SeedOfVerification),
                len |-> 0, last |-> 0, ended |-> FALSE]
      walk[n \in Nat] == IF n = 0 THEN start
                         ELSE LET v == walk[n - 1] IN IF v.ended THEN v ELSE Step(v)
  IN  walk[2 * AreaLength]

\* What a verification leaves: verify_apply_result, and the engine's own result.
Left(v) == [lsn |-> v.eng.info.lsn, len |-> v.len, loop |-> v.eng.info.loop,
            last |-> v.last, result |-> verify_get_result(v.eng)]

\* The verification, the check of a random zone, and the verdict.  What the host
\* keeps names the phase; the zone's check by checksum alone finds nothing here.
Verify ==
  /\ pc = "verify"
  /\ left' = Left(Verification)
  /\ \E zone \in TestedZones :
       pc' = IF left'.result # 0 \/ ExtraFails(zone, left', disk) THEN "crash"
             ELSE IF (boot - 1) + (left'.loop - 1) >= MaxEnds THEN "finished" ELSE "begin"
  /\ UNCHANGED <<boot, host, p, cached, owed, disk>>

Stopped == pc \in {"crash", "finished"} /\ UNCHANGED vars

Next ==
  /\ \/ BeginWriting \/ Write \/ Flush
     \/ LoopWritten \/ CutUncached \/ CutCached
     \/ Verify \/ Stopped
  /\ UNCHANGED <<TestCase, CacheOn>>

Spec == Init /\ [][Next]_vars

-------------------------------------------------------------------------------
Judged == pc \in {"begin", "crash", "finished"}

(* The verification resumes at the first request of the phase that is not   *)
(* on the medium, with its length and in its loop: the walk with the kept   *)
(* seed meets the very requests that were written.                          *)
ResumesAtFirstMissing ==
  Judged => owed = [lsn |-> left.lsn, len |-> left.len, loop |-> left.loop]

\* Everything of a loop is on the medium up to the request at to, or to its end.
LoopIsThere(loop, to) ==
  LET last == IF TestCase = "dpin_0000" THEN part1_last_lsn ELSE get_last_sector_in_test_area
      Small(lsn) == PageIsGood(disk[lsn]) /\ disk[lsn].loop = loop
      there[lsn \in Nat] ==
        \/ lsn = to
        \/ to = last /\ lsn >= last - (IF TestCase = "dpin_0001" THEN MinRequest ELSE 0)
        \/ /\ lsn < to
           /\ RequestIsThere(lsn, last, loop, disk)
           /\ LET behind == lsn + disk[lsn].num
              IN  CASE TestCase = "dpin_0000" -> Small(lsn + skip_size) /\ there[behind]
                    [] TestCase = "dpin_0001" ->
                         behind = to \/ (Small(behind) /\ there[behind + 1 + Gap])
                    [] TestCase \in Linked -> there[disk[lsn].next]
  IN  there[first_sector]

\* An erase test's loop has written, or erased, everything before to.
SequenceIsThere(loop, to) ==
  \A lsn \in first_sector .. to - 1 :
    IF Erases(loop) THEN disk[lsn] = Erased
                    ELSE BelongsTo(disk[lsn], loop, (lsn - first_sector) % MaxRequest)

\* The requests an interleaved loop wrote up to the one at to, or all of them.
Rows(loop, to) ==
  LET walk[lsn \in Nat, len \in Nat] ==
        IF len = 0 \/ lsn = to THEN {}
        ELSE LET r == Interleaved([lsn |-> lsn, len |-> len], NextChunk(len))
             IN  {[lsn |-> lsn, len |-> len]} \cup walk[r.lsn, r.len]
  IN  walk[first_sector, InitialLength]

RowsAreThere(loop, to) ==
  \A r \in Rows(loop, to) : \A i \in 0 .. r.len - 1 : BelongsTo(disk[r.lsn + i], loop, i)

\* A loop has done all its requests before the one at to, by their order.
DoneUpTo(loop, to) ==
  CASE PageByPage(loop)          -> RowsAreThere(loop, to)
    [] TestCase = "dpin_0009_12" -> SequenceIsThere(loop, to)
    [] OTHER                     -> LoopIsThere(loop, to)

EndOf(loop) ==
  CASE PageByPage(loop)       -> 0
    [] TestCase = "dpin_0000" -> part1_last_lsn
    [] OTHER                  -> get_last_sector_in_test_area

(* Over any number of cuts, a loop is written, or erased, from its first    *)
(* request to its last without a hole, whatever lengths each phase drew.    *)
NoHole ==
  pc = "begin" =>
    IF left.lsn # first_sector THEN DoneUpTo(left.loop, Resume(left))
    ELSE left.loop > host.loop => DoneUpTo(host.loop, EndOf(host.loop))

\* A phase of 0000 began at a small request and so with a length of its own.
LengthRedrawn == TestCase = "dpin_0000" /\ host.lsn >= part1_last_lsn

\* A zone between the request to resume at and the last page the cache may have
\* held, which may be a page of the next loop.
BetweenThem(zone) ==
  /\ CacheOn /\ Current(left) < zone
  /\ zone < get_zone_num(Predicted(left)) \/ Predicted(left) < Resume(left)

(* The test calls a device that kept what it acknowledged broken only where *)
(* 0000 left pages of its random request behind, or where the zone drawn    *)
(* lies between the request to resume at and the last page the cache may    *)
(* have held: the checks leave out only the zone of that page, and demand   *)
(* the loop before of those on the way to it.                               *)
NoOtherFalseAlarm ==
  pc = "crash" =>
    \/ LengthRedrawn
    \/ /\ left.result = 0
       /\ \A zone \in TestedZones : ExtraFails(zone, left, disk) => BetweenThem(zone)

Outdated(lsn) == [disk EXCEPT ![lsn].loop = @ - 1]

(* Without a cache, once the check of a zone has found a request of the     *)
(* loop, no page of that loop behind it can be of an older loop unnoticed,  *)
(* save the first of a request near the end of what 0001 reads in one piece.*)
ZoneIsCovered ==
  pc \in {"begin", "finished"} /\ ~CacheOn /\ TestCase # "dpin_0009_12" =>
    \A zone \in TestedZones :
      LET first == get_first_sector_in_zone(zone)
          last  == LastTested(zone)
      IN  zone < Current(left) =>
            \A start \in verify_find_chunk(first, last, left.loop, disk) :
              \A lsn \in start + 1 .. last - 1 :
                disk[lsn].loop = left.loop =>
                  \/ ExtraFails(zone, left, Outdated(lsn))
                  \/ /\ TestCase = "dpin_0001" /\ disk[lsn].idx = 0
                     /\ PieceEnd(start, lsn, last) - lsn <= MinRequest + 1
===============================================================================
