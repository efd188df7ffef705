----------------------------- MODULE RandomCases -----------------------------
(***************************************************************************)
(* The test cases dpin_0000, 0001, 0003 and 0006, which draw the lengths   *)
(* of their requests, and 0003 and 0006 the gaps between them, at random:  *)
(* the pattern, and the check of a random zone, which has only the headers *)
(* on the medium to go by.  0006 does so in even loops; in odd ones it     *)
(* interleaves the zones.  0009 to 0012 draw nothing and check no zone:    *)
(* odd loops write the area from end to end, even ones erase it.           *)
(*                                                                         *)
(* A pattern's state is the request it writes now: lsn and len, its        *)
(* request_count, the numbers drawn so far, whether it is the small        *)
(* request that follows a random one (0000, 0001), and next, where the     *)
(* pattern goes on.  A length of 0 is the end of the loop.                 *)
(***************************************************************************)
EXTENDS TestArea

CONSTANTS
  FlushCycle,   \* cache_flush_cycle
  MinRequest,   \* pages in the shortest random request of 0000 and 0001
  MaxRequest,   \* and in the longest one of every case
  FirstLength,  \* request_sectors of init_pattern_1_2, a page in 0006
  Gap,          \* pages that 0001 leaves behind a small request
  ReadWindow    \* pages a check reads in one piece (8 MB)

ASSUME RequestAssumption ==
  /\ FlushCycle \in Nat \ {0}
  /\ MinRequest \in Nat /\ MaxRequest \in Nat /\ FirstLength \in Nat
  /\ 1 < MinRequest /\ MinRequest < MaxRequest
  /\ FirstLength \in MinRequest .. MaxRequest
  /\ Gap \in Nat \ {0}
  /\ ReadWindow \in Nat \ {0}

ASSUME ChunksAssumption ==
  Chunks[1] = 1 /\ \A i \in DOMAIN Chunks : Chunks[i] <= MaxRequest

RandomTestCases == {"dpin_0000", "dpin_0001", "dpin_0003", "dpin_0006", "dpin_0009_12"}

\* Cases with a random gap behind every request: its end is in the header.
Linked == {"dpin_0003", "dpin_0006"}

\* init_pattern_1_2
InitialLength ==
  CASE TestCase = "dpin_0006"    -> 1
    [] TestCase = "dpin_0009_12" -> MaxRequest
    [] OTHER                     -> FirstLength

\* random_sector_count(4), (5) and (6): a seed's numbers, repeated, taken into the range.
Draw(seed, n, least) == least + (seed[(n % Len(seed)) + 1] % (MaxRequest - least + 1))

\* The first flush cycle of a phase writes over what the last one may have left in
\* a cache: it draws nothing and writes the longest requests without gaps.
FillsCycle(count) == CacheOn /\ count <= FlushCycle

Length(seed, n, count, least) ==
  IF FillsCycle(count) THEN MaxRequest ELSE Draw(seed, n, least)

Drawn(n, count) == IF FillsCycle(count) THEN n ELSE n + 1

Request(lsn, len, next, count, n) ==
  [lsn |-> lsn, len |-> len, next |-> next, count |-> count, drawn |-> n, small |-> FALSE]

EndOfLoop(count, n) == Request(first_sector, 0, first_sector, count, n)

\* The page that 0000 and 0001 write after a random request.
SmallRequest(p, lsn) ==
  [p EXCEPT !.lsn = lsn, !.len = 1, !.count = @ + 1, !.small = TRUE]

(***************************************************************************)
(* dpin_0000: a random request in the first half of the zones, and a page  *)
(* at the same place in the second half.                                   *)
(***************************************************************************)
part1_last_lsn == get_last_sector_in_zone(total_zone_num \div 2 - 1)

skip_size == get_first_sector_in_zone(total_zone_num \div 2) - get_first_sector_in_zone(0)

InPart1(lsn) == IF lsn >= part1_last_lsn THEN lsn - skip_size ELSE lsn

RandomAt_0000(lsn, len, count, n) ==
  IF lsn >= part1_last_lsn THEN EndOfLoop(count, n)
  ELSE Request(lsn, IF lsn + len >= part1_last_lsn THEN part1_last_lsn - lsn ELSE len,
               lsn + len, count, n)

\* Mutant: the random request is resumed where the small one was.
Start_0000_Stays(lsn, len, n, seed) == RandomAt_0000(lsn, len, 1, n)

\* A phase that resumes at a small request writes the random one before it again,
\* with a length of its own.
Start_0000(lsn, len, n, seed) ==
  IF lsn >= part1_last_lsn
  THEN RandomAt_0000(InPart1(lsn), Draw(seed, n, MinRequest), 1, n + 1)
  ELSE RandomAt_0000(lsn, len, 1, n)

Following_0000(p, seed) ==
  IF ~p.small THEN SmallRequest(p, p.lsn + skip_size)
  ELSE RandomAt_0000(p.next, Length(seed, p.drawn, p.count + 1, MinRequest),
                     p.count + 1, Drawn(p.drawn, p.count + 1))

(***************************************************************************)
(* dpin_0001: a random request, a page behind it, a gap.                   *)
(***************************************************************************)
Start_0001(lsn, len, n, seed) ==
  [Request(lsn, len, 0, 1, n) EXCEPT !.small = (len = 1 /\ lsn # first_sector)]

RandomAt_0001(lsn, len, count, n) ==
  LET left == get_last_sector_in_test_area - lsn
  IN  IF len + 1 < left THEN Request(lsn, len, 0, count, n)
      ELSE IF left \in MinRequest + 1 .. MaxRequest + 1
      THEN Request(lsn, left - 1, 0, count, n)
      ELSE EndOfLoop(count, n)

Following_0001(p, seed) ==
  IF ~p.small THEN SmallRequest(p, p.lsn + p.len)
  ELSE RandomAt_0001(p.lsn + 1 + Gap, Length(seed, p.drawn, p.count + 1, MinRequest),
                     p.count + 1, Drawn(p.drawn, p.count + 1))

(***************************************************************************)
(* dpin_0003: random requests and random gaps.                             *)
(***************************************************************************)
Request_0003(lsn, len, count, n, seed) ==
  LET gap  == IF FillsCycle(count) THEN 0 ELSE Draw(seed, n, 1)
      last == get_last_sector_in_test_area
  IN  Request(lsn, IF lsn + len >= last THEN last - lsn ELSE len,
              lsn + len + gap, count, Drawn(n, count))

Start_0003(lsn, len, n, seed) == Request_0003(lsn, len, 1, n, seed)

Following_0003(p, seed) ==
  LET n == Drawn(p.drawn, p.count)
  IN  IF p.next >= get_last_sector_in_test_area THEN EndOfLoop(p.count + 1, n)
      ELSE Request_0003(p.next, Length(seed, p.drawn, p.count, 1), p.count + 1, n, seed)

(***************************************************************************)
(* dpin_0006: the chunk array's lengths, row by row, in odd loops; in even *)
(* ones random requests and random gaps as in 0003.                        *)
(***************************************************************************)
pattern2_0006(p, seed) == Following_0003(p, seed)

pattern1_0006(p) ==
  LET r == Interleaved([lsn |-> p.lsn, len |-> p.len], NextChunk(p.len))
  IN  IF r = NoRequest THEN EndOfLoop(p.count + 1, p.drawn)
      ELSE Request(r.lsn, r.len, 0, p.count + 1, p.drawn)

(***************************************************************************)
(* dpin_0009 to 0012: the longest requests, one behind the other, whatever *)
(* length the one to resume at has.                                        *)
(***************************************************************************)
pattern_write(lsn, count, n) ==
  IF lsn >= get_last_sector_in_test_area THEN EndOfLoop(count, n)
  ELSE Request(lsn, MaxRequest, 0, count, n)

Erases(loop) == TestCase = "dpin_0009_12" /\ ~Odd(loop)

\* The pattern called with a place to resume at, n numbers drawn already.
Start(loop, lsn, len, n, seed) ==
  CASE TestCase = "dpin_0000" -> Start_0000(lsn, len, n, seed)
    [] TestCase = "dpin_0001" -> Start_0001(lsn, len, n, seed)
    [] TestCase = "dpin_0003" -> Start_0003(lsn, len, n, seed)
    [] TestCase = "dpin_0006" -> IF Odd(loop) THEN Request(lsn, len, 0, 1, n)
                                              ELSE Start_0003(lsn, len, n, seed)
    [] TestCase = "dpin_0009_12" -> pattern_write(lsn, 1, n)

Following(loop, p, seed) ==
  CASE TestCase = "dpin_0000" -> Following_0000(p, seed)
    [] TestCase = "dpin_0001" -> Following_0001(p, seed)
    [] TestCase = "dpin_0003" -> Following_0003(p, seed)
    [] TestCase = "dpin_0006" -> IF Odd(loop) THEN pattern1_0006(p) ELSE pattern2_0006(p, seed)
    [] TestCase = "dpin_0009_12" -> pattern_write(p.lsn + MaxRequest, p.count + 1, p.drawn)

(***************************************************************************)
(* What is on the medium: the header of a page.  num and idx are the pages *)
(* of its request and its place among them.                                *)
(***************************************************************************)
Erased == [magic |-> "NONE", loop |-> 0, boot |-> 0, seq |-> 0,
           num |-> 0, idx |-> 0, next |-> 0]
Broken == [Erased EXCEPT !.magic = "BAD"]

\* verify_check_page: lsn and checksum, whatever the header says otherwise.
PageIsGood(page) == page.magic # "BAD"

BelongsTo(page, loop, idx) == PageIsGood(page) /\ page.loop = loop /\ page.idx = idx

\* verify_find_chunk passes over a page of a later boot than one before it, unless
\* an erased page lies between.
PassedOver(lsn, from, disk) ==
  \E before \in from .. lsn - 1 :
    /\ disk[before].boot < disk[lsn].boot
    /\ \A page \in before .. lsn - 1 : disk[page].boot # 0

\* Mutant: any page of the loop begins the walk.
BeginsChunk_AnyPage(page, loop) == page.magic \in {"PAGE", "FLUSH"} /\ page.loop = loop

BeginsChunk(page, loop) ==
  page.magic \in {"PAGE", "FLUSH"} /\ page.loop = loop /\ page.idx = 0

\* The places verify_find_chunk may return: none, or the first.
verify_find_chunk(from, to, loop, disk) ==
  LET begins == {lsn \in from .. to - 1 :
                   BeginsChunk(disk[lsn], loop) /\ ~PassedOver(lsn, from, disk)}
  IN  {lsn \in begins : \A other \in begins : lsn <= other}

PagesAreGood(from, to, disk) == \A lsn \in from .. to - 1 : PageIsGood(disk[lsn])

\* Mutant: the loop of a request's pages is looked at in the first one only.
RequestIsThere_FirstPage(lsn, to, loop, disk) ==
  /\ BelongsTo(disk[lsn], loop, 0)
  /\ \A i \in 0 .. disk[lsn].num - 1 :
       lsn + i < to => PageIsGood(disk[lsn + i]) /\ disk[lsn + i].idx = i

\* The request whose header is at lsn, as far as it lies before to.
RequestIsThere(lsn, to, loop, disk) ==
  /\ BelongsTo(disk[lsn], loop, 0)
  /\ \A i \in 0 .. disk[lsn].num - 1 :
       lsn + i < to => BelongsTo(disk[lsn + i], loop, i)

(***************************************************************************)
(* The walks from request to request, by what the headers say, up to to.   *)
(* That of 0000 looks at whole requests and does not end at one of no      *)
(* pages; that of 0003 loses its way behind a gap of 0 and then looks only *)
(* at the checksums; that of 0001 gives up near the end of what it read in *)
(* one piece, which is ReadWindow pages.                                   *)
(***************************************************************************)
verify_customizing_00(from, to, loop, disk) ==
  LET passes[lsn \in Nat] ==
        \/ lsn >= to
        \/ /\ PageIsGood(disk[lsn + skip_size]) /\ disk[lsn + skip_size].loop = loop
           /\ disk[lsn].num > 0
           /\ RequestIsThere(lsn, lsn + MaxRequest, loop, disk)
           /\ passes[lsn + disk[lsn].num]
  IN  \A lsn \in verify_find_chunk(from, to, loop, disk) : passes[lsn]

\* Where the piece that holds lsn ends, when it is read from start on.
PieceEnd(start, lsn, to) ==
  LET end == start + ((lsn - start) \div ReadWindow + 1) * ReadWindow
  IN  IF end < to THEN end ELSE to

verify_customizing_01(from, to, loop, disk) ==
  LET WalkFrom(start) ==
        LET GivesUp(lsn) ==
              /\ PageIsGood(disk[lsn]) /\ ~BelongsTo(disk[lsn], loop, 0)
              /\ PieceEnd(start, lsn, to) - lsn <= MinRequest + 1
            \* lsn is where a small request should be.
            passes[lsn \in Nat] ==
              \/ lsn >= to
              \/ LET random == lsn + 1 + Gap
                 IN  /\ PageIsGood(disk[lsn]) /\ disk[lsn].loop = loop
                     /\ PagesAreGood(lsn + 1, IF random < to THEN random ELSE to, disk)
                     /\ \/ random >= to
                        \/ GivesUp(random)
                        \/ /\ RequestIsThere(random, to, loop, disk)
                           /\ passes[random + disk[random].num]
        IN  IF disk[start].num = 1 THEN passes[start]
            ELSE RequestIsThere(start, to, loop, disk) /\ passes[start + disk[start].num]
  IN  \A lsn \in verify_find_chunk(from, to, loop, disk) : WalkFrom(lsn)

verify_customizing_03(from, to, loop, disk) ==
  LET passes[lsn \in Nat] ==
        \/ lsn >= to
        \/ LET behind == lsn + disk[lsn].num
               next   == disk[lsn].next
           IN  /\ RequestIsThere(lsn, to, loop, disk)
               /\ PagesAreGood(behind, IF behind < next /\ next < to THEN next ELSE to, disk)
               /\ behind = next \/ passes[next]
  IN  \A lsn \in verify_find_chunk(from, to, loop, disk) : passes[lsn]

\* The walk of 0003, line by line.
verify_customizing_06(from, to, loop, disk) == verify_customizing_03(from, to, loop, disk)

\* verify_check_pages_lsn_crc_loop
verify_check_pages(from, to, loop, disk) ==
  \A lsn \in from .. to - 1 : PageIsGood(disk[lsn]) /\ disk[lsn].loop = loop

(***************************************************************************)
(* Which pages of a zone are checked, and for which loop.  v is what the   *)
(* verification left: the request to resume at, its loop, and the last     *)
(* page the cache may have held.                                           *)
(***************************************************************************)
Resume(v)    == IF TestCase = "dpin_0000" THEN InPart1(v.lsn)  ELSE v.lsn
Predicted(v) == IF TestCase = "dpin_0000" THEN InPart1(v.last) ELSE v.last

Current(v) == get_zone_num(Resume(v))

PredictedIn(zone, v) == CacheOn /\ zone = get_zone_num(Predicted(v))

TestedZones ==
  IF TestCase = "dpin_0000" THEN 0 .. (total_zone_num \div 2) - 1 ELSE Zones

\* Mutant: the rest begins behind the request to resume at, cache or not.
Rest_IgnoresCache(zone, v) ==
  IF zone = Current(v) THEN Resume(v) + v.len
  ELSE IF TestCase \in Linked /\ zone = get_zone_num(v.lsn + v.len)
  THEN v.lsn + v.len
  ELSE get_first_sector_in_zone(zone)

\* Where a zone is of the loop before: behind the last page the cache may have held,
\* or the request to resume at.
Rest(zone, v) ==
  IF PredictedIn(zone, v)
  THEN Predicted(v) + (IF TestCase = "dpin_0000" THEN MaxRequest ELSE 1)
  ELSE IF zone = Current(v) THEN Resume(v) + v.len
  ELSE IF TestCase \in Linked /\ zone = get_zone_num(v.lsn + v.len)
  THEN v.lsn + v.len
  ELSE get_first_sector_in_zone(zone)

\* Odd loops of 0006.
RowChecks(zone, v) ==
  {RowHead(zone, v)} \cup IF TailUnknown(zone, v) THEN {} ELSE {RowTail(zone, v)}

SequentialChecks(zone, v) ==
  LET first  == get_first_sector_in_zone(zone)
      last   == LastTested(zone)
      now    == Expect(first, IF zone = Current(v) THEN Resume(v) ELSE last, v.loop)
      before == Expect(Rest(zone, v), last, v.loop - 1)
  IN  CASE zone < Current(v) -> {now}
        [] zone > Current(v) -> {before}
        [] zone = Current(v) -> IF CacheOn /\ ~PredictedIn(zone, v) THEN {now}
                                                                    ELSE {now, before}

Checks(zone, v) ==
  CASE TestCase = "dpin_0009_12"             -> {}
    [] TestCase = "dpin_0006" /\ Odd(v.loop) -> RowChecks(zone, v)
    [] OTHER                                 -> SequentialChecks(zone, v)

\* A loop of 0006 that interleaved the zones is looked at page by page.
PageByPage(loop) == TestCase = "dpin_0006" /\ Odd(loop)

CheckPasses(check, disk) ==
  check.from < check.to /\ check.loop > 0 =>
    CASE TestCase = "dpin_0000" ->
           verify_customizing_00(check.from, check.to, check.loop, disk)
      [] TestCase = "dpin_0001" ->
           verify_customizing_01(check.from, check.to, check.loop, disk)
      [] TestCase = "dpin_0003" ->
           verify_customizing_03(check.from, check.to, check.loop, disk)
      [] TestCase = "dpin_0006" ->
           IF PageByPage(check.loop) THEN verify_check_pages(check.from, check.to, check.loop, disk)
           ELSE verify_customizing_06(check.from, check.to, check.loop, disk)

\* extra_verification of a zone.
ExtraFails(zone, v, disk) == \E check \in Checks(zone, v) : ~CheckPasses(check, disk)
===============================================================================
