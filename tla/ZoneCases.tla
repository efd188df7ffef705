------------------------------ MODULE ZoneCases ------------------------------
(***************************************************************************)
(* The test cases dpin_0004, 0005, 0007 and 0008: which requests they      *)
(* write, odd loops interleaving the zones and even ones sequential, and   *)
(* what they check of a random zone after the verification proper.         *)
(*                                                                         *)
(* A pattern is the request that follows a request: it resumes at any, as  *)
(* the code does, because it works everything out from lsn and length.     *)
(***************************************************************************)
EXTENDS TestArea

\* The code's chunks are 1, 2, 4 .. 64 pages, 127 in all, and its zones 16384.  The
\* last chunk fills up what 0007 uses of a zone, and what 0005 leaves of one is at most a pair.
ASSUME ZoneChunksAssumption ==
  /\ Chunks \in Seq(Nat \ {0}) /\ Chunks # <<>> /\ Chunks[1] = 1
  /\ \A i, j \in DOMAIN Chunks : Chunks[i] = Chunks[j] => i = j
  /\ total_sectors_chunk_arr < ZoneSize /\ ZoneSize % total_sectors_chunk_arr <= 2
  /\ (ZoneSize - 1 - total_sectors_chunk_arr) % Chunks[Len(Chunks)] = 0
  /\ ZoneSize % 2 = 0

Cases == {"dpin_0004", "dpin_0005", "dpin_0007", "dpin_0008"}

\* init_pattern_1_2
FirstRequest == [lsn |-> first_sector, len |-> 1]

(***************************************************************************)
(* Patterns                                                                *)
(***************************************************************************)
Sequential(r, step) ==
  IF r.lsn + step < get_last_sector_in_test_area
  THEN [lsn |-> r.lsn + step, len |-> 1] ELSE NoRequest

pattern1_0004(r) == Interleaved(r, 1)
pattern2_0004(r) == Sequential(r, 1)

pattern1_0008(r) == Interleaved(r, 1)
pattern2_0008(r) == Sequential(r, 1)

\* Every row has the next length of the chunk array.
pattern1_0005(r) == Interleaved(r, NextChunk(r.len))

\* A page is written, a page is left.
pattern2_0005(r) == Sequential(r, 2)

\* Where pattern2_sequential of 0005 begins: never at an odd page.
Entry_0005(r) == [lsn |-> r.lsn + (r.lsn % 2), len |-> 1]

pattern1_0007(r) == Interleaved(r, 1)

\* The chunk array once at the head of a zone, its last length from there on.
pattern2_0007(r) ==
  LET zone   == get_zone_num(r.lsn)
      next   == r.lsn + r.len
      part_1 == get_first_sector_in_zone(zone) + total_sectors_chunk_arr
  IN  IF next < part_1
      THEN [lsn |-> next, len |-> Chunks[get_index_in_chunk_arr(r.len) + 1]]
      ELSE IF next < LastTested(zone)
      THEN [lsn |-> next, len |-> Chunks[Len(Chunks)]]
      ELSE IF zone + 1 < total_zone_num
      THEN [lsn |-> get_first_sector_in_zone(zone + 1), len |-> Chunks[1]]
      ELSE NoRequest

Following(loop, r) ==
  CASE TestCase = "dpin_0004" -> IF Odd(loop) THEN pattern1_0004(r) ELSE pattern2_0004(r)
    [] TestCase = "dpin_0005" -> IF Odd(loop) THEN pattern1_0005(r) ELSE pattern2_0005(r)
    [] TestCase = "dpin_0007" -> IF Odd(loop) THEN pattern1_0007(r) ELSE pattern2_0007(r)
    [] TestCase = "dpin_0008" -> IF Odd(loop) THEN pattern1_0008(r) ELSE pattern2_0008(r)

Entry(loop, r) ==
  IF TestCase = "dpin_0005" /\ ~Odd(loop) THEN Entry_0005(r) ELSE r

(***************************************************************************)
(* Checks.  A check is a range of pages, the loop they are expected to be  *)
(* of, and whether they were written by 0005's pattern of every other      *)
(* page.                                                                   *)
(***************************************************************************)
Sparse(range) == [range EXCEPT !.sparse = TRUE]

\* Mutant: a zone behind the current one is checked from its second page on.
Behind_FromSecond(zone, v) ==
  Expect(IF CacheOn /\ zone = get_zone_num(v.last) THEN v.last + 1
                                                   ELSE get_first_sector_in_zone(zone) + 1,
         LastTested(zone), v.loop - 1)

\* The zones behind the current one, in a sequential loop.
Behind(zone, v) ==
  Expect(IF CacheOn /\ zone = get_zone_num(v.last) THEN v.last + 1
                                                   ELSE get_first_sector_in_zone(zone),
         LastTested(zone), v.loop - 1)

RowChecks(zone, v) ==
  {RowHead(zone, v)} \cup
  (IF TailUnknown(zone, v) \/ (CacheOn /\ ~Odd(v.loop) /\ zone # get_zone_num(v.last))
   THEN {} ELSE {RowTail(zone, v)})

ZoneChecks(zone, v) ==
  IF zone < current_zone_num(v) THEN {Whole(zone, v.loop)} ELSE {Behind(zone, v)}

extra_verification_0004(zone, v) ==
  IF Odd(v.loop) \/ zone = current_zone_num(v) THEN RowChecks(zone, v) ELSE ZoneChecks(zone, v)

extra_verification_0007(zone, v) ==
  IF Odd(v.loop) \/ zone = current_zone_num(v) THEN RowChecks(zone, v) ELSE ZoneChecks(zone, v)

\* Mutant: the page left behind the request to resume at is not checked.
Rest_0005_SkipsPage(zone, v) ==
  Expect(IF CacheOn /\ zone = get_zone_num(v.last) THEN v.last + 1 ELSE v.lsn + v.len + 1,
         LastTested(zone), v.loop - 1)

\* Where 0005 expects the loop before in the current zone of an even loop.
Rest_0005(zone, v) ==
  Expect(IF CacheOn /\ zone = get_zone_num(v.last) THEN v.last + 1 ELSE v.lsn + v.len,
        LastTested(zone), v.loop - 1)

extra_verification_0005(zone, v) ==
  IF Odd(v.loop)
  THEN {RowHead(zone, v)} \cup (IF TailUnknown(zone, v) THEN {} ELSE {Sparse(RowTail(zone, v))})
  ELSE CASE zone = current_zone_num(v) ->
              {Sparse(Expect(get_first_sector_in_zone(zone), v.lsn, v.loop)), Rest_0005(zone, v)}
         [] zone < current_zone_num(v) -> {Sparse(Whole(zone, v.loop))}
         [] zone > current_zone_num(v) -> {Behind(zone, v)}

Checks(zone, v) ==
  CASE TestCase = "dpin_0004" -> extra_verification_0004(zone, v)
    [] TestCase = "dpin_0005" -> extra_verification_0005(zone, v)
    [] TestCase = "dpin_0007" -> extra_verification_0007(zone, v)
    [] TestCase = "dpin_0008" -> {}

(***************************************************************************)
(* What reading a range back says.  A page is the loop it was written in,  *)
(* 0 when erased; Broken when its header is wrong.                         *)
(***************************************************************************)
Broken == -1
Magic  == -2

\* verify_check_pages_lsn_crc_loop
PageIsOf(page, loop) == page = loop

\* Mutant: odd pages are expected to be written as well.
PageIsOf_05_EveryPage(lsn, page, loop) == page = loop

\* verify_customizing_05: odd pages are as the loop before left them.
PageIsOf_05(lsn, page, loop) ==
  IF lsn % 2 = 0 THEN page = loop
  ELSE page # Broken /\ (loop # 0 => page = loop - 1)

CheckFails(check, disk) ==
  \E lsn \in check.from .. check.to - 1 :
    ~IF check.sparse THEN PageIsOf_05(lsn, disk[lsn], check.loop)
                     ELSE PageIsOf(disk[lsn], check.loop)

\* The read disturbance test reads the pages it filled; the others their zone.
ExtraFails(zone, v, disk) ==
  IF TestCase = "dpin_0008" THEN \E lsn \in 0 .. RD_PAGES - 1 : disk[lsn] # Magic
                            ELSE \E check \in Checks(zone, v) : CheckFails(check, disk)
===============================================================================
