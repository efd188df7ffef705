------------------------------- MODULE TestArea -------------------------------
(***************************************************************************)
(* The test area and its zones, plr_case_info.c.  The unit is the page:    *)
(* every address and length in the test cases is a multiple of the eight   *)
(* sectors of one, so that sector arithmetic is page arithmetic.  A page   *)
(* address is called lsn as in the code.                                   *)
(***************************************************************************)
EXTENDS Integers, Sequences

VARIABLES
  TestCase,  \* the function table chosen by test type and number
  CacheOn    \* b_cache_enable

CONSTANTS
  AreaStart,     \* test_start_sector
  AreaLength,    \* test_sector_length
  ZoneSize,      \* ZONE_SIZE_X_SECTOR
  Chunks,        \* set_chunk_info's array
  RD_PAGES       \* pages the read disturbance test fills from sector 0 on

\* The cases mask addresses with the size of a zone, which takes an area that
\* begins at one; nothing in the code checks what the host sends.
ASSUME AreaAssumption ==
  /\ ZoneSize \in Nat \ {0}
  /\ AreaStart \in Nat /\ AreaStart % ZoneSize = 0
  /\ AreaLength \in Nat /\ AreaLength >= 2 * ZoneSize
  /\ RD_PAGES \in 1 .. ZoneSize

\* Mutant: the area of the read disturbance test is not moved.
tune_test_area_Stays == [start |-> AreaStart, length |-> AreaLength]

\* The read disturbance test keeps the area's first zone for itself.
tune_test_area ==
  IF TestCase = "dpin_0008"
  THEN [start |-> AreaStart + ZoneSize, length |-> AreaLength - ZoneSize]
  ELSE [start |-> AreaStart, length |-> AreaLength]

first_sector   == tune_test_area.start
last_sector    == first_sector + tune_test_area.length
total_zone_num == tune_test_area.length \div ZoneSize

\* Where the chunk behind the first i begins, counted from the first one.
ChunkEnd[i \in 0 .. Len(Chunks)] == IF i = 0 THEN 0 ELSE ChunkEnd[i - 1] + Chunks[i]

total_sectors_chunk_arr == ChunkEnd[Len(Chunks)]

\* What initialize_dpin_* leaves over at the end of every zone.
reserved_sectors_in_zone ==
  CASE TestCase \in {"dpin_0005", "dpin_0006"} -> ZoneSize % total_sectors_chunk_arr
    [] TestCase = "dpin_0007"                  -> 1
    [] OTHER                                   -> 0

get_last_sector_in_test_area == last_sector - reserved_sectors_in_zone

get_zone_num(lsn) == (lsn - first_sector) \div ZoneSize

get_first_sector_in_zone(zone) == first_sector + zone * ZoneSize

get_last_sector_in_zone(zone) == get_first_sector_in_zone(zone) + ZoneSize

\* The end of the part of a zone the patterns use.
LastTested(zone) == get_last_sector_in_zone(zone) - reserved_sectors_in_zone

\* lsn & ZONE_SIZE_X_SECTOR_MASK
Masked(lsn) == lsn % ZoneSize

get_index_in_chunk_arr(sectors) == CHOOSE i \in DOMAIN Chunks : Chunks[i] = sectors

\* The length after this one, the first again after the last.
NextChunk(sectors) == Chunks[(get_index_in_chunk_arr(sectors) % Len(Chunks)) + 1]

Zones == 0 .. total_zone_num - 1

Odd(loop) == loop % 2 = 1

(***************************************************************************)
(* Interleaved loops: a row is written into each zone in turn, and the     *)
(* next row behind it.  A request is its place and its length.             *)
(***************************************************************************)
NoRequest == [lsn |-> 0, len |-> 0]

\* The same place in the next zone, or the next place in the first.
Interleaved(r, len) ==
  LET below == r.lsn + ZoneSize
      next  == first_sector + Masked(below) + r.len
  IN  IF below < get_last_sector_in_test_area THEN [lsn |-> below, len |-> r.len]
      ELSE IF next < LastTested(0) THEN [lsn |-> next, len |-> len]
      ELSE NoRequest

(***************************************************************************)
(* What is checked of a zone: a range of pages, and the loop they are      *)
(* expected to be of.  v is what the verification left: the request to     *)
(* resume at, its loop, and the last page the cache may have held.         *)
(***************************************************************************)
Expect(from, to, loop) == [from |-> from, to |-> to, loop |-> loop, sparse |-> FALSE]
Whole(zone, loop) == Expect(get_first_sector_in_zone(zone), LastTested(zone), loop)

\* The zone of the request to resume at.
current_zone_num(v) == get_zone_num(v.lsn)

\* Mutant: the row of the request to resume at is expected in its own zone too.
RowHead_Included(zone, v) ==
  Expect(get_first_sector_in_zone(zone),
         get_first_sector_in_zone(zone) + Masked(v.lsn)
           + (IF zone <= current_zone_num(v) THEN v.len ELSE 0),
         v.loop)

\* Up to the row of the request to resume at, included where this loop wrote it.
RowHead(zone, v) ==
  Expect(get_first_sector_in_zone(zone),
         get_first_sector_in_zone(zone) + Masked(v.lsn)
           + (IF zone < current_zone_num(v) THEN v.len ELSE 0),
         v.loop)

\* Mutant: the row of the request to resume at is left out in every zone.
RowTail_SkipsRow(zone, v) ==
  Expect(IF CacheOn THEN get_first_sector_in_zone(zone) + Masked(v.last) + 1
                    ELSE RowHead(zone, v).to + v.len,
         LastTested(zone), v.loop - 1)

\* Behind that row, or behind the last page the cache may have held.
RowTail(zone, v) ==
  Expect(IF CacheOn THEN get_first_sector_in_zone(zone) + Masked(v.last) + 1
                    ELSE RowHead(zone, v).to + (IF zone = current_zone_num(v) THEN v.len ELSE 0),
         LastTested(zone), v.loop - 1)

\* With a cache the tail is not checked when the prediction lies before it.  The
\* code asks loop_count % 1, so this holds for even loops too.
TailUnknown(zone, v) == CacheOn /\ Masked(v.last) < Masked(RowHead(zone, v).to)
===============================================================================
