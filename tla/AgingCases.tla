------------------------------ MODULE AgingCases ------------------------------
(***************************************************************************)
(* The aging test cases daxx_0000 to 0004, which write the test area loop  *)
(* after loop: their patterns, and what a verification sees of them.  The  *)
(* unit is the page, and a page address is called lsn as in the code.      *)
(*                                                                         *)
(* A pattern's state is the request it is at: lsn and len, next_request_   *)
(* lsn, the request number in its header, the numbers drawn so far, and    *)
(* left, the pages the loop goes on for.  A length of 0 is its end.        *)
(***************************************************************************)
EXTENDS VerifyCore

VARIABLE TestCase  \* the function table chosen by test type and number

CONSTANTS
  AreaStart, AreaLength,  \* test_start_sector, test_sector_length
  MaxLength,              \* pages in the longest request and the longest gap
  Margin                  \* pages at the end where no random request begins (1 MB)

ASSUME AreaAssumption ==
  /\ AreaStart \in Nat /\ AreaLength \in Nat /\ AreaLength > 1
  /\ MaxLength \in Nat \ {0} /\ Margin \in MaxLength .. AreaLength - 1

AgingTestCases == {"daxx_0000", "daxx_0001", "daxx_0002", "daxx_0003"}

AreaEnd == AreaStart + AreaLength
Area    == AreaStart .. AreaEnd - 1

IS_PATTERN_ODD(loop) == loop % 2 = 1

\* The numbers of a seed, repeated.
Drawn(seed, n) == seed[(n % Len(seed)) + 1]

\* get_request_length and get_skip_length, which draw alike.
get_request_length(seed, n) == 1 + (Drawn(seed, n) % MaxLength)

Request(lsn, len, next, num, n, left) ==
  [lsn |-> lsn, len |-> len, next |-> next, num |-> num, drawn |-> n, left |-> left]

EndOfLoop == Request(AreaStart, 0, AreaStart, 0, 0, 0)

(***************************************************************************)
(* Requests and gaps one behind the other until less than two pages are    *)
(* left; nothing but write_request keeps the last of them in the area.     *)
(***************************************************************************)
Sequential(left, n, seed) ==
  IF left <= 1 THEN EndOfLoop
  ELSE LET lsn  == AreaEnd - left
           len  == get_request_length(seed, n)
           skip == get_request_length(seed, n + 1)
       IN  Request(lsn, len, lsn + len + skip, 0, n + 2, left - len - skip)

\* pattern of daxx_0000, and pattern1 of 0002: a length is drawn in advance and lost.
pattern_0000(seed)  == Sequential(AreaLength, 1, seed)
pattern1_0002(seed) == Sequential(AreaLength, 1, seed)

\* Requests anywhere in the area until half of it is written.
Random(left, num, n, seed) ==
  IF left <= 0 THEN EndOfLoop
  ELSE LET len == get_request_length(seed, n + 1)
       IN  Request(AreaStart + (Drawn(seed, n) % (AreaLength - Margin)), len, 0,
                   num, n + 2, left - len)

pattern1_0001(seed) == Random(AreaLength \div 2, 0, 0, seed)
pattern2_0002(seed) == Random(AreaLength \div 2, 0, 0, seed)
dirty_pattern(seed) == Random(AreaLength \div 2, 0, 0, seed)

\* The odd loops of 0003 and 0004 measure the performance and have no pattern.
start_measuring == EndOfLoop

\* What the cases register: the pattern of the odd loops, and that of the even ones.
initialize_daxx_0000   == <<"pattern_0000", "pattern_0000">>
initialize_daxx_0001   == <<"pattern1_0001", "pattern1_0001">>
initialize_daxx_0002   == <<"pattern1_0002", "pattern2_0002">>
initialize_daxx_0003_4 == <<"start_measuring", "dirty_pattern">>

pattern_linker ==
  CASE TestCase = "daxx_0000" -> initialize_daxx_0000
    [] TestCase = "daxx_0001" -> initialize_daxx_0001
    [] TestCase = "daxx_0002" -> initialize_daxx_0002
    [] TestCase = "daxx_0003" -> initialize_daxx_0003_4
    [] TestCase \notin AgingTestCases -> <<"none", "none">>

do_pattern(loop) == pattern_linker[IF IS_PATTERN_ODD(loop) THEN 1 ELSE 2]

Measures(loop)     == do_pattern(loop) = "start_measuring"
IsSequential(loop) == do_pattern(loop) \in {"pattern_0000", "pattern1_0002"}

FirstRequest(loop, seed) ==
  CASE do_pattern(loop) = "pattern_0000"    -> pattern_0000(seed)
    [] do_pattern(loop) = "pattern1_0001"   -> pattern1_0001(seed)
    [] do_pattern(loop) = "pattern1_0002"   -> pattern1_0002(seed)
    [] do_pattern(loop) = "pattern2_0002"   -> pattern2_0002(seed)
    [] do_pattern(loop) = "dirty_pattern"   -> dirty_pattern(seed)
    [] do_pattern(loop) = "start_measuring" -> start_measuring

Following(p, loop, seed) ==
  IF IsSequential(loop) THEN Sequential(p.left, p.drawn, seed)
                        ELSE Random(p.left, p.num + 1, p.drawn, seed)

-------------------------------------------------------------------------------
Blank(magic) == [magic |-> magic, loop |-> 0, num |-> 0, len |-> 0, idx |-> 0, next |-> 0]

\* make_header, and for the verification make_expected_header.
Header(r, len, i, loop) ==
  [magic |-> "PAGE", loop |-> loop, num |-> r.num, len |-> len, idx |-> i, next |-> r.next]

PageIsGood(page) == page.magic # "BAD"

\* write_data_pages cuts a request off at the end of the area.
Clamped(r) == IF r.lsn + r.len > AreaEnd THEN AreaEnd - r.lsn ELSE r.len

PagesWritten(r, loop) ==
  [lsn \in r.lsn .. r.lsn + Clamped(r) - 1 |-> Header(r, Clamped(r), lsn - r.lsn, loop)]

(***************************************************************************)
(* The verification reads and expects a request as it was asked for, over  *)
(* the end of the area too.  Nothing of the loop is there, but data may be *)
(* (behind), which the unconfirmed status takes for a crash: a device that *)
(* goes on, or ends with a short read, which do_read takes for a good one, *)
(* so that the buffer keeps what was read before.                          *)
(***************************************************************************)
Observe(r, loop, disk, behind) ==
  LET At(i) == r.lsn + i - 1
  IN  [ io    |-> FALSE,
        pages |-> [i \in 1 .. r.len |->
                     At(i) \in Area /\ disk[At(i)] = Header(r, r.len, i - 1, loop)],
        hit   |-> \E i \in 1 .. r.len :
                    IF At(i) \in Area THEN ~PageIsGood(disk[At(i)]) \/ disk[At(i)].loop = loop
                                      ELSE behind ]

(***************************************************************************)
(* The performance test writes its area from end to end in requests of one *)
(* size after another, in order and then shuffled; what it leaves is of    *)
(* the last size.  Nothing ever looks at the request numbers.              *)
(***************************************************************************)
start_perf_test(perfLength, loop) ==
  [lsn \in AreaStart .. AreaStart + perfLength - 1 |->
     Header([num |-> 0, next |-> 0], MaxLength, (lsn - AreaStart) % MaxLength, loop)]
===============================================================================
