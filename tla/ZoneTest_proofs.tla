---------------------------- MODULE ZoneTest_proofs ----------------------------
(***************************************************************************)
(* Theorems about ZoneTest, for every test area, chunk array and flush     *)
(* cycle: what the check of a random zone demands of a device that only    *)
(* lost what it may lose, and that it looks at every page.                 *)
(***************************************************************************)
EXTENDS ZoneTest, WellFoundedInduction, TLAPS

Tested == ZoneSize - reserved_sectors_in_zone

\* The pages of the test area that are in use.
InUse(p) == p >= first_sector /\ get_zone_num(p) < total_zone_num /\ Masked(p) < Tested

Used == {p \in Nat : InUse(p)}

Requests == [lsn : Nat, len : Nat \ {0}]

\* How far into the chunk array a row lies that is one of many arrays on end, and how
\* far into the last chunk one that lies behind the array.
InArray(offset) == offset % total_sectors_chunk_arr

Last == Chunks[Len(Chunks)]

InLast(offset) == (offset - total_sectors_chunk_arr) % Last

\* A request of the chunk that begins there, and of the last one, repeated.
AtChunk(offset, len) ==
  \E j \in 1 .. Len(Chunks) : len = Chunks[j] /\ offset = ChunkEnd[j - 1]

AtRepeated(offset, len) ==
  len = Last /\ offset >= total_sectors_chunk_arr /\ InLast(offset) = 0

\* The requests a loop can ask for.
Valid(l, r) ==
  /\ r \in Requests /\ r.lsn >= first_sector
  /\ TestCase = "dpin_0005" /\ ~Odd(l) => r.len = 1 /\ r.lsn % 2 = 0
  /\ ~(TestCase = "dpin_0005" /\ ~Odd(l)) => Masked(r.lsn) < Tested
  /\ TestCase = "dpin_0005" /\ Odd(l) =>
       AtChunk(InArray(Masked(r.lsn)), r.len)
  /\ TestCase = "dpin_0007" /\ ~Odd(l) =>
       AtChunk(Masked(r.lsn), r.len) \/ AtRepeated(Masked(r.lsn), r.len)
  /\ TestCase \notin {"dpin_0005", "dpin_0007"} \/ (TestCase = "dpin_0007" /\ Odd(l)) => r.len = 1

\* A page the loop is to write before a request, and one behind it.
Before(l, r, p) ==
  IF Odd(l) THEN \/ Masked(p) < Masked(r.lsn)
                 \/ Masked(p) < Masked(r.lsn) + r.len /\ get_zone_num(p) < get_zone_num(r.lsn)
            ELSE p < r.lsn

After(l, r, p) ==
  IF Odd(l) THEN \/ Masked(p) >= Masked(r.lsn) + r.len
                 \/ Masked(p) >= Masked(r.lsn) /\ get_zone_num(p) > get_zone_num(r.lsn)
            ELSE p >= r.lsn + r.len

\* A page as the loop leaves it, and one the loop leaves out.
Done(p, page, l) ==
  IF TestCase = "dpin_0005" /\ ~Odd(l) THEN PageIsOf_05(p, page, l) ELSE page = l

Skipped(l, p) == TestCase = "dpin_0005" /\ ~Odd(l) /\ p % 2 = 1

CoveredUpTo(d, l, r)   == \A p \in Used : Before(l, r, p) => Done(p, d[p], l)
UntouchedFrom(d, l, r) == \A p \in Used : After(l, r, p) => Done(p, d[p], l - 1)
SkippedKept(d, l)      == \A p \in Used : Skipped(l, p) => Done(p, d[p], l - 1)

\* The pattern walked through from a place on, over the end of a loop.
Walks(w) == w = [n \in Nat |-> w[n]] /\ \A n \in Nat : w[n + 1] = NextPlace(w[n])

Start(v) == [loop |-> v.loop, req |-> [lsn |-> v.lsn, len |-> v.len]]

\* What the phase has not written: behind the c requests it counted, and behind the
\* first flush cycle, which an earlier phase may have written.
Horizon(c) == IF c - 1 > FlushCycle THEN c - 2 ELSE FlushCycle - 1

UntouchedBeyond(d, l, h) == h.loop = l => UntouchedFrom(d, l, h.req)

\* What is cached are the last requests of the walk, and no commit but by itself.
CachedOnWalk(w, l, c, ca) ==
  \A i \in 1 .. Len(ca) : w[c - Len(ca) + i - 2] = [loop |-> l, req |-> ca[i]]

CommitAlone(c, ca) == \A j \in c - Len(ca) .. c - 1 : IsCommit(j) => Len(ca) = 1

OnWalk(w, d, l, r, c, ca, v) ==
  /\ l = v.loop /\ Walks(w) /\ w[0] = Start(v) /\ w[c - 1] = Place(l, r)
  /\ CachedOnWalk(w, l, c, ca)
  /\ UntouchedBeyond(d, l, w[Horizon(c)])

InCache(p, ca, n) == \E j \in 1 .. n : p \in PagesOf(ca[j])

\* Up to each request that is cached, and up to the next, all is there or cached.
CacheCovers(d, l, ca) ==
  \A i \in 1 .. Len(ca) : \A p \in Used :
    Before(l, ca[i], p) => Done(p, d[p], l) \/ InCache(p, ca, i - 1)

FrontCovered(d, l, r, ca) ==
  \A p \in Used :
    r = NoRequest \/ Before(l, r, p) => Done(p, d[p], l) \/ InCache(p, ca, Len(ca))

Counted(c, ca) == c \in Nat \ {0} /\ Len(ca) <= c - 1 /\ CommitAlone(c, ca)

WritingOK(d, l, r, c, ca, v) ==
  /\ r = NoRequest \/ Valid(l, r)
  /\ FrontCovered(d, l, r, ca) /\ CacheCovers(d, l, ca) /\ SkippedKept(d, l)
  /\ Counted(c, ca)
  /\ ~CacheOn => ca = <<>> /\ (r # NoRequest => UntouchedFrom(d, l, r))
  /\ CacheOn => \E w : OnWalk(w, d, l, r, c, ca, v)

\* Behind the prediction nothing is of the loop.
PredictionRight(d, v) ==
  v.lastLoop = v.loop =>
    \E a \in Requests : /\ Valid(v.loop, a) /\ v.last = a.lsn + a.len - 1
                        /\ UntouchedFrom(d, v.loop, a)

NextPhase(w, d, v) ==
  Walks(w) /\ w[0] = Start(v) /\ UntouchedBeyond(d, v.loop, w[FlushCycle - 1])

Resume(v) == [lsn |-> v.lsn, len |-> v.len]

VerifiedOK(d, v) ==
  /\ CoveredUpTo(d, v.loop, Resume(v)) /\ SkippedKept(d, v.loop)
  /\ ~CacheOn => UntouchedFrom(d, v.loop, Resume(v))
  /\ CacheOn => PredictionRight(d, v) /\ (\E w : NextPhase(w, d, v))

TypeOK ==
  /\ TestCase \in Cases /\ CacheOn \in BOOLEAN
  /\ loop \in Nat \ {0}
  /\ cached \in Seq(Requests)
  /\ \A i \in 1 .. Len(cached) : Valid(loop, cached[i])
  /\ disk \in [Pages -> Int]
  /\ verified \in [lsn : Nat, len : Nat \ {0}, loop : Nat \ {0}, last : Int, lastLoop : Nat]
  /\ Valid(verified.loop, Resume(verified))
  /\ pc \in {"write", "verified", "crash", "finished"}
  /\ pc # "write" => cached = <<>>

MagicKept == TestCase = "dpin_0008" => \A p \in 0 .. RD_PAGES - 1 : disk[p] = Magic

ZInv ==
  /\ TypeOK /\ MagicKept
  /\ pc = "write" => WritingOK(disk, loop, req, count, cached, verified)
  /\ pc = "verified" => VerifiedOK(disk, verified)
  /\ NoOtherFalseAlarm

-------------------------------------------------------------------------------
(* A non-empty set of numbers has a least one.                              *)
LEMMA LeastOf ==
  ASSUME NEW T, T \subseteq Nat, T # {}
  PROVE  \E x \in T : \A y \in T : x <= y
<1>1. \E x \in T : \A y \in T : ~ (<<y, x>> \in OpToRel(<, Nat))
  BY NatLessThanWellFounded, WFMin, Zenon
<1>2. \A x, y \in Nat : y < x => <<y, x>> \in OpToRel(<, Nat)
  BY DEF OpToRel
<1>3. \E x \in T : \A y \in T : ~(y < x)
  BY <1>1, <1>2, Zenon
<1> QED BY <1>3

(* Division with remainder, of which there is one.                          *)
LEMMA SmallMultiple ==
  ASSUME NEW k \in Int, NEW c \in Nat \ {0}, NEW a \in 0 .. c - 1, NEW b \in 0 .. c - 1,
         k * c = a - b
  PROVE  k = 0
<1>1. CASE k >= 1
  <2>1. k * c >= 1 * c
    BY <1>1
  <2> QED BY <2>1
<1>2. CASE k <= -1
  <2>1. k * c <= (-1) * c
    BY <1>2
  <2> QED BY <2>1
<1> QED BY <1>1, <1>2

\* Multiples of the zone size lie in the order of their factors.
LEMMA MultiplesInOrder ==
  ASSUME NEW a \in Int, NEW b \in Int, NEW c \in Nat, a <= b
  PROVE  a * c <= b * c
<1>1. PICK k \in Nat : b = a + k
  <2>1. b - a \in Nat /\ b = a + (b - a)
    OBVIOUS
  <2> QED BY <2>1
<1>2. k * c \in Nat
  OBVIOUS
<1>3. b * c = (a * c) + (k * c)
  BY <1>1
<1>4. a * c \in Int
  OBVIOUS
<1> QED BY <1>2, <1>3, <1>4

\* Quotient and remainder, by what they do.
LEMMA DivMod ==
  ASSUME NEW x \in Int, NEW c \in Nat \ {0}
  PROVE  x \div c \in Int /\ x = ((x \div c) * c) + (x % c) /\ x % c \in 0 .. c - 1
OBVIOUS

\* Quotient and remainder are the only ones of their kind.
LEMMA OneDivision ==
  ASSUME NEW q \in Int, NEW c \in Nat \ {0}, NEW r \in 0 .. c - 1, NEW x \in Int,
         x = (q * c) + r
  PROVE  x \div c = q /\ x % c = r
<1>1. PICK d \in Int, m \in 0 .. c - 1 : x = (d * c) + m /\ d = x \div c /\ m = x % c
  BY DivMod
<1>2. (d - q) * c = r - m
  BY <1>1
<1>3. d - q = 0
  <2>1. PICK k \in Int : k = d - q
    OBVIOUS
  <2>2. k * c = r - m
    BY <1>2, <2>1
  <2> QED BY <2>1, <2>2, SmallMultiple
<1> QED BY <1>1, <1>3

(* A multiple of the zone size more or less leaves the masked address.      *)
LEMMA MaskedSum == \A x, y \in Int : Masked(y) = 0 => Masked(x + y) = Masked(x)
<1> SUFFICES ASSUME NEW x \in Int, NEW y \in Int, Masked(y) = 0
             PROVE  Masked(x + y) = Masked(x)
  OBVIOUS
<1>1. PICK c \in Nat \ {0} : c = ZoneSize
  BY AreaAssumption
<1>2. PICK d \in Int : y = d * c
  <2>1. y = ((y \div c) * c) + (y % c) /\ y \div c \in Int
    BY DivMod
  <2>2. y % c = 0
    BY <1>1 DEF Masked
  <2> QED BY <2>1, <2>2
<1>3. PICK e \in Int, m \in 0 .. c - 1 : x = (e * c) + m /\ m = x % c
  BY DivMod
<1>4. PICK q \in Int : q = d + e
  OBVIOUS
<1>5. q * c = (d * c) + (e * c)
  BY <1>4
<1>6. e * c \in Int /\ d * c \in Int /\ x = (e * c) + m
  BY <1>3
<1>7. PICK s \in Int : s = x + y
  OBVIOUS
<1>8. s = (q * c) + m
  BY <1>2, <1>5, <1>6, <1>7
<1>9. s % c = m
  BY ONLY <1>8, q \in Int, c \in Nat \ {0}, m \in 0 .. c - 1, s \in Int, OneDivision
<1> QED BY <1>1, <1>3, <1>7, <1>9 DEF Masked

(* Further on in the same interval of length c, and at the end of it.       *)
LEMMA FurtherOn ==
  ASSUME NEW x \in Int, NEW c \in Nat \ {0}, NEW k \in Nat, (x % c) + k <= c
  PROVE  (x + k) % c = IF (x % c) + k = c THEN 0 ELSE (x % c) + k
<1>1. PICK d \in Int, m \in 0 .. c - 1 : x = (d * c) + m /\ m = x % c
  BY DivMod
<1>2. CASE m + k = c
  <2>1. PICK q \in Int : q = d + 1
    OBVIOUS
  <2>2. x + k = (q * c) + 0 /\ x + k \in Int /\ 0 \in 0 .. c - 1
    BY <1>1, <1>2, <2>1
  <2>3. (x + k) % c = 0
    BY <2>2, OneDivision
  <2> QED BY <1>1, <1>2, <2>3
<1>3. CASE m + k # c
  <2>1. PICK n \in 0 .. c - 1 : n = m + k
    BY <1>1, <1>3
  <2>2. x + k = (d * c) + n /\ x + k \in Int
    BY <1>1, <2>1
  <2>3. (x + k) % c = n
    BY <2>2, OneDivision
  <2> QED BY <1>1, <1>3, <2>1, <2>3
<1> QED BY <1>2, <1>3

(* What begins before a multiple of c and does not pass the end of its      *)
(* interval of length c does not pass that multiple.                        *)
LEMMA WithinMultiple ==
  ASSUME NEW x \in Int, NEW y \in Int, NEW c \in Nat \ {0}, NEW k \in Nat,
         y % c = 0, x < y, (x % c) + k <= c
  PROVE  x + k <= y
<1>1. PICK d \in Int, m \in 0 .. c - 1 : x = (d * c) + m /\ m = x % c
  BY DivMod
<1>2. PICK e \in Int : y = e * c
  <2>1. y \div c \in Int /\ y = (y \div c) * c
    BY DivMod
  <2> QED BY <2>1, Zenon
<1>3. d < e
  <2>1. SUFFICES ASSUME d >= e PROVE FALSE
    OBVIOUS
  <2>2. e * c <= d * c
    BY <2>1, MultiplesInOrder
  <2> QED BY <1>1, <1>2, <2>2
<1>4. (d + 1) * c <= e * c
  <2>1. PICK q \in Int : q = d + 1
    OBVIOUS
  <2>2. q * c <= e * c
    BY <1>3, <2>1, MultiplesInOrder
  <2> QED BY <2>1, <2>2
<1> QED BY <1>1, <1>2, <1>4

-------------------------------------------------------------------------------
(* The recursive function of where a chunk begins is one: there is a        *)
(* function on 0 .. n that obeys its equation, for every n.                 *)
LEMMA ChunkEndDefined ==
  ChunkEnd = [i \in 0 .. Len(Chunks) |-> IF i = 0 THEN 0 ELSE ChunkEnd[i - 1] + Chunks[i]]
<1> DEFINE Obeys(f, n) == f = [i \in 0 .. n |-> IF i = 0 THEN 0 ELSE f[i - 1] + Chunks[i]]
           Bad == {n \in Nat : ~ \E f : Obeys(f, n)}
<1>1. \A n \in Nat : \E f : Obeys(f, n)
  <2>1. SUFFICES ASSUME Bad # {} PROVE FALSE
    OBVIOUS
  <2>2. PICK n \in Bad : \A m \in Bad : n <= m
    <3>1. Bad \subseteq Nat
      OBVIOUS
    <3> QED BY <2>1, <3>1, LeastOf
  <2>3. CASE n = 0
    <3> DEFINE f == [i \in 0 .. 0 |-> 0]
    <3>1. f = [i \in 0 .. 0 |-> IF i = 0 THEN 0 ELSE f[i - 1] + Chunks[i]]
      OBVIOUS
    <3>2. \E h : Obeys(h, n)
      BY <2>3, <3>1, Zenon
    <3> QED BY <2>2, <3>2
  <2>4. CASE n # 0
    <3>1. n - 1 \in Nat /\ n - 1 \notin Bad
      BY <2>2, <2>4
    <3>2. PICK f : Obeys(f, n - 1)
      BY <3>1
    <3> DEFINE g == [i \in 0 .. n |-> IF i = n THEN f[n - 1] + Chunks[n] ELSE f[i]]
    <3>3. \A i \in 0 .. n : g[i] = IF i = 0 THEN 0 ELSE g[i - 1] + Chunks[i]
      <4> SUFFICES ASSUME NEW i \in 0 .. n
                   PROVE  g[i] = IF i = 0 THEN 0 ELSE g[i - 1] + Chunks[i]
        OBVIOUS
      <4>1. CASE i = n
        <5>1. n - 1 \in 0 .. n /\ n - 1 # n
          BY <2>2, <2>4
        <5>2. g[n - 1] = f[n - 1]
          BY <5>1
        <5> QED BY <2>4, <4>1, <5>2
      <4>2. CASE i # n
        <5>1. i \in 0 .. n - 1
          BY <4>2
        <5>2. g[i] = f[i]
          BY <4>2
        <5>3. f[i] = IF i = 0 THEN 0 ELSE f[i - 1] + Chunks[i]
          BY <3>2, <5>1
        <5>4. i # 0 => g[i - 1] = f[i - 1]
          BY <5>1
        <5> QED BY <5>2, <5>3, <5>4
      <4> QED BY <4>1, <4>2
    <3>4. g = [i \in 0 .. n |-> IF i = 0 THEN 0 ELSE g[i - 1] + Chunks[i]]
      <4>1. g = [i \in 0 .. n |-> g[i]]
        OBVIOUS
      <4> HIDE DEF g
      <4> QED BY <3>3, <4>1
    <3>5. \E h : Obeys(h, n)
      <4> HIDE DEF g
      <4> QED BY <3>4, Zenon
    <3> QED BY <2>2, <3>5
  <2> QED BY <2>3, <2>4
<1>2. Len(Chunks) \in Nat
  BY ZoneChunksAssumption
<1>3. \E f : Obeys(f, Len(Chunks))
  BY <1>1, <1>2
<1> QED BY <1>3, Zenon DEF ChunkEnd

(* Each chunk begins where the one before it ends.                          *)
LEMMA ChunkFacts ==
  /\ Len(Chunks) \in Nat \ {0} /\ DOMAIN Chunks = 1 .. Len(Chunks)
  /\ \A i \in 1 .. Len(Chunks) : Chunks[i] \in Nat \ {0}
  /\ ChunkEnd[0] = 0
  /\ \A i \in 1 .. Len(Chunks) : ChunkEnd[i] = ChunkEnd[i - 1] + Chunks[i]
<1>1. /\ Len(Chunks) \in Nat \ {0} /\ DOMAIN Chunks = 1 .. Len(Chunks)
      /\ \A i \in 1 .. Len(Chunks) : Chunks[i] \in Nat \ {0}
  BY ZoneChunksAssumption
<1>2. \A i \in 0 .. Len(Chunks) :
        ChunkEnd[i] = IF i = 0 THEN 0 ELSE ChunkEnd[i - 1] + Chunks[i]
  BY ChunkEndDefined
<1>3. 0 \in 0 .. Len(Chunks)
  BY <1>1
<1> QED BY <1>1, <1>2, <1>3

(* A chunk begins before the end of the array, and its end is the end only  *)
(* of the last one.                                                         *)
LEMMA ChunksInOrder ==
  /\ \A i \in 0 .. Len(Chunks) : ChunkEnd[i] \in Nat
  /\ \A i \in 0 .. Len(Chunks) - 1 : ChunkEnd[i] < total_sectors_chunk_arr
<1>1. \A i \in 0 .. Len(Chunks) : ChunkEnd[i] \in Nat
  <2> DEFINE Bad == {i \in 0 .. Len(Chunks) : ChunkEnd[i] \notin Nat}
  <2>1. SUFFICES ASSUME Bad # {} PROVE FALSE
    OBVIOUS
  <2>2. PICK n \in Bad : \A m \in Bad : n <= m
    <3>1. Bad \subseteq Nat
      BY ChunkFacts
    <3> QED BY <2>1, <3>1, LeastOf
  <2>3. n # 0 /\ n \in 1 .. Len(Chunks)
    BY <2>2, ChunkFacts
  <2>4. n - 1 \notin Bad /\ n - 1 \in 0 .. Len(Chunks)
    BY <2>2, <2>3, ChunkFacts
  <2>5. ChunkEnd[n] = ChunkEnd[n - 1] + Chunks[n] /\ Chunks[n] \in Nat
    BY <2>3, ChunkFacts
  <2> QED BY <2>2, <2>4, <2>5
<1>2. PICK n \in Nat \ {0} : n = Len(Chunks)
  BY ChunkFacts
<1>3. total_sectors_chunk_arr = ChunkEnd[n] /\ total_sectors_chunk_arr \in Nat
  BY <1>1, <1>2 DEF total_sectors_chunk_arr
<1>4. ASSUME NEW i \in 0 .. n - 1,
             i + 1 = n \/ ChunkEnd[i + 1] < total_sectors_chunk_arr
      PROVE  ChunkEnd[i] < total_sectors_chunk_arr
  <2>1. PICK j \in 1 .. n : j = i + 1
    OBVIOUS
  <2>2. ChunkEnd[j] = ChunkEnd[j - 1] + Chunks[j] /\ Chunks[j] \in Nat \ {0} /\ j - 1 = i
    BY <1>2, <2>1, ChunkFacts
  <2>3. ChunkEnd[j] \in Nat /\ ChunkEnd[i] \in Nat
    BY <1>1, <1>2
  <2>4. j = n \/ ChunkEnd[j] < total_sectors_chunk_arr
    BY <1>4, <2>1
  <2> QED BY <1>3, <2>2, <2>3, <2>4
<1>5. \A i \in 0 .. n - 1 : ChunkEnd[i] < total_sectors_chunk_arr
  <2> DEFINE Bad == {k \in 0 .. n - 1 : ~(ChunkEnd[n - 1 - k] < total_sectors_chunk_arr)}
  <2>1. \A k \in Nat : k \in Bad => k - 1 \in Bad
    <3> SUFFICES ASSUME NEW k \in Bad, k - 1 \notin Bad PROVE FALSE
      OBVIOUS
    <3>1. PICK i \in 0 .. n - 1 : i = n - 1 - k
      OBVIOUS
    <3>2. k \in 0 .. n - 1 /\ ~(ChunkEnd[i] < total_sectors_chunk_arr)
      BY <3>1
    <3>3. CASE k = 0
      BY <1>4, <3>1, <3>2, <3>3
    <3>4. CASE k # 0
      <4>1. k - 1 \in 0 .. n - 1 /\ n - 1 - (k - 1) = i + 1
        BY <3>1, <3>2, <3>4
      <4>2. ChunkEnd[i + 1] < total_sectors_chunk_arr
        BY <4>1
      <4> QED BY <1>4, <3>2, <4>2
    <3> QED BY <3>3, <3>4
  <2>2. Bad = {}
    <3>1. SUFFICES ASSUME Bad # {} PROVE FALSE
      OBVIOUS
    <3>2. Bad \subseteq Nat
      OBVIOUS
    <3> HIDE DEF Bad
    <3>3. PICK k \in Bad : \A m \in Bad : k <= m
      BY <3>1, <3>2, LeastOf
    <3>4. k \in Nat /\ k - 1 \in Bad
      BY <2>1, <3>2, <3>3
    <3> QED BY <3>3, <3>4
  <2>3. SUFFICES ASSUME NEW i \in 0 .. n - 1 PROVE ChunkEnd[i] < total_sectors_chunk_arr
    OBVIOUS
  <2>4. n - 1 - i \in 0 .. n - 1 /\ n - 1 - (n - 1 - i) = i
    OBVIOUS
  <2> QED BY <2>2, <2>4
<1> QED BY <1>1, <1>2, <1>5

\* The chunks up to one do not reach beyond the end of the array.
LEMMA ChunkUpToEnd ==
  \A j \in 1 .. Len(Chunks) :
    /\ ChunkEnd[j - 1] \in Nat /\ Chunks[j] \in Nat \ {0}
    /\ ChunkEnd[j - 1] + Chunks[j] = ChunkEnd[j] /\ ChunkEnd[j] <= total_sectors_chunk_arr
    /\ ChunkEnd[j] = total_sectors_chunk_arr <=> j = Len(Chunks)
<1> SUFFICES ASSUME NEW j \in 1 .. Len(Chunks)
             PROVE  /\ ChunkEnd[j - 1] \in Nat /\ Chunks[j] \in Nat \ {0}
                    /\ ChunkEnd[j - 1] + Chunks[j] = ChunkEnd[j]
                    /\ ChunkEnd[j] <= total_sectors_chunk_arr
                    /\ ChunkEnd[j] = total_sectors_chunk_arr <=> j = Len(Chunks)
  OBVIOUS
<1>1. j - 1 \in 0 .. Len(Chunks) /\ j \in 0 .. Len(Chunks)
  BY ChunkFacts
<1>2. ChunkEnd[j - 1] \in Nat /\ ChunkEnd[j] \in Nat
  BY <1>1, ChunksInOrder
<1>3. total_sectors_chunk_arr = ChunkEnd[Len(Chunks)]
  BY DEF total_sectors_chunk_arr
<1>4. /\ ChunkEnd[j] <= total_sectors_chunk_arr
      /\ ChunkEnd[j] = total_sectors_chunk_arr <=> j = Len(Chunks)
  <2>1. CASE j = Len(Chunks)
    BY <1>2, <1>3, <2>1
  <2>2. CASE j # Len(Chunks)
    <3>1. PICK n \in Nat \ {0} : n = Len(Chunks)
      BY ChunkFacts
    <3>2. j \in 0 .. n - 1
      BY <2>2, <3>1
    <3>3. ChunkEnd[j] < total_sectors_chunk_arr
      BY <3>1, <3>2, ChunksInOrder
    <3>4. total_sectors_chunk_arr \in Nat
      <4>1. n \in 0 .. n
        OBVIOUS
      <4> QED BY <1>3, <3>1, <4>1, ChunksInOrder
    <3> QED BY <1>2, <2>2, <3>3, <3>4
  <2> QED BY <2>1, <2>2
<1> QED BY <1>2, <1>4, ChunkFacts

(* The chunk array is shorter than a zone, and a chunk is found by its      *)
(* length.                                                                  *)
LEMMA ChunkArray ==
  /\ total_sectors_chunk_arr \in Nat \ {0} /\ total_sectors_chunk_arr < ZoneSize
  /\ ZoneSize \in Nat \ {0} /\ Chunks[1] = 1
  /\ \A i \in 1 .. Len(Chunks) : get_index_in_chunk_arr(Chunks[i]) = i
<1>1. 0 \in 0 .. Len(Chunks) - 1 /\ Len(Chunks) \in 0 .. Len(Chunks)
  BY ChunkFacts
<1>2. total_sectors_chunk_arr \in Nat /\ ChunkEnd[0] < total_sectors_chunk_arr
  BY <1>1, ChunksInOrder DEF total_sectors_chunk_arr
<1>3. ASSUME NEW i \in 1 .. Len(Chunks) PROVE get_index_in_chunk_arr(Chunks[i]) = i
  <2>1. \A j \in DOMAIN Chunks : Chunks[j] = Chunks[i] => j = i
    BY ZoneChunksAssumption, ChunkFacts
  <2>2. i \in DOMAIN Chunks
    BY ChunkFacts
  <2> QED BY <2>1, <2>2, Zenon DEF get_index_in_chunk_arr
<1> QED BY <1>2, <1>3, ChunkFacts, AreaAssumption, ZoneChunksAssumption

-------------------------------------------------------------------------------
(* The area of a test, and what its case uses of each zone.                 *)
LEMMA Area ==
  ASSUME TestCase \in Cases
  PROVE  /\ ZoneSize \in Nat \ {0} /\ Tested \in 1 .. ZoneSize
         /\ reserved_sectors_in_zone = ZoneSize - Tested /\ reserved_sectors_in_zone \in Nat
         /\ first_sector \in Nat /\ first_sector % ZoneSize = 0 /\ last_sector \in Nat
         /\ last_sector = AreaStart + AreaLength
         /\ total_zone_num \in Nat \ {0}
         /\ first_sector + (total_zone_num * ZoneSize) <= last_sector
         /\ TestCase = "dpin_0008" => RD_PAGES <= first_sector
<1>1. /\ ZoneSize \in Nat \ {0} /\ AreaStart \in Nat /\ AreaStart % ZoneSize = 0
      /\ AreaLength \in Nat /\ AreaLength >= 2 * ZoneSize /\ RD_PAGES \in 1 .. ZoneSize
  BY AreaAssumption
<1>2. PICK start \in Nat : start = first_sector
  BY <1>1 DEF first_sector, tune_test_area
<1>3. PICK length \in Nat : length = tune_test_area.length
  <2>1. AreaLength - ZoneSize \in Nat
    BY <1>1
  <2> QED BY <1>1, <2>1 DEF tune_test_area
<1>4. start % ZoneSize = 0
  <2>1. CASE TestCase = "dpin_0008"
    <3>1. start = ZoneSize + AreaStart
      BY <1>1, <1>2, <2>1 DEF first_sector, tune_test_area
    <3>2. ZoneSize = (1 * ZoneSize) + 0 /\ 0 \in 0 .. ZoneSize - 1
      BY <1>1
    <3>3. Masked(ZoneSize) = 0
      BY <1>1, <3>2, OneDivision DEF Masked
    <3>4. Masked(AreaStart) = 0 /\ AreaStart \in Int /\ ZoneSize \in Int
      BY <1>1 DEF Masked
    <3>5. Masked(start) = 0
      BY <3>1, <3>3, <3>4, MaskedSum
    <3> QED BY <3>5 DEF Masked
  <2>2. CASE TestCase # "dpin_0008"
    BY <1>1, <1>2, <2>2 DEF first_sector, tune_test_area
  <2> QED BY <2>1, <2>2
<1>5. last_sector = start + length /\ start + length = AreaStart + AreaLength
  BY <1>1, <1>2, <1>3 DEF last_sector, first_sector, tune_test_area
<1>6. length >= ZoneSize
  BY <1>1, <1>3 DEF tune_test_area
<1>7. PICK zones \in Int, rest \in 0 .. ZoneSize - 1 :
        length = (zones * ZoneSize) + rest /\ zones = total_zone_num
  <2>1. PICK zones \in Int, rest \in 0 .. ZoneSize - 1 :
          length = (zones * ZoneSize) + rest /\ zones = length \div ZoneSize
    BY <1>1, DivMod
  <2>2. zones = total_zone_num
    BY <1>3, <2>1 DEF total_zone_num
  <2> QED BY <2>1, <2>2
<1>8. zones >= 1
  <2>1. SUFFICES ASSUME zones <= 0 PROVE FALSE
    OBVIOUS
  <2>2. zones * ZoneSize <= 0 * ZoneSize
    BY <1>1, <2>1, MultiplesInOrder
  <2>3. zones * ZoneSize \in Int /\ 0 * ZoneSize = 0
    BY <1>1
  <2> QED BY <1>1, <1>6, <1>7, <2>2, <2>3
<1>9. zones * ZoneSize \in Int /\ zones * ZoneSize <= length
  BY <1>1, <1>7
<1>10. reserved_sectors_in_zone \in 0 .. ZoneSize - 1
  <2>1. CASE TestCase = "dpin_0005"
    <3>1. ZoneSize % total_sectors_chunk_arr \in 0 .. total_sectors_chunk_arr - 1
      BY ChunkArray, DivMod
    <3>2. reserved_sectors_in_zone = ZoneSize % total_sectors_chunk_arr
      BY <2>1 DEF reserved_sectors_in_zone
    <3> QED BY <3>1, <3>2, ChunkArray
  <2>2. CASE TestCase = "dpin_0007"
    <3>1. reserved_sectors_in_zone = 1
      BY <2>2 DEF reserved_sectors_in_zone
    <3>2. ZoneSize > 1
      BY ChunkArray
    <3> QED BY <1>1, <3>1, <3>2
  <2>3. CASE TestCase \in {"dpin_0004", "dpin_0008"}
    <3>1. reserved_sectors_in_zone = 0
      BY <2>3 DEF reserved_sectors_in_zone
    <3> QED BY <1>1, <3>1
  <2> QED BY <2>1, <2>2, <2>3 DEF Cases
<1>11. Tested \in 1 .. ZoneSize /\ reserved_sectors_in_zone = ZoneSize - Tested
  BY <1>1, <1>10 DEF Tested
<1>12. TestCase = "dpin_0008" => RD_PAGES <= first_sector
  BY <1>1 DEF first_sector, tune_test_area
<1>13. first_sector + (total_zone_num * ZoneSize) <= last_sector
  BY <1>2, <1>5, <1>7, <1>9
<1> QED BY <1>1, <1>2, <1>4, <1>5, <1>7, <1>8, <1>10, <1>11, <1>12, <1>13

(* Zones follow each other.                                                 *)
LEMMA ZonesInOrder ==
  ASSUME TestCase \in Cases
  PROVE  /\ get_first_sector_in_zone(0) = first_sector
         /\ \A z \in Nat : /\ get_first_sector_in_zone(z) \in Nat
                           /\ get_first_sector_in_zone(z) >= first_sector
                           /\ get_first_sector_in_zone(z + 1)
                                = get_first_sector_in_zone(z) + ZoneSize
                           /\ LastTested(z) = get_first_sector_in_zone(z) + Tested
         /\ \A z, y \in Nat :
              z < y => get_first_sector_in_zone(z) + ZoneSize <= get_first_sector_in_zone(y)
         /\ get_first_sector_in_zone(total_zone_num) <= last_sector
<1>1. ZoneSize \in Nat /\ first_sector \in Nat /\ reserved_sectors_in_zone = ZoneSize - Tested
      /\ Tested \in Nat
  BY Area
<1>2. ASSUME NEW z \in Nat
      PROVE  /\ get_first_sector_in_zone(z) \in Nat
             /\ get_first_sector_in_zone(z) >= first_sector
             /\ get_first_sector_in_zone(z + 1) = get_first_sector_in_zone(z) + ZoneSize
             /\ LastTested(z) = get_first_sector_in_zone(z) + Tested
  <2>1. z * ZoneSize \in Nat /\ (z + 1) * ZoneSize = (z * ZoneSize) + ZoneSize
    BY <1>1
  <2> QED BY <1>1, <2>1 DEF get_first_sector_in_zone, LastTested, get_last_sector_in_zone
<1>3. ASSUME NEW z \in Nat, NEW y \in Nat, z < y
      PROVE  get_first_sector_in_zone(z) + ZoneSize <= get_first_sector_in_zone(y)
  <2>1. PICK n \in Int : n = z + 1 /\ n <= y
    BY <1>3
  <2>2. n * ZoneSize <= y * ZoneSize
    BY <1>1, <2>1, MultiplesInOrder
  <2>3. get_first_sector_in_zone(n) = get_first_sector_in_zone(z) + ZoneSize
    BY <1>2, <2>1
  <2>4. n * ZoneSize \in Int /\ y * ZoneSize \in Int
    BY <1>1
  <2> QED BY <1>1, <2>2, <2>3, <2>4 DEF get_first_sector_in_zone
<1>4. get_first_sector_in_zone(total_zone_num) <= last_sector
  BY Area DEF get_first_sector_in_zone
<1>5. get_first_sector_in_zone(0) = first_sector
  BY <1>1 DEF get_first_sector_in_zone
<1> QED BY <1>2, <1>3, <1>4, <1>5

(* A page is where its zone begins and as far into it as its masked number  *)
(* says, and these are the only ones that add up to it.                     *)
LEMMA PageAt ==
  ASSUME TestCase \in Cases, NEW p \in Nat, p >= first_sector
  PROVE  /\ get_zone_num(p) \in Nat /\ Masked(p) \in 0 .. ZoneSize - 1
         /\ p = get_first_sector_in_zone(get_zone_num(p)) + Masked(p)
<1>1. ZoneSize \in Nat \ {0} /\ first_sector \in Nat /\ first_sector % ZoneSize = 0
  BY Area
<1>2. PICK x \in Nat : x = p - first_sector
  BY <1>1
<1>3. PICK q \in Int, m \in 0 .. ZoneSize - 1 :
        x = (q * ZoneSize) + m /\ q = x \div ZoneSize /\ m = x % ZoneSize
  BY <1>1, DivMod
<1>4. q >= 0
  <2>1. SUFFICES ASSUME q <= -1 PROVE FALSE
    OBVIOUS
  <2>2. q * ZoneSize <= (-1) * ZoneSize
    BY <1>1, <2>1, MultiplesInOrder
  <2>3. q * ZoneSize \in Int /\ (-1) * ZoneSize = -ZoneSize
    BY <1>1
  <2> QED BY <1>1, <1>3, <2>2, <2>3
<1>5. p = x + first_sector
  BY <1>1, <1>2
<1>6. p % ZoneSize = x % ZoneSize
  <2>1. Masked(first_sector) = 0 /\ first_sector \in Int /\ x \in Int
    BY <1>1 DEF Masked
  <2>2. Masked(p) = Masked(x)
    BY <1>5, <2>1, MaskedSum
  <2> QED BY <2>2 DEF Masked
<1>7. get_zone_num(p) = q /\ Masked(p) = m
  BY <1>2, <1>3, <1>6 DEF get_zone_num, Masked
<1>8. p = (first_sector + (q * ZoneSize)) + m
  <2>1. q * ZoneSize \in Int /\ x = (q * ZoneSize) + m
    BY <1>1, <1>3
  <2> QED BY <1>1, <1>5, <2>1
<1> QED BY <1>4, <1>7, <1>8 DEF get_first_sector_in_zone

\* The zone of a page and its place in it.
LEMMA PageOf ==
  ASSUME TestCase \in Cases, NEW z \in Nat, NEW m \in 0 .. ZoneSize - 1, NEW p,
         p = get_first_sector_in_zone(z) + m
  PROVE  p \in Nat /\ p >= first_sector /\ get_zone_num(p) = z /\ Masked(p) = m
<1>1. ZoneSize \in Nat \ {0} /\ first_sector \in Nat /\ first_sector % ZoneSize = 0
  BY Area
<1>2. z * ZoneSize \in Nat
  BY <1>1
<1>3. PICK x \in Nat : x = (z * ZoneSize) + m
  BY <1>1, <1>2
<1>4. p = x + first_sector /\ p \in Nat /\ p >= first_sector /\ x = p - first_sector
  BY <1>1, <1>2, <1>3 DEF get_first_sector_in_zone
<1>5. x \div ZoneSize = z /\ x % ZoneSize = m
  <2>1. ZoneSize \in Nat \ {0} /\ z \in Int /\ x \in Int
    BY <1>1
  <2> QED BY <1>3, <2>1, OneDivision
<1>6. p % ZoneSize = x % ZoneSize
  <2>1. Masked(first_sector) = 0 /\ first_sector \in Int /\ x \in Int
    BY <1>1 DEF Masked
  <2>2. Masked(p) = Masked(x)
    BY <1>4, <2>1, MaskedSum
  <2> QED BY <2>2 DEF Masked
<1> QED BY <1>4, <1>5, <1>6 DEF get_zone_num, Masked

-------------------------------------------------------------------------------
(* Up to a multiple of the chunk array, a chunk that begins ends.           *)
LEMMA ArraysFit ==
  ASSUME NEW c \in Nat \ {0}, NEW z \in Nat, NEW t \in Int, t = z - (z % c)
  PROVE  t % c = 0 /\ \A x, k \in Nat : x < t /\ (x % c) + k <= c => x + k <= t
<1>1. PICK q \in Int, m \in 0 .. c - 1 : z = (q * c) + m /\ m = z % c
  <2>1. /\ z \div c \in Int /\ z % c \in 0 .. c - 1
        /\ z = ((z \div c) * c) + (z % c) /\ z % c = z % c
    BY DivMod
  <2> QED BY ONLY <2>1, Zenon
<1>2. t = (q * c) + 0 /\ 0 \in 0 .. c - 1
  <2>1. q * c \in Int
    OBVIOUS
  <2> QED BY <1>1, <2>1
<1>3. t % c = 0
  BY ONLY <1>2, q \in Int, c \in Nat \ {0}, t \in Int, OneDivision
<1>4. ASSUME NEW x \in Nat, NEW k \in Nat, x < t, (x % c) + k <= c
      PROVE  x + k <= t
  <2>1. x \in Int /\ t \in Int
    OBVIOUS
  <2> QED BY ONLY <2>1, <1>3, <1>4, c \in Nat \ {0}, k \in Nat, WithinMultiple
<1> QED BY <1>3, <1>4

(* So dpin_0005, which uses a multiple of the chunk array of every zone.    *)
LEMMA WholeArrays ==
  TestCase = "dpin_0005" =>
    /\ Tested \in Nat /\ Tested >= ZoneSize - 2
    /\ \A x, k \in Nat : x < Tested /\ InArray(x) + k <= total_sectors_chunk_arr
                           => x + k <= Tested
<1>1. PICK c \in Nat \ {0} : c = total_sectors_chunk_arr
  BY ChunkArray
<1>2. PICK z \in Nat \ {0} : z = ZoneSize
  BY AreaAssumption
<1>3. z % c \in 0 .. c - 1
  BY DivMod
<1>4. PICK t \in Int : t = z - (z % c)
  BY <1>3
<1>5. \A x, k \in Nat : x < t /\ (x % c) + k <= c => x + k <= t
  BY <1>4, ArraysFit
<1>6. z % c <= 2 /\ c < z
  BY <1>1, <1>2, ChunkArray, ZoneChunksAssumption
<1>7. t \in Nat /\ t >= z - 2
  BY <1>3, <1>4, <1>6
<1> SUFFICES ASSUME TestCase = "dpin_0005"
             PROVE  /\ Tested \in Nat /\ Tested >= ZoneSize - 2
                    /\ \A x, k \in Nat : x < Tested /\ InArray(x) + k <= total_sectors_chunk_arr
                                           => x + k <= Tested
  OBVIOUS
<1>8. Tested = t
  BY <1>1, <1>2, <1>4 DEF Tested, reserved_sectors_in_zone
<1> QED BY <1>1, <1>2, <1>5, <1>7, <1>8 DEF InArray

(* The row behind a chunk is the next chunk of the array, or of the next.   *)
LEMMA NextInArray ==
  /\ \A x \in Nat : InArray(x) \in 0 .. total_sectors_chunk_arr - 1
  /\ \A x, k \in Nat :
       InArray(x) + k <= total_sectors_chunk_arr =>
         InArray(x + k) = IF InArray(x) + k = total_sectors_chunk_arr THEN 0 ELSE InArray(x) + k
  /\ InArray(0) = 0
<1>1. PICK c \in Nat \ {0} : c = total_sectors_chunk_arr
  BY ChunkArray
<1>2. ASSUME NEW x \in Nat PROVE x % c \in 0 .. c - 1
  BY DivMod
<1>3. ASSUME NEW x \in Nat, NEW k \in Nat, (x % c) + k <= c
      PROVE  (x + k) % c = IF (x % c) + k = c THEN 0 ELSE (x % c) + k
  <2>1. x \in Int
    OBVIOUS
  <2> QED BY ONLY <2>1, <1>3, c \in Nat \ {0}, k \in Nat, FurtherOn
<1>4. 0 % c = 0
  <2>1. 0 = (0 * c) + 0 /\ 0 \in 0 .. c - 1 /\ 0 \in Int
    OBVIOUS
  <2> QED BY ONLY <2>1, c \in Nat \ {0}, OneDivision
<1> QED BY <1>1, <1>2, <1>3, <1>4 DEF InArray

(* A multiple of c and another c are one, and c fits in between multiples.  *)
LEMMA NextMultiple ==
  ASSUME NEW y \in Int, NEW c \in Nat \ {0}, y % c = 0
  PROVE  /\ (y + c) % c = 0
         /\ \A d \in Int : d % c = 0 /\ y < d => y + c <= d
<1>1. (y % c) + c <= c /\ c \in Nat
  OBVIOUS
<1>2. PICK e \in Int : y = e * c
  <2>1. y \div c \in Int /\ y = (y \div c) * c
    BY DivMod
  <2> QED BY <2>1, Zenon
<1>3. PICK q \in Int : q = e + 1
  OBVIOUS
<1>4. PICK s \in Int : s = y + c
  OBVIOUS
<1>5. s = (q * c) + 0 /\ 0 \in 0 .. c - 1
  BY <1>2, <1>3, <1>4
<1>6. s % c = 0
  BY ONLY <1>5, q \in Int, c \in Nat \ {0}, s \in Int, OneDivision
<1>7. ASSUME NEW d \in Int, d % c = 0, y < d PROVE y + c <= d
  BY ONLY <1>1, <1>7, d \in Int, y \in Int, c \in Nat \ {0}, WithinMultiple
<1> QED BY <1>4, <1>6, <1>7

(* Behind the chunk array dpin_0007 repeats the last chunk, up to the last  *)
(* page but one of the zone.                                                *)
LEMMA RepeatedChunks ==
  /\ Last \in Nat \ {0} /\ InLast(total_sectors_chunk_arr) = 0
  /\ \A x \in Nat : x >= total_sectors_chunk_arr /\ InLast(x) = 0 =>
        /\ InLast(x + Last) = 0
        /\ x < ZoneSize - 1 => x + Last <= ZoneSize - 1
<1>1. PICK a \in Nat \ {0}, c \in Nat \ {0} : a = total_sectors_chunk_arr /\ c = Last
  BY ChunkArray, ChunkFacts DEF Last
<1>2. PICK t \in Nat : t = ZoneSize - 1
  BY AreaAssumption
<1>3. PICK d \in Int : d = t - a
  OBVIOUS
<1>4. d % c = 0
  BY <1>1, <1>2, <1>3, ZoneChunksAssumption DEF Last
<1>5. 0 % c = 0
  <2>1. 0 = (0 * c) + 0 /\ 0 \in 0 .. c - 1 /\ 0 \in Int
    OBVIOUS
  <2> QED BY ONLY <2>1, c \in Nat \ {0}, OneDivision
<1>6. ASSUME NEW x \in Nat, x >= a, (x - a) % c = 0
      PROVE  ((x + c) - a) % c = 0 /\ (x < t => x + c <= t)
  <2>1. PICK y \in Int : y = x - a
    OBVIOUS
  <2>2. y % c = 0
    BY <1>6, <2>1
  <2>3. (y + c) % c = 0 /\ \A n \in Int : n % c = 0 /\ y < n => y + c <= n
    BY ONLY <2>2, y \in Int, c \in Nat \ {0}, NextMultiple
  <2>4. (x + c) - a = y + c
    BY <2>1
  <2>5. y < d => y + c <= d
    BY <1>4, <2>3
  <2> QED BY <1>3, <2>1, <2>3, <2>4, <2>5
<1>7. a - a = 0
  OBVIOUS
<1> QED BY <1>1, <1>2, <1>5, <1>6, <1>7 DEF InLast

\* What dpin_0007 uses of a zone, by its chunks.
LEMMA Tested_0007 == TestCase = "dpin_0007" => Tested = ZoneSize - 1
  BY DEF Tested, reserved_sectors_in_zone

(* Every zone begins at an even page.                                       *)
LEMMA EvenZones ==
  ASSUME TestCase \in Cases
  PROVE  \A z \in Nat : get_first_sector_in_zone(z) % 2 = 0
<1> SUFFICES ASSUME NEW z \in Nat PROVE get_first_sector_in_zone(z) % 2 = 0
  OBVIOUS
<1>1. PICK size \in Nat \ {0}, first \in Nat :
        size = ZoneSize /\ first = first_sector /\ first % size = 0
  BY Area
<1>2. PICK h \in Int : size = 2 * h
  <2>1. size % 2 = 0
    BY <1>1, ZoneChunksAssumption
  <2> QED BY <2>1
<1>3. PICK a \in Int : first = a * size
  <2>1. first = ((first \div size) * size) + (first % size) /\ first \div size \in Int
    BY DivMod
  <2> QED BY <1>1, <2>1
<1>4. PICK b \in Int : b = a + z
  OBVIOUS
<1>5. b * size = (a * size) + (z * size)
  BY <1>4
<1>6. get_first_sector_in_zone(z) = b * size
  BY <1>1, <1>3, <1>5 DEF get_first_sector_in_zone
<1>7. PICK g \in Int : g = b * h
  OBVIOUS
<1>8. b * size = 2 * g
  BY <1>2, <1>7
<1> QED BY <1>6, <1>8

(* A request of the test area lies in one zone, but for the even loops of   *)
(* dpin_0005 in the part of it that is in use.                              *)
LEMMA RequestPlace ==
  ASSUME TestCase \in Cases, NEW l, NEW r, Valid(l, r)
  PROVE  /\ r.lsn \in Nat /\ r.lsn >= first_sector /\ r.len \in Nat \ {0}
         /\ get_zone_num(r.lsn) \in Nat /\ Masked(r.lsn) \in 0 .. ZoneSize - 1
         /\ r.lsn = get_first_sector_in_zone(get_zone_num(r.lsn)) + Masked(r.lsn)
         /\ Masked(r.lsn) + r.len <= ZoneSize
         /\ ~(TestCase = "dpin_0005" /\ ~Odd(l)) => Masked(r.lsn) + r.len <= Tested
         /\ Masked(r.lsn) <= Tested
<1>1. /\ r.lsn \in Nat /\ r.lsn >= first_sector /\ r.len \in Nat \ {0}
      /\ get_zone_num(r.lsn) \in Nat /\ Masked(r.lsn) \in 0 .. ZoneSize - 1
      /\ r.lsn = get_first_sector_in_zone(get_zone_num(r.lsn)) + Masked(r.lsn)
  <2>1. r.lsn \in Nat /\ r.lsn >= first_sector /\ r.len \in Nat \ {0}
    BY DEF Valid, Requests
  <2> QED BY <2>1, PageAt
<1>2. PICK m \in Nat, k \in Nat \ {0} : m = Masked(r.lsn) /\ k = r.len
  BY <1>1
<1>3. Tested \in 1 .. ZoneSize /\ ZoneSize \in Nat
  BY Area
<1>4. CASE TestCase = "dpin_0005" /\ Odd(l)
  <2>1. m < Tested /\ AtChunk(InArray(m), k)
    BY <1>2, <1>4 DEF Valid
  <2>2. PICK j \in 1 .. Len(Chunks) : k = Chunks[j] /\ InArray(m) = ChunkEnd[j - 1]
    BY <2>1 DEF AtChunk
  <2>3. InArray(m) + k <= total_sectors_chunk_arr
    BY <2>2, ChunkUpToEnd
  <2>4. m + k <= Tested
    BY <1>4, <2>1, <2>3, WholeArrays
  <2> QED BY <1>1, <1>2, <1>3, <2>4
<1>5. CASE TestCase = "dpin_0005" /\ ~Odd(l)
  <2>1. k = 1 /\ r.lsn % 2 = 0
    BY <1>2, <1>5 DEF Valid
  <2>2. Tested >= ZoneSize - 2
    BY <1>5, WholeArrays
  <2>3. m % 2 = 0
    <3>1. PICK f \in Nat : f = get_first_sector_in_zone(get_zone_num(r.lsn)) /\ f % 2 = 0
      BY <1>1, EvenZones, ZonesInOrder
    <3>2. r.lsn = f + m
      BY <1>1, <1>2, <3>1
    <3> QED BY <2>1, <3>1, <3>2
  <2>4. ZoneSize % 2 = 0 /\ m <= ZoneSize - 1
    BY <1>1, <1>2, ZoneChunksAssumption
  <2>5. m <= ZoneSize - 2
    BY <1>3, <2>3, <2>4
  <2> QED BY <1>1, <1>2, <1>3, <1>5, <2>1, <2>2, <2>5
<1>6. CASE TestCase = "dpin_0007" /\ ~Odd(l)
  <2>1. m < Tested /\ (AtChunk(m, k) \/ AtRepeated(m, k))
    BY <1>2, <1>6 DEF Valid
  <2>2. m + k <= Tested
    <3>1. CASE AtChunk(m, k)
      <4>1. m + k <= total_sectors_chunk_arr
        BY <3>1, ChunkUpToEnd DEF AtChunk
      <4>2. total_sectors_chunk_arr <= Tested
        BY <1>3, <1>6, Tested_0007, ChunkArray
      <4> QED BY <1>3, <4>1, <4>2, ChunkArray
    <3>2. CASE AtRepeated(m, k)
      BY <1>6, <2>1, <3>2, RepeatedChunks, Tested_0007 DEF AtRepeated
    <3> QED BY <2>1, <3>1, <3>2
  <2> QED BY <1>1, <1>2, <1>3, <2>2
<1>7. CASE TestCase \notin {"dpin_0005", "dpin_0007"} \/ (TestCase = "dpin_0007" /\ Odd(l))
  <2>1. m < Tested /\ k = 1
    BY <1>2, <1>7 DEF Valid
  <2>2. m + k <= Tested
    BY <1>3, <2>1
  <2> QED BY <1>1, <1>2, <1>3, <2>2
<1> QED BY <1>4, <1>5, <1>6, <1>7

-------------------------------------------------------------------------------
(* A page in use lies in the part of a zone that is tested, and on the      *)
(* device.                                                                  *)
LEMMA UsedPage ==
  ASSUME TestCase \in Cases
  PROVE  \A p \in Used :
           /\ p \in Nat /\ get_zone_num(p) \in Nat /\ get_zone_num(p) < total_zone_num
           /\ Masked(p) \in Nat /\ Masked(p) < Tested
           /\ p = get_first_sector_in_zone(get_zone_num(p)) + Masked(p)
           /\ p < last_sector - reserved_sectors_in_zone /\ p \in Pages /\ p >= first_sector
<1> SUFFICES ASSUME NEW p \in Used
             PROVE  /\ p \in Nat /\ get_zone_num(p) \in Nat /\ get_zone_num(p) < total_zone_num
                    /\ Masked(p) \in Nat /\ Masked(p) < Tested
                    /\ p = get_first_sector_in_zone(get_zone_num(p)) + Masked(p)
                    /\ p < last_sector - reserved_sectors_in_zone /\ p \in Pages
                    /\ p >= first_sector
  OBVIOUS
<1>1. /\ p \in Nat /\ p >= first_sector
      /\ get_zone_num(p) < total_zone_num /\ Masked(p) < Tested
  BY DEF Used, InUse
<1>2. PICK z \in Nat, m \in Nat : z = get_zone_num(p) /\ m = Masked(p)
  BY <1>1, PageAt
<1>3. p = get_first_sector_in_zone(z) + m
  BY <1>1, <1>2, PageAt
<1>4. /\ total_zone_num \in Nat /\ reserved_sectors_in_zone = ZoneSize - Tested
      /\ ZoneSize \in Nat /\ Tested \in Nat /\ last_sector \in Nat
      /\ last_sector = AreaStart + AreaLength
  BY Area
<1>5. get_first_sector_in_zone(z) + ZoneSize <= last_sector
  <2>1. get_first_sector_in_zone(z) + ZoneSize <= get_first_sector_in_zone(total_zone_num)
    BY <1>1, <1>2, <1>4, ZonesInOrder
  <2>2. /\ get_first_sector_in_zone(total_zone_num) \in Nat
        /\ get_first_sector_in_zone(total_zone_num) <= last_sector
        /\ get_first_sector_in_zone(z) \in Nat
    BY <1>4, ZonesInOrder
  <2> QED BY <1>4, <2>1, <2>2
<1>6. get_first_sector_in_zone(z) \in Nat
  BY ZonesInOrder
<1>7. PICK first \in Nat, last \in Nat, size \in Nat, tested \in Nat :
        /\ first = get_first_sector_in_zone(z) /\ last = last_sector
        /\ size = ZoneSize /\ tested = Tested
  BY <1>4, <1>6
<1>8. /\ p \in Nat /\ p = first + m /\ first + size <= last /\ m < tested /\ tested <= size
      /\ reserved_sectors_in_zone = size - tested
  <2>1. p \in Nat /\ p = first + m /\ first + size <= last /\ m < tested
    BY <1>1, <1>2, <1>3, <1>5, <1>7
  <2>2. Tested \in 1 .. ZoneSize
    BY Area
  <2>3. tested <= size
    BY <1>7, <2>2
  <2> QED BY <1>4, <1>7, <2>1, <2>3
<1>9. p < last - (size - tested) /\ p < last
  BY <1>8
<1>10. p \in Pages
  <2>1. last = AreaStart + AreaLength
    BY <1>4, <1>7
  <2>2. \A x \in Nat : x < last => x \in Pages
    <3>1. AreaStart \in Nat /\ AreaLength \in Nat
      BY AreaAssumption
    <3> QED BY <2>1, <3>1 DEF Pages
  <2> QED BY <1>8, <1>9, <2>2
<1> QED BY <1>1, <1>2, <1>3, <1>7, <1>8, <1>9, <1>10

\* What it takes of a request to follow another in a loop.
Follows(l, r, n) ==
  /\ n = NoRequest \/ Valid(l, n)
  /\ n # NoRequest =>
       \A p \in Used : /\ Before(l, n, p) => Before(l, r, p) \/ p \in PagesOf(r) \/ Skipped(l, p)
                       /\ After(l, n, p) => After(l, r, p)
  /\ n = NoRequest => \A p \in Used : Before(l, r, p) \/ p \in PagesOf(r) \/ Skipped(l, p)

(* Where an interleaved loop goes on: at the same place of the next zone,   *)
(* behind the last zone in the next row.                                    *)
LEMMA InterleavedPlace ==
  ASSUME TestCase \in Cases, NEW l, NEW r, Valid(l, r), Masked(r.lsn) + r.len <= Tested,
         NEW len, NEW z \in Nat, NEW m \in Nat, z = get_zone_num(r.lsn), m = Masked(r.lsn)
  PROVE  \/ Interleaved(r, len) = [lsn |-> get_first_sector_in_zone(z + 1) + m, len |-> r.len]
         \/ /\ z + 1 >= total_zone_num /\ m + r.len < Tested
            /\ Interleaved(r, len)
                 = [lsn |-> get_first_sector_in_zone(0) + (m + r.len), len |-> len]
         \/ /\ z + 1 >= total_zone_num /\ m + r.len >= Tested
            /\ Interleaved(r, len) = NoRequest
<1>1. /\ r.lsn \in Nat /\ r.len \in Nat \ {0} /\ m \in 0 .. ZoneSize - 1
      /\ r.lsn = get_first_sector_in_zone(z) + m
  BY RequestPlace
<1>2. PICK k \in Nat \ {0} : k = r.len
  BY <1>1
<1>3. /\ ZoneSize \in Nat /\ Tested \in Nat /\ reserved_sectors_in_zone = ZoneSize - Tested
      /\ last_sector \in Nat /\ total_zone_num \in Nat /\ first_sector \in Nat
  BY Area
<1>4. PICK next \in Nat : next = get_first_sector_in_zone(z + 1)
  BY ZonesInOrder
<1>5. r.lsn + ZoneSize = next + m
  <2>1. PICK first \in Nat, size \in Nat : first = get_first_sector_in_zone(z) /\ size = ZoneSize
    BY <1>3, ZonesInOrder
  <2>2. next = first + size
    BY <1>4, <2>1, ZonesInOrder
  <2>3. r.lsn = first + m
    BY <1>1, <2>1
  <2> QED BY <2>1, <2>2, <2>3
<1>6. Masked(r.lsn + ZoneSize) = m
  <2>1. PICK y \in Nat, below \in Nat : y = z + 1 /\ below = next + m
    OBVIOUS
  <2>2. below = get_first_sector_in_zone(y) + m
    BY <1>4, <2>1
  <2>3. Masked(below) = m
    BY <1>1, <2>2, PageOf
  <2> QED BY <1>5, <2>1, <2>3
<1>7. /\ get_first_sector_in_zone(0) = first_sector
      /\ LastTested(0) = get_first_sector_in_zone(0) + Tested
  BY ZonesInOrder
<1>8. CASE next + m < get_last_sector_in_test_area
  BY <1>4, <1>5, <1>8 DEF Interleaved
<1>9. CASE ~(next + m < get_last_sector_in_test_area)
  <2>1. z + 1 >= total_zone_num
    <3>1. SUFFICES ASSUME z + 1 < total_zone_num PROVE FALSE
      BY <1>3
    <3>2. next + ZoneSize <= get_first_sector_in_zone(total_zone_num)
      BY <1>3, <1>4, <3>1, ZonesInOrder
    <3>3. /\ get_first_sector_in_zone(total_zone_num) \in Nat
          /\ get_first_sector_in_zone(total_zone_num) <= last_sector
      BY <1>3, ZonesInOrder
    <3>4. get_last_sector_in_test_area = last_sector - (ZoneSize - Tested)
      BY <1>3 DEF get_last_sector_in_test_area
    <3>5. m < Tested
      BY <1>2, <1>3
    <3> QED BY <1>3, <1>9, <3>2, <3>3, <3>4, <3>5
  <2>2. first_sector + m + k < LastTested(0) <=> m + k < Tested
    BY <1>3, <1>7
  <2>3. first_sector + m + k = get_first_sector_in_zone(0) + (m + k)
    BY <1>3, <1>7
  <2>4. Interleaved(r, len) =
          IF first_sector + m + k < LastTested(0)
          THEN [lsn |-> first_sector + m + k, len |-> len] ELSE NoRequest
    BY <1>2, <1>5, <1>6, <1>9 DEF Interleaved
  <2>5. m + k < Tested \/ m + k >= Tested
    BY <1>3
  <2> QED BY <1>2, <2>1, <2>2, <2>3, <2>4, <2>5
<1> QED BY <1>8, <1>9

(* A request at the same offset of another zone is as valid as this one.    *)
LEMMA NextZone ==
  ASSUME TestCase \in Cases, NEW l, Odd(l), NEW r, Valid(l, r), NEW z \in Nat,
         NEW n, n = [lsn |-> get_first_sector_in_zone(z) + Masked(r.lsn), len |-> r.len]
  PROVE  Valid(l, n) /\ get_zone_num(n.lsn) = z /\ Masked(n.lsn) = Masked(r.lsn)
<1>1. Masked(r.lsn) \in 0 .. ZoneSize - 1 /\ r.len \in Nat \ {0}
  BY RequestPlace
<1>2. n.lsn = get_first_sector_in_zone(z) + Masked(r.lsn) /\ n.len = r.len
  OBVIOUS
<1>3. /\ n.lsn \in Nat /\ n.lsn >= first_sector
      /\ get_zone_num(n.lsn) = z /\ Masked(n.lsn) = Masked(r.lsn)
  BY <1>1, <1>2, PageOf
<1>4. n \in Requests
  BY <1>1, <1>3 DEF Requests
<1> QED BY <1>2, <1>3, <1>4 DEF Valid

(* Behind the last zone the next row begins, with the next length of 0005.  *)
LEMMA NextRow ==
  ASSUME TestCase \in Cases, NEW l, Odd(l), NEW r, Valid(l, r),
         Masked(r.lsn) + r.len < Tested,
         NEW len, len = IF TestCase = "dpin_0005" THEN NextChunk(r.len) ELSE 1,
         NEW n, n = [lsn |-> get_first_sector_in_zone(0) + (Masked(r.lsn) + r.len), len |-> len]
  PROVE  Valid(l, n) /\ get_zone_num(n.lsn) = 0 /\ Masked(n.lsn) = Masked(r.lsn) + r.len
<1>1. PICK m \in Nat, k \in Nat \ {0} : m = Masked(r.lsn) /\ k = r.len
  BY RequestPlace
<1>2. Tested \in 1 .. ZoneSize /\ ZoneSize \in Nat
  BY Area
<1>3. n.lsn = get_first_sector_in_zone(0) + (m + k) /\ n.len = len
  BY <1>1
<1>4. m + k \in 0 .. ZoneSize - 1 /\ 0 \in Nat
  BY <1>1, <1>2
<1>5. /\ n.lsn \in Nat /\ n.lsn >= first_sector
      /\ get_zone_num(n.lsn) = 0 /\ Masked(n.lsn) = m + k
  BY <1>3, <1>4, PageOf
<1>6. CASE TestCase # "dpin_0005"
  <2>1. n \in Requests /\ n.len = 1
    BY <1>3, <1>5, <1>6 DEF Requests
  <2> QED BY <1>1, <1>5, <1>6, <2>1 DEF Valid
<1>7. CASE TestCase = "dpin_0005"
  <2>1. AtChunk(InArray(m), k)
    BY <1>1, <1>7 DEF Valid
  <2>2. PICK j \in 1 .. Len(Chunks) : k = Chunks[j] /\ InArray(m) = ChunkEnd[j - 1]
    BY <2>1 DEF AtChunk
  <2>3. PICK c \in Nat \ {0} : c = Len(Chunks) /\ j \in Int
    <3>1. PICK c \in Nat \ {0} : c = Len(Chunks)
      BY ChunkFacts
    <3>2. j \in Int
      BY <3>1
    <3> QED BY <3>1, <3>2
  <2>4. get_index_in_chunk_arr(k) = j
    BY <2>2, ChunkArray
  <2>5. InArray(m) + k = ChunkEnd[j] /\ ChunkEnd[j] <= total_sectors_chunk_arr
    BY <2>2, ChunkUpToEnd
  <2>6. InArray(m + k) = IF ChunkEnd[j] = total_sectors_chunk_arr THEN 0 ELSE ChunkEnd[j]
    BY <1>1, <2>5, NextInArray
  <2>7. PICK i \in 1 .. c : len = Chunks[i] /\ InArray(m + k) = ChunkEnd[i - 1]
    <3>1. CASE j = c
      <4>1. j % c = 0
        <5>1. j = (1 * c) + 0 /\ 0 \in 0 .. c - 1 /\ 1 \in Int
          BY <3>1
        <5> QED BY ONLY <5>1, j \in Int, c \in Nat \ {0}, <2>3, OneDivision
      <4>2. len = Chunks[1]
        BY <1>1, <1>7, <2>3, <2>4, <4>1 DEF NextChunk
      <4>3. InArray(m + k) = 0
        BY <2>3, <2>6, <3>1, ChunkUpToEnd
      <4>4. 1 \in 1 .. c /\ 1 - 1 = 0 /\ ChunkEnd[0] = 0
        BY ChunkFacts
      <4> QED BY <4>2, <4>3, <4>4
    <3>2. CASE j # c
      <4>1. j % c = j
        <5>1. j = (0 * c) + j /\ j \in 0 .. c - 1 /\ 0 \in Int
          BY <2>3, <3>2
        <5> QED BY ONLY <5>1, <2>3, c \in Nat \ {0}, OneDivision
      <4>2. PICK i \in 1 .. c : i = j + 1
        BY <2>3, <3>2
      <4>3. len = Chunks[i]
        BY <1>1, <1>7, <2>3, <2>4, <4>1, <4>2 DEF NextChunk
      <4>4. InArray(m + k) = ChunkEnd[j] /\ i - 1 = j
        BY <2>3, <2>6, <3>2, <4>2, ChunkUpToEnd
      <4> QED BY <4>3, <4>4
    <3> QED BY <3>1, <3>2
  <2>8. len \in Nat \ {0} /\ AtChunk(InArray(m + k), len)
    BY <2>3, <2>7, ChunkFacts DEF AtChunk
  <2>9. n \in Requests
    BY <1>5, <1>3, <2>8 DEF Requests
  <2> QED BY <1>1, <1>3, <1>5, <1>7, <2>8, <2>9 DEF Valid
<1> QED BY <1>1, <1>5, <1>6, <1>7

(* The next request of an odd loop.                                         *)
LEMMA OddFollows ==
  ASSUME TestCase \in Cases, NEW l, Odd(l), NEW r, Valid(l, r)
  PROVE  Follows(l, r, Following(l, r))
<1>1. PICK len : len = IF TestCase = "dpin_0005" THEN NextChunk(r.len) ELSE 1
  OBVIOUS
<1>2. PICK n : n = Interleaved(r, len)
  OBVIOUS
<1>3. Following(l, r) = n
  BY <1>1, <1>2
  DEF Following, Cases, pattern1_0004, pattern1_0005, pattern1_0007, pattern1_0008
<1>4. PICK z \in Nat, m \in Nat, k \in Nat \ {0} :
        /\ z = get_zone_num(r.lsn) /\ m = Masked(r.lsn) /\ k = r.len
        /\ m + k <= Tested /\ r.lsn = get_first_sector_in_zone(z) + m
  BY RequestPlace
<1>5. PICK first \in Nat : first = get_first_sector_in_zone(z)
  BY ZonesInOrder
<1>6. PagesOf(r) = first + m .. (first + m) + k - 1
  BY <1>4, <1>5 DEF PagesOf
<1>7. ASSUME NEW p \in Used
      PROVE  \E x \in Nat, y \in Nat :
               /\ x = get_zone_num(p) /\ y = Masked(p) /\ x < total_zone_num /\ y < Tested
               /\ x = z /\ y >= m /\ y < m + k => p \in PagesOf(r)
  <2>1. PICK x \in Nat, y \in Nat :
          /\ x = get_zone_num(p) /\ y = Masked(p) /\ x < total_zone_num /\ y < Tested
          /\ p = get_first_sector_in_zone(x) + y
    BY UsedPage
  <2>2. ASSUME x = z, y >= m, y < m + k PROVE p \in PagesOf(r)
    <3>1. p = first + y
      BY <1>5, <2>1, <2>2
    <3> QED BY <1>6, <2>2, <3>1
  <2> QED BY <2>1, <2>2
<1>8. total_zone_num \in Nat /\ Tested \in Nat
  BY Area
<1>9. CASE n = [lsn |-> get_first_sector_in_zone(z + 1) + m, len |-> r.len]
  <2>1. PICK u \in Nat : u = z + 1
    OBVIOUS
  <2>2. Valid(l, n) /\ get_zone_num(n.lsn) = u /\ Masked(n.lsn) = m /\ n.len = k
    <3>1. n = [lsn |-> get_first_sector_in_zone(u) + Masked(r.lsn), len |-> r.len]
      BY <1>4, <1>9, <2>1
    <3>2. Valid(l, n) /\ get_zone_num(n.lsn) = u /\ Masked(n.lsn) = Masked(r.lsn)
      BY <3>1, NextZone
    <3> QED BY <1>4, <3>1, <3>2
  <2>3. n # NoRequest
    BY <1>4, <2>2 DEF NoRequest
  <2>4. ASSUME NEW p \in Used
        PROVE  /\ Before(l, n, p) => Before(l, r, p) \/ p \in PagesOf(r) \/ Skipped(l, p)
               /\ After(l, n, p) => After(l, r, p)
    <3>1. PICK x \in Nat, y \in Nat :
            /\ x = get_zone_num(p) /\ y = Masked(p)
            /\ x = z /\ y >= m /\ y < m + k => p \in PagesOf(r)
      BY <1>7
    <3>2. Before(l, n, p) => y < m \/ (y < m + k /\ x < u)
      BY <2>2, <3>1 DEF Before
    <3>3. y < m \/ (y < m + k /\ x < z) => Before(l, r, p)
      BY <1>4, <3>1 DEF Before
    <3>4. After(l, n, p) => y >= m + k \/ (y >= m /\ x > u)
      BY <2>2, <3>1 DEF After
    <3>5. y >= m + k \/ (y >= m /\ x > z) => After(l, r, p)
      BY <1>4, <3>1 DEF After
    <3>6. Before(l, n, p) => Before(l, r, p) \/ p \in PagesOf(r)
      BY <2>1, <3>1, <3>2, <3>3
    <3>7. After(l, n, p) => After(l, r, p)
      BY <2>1, <3>4, <3>5
    <3> QED BY <3>6, <3>7
  <2> QED BY <1>3, <2>2, <2>3, <2>4 DEF Follows
<1>10. CASE /\ z + 1 >= total_zone_num /\ m + r.len < Tested
            /\ n = [lsn |-> get_first_sector_in_zone(0) + (m + r.len), len |-> len]
  <2>1. Valid(l, n) /\ get_zone_num(n.lsn) = 0 /\ Masked(n.lsn) = m + k
    BY <1>1, <1>4, <1>10, NextRow
  <2>2. PICK h \in Nat \ {0} : h = n.len
    BY <2>1, RequestPlace
  <2>3. n # NoRequest
    BY <2>2 DEF NoRequest
  <2>4. ASSUME NEW p \in Used
        PROVE  /\ Before(l, n, p) => Before(l, r, p) \/ p \in PagesOf(r) \/ Skipped(l, p)
               /\ After(l, n, p) => After(l, r, p)
    <3>1. PICK x \in Nat, y \in Nat :
            /\ x = get_zone_num(p) /\ y = Masked(p) /\ x < total_zone_num
            /\ x = z /\ y >= m /\ y < m + k => p \in PagesOf(r)
      BY <1>7
    <3>2. x <= z
      BY <1>8, <1>10, <3>1
    <3>3. Before(l, n, p) => y < m + k
      BY <2>1, <2>2, <3>1 DEF Before
    <3>4. y < m + k => Before(l, r, p) \/ p \in PagesOf(r)
      BY <1>4, <3>1, <3>2 DEF Before
    <3>5. After(l, n, p) => y >= m + k
      BY <2>1, <2>2, <3>1 DEF After
    <3>6. y >= m + k => After(l, r, p)
      BY <1>4, <3>1 DEF After
    <3> QED BY <3>3, <3>4, <3>5, <3>6
  <2> QED BY <1>3, <2>1, <2>3, <2>4 DEF Follows
<1>11. CASE z + 1 >= total_zone_num /\ m + r.len >= Tested /\ n = NoRequest
  <2>1. ASSUME NEW p \in Used PROVE Before(l, r, p) \/ p \in PagesOf(r)
    <3>1. PICK x \in Nat, y \in Nat :
            /\ x = get_zone_num(p) /\ y = Masked(p) /\ x < total_zone_num /\ y < Tested
            /\ x = z /\ y >= m /\ y < m + k => p \in PagesOf(r)
      BY <1>7
    <3>2. x <= z /\ y < m + k
      BY <1>4, <1>8, <1>11, <3>1
    <3> QED BY <1>4, <3>1, <3>2 DEF Before
  <2> QED BY <1>3, <1>11, <2>1 DEF Follows
<1>12. Masked(r.lsn) + r.len <= Tested
  BY <1>4
<1> QED BY <1>2, <1>4, <1>9, <1>10, <1>11, <1>12, InterleavedPlace

(* The next request of an even loop that takes one page in so many.         *)
LEMMA SequentialFollows ==
  ASSUME TestCase \in Cases, NEW l, ~Odd(l), NEW r, Valid(l, r), NEW step,
         \/ TestCase \in {"dpin_0004", "dpin_0008"} /\ step = 1
         \/ TestCase = "dpin_0005" /\ step = 2
  PROVE  Follows(l, r, Sequential(r, step))
<1>1. PICK lsn \in Nat, s \in Nat : lsn = r.lsn /\ s = step /\ lsn >= first_sector
  BY RequestPlace
<1>2. first_sector \in Nat /\ reserved_sectors_in_zone \in Nat /\ last_sector \in Nat
      /\ Tested \in Nat /\ reserved_sectors_in_zone = ZoneSize - Tested /\ ZoneSize \in Nat
  BY Area
<1>3. r.len = 1 /\ (TestCase = "dpin_0005" => lsn % 2 = 0)
  BY <1>1 DEF Valid
<1>4. PagesOf(r) = {lsn}
  BY <1>1, <1>3 DEF PagesOf
<1>5. ASSUME NEW p \in Used
      PROVE  p < lsn + s => Before(l, r, p) \/ p \in PagesOf(r) \/ Skipped(l, p)
  <2>1. p \in Nat
    BY UsedPage
  <2>2. SUFFICES ASSUME p < lsn + s, p # lsn, ~(p < lsn) PROVE Skipped(l, p)
    BY <1>1, <1>4 DEF Before
  <2>3. s = 2 /\ p = lsn + 1 /\ TestCase = "dpin_0005"
    BY <1>1, <2>1, <2>2
  <2>4. p % 2 = 1
    BY <1>1, <1>3, <2>3
  <2> QED BY <2>3, <2>4 DEF Skipped
<1>6. CASE lsn + s < get_last_sector_in_test_area
  <2>1. PICK n : n = [lsn |-> lsn + s, len |-> 1]
    OBVIOUS
  <2>2. Sequential(r, step) = n
    BY <1>1, <1>6, <2>1 DEF Sequential
  <2>3. n.lsn = lsn + s /\ n.len = 1 /\ n \in Requests /\ n.lsn >= first_sector
    BY <1>1, <1>2, <2>1 DEF Requests
  <2>4. n # NoRequest
    BY <2>3 DEF NoRequest
  <2>5. Valid(l, n)
    <3>1. CASE TestCase = "dpin_0005"
      <4>1. n.lsn % 2 = 0
        BY <1>1, <1>3, <2>3, <3>1
      <4> QED BY <2>3, <3>1, <4>1 DEF Valid
    <3>2. CASE TestCase \in {"dpin_0004", "dpin_0008"}
      <4>1. Tested = ZoneSize
        BY <3>2, <1>2 DEF Tested, reserved_sectors_in_zone
      <4>2. n.lsn \in Nat
        BY <2>3 DEF Requests
      <4>3. Masked(n.lsn) \in 0 .. ZoneSize - 1
        BY <2>3, <4>2, PageAt
      <4>4. Masked(n.lsn) < Tested
        BY <1>2, <4>1, <4>3
      <4> QED BY <2>3, <3>2, <4>4 DEF Valid
    <3> QED BY <3>1, <3>2
  <2>6. ASSUME NEW p \in Used
        PROVE  /\ Before(l, n, p) => Before(l, r, p) \/ p \in PagesOf(r) \/ Skipped(l, p)
               /\ After(l, n, p) => After(l, r, p)
    <3>1. p \in Nat
      BY UsedPage
    <3>2. Before(l, n, p) => p < lsn + s
      BY <2>3 DEF Before
    <3>3. After(l, n, p) => After(l, r, p)
      BY <1>1, <1>3, <2>3, <3>1 DEF After
    <3> QED BY <1>5, <3>2, <3>3
  <2> QED BY <2>2, <2>4, <2>5, <2>6 DEF Follows
<1>7. CASE ~(lsn + s < get_last_sector_in_test_area)
  <2>1. Sequential(r, step) = NoRequest
    BY <1>1, <1>7 DEF Sequential
  <2>2. ASSUME NEW p \in Used PROVE p < lsn + s
    <3>1. p \in Nat /\ p < last_sector - reserved_sectors_in_zone
      BY UsedPage
    <3> QED BY <1>2, <1>7, <3>1 DEF get_last_sector_in_test_area
  <2> QED BY <1>5, <2>1, <2>2 DEF Follows
<1> QED BY <1>6, <1>7

-------------------------------------------------------------------------------
(* The last page in use of a zone is the last one up to the next zone.      *)
LEMMA UsedUpTo ==
  ASSUME TestCase \in Cases, NEW z \in Nat, NEW p \in Used
  PROVE  /\ get_zone_num(p) <= z => p < get_first_sector_in_zone(z) + Tested
         /\ p < get_first_sector_in_zone(z) + ZoneSize => get_zone_num(p) <= z
<1>1. PICK x \in Nat, y \in Nat :
        /\ x = get_zone_num(p) /\ y = Masked(p) /\ y < Tested
        /\ p = get_first_sector_in_zone(x) + y
  BY UsedPage
<1>2. PICK size \in Nat, tested \in Nat : size = ZoneSize /\ tested = Tested /\ tested <= size
  BY Area
<1>3. PICK f \in Nat, g \in Nat : f = get_first_sector_in_zone(x) /\ g = get_first_sector_in_zone(z)
  BY ZonesInOrder
<1>4. x < z => f + size <= g
  BY <1>2, <1>3, ZonesInOrder
<1>5. z < x => g + size <= f
  BY <1>2, <1>3, ZonesInOrder
<1>6. x = z => f = g
  BY <1>3
<1>7. PICK q \in Nat : q = p /\ q = f + y
  <2>1. PICK q \in Nat : q = p
    BY UsedPage
  <2>2. q = f + y
    BY <1>1, <1>3, <2>1
  <2> QED BY <2>1, <2>2
<1>8. x <= z => q < g + tested
  <2>1. y < tested
    BY <1>1, <1>2
  <2> QED BY <1>2, <1>4, <1>6, <1>7, <2>1
<1>9. q < g + size => x <= z
  BY <1>5, <1>7
<1> QED BY <1>1, <1>2, <1>3, <1>7, <1>8, <1>9

(* The next request of an even loop of dpin_0007: the chunk array once, its *)
(* last chunk repeated, the next zone.                                      *)
LEMMA ChunksFollow ==
  ASSUME TestCase = "dpin_0007", NEW l, ~Odd(l), NEW r, Valid(l, r)
  PROVE  Follows(l, r, pattern2_0007(r))
<1>1. TestCase \in Cases
  BY DEF Cases
<1>2. PICK z \in Nat, m \in Nat, k \in Nat \ {0} :
        /\ z = get_zone_num(r.lsn) /\ m = Masked(r.lsn) /\ k = r.len
        /\ m + k <= Tested /\ r.lsn = get_first_sector_in_zone(z) + m
  BY <1>1, RequestPlace
<1>3. PICK first \in Nat :
        /\ first = get_first_sector_in_zone(z) /\ LastTested(z) = first + Tested
        /\ get_first_sector_in_zone(z + 1) = first + ZoneSize
  BY <1>1, ZonesInOrder
<1>4. PICK arr \in Nat \ {0} : arr = total_sectors_chunk_arr
  BY ChunkArray
<1>5. PICK size \in Nat, tested \in Nat :
        size = ZoneSize /\ tested = Tested /\ tested = size - 1 /\ arr <= tested
  BY <1>1, <1>4, Area, ChunkArray, Tested_0007
<1>6. AtChunk(m, k) \/ AtRepeated(m, k)
  BY <1>2 DEF Valid
<1>7. PICK o \in Nat, next \in Nat :
        o = m + k /\ next = first + o /\ next = r.lsn + r.len /\ o <= tested
  <2>1. PICK a \in Nat : a = first + m
    OBVIOUS
  <2>2. r.lsn = a /\ r.len = k
    BY <1>2, <1>3, <2>1
  <2>3. m + k \in Nat /\ first + (m + k) \in Nat /\ first + (m + k) = a + k
    BY <2>1
  <2>4. m + k <= tested
    BY <1>2, <1>5
  <2> QED BY <2>2, <2>3, <2>4
<1>8. ASSUME NEW p \in Used
      PROVE  p \in Nat /\ (p < next => Before(l, r, p) \/ p \in PagesOf(r))
  <2>1. p \in Nat
    BY <1>1, UsedPage
  <2>2. PICK a \in Nat : a = r.lsn /\ r.len = k /\ next = a + k
    <3>1. r.lsn \in Nat
      BY <1>1, RequestPlace
    <3> QED BY <1>2, <1>7, <3>1
  <2>3. Before(l, r, p) <=> p < a
    BY <2>2 DEF Before
  <2>4. PagesOf(r) = a .. a + k - 1
    BY <2>2 DEF PagesOf
  <2> QED BY <2>1, <2>2, <2>3, <2>4
<1>9. ASSUME NEW p \in Used PROVE After(l, r, p) <=> p >= next
  BY <1>7 DEF After
<1>10. ASSUME o < tested, NEW len \in Nat \ {0}, AtChunk(o, len) \/ AtRepeated(o, len),
              pattern2_0007(r) = [lsn |-> next, len |-> len]
       PROVE  Follows(l, r, pattern2_0007(r))
  <2>1. PICK n : n = [lsn |-> next, len |-> len]
    OBVIOUS
  <2>2. n.lsn = next /\ n.len = len /\ n \in Requests /\ n # NoRequest
    BY <2>1 DEF Requests, NoRequest
  <2>3. o \in 0 .. ZoneSize - 1
    BY <1>5, <1>10
  <2>4. next >= first_sector /\ Masked(next) = o
    BY <1>1, <1>3, <1>7, <2>3, PageOf
  <2>5. Valid(l, n)
    BY <1>5, <1>10, <2>2, <2>4 DEF Valid
  <2>6. ASSUME NEW p \in Used
        PROVE  (Before(l, n, p) => p < next) /\ (After(l, n, p) => p >= next)
    <3>1. p \in Nat
      BY <1>8
    <3> QED BY <2>2, <3>1 DEF Before, After
  <2> QED BY <1>8, <1>9, <1>10, <2>1, <2>2, <2>5, <2>6 DEF Follows
<1>11. CASE o < arr
  <2>1. AtChunk(m, k)
    <3>1. AtRepeated(m, k) => m >= arr
      BY <1>4 DEF AtRepeated
    <3> QED BY <1>6, <1>7, <1>11, <3>1
  <2>2. PICK j \in 1 .. Len(Chunks) : k = Chunks[j] /\ m = ChunkEnd[j - 1]
    BY <2>1 DEF AtChunk
  <2>3. PICK c \in Nat \ {0} : c = Len(Chunks)
    BY ChunkFacts
  <2>4. o = ChunkEnd[j] /\ j # c
    BY <1>4, <1>7, <1>11, <2>2, <2>3, ChunkUpToEnd
  <2>5. PICK i \in 1 .. c : i = j + 1 /\ i - 1 = j
    BY <2>3, <2>4
  <2>6. AtChunk(o, Chunks[i]) /\ Chunks[i] \in Nat \ {0}
    BY <2>3, <2>4, <2>5, ChunkFacts DEF AtChunk
  <2>7. get_index_in_chunk_arr(r.len) = j
    BY <1>2, <2>2, ChunkArray
  <2>8. pattern2_0007(r) = [lsn |-> next, len |-> Chunks[i]]
    <3>1. next < get_first_sector_in_zone(z) + total_sectors_chunk_arr
      BY <1>3, <1>4, <1>7, <1>11
    <3> QED BY <1>2, <1>7, <2>5, <2>7, <3>1 DEF pattern2_0007
  <2>9. o < tested
    BY <1>5, <1>11
  <2> QED BY <1>10, <2>6, <2>8, <2>9
<1>12. CASE o >= arr /\ o < tested
  <2>1. Last \in Nat \ {0} /\ AtRepeated(o, Last)
    <3>1. CASE AtChunk(m, k)
      <4>1. o <= arr
        BY <1>4, <1>7, <3>1, ChunkUpToEnd DEF AtChunk
      <4>2. o = arr
        BY <1>12, <4>1
      <4> QED BY <1>4, <4>2, RepeatedChunks DEF AtRepeated
    <3>2. CASE AtRepeated(m, k)
      <4>1. InLast(o) = 0 /\ Last \in Nat \ {0}
        BY <1>7, <3>2, RepeatedChunks DEF AtRepeated
      <4> QED BY <1>4, <1>12, <4>1 DEF AtRepeated
    <3> QED BY <1>6, <3>1, <3>2
  <2>2. pattern2_0007(r) = [lsn |-> next, len |-> Last]
    <3>1. ~(next < get_first_sector_in_zone(z) + total_sectors_chunk_arr) /\ next < LastTested(z)
      BY <1>3, <1>4, <1>5, <1>7, <1>12
    <3> QED BY <1>2, <1>7, <3>1 DEF pattern2_0007, Last
  <2> QED BY <1>10, <1>12, <2>1, <2>2
<1>13. CASE o >= tested
  <2>1. ~(next < get_first_sector_in_zone(z) + total_sectors_chunk_arr) /\ ~(next < LastTested(z))
    BY <1>3, <1>4, <1>5, <1>7, <1>13
  <2>2. o = tested
    BY <1>7, <1>13
  <2>3. ASSUME NEW p \in Used, get_zone_num(p) <= z PROVE p < next
    BY <1>1, <1>3, <1>5, <1>7, <2>2, <2>3, UsedUpTo
  <2>4. CASE z + 1 < total_zone_num
    <3>1. PICK u \in Nat : u = z + 1
      OBVIOUS
    <3>2. PICK n : n = [lsn |-> get_first_sector_in_zone(u), len |-> 1]
      OBVIOUS
    <3>3. pattern2_0007(r) = n
      BY <1>2, <1>7, <2>1, <2>4, <3>1, <3>2, ChunkArray DEF pattern2_0007
    <3>4. n.lsn = get_first_sector_in_zone(u) + 0 /\ n.len = 1 /\ n # NoRequest
          /\ n.lsn = first + size
      <4>1. PICK g \in Nat : g = get_first_sector_in_zone(u)
        BY <1>1, ZonesInOrder
      <4>2. n.lsn = g /\ n.len = 1 /\ g + 0 = g /\ g = first + size
        BY <1>3, <1>5, <3>1, <3>2, <4>1
      <4>3. n # NoRequest
        BY <4>2 DEF NoRequest
      <4> QED BY <4>1, <4>2, <4>3
    <3>5. n.lsn \in Nat /\ n.lsn >= first_sector /\ Masked(n.lsn) = 0
      <4>1. 0 \in 0 .. ZoneSize - 1
        BY <1>4, <1>5
      <4> QED BY <1>1, <3>4, <4>1, PageOf
    <3>6. AtChunk(0, 1) /\ 0 < Tested
      <4>1. 1 \in 1 .. Len(Chunks) /\ 1 - 1 = 0
        BY ChunkFacts
      <4> QED BY <1>4, <1>5, <4>1, ChunkFacts, ChunkArray DEF AtChunk
    <3>7. Valid(l, n)
      <4>1. n \in Requests
        BY <3>2, <3>4, <3>5 DEF Requests
      <4> QED BY <3>4, <3>5, <3>6, <4>1 DEF Valid
    <3>8. ASSUME NEW p \in Used
          PROVE  (Before(l, n, p) => p < next) /\ (After(l, n, p) => p >= next)
      <4>1. p \in Nat
        BY <1>8
      <4>2. Before(l, n, p) => p < first + size
        BY <3>4 DEF Before
      <4>3. p < first + size => get_zone_num(p) <= z
        BY <1>1, <1>3, <1>5, UsedUpTo
      <4>4. After(l, n, p) => p >= first + size + 1
        BY <3>4 DEF After
      <4> QED BY <1>5, <1>7, <2>2, <2>3, <4>1, <4>2, <4>3, <4>4
    <3> QED BY <1>8, <1>9, <3>3, <3>4, <3>7, <3>8 DEF Follows
  <2>5. CASE ~(z + 1 < total_zone_num)
    <3>1. pattern2_0007(r) = NoRequest
      BY <1>2, <1>7, <2>1, <2>5 DEF pattern2_0007
    <3>2. ASSUME NEW p \in Used PROVE p < next
      <4>1. get_zone_num(p) \in Nat /\ get_zone_num(p) < total_zone_num
        BY <1>1, UsedPage
      <4>2. total_zone_num \in Nat
        BY <1>1, Area
      <4>3. get_zone_num(p) <= z
        BY <2>5, <4>1, <4>2
      <4> QED BY <2>3, <4>3
    <3> QED BY <1>8, <3>1, <3>2 DEF Follows
  <2> QED BY <2>4, <2>5
<1> QED BY <1>5, <1>7, <1>11, <1>12, <1>13

(* Every pattern goes on with the next request.                             *)
LEMMA FollowingFollows ==
  ASSUME TestCase \in Cases, NEW l, NEW r, Valid(l, r)
  PROVE  Follows(l, r, Following(l, r))
<1>1. CASE Odd(l)
  BY <1>1, OddFollows
<1>2. CASE ~Odd(l) /\ TestCase = "dpin_0004"
  <2>1. Following(l, r) = Sequential(r, 1)
    BY <1>2 DEF Following, pattern2_0004
  <2> QED BY <1>2, <2>1, SequentialFollows
<1>3. CASE ~Odd(l) /\ TestCase = "dpin_0008"
  <2>1. Following(l, r) = Sequential(r, 1)
    BY <1>3 DEF Following, pattern2_0008
  <2> QED BY <1>3, <2>1, SequentialFollows
<1>4. CASE ~Odd(l) /\ TestCase = "dpin_0005"
  <2>1. Following(l, r) = Sequential(r, 2)
    BY <1>4 DEF Following, pattern2_0005
  <2> QED BY <1>4, <2>1, SequentialFollows
<1>5. CASE ~Odd(l) /\ TestCase = "dpin_0007"
  <2>1. Following(l, r) = pattern2_0007(r)
    BY <1>5 DEF Following
  <2> QED BY <1>5, <2>1, ChunksFollow
<1> QED BY <1>1, <1>2, <1>3, <1>4, <1>5 DEF Cases

-------------------------------------------------------------------------------
(* The pages of a request lie in its row and its zone: neither before nor   *)
(* behind it, and none the loop leaves out.                                 *)
LEMMA PagesOfRequest ==
  ASSUME TestCase \in Cases, NEW l, NEW r, Valid(l, r), NEW p \in PagesOf(r)
  PROVE  /\ p \in Nat /\ p >= first_sector /\ get_zone_num(p) = get_zone_num(r.lsn)
         /\ Masked(p) \in Nat /\ Masked(p) >= Masked(r.lsn) /\ Masked(p) < Masked(r.lsn) + r.len
         /\ ~Before(l, r, p) /\ ~After(l, r, p) /\ ~Skipped(l, p)
<1>1. PICK z \in Nat, m \in Nat, k \in Nat \ {0} :
        /\ z = get_zone_num(r.lsn) /\ m = Masked(r.lsn) /\ k = r.len
        /\ m + k <= ZoneSize /\ r.lsn = get_first_sector_in_zone(z) + m
  BY RequestPlace
<1>2. PICK f \in Nat, size \in Nat : f = get_first_sector_in_zone(z) /\ size = ZoneSize
  BY Area, ZonesInOrder
<1>3. PICK a \in Nat : a = r.lsn /\ a = f + m
  <2>1. PICK a \in Nat : a = f + m
    OBVIOUS
  <2> QED BY <1>1, <1>2, <2>1
<1>4. p \in a .. a + k - 1
  BY <1>1, <1>3 DEF PagesOf
<1>5. PICK q \in Nat, y \in Nat : q = p /\ y = q - f /\ y >= m /\ y < m + k /\ q = f + y
  <2>1. PICK q \in Nat : q = p
    BY <1>4
  <2>2. q >= a /\ q < a + k
    BY <1>4, <2>1
  <2>3. PICK y \in Nat : y = q - f
    BY <1>3, <2>2
  <2> QED BY <1>3, <2>1, <2>2, <2>3
<1>6. y \in 0 .. ZoneSize - 1
  <2>1. m + k <= size
    BY <1>1, <1>2
  <2>2. y \in 0 .. size - 1
    BY <1>5, <2>1
  <2> QED BY <1>2, <2>2
<1>7. p = get_first_sector_in_zone(z) + y
  BY <1>2, <1>5
<1>8. p \in Nat /\ p >= first_sector /\ get_zone_num(p) = z /\ Masked(p) = y
  BY <1>6, <1>7, PageOf
<1>9. ~Before(l, r, p) /\ ~After(l, r, p)
  <2>1. CASE Odd(l)
    BY <1>1, <1>5, <1>8, <2>1 DEF Before, After
  <2>2. CASE ~Odd(l)
    BY <1>1, <1>3, <1>4, <2>2 DEF Before, After
  <2> QED BY <2>1, <2>2
<1>10. ~Skipped(l, p)
  <2>1. SUFFICES ASSUME TestCase = "dpin_0005", ~Odd(l) PROVE p % 2 = 0
    <3>1. p % 2 = 0 => p % 2 # 1
      OBVIOUS
    <3> QED BY <3>1 DEF Skipped
  <2>2. r.len = 1 /\ r.lsn % 2 = 0
    BY <2>1 DEF Valid
  <2>3. q = a
    <3>1. k = 1
      BY <1>1, <2>2
    <3> QED BY <1>4, <1>5, <3>1
  <2> QED BY <1>3, <1>5, <2>2, <2>3
<1> QED BY <1>1, <1>5, <1>8, <1>9, <1>10

(* A page the loop has written, and one it leaves out as the loop before    *)
(* left it, are as they should be.                                          *)
LEMMA WrittenIsDone ==
  ASSUME NEW l \in Nat \ {0}, NEW p \in Int, ~Skipped(l, p)
  PROVE  Done(p, l, l)
<1>1. CASE TestCase = "dpin_0005" /\ ~Odd(l)
  <2>1. p % 2 # 1 /\ p % 2 \in {0, 1}
    BY <1>1 DEF Skipped
  <2> QED BY <2>1 DEF Done, PageIsOf_05, Broken
<1>2. CASE ~(TestCase = "dpin_0005" /\ ~Odd(l))
  BY <1>2 DEF Done
<1> QED BY <1>1, <1>2

(* The loops of dpin_0005 alternate.                                        *)
LEMMA OddBefore ==
  ASSUME NEW l \in Nat \ {0}
  PROVE  Odd(l - 1) <=> ~Odd(l)
BY DEF Odd

\* A page the even loops of dpin_0005 leave out counts as written.
LEMMA SkippedIsDone ==
  ASSUME NEW l \in Nat \ {0}, NEW p, NEW page \in Int, Skipped(l, p), Done(p, page, l - 1)
  PROVE  Done(p, page, l)
<1>1. TestCase = "dpin_0005" /\ ~Odd(l) /\ p % 2 = 1
  BY DEF Skipped
<1>2. page = l - 1
  BY <1>1, OddBefore DEF Done
<1>3. page # Broken
  BY <1>2 DEF Broken
<1>4. PageIsOf_05(p, page, l)
  BY <1>1, <1>2, <1>3 DEF PageIsOf_05
<1> QED BY <1>1, <1>4 DEF Done

(* A request of the pattern is where the pattern resumes.                   *)
LEMMA EntryOf ==
  ASSUME NEW l, NEW r, Valid(l, r)
  PROVE  Entry(l, r) = r /\ r # NoRequest
<1>1. r \in Requests /\ r.lsn \in Nat /\ r.len \in Nat \ {0}
  BY DEF Valid, Requests
<1>2. r # NoRequest
  BY <1>1 DEF NoRequest
<1>3. CASE TestCase = "dpin_0005" /\ ~Odd(l)
  <2>1. r.len = 1 /\ r.lsn % 2 = 0
    BY <1>3 DEF Valid
  <2>2. PICK a \in Nat : a = r.lsn /\ a + 0 = a
    BY <1>1
  <2>3. Entry_0005(r) = [lsn |-> a, len |-> 1]
    BY <2>1, <2>2 DEF Entry_0005
  <2>4. r = [lsn |-> a, len |-> 1]
    BY <1>1, <2>1, <2>2 DEF Requests
  <2> QED BY <1>2, <1>3, <2>3, <2>4 DEF Entry
<1>4. CASE ~(TestCase = "dpin_0005" /\ ~Odd(l))
  BY <1>2, <1>4 DEF Entry
<1> QED BY <1>3, <1>4

(* A loop begins with the first page.                                       *)
LEMMA FirstPlace ==
  ASSUME TestCase \in Cases, NEW l
  PROVE  /\ Valid(l, FirstRequest) /\ Entry(l, FirstRequest) = FirstRequest
         /\ \A p \in Used : ~Before(l, FirstRequest, p)
<1>1. FirstRequest.lsn = first_sector /\ FirstRequest.len = 1
  BY DEF FirstRequest
<1>2. first_sector \in Nat /\ first_sector % 2 = 0
  <2>1. get_first_sector_in_zone(0) % 2 = 0 /\ get_first_sector_in_zone(0) = first_sector
    BY EvenZones, ZonesInOrder
  <2> QED BY <2>1, Area
<1>3. get_zone_num(first_sector) = 0 /\ Masked(first_sector) = 0
  <2>1. 0 \in 0 .. ZoneSize - 1 /\ 0 \in Nat
    BY Area
  <2>2. first_sector = get_first_sector_in_zone(0) + 0
    BY <1>2, ZonesInOrder
  <2> QED BY <2>1, <2>2, PageOf
<1>4. 0 < Tested
  BY Area
<1>5. AtChunk(0, 1) /\ InArray(0) = 0
  <2>1. 1 \in 1 .. Len(Chunks) /\ 1 - 1 = 0
    BY ChunkFacts
  <2> QED BY <2>1, ChunkFacts, ChunkArray, NextInArray DEF AtChunk
<1>6. FirstRequest \in Requests /\ first_sector >= first_sector
  BY <1>2 DEF FirstRequest, Requests
<1>7. Valid(l, FirstRequest)
  BY <1>1, <1>2, <1>3, <1>4, <1>5, <1>6 DEF Valid
<1>8. ASSUME NEW p \in Used PROVE ~Before(l, FirstRequest, p)
  <2>1. PICK q \in Nat, y \in Nat, z \in Nat, f \in Nat :
          q = p /\ y = Masked(p) /\ z = get_zone_num(p) /\ f = first_sector
    BY <1>2, UsedPage
  <2>2. q >= f
    BY <2>1, UsedPage
  <2> QED BY <1>1, <1>3, <2>1, <2>2 DEF Before
<1> QED BY <1>7, <1>8, EntryOf

-------------------------------------------------------------------------------
(* The recursive function in Ahead is one, for every number of steps.       *)
LEMMA FiniteWalk ==
  ASSUME NEW a
  PROVE  \A n \in Nat : \E f : f = [i \in 0 .. n |-> IF i = 0 THEN a ELSE NextPlace(f[i - 1])]
<1> DEFINE Obeys(f, n) == f = [i \in 0 .. n |-> IF i = 0 THEN a ELSE NextPlace(f[i - 1])]
           Bad == {n \in Nat : ~ \E f : Obeys(f, n)}
<1>1. SUFFICES ASSUME Bad # {} PROVE FALSE
  OBVIOUS
<1>2. PICK n \in Bad : \A m \in Bad : n <= m
  <2>1. Bad \subseteq Nat
    OBVIOUS
  <2> QED BY <1>1, <2>1, LeastOf
<1>3. CASE n = 0
  <2> DEFINE f == [i \in 0 .. 0 |-> a]
  <2>1. f = [i \in 0 .. 0 |-> IF i = 0 THEN a ELSE NextPlace(f[i - 1])]
    OBVIOUS
  <2>2. \E h : Obeys(h, n)
    BY <1>3, <2>1, Zenon
  <2> QED BY <1>2, <2>2
<1>4. CASE n # 0
  <2>1. n - 1 \in Nat /\ n - 1 \notin Bad
    BY <1>2, <1>4
  <2>2. PICK f : Obeys(f, n - 1)
    BY <2>1
  <2> DEFINE g == [i \in 0 .. n |-> IF i = n THEN NextPlace(f[n - 1]) ELSE f[i]]
  <2>3. \A i \in 0 .. n : g[i] = IF i = 0 THEN a ELSE NextPlace(g[i - 1])
    <3> SUFFICES ASSUME NEW i \in 0 .. n
                 PROVE  g[i] = IF i = 0 THEN a ELSE NextPlace(g[i - 1])
      OBVIOUS
    <3>1. CASE i = n
      <4>1. n - 1 \in 0 .. n /\ n - 1 # n
        BY <1>2, <1>4
      <4>2. g[n - 1] = f[n - 1]
        BY <4>1
      <4> QED BY <1>4, <3>1, <4>2
    <3>2. CASE i # n
      <4>1. i \in 0 .. n - 1
        BY <3>2
      <4>2. g[i] = f[i]
        BY <3>2
      <4>3. f[i] = IF i = 0 THEN a ELSE NextPlace(f[i - 1])
        BY <2>2, <4>1
      <4>4. i # 0 => g[i - 1] = f[i - 1]
        BY <4>1
      <4> QED BY <4>2, <4>3, <4>4
    <3> QED BY <3>1, <3>2
  <2>4. g = [i \in 0 .. n |-> IF i = 0 THEN a ELSE NextPlace(g[i - 1])]
    <3>1. g = [i \in 0 .. n |-> g[i]]
      OBVIOUS
    <3> HIDE DEF g
    <3> QED BY <2>3, <3>1
  <2>5. \E h : Obeys(h, n)
    <3> HIDE DEF g
    <3> QED BY <2>4, Zenon
  <2> QED BY <1>2, <2>5
<1> QED BY <1>3, <1>4

\* Ahead by its own recursion.
LEMMA AheadIsWalk ==
  ASSUME NEW a, NEW n \in Nat
  PROVE  \E f : /\ f = [i \in 0 .. n |-> IF i = 0 THEN a ELSE NextPlace(f[i - 1])]
                /\ Ahead(a, n) = f[n]
<1>1. \E f : f = [i \in 0 .. n |-> IF i = 0 THEN a ELSE NextPlace(f[i - 1])]
  BY FiniteWalk
<1> QED BY <1>1, Zenon DEF Ahead

WalksTo(f, a, n) == \A i \in 0 .. n : f[i] = IF i = 0 THEN a ELSE NextPlace(f[i - 1])

GoesOn(w, b, n) == \A i \in 0 .. n - 1 : w[(b + i) + 1] = NextPlace(w[b + i])

(* One place leads to one: a finite walk and any other agree.               *)
LEMMA WalksAgree ==
  ASSUME NEW a, NEW n \in Nat, NEW f, NEW w, NEW b \in Nat,
         WalksTo(f, a, n), GoesOn(w, b, n), w[b] = a
  PROVE  f[n] = w[b + n]
<1> DEFINE Bad == {i \in 0 .. n : f[i] # w[b + i]}
<1>1. SUFFICES ASSUME f[n] # w[b + n] PROVE FALSE
  OBVIOUS
<1>2. PICK k \in Bad : \A m \in Bad : k <= m
  <2>1. Bad \subseteq Nat /\ n \in Bad
    BY <1>1
  <2>2. Bad # {}
    BY <2>1
  <2> HIDE DEF Bad
  <2> QED BY <2>1, <2>2, LeastOf
<1>3. \A i \in 0 .. n : f[i] = IF i = 0 THEN a ELSE NextPlace(f[i - 1])
  BY DEF WalksTo
<1>4. CASE k = 0
  <2>1. b + 0 = b /\ 0 \in 0 .. n
    OBVIOUS
  <2> QED BY <1>2, <1>3, <1>4, <2>1
<1>5. CASE k # 0
  <2>1. PICK j \in 0 .. n - 1 : j = k - 1 /\ k = j + 1 /\ k \in 0 .. n
    BY <1>2, <1>5
  <2>2. j \notin Bad /\ j \in 0 .. n
    <3>1. j \in 0 .. n /\ ~(k <= j)
      BY <2>1
    <3> HIDE DEF Bad
    <3> QED BY <1>2, <3>1
  <2>3. f[k] = NextPlace(f[j])
    BY <1>3, <1>5, <2>1
  <2>4. w[b + k] = NextPlace(w[b + j])
    <3>1. b + k = (b + j) + 1
      BY <2>1
    <3> QED BY <2>1, <3>1 DEF GoesOn
  <2> QED BY <1>2, <2>2, <2>3, <2>4
<1> QED BY <1>4, <1>5

\* So many places ahead of a place on a walk.
LEMMA AheadOnWalk ==
  ASSUME NEW w, Walks(w), NEW b \in Nat, NEW n \in Nat
  PROVE  Ahead(w[b], n) = w[b + n]
<1>1. PICK f : /\ f = [i \in 0 .. n |-> IF i = 0 THEN w[b] ELSE NextPlace(f[i - 1])]
               /\ Ahead(w[b], n) = f[n]
  BY AheadIsWalk
<1>2. GoesOn(w, b, n)
  <2>1. \A x \in Nat : w[x + 1] = NextPlace(w[x])
    BY DEF Walks
  <2> SUFFICES ASSUME NEW i \in 0 .. n - 1 PROVE w[(b + i) + 1] = NextPlace(w[b + i])
    BY DEF GoesOn
  <2>2. b + i \in Nat
    OBVIOUS
  <2> QED BY <2>1, <2>2
<1>3. WalksTo(f, w[b], n)
  BY <1>1 DEF WalksTo
<1>4. f[n] = w[b + n]
  BY <1>2, <1>3, WalksAgree
<1> QED BY <1>1, <1>4

(* There is a walk from every place.                                        *)
LEMMA SomeWalk ==
  ASSUME NEW a
  PROVE  \E w : Walks(w) /\ w[0] = a
<1> DEFINE w == [n \in Nat |-> Ahead(a, n)]
<1>1. w[0] = a
  <2>1. PICK f : /\ f = [i \in 0 .. 0 |-> IF i = 0 THEN a ELSE NextPlace(f[i - 1])]
                 /\ Ahead(a, 0) = f[0]
    BY AheadIsWalk
  <2>2. f[0] = a
    BY <2>1
  <2> QED BY <2>1, <2>2
<1>2. ASSUME NEW n \in Nat PROVE w[n + 1] = NextPlace(w[n])
  <2>1. PICK m \in Nat : m = n + 1
    OBVIOUS
  <2>2. PICK f : /\ f = [i \in 0 .. n |-> IF i = 0 THEN a ELSE NextPlace(f[i - 1])]
                 /\ Ahead(a, n) = f[n]
    BY AheadIsWalk
  <2>3. PICK g : /\ g = [i \in 0 .. m |-> IF i = 0 THEN a ELSE NextPlace(g[i - 1])]
                 /\ Ahead(a, m) = g[m]
    BY AheadIsWalk
  <2>4. \A i \in 0 .. m : g[i] = IF i = 0 THEN a ELSE NextPlace(g[i - 1])
    BY <2>3
  <2>5. GoesOn(g, 0, n)
    <3> SUFFICES ASSUME NEW i \in 0 .. n - 1 PROVE g[(0 + i) + 1] = NextPlace(g[0 + i])
      BY DEF GoesOn
    <3>1. i + 1 \in 0 .. m /\ i + 1 # 0 /\ (i + 1) - 1 = i /\ (0 + i) + 1 = i + 1 /\ 0 + i = i
      BY <2>1
    <3> QED BY <2>4, <3>1
  <2>6. g[0] = a
    <3>1. 0 \in 0 .. m
      OBVIOUS
    <3> QED BY <2>4, <3>1
  <2>7. f[n] = g[n]
    <3>1. 0 + n = n /\ 0 \in Nat
      OBVIOUS
    <3>2. WalksTo(f, a, n)
      BY <2>2 DEF WalksTo
    <3>3. f[n] = g[0 + n]
      BY <2>5, <2>6, <3>1, <3>2, WalksAgree
    <3> QED BY <3>1, <3>3
  <2>8. g[m] = NextPlace(g[n])
    <3>1. m \in 0 .. m /\ m # 0 /\ m - 1 = n
      BY <2>1
    <3> QED BY <2>4, <3>1
  <2> QED BY <2>1, <2>2, <2>3, <2>7, <2>8
<1>3. w = [n \in Nat |-> w[n]]
  OBVIOUS
<1> HIDE DEF w
<1> QED BY <1>1, <1>2, <1>3 DEF Walks

(* A walk goes on from any of its places.                                   *)
LEMMA WalkFrom ==
  ASSUME NEW w, Walks(w), NEW b \in Nat
  PROVE  \E u : Walks(u) /\ \A n \in Nat : u[n] = w[b + n]
<1> DEFINE u == [n \in Nat |-> w[b + n]]
<1>1. ASSUME NEW n \in Nat PROVE u[n + 1] = NextPlace(u[n])
  <2>1. \A x \in Nat : w[x + 1] = NextPlace(w[x])
    BY DEF Walks
  <2>2. b + n \in Nat /\ b + (n + 1) = (b + n) + 1 /\ n + 1 \in Nat
    OBVIOUS
  <2> QED BY <2>1, <2>2
<1>2. u = [n \in Nat |-> u[n]] /\ \A n \in Nat : u[n] = w[b + n]
  OBVIOUS
<1> HIDE DEF u
<1> QED BY <1>1, <1>2 DEF Walks

-------------------------------------------------------------------------------
\* A place of the pattern, and one further on in it.
InPattern(x) == x.loop \in Nat \ {0} /\ x = [loop |-> x.loop, req |-> x.req] /\ Valid(x.loop, x.req)

Onward(x, y) ==
  \/ y.loop > x.loop
  \/ y.loop = x.loop /\ \A p \in Used : After(y.loop, y.req, p) => After(x.loop, x.req, p)

\* Where a request is missing, or behind the last one of a loop.
LEMMA PlaceInPattern ==
  ASSUME TestCase \in Cases, NEW l \in Nat \ {0}, NEW r, r = NoRequest \/ Valid(l, r)
  PROVE  /\ InPattern(Place(l, r))
         /\ r = NoRequest => Place(l, r) = [loop |-> l + 1, req |-> FirstRequest]
         /\ r # NoRequest => Place(l, r) = [loop |-> l, req |-> r]
<1>1. CASE r = NoRequest
  <2>1. PICK m \in Nat \ {0} : m = l + 1
    OBVIOUS
  <2>2. Valid(m, FirstRequest) /\ Entry(m, FirstRequest) = FirstRequest
    BY FirstPlace
  <2>3. Place(l, r) = [loop |-> m, req |-> FirstRequest]
    BY <1>1, <2>1, <2>2 DEF Place
  <2> QED BY <1>1, <2>1, <2>2, <2>3 DEF InPattern
<1>2. CASE r # NoRequest
  BY <1>2 DEF Place, InPattern
<1> QED BY <1>1, <1>2

\* The place behind a place lies onward of it.
LEMMA NextOnward ==
  ASSUME TestCase \in Cases, NEW x, InPattern(x)
  PROVE  InPattern(NextPlace(x)) /\ Onward(x, NextPlace(x))
<1>1. PICK l \in Nat \ {0}, r \in Requests : l = x.loop /\ r = x.req /\ Valid(l, r)
  BY DEF InPattern, Valid
<1>2. PICK n : n = Following(l, r)
  OBVIOUS
<1>3. Follows(l, r, n)
  BY <1>1, <1>2, FollowingFollows
<1>4. n = NoRequest \/ Valid(l, n)
  BY <1>3 DEF Follows
<1>5. NextPlace(x) = Place(l, n)
  BY <1>1, <1>2 DEF NextPlace
<1>6. InPattern(Place(l, n))
  BY <1>4, PlaceInPattern
<1>7. CASE n = NoRequest
  <2>1. Place(l, n).loop = l + 1
    BY <1>7, PlaceInPattern
  <2> QED BY <1>1, <1>5, <1>6, <2>1 DEF Onward
<1>8. CASE n # NoRequest
  <2>1. Place(l, n).loop = l /\ Place(l, n).req = n
    BY <1>4, <1>8, PlaceInPattern
  <2>2. \A p \in Used : After(l, n, p) => After(l, r, p)
    BY <1>3, <1>8 DEF Follows
  <2> QED BY <1>1, <1>5, <1>6, <2>1, <2>2 DEF Onward
<1> QED BY <1>7, <1>8

(* A walk stays in the pattern, and goes onward only.                       *)
LEMMA WalkInPattern ==
  ASSUME TestCase \in Cases, NEW w, Walks(w), InPattern(w[0])
  PROVE  \A n \in Nat : InPattern(w[n])
<1> DEFINE Bad == {n \in Nat : ~InPattern(w[n])}
<1>1. \A n \in Nat : w[n + 1] = NextPlace(w[n])
  BY DEF Walks
<1>2. SUFFICES ASSUME Bad # {} PROVE FALSE
  OBVIOUS
<1>3. PICK k \in Bad : \A m \in Bad : k <= m
  <2>1. Bad \subseteq Nat
    OBVIOUS
  <2> HIDE DEF Bad
  <2> QED BY <1>2, <2>1, LeastOf
<1>4. k \in Nat /\ k # 0 /\ ~InPattern(w[k])
  BY <1>3
<1>5. PICK j \in Nat : k = j + 1
  <2>1. k - 1 \in Nat /\ k = (k - 1) + 1
    BY <1>4
  <2> QED BY <2>1
<1>6. j \notin Bad
  <2>1. ~(k <= j)
    BY <1>5
  <2> HIDE DEF Bad
  <2> QED BY <1>3, <2>1
<1>7. InPattern(w[j])
  BY <1>6
<1>8. w[k] = NextPlace(w[j])
  BY <1>1, <1>5
<1> QED BY <1>4, <1>7, <1>8, NextOnward

\* Onward of what lies onward.
LEMMA OnwardTransitive ==
  ASSUME NEW x, NEW y, NEW z, InPattern(x), InPattern(y), InPattern(z), Onward(x, y), Onward(y, z)
  PROVE  Onward(x, z)
<1>1. PICK a \in Nat, b \in Nat, c \in Nat : a = x.loop /\ b = y.loop /\ c = z.loop
  BY DEF InPattern
<1>2. CASE b > a \/ c > b
  <2>1. b >= a /\ c >= b
    BY <1>1 DEF Onward
  <2> QED BY <1>1, <1>2, <2>1 DEF Onward
<1>3. CASE a = b /\ b = c
  <2>1. ~(b > a) /\ ~(c > b)
    BY <1>3
  <2> QED BY <1>1, <1>3, <2>1 DEF Onward
<1> QED BY <1>1, <1>2, <1>3 DEF Onward

\* A walk never turns back.
LEMMA WalkOnward ==
  ASSUME TestCase \in Cases, NEW w, Walks(w), InPattern(w[0])
  PROVE  \A a, b \in Nat : a <= b => Onward(w[a], w[b])
<1> SUFFICES ASSUME NEW a \in Nat PROVE \A b \in Nat : a <= b => Onward(w[a], w[b])
  OBVIOUS
<1> DEFINE Bad == {b \in Nat : a <= b /\ ~Onward(w[a], w[b])}
<1>1. \A n \in Nat : w[n + 1] = NextPlace(w[n]) /\ InPattern(w[n])
  BY WalkInPattern DEF Walks
<1>2. SUFFICES ASSUME Bad # {} PROVE FALSE
  OBVIOUS
<1>3. PICK k \in Bad : \A m \in Bad : k <= m
  <2>1. Bad \subseteq Nat
    OBVIOUS
  <2> HIDE DEF Bad
  <2> QED BY <1>2, <2>1, LeastOf
<1>4. k \in Nat /\ a <= k /\ ~Onward(w[a], w[k])
  BY <1>3
<1>5. k # a
  <2>1. Onward(w[a], w[a])
    BY DEF Onward
  <2> QED BY <1>4, <2>1
<1>6. PICK j \in Nat : k = j + 1 /\ a <= j
  <2>1. k - 1 \in Nat /\ k = (k - 1) + 1 /\ a <= k - 1
    BY <1>4, <1>5
  <2> QED BY <2>1
<1>7. j \notin Bad
  <2>1. ~(k <= j)
    BY <1>6
  <2> HIDE DEF Bad
  <2> QED BY <1>3, <2>1
<1>8. Onward(w[a], w[j])
  BY <1>6, <1>7
<1>9. w[k] = NextPlace(w[j]) /\ InPattern(w[a]) /\ InPattern(w[j]) /\ InPattern(w[k])
  BY <1>1, <1>4, <1>6
<1>10. Onward(w[j], w[k])
  BY <1>9, NextOnward
<1> QED BY <1>4, <1>8, <1>9, <1>10, OnwardTransitive

(* What is untouched behind a place of the phase is untouched behind one    *)
(* further on.                                                              *)
LEMMA StillUntouched ==
  ASSUME TestCase \in Cases, NEW w, Walks(w), InPattern(w[0]), NEW l, l = w[0].loop,
         NEW a \in Nat, NEW b \in Nat, a <= b, NEW d, UntouchedBeyond(d, l, w[a])
  PROVE  UntouchedBeyond(d, l, w[b])
<1>1. Onward(w[0], w[a]) /\ Onward(w[a], w[b])
  BY WalkOnward
<1>2. InPattern(w[a]) /\ InPattern(w[b])
  BY WalkInPattern
<1>3. PICK i \in Nat, j \in Nat, k \in Nat : i = l /\ j = w[a].loop /\ k = w[b].loop
  BY <1>2 DEF InPattern
<1>4. SUFFICES ASSUME k = i PROVE UntouchedFrom(d, l, w[b].req)
  BY <1>3 DEF UntouchedBeyond
<1>5. i <= j /\ j <= k
  BY <1>1, <1>3 DEF Onward
<1>6. i = j /\ j = k
  BY <1>4, <1>5
<1>7. UntouchedFrom(d, l, w[a].req)
  BY <1>3, <1>6 DEF UntouchedBeyond
<1>8. \A p \in Used : After(l, w[b].req, p) => After(l, w[a].req, p)
  BY <1>1, <1>3, <1>6 DEF Onward
<1> QED BY <1>7, <1>8 DEF UntouchedFrom

(* A request of the phase reaches nothing behind a later place of it.       *)
LEMMA NothingBehind ==
  ASSUME TestCase \in Cases, NEW w, Walks(w), InPattern(w[0]),
         NEW a \in Nat, NEW b \in Nat, a <= b, w[a].loop = w[b].loop,
         NEW p \in Used, p \in PagesOf(w[a].req)
  PROVE  ~After(w[b].loop, w[b].req, p)
<1>1. Onward(w[a], w[b]) /\ InPattern(w[a])
  BY WalkOnward, WalkInPattern
<1>2. ~After(w[a].loop, w[a].req, p)
  BY <1>1, PagesOfRequest DEF InPattern
<1>3. PICK i \in Nat : i = w[a].loop /\ ~(i > i)
  BY <1>1 DEF InPattern
<1> QED BY <1>1, <1>2, <1>3 DEF Onward

-------------------------------------------------------------------------------
\* The last request the prediction counts to, from the n-th of the phase on.
Reach(n) ==
  IF (n - 1) \div FlushCycle = 0 THEN FlushCycle
                                 ELSE (((n - 1) \div FlushCycle) * FlushCycle) + FlushCycle - 1

(* Between two commits lie fewer requests than a flush cycle: no prediction *)
(* falls short of what the phase may have written.                          *)
LEMMA ReachFarEnough ==
  ASSUME NEW c \in Nat \ {0}, NEW n \in Nat \ {0}, n <= c,
         n >= c - 1 \/ \A j \in n .. c - 1 : ~IsCommit(j)
  PROVE  /\ Reach(n) \in Nat
         /\ Reach(n) > n => Horizon(c) <= Reach(n) - 1
         /\ ~(Reach(n) > n) => Horizon(c) <= n - 1
         /\ Horizon(c) <= n + FlushCycle - 2
         /\ Horizon(c) \in Nat /\ c - 2 <= Horizon(c)
<1>1. PICK fc \in Nat \ {0} : fc = FlushCycle
  BY FlushCycleAssumption
<1>2. PICK q \in Int, m \in 0 .. fc - 1 : n - 1 = (q * fc) + m /\ q = (n - 1) \div fc
  <2>1. PICK x \in Nat : x = n - 1
    OBVIOUS
  <2>2. x \div fc \in Int /\ x = ((x \div fc) * fc) + (x % fc) /\ x % fc \in 0 .. fc - 1
    BY DivMod
  <2> QED BY <2>1, <2>2
<1>3. PICK e \in Int : e = q * fc /\ e + fc = (q + 1) * fc
  OBVIOUS
<1>4. e >= 0
  <2>1. q >= 0
    <3>1. SUFFICES ASSUME q <= -1 PROVE FALSE
      OBVIOUS
    <3>2. q * fc <= (-1) * fc
      BY <3>1, MultiplesInOrder
    <3>3. (-1) * fc = -fc /\ e <= -fc
      BY <1>3, <3>2
    <3>4. n - 1 = e + m
      BY <1>2, <1>3
    <3> QED BY <3>3, <3>4
  <2>2. 0 * fc <= q * fc
    BY <2>1, MultiplesInOrder
  <2> QED BY <1>3, <2>2
<1>5. n - 1 = e + m /\ e + fc >= n
  BY <1>2, <1>3
<1>6. (e + fc) % fc = 0
  <2>1. PICK y \in Int, u \in Int : y = e + fc /\ u = q + 1
    OBVIOUS
  <2>2. y = (u * fc) + 0 /\ 0 \in 0 .. fc - 1
    BY <1>3, <2>1
  <2>3. y % fc = 0
    BY ONLY <2>2, y \in Int, u \in Int, fc \in Nat \ {0}, OneDivision
  <2> QED BY <2>1, <2>3
<1>7. n >= c - 1 \/ e + fc >= c
  <2>1. SUFFICES ASSUME ~(n >= c - 1), e + fc <= c - 1 PROVE FALSE
    BY <1>4
  <2>2. e + fc \in n .. c - 1
    BY <1>5, <2>1
  <2>3. IsCommit(e + fc)
    BY <1>1, <1>6 DEF IsCommit
  <2> QED BY <2>1, <2>2, <2>3
<1>8. Reach(n) = IF q = 0 THEN fc ELSE e + fc - 1
  BY <1>1, <1>2, <1>3 DEF Reach
<1>9. q = 0 => e = 0
  BY <1>3
<1>10. q # 0 => e >= fc
  <2>1. SUFFICES ASSUME q >= 1 PROVE e >= fc
    <3>1. q >= 0 \/ q <= -1
      OBVIOUS
    <3>2. q <= -1 => q * fc <= (-1) * fc
      BY MultiplesInOrder
    <3>3. (-1) * fc < 0
      OBVIOUS
    <3>4. ~(q <= -1)
      BY <1>3, <1>4, <3>2, <3>3
    <3> QED BY <3>1, <3>4
  <2>2. 1 * fc <= q * fc
    BY <2>1, MultiplesInOrder
  <2> QED BY <1>3, <2>2
<1>11. Horizon(c) = IF c - 1 > fc THEN c - 2 ELSE fc - 1
  BY <1>1 DEF Horizon
<1>12. PICK r \in Nat : r = Reach(n) /\ r >= fc /\ r >= e + fc - 1
  BY <1>4, <1>8, <1>9, <1>10
<1>13. PICK h \in Nat : h = Horizon(c) /\ h = IF c - 1 > fc THEN c - 2 ELSE fc - 1
  BY <1>11
<1>14. /\ r > n => h <= r - 1
       /\ ~(r > n) => h <= n - 1
       /\ h <= n + fc - 2 /\ c - 2 <= h
  BY <1>5, <1>7, <1>12, <1>13
<1> QED BY <1>1, <1>12, <1>13, <1>14

(* What the prediction looks up on the walk.                                *)
LEMMA PredictedOnWalk ==
  ASSUME NEW w, Walks(w), NEW n \in Nat \ {0}, Reach(n) \in Nat
  PROVE  Predicted(w[n - 1], n) = IF Reach(n) > n THEN w[Reach(n) - 1] ELSE w[n - 1]
<1>1. PICK r \in Nat, b \in Nat : r = Reach(n) /\ b = n - 1
  OBVIOUS
<1>2. Predicted(w[b], n) = Ahead(w[b], IF r > n THEN r - n ELSE 0)
  BY <1>1 DEF Predicted, Reach
<1>3. CASE r > n
  <2>1. PICK k \in Nat : k = r - n /\ b + k = r - 1
    BY <1>1, <1>3
  <2>2. Ahead(w[b], k) = w[b + k]
    BY AheadOnWalk
  <2> QED BY <1>1, <1>2, <1>3, <2>1, <2>2
<1>4. CASE ~(r > n)
  <2>1. Ahead(w[b], 0) = w[b + 0] /\ b + 0 = b
    BY AheadOnWalk
  <2> QED BY <1>1, <1>2, <1>4, <2>1
<1> QED BY <1>3, <1>4

-------------------------------------------------------------------------------
\* What is stored, page by page.
LEMMA StoredPage ==
  ASSUME NEW d \in [Pages -> Int], NEW R, NEW l \in Nat
  PROVE  /\ Store(d, R, l) \in [Pages -> Int]
         /\ \A p \in Pages : /\ (\E q \in R : p \in PagesOf(q)) => Store(d, R, l)[p] = l
                             /\ (\A q \in R : p \notin PagesOf(q)) => Store(d, R, l)[p] = d[p]
<1> DEFINE stored == UNION {PagesOf(q) : q \in R}
<1>1. Store(d, R, l) = [p \in Pages |-> IF p \in stored THEN l ELSE d[p]]
  BY Zenon DEF Store
<1>2. ASSUME NEW p PROVE p \in stored <=> \E q \in R : p \in PagesOf(q)
  OBVIOUS
<1> HIDE DEF stored
<1>3. Store(d, R, l) \in [Pages -> Int]
  BY <1>1
<1>4. \A p \in Pages : Store(d, R, l)[p] = IF p \in stored THEN l ELSE d[p]
  BY <1>1
<1> QED BY <1>2, <1>3, <1>4

(* What is written of the loop's requests makes no page of the loop worse,  *)
(* and touches none that the loop leaves out or that lies before the area.  *)
LEMMA StoreKeeps ==
  ASSUME TestCase \in Cases, NEW d \in [Pages -> Int], NEW R, NEW l \in Nat \ {0},
         \A q \in R : \E r : Valid(l, r) /\ PagesOf(q) \subseteq PagesOf(r)
  PROVE  /\ \A p \in Used :
              /\ Done(p, d[p], l) => Done(p, Store(d, R, l)[p], l)
              /\ (\E q \in R : p \in PagesOf(q)) => Done(p, Store(d, R, l)[p], l)
              /\ (\A q \in R : p \notin PagesOf(q)) => Store(d, R, l)[p] = d[p]
         /\ SkippedKept(d, l) => SkippedKept(Store(d, R, l), l)
         /\ \A p \in Pages : p < first_sector => Store(d, R, l)[p] = d[p]
<1>1. \A p \in Pages : /\ (\E q \in R : p \in PagesOf(q)) => Store(d, R, l)[p] = l
                       /\ (\A q \in R : p \notin PagesOf(q)) => Store(d, R, l)[p] = d[p]
  BY StoredPage
<1>2. ASSUME NEW p, NEW q \in R, p \in PagesOf(q)
      PROVE  p \in Nat /\ p >= first_sector /\ ~Skipped(l, p)
  <2>1. PICK r : Valid(l, r) /\ PagesOf(q) \subseteq PagesOf(r)
    OBVIOUS
  <2>2. p \in PagesOf(r)
    BY <1>2, <2>1
  <2> QED BY <2>1, <2>2, PagesOfRequest
<1>3. ASSUME NEW p \in Used
      PROVE  /\ Done(p, d[p], l) => Done(p, Store(d, R, l)[p], l)
             /\ (\E q \in R : p \in PagesOf(q)) => Done(p, Store(d, R, l)[p], l)
             /\ (\A q \in R : p \notin PagesOf(q)) => Store(d, R, l)[p] = d[p]
             /\ Skipped(l, p) => Store(d, R, l)[p] = d[p]
  <2>1. p \in Pages /\ p \in Int
    BY UsedPage
  <2>2. CASE \E q \in R : p \in PagesOf(q)
    <3>1. Store(d, R, l)[p] = l /\ ~Skipped(l, p)
      BY <1>1, <1>2, <2>1, <2>2
    <3> QED BY <2>1, <2>2, <3>1, WrittenIsDone
  <2>3. CASE \A q \in R : p \notin PagesOf(q)
    <3>1. Store(d, R, l)[p] = d[p]
      BY <1>1, <2>1, <2>3
    <3> QED BY <2>3, <3>1
  <2> QED BY <2>2, <2>3
<1>4. SkippedKept(d, l) => SkippedKept(Store(d, R, l), l)
  BY <1>3 DEF SkippedKept
<1>5. ASSUME NEW p \in Pages, p < first_sector PROVE Store(d, R, l)[p] = d[p]
  <2>1. PICK f \in Nat, a \in Nat : f = first_sector /\ a = p
    BY Area, AreaAssumption DEF Pages
  <2>2. \A q \in R : p \notin PagesOf(q)
    BY <1>2, <1>5, <2>1
  <2> QED BY <1>1, <2>2
<1> QED BY <1>3, <1>4, <1>5

(* A request that is written without a cache.                               *)
LEMMA WrittenUncached ==
  ASSUME TestCase \in Cases, ~CacheOn, NEW d \in [Pages -> Int], NEW l \in Nat \ {0},
         NEW r, r # NoRequest, NEW c, NEW ca, NEW v, WritingOK(d, l, r, c, ca, v)
  PROVE  WritingOK(Store(d, {r}, l), l, Following(l, r), c + 1, ca, v)
<1> DEFINE d2 == Store(d, {r}, l)
           n  == Following(l, r)
<1>1. /\ Valid(l, r) /\ ca = <<>> /\ c \in Nat \ {0}
      /\ FrontCovered(d, l, r, ca) /\ SkippedKept(d, l) /\ UntouchedFrom(d, l, r)
  BY DEF WritingOK, Counted
<1>2. /\ \A p \in Used : /\ Done(p, d[p], l) => Done(p, d2[p], l)
                         /\ p \in PagesOf(r) => Done(p, d2[p], l)
                         /\ p \notin PagesOf(r) => d2[p] = d[p]
      /\ SkippedKept(d2, l)
  <2>1. \A q \in {r} : Valid(l, r) /\ PagesOf(q) \subseteq PagesOf(r)
    BY <1>1
  <2>2. \A q \in {r} : \E s : Valid(l, s) /\ PagesOf(q) \subseteq PagesOf(s)
    BY <2>1
  <2>3. /\ \A p \in Used :
             /\ Done(p, d[p], l) => Done(p, Store(d, {r}, l)[p], l)
             /\ (\E q \in {r} : p \in PagesOf(q)) => Done(p, Store(d, {r}, l)[p], l)
             /\ (\A q \in {r} : p \notin PagesOf(q)) => Store(d, {r}, l)[p] = d[p]
        /\ SkippedKept(d, l) => SkippedKept(Store(d, {r}, l), l)
    BY <2>2, StoreKeeps
  <2> QED BY <1>1, <2>3
<1>3. Follows(l, r, n)
  BY <1>1, FollowingFollows
<1>4. ASSUME NEW p \in Used PROVE d[p] \in Int /\ d2[p] \in Int
  <2>1. p \in Pages
    BY UsedPage
  <2> QED BY <2>1, StoredPage
<1> HIDE DEF d2, n
<1>5. FrontCovered(d2, l, n, ca)
  <2> SUFFICES ASSUME NEW p \in Used, n = NoRequest \/ Before(l, n, p)
               PROVE  Done(p, d2[p], l)
    BY DEF FrontCovered
  <2>1. Before(l, r, p) \/ p \in PagesOf(r) \/ Skipped(l, p)
    BY <1>3 DEF Follows
  <2>2. CASE Before(l, r, p)
    <3>1. ~InCache(p, ca, Len(ca))
      BY <1>1 DEF InCache
    <3> QED BY <1>1, <1>2, <2>2, <3>1 DEF FrontCovered
  <2>3. CASE p \in PagesOf(r)
    BY <1>2, <2>3
  <2>4. CASE Skipped(l, p)
    <3>1. Done(p, d2[p], l - 1)
      BY <1>2, <2>4 DEF SkippedKept
    <3> QED BY <1>4, <2>4, <3>1, SkippedIsDone
  <2> QED BY <2>1, <2>2, <2>3, <2>4
<1>6. CacheCovers(d2, l, ca)
  BY <1>1 DEF CacheCovers
<1>7. Counted(c + 1, ca)
  BY <1>1 DEF Counted, CommitAlone
<1>8. n # NoRequest => UntouchedFrom(d2, l, n)
  <2> SUFFICES ASSUME n # NoRequest, NEW p \in Used, After(l, n, p)
               PROVE  Done(p, d2[p], l - 1)
    BY DEF UntouchedFrom
  <2>1. After(l, r, p)
    BY <1>3 DEF Follows
  <2>2. p \notin PagesOf(r)
    BY <1>1, <2>1, PagesOfRequest
  <2> QED BY <1>1, <1>2, <2>1, <2>2 DEF UntouchedFrom
<1>9. n = NoRequest \/ Valid(l, n)
  BY <1>3 DEF Follows
<1>10. WritingOK(d2, l, n, c + 1, ca, v)
  BY <1>1, <1>2, <1>5, <1>6, <1>7, <1>8, <1>9 DEF WritingOK
<1> QED BY <1>10 DEF d2, n

(* A request that is written to the cache.                                  *)
LEMMA WrittenCached ==
  ASSUME TestCase \in Cases, CacheOn, NEW d \in [Pages -> Int], NEW l \in Nat \ {0},
         NEW r, r # NoRequest, NEW c \in Nat \ {0}, NEW ca \in Seq(Requests), NEW v,
         Valid(v.loop, Resume(v)), v.loop \in Nat \ {0},
         WritingOK(d, l, r, c, ca, v),
         ca = <<>> \/ (~IsCommit(c) /\ ~(c > 1 /\ IsCommit(c - 1)))
  PROVE  WritingOK(d, l, Following(l, r), c + 1, Append(ca, r), v)
<1> DEFINE cb == Append(ca, r)
           n  == Following(l, r)
<1>1. /\ Valid(l, r) /\ FrontCovered(d, l, r, ca) /\ CacheCovers(d, l, ca) /\ SkippedKept(d, l)
      /\ c \in Nat \ {0} /\ Len(ca) <= c - 1 /\ CommitAlone(c, ca)
  BY DEF WritingOK, Counted
<1>2. PICK w : OnWalk(w, d, l, r, c, ca, v)
  BY DEF WritingOK
<1>3. Follows(l, r, n)
  BY <1>1, FollowingFollows
<1>4. PICK m \in Nat : m = Len(ca)
  OBVIOUS
<1>5. r \in Requests
  BY <1>1 DEF Valid
<1>6. /\ Len(cb) = m + 1 /\ cb[m + 1] = r
      /\ \A i \in 1 .. m : cb[i] = ca[i]
  BY <1>4, <1>5
<1>7. \A p, x \in Nat : x <= m => (InCache(p, cb, x) <=> InCache(p, ca, x))
  BY <1>4, <1>6 DEF InCache
<1>8. ASSUME NEW p \in Used PROVE p \in Nat /\ d[p] \in Int
  <2>1. p \in Pages /\ p \in Nat
    BY UsedPage
  <2> QED BY <2>1
<1> HIDE DEF cb, n
<1>9. FrontCovered(d, l, n, cb)
  <2> SUFFICES ASSUME NEW p \in Used, n = NoRequest \/ Before(l, n, p)
               PROVE  Done(p, d[p], l) \/ InCache(p, cb, m + 1)
    BY <1>6 DEF FrontCovered
  <2>1. Before(l, r, p) \/ p \in PagesOf(r) \/ Skipped(l, p)
    BY <1>3 DEF Follows
  <2>2. CASE Before(l, r, p)
    <3>1. Done(p, d[p], l) \/ InCache(p, ca, m)
      BY <1>1, <1>4, <2>2 DEF FrontCovered
    <3>2. InCache(p, ca, m) => InCache(p, cb, m + 1)
      BY <1>6 DEF InCache
    <3> QED BY <3>1, <3>2
  <2>3. CASE p \in PagesOf(r)
    <3>1. m + 1 \in 1 .. m + 1
      OBVIOUS
    <3> QED BY <1>6, <2>3, <3>1 DEF InCache
  <2>4. CASE Skipped(l, p)
    <3>1. Done(p, d[p], l - 1)
      BY <1>1, <2>4 DEF SkippedKept
    <3> QED BY <1>8, <2>4, <3>1, SkippedIsDone
  <2> QED BY <2>1, <2>2, <2>3, <2>4
<1>10. CacheCovers(d, l, cb)
  <2> SUFFICES ASSUME NEW i \in 1 .. m + 1, NEW p \in Used, Before(l, cb[i], p)
               PROVE  Done(p, d[p], l) \/ InCache(p, cb, i - 1)
    BY <1>6 DEF CacheCovers
  <2>1. CASE i = m + 1
    <3>1. Before(l, r, p)
      BY <1>6, <2>1
    <3>2. Done(p, d[p], l) \/ InCache(p, ca, m)
      BY <1>1, <1>4, <3>1 DEF FrontCovered
    <3>3. i - 1 = m /\ m <= m
      BY <2>1
    <3>4. InCache(p, ca, m) => InCache(p, cb, m)
      BY <1>7, <1>8, <3>3
    <3> QED BY <3>2, <3>3, <3>4
  <2>2. CASE i # m + 1
    <3>1. PICK j \in 1 .. m : j = i /\ j - 1 \in Nat /\ j - 1 <= m
      BY <2>2
    <3>2. Before(l, ca[j], p)
      BY <1>6, <3>1
    <3>3. Done(p, d[p], l) \/ InCache(p, ca, j - 1)
      BY <1>1, <1>4, <3>2 DEF CacheCovers
    <3>4. InCache(p, ca, j - 1) => InCache(p, cb, j - 1)
      BY <1>7, <1>8, <3>1
    <3> QED BY <3>1, <3>3, <3>4
  <2> QED BY <2>1, <2>2
<1>11. Counted(c + 1, cb)
  <2>1. c + 1 \in Nat \ {0} /\ m + 1 <= c + 1 - 1
    BY <1>1, <1>4
  <2>2. ASSUME NEW j \in c - m .. c, IsCommit(j) PROVE m = 0
    <3>1. SUFFICES ASSUME m # 0 PROVE FALSE
      OBVIOUS
    <3>2. ca # <<>>
      BY <1>4, <3>1
    <3>3. j # c
      BY <2>2, <3>2
    <3>4. j \in c - m .. c - 1
      BY <1>1, <2>2, <3>3
    <3>5. m = 1
      BY <1>1, <1>4, <2>2, <3>4 DEF CommitAlone
    <3>6. j = c - 1 /\ c > 1
      BY <1>1, <1>4, <3>4, <3>5
    <3> QED BY <2>2, <3>2, <3>6
  <2>3. (c + 1) - (m + 1) = c - m /\ (c + 1) - 1 = c
    BY <1>1
  <2>4. \A j \in (c + 1) - (m + 1) .. (c + 1) - 1 : IsCommit(j) => m + 1 = 1
    BY <2>2, <2>3
  <2>5. Len(cb) = m + 1
    BY <1>6
  <2>6. CommitAlone(c + 1, cb)
    <3> SUFFICES ASSUME NEW j \in (c + 1) - Len(cb) .. (c + 1) - 1, IsCommit(j) PROVE Len(cb) = 1
      BY DEF CommitAlone
    <3> QED BY <2>4, <2>5
  <2>7. Len(cb) <= (c + 1) - 1
    BY <1>1, <1>4, <2>5
  <2> QED BY <2>1, <2>6, <2>7, Zenon DEF Counted
<1>12. OnWalk(w, d, l, n, c + 1, cb, v)
  <2>1. /\ l = v.loop /\ Walks(w) /\ w[0] = Start(v) /\ w[c - 1] = Place(l, r)
        /\ CachedOnWalk(w, l, c, ca) /\ UntouchedBeyond(d, l, w[Horizon(c)])
    BY <1>2 DEF OnWalk
  <2>2. PICK b \in Nat : b = c - 1 /\ (c + 1) - 1 = b + 1
    BY <1>1
  <2>3. w[b] = [loop |-> l, req |-> r]
    BY <1>1, <2>1, <2>2, PlaceInPattern
  <2>4. w[b + 1] = Place(l, n)
    <3>1. w[b + 1] = NextPlace(w[b])
      BY <2>1 DEF Walks
    <3> QED BY <2>3, <3>1 DEF NextPlace, n
  <2>5. CachedOnWalk(w, l, c + 1, cb)
    <3> SUFFICES ASSUME NEW i \in 1 .. m + 1
                 PROVE  w[(c + 1) - (m + 1) + i - 2] = [loop |-> l, req |-> cb[i]]
      BY <1>6 DEF CachedOnWalk
    <3>1. (c + 1) - (m + 1) + i - 2 = c - m + i - 2
      BY <1>1
    <3>2. CASE i = m + 1
      <4>1. c - m + i - 2 = b
        BY <1>1, <2>2, <3>2
      <4> QED BY <1>6, <2>3, <3>1, <3>2, <4>1
    <3>3. CASE i # m + 1
      <4>1. i \in 1 .. m
        BY <3>3
      <4>2. w[c - m + i - 2] = [loop |-> l, req |-> ca[i]]
        BY <1>4, <2>1, <4>1 DEF CachedOnWalk
      <4> QED BY <1>6, <3>1, <4>1, <4>2
    <3> QED BY <3>2, <3>3
  <2>6. UntouchedBeyond(d, l, w[Horizon(c + 1)])
    <3>1. PICK fc \in Nat \ {0} : fc = FlushCycle
      BY FlushCycleAssumption
    <3>2. Horizon(c) \in Nat /\ Horizon(c + 1) \in Nat /\ Horizon(c) <= Horizon(c + 1)
      BY <1>1, <3>1 DEF Horizon
    <3>3. InPattern(w[0]) /\ w[0].loop = l
      BY <2>1 DEF InPattern, Start, Resume
    <3> QED BY <2>1, <3>2, <3>3, StillUntouched
  <2> QED BY <2>1, <2>2, <2>4, <2>5, <2>6 DEF OnWalk
<1>13. n = NoRequest \/ Valid(l, n)
  BY <1>3 DEF Follows
<1>14. WritingOK(d, l, n, c + 1, cb, v)
  BY <1>1, <1>9, <1>10, <1>11, <1>12, <1>13 DEF WritingOK
<1> QED BY <1>14 DEF cb, n

(* Requests of the cache that reach the device reach nothing behind what    *)
(* the phase may have written.                                              *)
LEMMA StoredBehind ==
  ASSUME TestCase \in Cases, NEW d \in [Pages -> Int], NEW l \in Nat \ {0},
         NEW r, NEW c \in Nat \ {0}, NEW ca \in Seq(Requests), NEW v,
         Valid(v.loop, Resume(v)), v.loop \in Nat \ {0},
         \A i \in 1 .. Len(ca) : Valid(l, ca[i]), Len(ca) <= c - 1,
         NEW w, OnWalk(w, d, l, r, c, ca, v),
         NEW R, \A q \in R : \E i \in 1 .. Len(ca) : q = ca[i],
         NEW b \in Nat, Horizon(c) \in Nat, Horizon(c) <= b, c - 2 <= Horizon(c)
  PROVE  UntouchedBeyond(Store(d, R, l), l, w[b])
<1>1. /\ l = v.loop /\ Walks(w) /\ w[0] = Start(v) /\ CachedOnWalk(w, l, c, ca)
      /\ UntouchedBeyond(d, l, w[Horizon(c)])
  BY DEF OnWalk
<1>2. InPattern(w[0]) /\ w[0].loop = l
  BY <1>1 DEF InPattern, Start, Resume
<1>3. UntouchedBeyond(d, l, w[b])
  BY <1>1, <1>2, StillUntouched
<1>4. SUFFICES ASSUME w[b].loop = l, NEW p \in Used, After(l, w[b].req, p)
               PROVE  Done(p, Store(d, R, l)[p], l - 1)
  BY DEF UntouchedBeyond, UntouchedFrom
<1>5. Done(p, d[p], l - 1)
  BY <1>3, <1>4 DEF UntouchedBeyond, UntouchedFrom
<1>6. PICK m \in Nat : m = Len(ca)
  OBVIOUS
<1>7. ASSUME NEW q \in R PROVE p \notin PagesOf(q)
  <2>1. PICK i \in 1 .. m : q = ca[i]
    BY <1>6
  <2>2. PICK h \in Nat : h = Horizon(c)
    OBVIOUS
  <2>3. PICK x \in Nat : x = c - m + i - 2 /\ x <= b
    <3>1. m <= c - 1 /\ h <= b /\ c - 2 <= h
      BY <1>6, <2>2
    <3>2. c - m + i - 2 \in Nat /\ c - m + i - 2 <= b
      BY <3>1
    <3> QED BY <3>2
  <2>4. w[x] = [loop |-> l, req |-> q]
    BY <1>1, <1>6, <2>1, <2>3 DEF CachedOnWalk
  <2>5. w[x].loop = w[b].loop /\ w[x].req = q
    BY <1>4, <2>4
  <2> QED BY <1>1, <1>2, <1>4, <2>3, <2>5, NothingBehind
<1>8. p \in Pages
  BY UsedPage
<1>9. Store(d, R, l)[p] = d[p]
  BY <1>7, <1>8, StoredPage
<1> QED BY <1>5, <1>9

(* The cache is flushed.                                                    *)
LEMMA Flushed ==
  ASSUME TestCase \in Cases, CacheOn, NEW d \in [Pages -> Int], NEW l \in Nat \ {0},
         NEW r, NEW c \in Nat \ {0}, NEW ca \in Seq(Requests), NEW v,
         Valid(v.loop, Resume(v)), v.loop \in Nat \ {0},
         \A i \in 1 .. Len(ca) : Valid(l, ca[i]),
         WritingOK(d, l, r, c, ca, v)
  PROVE  WritingOK(Store(d, Elements(ca), l), l, r, c, <<>>, v)
<1> DEFINE d2 == Store(d, Elements(ca), l)
<1>1. /\ r = NoRequest \/ Valid(l, r)
      /\ FrontCovered(d, l, r, ca) /\ SkippedKept(d, l) /\ Len(ca) <= c - 1
  BY DEF WritingOK, Counted
<1>2. PICK w : OnWalk(w, d, l, r, c, ca, v)
  BY DEF WritingOK
<1>3. \A q : q \in Elements(ca) <=> \E i \in 1 .. Len(ca) : q = ca[i]
  BY DEF Elements
<1>4. /\ \A p \in Used : /\ Done(p, d[p], l) => Done(p, d2[p], l)
                         /\ (\E q \in Elements(ca) : p \in PagesOf(q)) => Done(p, d2[p], l)
      /\ SkippedKept(d2, l)
  <2>1. \A q \in Elements(ca) : Valid(l, q) /\ PagesOf(q) \subseteq PagesOf(q)
    BY <1>3
  <2>2. \A q \in Elements(ca) : \E s : Valid(l, s) /\ PagesOf(q) \subseteq PagesOf(s)
    BY <2>1
  <2> QED BY <1>1, <2>2, StoreKeeps
<1>5. FrontCovered(d2, l, r, <<>>)
  <2> HIDE DEF d2
  <2> SUFFICES ASSUME NEW p \in Used, r = NoRequest \/ Before(l, r, p)
               PROVE  Done(p, d2[p], l)
    BY DEF FrontCovered
  <2>1. Done(p, d[p], l) \/ InCache(p, ca, Len(ca))
    BY <1>1 DEF FrontCovered
  <2>2. InCache(p, ca, Len(ca)) => \E q \in Elements(ca) : p \in PagesOf(q)
    BY <1>3 DEF InCache
  <2> QED BY <1>4, <2>1, <2>2
<1>6. CacheCovers(d2, l, <<>>)
  BY DEF CacheCovers
<1>7. Counted(c, <<>>)
  BY DEF Counted, CommitAlone
<1>8. OnWalk(w, d2, l, r, c, <<>>, v)
  <2>1. Horizon(c) \in Nat /\ c - 2 <= Horizon(c)
    BY FlushCycleAssumption DEF Horizon
  <2>2. UntouchedBeyond(d2, l, w[Horizon(c)])
    <3>1. PICK h \in Nat : h = Horizon(c) /\ Horizon(c) <= h
      BY <2>1
    <3>2. \A q \in Elements(ca) : \E i \in 1 .. Len(ca) : q = ca[i]
      BY <1>3
    <3>3. UntouchedBeyond(Store(d, Elements(ca), l), l, w[h])
      BY <1>1, <1>2, <2>1, <3>1, <3>2, StoredBehind
    <3> QED BY <3>1, <3>3
  <2>3. CachedOnWalk(w, l, c, <<>>)
    BY DEF CachedOnWalk
  <2> HIDE DEF d2
  <2> QED BY <1>2, <2>2, <2>3 DEF OnWalk
<1>9. WritingOK(d2, l, r, c, <<>>, v)
  <2> HIDE DEF d2
  <2> QED BY <1>1, <1>4, <1>5, <1>6, <1>7, <1>8 DEF WritingOK
<1> QED BY <1>9

-------------------------------------------------------------------------------
\* What the device holds, seen from the place a verification found.
Settled(d, x) ==
  /\ CoveredUpTo(d, x.loop, x.req) /\ SkippedKept(d, x.loop)
  /\ ~CacheOn => UntouchedFrom(d, x.loop, x.req)

(* A verification without a cache leaves its place, and with one also a     *)
(* prediction behind which nothing is of the loop.                          *)
LEMMA VerifiedUncached ==
  ASSUME ~CacheOn, NEW x, InPattern(x), NEW n, NEW d, Settled(d, x), Verified(x, n)
  PROVE  /\ verified' \in [lsn : Nat, len : Nat \ {0}, loop : Nat \ {0}, last : Int, lastLoop : Nat]
         /\ Valid(verified'.loop, Resume(verified')) /\ VerifiedOK(d, verified')
<1>1. verified' = [lsn |-> x.req.lsn, len |-> x.req.len, loop |-> x.loop,
                   last |-> 0, lastLoop |-> x.loop]
  BY DEF Verified
<1>2. x.req \in Requests /\ x.loop \in Nat \ {0} /\ Valid(x.loop, x.req)
  BY DEF InPattern, Valid
<1>3. Resume(verified') = x.req /\ verified'.loop = x.loop
  BY <1>1, <1>2 DEF Resume, Requests
<1>4. verified' \in [lsn : Nat, len : Nat \ {0}, loop : Nat \ {0}, last : Int, lastLoop : Nat]
  BY <1>1, <1>2 DEF Requests
<1> QED BY <1>2, <1>3, <1>4 DEF VerifiedOK, Settled

\* A verification with a cache, from a place of the walk on.
LEMMA VerifiedCached ==
  ASSUME TestCase \in Cases, CacheOn, NEW x, InPattern(x), NEW n \in Nat \ {0},
         NEW d, Settled(d, x),
         NEW w, Walks(w), InPattern(w[0]), w[n - 1] = x,
         NEW h \in Nat, \A b \in Nat : h <= b => UntouchedBeyond(d, x.loop, w[b]),
         Reach(n) \in Nat, Reach(n) > n => h <= Reach(n) - 1, ~(Reach(n) > n) => h <= n - 1,
         h <= n + FlushCycle - 2, Verified(x, n)
  PROVE  /\ verified' \in [lsn : Nat, len : Nat \ {0}, loop : Nat \ {0}, last : Int, lastLoop : Nat]
         /\ Valid(verified'.loop, Resume(verified')) /\ VerifiedOK(d, verified')
<1>1. PICK g \in Nat : g = Reach(n)
  OBVIOUS
<1>2. PICK k \in Nat : h <= k /\ Predicted(x, n) = w[k]
  <2>1. Predicted(w[n - 1], n) = IF g > n THEN w[g - 1] ELSE w[n - 1]
    BY <1>1, PredictedOnWalk
  <2>2. CASE g > n
    <3>1. g - 1 \in Nat /\ h <= g - 1
      BY <1>1, <2>2
    <3> QED BY <2>1, <2>2, <3>1
  <2>3. CASE ~(g > n)
    <3>1. n - 1 \in Nat /\ h <= n - 1
      BY <1>1, <2>3
    <3> QED BY <2>1, <2>3, <3>1
  <2> QED BY <2>2, <2>3
<1>3. PICK y : y = w[k]
  OBVIOUS
<1>4. InPattern(y) /\ UntouchedBeyond(d, x.loop, y)
  BY <1>2, <1>3, WalkInPattern
<1>5. verified' = [lsn |-> x.req.lsn, len |-> x.req.len, loop |-> x.loop,
                   last |-> y.req.lsn + y.req.len - 1, lastLoop |-> y.loop]
  BY <1>2, <1>3 DEF Verified
<1>6. /\ x.req \in Requests /\ x.loop \in Nat \ {0} /\ Valid(x.loop, x.req)
      /\ x = [loop |-> x.loop, req |-> x.req]
  BY DEF InPattern, Valid
<1>7. y.req \in Requests /\ y.loop \in Nat \ {0} /\ Valid(y.loop, y.req)
  BY <1>4 DEF InPattern, Valid
<1>8. Resume(verified') = x.req /\ verified'.loop = x.loop
  BY <1>5, <1>6 DEF Resume, Requests
<1>9. verified' \in [lsn : Nat, len : Nat \ {0}, loop : Nat \ {0}, last : Int, lastLoop : Nat]
  <2>1. y.req.lsn + y.req.len - 1 \in Int
    BY <1>7 DEF Requests
  <2>2. x.req.lsn \in Nat /\ x.req.len \in Nat \ {0}
    BY <1>6 DEF Requests
  <2> QED BY <1>5, <1>6, <1>7, <2>1, <2>2
<1>10. PredictionRight(d, verified')
  <2> SUFFICES ASSUME y.loop = x.loop
               PROVE  \E a \in Requests : /\ Valid(x.loop, a) /\ verified'.last = a.lsn + a.len - 1
                                          /\ UntouchedFrom(d, x.loop, a)
    BY <1>5 DEF PredictionRight
  <2>1. UntouchedFrom(d, x.loop, y.req) /\ verified'.last = y.req.lsn + y.req.len - 1
    BY <1>4, <1>5 DEF UntouchedBeyond
  <2> QED BY <1>7, <2>1
<1>11. \E u : NextPhase(u, d, verified')
  <2>1. PICK fc \in Nat \ {0} : fc = FlushCycle
    BY FlushCycleAssumption
  <2>2. PICK b \in Nat : b = n - 1
    OBVIOUS
  <2>3. PICK u : Walks(u) /\ \A i \in Nat : u[i] = w[b + i]
    BY WalkFrom
  <2>4. u[0] = x
    <3>1. u[0] = w[b + 0] /\ b + 0 = b
      BY <2>3
    <3> QED BY <2>2, <3>1
  <2>5. Start(verified') = x
    <3>1. Start(verified') = [loop |-> verified'.loop, req |-> Resume(verified')]
      BY DEF Start, Resume
    <3> QED BY <1>6, <1>8, <3>1
  <2>6. UntouchedBeyond(d, verified'.loop, u[FlushCycle - 1])
    <3>1. PICK e \in Nat : e = fc - 1
      OBVIOUS
    <3>2. u[e] = w[b + e] /\ b + e \in Nat /\ h <= b + e
      BY <2>1, <2>2, <2>3, <3>1
    <3>3. UntouchedBeyond(d, x.loop, u[e])
      BY <3>2
    <3> QED BY <1>8, <2>1, <3>1, <3>3
  <2>7. NextPhase(u, d, verified')
    BY <2>3, <2>4, <2>5, <2>6 DEF NextPhase
  <2> QED BY <2>7
<1> QED BY <1>6, <1>8, <1>9, <1>10, <1>11 DEF VerifiedOK, Settled

-------------------------------------------------------------------------------
(* A loop that is done is untouched by the next one.                        *)
LEMMA LoopDone ==
  ASSUME TestCase \in Cases, NEW l \in Nat \ {0}, NEW d, \A p \in Used : Done(p, d[p], l)
  PROVE  /\ Settled(d, [loop |-> l + 1, req |-> FirstRequest])
         /\ \A x : UntouchedBeyond(d, l + 1, x)
<1>1. PICK m \in Nat : m = l + 1 /\ m - 1 = l
  OBVIOUS
<1>2. \A p \in Used : Done(p, d[p], m - 1)
  BY <1>1
<1>3. \A x : UntouchedFrom(d, m, x) /\ UntouchedBeyond(d, m, x)
  BY <1>2 DEF UntouchedFrom, UntouchedBeyond
<1>4. CoveredUpTo(d, m, FirstRequest) /\ SkippedKept(d, m)
  BY <1>2, FirstPlace DEF CoveredUpTo, SkippedKept
<1> QED BY <1>1, <1>3, <1>4 DEF Settled

(* Without a cache the request that is cut may be torn.                     *)
LEMMA Torn ==
  ASSUME TestCase \in Cases, ~CacheOn, NEW d \in [Pages -> Int], NEW l \in Nat \ {0},
         NEW r, r # NoRequest, NEW c, NEW ca, NEW v, WritingOK(d, l, r, c, ca, v),
         NEW n \in 0 .. r.len - 1
  PROVE  Settled(Store(d, {[lsn |-> r.lsn, len |-> n]}, l), Place(l, r))
<1> DEFINE t  == [lsn |-> r.lsn, len |-> n]
           d2 == Store(d, {t}, l)
<1>1. /\ Valid(l, r) /\ ca = <<>> /\ FrontCovered(d, l, r, ca) /\ SkippedKept(d, l)
      /\ UntouchedFrom(d, l, r)
  BY DEF WritingOK
<1>2. PagesOf(t) \subseteq PagesOf(r)
  <2>1. PICK a \in Nat, k \in Nat : a = r.lsn /\ k = r.len
    BY <1>1, RequestPlace
  <2>2. t.lsn = a /\ t.len = n /\ n \in 0 .. k - 1
    BY <2>1
  <2>3. PagesOf(t) = a .. a + n - 1 /\ PagesOf(r) = a .. a + k - 1
    <3> HIDE DEF t
    <3> QED BY <2>1, <2>2 DEF PagesOf
  <2> HIDE DEF t
  <2> QED BY <2>1, <2>2, <2>3
<1> HIDE DEF t
<1>3. /\ \A p \in Used : /\ Done(p, d[p], l) => Done(p, d2[p], l)
                         /\ p \notin PagesOf(t) => d2[p] = d[p]
      /\ SkippedKept(d2, l)
  <2>1. \A q \in {t} : \E s : Valid(l, s) /\ PagesOf(q) \subseteq PagesOf(s)
    BY <1>1, <1>2
  <2>2. /\ \A p \in Used : /\ Done(p, d[p], l) => Done(p, Store(d, {t}, l)[p], l)
                           /\ (\A q \in {t} : p \notin PagesOf(q)) => Store(d, {t}, l)[p] = d[p]
        /\ SkippedKept(d, l) => SkippedKept(Store(d, {t}, l), l)
    BY <2>1, StoreKeeps
  <2> QED BY <1>1, <2>2
<1> HIDE DEF d2
<1>4. CoveredUpTo(d2, l, r)
  <2> SUFFICES ASSUME NEW p \in Used, Before(l, r, p) PROVE Done(p, d2[p], l)
    BY DEF CoveredUpTo
  <2>1. ~InCache(p, ca, Len(ca))
    BY <1>1 DEF InCache
  <2>2. Done(p, d[p], l)
    BY <1>1, <2>1 DEF FrontCovered
  <2> QED BY <1>3, <2>2
<1>5. UntouchedFrom(d2, l, r)
  <2> SUFFICES ASSUME NEW p \in Used, After(l, r, p) PROVE Done(p, d2[p], l - 1)
    BY DEF UntouchedFrom
  <2>1. p \notin PagesOf(t)
    BY <1>1, <1>2, PagesOfRequest
  <2> QED BY <1>1, <1>3, <2>1 DEF UntouchedFrom
<1>6. Settled(d2, [loop |-> l, req |-> r])
  BY <1>3, <1>4, <1>5 DEF Settled
<1>7. Place(l, r) = [loop |-> l, req |-> r]
  BY <1>1, PlaceInPattern
<1>8. Settled(d2, Place(l, r))
  BY <1>6, <1>7
<1> QED BY <1>8 DEF d2, t

(* What is kept of the cache leaves all there is up to the first request    *)
(* that is gone, or else up to the place of the phase.                      *)
LEMMA Kept ==
  ASSUME TestCase \in Cases, CacheOn, NEW d \in [Pages -> Int], NEW l \in Nat \ {0},
         NEW r, NEW c, NEW ca \in Seq(Requests), NEW v,
         \A i \in 1 .. Len(ca) : Valid(l, ca[i]), WritingOK(d, l, r, c, ca, v),
         NEW kept \in SUBSET DOMAIN ca
  PROVE  /\ DOMAIN ca \ kept = {} => Settled(Store(d, {ca[i] : i \in kept}, l), Place(l, r))
         /\ DOMAIN ca \ kept = {} /\ r = NoRequest =>
              \A p \in Used : Done(p, Store(d, {ca[i] : i \in kept}, l)[p], l)
         /\ \A first \in DOMAIN ca \ kept :
              (\A j \in DOMAIN ca \ kept : first <= j) =>
                Settled(Store(d, {ca[i] : i \in kept}, l), [loop |-> l, req |-> ca[first]])
<1> DEFINE R  == {ca[i] : i \in kept}
           d2 == Store(d, R, l)
<1>1. PICK m \in Nat : m = Len(ca) /\ DOMAIN ca = 1 .. m
  OBVIOUS
<1>2. /\ r = NoRequest \/ Valid(l, r)
      /\ FrontCovered(d, l, r, ca) /\ CacheCovers(d, l, ca) /\ SkippedKept(d, l)
  BY DEF WritingOK
<1>3. \A q \in R : \E s : Valid(l, s) /\ PagesOf(q) \subseteq PagesOf(s)
  BY <1>1
<1>4. \A i \in kept : ca[i] \in R
  OBVIOUS
<1> HIDE DEF R
<1>5. /\ \A p \in Used : /\ Done(p, d[p], l) => Done(p, d2[p], l)
                         /\ (\E q \in R : p \in PagesOf(q)) => Done(p, d2[p], l)
      /\ SkippedKept(d2, l)
  BY <1>2, <1>3, StoreKeeps
<1> HIDE DEF d2
<1>6. ASSUME NEW p \in Used, NEW n \in 0 .. m, 1 .. n \subseteq kept,
             Done(p, d[p], l) \/ InCache(p, ca, n)
      PROVE  Done(p, d2[p], l)
  <2>1. CASE Done(p, d[p], l)
    BY <1>5, <2>1
  <2>2. CASE InCache(p, ca, n)
    <3>1. PICK j \in 1 .. n : p \in PagesOf(ca[j])
      BY <2>2 DEF InCache
    <3>2. ca[j] \in R
      BY <1>4, <1>6
    <3> QED BY <1>5, <3>1, <3>2
  <2> QED BY <1>6, <2>1, <2>2
<1>7. ASSUME DOMAIN ca \ kept = {}
      PROVE  \A p \in Used : r = NoRequest \/ Before(l, r, p) => Done(p, d2[p], l)
  <2> SUFFICES ASSUME NEW p \in Used, r = NoRequest \/ Before(l, r, p) PROVE Done(p, d2[p], l)
    OBVIOUS
  <2>1. Done(p, d[p], l) \/ InCache(p, ca, m)
    BY <1>1, <1>2 DEF FrontCovered
  <2>2. 1 .. m \subseteq kept /\ m \in 0 .. m
    BY <1>1, <1>7
  <2> QED BY <1>6, <2>1, <2>2
<1>8. ASSUME DOMAIN ca \ kept = {} PROVE Settled(d2, Place(l, r))
  <2>1. CASE r = NoRequest
    <3>1. \A p \in Used : Done(p, d2[p], l)
      BY <1>7, <1>8, <2>1
    <3> QED BY <2>1, <3>1, LoopDone, PlaceInPattern
  <2>2. CASE r # NoRequest
    <3>1. CoveredUpTo(d2, l, r)
      BY <1>7, <1>8 DEF CoveredUpTo
    <3>2. Settled(d2, [loop |-> l, req |-> r])
      BY <1>5, <3>1 DEF Settled
    <3> QED BY <1>2, <2>2, <3>2, PlaceInPattern
  <2> QED BY <2>1, <2>2
<1>9. ASSUME NEW first \in DOMAIN ca \ kept, \A j \in DOMAIN ca \ kept : first <= j
      PROVE  Settled(d2, [loop |-> l, req |-> ca[first]])
  <2>1. first \in 1 .. m
    BY <1>1
  <2>2. PICK n \in 0 .. m : n = first - 1
    BY <2>1
  <2>3. 1 .. n \subseteq kept
    <3> SUFFICES ASSUME NEW j \in 1 .. n, j \notin kept PROVE FALSE
      OBVIOUS
    <3>1. j \in DOMAIN ca \ kept
      BY <1>1, <2>1
    <3>2. first <= j
      BY <1>9, <3>1
    <3> QED BY <2>1, <2>2, <3>2
  <2>4. CoveredUpTo(d2, l, ca[first])
    <3> SUFFICES ASSUME NEW p \in Used, Before(l, ca[first], p) PROVE Done(p, d2[p], l)
      BY DEF CoveredUpTo
    <3>1. Done(p, d[p], l) \/ InCache(p, ca, n)
      BY <1>1, <1>2, <2>1, <2>2 DEF CacheCovers
    <3> QED BY <1>6, <2>3, <3>1
  <2> QED BY <1>5, <2>4 DEF Settled
<1>10. /\ DOMAIN ca \ kept = {} => Settled(d2, Place(l, r))
       /\ DOMAIN ca \ kept = {} /\ r = NoRequest => \A p \in Used : Done(p, d2[p], l)
       /\ \A first \in DOMAIN ca \ kept :
            (\A j \in DOMAIN ca \ kept : first <= j) =>
              Settled(d2, [loop |-> l, req |-> ca[first]])
  BY <1>7, <1>8, <1>9
<1> QED BY <1>10 DEF d2, R

-------------------------------------------------------------------------------
\* What a verification leaves, by its type.
VerifiedType(v) ==
  /\ v \in [lsn : Nat, len : Nat \ {0}, loop : Nat \ {0}, last : Int, lastLoop : Nat]
  /\ Valid(v.loop, Resume(v))

\* A state in which the phase goes on.
Phase ==
  /\ TypeOK /\ pc = "write"
  /\ WritingOK(disk, loop, req, count, cached, verified)

\* What a cut leaves and the verification makes of it, without a cache,
LEMMA CutUncachedVerified ==
  ASSUME Phase, CutUncached
  PROVE  disk' \in [Pages -> Int] /\ VerifiedType(verified') /\ VerifiedOK(disk', verified')
<1>1. /\ TestCase \in Cases /\ loop \in Nat \ {0} /\ disk \in [Pages -> Int]
      /\ req # NoRequest /\ ~CacheOn
      /\ WritingOK(disk, loop, req, count, cached, verified)
  BY DEF Phase, TypeOK, CutUncached
<1>2. PICK n \in 0 .. req.len - 1 : disk' = Store(disk, {[lsn |-> req.lsn, len |-> n]}, loop)
  BY DEF CutUncached
<1>3. Settled(disk', Place(loop, req))
  BY <1>1, <1>2, Torn
<1>4. InPattern(Place(loop, req))
  BY <1>1, PlaceInPattern DEF WritingOK
<1>5. Verified(Place(loop, req), count)
  BY DEF CutUncached
<1>6. disk' \in [Pages -> Int]
  BY <1>1, <1>2, StoredPage
<1> QED BY <1>1, <1>3, <1>4, <1>5, <1>6, VerifiedUncached DEF VerifiedType

(* The prediction of a cut with a cache, whatever of it is kept: the place  *)
(* found is on the walk of the phase, and nothing the phase wrote lies      *)
(* behind the prediction.                                                   *)
LEMMA CutOnWalk ==
  ASSUME Phase, CacheOn, NEW R, \A q \in R : \E i \in 1 .. Len(cached) : q = cached[i],
         NEW x, InPattern(x), NEW n \in Nat \ {0}, n <= count, Settled(Store(disk, R, loop), x),
         n >= count - 1 \/ \A j \in n .. count - 1 : ~IsCommit(j),
         \A w : OnWalk(w, disk, loop, req, count, cached, verified) => w[n - 1] = x,
         x.loop = loop \/ (\A y : UntouchedBeyond(Store(disk, R, loop), x.loop, y)),
         Verified(x, n)
  PROVE  VerifiedType(verified') /\ VerifiedOK(Store(disk, R, loop), verified')
<1>1. /\ TestCase \in Cases /\ loop \in Nat \ {0} /\ disk \in [Pages -> Int]
      /\ cached \in Seq(Requests) /\ \A i \in 1 .. Len(cached) : Valid(loop, cached[i])
      /\ Valid(verified.loop, Resume(verified)) /\ verified.loop \in Nat \ {0}
      /\ count \in Nat \ {0} /\ Len(cached) <= count - 1
      /\ WritingOK(disk, loop, req, count, cached, verified)
  BY DEF Phase, TypeOK, WritingOK, Counted
<1>2. PICK w : OnWalk(w, disk, loop, req, count, cached, verified)
  BY <1>1 DEF WritingOK
<1>3. Walks(w) /\ InPattern(w[0]) /\ w[n - 1] = x
  BY <1>1, <1>2 DEF OnWalk, InPattern, Start, Resume
<1>4. /\ Reach(n) \in Nat
      /\ Reach(n) > n => Horizon(count) <= Reach(n) - 1
      /\ ~(Reach(n) > n) => Horizon(count) <= n - 1
      /\ Horizon(count) <= n + FlushCycle - 2
      /\ Horizon(count) \in Nat /\ count - 2 <= Horizon(count)
  <2>1. PICK c \in Nat \ {0} : c = count
    BY <1>1
  <2>2. n <= c /\ (n >= c - 1 \/ \A j \in n .. c - 1 : ~IsCommit(j))
    BY <2>1
  <2> QED BY <2>1, <2>2, ReachFarEnough
<1>5. ASSUME NEW b \in Nat, Horizon(count) <= b
      PROVE  UntouchedBeyond(Store(disk, R, loop), x.loop, w[b])
  <2>1. CASE x.loop = loop
    <3>1. UntouchedBeyond(Store(disk, R, loop), loop, w[b])
      BY <1>1, <1>2, <1>4, <1>5, StoredBehind
    <3> QED BY <2>1, <3>1
  <2>2. CASE \A y : UntouchedBeyond(Store(disk, R, loop), x.loop, y)
    BY <2>2
  <2> QED BY <2>1, <2>2
<1> QED BY <1>1, <1>3, <1>4, <1>5, VerifiedCached DEF VerifiedType

\* with a cache,
LEMMA CutCachedVerified ==
  ASSUME Phase, CutCached
  PROVE  disk' \in [Pages -> Int] /\ VerifiedType(verified') /\ VerifiedOK(disk', verified')
<1>1. /\ TestCase \in Cases /\ loop \in Nat \ {0} /\ disk \in [Pages -> Int] /\ CacheOn
      /\ cached \in Seq(Requests) /\ \A i \in 1 .. Len(cached) : Valid(loop, cached[i])
      /\ count \in Nat \ {0} /\ Len(cached) <= count - 1 /\ CommitAlone(count, cached)
      /\ WritingOK(disk, loop, req, count, cached, verified)
      /\ req = NoRequest \/ Valid(loop, req)
  BY DEF Phase, TypeOK, CutCached, WritingOK, Counted
<1>2. PICK kept \in SUBSET DOMAIN cached :
        LET gone  == DOMAIN cached \ kept
            first == CHOOSE i \in gone : \A j \in gone : i <= j
        IN  /\ disk' = Store(disk, {cached[i] : i \in kept}, loop)
            /\ IF gone = {} THEN Verified(Place(loop, req), count)
               ELSE Verified([loop |-> loop, req |-> cached[first]],
                             count - Len(cached) + first - 1)
  BY DEF CutCached
<1>3. PICK R : R = {cached[i] : i \in kept}
  OBVIOUS
<1>4. disk' = Store(disk, R, loop) /\ disk' \in [Pages -> Int]
  BY <1>1, <1>2, <1>3, StoredPage
<1>5. \A q \in R : \E i \in 1 .. Len(cached) : q = cached[i]
  BY <1>1, <1>3
<1>6. PICK m \in Nat : m = Len(cached) /\ DOMAIN cached = 1 .. m
  BY <1>1
<1>7. PICK c \in Nat \ {0} : c = count /\ m <= c - 1
  BY <1>1, <1>6
<1>8. /\ DOMAIN cached \ kept = {} => Settled(Store(disk, R, loop), Place(loop, req))
      /\ DOMAIN cached \ kept = {} /\ req = NoRequest =>
           \A p \in Used : Done(p, Store(disk, R, loop)[p], loop)
      /\ \A first \in DOMAIN cached \ kept :
           (\A j \in DOMAIN cached \ kept : first <= j) =>
             Settled(Store(disk, R, loop), [loop |-> loop, req |-> cached[first]])
  BY <1>1, <1>3, Kept
<1>9. CASE DOMAIN cached \ kept = {}
  <2>1. Verified(Place(loop, req), count)
    BY <1>2, <1>9
  <2>2. InPattern(Place(loop, req))
    BY <1>1, PlaceInPattern
  <2>3. \A w : OnWalk(w, disk, loop, req, count, cached, verified) =>
                 w[count - 1] = Place(loop, req)
    BY DEF OnWalk
  <2>4. \/ Place(loop, req).loop = loop
        \/ \A y : UntouchedBeyond(Store(disk, R, loop), Place(loop, req).loop, y)
    <3>1. CASE req = NoRequest
      <4>1. \A y : UntouchedBeyond(Store(disk, R, loop), loop + 1, y)
        BY <1>1, <1>8, <1>9, <3>1, LoopDone
      <4>2. Place(loop, req) = [loop |-> loop + 1, req |-> FirstRequest]
        BY <1>1, <3>1, PlaceInPattern
      <4>3. Place(loop, req).loop = loop + 1
        BY <4>2
      <4> QED BY <4>1, <4>3
    <3>2. CASE req # NoRequest
      <4>1. Place(loop, req) = [loop |-> loop, req |-> req]
        BY <1>1, <3>2, PlaceInPattern
      <4>2. Place(loop, req).loop = loop
        BY <4>1
      <4> QED BY <4>2
    <3> QED BY <3>1, <3>2
  <2>5. count <= count /\ count >= count - 1
    BY <1>7
  <2>6. VerifiedType(verified') /\ VerifiedOK(Store(disk, R, loop), verified')
    BY <1>1, <1>5, <1>8, <1>9, <2>1, <2>2, <2>3, <2>4, <2>5, CutOnWalk
  <2> QED BY <1>4, <2>6
<1>10. CASE DOMAIN cached \ kept # {}
  <2> DEFINE least == CHOOSE i \in DOMAIN cached \ kept : \A j \in DOMAIN cached \ kept : i <= j
  <2>1. PICK first \in 1 .. m : first = least
    <3>1. DOMAIN cached \ kept \subseteq Nat
      BY <1>6
    <3>2. \E i \in DOMAIN cached \ kept : \A j \in DOMAIN cached \ kept : i <= j
      BY <1>10, <3>1, LeastOf
    <3>3. least \in DOMAIN cached \ kept
      BY <3>2
    <3> HIDE DEF least
    <3> QED BY <1>6, <3>3
  <2>2. first \in DOMAIN cached \ kept /\ \A j \in DOMAIN cached \ kept : first <= j
    <3>1. DOMAIN cached \ kept \subseteq Nat
      BY <1>6
    <3>2. \E i \in DOMAIN cached \ kept : \A j \in DOMAIN cached \ kept : i <= j
      BY <1>10, <3>1, LeastOf
    <3> QED BY <2>1, <3>2
  <2>3. PICK x : x = [loop |-> loop, req |-> cached[first]]
    OBVIOUS
  <2>4. PICK n \in Nat \ {0} : n = c - m + first - 1
    BY <1>7
  <2>5. Verified(x, n)
    <3>1. Verified([loop |-> loop, req |-> cached[least]], count - Len(cached) + least - 1)
      BY <1>2, <1>10
    <3> HIDE DEF least
    <3> QED BY <1>6, <1>7, <2>1, <2>3, <2>4, <3>1
  <2> HIDE DEF least
  <2>6. InPattern(x) /\ x.loop = loop
    BY <1>1, <1>6, <2>3 DEF InPattern
  <2>7. n <= count /\ (n >= count - 1 \/ \A j \in n .. count - 1 : ~IsCommit(j))
    <3>1. n <= c
      BY <1>7, <2>4
    <3>2. ASSUME NEW j \in n .. c - 1, IsCommit(j) PROVE n >= c - 1
      <4>1. j \in c - m .. c - 1
        BY <1>7, <2>4
      <4>2. m = 1
        BY <1>1, <1>6, <1>7, <3>2, <4>1 DEF CommitAlone
      <4> QED BY <2>4, <4>2
    <3> QED BY <1>7, <3>1, <3>2
  <2>8. ASSUME NEW w, OnWalk(w, disk, loop, req, count, cached, verified) PROVE w[n - 1] = x
    <3>1. n - 1 = c - m + first - 2
      BY <2>4
    <3>2. w[count - Len(cached) + first - 2] = [loop |-> loop, req |-> cached[first]]
      BY <1>6, <2>8 DEF OnWalk, CachedOnWalk
    <3> QED BY <1>6, <1>7, <2>3, <3>1, <3>2
  <2>9. Settled(Store(disk, R, loop), x)
    BY <1>8, <2>2, <2>3
  <2>10. VerifiedType(verified') /\ VerifiedOK(Store(disk, R, loop), verified')
    BY <1>1, <1>5, <2>5, <2>6, <2>7, <2>8, <2>9, CutOnWalk
  <2> QED BY <1>4, <2>10
<1> QED BY <1>9, <1>10

\* and when the loop was written to its end.
LEMMA LoopWrittenVerified ==
  ASSUME Phase, LoopWritten
  PROVE  VerifiedType(verified') /\ VerifiedOK(disk, verified')
<1>1. /\ TestCase \in Cases /\ loop \in Nat \ {0} /\ disk \in [Pages -> Int] /\ CacheOn \in BOOLEAN
      /\ count \in Nat \ {0} /\ req = NoRequest /\ cached = <<>>
      /\ WritingOK(disk, loop, req, count, cached, verified)
      /\ Verified(Place(loop, req), count)
  BY DEF Phase, TypeOK, LoopWritten, WritingOK, Counted
<1>2. ASSUME NEW p \in Used PROVE Done(p, disk[p], loop)
  <2>1. ~InCache(p, cached, Len(cached))
    BY <1>1 DEF InCache
  <2> QED BY <1>1, <2>1 DEF WritingOK, FrontCovered
<1>3. InPattern(Place(loop, req)) /\ Place(loop, req) = [loop |-> loop + 1, req |-> FirstRequest]
  BY <1>1, PlaceInPattern
<1>4. Settled(disk, Place(loop, req)) /\ \A y : UntouchedBeyond(disk, Place(loop, req).loop, y)
  <2>1. /\ Settled(disk, [loop |-> loop + 1, req |-> FirstRequest])
        /\ \A y : UntouchedBeyond(disk, loop + 1, y)
    BY <1>1, <1>2, LoopDone
  <2>2. Place(loop, req).loop = loop + 1
    BY <1>3
  <2> QED BY <1>3, <2>1, <2>2
<1>5. CASE ~CacheOn
  BY <1>1, <1>3, <1>4, <1>5, VerifiedUncached DEF VerifiedType
<1>6. CASE CacheOn
  <2>1. Store(disk, {}, loop) = disk
    <3>1. /\ Store(disk, {}, loop) \in [Pages -> Int]
          /\ \A p \in Pages :
               (\A q \in {} : p \notin PagesOf(q)) => Store(disk, {}, loop)[p] = disk[p]
      BY <1>1, StoredPage
    <3>2. \A p \in Pages : Store(disk, {}, loop)[p] = disk[p]
      BY <3>1
    <3> QED BY <1>1, <3>1, <3>2
  <2>2. \A w : OnWalk(w, disk, loop, req, count, cached, verified) =>
                 w[count - 1] = Place(loop, req)
    BY DEF OnWalk
  <2>3. count <= count /\ count >= count - 1
    BY <1>1
  <2>4. PICK R : R = {}
    OBVIOUS
  <2>5. VerifiedType(verified') /\ VerifiedOK(Store(disk, R, loop), verified')
    <3>1. \A q \in R : \E i \in 1 .. Len(cached) : q = cached[i]
      BY <2>4
    <3>2. Store(disk, R, loop) = disk
      BY <2>1, <2>4
    <3>3. /\ Settled(Store(disk, R, loop), Place(loop, req))
          /\ \A y : UntouchedBeyond(Store(disk, R, loop), Place(loop, req).loop, y)
      BY <1>4, <3>2
    <3> QED BY <1>1, <1>3, <1>6, <2>2, <2>3, <3>1, <3>3, CutOnWalk
  <2> QED BY <2>1, <2>4, <2>5
<1> QED BY <1>1, <1>5, <1>6

(* The next phase begins where the verification left off.                   *)
LEMMA Resumed ==
  ASSUME TestCase \in Cases, NEW d, NEW v, VerifiedType(v), VerifiedOK(d, v)
  PROVE  /\ Entry(v.loop, Resume(v)) = Resume(v)
         /\ WritingOK(d, v.loop, Resume(v), 1, <<>>, v)
<1>1. /\ v.loop \in Nat \ {0} /\ Valid(v.loop, Resume(v))
      /\ Entry(v.loop, Resume(v)) = Resume(v) /\ Resume(v) # NoRequest
  BY EntryOf DEF VerifiedType
<1>2. FrontCovered(d, v.loop, Resume(v), <<>>)
  BY <1>1 DEF VerifiedOK, CoveredUpTo, FrontCovered
<1>3. CacheCovers(d, v.loop, <<>>)
  BY DEF CacheCovers
<1>4. Counted(1, <<>>)
  BY DEF Counted, CommitAlone
<1>5. ASSUME CacheOn PROVE \E w : OnWalk(w, d, v.loop, Resume(v), 1, <<>>, v)
  <2>1. PICK w : NextPhase(w, d, v)
    BY <1>5 DEF VerifiedOK
  <2>2. Place(v.loop, Resume(v)) = Start(v)
    BY <1>1 DEF Place, Start, Resume
  <2>3. Horizon(1) = FlushCycle - 1
    BY FlushCycleAssumption DEF Horizon
  <2>4. CachedOnWalk(w, v.loop, 1, <<>>)
    BY DEF CachedOnWalk
  <2>5. 1 - 1 = 0
    OBVIOUS
  <2>6. OnWalk(w, d, v.loop, Resume(v), 1, <<>>, v)
    BY <2>1, <2>2, <2>3, <2>4, <2>5 DEF OnWalk, NextPhase
  <2> QED BY <2>6
<1> QED BY <1>1, <1>2, <1>3, <1>4, <1>5 DEF WritingOK, VerifiedOK

-------------------------------------------------------------------------------
(* Up to which page a range of a zone is in use.                            *)
LEMMA ZonePage ==
  ASSUME TestCase \in Cases, NEW z \in Zones, NEW p \in Int,
         p >= get_first_sector_in_zone(z), p < LastTested(z)
  PROVE  /\ p \in Used /\ get_zone_num(p) = z
         /\ p = get_first_sector_in_zone(z) + Masked(p)
<1>1. z \in Nat /\ z < total_zone_num
  BY Area DEF Zones
<1>2. PICK f \in Nat, t \in Nat :
        f = get_first_sector_in_zone(z) /\ t = Tested /\ LastTested(z) = f + t
  BY <1>1, Area, ZonesInOrder
<1>3. PICK m \in 0 .. t - 1 : m = p - f /\ p = f + m
  <2>1. p - f \in 0 .. t - 1 /\ p = f + (p - f)
    BY <1>2
  <2> QED BY <2>1
<1>4. m \in 0 .. ZoneSize - 1
  <2>1. PICK size \in Nat : size = ZoneSize /\ t <= size
    BY <1>2, Area
  <2> QED BY <2>1
<1>5. p \in Nat /\ p >= first_sector /\ get_zone_num(p) = z /\ Masked(p) = m
  BY <1>1, <1>2, <1>3, <1>4, PageOf
<1>6. m < Tested
  BY <1>2
<1> QED BY <1>1, <1>2, <1>3, <1>5, <1>6 DEF Used, InUse

-------------------------------------------------------------------------------
\* What a check demands, page by page; dpin_0005 knows what its even loops leave out.
AsDone(check) == check.sparse = (TestCase = "dpin_0005" /\ ~Odd(check.loop))

Looks(check, p) == p \in check.from .. check.to - 1

\* A check passes when all it looks at is as it is to be.
LEMMA CheckPasses ==
  ASSUME NEW check, AsDone(check), NEW d, \A p : Looks(check, p) => Done(p, d[p], check.loop)
  PROVE  ~CheckFails(check, d)
<1> SUFFICES ASSUME NEW p \in check.from .. check.to - 1
             PROVE  IF check.sparse THEN PageIsOf_05(p, d[p], check.loop)
                                    ELSE PageIsOf(d[p], check.loop)
  BY DEF CheckFails
<1>1. Done(p, d[p], check.loop)
  BY DEF Looks
<1> QED BY <1>1 DEF Done, AsDone, PageIsOf

(* Where the request to resume at lies.                                     *)
LEMMA ResumePlace ==
  ASSUME TestCase \in Cases, NEW v, VerifiedType(v)
  PROVE  \E cz, mv \in Nat, k \in Nat \ {0}, a, g, t, size \in Nat :
           /\ cz = current_zone_num(v) /\ mv = Masked(v.lsn) /\ k = v.len /\ a = v.lsn
           /\ g = get_first_sector_in_zone(cz) /\ t = Tested /\ size = ZoneSize
           /\ a = g + mv /\ mv + k <= size /\ mv <= t /\ t <= size
           /\ ~(TestCase = "dpin_0005" /\ ~Odd(v.loop)) => mv + k <= t
<1>1. Resume(v).lsn = v.lsn /\ Resume(v).len = v.len /\ Valid(v.loop, Resume(v))
  BY DEF Resume, VerifiedType
<1>2. /\ v.lsn \in Nat /\ v.len \in Nat \ {0}
      /\ get_zone_num(v.lsn) \in Nat /\ Masked(v.lsn) \in 0 .. ZoneSize - 1
      /\ v.lsn = get_first_sector_in_zone(get_zone_num(v.lsn)) + Masked(v.lsn)
      /\ Masked(v.lsn) + v.len <= ZoneSize
      /\ ~(TestCase = "dpin_0005" /\ ~Odd(v.loop)) => Masked(v.lsn) + v.len <= Tested
      /\ Masked(v.lsn) <= Tested
  BY <1>1, RequestPlace
<1>3. PICK cz \in Nat, mv \in Nat, k \in Nat \ {0}, a \in Nat :
        cz = current_zone_num(v) /\ mv = Masked(v.lsn) /\ k = v.len /\ a = v.lsn
  BY <1>2 DEF current_zone_num
<1>4. PICK g \in Nat : g = get_first_sector_in_zone(cz)
  BY ZonesInOrder
<1>5. PICK t \in Nat, size \in Nat : t = Tested /\ size = ZoneSize /\ t <= size
  BY Area
<1>6. /\ a = g + mv /\ mv + k <= size /\ mv <= t
      /\ ~(TestCase = "dpin_0005" /\ ~Odd(v.loop)) => mv + k <= t
  BY <1>2, <1>3, <1>4, <1>5 DEF current_zone_num
<1> QED BY <1>3, <1>4, <1>5, <1>6

(* The zone that is checked, as an interval of pages.                       *)
LEMMA ZonePlace ==
  ASSUME TestCase \in Cases, NEW z \in Zones
  PROVE  \E f, t, size \in Nat :
           /\ f = get_first_sector_in_zone(z) /\ t = Tested /\ size = ZoneSize /\ t <= size
           /\ z \in Nat /\ z < total_zone_num /\ LastTested(z) = f + t
           /\ \A y \in Nat : /\ z < y => f + size <= get_first_sector_in_zone(y)
                             /\ y < z => get_first_sector_in_zone(y) + size <= f
<1>1. z \in Nat /\ z < total_zone_num
  BY Area DEF Zones
<1>2. PICK f \in Nat, t \in Nat, size \in Nat :
        /\ f = get_first_sector_in_zone(z) /\ t = Tested /\ size = ZoneSize /\ t <= size
        /\ LastTested(z) = f + t
  BY <1>1, Area, ZonesInOrder
<1>3. \A y \in Nat : /\ z < y => f + size <= get_first_sector_in_zone(y)
                     /\ y < z => get_first_sector_in_zone(y) + size <= f
  BY <1>1, <1>2, ZonesInOrder
<1> QED BY <1>1, <1>2, <1>3

(* The row's head: what the loop has written of the zone, in an odd loop,   *)
(* and of the current zone in any.                                          *)
LEMMA HeadIsBefore ==
  ASSUME TestCase \in Cases, NEW v, VerifiedType(v), NEW z \in Zones,
         ~(TestCase = "dpin_0005" /\ ~Odd(v.loop)), Odd(v.loop) \/ z = current_zone_num(v),
         NEW p, Looks(RowHead(z, v), p)
  PROVE  p \in Used /\ Before(v.loop, Resume(v), p)
<1>1. PICK cz \in Nat, mv \in Nat, k \in Nat \ {0}, a \in Nat, g \in Nat, t \in Nat, size \in Nat :
           /\ cz = current_zone_num(v) /\ mv = Masked(v.lsn) /\ k = v.len /\ a = v.lsn
           /\ g = get_first_sector_in_zone(cz) /\ t = Tested /\ size = ZoneSize
           /\ a = g + mv /\ mv + k <= t
  BY ResumePlace
<1>2. PICK f \in Nat : f = get_first_sector_in_zone(z) /\ LastTested(z) = f + t /\ z \in Nat
  BY <1>1, ZonePlace
<1>3. PICK n \in Nat : n = (IF z < cz THEN k ELSE 0)
  OBVIOUS
<1>4. RowHead(z, v).from = f /\ RowHead(z, v).to = f + mv + n
  BY <1>1, <1>2, <1>3 DEF RowHead, Expect
<1>5. PICK q \in Int : q = p /\ q >= f /\ q < f + mv + n
  BY <1>4 DEF Looks
<1>6. q < LastTested(z)
  BY <1>1, <1>2, <1>3, <1>5
<1>7. p \in Used /\ get_zone_num(p) = z /\ p = get_first_sector_in_zone(z) + Masked(p)
  BY <1>2, <1>5, <1>6, ZonePage
<1>8. PICK y \in Nat : y = Masked(p) /\ q = f + y
  <2>1. PICK y \in Nat : y = Masked(p)
    BY <1>7, UsedPage
  <2>2. q = f + y
    BY <1>2, <1>5, <1>7, <2>1
  <2> QED BY <2>1, <2>2
<1>9. Resume(v).lsn = a /\ Resume(v).len = k /\ get_zone_num(a) = cz /\ Masked(a) = mv
  BY <1>1 DEF Resume, current_zone_num
<1>10. y < mv + n
  BY <1>5, <1>8
<1>11. CASE Odd(v.loop)
  <2>1. y < mv \/ (y < mv + k /\ z < cz)
    BY <1>3, <1>10
  <2> QED BY <1>7, <1>8, <1>9, <1>11, <2>1 DEF Before
<1>12. CASE ~Odd(v.loop)
  <2>1. z = cz /\ n = 0
    BY <1>1, <1>3, <1>12
  <2>2. f = g
    BY <1>1, <1>2, <2>1
  <2>3. q < a
    BY <1>1, <1>8, <1>10, <2>1, <2>2
  <2> QED BY <1>5, <1>7, <1>9, <1>12, <2>3 DEF Before
<1> QED BY <1>11, <1>12

(* The pages of a zone before the current one, in an even loop.             *)
LEMMA ZoneIsBefore ==
  ASSUME TestCase \in Cases, NEW v, VerifiedType(v), NEW z \in Zones, ~Odd(v.loop),
         z < current_zone_num(v), NEW l, NEW p, Looks(Whole(z, l), p)
  PROVE  p \in Used /\ Before(v.loop, Resume(v), p)
<1>1. PICK cz \in Nat, mv \in Nat, a \in Nat, g \in Nat :
           /\ cz = current_zone_num(v) /\ a = v.lsn
           /\ g = get_first_sector_in_zone(cz) /\ a = g + mv
  BY ResumePlace
<1>2. PICK f \in Nat, t \in Nat, size \in Nat :
           /\ f = get_first_sector_in_zone(z) /\ t = Tested /\ size = ZoneSize /\ t <= size
           /\ LastTested(z) = f + t
           /\ \A y \in Nat : z < y => f + size <= get_first_sector_in_zone(y)
  BY ZonePlace
<1>3. f + size <= g
  BY <1>1, <1>2
<1>4. PICK q \in Int : q = p /\ q >= f /\ q < f + t
  BY <1>2 DEF Looks, Whole, Expect
<1>5. p \in Used
  BY <1>2, <1>4, ZonePage
<1>6. q < a
  BY <1>1, <1>2, <1>3, <1>4
<1> QED BY <1>1, <1>4, <1>5, <1>6 DEF Before, Resume

\* With a cache, the request of the loop whose last page is predicted.
Predicts(v, a) == CacheOn => Valid(v.loop, a) /\ v.last = a.lsn + a.len - 1

\* A page behind all the loop may have reached.
Unreached(v, a, p) ==
  IF CacheOn THEN After(v.loop, a, p) ELSE After(v.loop, Resume(v), p)

\* The place of that request, by its zone and its place in it.
PredictedAt(v, a) ==
  \E az, ma \in Nat, ka \in Nat \ {0}, b, g, size \in Nat :
    /\ az = get_zone_num(v.last) /\ az = get_zone_num(a.lsn)
    /\ ma = Masked(a.lsn) /\ ka = a.len /\ b = a.lsn /\ g = get_first_sector_in_zone(az)
    /\ size = ZoneSize /\ b = g + ma /\ ma + ka <= size
    /\ v.last = b + ka - 1 /\ Masked(v.last) = ma + ka - 1

\* The last page predicted, by the request it ends.
LEMMA PredictedPlace ==
  ASSUME TestCase \in Cases, CacheOn, NEW v, NEW a, Predicts(v, a)
  PROVE  PredictedAt(v, a)
<1>1. Valid(v.loop, a) /\ v.last = a.lsn + a.len - 1
  BY DEF Predicts
<1>2. PICK az \in Nat, ma \in Nat, ka \in Nat \ {0}, b \in Nat, size \in Nat :
        /\ az = get_zone_num(a.lsn) /\ ma = Masked(a.lsn) /\ ka = a.len /\ b = a.lsn
        /\ size = ZoneSize /\ ma + ka <= size
        /\ b = get_first_sector_in_zone(az) + ma
  <2>1. /\ a.lsn \in Nat /\ a.len \in Nat \ {0}
        /\ get_zone_num(a.lsn) \in Nat /\ Masked(a.lsn) \in 0 .. ZoneSize - 1
        /\ a.lsn = get_first_sector_in_zone(get_zone_num(a.lsn)) + Masked(a.lsn)
        /\ Masked(a.lsn) + a.len <= ZoneSize
    BY <1>1, RequestPlace
  <2>2. PICK az \in Nat, ma \in Nat, ka \in Nat \ {0}, b \in Nat :
          az = get_zone_num(a.lsn) /\ ma = Masked(a.lsn) /\ ka = a.len /\ b = a.lsn
    BY <2>1
  <2>3. PICK size \in Nat : size = ZoneSize
    BY Area
  <2>4. ma + ka <= size /\ b = get_first_sector_in_zone(az) + ma
    BY <2>1, <2>2, <2>3
  <2> QED BY <2>2, <2>3, <2>4
<1>3. PICK g \in Nat : g = get_first_sector_in_zone(az) /\ b = g + ma
  BY <1>2, ZonesInOrder
<1>4. PICK n \in Nat, x \in Nat : n = ma + ka - 1 /\ x = b + ka - 1
  <2>1. ma + ka - 1 \in Nat /\ b + ka - 1 \in Nat
    OBVIOUS
  <2> QED BY <2>1
<1>5. n \in 0 .. ZoneSize - 1 /\ x = get_first_sector_in_zone(az) + n
  <2>1. ma + ka <= size /\ b = g + ma
    BY <1>2, <1>3
  <2>2. n \in 0 .. size - 1 /\ x = g + n
    BY <1>4, <2>1
  <2> QED BY <1>2, <1>3, <2>2
<1>6. get_zone_num(x) = az /\ Masked(x) = n
  BY <1>5, PageOf
<1>7. v.last = x
  BY <1>1, <1>2, <1>4
<1> QED BY <1>2, <1>3, <1>4, <1>6, <1>7 DEF PredictedAt

(* The row's tail: what the loop cannot have reached of the zone.           *)
LEMMA TailIsUnreached ==
  ASSUME TestCase \in Cases, NEW v, VerifiedType(v), NEW z \in Zones, NEW a, Predicts(v, a),
         Odd(v.loop) \/ z = current_zone_num(v),
         CacheOn => Odd(v.loop) \/ z = get_zone_num(v.last),
         NEW p, Looks(RowTail(z, v), p)
  PROVE  p \in Used /\ Unreached(v, a, p)
<1>1. PICK f \in Nat, t \in Nat :
        f = get_first_sector_in_zone(z) /\ LastTested(z) = f + t /\ z \in Nat
  BY ZonePlace
<1>2. ASSUME NEW q \in Int, q = p, q >= f, q < f + t
      PROVE  p \in Used /\ \E y \in Nat : y = Masked(p) /\ q = f + y /\ get_zone_num(p) = z
  <2>1. p \in Used /\ get_zone_num(p) = z /\ p = get_first_sector_in_zone(z) + Masked(p)
    BY <1>1, <1>2, ZonePage
  <2>2. PICK y \in Nat : y = Masked(p)
    BY <2>1, UsedPage
  <2>3. q = f + y
    BY <1>1, <1>2, <2>1, <2>2
  <2> QED BY <2>1, <2>2, <2>3
<1>3. CASE CacheOn
  <2>0. PredictedAt(v, a)
    BY <1>3, PredictedPlace
  <2>1. PICK az, ma \in Nat, ka \in Nat \ {0}, b, g, size \in Nat :
           /\ az = get_zone_num(v.last) /\ az = get_zone_num(a.lsn)
           /\ ma = Masked(a.lsn) /\ ka = a.len /\ b = a.lsn /\ g = get_first_sector_in_zone(az)
           /\ size = ZoneSize /\ b = g + ma /\ ma + ka <= size
           /\ v.last = b + ka - 1 /\ Masked(v.last) = ma + ka - 1
    BY <2>0 DEF PredictedAt
  <2>2. PICK n \in Nat : n = ma + ka /\ n = (ma + ka - 1) + 1
    OBVIOUS
  <2>3. RowTail(z, v).from = f + n /\ RowTail(z, v).to = f + t
    <3>1. PICK e \in Nat : e = Masked(v.last) /\ e + 1 = n
      <4>1. PICK e \in Nat : e = ma + ka - 1
        BY <2>2
      <4>2. e = Masked(v.last) /\ e + 1 = n
        BY <2>1, <2>2, <4>1
      <4> QED BY <4>2
    <3>2. RowTail(z, v).from = f + e + 1 /\ RowTail(z, v).to = f + t
      BY <1>1, <1>3, <3>1 DEF RowTail, Expect
    <3> QED BY <3>1, <3>2
  <2>4. PICK q \in Int : q = p /\ q >= f + n /\ q < f + t
    BY <2>3 DEF Looks
  <2>5. PICK y \in Nat : p \in Used /\ y = Masked(p) /\ q = f + y /\ get_zone_num(p) = z
    BY <1>2, <2>4
  <2>6. y >= ma + ka
    BY <2>2, <2>4, <2>5
  <2>7. CASE Odd(v.loop)
    BY <1>3, <2>1, <2>5, <2>6, <2>7 DEF Unreached, After
  <2>8. CASE ~Odd(v.loop)
    <3>1. f = g
      BY <1>1, <1>3, <2>1, <2>8
    <3>2. q >= b + ka
      <4>1. b = g + ma /\ q = f + y
        BY <2>1, <2>5
      <4> QED BY <2>6, <3>1, <4>1
    <3> QED BY <1>3, <2>1, <2>4, <2>5, <2>8, <3>2 DEF Unreached, After
  <2> QED BY <2>7, <2>8
<1>4. CASE ~CacheOn
  <2>1. PICK cz \in Nat, mv \in Nat, k \in Nat \ {0}, c \in Nat, g \in Nat :
           /\ cz = current_zone_num(v) /\ mv = Masked(v.lsn) /\ k = v.len /\ c = v.lsn
           /\ g = get_first_sector_in_zone(cz) /\ c = g + mv
    BY ResumePlace
  <2>2. PICK n \in Nat : n = (IF z < cz THEN k ELSE 0)
    OBVIOUS
  <2>3. PICK o \in Nat : o = (IF z = cz THEN k ELSE 0)
    OBVIOUS
  <2>4. RowHead(z, v).to = f + mv + n
    BY <1>1, <2>1, <2>2 DEF RowHead, Expect
  <2>5. RowTail(z, v).from = f + mv + n + o /\ RowTail(z, v).to = f + t
    BY <1>1, <1>4, <2>1, <2>3, <2>4 DEF RowTail, Expect
  <2>6. PICK q \in Int : q = p /\ q >= f + mv + n + o /\ q < f + t
    BY <2>5 DEF Looks
  <2>7. PICK y \in Nat : p \in Used /\ y = Masked(p) /\ q = f + y /\ get_zone_num(p) = z
    BY <1>2, <2>6
  <2>8. Resume(v).lsn = c /\ Resume(v).len = k /\ get_zone_num(c) = cz /\ Masked(c) = mv
    BY <2>1 DEF Resume, current_zone_num
  <2>9. y >= mv + n + o
    BY <2>6, <2>7
  <2>10. CASE Odd(v.loop)
    <3>1. y >= mv + k \/ (y >= mv /\ z > cz)
      BY <1>1, <2>2, <2>3, <2>9
    <3> QED BY <1>4, <2>7, <2>8, <2>10, <3>1 DEF Unreached, After
  <2>11. CASE ~Odd(v.loop)
    <3>1. z = cz
      BY <2>1, <2>11
    <3>2. f = g /\ o = k
      BY <1>1, <2>1, <2>3, <3>1
    <3>3. q >= c + k
      BY <2>1, <2>7, <2>9, <3>2
    <3> QED BY <1>4, <2>6, <2>7, <2>8, <2>11, <3>3 DEF Unreached, After
  <2> QED BY <2>10, <2>11
<1> QED BY <1>3, <1>4

(* A zone behind the current one, in an even loop.                          *)
LEMMA ZoneIsUnreached ==
  ASSUME TestCase \in Cases, NEW v, VerifiedType(v), NEW z \in Zones, NEW a, Predicts(v, a),
         ~Odd(v.loop), z > current_zone_num(v),
         CacheOn => ~(get_zone_num(v.last) > current_zone_num(v) + 1),
         NEW p, Looks(Behind(z, v), p)
  PROVE  p \in Used /\ Unreached(v, a, p)
<1>1. PICK f \in Nat, t \in Nat, size \in Nat :
        /\ f = get_first_sector_in_zone(z) /\ size = ZoneSize /\ LastTested(z) = f + t /\ z \in Nat
        /\ \A y \in Nat : y < z => get_first_sector_in_zone(y) + size <= f
  BY ZonePlace
<1>2. ASSUME NEW q \in Int, q = p, q >= f, q < f + t PROVE p \in Used
  BY <1>1, <1>2, ZonePage
<1>3. PICK cz, mv \in Nat, k \in Nat \ {0}, c, g, u, s \in Nat :
           /\ cz = current_zone_num(v) /\ mv = Masked(v.lsn) /\ k = v.len /\ c = v.lsn
           /\ g = get_first_sector_in_zone(cz) /\ u = Tested /\ s = ZoneSize
           /\ c = g + mv /\ mv + k <= s /\ mv <= u /\ u <= s
           /\ ~(TestCase = "dpin_0005" /\ ~Odd(v.loop)) => mv + k <= u
  BY ResumePlace
<1>6. mv + k <= size
  BY <1>1, <1>3
<1>4. CASE CacheOn
  <2>0. PredictedAt(v, a)
    BY <1>4, PredictedPlace
  <2>1. PICK az, ma \in Nat, ka \in Nat \ {0}, b, h, n \in Nat :
           /\ az = get_zone_num(v.last) /\ az = get_zone_num(a.lsn)
           /\ ma = Masked(a.lsn) /\ ka = a.len /\ b = a.lsn /\ h = get_first_sector_in_zone(az)
           /\ n = ZoneSize /\ b = h + ma /\ ma + ka <= n
           /\ v.last = b + ka - 1 /\ Masked(v.last) = ma + ka - 1
    BY <2>0 DEF PredictedAt
  <2>4. ma + ka <= size
    BY <1>1, <2>1
  <2>2. CASE z = az
    <3>1. f = h
      BY <1>1, <2>1, <2>2
    <3>2. PICK e \in Nat : e = v.last /\ e = b + ka - 1
      BY <2>1
    <3>3. Behind(z, v).from = e + 1 /\ Behind(z, v).to = f + t
      BY <1>1, <1>4, <2>1, <2>2, <3>2 DEF Behind, Expect
    <3>4. PICK q \in Int : q = p /\ q >= e + 1 /\ q < f + t
      BY <3>3 DEF Looks
    <3>5. q >= b + ka /\ q >= f
      <4>1. b = h + ma
        BY <2>1
      <4> QED BY <3>1, <3>2, <3>4, <4>1
    <3> QED BY <1>2, <1>4, <2>1, <3>4, <3>5 DEF Unreached, After
  <2>3. CASE z # az
    <3>1. az < z
      BY <1>1, <1>3, <1>4, <2>1, <2>3
    <3>2. h + size <= f
      BY <1>1, <2>1, <3>1
    <3>3. Behind(z, v).from = f /\ Behind(z, v).to = f + t
      BY <1>1, <2>1, <2>3 DEF Behind, Expect
    <3>4. PICK q \in Int : q = p /\ q >= f /\ q < f + t
      BY <3>3 DEF Looks
    <3>5. q >= b + ka
      <4>1. b = h + ma
        BY <2>1
      <4> QED BY <2>4, <3>2, <3>4, <4>1
    <3> QED BY <1>2, <1>4, <2>1, <3>4, <3>5 DEF Unreached, After
  <2> QED BY <2>2, <2>3
<1>5. CASE ~CacheOn
  <2>1. g + size <= f
    <3>1. cz < z
      BY <1>3
    <3> QED BY <1>1, <1>3, <3>1
  <2>2. Behind(z, v).from = f /\ Behind(z, v).to = f + t
    BY <1>1, <1>5 DEF Behind, Expect
  <2>3. PICK q \in Int : q = p /\ q >= f /\ q < f + t
    BY <2>2 DEF Looks
  <2>4. q >= c + k
    <3>1. c = g + mv
      BY <1>3
    <3> QED BY <1>6, <2>1, <2>3, <3>1
  <2> QED BY <1>2, <1>3, <1>5, <2>3, <2>4 DEF Unreached, After, Resume
<1> QED BY <1>4, <1>5

(* What is left of the current zone in an even loop of dpin_0005.           *)
LEMMA RestIsUnreached ==
  ASSUME TestCase \in Cases, NEW v, VerifiedType(v), NEW z \in Zones, NEW a, Predicts(v, a),
         ~Odd(v.loop), z = current_zone_num(v), CacheOn => get_zone_num(v.last) = z,
         NEW p, Looks(Rest_0005(z, v), p)
  PROVE  p \in Used /\ Unreached(v, a, p)
<1>1. PICK f \in Nat, t \in Nat :
        f = get_first_sector_in_zone(z) /\ LastTested(z) = f + t /\ z \in Nat
  BY ZonePlace
<1>2. ASSUME NEW q \in Int, q = p, q >= f, q < f + t PROVE p \in Used
  BY <1>1, <1>2, ZonePage
<1>3. PICK mv \in Nat, k \in Nat \ {0}, c \in Nat : k = v.len /\ c = v.lsn /\ c = f + mv
  BY <1>1, ResumePlace
<1>4. CASE CacheOn
  <2>1. PICK ma \in Nat, ka \in Nat \ {0}, b \in Nat :
           ka = a.len /\ b = a.lsn /\ b = f + ma /\ v.last = b + ka - 1
    <3>1. PICK az \in Nat, ma \in Nat, ka \in Nat \ {0}, b \in Nat, h \in Nat, s \in Nat :
             /\ az = get_zone_num(v.last) /\ az = get_zone_num(a.lsn)
             /\ ma = Masked(a.lsn) /\ ka = a.len /\ b = a.lsn /\ h = get_first_sector_in_zone(az)
             /\ s = ZoneSize /\ b = h + ma /\ ma + ka <= s
             /\ v.last = b + ka - 1 /\ Masked(v.last) = ma + ka - 1
      BY <1>4, PredictedPlace DEF PredictedAt
    <3>2. h = f
      BY <1>1, <1>4, <3>1
    <3> QED BY <3>1, <3>2
  <2>2. PICK e \in Nat : e = v.last /\ e = b + ka - 1
    BY <2>1
  <2>3. Rest_0005(z, v).from = e + 1 /\ Rest_0005(z, v).to = f + t
    BY <1>1, <1>4, <2>2 DEF Rest_0005, Expect
  <2>4. PICK q \in Int : q = p /\ q >= e + 1 /\ q < f + t
    BY <2>3 DEF Looks
  <2>5. q >= b + ka /\ q >= f
    BY <2>1, <2>2, <2>4
  <2> QED BY <1>2, <1>4, <2>1, <2>4, <2>5 DEF Unreached, After
<1>5. CASE ~CacheOn
  <2>1. Rest_0005(z, v).from = c + k /\ Rest_0005(z, v).to = f + t
    BY <1>1, <1>3, <1>5 DEF Rest_0005, Expect
  <2>2. PICK q \in Int : q = p /\ q >= c + k /\ q < f + t
    BY <2>1 DEF Looks
  <2>3. q >= f
    BY <1>3, <2>2
  <2> QED BY <1>2, <1>3, <1>5, <2>2, <2>3 DEF Unreached, After, Resume
<1> QED BY <1>4, <1>5

-------------------------------------------------------------------------------
\* Behind all the loop may have reached, every page is as the loop before left it.
OldBehind(d, v, a) ==
  Predicts(v, a) /\ \A p \in Used : Unreached(v, a, p) => Done(p, d[p], v.loop - 1)

Sound(d, v) == VerifiedType(v) /\ VerifiedOK(d, v) /\ (CacheOn => v.lastLoop = v.loop)

\* What was verified says there is such a request.
LEMMA BehindIsOld ==
  ASSUME NEW d, NEW v, Sound(d, v)
  PROVE  \E a : OldBehind(d, v, a)
<1>1. CASE CacheOn
  <2>1. PICK a \in Requests : /\ Valid(v.loop, a) /\ v.last = a.lsn + a.len - 1
                              /\ UntouchedFrom(d, v.loop, a)
    BY <1>1 DEF Sound, VerifiedOK, PredictionRight
  <2>2. OldBehind(d, v, a)
    BY <1>1, <2>1 DEF OldBehind, Predicts, Unreached, UntouchedFrom
  <2> QED BY <2>2
<1>2. CASE ~CacheOn
  <2>1. UntouchedFrom(d, v.loop, Resume(v))
    BY <1>2 DEF Sound, VerifiedOK
  <2>2. OldBehind(d, v, v)
    BY <1>2, <2>1 DEF OldBehind, Predicts, Unreached, UntouchedFrom
  <2> QED BY <2>2
<1> QED BY <1>1, <1>2

(* What is left of the current zone before the request, in an even loop of  *)
(* dpin_0005.                                                               *)
LEMMA RestIsBefore ==
  ASSUME TestCase \in Cases, NEW v, VerifiedType(v), NEW z \in Zones, ~Odd(v.loop),
         z = current_zone_num(v), NEW p,
         Looks(Sparse(Expect(get_first_sector_in_zone(z), v.lsn, v.loop)), p)
  PROVE  p \in Used /\ Before(v.loop, Resume(v), p)
<1>1. PICK cz, mv \in Nat, k \in Nat \ {0}, c, g, u, s \in Nat :
           /\ cz = current_zone_num(v) /\ mv = Masked(v.lsn) /\ k = v.len /\ c = v.lsn
           /\ g = get_first_sector_in_zone(cz) /\ u = Tested /\ s = ZoneSize
           /\ c = g + mv /\ mv + k <= s /\ mv <= u /\ u <= s
           /\ ~(TestCase = "dpin_0005" /\ ~Odd(v.loop)) => mv + k <= u
  BY ResumePlace
<1>2. PICK f \in Nat, t \in Nat :
        f = get_first_sector_in_zone(z) /\ t = Tested /\ LastTested(z) = f + t
  BY ZonePlace
<1>3. f = g /\ t = u
  BY <1>1, <1>2
<1>4. PICK q \in Int : q = p /\ q >= f /\ q < c
  BY <1>1, <1>2 DEF Looks, Sparse, Expect
<1>5. q < f + t
  <2>1. c = g + mv /\ mv <= u
    BY <1>1
  <2> QED BY <1>3, <1>4, <2>1
<1>6. p \in Used
  BY <1>2, <1>4, <1>5, ZonePage
<1> QED BY <1>1, <1>4, <1>6 DEF Before, Resume

(* A check of what the loop has written passes, and one of what it cannot   *)
(* have reached.                                                            *)
LEMMA WrittenPasses ==
  ASSUME NEW d, NEW v, Sound(d, v), NEW check, AsDone(check), check.loop = v.loop,
         \A p : Looks(check, p) => p \in Used /\ Before(v.loop, Resume(v), p)
  PROVE  ~CheckFails(check, d)
<1>1. CoveredUpTo(d, v.loop, Resume(v))
  BY DEF Sound, VerifiedOK
<1>2. \A p : Looks(check, p) => Done(p, d[p], check.loop)
  BY <1>1 DEF CoveredUpTo
<1> QED BY <1>2, CheckPasses

\* The same of what the loop cannot have reached.
LEMMA UnreachedPasses ==
  ASSUME NEW d, NEW v, NEW a, OldBehind(d, v, a), NEW check, AsDone(check),
         check.loop = v.loop - 1,
         \A p : Looks(check, p) => p \in Used /\ Unreached(v, a, p)
  PROVE  ~CheckFails(check, d)
<1>1. \A p : Looks(check, p) => Done(p, d[p], check.loop)
  BY DEF OldBehind
<1> QED BY <1>1, CheckPasses

-------------------------------------------------------------------------------
\* When the check of a zone may report a device that lost nothing it may not lose.
Excused(v) ==
  \/ CacheOn /\ v.lastLoop # v.loop
  \/ TestCase = "dpin_0005" /\ CacheOn /\ ~Odd(v.loop)
       /\ get_zone_num(v.last) # current_zone_num(v)
  \/ CacheOn /\ ~Odd(v.loop) /\ get_zone_num(v.last) > current_zone_num(v) + 1

\* The checks of a row pass,
LEMMA RowPasses ==
  ASSUME TestCase \in Cases, NEW d, NEW v, Sound(d, v), NEW z \in Zones,
         TestCase # "dpin_0005", Odd(v.loop) \/ z = current_zone_num(v),
         NEW check \in RowChecks(z, v)
  PROVE  ~CheckFails(check, d)
<1>1. VerifiedType(v)
  BY DEF Sound
<1>2. CASE check = RowHead(z, v)
  <2>1. AsDone(check) /\ check.loop = v.loop
    BY <1>2 DEF AsDone, RowHead, Expect
  <2>2. \A p : Looks(check, p) => p \in Used /\ Before(v.loop, Resume(v), p)
    BY <1>1, <1>2, HeadIsBefore
  <2> QED BY <2>1, <2>2, WrittenPasses
<1>3. CASE check = RowTail(z, v) /\ (CacheOn => Odd(v.loop) \/ z = get_zone_num(v.last))
  <2>1. AsDone(check) /\ check.loop = v.loop - 1
    BY <1>3 DEF AsDone, RowTail, Expect
  <2>2. PICK a : OldBehind(d, v, a)
    BY BehindIsOld
  <2>3. \A p : Looks(check, p) => p \in Used /\ Unreached(v, a, p)
    BY <1>1, <1>3, <2>2, TailIsUnreached DEF OldBehind
  <2> QED BY <2>1, <2>2, <2>3, UnreachedPasses
<1> QED BY <1>2, <1>3 DEF RowChecks

\* that of a zone the loop has left,
LEMMA WholePasses ==
  ASSUME TestCase \in Cases, NEW d, NEW v, Sound(d, v), NEW z \in Zones, ~Odd(v.loop),
         z < current_zone_num(v), NEW check,
         check = IF TestCase = "dpin_0005" THEN Sparse(Whole(z, v.loop)) ELSE Whole(z, v.loop)
  PROVE  ~CheckFails(check, d)
<1>1. VerifiedType(v)
  BY DEF Sound
<1>2. AsDone(check) /\ check.loop = v.loop
  <2>1. CASE TestCase = "dpin_0005"
    <3>1. check.sparse = TRUE /\ check.loop = v.loop
      BY <2>1 DEF Whole, Sparse, Expect
    <3> QED BY <2>1, <3>1 DEF AsDone
  <2>2. CASE TestCase # "dpin_0005"
    <3>1. check.sparse = FALSE /\ check.loop = v.loop
      BY <2>2 DEF Whole, Expect
    <3> QED BY <2>2, <3>1 DEF AsDone
  <2> QED BY <2>1, <2>2
<1>3. \A p : Looks(check, p) <=> Looks(Whole(z, v.loop), p)
  BY DEF Looks, Whole, Sparse, Expect
<1>4. \A p : Looks(check, p) => p \in Used /\ Before(v.loop, Resume(v), p)
  BY <1>1, <1>3, ZoneIsBefore
<1> QED BY <1>2, <1>4, WrittenPasses

\* that of a zone it has not come to,
LEMMA BehindPasses ==
  ASSUME TestCase \in Cases, NEW d, NEW v, Sound(d, v), NEW z \in Zones, ~Odd(v.loop),
         z > current_zone_num(v), ~Excused(v)
  PROVE  ~CheckFails(Behind(z, v), d)
<1>1. VerifiedType(v) /\ v.loop \in Nat \ {0}
  BY DEF Sound, VerifiedType
<1>2. AsDone(Behind(z, v)) /\ Behind(z, v).loop = v.loop - 1
  <2>1. Odd(v.loop - 1)
    BY <1>1, OddBefore
  <2> QED BY <2>1 DEF AsDone, Behind, Expect
<1>3. PICK a : OldBehind(d, v, a)
  BY BehindIsOld
<1>4. CacheOn => ~(get_zone_num(v.last) > current_zone_num(v) + 1)
  BY DEF Excused
<1>5. \A p : Looks(Behind(z, v), p) => p \in Used /\ Unreached(v, a, p)
  BY <1>1, <1>3, <1>4, ZoneIsUnreached DEF OldBehind
<1> QED BY <1>2, <1>3, <1>5, UnreachedPasses

\* and those of dpin_0005.
LEMMA SparsePasses ==
  ASSUME TestCase = "dpin_0005", NEW d, NEW v, Sound(d, v), NEW z \in Zones, ~Excused(v),
         NEW check \in extra_verification_0005(z, v)
  PROVE  ~CheckFails(check, d)
<1>1. VerifiedType(v) /\ v.loop \in Nat \ {0} /\ TestCase \in Cases
  BY DEF Sound, VerifiedType, Cases
<1>2. PICK a : OldBehind(d, v, a)
  BY BehindIsOld
<1>3. Predicts(v, a)
  BY <1>2 DEF OldBehind
<1>4. Odd(v.loop - 1) <=> ~Odd(v.loop)
  BY <1>1, OddBefore
<1>5. CASE Odd(v.loop) /\ check = RowHead(z, v)
  <2>1. AsDone(check) /\ check.loop = v.loop
    BY <1>5 DEF AsDone, RowHead, Expect
  <2>2. \A p : Looks(check, p) => p \in Used /\ Before(v.loop, Resume(v), p)
    BY <1>1, <1>5, HeadIsBefore
  <2> QED BY <2>1, <2>2, WrittenPasses
<1>6. CASE Odd(v.loop) /\ check = Sparse(RowTail(z, v))
  <2>1. AsDone(check) /\ check.loop = v.loop - 1
    BY <1>4, <1>6 DEF AsDone, RowTail, Sparse, Expect
  <2>2. \A p : Looks(check, p) <=> Looks(RowTail(z, v), p)
    BY <1>6 DEF Looks, RowTail, Sparse, Expect
  <2>3. \A p : Looks(check, p) => p \in Used /\ Unreached(v, a, p)
    BY <1>1, <1>3, <1>6, <2>2, TailIsUnreached
  <2> QED BY <1>2, <2>1, <2>3, UnreachedPasses
<1>7. CASE /\ ~Odd(v.loop) /\ z = current_zone_num(v)
           /\ check = Sparse(Expect(get_first_sector_in_zone(z), v.lsn, v.loop))
  <2>1. AsDone(check) /\ check.loop = v.loop
    BY <1>7 DEF AsDone, Sparse, Expect
  <2>2. \A p : Looks(check, p) => p \in Used /\ Before(v.loop, Resume(v), p)
    BY <1>1, <1>7, RestIsBefore
  <2> QED BY <2>1, <2>2, WrittenPasses
<1>8. CASE ~Odd(v.loop) /\ z = current_zone_num(v) /\ check = Rest_0005(z, v)
  <2>1. AsDone(check) /\ check.loop = v.loop - 1
    BY <1>4, <1>8 DEF AsDone, Rest_0005, Expect
  <2>2. CacheOn => get_zone_num(v.last) = z
    BY <1>8 DEF Excused
  <2>3. \A p : Looks(check, p) => p \in Used /\ Unreached(v, a, p)
    BY <1>1, <1>3, <1>8, <2>2, RestIsUnreached
  <2> QED BY <1>2, <2>1, <2>3, UnreachedPasses
<1>9. CASE ~Odd(v.loop) /\ z < current_zone_num(v) /\ check = Sparse(Whole(z, v.loop))
  BY <1>1, <1>9, WholePasses
<1>10. CASE ~Odd(v.loop) /\ z > current_zone_num(v) /\ check = Behind(z, v)
  BY <1>1, <1>10, BehindPasses
<1>11. z < current_zone_num(v) \/ z = current_zone_num(v) \/ z > current_zone_num(v)
  <2>1. PICK cz \in Nat, x \in Nat : cz = current_zone_num(v) /\ x = z
    <3>1. current_zone_num(v) \in Nat
      BY <1>1, ResumePlace
    <3>2. z \in Nat
      BY <1>1, ZonePlace
    <3> QED BY <3>1, <3>2
  <2> QED BY <2>1
<1> QED BY <1>5, <1>6, <1>7, <1>8, <1>9, <1>10, <1>11 DEF extra_verification_0005

MagicIn(d) == TestCase = "dpin_0008" => \A p \in 0 .. RD_PAGES - 1 : d[p] = Magic

(* The check of a zone passes a device that only lost what it may lose,     *)
(* but for the cases that are excused.                                      *)
LEMMA NoFalseAlarm ==
  ASSUME TestCase \in Cases, NEW d, NEW v, VerifiedType(v), VerifiedOK(d, v), MagicIn(d),
         NEW z \in Zones, ~Excused(v)
  PROVE  ~ExtraFails(z, v, d)
<1>1. Sound(d, v)
  BY DEF Sound, Excused
<1>2. CASE TestCase = "dpin_0008"
  BY <1>2 DEF MagicIn, ExtraFails
<1>3. CASE TestCase = "dpin_0005"
  <2>1. \A check \in extra_verification_0005(z, v) : ~CheckFails(check, d)
    BY <1>1, <1>3, SparsePasses
  <2>2. Checks(z, v) = extra_verification_0005(z, v)
    BY <1>3 DEF Checks
  <2> QED BY <1>3, <2>1, <2>2 DEF ExtraFails
<1>4. CASE TestCase \in {"dpin_0004", "dpin_0007"}
  <2>1. ASSUME NEW check \in Checks(z, v) PROVE ~CheckFails(check, d)
    <3>1. CASE Odd(v.loop) \/ z = current_zone_num(v)
      <4>1. check \in RowChecks(z, v)
        BY <1>4, <2>1, <3>1 DEF Checks, extra_verification_0004, extra_verification_0007
      <4> QED BY <1>1, <1>4, <3>1, <4>1, RowPasses
    <3>2. CASE ~Odd(v.loop) /\ z < current_zone_num(v)
      <4>1. check = Whole(z, v.loop)
        <5>1. z # current_zone_num(v)
          BY <3>2, ResumePlace, ZonePlace
        <5> QED BY <1>4, <2>1, <3>2, <5>1
                DEF Checks, extra_verification_0004, extra_verification_0007, ZoneChecks
      <4> QED BY <1>1, <1>4, <3>2, <4>1, WholePasses
    <3>3. CASE ~Odd(v.loop) /\ z # current_zone_num(v) /\ ~(z < current_zone_num(v))
      <4>1. check = Behind(z, v)
        BY <1>4, <2>1, <3>3
           DEF Checks, extra_verification_0004, extra_verification_0007, ZoneChecks
      <4>2. z > current_zone_num(v)
        <5>1. PICK cz \in Nat, x \in Nat : cz = current_zone_num(v) /\ x = z
          <6>1. current_zone_num(v) \in Nat
            BY ResumePlace
          <6>2. z \in Nat
            BY ZonePlace
          <6> QED BY <6>1, <6>2
        <5> QED BY <3>3, <5>1
      <4> QED BY <1>1, <1>4, <3>3, <4>1, <4>2, BehindPasses
    <3> QED BY <3>1, <3>2, <3>3
  <2> QED BY <1>4, <2>1 DEF ExtraFails
<1> QED BY <1>2, <1>3, <1>4 DEF Cases

-------------------------------------------------------------------------------
\* A check that notices when a page is broken.
Notices(check, p) == Looks(check, p) /\ check.loop \in Nat

\* No check takes a broken page for one of a loop.
LEMMA BrokenIsFound ==
  ASSUME NEW d \in [Pages -> Int], NEW p \in Pages, NEW check, Notices(check, p)
  PROVE  CheckFails(check, [d EXCEPT ![p] = Broken])
<1> DEFINE e == [d EXCEPT ![p] = Broken]
<1>1. e[p] = -1
  BY DEF Broken
<1>2. p \in check.from .. check.to - 1 /\ check.loop \in Nat
  BY DEF Notices, Looks
<1>3. ~PageIsOf_05(p, e[p], check.loop)
  BY <1>1, <1>2 DEF PageIsOf_05, Broken
<1>4. ~PageIsOf(e[p], check.loop)
  BY <1>1, <1>2 DEF PageIsOf
<1> HIDE DEF e
<1>5. CheckFails(check, e)
  BY <1>2, <1>3, <1>4 DEF CheckFails
<1> QED BY <1>5 DEF e

(* Without a cache: what is not in a row's head, nor the request to resume  *)
(* at, is in the row's tail.                                                *)
LEMMA RowIsLookedAt ==
  ASSUME TestCase \in Cases, ~CacheOn, NEW v, VerifiedType(v), NEW z \in Zones,
         NEW p \in get_first_sector_in_zone(z) .. LastTested(z) - 1, p \notin PagesOf(v)
  PROVE  Notices(RowHead(z, v), p) \/ Notices(RowTail(z, v), p)
<1>1. PICK cz, mv \in Nat, k \in Nat \ {0}, c, g, u, s \in Nat :
           /\ cz = current_zone_num(v) /\ mv = Masked(v.lsn) /\ k = v.len /\ c = v.lsn
           /\ g = get_first_sector_in_zone(cz) /\ u = Tested /\ s = ZoneSize
           /\ c = g + mv /\ mv + k <= s /\ mv <= u /\ u <= s
           /\ ~(TestCase = "dpin_0005" /\ ~Odd(v.loop)) => mv + k <= u
  BY ResumePlace
<1>2. PICK f \in Nat, t \in Nat :
        f = get_first_sector_in_zone(z) /\ LastTested(z) = f + t /\ z \in Nat
  BY ZonePlace
<1>3. PICK q \in Int : q = p /\ q >= f /\ q < f + t
  BY <1>2
<1>4. PICK n \in Nat : n = (IF z < cz THEN k ELSE 0)
  OBVIOUS
<1>5. PICK o \in Nat : o = (IF z = cz THEN k ELSE 0)
  OBVIOUS
<1>6. RowHead(z, v).from = f /\ RowHead(z, v).to = f + mv + n /\ RowHead(z, v).loop = v.loop
  BY <1>1, <1>2, <1>4 DEF RowHead, Expect
<1>7. /\ RowTail(z, v).from = f + mv + n + o /\ RowTail(z, v).to = f + t
      /\ RowTail(z, v).loop = v.loop - 1
  BY <1>1, <1>2, <1>5, <1>6 DEF RowTail, Expect
<1>8. v.loop \in Nat /\ v.loop - 1 \in Nat
  BY DEF VerifiedType
<1>9. CASE q < f + mv + n
  BY <1>3, <1>6, <1>8, <1>9 DEF Notices, Looks
<1>10. CASE q >= f + mv + n + o
  BY <1>3, <1>7, <1>8, <1>10 DEF Notices, Looks
<1>11. q < f + mv + n \/ q >= f + mv + n + o
  <2>1. CASE z = cz
    <3>1. f = g /\ n = 0 /\ o = k
      BY <1>1, <1>2, <1>4, <1>5, <2>1
    <3>2. ~(q >= c /\ q <= c + k - 1)
      BY <1>1, <1>3 DEF PagesOf
    <3>3. c = f + mv
      BY <1>1, <3>1
    <3> QED BY <3>1, <3>2, <3>3
  <2>2. CASE z # cz
    BY <1>5, <2>2
  <2> QED BY <2>1, <2>2
<1> QED BY <1>9, <1>10, <1>11

(* The same of the current zone in an even loop of dpin_0005.               *)
LEMMA RestIsLookedAt ==
  ASSUME TestCase \in Cases, ~CacheOn, NEW v, VerifiedType(v), NEW z \in Zones,
         NEW p \in get_first_sector_in_zone(z) .. LastTested(z) - 1, p \notin PagesOf(v)
  PROVE  \/ Notices(Sparse(Expect(get_first_sector_in_zone(z), v.lsn, v.loop)), p)
         \/ Notices(Rest_0005(z, v), p)
<1>1. PICK k \in Nat \ {0}, c \in Nat : k = v.len /\ c = v.lsn
  BY DEF VerifiedType
<1>2. PICK f \in Nat, t \in Nat :
        f = get_first_sector_in_zone(z) /\ LastTested(z) = f + t
  BY ZonePlace
<1>3. PICK q \in Int : q = p /\ q >= f /\ q < f + t
  BY <1>2
<1>4. v.loop \in Nat /\ v.loop - 1 \in Nat
  BY DEF VerifiedType
<1>5. CASE q < c
  BY <1>1, <1>2, <1>3, <1>4, <1>5 DEF Notices, Looks, Sparse, Expect
<1>6. CASE q >= c + k
  <2>1. Rest_0005(z, v).from = c + k /\ Rest_0005(z, v).to = f + t
        /\ Rest_0005(z, v).loop = v.loop - 1
    BY <1>1, <1>2 DEF Rest_0005, Expect
  <2> QED BY <1>3, <1>4, <1>6, <2>1 DEF Notices, Looks
<1>7. q < c \/ q >= c + k
  BY <1>1, <1>3 DEF PagesOf
<1> QED BY <1>5, <1>6, <1>7

\* A zone that is left or not come to is looked at from end to end.
LEMMA ZoneIsLookedAt ==
  ASSUME TestCase \in Cases, ~CacheOn, NEW v, VerifiedType(v), NEW z \in Zones,
         NEW p \in get_first_sector_in_zone(z) .. LastTested(z) - 1
  PROVE  Notices(Whole(z, v.loop), p) /\ Notices(Behind(z, v), p)
<1>1. v.loop \in Nat /\ v.loop - 1 \in Nat
  BY DEF VerifiedType
<1> QED BY <1>1 DEF Notices, Looks, Whole, Behind, Expect


(* Without a cache some check looks at each page but those of the request   *)
(* to resume at.                                                            *)
LEMMA EveryPageIsLookedAt ==
  ASSUME TestCase \in Cases, TestCase # "dpin_0008", ~CacheOn, NEW v, VerifiedType(v),
         NEW z \in Zones,
         NEW p \in get_first_sector_in_zone(z) .. LastTested(z) - 1, p \notin PagesOf(v)
  PROVE  \E check \in Checks(z, v) : Notices(check, p)
<1>1. ~TailUnknown(z, v)
  BY DEF TailUnknown
<1>2. Notices(RowHead(z, v), p) \/ Notices(RowTail(z, v), p)
  BY RowIsLookedAt
<1>3. Notices(Whole(z, v.loop), p) /\ Notices(Behind(z, v), p)
  BY ZoneIsLookedAt
<1>4. CASE TestCase \in {"dpin_0004", "dpin_0007"}
  <2>1. CASE Odd(v.loop) \/ z = current_zone_num(v)
    <3>1. RowHead(z, v) \in Checks(z, v) /\ RowTail(z, v) \in Checks(z, v)
      BY <1>1, <1>4, <2>1
         DEF Checks, extra_verification_0004, extra_verification_0007, RowChecks
    <3> QED BY <1>2, <3>1
  <2>2. CASE ~(Odd(v.loop) \/ z = current_zone_num(v))
    <3>1. Whole(z, v.loop) \in Checks(z, v) \/ Behind(z, v) \in Checks(z, v)
      BY <1>4, <2>2 DEF Checks, extra_verification_0004, extra_verification_0007, ZoneChecks
    <3> QED BY <1>3, <3>1
  <2> QED BY <2>1, <2>2
<1>5. CASE TestCase = "dpin_0005"
  <2>1. Checks(z, v) = extra_verification_0005(z, v)
    BY <1>5 DEF Checks
  <2>2. /\ z < current_zone_num(v) => z # current_zone_num(v) /\ ~(z > current_zone_num(v))
        /\ z = current_zone_num(v) => ~(z < current_zone_num(v)) /\ ~(z > current_zone_num(v))
        /\ z > current_zone_num(v) => z # current_zone_num(v) /\ ~(z < current_zone_num(v))
        /\ z < current_zone_num(v) \/ z = current_zone_num(v) \/ z > current_zone_num(v)
    <3>1. PICK cz \in Nat, x \in Nat : cz = current_zone_num(v) /\ x = z
      <4>1. current_zone_num(v) \in Nat
        BY ResumePlace
      <4>2. z \in Nat
        BY ZonePlace
      <4> QED BY <4>1, <4>2
    <3> QED BY <3>1
  <2>3. CASE Odd(v.loop)
    <3>1. RowHead(z, v) \in Checks(z, v) /\ Sparse(RowTail(z, v)) \in Checks(z, v)
      BY <1>1, <2>1, <2>3 DEF extra_verification_0005
    <3>2. Notices(RowTail(z, v), p) => Notices(Sparse(RowTail(z, v)), p)
      BY DEF Notices, Looks, Sparse, RowTail, Expect
    <3> QED BY <1>2, <3>1, <3>2
  <2>4. CASE ~Odd(v.loop) /\ z = current_zone_num(v)
    <3>1. extra_verification_0005(z, v)
            = {Sparse(Expect(get_first_sector_in_zone(z), v.lsn, v.loop)), Rest_0005(z, v)}
      BY <2>2, <2>4 DEF extra_verification_0005
    <3> QED BY <2>1, <3>1, RestIsLookedAt
  <2>5. CASE ~Odd(v.loop) /\ z < current_zone_num(v)
    <3>1. extra_verification_0005(z, v) = {Sparse(Whole(z, v.loop))}
      BY <2>2, <2>5 DEF extra_verification_0005
    <3>2. Notices(Sparse(Whole(z, v.loop)), p)
      BY <1>3 DEF Notices, Looks, Sparse, Whole, Expect
    <3> QED BY <2>1, <3>1, <3>2
  <2>6. CASE ~Odd(v.loop) /\ z > current_zone_num(v)
    <3>1. extra_verification_0005(z, v) = {Behind(z, v)}
      BY <2>2, <2>6 DEF extra_verification_0005
    <3> QED BY <1>3, <2>1, <3>1
  <2> QED BY <2>2, <2>3, <2>4, <2>5, <2>6
<1> QED BY <1>4, <1>5 DEF Cases

\* So any other page that is broken makes the check of its zone fail.
LEMMA CoveredZone ==
  ASSUME TestCase \in Cases, TestCase # "dpin_0008", ~CacheOn, NEW v, VerifiedType(v),
         NEW d \in [Pages -> Int], NEW z \in Zones,
         NEW p \in get_first_sector_in_zone(z) .. LastTested(z) - 1, p \notin PagesOf(v)
  PROVE  ExtraFails(z, v, [d EXCEPT ![p] = Broken])
<1>1. PICK check \in Checks(z, v) : Notices(check, p)
  BY EveryPageIsLookedAt
<1>2. p \in Pages
  <2>1. p \in Int /\ p >= get_first_sector_in_zone(z) /\ p < LastTested(z)
    <3>1. PICK f \in Nat, t \in Nat :
            f = get_first_sector_in_zone(z) /\ LastTested(z) = f + t
      BY ZonePlace
    <3>2. f + t - 1 < f + t
      OBVIOUS
    <3> QED BY <3>1
  <2> QED BY <2>1, ZonePage, UsedPage
<1>3. CheckFails(check, [d EXCEPT ![p] = Broken])
  BY <1>1, <1>2, BrokenIsFound
<1> QED BY <1>3 DEF ExtraFails

-------------------------------------------------------------------------------
(* The test case and the cache never change, nor does what depends on them  *)
(* alone.                                                                   *)
LEMMA SameArea ==
  ASSUME UNCHANGED <<TestCase, CacheOn>>
  PROVE  /\ first_sector' = first_sector /\ total_zone_num' = total_zone_num
         /\ reserved_sectors_in_zone' = reserved_sectors_in_zone
         /\ get_last_sector_in_test_area' = get_last_sector_in_test_area
         /\ \A x : /\ get_zone_num(x)' = get_zone_num(x)
                   /\ get_first_sector_in_zone(x)' = get_first_sector_in_zone(x)
                   /\ LastTested(x)' = LastTested(x)
         /\ Tested' = Tested /\ Used' = Used
<1>1. tune_test_area' = tune_test_area
  BY DEF tune_test_area
<1>2. first_sector' = first_sector
  BY <1>1 DEF first_sector
<1>3. last_sector' = last_sector /\ total_zone_num' = total_zone_num
  BY <1>1, <1>2 DEF last_sector, total_zone_num
<1>4. reserved_sectors_in_zone' = reserved_sectors_in_zone
  BY DEF reserved_sectors_in_zone
<1>5. get_last_sector_in_test_area' = get_last_sector_in_test_area
  BY <1>3, <1>4 DEF get_last_sector_in_test_area
<1>6. \A x : get_zone_num(x)' = get_zone_num(x)
  BY <1>2 DEF get_zone_num
<1>7. \A x : get_first_sector_in_zone(x)' = get_first_sector_in_zone(x)
  BY <1>2 DEF get_first_sector_in_zone
<1>8. \A x : LastTested(x)' = LastTested(x)
  BY <1>4, <1>7 DEF LastTested, get_last_sector_in_zone
<1>9. Tested' = Tested
  BY <1>4 DEF Tested
<1>10. Used' = Used
  BY <1>2, <1>3, <1>6, <1>9 DEF Used, InUse
<1> QED BY <1>2, <1>3, <1>4, <1>5, <1>6, <1>7, <1>8, <1>9, <1>10

\* The pattern and its walks stay the same,
LEMMA SamePattern ==
  ASSUME UNCHANGED <<TestCase, CacheOn>>
  PROVE  /\ FirstRequest' = FirstRequest
         /\ \A l, r : Following(l, r)' = Following(l, r) /\ Entry(l, r)' = Entry(l, r)
         /\ \A l, r : Place(l, r)' = Place(l, r)
         /\ \A w : Walks(w)' <=> Walks(w)
<1>1. FirstRequest' = FirstRequest
  BY SameArea DEF FirstRequest
<1>2. \A r, len : Interleaved(r, len)' = Interleaved(r, len)
  BY SameArea DEF Interleaved
<1>3. \A r, step : Sequential(r, step)' = Sequential(r, step)
  BY SameArea DEF Sequential
<1>4. \A r : pattern2_0007(r)' = pattern2_0007(r)
  BY SameArea DEF pattern2_0007
<1>5. \A l, r : Following(l, r)' = Following(l, r)
  BY <1>2, <1>3, <1>4 DEF Following, pattern1_0004, pattern2_0004, pattern1_0005, pattern2_0005,
     pattern1_0007, pattern1_0008, pattern2_0008
<1>6. \A l, r : Entry(l, r)' = Entry(l, r)
  BY DEF Entry
<1>7. \A l, r : Place(l, r)' = Place(l, r)
  BY <1>1, <1>6 DEF Place
<1>8. \A x : NextPlace(x)' = NextPlace(x)
  BY <1>5, <1>7 DEF NextPlace
<1>9. \A w : Walks(w)' <=> Walks(w)
  BY <1>8 DEF Walks
<1> QED BY <1>1, <1>5, <1>6, <1>7, <1>9

\* and so does what is said of a phase and of a verification.
LEMMA SameMeaning ==
  ASSUME UNCHANGED <<TestCase, CacheOn>>
  PROVE  /\ \A l, r : Valid(l, r)' <=> Valid(l, r)
         /\ \A d, l, r, c, ca, v : WritingOK(d, l, r, c, ca, v)' <=> WritingOK(d, l, r, c, ca, v)
         /\ \A d, v : VerifiedOK(d, v)' <=> VerifiedOK(d, v)
<1>1. Used' = Used
  BY SameArea
<1>2. \A l, r : Valid(l, r)' <=> Valid(l, r)
  BY SameArea DEF Valid
<1>3. \A l, r, p : Before(l, r, p)' <=> Before(l, r, p)
  BY SameArea DEF Before
<1>4. \A l, r, p : After(l, r, p)' <=> After(l, r, p)
  BY SameArea DEF After
<1>5. \A p, page, l : Done(p, page, l)' <=> Done(p, page, l)
  BY DEF Done
<1>6. \A l, p : Skipped(l, p)' <=> Skipped(l, p)
  BY DEF Skipped
<1>7. \A d, l, r : CoveredUpTo(d, l, r)' <=> CoveredUpTo(d, l, r)
  BY <1>1, <1>3, <1>5 DEF CoveredUpTo
<1>8. \A d, l, r : UntouchedFrom(d, l, r)' <=> UntouchedFrom(d, l, r)
  BY <1>1, <1>4, <1>5 DEF UntouchedFrom
<1>9. \A d, l : SkippedKept(d, l)' <=> SkippedKept(d, l)
  BY <1>1, <1>5, <1>6 DEF SkippedKept
<1>10. \A d, l, h : UntouchedBeyond(d, l, h)' <=> UntouchedBeyond(d, l, h)
  BY <1>8 DEF UntouchedBeyond
<1>11. \A w, d, l, r, c, ca, v : OnWalk(w, d, l, r, c, ca, v)' <=> OnWalk(w, d, l, r, c, ca, v)
  BY <1>10, SamePattern DEF OnWalk
<1>12. \A d, l, ca : CacheCovers(d, l, ca)' <=> CacheCovers(d, l, ca)
  BY <1>1, <1>3, <1>5 DEF CacheCovers
<1>13. \A d, l, r, ca : FrontCovered(d, l, r, ca)' <=> FrontCovered(d, l, r, ca)
  BY <1>1, <1>3, <1>5 DEF FrontCovered
<1>14. \A d, l, r, c, ca, v : WritingOK(d, l, r, c, ca, v)' <=> WritingOK(d, l, r, c, ca, v)
  BY <1>2, <1>8, <1>9, <1>11, <1>12, <1>13 DEF WritingOK
<1>15. \A d, v : PredictionRight(d, v)' <=> PredictionRight(d, v)
  BY <1>2, <1>8 DEF PredictionRight
<1>16. \A w, d, v : NextPhase(w, d, v)' <=> NextPhase(w, d, v)
  BY <1>10, SamePattern DEF NextPhase
<1>17. \A d, v : VerifiedOK(d, v)' <=> VerifiedOK(d, v)
  BY <1>7, <1>8, <1>9, <1>15, <1>16 DEF VerifiedOK
<1> QED BY <1>2, <1>14, <1>17

-------------------------------------------------------------------------------
\* What a step has to establish.
LEMMA Carried ==
  ASSUME ZInv, UNCHANGED <<TestCase, CacheOn>>,
         loop' \in Nat \ {0}, cached' \in Seq(Requests),
         \A i \in 1 .. Len(cached') : Valid(loop', cached'[i]),
         disk' \in [Pages -> Int], VerifiedType(verified'),
         pc' \in {"write", "verified", "crash", "finished"}, pc' # "write" => cached' = <<>>,
         MagicIn(disk'),
         pc' = "write" => WritingOK(disk', loop', req', count', cached', verified'),
         pc' = "verified" => VerifiedOK(disk', verified'),
         pc' = "crash" => Excused(verified')
  PROVE  ZInv'
<1>1. TypeOK'
  <2>1. \A i \in 1 .. Len(cached') : Valid(loop, cached[i])'
    BY SameMeaning
  <2>2. Valid(verified.loop, Resume(verified))'
    BY SameMeaning DEF VerifiedType, Resume
  <2> QED BY <2>1, <2>2 DEF ZInv, TypeOK, VerifiedType, Cases
<1>2. MagicKept'
  BY DEF MagicIn, MagicKept
<1>3. (pc = "write" => WritingOK(disk, loop, req, count, cached, verified))'
  BY SameMeaning
<1>4. (pc = "verified" => VerifiedOK(disk, verified))'
  BY SameMeaning
<1>5. NoOtherFalseAlarm'
  BY SameArea DEF Excused, NoOtherFalseAlarm, NextLoopPredicted, OtherZonePredicted, ZoneBetween,
     current_zone_num
<1> QED BY <1>1, <1>2, <1>3, <1>4, <1>5 DEF ZInv

\* What a step leaves alone while the loop is written.
LEMMA WritingFacts ==
  ASSUME ZInv, pc = "write"
  PROVE  /\ Phase /\ TestCase \in Cases /\ CacheOn \in BOOLEAN
         /\ loop \in Nat \ {0} /\ count \in Nat \ {0} /\ cached \in Seq(Requests)
         /\ disk \in [Pages -> Int] /\ VerifiedType(verified)
         /\ \A i \in 1 .. Len(cached) : Valid(loop, cached[i])
         /\ req = NoRequest \/ Valid(loop, req)
         /\ ~CacheOn => cached = <<>>
         /\ WritingOK(disk, loop, req, count, cached, verified) /\ MagicIn(disk)
BY DEF ZInv, Phase, TypeOK, MagicKept, MagicIn, VerifiedType, WritingOK, Counted

(* Only pages of the test area are written, never those the read            *)
(* disturbance test filled.                                                 *)
LEMMA MagicStays ==
  ASSUME TestCase \in Cases, NEW d \in [Pages -> Int], MagicIn(d), NEW l \in Nat \ {0}, NEW R,
         \A q \in R : \E r : Valid(l, r) /\ PagesOf(q) \subseteq PagesOf(r)
  PROVE  MagicIn(Store(d, R, l))
<1> SUFFICES ASSUME TestCase = "dpin_0008", NEW p \in 0 .. RD_PAGES - 1
             PROVE  Store(d, R, l)[p] = Magic
  BY DEF MagicIn
<1>1. RD_PAGES <= first_sector /\ RD_PAGES \in Nat /\ first_sector \in Nat
  BY Area, AreaAssumption
<1>2. first_sector < AreaStart + AreaLength /\ AreaStart + AreaLength \in Nat
  <2>1. 0 \in Zones
    BY Area DEF Zones
  <2>2. /\ get_first_sector_in_zone(0) = first_sector /\ first_sector \in Int
        /\ first_sector < LastTested(0)
    <3>1. PICK t \in Nat : t = Tested /\ t >= 1
      <4>1. Tested \in 1 .. ZoneSize /\ ZoneSize \in Nat
        BY Area
      <4> QED BY <4>1
    <3>2. PICK f \in Nat : f = first_sector
      BY <1>1
    <3>3. 0 \in Nat
      OBVIOUS
    <3>4. get_first_sector_in_zone(0) = f /\ LastTested(0) = f + t
      BY <3>1, <3>2, <3>3, ZonesInOrder
    <3> QED BY <3>1, <3>2, <3>4
  <2>3. first_sector \in Used
    BY <1>1, <2>1, <2>2, ZonePage
  <2>4. first_sector \in Pages
    BY <2>3, UsedPage
  <2> QED BY <1>1, <2>4, AreaAssumption DEF Pages
<1>3. p \in Pages /\ p < first_sector
  <2>1. PICK n, f, e \in Nat : n = RD_PAGES /\ f = first_sector /\ e = AreaStart + AreaLength
    BY <1>1, <1>2
  <2>2. n <= f /\ f < e /\ p \in 0 .. n - 1
    BY <1>1, <1>2, <2>1
  <2>3. p \in 0 .. e - 1 /\ p < f
    BY <2>1, <2>2
  <2>4. Pages = 0 .. e - 1
    <3>1. PICK a, b \in Nat : a = AreaStart /\ b = AreaLength
      BY AreaAssumption
    <3>2. e = a + b
      BY <2>1, <3>1
    <3> QED BY <3>1, <3>2 DEF Pages
  <2> QED BY <2>1, <2>3, <2>4
<1>4. Store(d, R, l)[p] = d[p]
  BY <1>3, StoreKeeps
<1> QED BY <1>4 DEF MagicIn

\* One lemma per action.
LEMMA WriteKeeps ==
  ASSUME ZInv, Write, UNCHANGED <<TestCase, CacheOn>>
  PROVE  ZInv'
<1>1. pc = "write" /\ pc' = "write" /\ req # NoRequest /\ ~FlushDue /\ req' = Following(loop, req)
      /\ count' = count + 1 /\ loop' = loop /\ verified' = verified
  BY DEF Write
<1>2. /\ TestCase \in Cases /\ CacheOn \in BOOLEAN
      /\ loop \in Nat \ {0} /\ count \in Nat \ {0} /\ cached \in Seq(Requests)
      /\ disk \in [Pages -> Int] /\ VerifiedType(verified)
      /\ \A i \in 1 .. Len(cached) : Valid(loop, cached[i])
      /\ Valid(loop, req) /\ (~CacheOn => cached = <<>>)
      /\ WritingOK(disk, loop, req, count, cached, verified) /\ MagicIn(disk)
  BY <1>1, WritingFacts
<1>3. CASE CacheOn
  <2>1. cached' = Append(cached, req) /\ disk' = disk
    BY <1>3 DEF Write
  <2>2. req \in Requests
    BY <1>2 DEF Valid
  <2>3. cached' \in Seq(Requests) /\ \A i \in 1 .. Len(cached') : Valid(loop, cached'[i])
    BY <1>2, <2>1, <2>2
  <2>4. cached = <<>> \/ (~IsCommit(count) /\ ~(count > 1 /\ IsCommit(count - 1)))
    BY <1>1, <1>3 DEF FlushDue
  <2>5. WritingOK(disk', loop', req', count', cached', verified')
    BY <1>1, <1>2, <1>3, <2>1, <2>4, WrittenCached DEF VerifiedType
  <2> QED BY <1>1, <1>2, <2>1, <2>3, <2>5, Carried
<1>4. CASE ~CacheOn
  <2>1. disk' = Store(disk, {req}, loop) /\ cached' = cached
    BY <1>4 DEF Write
  <2>2. disk' \in [Pages -> Int]
    BY <1>2, <2>1, StoredPage
  <2>3. MagicIn(disk')
    BY <1>2, <2>1, MagicStays
  <2>4. WritingOK(disk', loop', req', count', cached', verified')
    BY <1>1, <1>2, <1>4, <2>1, WrittenUncached
  <2> QED BY <1>1, <1>2, <2>1, <2>2, <2>3, <2>4, Carried
<1> QED BY <1>3, <1>4

\* The flush.
LEMMA FlushKeeps ==
  ASSUME ZInv, Flush, UNCHANGED <<TestCase, CacheOn>>
  PROVE  ZInv'
<1>1. pc = "write" /\ pc' = "write" /\ CacheOn /\ req' = req /\ count' = count /\ loop' = loop
      /\ verified' = verified /\ disk' = Store(disk, Elements(cached), loop) /\ cached' = <<>>
  BY DEF Flush, FlushDue
<1>2. /\ TestCase \in Cases /\ CacheOn \in BOOLEAN
      /\ loop \in Nat \ {0} /\ count \in Nat \ {0} /\ cached \in Seq(Requests)
      /\ disk \in [Pages -> Int] /\ VerifiedType(verified)
      /\ \A i \in 1 .. Len(cached) : Valid(loop, cached[i])
      /\ WritingOK(disk, loop, req, count, cached, verified) /\ MagicIn(disk)
  BY <1>1, WritingFacts
<1>3. disk' \in [Pages -> Int]
  BY <1>1, <1>2, StoredPage
<1>4. MagicIn(disk')
  <2>1. \A q \in Elements(cached) : Valid(loop, q)
    BY <1>2 DEF Elements
  <2> QED BY <1>1, <1>2, <2>1, MagicStays
<1>5. WritingOK(disk', loop', req', count', cached', verified')
  BY <1>1, <1>2, Flushed DEF VerifiedType
<1>6. cached' \in Seq(Requests) /\ \A i \in 1 .. Len(cached') : Valid(loop', cached'[i])
  BY <1>1
<1> QED BY <1>1, <1>2, <1>3, <1>4, <1>5, <1>6, Carried

\* The cut without a cache.
LEMMA CutUncachedKeeps ==
  ASSUME ZInv, CutUncached, UNCHANGED <<TestCase, CacheOn>>
  PROVE  ZInv'
<1>1. pc = "write" /\ pc' = "verified" /\ ~CacheOn /\ req # NoRequest /\ loop' = loop
      /\ cached' = cached
  BY DEF CutUncached, Verified
<1>2. /\ Phase /\ TestCase \in Cases /\ CacheOn \in BOOLEAN /\ loop \in Nat \ {0}
      /\ disk \in [Pages -> Int] /\ Valid(loop, req) /\ cached = <<>> /\ MagicIn(disk)
  BY <1>1, WritingFacts
<1>3. disk' \in [Pages -> Int] /\ VerifiedType(verified') /\ VerifiedOK(disk', verified')
  BY <1>2, CutUncachedVerified
<1>4. MagicIn(disk')
  <2>1. req.len \in Nat \ {0} /\ req.lsn \in Nat
    BY <1>2 DEF Valid, Requests
  <2>2. PICK n \in 0 .. req.len - 1 : disk' = Store(disk, {[lsn |-> req.lsn, len |-> n]}, loop)
    BY DEF CutUncached
  <2>3. PagesOf([lsn |-> req.lsn, len |-> n]) \subseteq PagesOf(req)
    BY <2>1, <2>2 DEF PagesOf
  <2> QED BY <1>2, <2>2, <2>3, MagicStays
<1>5. cached' \in Seq(Requests) /\ cached' = <<>>
      /\ \A i \in 1 .. Len(cached') : Valid(loop', cached'[i])
  BY <1>1, <1>2
<1> QED BY <1>1, <1>2, <1>3, <1>4, <1>5, Carried

\* The cut with a cache.
LEMMA CutCachedKeeps ==
  ASSUME ZInv, CutCached, UNCHANGED <<TestCase, CacheOn>>
  PROVE  ZInv'
<1>1. pc = "write" /\ pc' = "verified" /\ loop' = loop /\ cached' = <<>>
  BY DEF CutCached, Verified
<1>2. /\ Phase /\ TestCase \in Cases /\ CacheOn \in BOOLEAN /\ loop \in Nat \ {0}
      /\ disk \in [Pages -> Int] /\ cached \in Seq(Requests) /\ MagicIn(disk)
      /\ \A i \in 1 .. Len(cached) : Valid(loop, cached[i])
  BY <1>1, WritingFacts
<1>3. disk' \in [Pages -> Int] /\ VerifiedType(verified') /\ VerifiedOK(disk', verified')
  BY <1>2, CutCachedVerified
<1>4. MagicIn(disk')
  <2>1. PICK kept \in SUBSET DOMAIN cached :
          disk' = Store(disk, {cached[i] : i \in kept}, loop)
    BY DEF CutCached
  <2>2. \A q \in {cached[i] : i \in kept} : Valid(loop, q)
    BY <1>2, <2>1
  <2> QED BY <1>2, <2>1, <2>2, MagicStays
<1>5. cached' \in Seq(Requests) /\ \A i \in 1 .. Len(cached') : Valid(loop', cached'[i])
  BY <1>1
<1> QED BY <1>1, <1>2, <1>3, <1>4, <1>5, Carried

\* The end of a loop.
LEMMA LoopWrittenKeeps ==
  ASSUME ZInv, LoopWritten, UNCHANGED <<TestCase, CacheOn>>
  PROVE  ZInv'
<1>1. pc = "write" /\ pc' = "verified" /\ loop' = loop /\ cached = <<>> /\ cached' = <<>>
      /\ disk' = disk
  BY DEF LoopWritten, Verified
<1>2. Phase /\ loop \in Nat \ {0} /\ disk \in [Pages -> Int] /\ MagicIn(disk)
  BY <1>1, WritingFacts
<1>3. VerifiedType(verified') /\ VerifiedOK(disk', verified')
  BY <1>1, <1>2, LoopWrittenVerified
<1>4. cached' \in Seq(Requests) /\ \A i \in 1 .. Len(cached') : Valid(loop', cached'[i])
  BY <1>1
<1> QED BY <1>1, <1>2, <1>3, <1>4, Carried

\* The check of a zone, and the next phase.
LEMMA ExtraVerificationKeeps ==
  ASSUME ZInv, ExtraVerification, UNCHANGED <<TestCase, CacheOn>>
  PROVE  ZInv'
<1>1. pc = "verified" /\ loop' = verified.loop /\ count' = 1 /\ cached' = cached
      /\ disk' = disk /\ verified' = verified
      /\ req' = Entry(verified.loop, [lsn |-> verified.lsn, len |-> verified.len])
  BY DEF ExtraVerification
<1>2. /\ TestCase \in Cases /\ disk \in [Pages -> Int] /\ VerifiedType(verified)
      /\ verified.loop \in Nat \ {0} /\ VerifiedOK(disk, verified) /\ cached = <<>> /\ MagicIn(disk)
  BY <1>1 DEF ZInv, TypeOK, VerifiedType, MagicKept, MagicIn
<1>3. PICK z \in Zones : pc' = IF ExtraFails(z, verified, disk) THEN "crash"
                               ELSE IF verified.loop > MaxLoop THEN "finished" ELSE "write"
  BY DEF ExtraVerification
<1>4. pc' = "crash" => Excused(verified')
  <2>1. pc' = "crash" => ExtraFails(z, verified, disk)
    BY <1>3
  <2> QED BY <1>1, <1>2, <2>1, NoFalseAlarm
<1>5. req' = Resume(verified) /\ WritingOK(disk, verified.loop, Resume(verified), 1, <<>>, verified)
  BY <1>1, <1>2, Resumed DEF Resume
<1>6. pc' \in {"crash", "finished", "write"}
  BY <1>3
<1>7. cached' \in Seq(Requests) /\ \A i \in 1 .. Len(cached') : Valid(loop', cached'[i])
  BY <1>1, <1>2
<1>8. WritingOK(disk', loop', req', count', cached', verified')
  BY <1>1, <1>2, <1>5
<1> QED BY <1>1, <1>2, <1>4, <1>6, <1>7, <1>8, Carried

\* A test that has stopped.
LEMMA StutterKeeps ==
  ASSUME ZInv, UNCHANGED vars
  PROVE  ZInv'
<1>1. UNCHANGED <<TestCase, CacheOn>> /\ loop' = loop /\ req' = req /\ count' = count
      /\ cached' = cached /\ disk' = disk /\ verified' = verified /\ pc' = pc
  BY DEF vars
<1>2. /\ loop \in Nat \ {0} /\ cached \in Seq(Requests) /\ disk \in [Pages -> Int]
      /\ \A i \in 1 .. Len(cached) : Valid(loop, cached[i])
      /\ VerifiedType(verified) /\ pc \in {"write", "verified", "crash", "finished"}
      /\ (pc # "write" => cached = <<>>) /\ MagicIn(disk)
      /\ (pc = "write" => WritingOK(disk, loop, req, count, cached, verified))
      /\ (pc = "verified" => VerifiedOK(disk, verified))
  BY DEF ZInv, TypeOK, VerifiedType, MagicKept, MagicIn
<1>3. pc = "crash" => Excused(verified)
  BY DEF ZInv, NoOtherFalseAlarm, Excused, NextLoopPredicted, OtherZonePredicted, ZoneBetween
<1> QED BY <1>1, <1>2, <1>3, Carried

-------------------------------------------------------------------------------
(* An erased area is as a loop 0 would have left it.                        *)
LEMMA FilledIsOld ==
  ASSUME TestCase \in Cases
  PROVE  /\ Filled \in [Pages -> Int] /\ MagicIn(Filled)
         /\ \A p \in Used : Done(p, Filled[p], 0)
<1>1. Filled \in [Pages -> Int]
  BY DEF Filled, Magic
<1>2. \A p \in Used : Filled[p] = 0
  <2> SUFFICES ASSUME NEW p \in Used PROVE Filled[p] = 0
    OBVIOUS
  <2>1. p \in Pages /\ p \in Nat /\ p >= first_sector
    BY UsedPage
  <2>2. TestCase = "dpin_0008" => ~(p < RD_PAGES)
    <3>1. PICK n, f \in Nat : n = RD_PAGES /\ f = first_sector
      <4>1. RD_PAGES \in Nat
        BY AreaAssumption
      <4>2. first_sector \in Nat
        BY Area
      <4> QED BY <4>1, <4>2
    <3>2. TestCase = "dpin_0008" => n <= f
      BY <3>1, Area
    <3> QED BY <2>1, <3>1, <3>2
  <2> QED BY <2>1, <2>2 DEF Filled
<1>3. \A p \in Used : Done(p, 0, 0)
  BY UsedPage DEF Done, PageIsOf_05, Broken
<1>4. MagicIn(Filled)
  <2> SUFFICES ASSUME TestCase = "dpin_0008", NEW p \in 0 .. RD_PAGES - 1 PROVE Filled[p] = Magic
    BY DEF MagicIn
  <2>1. RD_PAGES \in Nat /\ p < RD_PAGES
    BY AreaAssumption
  <2>2. p \in Pages
    BY AreaAssumption DEF Pages
  <2> QED BY <2>1, <2>2 DEF Filled
<1> QED BY <1>1, <1>2, <1>3, <1>4

\* The first phase begins on an erased area.
LEMMA InitHolds ==
  ASSUME Init
  PROVE  ZInv
<1>1. /\ TestCase \in Cases /\ CacheOn \in BOOLEAN /\ loop = 1 /\ req = FirstRequest /\ count = 1
      /\ cached = <<>> /\ disk = Filled /\ pc = "write"
      /\ verified = [lsn |-> first_sector, len |-> 1, loop |-> 1,
                     last |-> first_sector, lastLoop |-> 1]
  BY TestsAssumption DEF Init
<1>2. /\ Filled \in [Pages -> Int] /\ MagicIn(Filled)
      /\ \A p \in Used : Done(p, Filled[p], 0)
  BY <1>1, FilledIsOld
<1>3. Valid(1, FirstRequest) /\ Resume(verified) = FirstRequest
      /\ \A p \in Used : ~Before(1, FirstRequest, p)
  <2>1. Resume(verified) = FirstRequest
    BY <1>1 DEF Resume, FirstRequest
  <2> QED BY <1>1, <2>1, FirstPlace
<1>4. first_sector \in Nat
  BY <1>1, Area
<1>5. VerifiedType(verified)
  BY <1>1, <1>3, <1>4 DEF VerifiedType
<1>6. \A r : UntouchedFrom(disk, 1, r)
  BY <1>1, <1>2 DEF UntouchedFrom
<1>7. VerifiedOK(disk, verified)
  <2>1. CoveredUpTo(disk, 1, FirstRequest)
    BY <1>3 DEF CoveredUpTo
  <2>2. SkippedKept(disk, 1)
    BY <1>1, <1>2 DEF SkippedKept
  <2>3. PredictionRight(disk, verified)
    <3>1. FirstRequest.lsn = first_sector /\ FirstRequest.len = 1 /\ FirstRequest \in Requests
      BY <1>4 DEF FirstRequest, Requests
    <3>2. verified.last = FirstRequest.lsn + FirstRequest.len - 1
      BY <1>1, <1>4, <3>1
    <3> QED BY <1>1, <1>3, <1>6, <3>1, <3>2 DEF PredictionRight
  <2>4. \E w : NextPhase(w, disk, verified)
    <3>1. PICK w : Walks(w) /\ w[0] = Start(verified)
      BY SomeWalk
    <3>2. UntouchedBeyond(disk, 1, w[FlushCycle - 1])
      BY <1>6 DEF UntouchedBeyond
    <3>3. NextPhase(w, disk, verified)
      BY <1>1, <3>1, <3>2 DEF NextPhase
    <3> QED BY <3>3
  <2> QED BY <1>1, <1>3, <1>6, <2>1, <2>2, <2>3, <2>4 DEF VerifiedOK
<1>8. WritingOK(disk, 1, FirstRequest, 1, <<>>, verified)
  <2>1. WritingOK(disk, verified.loop, Resume(verified), 1, <<>>, verified)
    BY <1>1, <1>5, <1>7, Resumed
  <2> QED BY <1>1, <1>3, <2>1
<1>9. TypeOK
  BY <1>1, <1>2, <1>5 DEF TypeOK, VerifiedType
<1> QED BY <1>1, <1>2, <1>8, <1>9 DEF ZInv, MagicKept, MagicIn, NoOtherFalseAlarm

\* All the actions together.
LEMMA StepKeeps ==
  ASSUME ZInv, [Next]_vars
  PROVE  ZInv'
<1>1. CASE Next
  <2>1. UNCHANGED <<TestCase, CacheOn>>
    BY <1>1 DEF Next
  <2>2. CASE Write
    BY <2>1, <2>2, WriteKeeps
  <2>3. CASE Flush
    BY <2>1, <2>3, FlushKeeps
  <2>4. CASE CutUncached
    BY <2>1, <2>4, CutUncachedKeeps
  <2>5. CASE CutCached
    BY <2>1, <2>5, CutCachedKeeps
  <2>6. CASE LoopWritten
    BY <2>1, <2>6, LoopWrittenKeeps
  <2>7. CASE ExtraVerification
    BY <2>1, <2>7, ExtraVerificationKeeps
  <2>8. CASE Stopped
    BY <2>8, StutterKeeps DEF Stopped
  <2> QED BY <1>1, <2>2, <2>3, <2>4, <2>5, <2>6, <2>7, <2>8 DEF Next
<1>2. CASE UNCHANGED vars
  BY <1>2, StutterKeeps
<1> QED BY <1>1, <1>2

(* The invariant of the tests of a zone: what each phase has written, what  *)
(* it may have cached and what a verification has found.                    *)
THEOREM ZonesKept == Spec => []ZInv
<1>1. Init => ZInv
  BY InitHolds
<1>2. ZInv /\ [Next]_vars => ZInv'
  BY StepKeeps
<1> QED BY <1>1, <1>2, PTL DEF Spec

(* The check of a random zone reports a device that only lost what it had   *)
(* not flushed in just the cases NoOtherFalseAlarm names, whatever the      *)
(* area, the chunks and the flush cycle.                                    *)
THEOREM FalseAlarmsKnown == Spec => []NoOtherFalseAlarm
<1>1. ZInv => NoOtherFalseAlarm
  BY DEF ZInv
<1> QED BY <1>1, ZonesKept, PTL

(* Without a cache no page of a zone can go bad unnoticed but those of the  *)
(* request to resume at.                                                    *)
THEOREM ZonesCovered == Spec => []ZoneIsCovered
<1>1. ZInv => ZoneIsCovered
  <2> SUFFICES ASSUME ZInv, pc = "verified", ~CacheOn, TestCase # "dpin_0008", NEW z \in Zones,
                      NEW lsn \in get_first_sector_in_zone(z) .. LastTested(z) - 1, ~InFlight(lsn)
               PROVE  ExtraFails(z, verified, [disk EXCEPT ![lsn] = Broken])
    BY DEF ZoneIsCovered
  <2>1. TestCase \in Cases /\ VerifiedType(verified) /\ disk \in [Pages -> Int]
    BY DEF ZInv, TypeOK, VerifiedType
  <2>2. lsn \notin PagesOf(verified)
    BY DEF InFlight
  <2> QED BY <2>1, <2>2, CoveredZone
<1> QED BY <1>1, ZonesKept, PTL
===============================================================================
