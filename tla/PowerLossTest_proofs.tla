------------------------- MODULE PowerLossTest_proofs -------------------------
(***************************************************************************)
(* Theorems about PowerLossTest, for every pair of patterns, with and      *)
(* without a cache, for every window, flush cycle and kind of storage.     *)
(***************************************************************************)
EXTENDS PowerLossTest, VerifyCore_proofs

Size == Len(Pattern1)

PageSeq == [1 .. NumPages -> PageType]

-------------------------------------------------------------------------------
(* Every loop starts every request of the test area, each once.             *)
LEMMA PatternFacts ==
  /\ Size \in Nat \ {0} /\ Sectors \subseteq Nat
  /\ \A loop \in Nat :
       /\ Pattern(loop) \in Seq(Nat) /\ Len(Pattern(loop)) = Size
       /\ DOMAIN Pattern(loop) = 1 .. Size
       /\ \A i \in 1 .. Size : Pattern(loop)[i] \in Sectors
       /\ \A i, j \in 1 .. Size : Pattern(loop)[i] = Pattern(loop)[j] => i = j
       /\ \A s \in Sectors : \E i \in 1 .. Size : Pattern(loop)[i] = s
<1>1. /\ Pattern1 \in Seq(Nat) /\ Pattern2 \in Seq(Nat)
      /\ Len(Pattern1) > 0 /\ Len(Pattern2) = Len(Pattern1)
      /\ DOMAIN Pattern1 = 1 .. Size /\ DOMAIN Pattern2 = 1 .. Size
      /\ Size \in Nat \ {0}
  BY PatternsAssumption DEF Size
<1>2. Sectors \subseteq Nat
  BY <1>1 DEF Sectors
<1>3. Sectors = {Pattern2[i] : i \in DOMAIN Pattern2}
  BY PatternsAssumption DEF Sectors
<1>4. ASSUME NEW pattern \in {Pattern1, Pattern2}
      PROVE  /\ pattern \in Seq(Nat) /\ Len(pattern) = Size /\ DOMAIN pattern = 1 .. Size
             /\ \A i \in 1 .. Size : pattern[i] \in Sectors
             /\ \A i, j \in 1 .. Size : pattern[i] = pattern[j] => i = j
             /\ \A s \in Sectors : \E i \in 1 .. Size : pattern[i] = s
  <2>1. CASE pattern = Pattern1
    BY <1>1, <2>1, PatternsAssumption DEF Sectors, Size
  <2>2. CASE pattern = Pattern2
    BY <1>1, <1>3, <2>2, PatternsAssumption DEF Size
  <2> QED BY <2>1, <2>2
<1>5. \A loop \in Nat : Pattern(loop) \in {Pattern1, Pattern2}
  BY DEF Pattern
<1> QED BY <1>1, <1>2, <1>4, <1>5

LEMMA IndexFacts ==
  /\ 1 \in 1 .. Size /\ 1 \in 1 .. Size + 1
  /\ 1 .. Size \subseteq 1 .. Size + 1 /\ 1 .. Size + 1 \subseteq Nat \ {0}
<1>1. PICK size \in Nat \ {0} : size = Size
  BY PatternFacts
<1>2. /\ 1 \in 1 .. size /\ 1 \in 1 .. size + 1
      /\ 1 .. size \subseteq 1 .. size + 1 /\ 1 .. size + 1 \subseteq Nat \ {0}
  OBVIOUS
<1> QED BY <1>1, <1>2

LEMMA PositionFacts ==
  ASSUME NEW loop \in Nat
  PROVE  /\ \A s \in Sectors : /\ Position(loop, s) \in 1 .. Size
                               /\ Pattern(loop)[Position(loop, s)] = s
         /\ \A i \in 1 .. Size : Position(loop, Pattern(loop)[i]) = i
         /\ FirstLsn(loop) \in Sectors /\ Position(loop, FirstLsn(loop)) = 1
<1>1. \A s \in Sectors : /\ Position(loop, s) \in 1 .. Size
                         /\ Pattern(loop)[Position(loop, s)] = s
  <2> SUFFICES ASSUME NEW s \in Sectors
               PROVE  Position(loop, s) \in 1 .. Size /\ Pattern(loop)[Position(loop, s)] = s
    OBVIOUS
  <2>1. \E i \in DOMAIN Pattern(loop) : Pattern(loop)[i] = s
    BY PatternFacts
  <2> QED BY <2>1, PatternFacts DEF Position
<1>2. \A i \in 1 .. Size : Position(loop, Pattern(loop)[i]) = i
  <2> TAKE i \in 1 .. Size
  <2>1. Pattern(loop)[i] \in Sectors
    BY PatternFacts
  <2>2. /\ Position(loop, Pattern(loop)[i]) \in 1 .. Size
        /\ Pattern(loop)[Position(loop, Pattern(loop)[i])] = Pattern(loop)[i]
    BY <1>1, <2>1
  <2> QED BY <2>2, PatternFacts
<1>3. 1 \in 1 .. Size
  BY PatternFacts
<1> QED BY <1>1, <1>2, <1>3, PatternFacts DEF FirstLsn

-------------------------------------------------------------------------------
\* Where the program writes: the host was sent the phase's start.
Writing == {"write", "flush1", "writing", "flush2"}

PhasePlaces == Writing \cup {"loop_flush"}

\* Where the current phase, or the last one, began in its loop.
First == Position(host.loop, host.lsn)

OnDisk(s, loop) == \A p \in 1 .. NumPages : disk[s][p].loop = loop

(***************************************************************************)
(* The host and the program.  A phase has its boot and loop; after it, and *)
(* until the next one, the program's boot count is ahead of the host's.    *)
(***************************************************************************)
HostAndPhase ==
  /\ pc \in PhasePlaces => host.boot = g.boot /\ g.boot > 0
  /\ pc \in Writing => host.loop = g.loop
  /\ pc = "loop_flush" => g.loop = host.loop + 1 /\ idx = Size + 1
  /\ pc = "repeat" => host.boot = g.boot
  /\ pc \notin PhasePlaces \cup {"repeat"} => host.boot < g.boot

\* Before the first phase there is nothing to verify.
FirstBoot ==
  /\ host.boot = 0 => /\ pc \in {"repeat", "begin_write", "finished"} /\ g.loop = 1
                      /\ pc = "begin_write" => g.boot = 1
  /\ host.boot # 0 => host.lsn \in Sectors /\ (pc = "begin_write" => g.boot > 1)

\* The request at hand: of the phase, or of the verification.
RequestAtHand ==
  /\ pc \in PhasePlaces => First <= idx /\ count = idx - First + 1
  /\ pc \in {"flush1", "writing", "flush2"} => idx <= Size
  /\ pc \in {"verify", "ended"} => count <= idx

CrashEnds == sdcrash => pc = "out"

Shape == TypeOK /\ e \in Engine /\ HostAndPhase /\ FirstBoot /\ RequestAtHand /\ CrashEnds

(***************************************************************************)
(* The pages.  One of a boot before the host's may be of any loop; one of  *)
(* the host's is of its loop, and not before the phase's first request.    *)
(***************************************************************************)
PageKnown(s, page) ==
  /\ page.boot <= host.boot
  /\ page.boot # 0 /\ page.boot = host.boot =>
       page.loop = host.loop /\ Position(host.loop, s) >= First

PageOlder(page) == page.boot = 0 \/ page.boot < host.boot

DiskKnown == \A s \in Sectors, p \in 1 .. NumPages : PageKnown(s, disk[s][p])

CacheKnown ==
  /\ cache \in [Sectors -> {<<>>} \cup PageSeq]
  /\ ~CacheOn \/ pc \notin PhasePlaces => Cached = {}
  /\ \A s \in Cached, p \in 1 .. NumPages :
       cache[s][p].boot = host.boot /\ PageKnown(s, cache[s][p])

BeforeKnown ==
  /\ before \in [Sectors -> PageSeq]
  /\ \A s \in Sectors, p \in 1 .. NumPages : PageOlder(before[s][p])

DurableKnown == \A s \in durable : Position(host.loop, s) >= First

Pages == DiskKnown /\ CacheKnown /\ BeforeKnown /\ DurableKnown

(***************************************************************************)
(* The loop.  What is before the phase's first request is there, and as    *)
(* the phase goes on what is before its request is.  The verification      *)
(* walks over what is there, and hands the next phase the first request    *)
(* that is not.                                                            *)
(***************************************************************************)
LoopThere(loop, n) == \A i \in 1 .. n - 1 : OnDisk(Pattern(loop)[i], loop)

Walked ==
  /\ e.status = "NORMAL" => e.cnt = 0 /\ e.verify = "normal"
  /\ e.status = "NORMAL" => \/ e.loop = host.loop /\ LoopThere(host.loop, idx)
                            \/ e.loop = host.loop + 1 /\ idx = 1
  /\ e.status # "NORMAL" /\ e.verify = "normal" => e.result # VERI_NOERR
  /\ e.status # "NORMAL" => e.info.lsn \in Sectors
  /\ e.status # "NORMAL" /\ e.result = VERI_NOERR =>
       LoopThere(e.info.loop, Position(e.info.loop, e.info.lsn))

WrittenTo(n) == \A i \in 1 .. n : InLoop(Pattern(host.loop)[i], host.loop)

PhaseWritten ==
  /\ pc \in Writing => WrittenTo(idx - 1)
  /\ pc = "flush2" => InLoop(Pattern(host.loop)[idx], host.loop)

Resumes ==
  pc = "begin_write" /\ host.boot # 0 =>
    g.wLsn \in Sectors /\ LoopThere(g.loop, Position(g.loop, g.wLsn))

Verification ==
  /\ pc \in {"verify", "ended"} => Walked /\ e.boot = host.boot /\ e.loop = g.wLoop
  /\ pc = "ended" => e.status # "NORMAL"

PhaseBegan == host.boot # 0 => LoopThere(host.loop, First)

Loop == PhaseBegan /\ PhaseWritten /\ Verification /\ Resumes

Inv == Shape /\ Pages /\ Loop

-------------------------------------------------------------------------------
LEMMA InvInit == Init => Inv
<1> SUFFICES ASSUME Init PROVE Inv
  OBVIOUS
<1>1. /\ pc = "repeat" /\ sdcrash = FALSE /\ idx = 1 /\ count = 1 /\ armed = FALSE
      /\ host.boot = 0 /\ g.boot = 0 /\ g.loop = 1 /\ durable = {} /\ lost = {}
  BY DEF Init
<1>2. e \in Engine
  BY ResetType DEF Init
<1>3. Request(Erased) \in PageSeq /\ \A p \in 1 .. NumPages : Request(Erased)[p] = Erased
  BY DEF Request, Erased, PageSeq, PageType
<1>4. /\ disk \in [Sectors -> PageSeq] /\ before \in [Sectors -> PageSeq]
      /\ \A s \in Sectors, p \in 1 .. NumPages : disk[s][p] = Erased /\ before[s][p] = Erased
  BY <1>3 DEF Init
<1>5. cache \in [Sectors -> {<<>>}] /\ Cached = {}
  BY DEF Init, Cached
<1>6. TypeOK
  <2>1. g \in [ boot : Nat, loop : Nat, wLsn : Nat, wLoop : Nat, wBoot : Nat,
                poffPos : Nat, flushPos : Nat, firstCommit : BOOLEAN, require : BOOLEAN ]
    BY DEF Init
  <2>2. host \in [lsn : Nat, loop : Nat, boot : Nat] /\ storage \in DOMAIN FinishValue
    BY DEF Init
  <2>3. 1 \in 1 .. Len(Pattern1) + 1
    BY PatternFacts DEF Size
  <2> QED BY <1>1, <1>4, <1>5, <2>1, <2>2, <2>3 DEF TypeOK, Places, PageSeq
<1>7. Shape
  BY <1>1, <1>2, <1>6
  DEF Shape, HostAndPhase, FirstBoot, RequestAtHand, CrashEnds, Writing, PhasePlaces
<1>8. Pages
  <2>1. DiskKnown
    BY <1>1, <1>4 DEF DiskKnown, PageKnown, Erased
  <2>2. BeforeKnown
    BY <1>4 DEF BeforeKnown, PageOlder, Erased
  <2> QED BY <1>1, <1>5, <2>1, <2>2 DEF Pages, CacheKnown, DurableKnown
<1>9. Loop
  BY <1>1 DEF Loop, PhaseBegan, PhaseWritten, Verification, Resumes, Writing
<1> QED BY <1>7, <1>8, <1>9 DEF Inv

-------------------------------------------------------------------------------
State == [ boot : Nat, loop : Nat, wLsn : Nat, wLoop : Nat, wBoot : Nat,
           poffPos : Nat, flushPos : Nat, firstCommit : BOOLEAN, require : BOOLEAN ]

TypeProgram ==
  /\ storage \in DOMAIN FinishValue
  /\ g \in State
  /\ host \in [lsn : Nat, loop : Nat, boot : Nat]
  /\ sdcrash \in BOOLEAN
  /\ pc \in Places
  /\ idx \in 1 .. Size + 1
  /\ count \in 1 .. Size + 1

TypeDevice ==
  /\ armed \in BOOLEAN
  /\ disk \in [Sectors -> PageSeq]
  /\ \A s \in Sectors : cache[s] = <<>> \/ cache[s] \in PageSeq
  /\ durable \subseteq Sectors
  /\ lost \subseteq durable

LEMMA TypeParts == TypeOK <=> TypeProgram /\ TypeDevice
  BY DEF TypeOK, TypeProgram, TypeDevice, State, PageSeq, Size

LEMMA TypePartsNext == TypeOK' <=> TypeProgram' /\ TypeDevice'
  BY DEF TypeOK, TypeProgram, TypeDevice, State, PageSeq, Size

LEMMA TypeDeviceStays ==
  ASSUME TypeDevice, UNCHANGED <<disk, cache, durable, lost>>, armed' \in BOOLEAN
  PROVE  TypeDevice'
<1>1. disk' = disk /\ cache' = cache /\ durable' = durable /\ lost' = lost
  OBVIOUS
<1> QED BY <1>1 DEF TypeDevice

LEMMA PageTypes ==
  ASSUME TypeDevice, NEW s \in Sectors, NEW p \in 1 .. NumPages
  PROVE  /\ disk[s][p] \in PageType
         /\ cache[s] # <<>> => cache[s][p] \in PageType
<1>1. disk[s] \in PageSeq /\ (cache[s] = <<>> \/ cache[s] \in PageSeq)
  BY DEF TypeDevice
<1> QED BY <1>1 DEF PageSeq

LEMMA Typed ==
  ASSUME Inv
  PROVE  /\ TypeOK /\ TypeProgram /\ TypeDevice /\ e \in Engine /\ g \in State
         /\ host.lsn \in Nat /\ host.loop \in Nat /\ host.boot \in Nat
         /\ g.boot \in Nat /\ g.loop \in Nat /\ g.wLsn \in Nat /\ g.wLoop \in Nat
         /\ g.poffPos \in Nat /\ g.flushPos \in Nat
         /\ idx \in 1 .. Size + 1 /\ count \in 1 .. Size + 1
         /\ idx \in Nat \ {0} /\ count \in Nat \ {0}
<1>1. TypeProgram /\ TypeDevice /\ e \in Engine
  BY TypeParts DEF Inv, Shape
<1>2. idx \in Nat \ {0} /\ count \in Nat \ {0}
  BY <1>1, IndexFacts DEF TypeProgram
<1> QED BY <1>1, <1>2, TypeParts DEF TypeProgram, State

(* A step of the program that leaves the storage and the host alone.        *)
LEMMA PagesStay ==
  ASSUME Pages, UNCHANGED <<host, disk, cache, before, durable>>,
         pc' \in PhasePlaces \/ pc \notin PhasePlaces
  PROVE  Pages'
<1>1. /\ host' = host /\ disk' = disk /\ cache' = cache /\ before' = before
      /\ durable' = durable
  OBVIOUS
<1> QED
  BY <1>1 DEF Pages, DiskKnown, CacheKnown, BeforeKnown, DurableKnown, PageKnown, PageOlder,
              First, Cached

LEMMA InvRepeat == Inv /\ Repeat /\ UNCHANGED storage => Inv'
<1> SUFFICES ASSUME Inv, Repeat, UNCHANGED storage PROVE Inv'
  OBVIOUS
<1> USE DEF Writing, PhasePlaces
<1>1. TypeOK /\ g \in State /\ host.boot \in Nat
  BY DEF Inv, Shape, TypeOK, State
<1>2. /\ g' = [g EXCEPT !.boot = @ + 1, !.firstCommit = ~CacheOn, !.require = @ /\ ~CacheOn]
      /\ pc = "repeat" /\ host' = host /\ sdcrash' = sdcrash /\ armed' = FALSE
      /\ UNCHANGED <<e, idx, count, disk, cache, before, durable, lost>>
  BY DEF Repeat
<1>3. host.boot = g.boot /\ ~sdcrash
  BY <1>1, <1>2 DEF Inv, Shape, HostAndPhase, CrashEnds, TypeOK
<1>4. /\ pc' \in {"finished", "begin_write", "begin_verify"}
      /\ pc' = "begin_verify" => host.boot # 0
      /\ pc' = "begin_write" => host.boot = 0
  BY <1>1, <1>3, DeviceAssumption DEF Repeat, TypeOK, State
<1>5. g' \in State /\ g'.boot = g.boot + 1 /\ g'.loop = g.loop
  <2>1. PICK commit \in BOOLEAN, require \in BOOLEAN :
          g' = [g EXCEPT !.boot = g.boot + 1, !.firstCommit = commit, !.require = require]
    BY <1>2
  <2>2. PICK boot \in Nat : boot = g.boot + 1
    BY <1>1 DEF State
  <2> QED BY <1>1, <2>1, <2>2 DEF State
<1>6. TypeOK'
  <2>1. TypeProgram'
    BY <1>1, <1>2, <1>4, <1>5, TypeParts DEF TypeProgram, Places
  <2>2. TypeDevice'
    BY <1>1, <1>2, TypeParts, TypeDeviceStays
  <2> QED BY <2>1, <2>2, TypePartsNext
<1>7. Shape'
  BY <1>1, <1>2, <1>3, <1>4, <1>5, <1>6
  DEF Inv, Shape, HostAndPhase, FirstBoot, RequestAtHand, CrashEnds, State
<1>8. Pages'
  BY <1>2, <1>4, PagesStay DEF Inv
<1>9. Loop'
  BY <1>2, <1>4 DEF Inv, Loop, PhaseBegan, PhaseWritten, Verification, Resumes, LoopThere, First,
                    OnDisk
<1> QED BY <1>7, <1>8, <1>9 DEF Inv

LEMMA InvBeginVerification == Inv /\ BeginVerification /\ UNCHANGED storage => Inv'
<1> SUFFICES ASSUME Inv, BeginVerification, UNCHANGED storage PROVE Inv'
  OBVIOUS
<1> USE DEF Writing, PhasePlaces
<1>1. TypeOK /\ g \in State /\ host.lsn \in Nat /\ host.boot \in Nat /\ host.loop \in Nat
  BY DEF Inv, Shape, TypeOK, State
<1>2. /\ pc = "begin_verify" /\ pc' = "verify" /\ count' = 1
      /\ g' = [g EXCEPT !.wLsn = host.lsn, !.wLoop = host.loop, !.wBoot = host.boot]
      /\ e' = verify_reset(host.loop, host.boot)
      /\ idx' = First
      /\ UNCHANGED <<host, sdcrash, armed, disk, cache, before, durable, lost>>
  BY DEF BeginVerification, VerifyFrom, First, device
<1>3. host.boot # 0 /\ host.lsn \in Sectors /\ host.boot < g.boot
  BY <1>2 DEF Inv, Shape, FirstBoot, HostAndPhase
<1>4. First \in 1 .. Size /\ Size \in Nat \ {0}
  BY <1>1, <1>3, PositionFacts, PatternFacts DEF First
<1>5. g' \in State /\ g'.boot = g.boot /\ g'.wLoop = host.loop
  BY <1>1, <1>2 DEF State
<1>6. /\ e' \in Engine
      /\ e'.status = "NORMAL" /\ e'.verify = "normal" /\ e'.cnt = 0
      /\ e'.loop = host.loop /\ e'.boot = host.boot
  BY <1>1, <1>2, ResetType DEF verify_reset
<1>7. TypeOK'
  <2>1. TypeProgram'
    BY <1>1, <1>2, <1>4, <1>5, TypeParts DEF TypeProgram, Places
  <2>2. TypeDevice'
    BY <1>1, <1>2, TypeParts, TypeDeviceStays DEF TypeDevice
  <2> QED BY <2>1, <2>2, TypePartsNext
<1>8. Shape'
  BY <1>1, <1>2, <1>3, <1>4, <1>5, <1>6, <1>7
  DEF Inv, Shape, HostAndPhase, FirstBoot, RequestAtHand, CrashEnds
<1>9. Pages'
  BY <1>2, PagesStay DEF Inv
<1>10. Loop'
  <2>1. LoopThere(host.loop, First) /\ First' = First
    BY <1>2, <1>3 DEF Inv, Loop, PhaseBegan, First
  <2>2. LoopThere(host.loop, First)'
    BY <1>2, <2>1 DEF LoopThere, OnDisk
  <2> QED
    BY <1>2, <1>5, <1>6, <2>1, <2>2
    DEF Loop, PhaseBegan, PhaseWritten, Verification, Walked, Resumes
<1> QED BY <1>8, <1>9, <1>10 DEF Inv

LEMMA InvVerifyNextLoop == Inv /\ VerifyNextLoop /\ UNCHANGED storage => Inv'
<1> SUFFICES ASSUME Inv, VerifyNextLoop, UNCHANGED storage PROVE Inv'
  OBVIOUS
<1> USE DEF Writing, PhasePlaces
<1>1. TypeOK /\ g \in State /\ e \in Engine /\ host.boot \in Nat /\ host.loop \in Nat
      /\ idx \in Nat
  BY DEF Inv, Shape, TypeOK, State
<1>2. /\ pc = "verify" /\ pc' = pc /\ idx > Len(Pattern(g.wLoop)) /\ idx' = 1 /\ count' = 1
      /\ g' = [g EXCEPT !.wLoop = @ + 1, !.wLsn = FirstLsn(g.wLoop + 1)]
      /\ e' = verify_set_loop_count(e, g.wLoop + 1)
      /\ UNCHANGED <<host, sdcrash, armed, disk, cache, before, durable, lost>>
  BY DEF VerifyNextLoop, device
<1>3. g.wLoop \in Nat /\ g.wLoop + 1 \in Nat
  BY <1>1 DEF State
<1>4. FirstLsn(g.wLoop + 1) \in Nat
  BY <1>3, PositionFacts, PatternFacts
<1>5. g' \in State /\ g'.boot = g.boot /\ g'.wLoop = g.wLoop + 1
  BY <1>1, <1>2, <1>3, <1>4 DEF State
<1>6. /\ e' \in Engine
      /\ e'.status = e.status /\ e'.verify = e.verify /\ e'.cnt = e.cnt /\ e'.result = e.result
      /\ e'.info = e.info /\ e'.boot = e.boot /\ e'.loop = g.wLoop + 1
  <2>1. e'.loop = g.wLoop + 1
    BY <1>1, <1>2 DEF verify_set_loop_count, Engine
  <2> QED BY <1>1, <1>2, <1>3, <2>1, LoopCountChanges, LoopBlames DEF Quiet, Kept
<1>7. idx > Size /\ Size \in Nat \ {0}
  BY <1>2, <1>3, PatternFacts
<1>8. TypeOK'
  <2>1. TypeProgram'
    BY <1>1, <1>2, <1>5, <1>7, TypeParts DEF TypeProgram
  <2>2. TypeDevice'
    BY <1>1, <1>2, TypeParts, TypeDeviceStays DEF TypeDevice
  <2> QED BY <2>1, <2>2, TypePartsNext
<1>9. Shape'
  BY <1>1, <1>2, <1>5, <1>6, <1>8
  DEF Inv, Shape, HostAndPhase, FirstBoot, RequestAtHand, CrashEnds
<1>10. Pages'
  BY <1>2, PagesStay DEF Inv
<1>11. Loop'
  <2>1. Walked /\ e.boot = host.boot /\ e.loop = g.wLoop
    BY <1>2 DEF Inv, Loop, Verification
  <2>2. \A loop, n : LoopThere(loop, n)' <=> LoopThere(loop, n)
    BY <1>2 DEF LoopThere, OnDisk
  <2>3. e.status = "NORMAL" => e'.loop = host.loop + 1 /\ idx' = 1
    BY <1>1, <1>2, <1>6, <1>7, <2>1 DEF Walked
  <2>4. Walked'
    BY <1>2, <1>6, <2>1, <2>2, <2>3 DEF Walked
  <2>5. PhaseBegan'
    BY <1>2, <2>2 DEF Inv, Loop, PhaseBegan, First
  <2> QED
    BY <1>2, <1>5, <1>6, <2>1, <2>4, <2>5 DEF Loop, PhaseWritten, Verification, Resumes
<1> QED BY <1>9, <1>10, <1>11 DEF Inv

(* What a verification can read, and the configuration it reads it under.   *)
LEMMA ConfigIsValue ==
  ASSUME TypeOK PROVE Config \in Values
  BY CaseAssumption DEF TypeOK, Config, Values

LEMMA ObserveIsReading ==
  ASSUME NEW lsn PROVE Observe(lsn) \in Readings /\ Observe(lsn).io = FALSE
<1> DEFINE pages == [p \in 1 .. NumPages |-> disk[lsn][p] = Header(e.loop, e.boot, count)]
           hit   == \E p \in 1 .. NumPages : Evidence(lsn, disk[lsn][p])
<1>1. pages \in Seq(BOOLEAN)
  BY CaseAssumption
<1>2. hit \in BOOLEAN
  OBVIOUS
<1>3. Observe(lsn) = [io |-> FALSE, pages |-> pages, hit |-> hit]
  BY DEF Observe
<1> HIDE DEF pages, hit
<1> QED BY <1>1, <1>2, <1>3 DEF Readings

LEMMA ObserveExpected ==
  ASSUME NEW lsn, AllExpected(Observe(lsn).pages), NEW p \in 1 .. NumPages
  PROVE  disk[lsn][p] = Header(e.loop, e.boot, count)
  BY DEF Observe, AllExpected

(* One request of a verification.                                           *)
LEMMA VerifyStep ==
  ASSUME Inv, VerifyRequest
  PROVE  LET lsn == Pattern(e.loop)[idx]
             o   == Observe(lsn)
         IN  /\ pc = "verify" /\ idx \in 1 .. Size /\ lsn \in Sectors /\ lsn \in Nat
             /\ e.loop \in Nat /\ Position(e.loop, lsn) = idx
             /\ host.boot # 0 /\ Walked /\ e.boot = host.boot /\ e.loop = g.wLoop
             /\ UNCHANGED <<g, host, sdcrash, armed, disk, cache, before, durable, lost>>
             /\ o \in Readings /\ ~o.io
             /\ WindowFull(e) => e' = e /\ pc' = "ended" /\ UNCHANGED <<idx, count>>
             /\ ~WindowFull(e) => /\ e' = do_verify(e, Config, lsn, count, o).eng
                                  /\ pc' = pc /\ idx' = idx + 1 /\ count' = count + 1
<1>1. /\ TypeOK /\ e \in Engine /\ host.boot \in Nat /\ g.wLoop \in Nat /\ count \in Nat \ {0}
      /\ pc = "verify" /\ idx \in Nat \ {0}
  BY Typed DEF VerifyRequest
<1>2. host.boot # 0 /\ Walked /\ e.boot = host.boot /\ e.loop = g.wLoop
  BY <1>1 DEF Inv, Shape, FirstBoot, Loop, Verification
<1>3. idx \in 1 .. Size
  <2>1. idx <= Len(Pattern(g.wLoop)) /\ Len(Pattern(g.wLoop)) = Size
    BY <1>1, PatternFacts DEF VerifyRequest
  <2> QED BY <1>1, <2>1, PatternFacts
<1> DEFINE lsn == Pattern(e.loop)[idx]
           o   == Observe(lsn)
           r   == do_verify(e, Config, lsn, count, o)
<1>4. lsn \in Sectors /\ lsn \in Nat /\ Position(e.loop, lsn) = idx
  BY <1>1, <1>2, <1>3, PatternFacts, PositionFacts
<1>5. o \in Readings /\ ~o.io
  BY ObserveIsReading
<1>6. /\ e' = r.eng
      /\ IF r.ret = 0 THEN idx' = idx + 1 /\ count' = count + 1 /\ pc' = pc
                      ELSE UNCHANGED <<idx, count>> /\ pc' = "ended"
      /\ UNCHANGED <<g, host, sdcrash, armed, disk, cache, before, durable, lost>>
  BY <1>2 DEF VerifyRequest, device
<1>7. /\ WindowFull(e) => r.eng = e /\ r.ret = VERI_STATUS_FINISH
      /\ ~WindowFull(e) => r.ret = 0
  <2> HIDE DEF o, lsn, r
  <2>1. \A en \in Engine, cf \in Values, s \in Nat, n \in Nat \ {0}, q \in Readings :
          LET v == do_verify(en, cf, s, n, q)
          IN  /\ WindowFull(en) => v.eng = en /\ v.ret = VERI_STATUS_FINISH
              /\ ~WindowFull(en) /\ ~q.io => v.ret = 0
    BY DoVerify
  <2>2. Config \in Values
    BY <1>1, ConfigIsValue
  <2> QED BY <1>1, <1>4, <1>5, <2>1, <2>2 DEF r
<1>8. VERI_STATUS_FINISH # 0
  BY DEF VERI_STATUS_FINISH
<1> HIDE DEF r
<1>9. /\ WindowFull(e) => e' = e /\ pc' = "ended" /\ UNCHANGED <<idx, count>>
      /\ ~WindowFull(e) => pc' = pc /\ idx' = idx + 1 /\ count' = count + 1
  BY <1>6, <1>7, <1>8
<1> QED BY <1>1, <1>2, <1>3, <1>4, <1>5, <1>6, <1>9 DEF r

(* A request that reads as expected is there, and is of the host's loop.    *)
LEMMA ExpectedIsThere ==
  ASSUME Inv, NEW lsn \in Sectors, host.boot # 0, e.boot = host.boot,
         AllExpected(Observe(lsn).pages)
  PROVE  e.loop = host.loop /\ OnDisk(lsn, host.loop)
<1>1. \A p \in 1 .. NumPages : disk[lsn][p].loop = e.loop /\ disk[lsn][p].boot = host.boot
  BY ObserveExpected DEF Header
<1>2. 1 \in 1 .. NumPages
  BY CaseAssumption
<1>3. e.loop = host.loop
  BY <1>1, <1>2 DEF Inv, Pages, DiskKnown, PageKnown
<1> QED BY <1>1, <1>3 DEF OnDisk

LEMMA InvVerifyRequest == Inv /\ VerifyRequest /\ UNCHANGED storage => Inv'
<1> SUFFICES ASSUME Inv, VerifyRequest, UNCHANGED storage PROVE Inv'
  OBVIOUS
<1> USE DEF Writing, PhasePlaces
<1> DEFINE lsn == Pattern(e.loop)[idx]
           o   == Observe(lsn)
<1>1. /\ TypeOK /\ e \in Engine /\ g \in State /\ count \in Nat \ {0} /\ count <= idx
      /\ host.loop \in Nat
  <2>1. pc = "verify"
    BY VerifyStep
  <2> QED BY <2>1, Typed DEF Inv, Shape, RequestAtHand
<1>2. /\ pc = "verify" /\ idx \in 1 .. Size /\ lsn \in Sectors /\ lsn \in Nat
      /\ e.loop \in Nat /\ Position(e.loop, lsn) = idx
      /\ host.boot # 0 /\ Walked /\ e.boot = host.boot /\ e.loop = g.wLoop
      /\ UNCHANGED <<g, host, sdcrash, armed, disk, cache, before, durable, lost>>
      /\ o \in Readings /\ ~o.io
      /\ WindowFull(e) => e' = e /\ pc' = "ended" /\ UNCHANGED <<idx, count>>
      /\ ~WindowFull(e) => /\ e' = do_verify(e, Config, lsn, count, o).eng
                           /\ pc' = pc /\ idx' = idx + 1 /\ count' = count + 1
  BY VerifyStep
<1>3. AllExpected(o.pages) => e.loop = host.loop /\ OnDisk(lsn, host.loop)
  BY <1>2, ExpectedIsThere
<1> HIDE DEF o
<1>4. \A loop, n : LoopThere(loop, n)' <=> LoopThere(loop, n)
  BY <1>2 DEF LoopThere, OnDisk
<1>5. /\ idx \in 1 .. Size + 1 /\ idx + 1 \in 1 .. Size + 1
      /\ count + 1 \in Nat \ {0} /\ count + 1 <= idx + 1
  <2>1. PICK n, k, size : n = idx /\ k = count /\ size = Size
    OBVIOUS
  <2>2. size \in Nat /\ n \in 1 .. size /\ k \in Nat \ {0} /\ k <= n
    BY <1>1, <1>2, <2>1, PatternFacts
  <2>3. /\ n \in 1 .. size + 1 /\ n + 1 \in 1 .. size + 1
        /\ k + 1 \in Nat \ {0} /\ k + 1 <= n + 1
    BY <2>2
  <2> QED BY <2>1, <2>3
<1>6. /\ e' \in Engine /\ e'.boot = e.boot /\ e'.loop = e.loop
      /\ idx' \in 1 .. Size + 1 /\ count' \in Nat \ {0} /\ count' <= idx'
      /\ pc' \in {"verify", "ended"}
      /\ pc' = "ended" => e'.status # "NORMAL"
  <2>1. CASE WindowFull(e)
    <3>1. e.status # "NORMAL"
      BY <1>2, <2>1, RequestWindowAssumption DEF Walked, WindowFull
    <3>2. e' = e /\ pc' = "ended" /\ idx' = idx /\ count' = count
      BY <1>2, <2>1
    <3> QED BY <1>1, <1>5, <3>1, <3>2
  <2>2. CASE ~WindowFull(e)
    <3>1. e' \in Engine /\ e'.loop = e.loop /\ e'.boot = e.boot
      <4> DEFINE r == do_verify(e, Config, lsn, count, o)
      <4>1. e' = r.eng
        BY <1>2, <2>2
      <4> HIDE DEF lsn
      <4>2. o \in Readings /\ lsn \in Nat /\ Config \in Values
        BY <1>1, <1>2, ConfigIsValue
      <4>3. r.eng \in Engine /\ r.eng.loop = e.loop
        <5> HIDE DEF r
        <5>1. \A en \in Engine, cf \in Values, s \in Nat, n \in Nat \ {0}, q \in Readings :
                /\ do_verify(en, cf, s, n, q).eng \in Engine
                /\ do_verify(en, cf, s, n, q).eng.loop = en.loop
          BY DoVerify
        <5> QED BY <1>1, <4>2, <5>1 DEF r
      <4>4. r.eng.boot = e.boot
        BY <1>1, <2>2, <4>2, DoVerifyBlames
      <4> QED BY <4>1, <4>3, <4>4
    <3>2. idx' = idx + 1 /\ count' = count + 1 /\ pc' = "verify"
      BY <1>2, <2>2
    <3> QED BY <1>1, <1>5, <3>1, <3>2
  <2> QED BY <2>1, <2>2
<1>7. Walked'
  <2>1. CASE WindowFull(e)
    <3>1. e.status # "NORMAL"
      BY <1>2, <2>1, RequestWindowAssumption DEF Walked, WindowFull
    <3> QED BY <1>2, <1>4, <2>1, <3>1 DEF Walked
  <2>2. CASE ~WindowFull(e)
    <3>1. /\ e.verify = "normal" /\ AllExpected(o.pages) =>
               e'.result = e.result /\ Untouched(e, e')
          /\ e.verify = "normal" /\ ~AllExpected(o.pages) =>
               /\ e'.status # "NORMAL"
               /\ e'.result \in {e.result, VERI_EREQUEST, VERI_EPARTIAL}
               /\ e'.verify = "normal" => e'.result # VERI_NOERR
               /\ e'.info.lsn = lsn /\ e'.info.loop = e.loop
          /\ e.verify # "normal" /\ ~o.hit => e'.result = e.result /\ Untouched(e, e')
          /\ e.verify # "normal" /\ o.hit =>
               /\ e'.status = "CRASH" /\ e'.result = VERI_EPARTIAL
               /\ e'.verify = e.verify /\ e'.info = e.info
      <4> DEFINE r == do_verify(e, Config, lsn, count, o)
      <4>1. e' = r.eng
        BY <1>2, <2>2
      <4> HIDE DEF lsn
      <4>2. /\ e.verify = "normal" /\ AllExpected(o.pages) =>
                 r.eng.result = e.result /\ Untouched(e, r.eng)
            /\ e.verify = "normal" /\ ~AllExpected(o.pages) =>
                 /\ r.eng.status # "NORMAL"
                 /\ r.eng.result \in {e.result, VERI_EREQUEST, VERI_EPARTIAL}
                 /\ r.eng.verify = "normal" => r.eng.result # VERI_NOERR
                 /\ r.eng.info.lsn = lsn /\ r.eng.info.loop = e.loop
            /\ e.verify # "normal" /\ ~o.hit =>
                 r.eng.result = e.result /\ Untouched(e, r.eng)
            /\ e.verify # "normal" /\ o.hit =>
                 /\ r.eng.status = "CRASH" /\ r.eng.result = VERI_EPARTIAL
                 /\ r.eng.verify = e.verify /\ r.eng.info = e.info
        <5>1. o \in Readings /\ lsn \in Nat /\ Config \in Values /\ ~o.io
          BY <1>1, <1>2, ConfigIsValue
        <5> QED BY <1>1, <2>2, <5>1, DoVerify
      <4> HIDE DEF r
      <4> QED BY <4>1, <4>2
    <3>2. VERI_NOERR \notin {VERI_EREQUEST, VERI_EPARTIAL}
      BY DEF VERI_NOERR, VERI_EREQUEST, VERI_EPARTIAL
    <3>3. CASE e.verify = "normal" /\ AllExpected(o.pages)
      <4>1. e.status = "NORMAL" => LoopThere(host.loop, idx) /\ e.loop = host.loop
        <5> SUFFICES ASSUME e.status = "NORMAL" PROVE LoopThere(host.loop, idx)
          BY <1>3, <3>3
        <5>1. e.loop = host.loop
          BY <1>3, <3>3
        <5>2. e.loop # host.loop + 1
          BY <1>1, <5>1
        <5> QED BY <1>2, <5>2 DEF Walked
      <4>2. e.status = "NORMAL" => LoopThere(host.loop, idx + 1)
        BY <1>2, <1>3, <3>3, <4>1 DEF LoopThere
      <4>3. PICK loop, n : loop = host.loop /\ n = idx + 1
        OBVIOUS
      <4>4. e.status = "NORMAL" => LoopThere(loop, n)' /\ e'.loop = loop
        BY <1>4, <1>6, <4>1, <4>2, <4>3
      <4>5. loop = host'.loop /\ n = idx'
        BY <1>2, <2>2, <4>3
      <4> QED BY <1>2, <1>4, <3>1, <3>3, <4>4, <4>5 DEF Walked, Untouched
    <3>4. CASE e.verify = "normal" /\ ~AllExpected(o.pages)
      <4>1. e'.result = VERI_NOERR => e.status = "NORMAL"
        BY <1>2, <3>1, <3>2, <3>4 DEF Walked
      <4>2. e.status = "NORMAL" => LoopThere(e.loop, idx)
        BY <1>2 DEF Walked, LoopThere
      <4>3. PICK loop, n : loop = e.loop /\ n = idx
        OBVIOUS
      <4>4. e'.result = VERI_NOERR => LoopThere(loop, n)'
        BY <1>4, <4>1, <4>2, <4>3
      <4>5. loop = e'.info.loop /\ n = Position(e'.info.loop, e'.info.lsn)
        BY <1>2, <3>1, <3>4, <4>3
      <4> QED BY <1>2, <3>1, <3>4, <4>4, <4>5 DEF Walked
    <3>5. CASE e.verify # "normal" /\ ~o.hit
      BY <1>2, <1>4, <3>1, <3>5 DEF Walked, Untouched
    <3>6. CASE e.verify # "normal" /\ o.hit
      <4>1. e.status # "NORMAL"
        BY <1>2, <3>6 DEF Walked
      <4> QED BY <1>2, <3>1, <3>2, <3>6, <4>1 DEF Walked
    <3>7. o.hit \in BOOLEAN
      BY <1>2 DEF Readings
    <3> QED BY <3>3, <3>4, <3>5, <3>6, <3>7
  <2> QED BY <2>1, <2>2
<1>8. TypeOK'
  <2>1. count' \in 1 .. Size + 1
    BY <1>6, PatternFacts
  <2>2. TypeProgram'
    BY <1>1, <1>2, <1>6, <2>1, TypeParts DEF TypeProgram, Places
  <2>3. TypeDevice'
    BY <1>1, <1>2, TypeParts, TypeDeviceStays DEF TypeDevice
  <2> QED BY <2>2, <2>3, TypePartsNext
<1>9. Shape'
  BY <1>1, <1>2, <1>6, <1>8
  DEF Inv, Shape, HostAndPhase, FirstBoot, RequestAtHand, CrashEnds
<1>10. Pages'
  BY <1>2, <1>6, PagesStay DEF Inv
<1>11. Loop'
  <2>1. PhaseBegan'
    BY <1>2, <1>4 DEF Inv, Loop, PhaseBegan, First
  <2> QED BY <1>2, <1>6, <1>7, <2>1 DEF Loop, PhaseWritten, Verification, Resumes
<1> QED BY <1>9, <1>10, <1>11 DEF Inv

LEMMA InvEndVerification == Inv /\ EndVerification /\ UNCHANGED storage => Inv'
<1> SUFFICES ASSUME Inv, EndVerification, UNCHANGED storage PROVE Inv'
  OBVIOUS
<1> USE DEF Writing, PhasePlaces
<1>1. /\ TypeOK /\ e \in Engine /\ g \in State /\ host.boot \in Nat /\ g.boot \in Nat
      /\ pc = "ended"
  BY Typed DEF EndVerification
<1>2. /\ ~sdcrash /\ host.boot # 0 /\ host.boot < g.boot /\ host.lsn \in Sectors
      /\ Walked /\ e.status # "NORMAL"
  BY <1>1 DEF Inv, Shape, CrashEnds, FirstBoot, HostAndPhase, Loop, Verification
<1>3. PICK answer \in {"ok", "bad"}, crash \in BOOLEAN :
        LET done == verify_check_random_zone(verify_set_current_step(e, "LSN_CRC"), answer)
        IN  /\ e' = done /\ crash = (verify_get_result(done) # 0)
            /\ sdcrash' = crash /\ pc' = AfterVerdict(crash)
  BY <1>2 DEF EndVerification
<1>4. /\ g' = [g EXCEPT !.wLsn = e.info.lsn, !.wLoop = e.info.loop, !.loop = e.info.loop]
      /\ UNCHANGED <<host, idx, count, armed, disk, cache, before, durable, lost>>
  BY DEF EndVerification, verify_apply_result, device
<1>5. e.info.lsn \in Nat /\ e.info.loop \in Nat
  BY <1>1 DEF Engine
<1>6. g' \in State /\ g'.boot = g.boot /\ g'.wLsn = e.info.lsn /\ g'.loop = e.info.loop
  BY <1>1, <1>4, <1>5 DEF State
<1>7. e' \in Engine /\ (~crash => e.result = VERI_NOERR)
  <2> DEFINE step == verify_set_current_step(e, "LSN_CRC")
             done == verify_check_random_zone(step, answer)
  <2>1. step \in Engine /\ step.result = e.result
    BY <1>1, CurrentStepChanges DEF Steps
  <2> HIDE DEF step
  <2>2. /\ done \in Engine
        /\ answer = "ok" => done = step
        /\ answer = "bad" => done.result = VERI_EREQUEST
    BY <2>1, RandomZoneChanges DEF Answers
  <2>3. e' = done /\ crash = (verify_get_result(done) # 0)
    BY <1>3 DEF step
  <2> HIDE DEF done
  <2>4. verify_get_result(done) = 0 => done.result = VERI_NOERR
    BY <2>2 DEF Engine, Results, verify_get_result, verify_get_error_num,
                verify_get_crash_num, VERI_NOERR, VERI_EIO, VERI_EREQUEST, VERI_EPARTIAL,
                PLR_EIO, PLR_ECRASH
  <2>5. VERI_EREQUEST # VERI_NOERR
    BY DEF VERI_EREQUEST, VERI_NOERR
  <2> QED BY <2>1, <2>2, <2>3, <2>4, <2>5
<1>8. pc' = IF crash THEN "out" ELSE "begin_write"
  BY <1>3 DEF AfterVerdict
<1>9. TypeOK'
  <2>1. TypeProgram'
    BY <1>1, <1>3, <1>4, <1>6, <1>8, TypeParts DEF TypeProgram, Places
  <2>2. TypeDevice'
    BY <1>1, <1>4, TypeParts, TypeDeviceStays DEF TypeDevice
  <2> QED BY <2>1, <2>2, TypePartsNext
<1>10. Shape'
  BY <1>1, <1>2, <1>3, <1>4, <1>6, <1>7, <1>8, <1>9
  DEF Inv, Shape, HostAndPhase, FirstBoot, RequestAtHand, CrashEnds
<1>11. Pages'
  BY <1>1, <1>4, PagesStay DEF Inv
<1>12. Loop'
  <2>1. \A loop, n : LoopThere(loop, n)' <=> LoopThere(loop, n)
    BY <1>4 DEF LoopThere, OnDisk
  <2>2. PhaseBegan'
    BY <1>4, <2>1 DEF Inv, Loop, PhaseBegan, First
  <2>3. Resumes'
    <3> SUFFICES ASSUME ~crash PROVE Resumes'
      BY <1>8 DEF Resumes
    <3>1. e.info.lsn \in Sectors /\ LoopThere(e.info.loop, Position(e.info.loop, e.info.lsn))
      BY <1>2, <1>7 DEF Walked
    <3>2. PICK loop, n : loop = e.info.loop /\ n = Position(e.info.loop, e.info.lsn)
      OBVIOUS
    <3>3. LoopThere(loop, n)'
      BY <2>1, <3>1, <3>2
    <3>4. g'.wLsn \in Sectors /\ loop = g'.loop /\ n = Position(g'.loop, g'.wLsn)
      BY <1>6, <3>1, <3>2
    <3> QED BY <3>3, <3>4 DEF Resumes
  <2> QED BY <1>1, <1>8, <2>2, <2>3 DEF Loop, PhaseWritten, Verification
<1> QED BY <1>10, <1>11, <1>12 DEF Inv

-------------------------------------------------------------------------------
LEMMA InvBeginWriting == Inv /\ BeginWriting /\ UNCHANGED storage => Inv'
<1> SUFFICES ASSUME Inv, BeginWriting, UNCHANGED storage PROVE Inv'
  OBVIOUS
<1> USE DEF Writing, PhasePlaces
<1>1. /\ TypeOK /\ TypeDevice /\ e \in Engine /\ g \in State /\ host.boot \in Nat
      /\ g.boot \in Nat /\ g.loop \in Nat /\ pc = "begin_write"
  BY Typed DEF BeginWriting
<1>2. host.boot < g.boot /\ Cached = {} /\ ~sdcrash
  BY <1>1 DEF Inv, Shape, HostAndPhase, Pages, CacheKnown, CrashEnds
<1>3. PICK start : start = StartLsn
  OBVIOUS
<1>4. start \in Sectors /\ start \in Nat /\ LoopThere(g.loop, Position(g.loop, start))
  <2>1. CASE host.boot = 0
    <3>1. start = FirstLsn(1) /\ g.loop = 1
      BY <1>1, <1>3, <2>1 DEF Inv, Shape, FirstBoot, StartLsn
    <3>2. FirstLsn(1) \in Sectors /\ Position(1, FirstLsn(1)) = 1
      BY PositionFacts
    <3>3. LoopThere(1, 1)
      BY DEF LoopThere
    <3>4. LoopThere(g.loop, Position(g.loop, start)) <=> LoopThere(1, 1)
      BY <3>1, <3>2
    <3> QED BY <3>1, <3>2, <3>3, <3>4, PatternFacts
  <2>2. CASE host.boot # 0
    <3>1. start = g.wLsn
      BY <1>1, <1>3, <2>2 DEF Inv, Shape, FirstBoot, StartLsn
    <3> QED BY <1>1, <2>2, <3>1, PatternFacts DEF Inv, Loop, Resumes
  <2> QED BY <2>1, <2>2
<1>5. PICK n : n = Position(g.loop, start)
  OBVIOUS
<1>6. n \in 1 .. Size /\ n \in Nat
  <2>1. n \in 1 .. Size
    BY <1>1, <1>4, <1>5, PositionFacts
  <2> QED BY <2>1, IndexFacts
<1>7. /\ g' = [g EXCEPT !.wLsn = start]
      /\ host' = [lsn |-> start, loop |-> g.loop, boot |-> g.boot]
      /\ idx' = n /\ count' = 1 /\ pc' = "write"
      /\ before' = disk /\ durable' = {} /\ lost' = {}
      /\ UNCHANGED <<sdcrash, e, armed, disk, cache>>
  BY <1>3, <1>5 DEF BeginWriting, WriteInfo
<1>8. /\ g' \in State /\ g'.boot = g.boot /\ g'.loop = g.loop
      /\ host'.lsn = start /\ host'.loop = g.loop /\ host'.boot = g.boot
      /\ host' \in [lsn : Nat, loop : Nat, boot : Nat]
  BY <1>1, <1>4, <1>7 DEF State
<1>9. First' = n
  BY <1>5, <1>8 DEF First, Position
<1>10. TypeOK'
  <2>1. TypeProgram'
    BY <1>1, <1>6, <1>7, <1>8, IndexFacts, TypeParts DEF TypeProgram, Places
  <2>2. TypeDevice'
    BY <1>1, <1>7 DEF TypeDevice
  <2> QED BY <2>1, <2>2, TypePartsNext
<1>11. Shape'
  BY <1>1, <1>2, <1>4, <1>6, <1>7, <1>8, <1>9, <1>10
  DEF Inv, Shape, HostAndPhase, FirstBoot, RequestAtHand, CrashEnds
<1>12. \A s \in Sectors, p \in 1 .. NumPages : disk[s][p].boot \in Nat /\ disk[s][p].boot < g.boot
  <2> TAKE s \in Sectors, p \in 1 .. NumPages
  <2>1. disk[s][p].boot \in Nat
    BY <1>1, PageTypes DEF PageType
  <2>2. disk[s][p].boot <= host.boot
    BY DEF Inv, Pages, DiskKnown, PageKnown
  <2> QED BY <1>1, <1>2, <2>1, <2>2
<1>13. Pages'
  <2>1. DiskKnown'
    BY <1>1, <1>7, <1>8, <1>12 DEF DiskKnown, PageKnown
  <2>2. BeforeKnown'
    BY <1>1, <1>7, <1>8, <1>12 DEF BeforeKnown, PageOlder, TypeDevice
  <2>3. CacheKnown'
    BY <1>2, <1>7 DEF Inv, Pages, CacheKnown, Cached
  <2> QED BY <1>7, <2>1, <2>2, <2>3 DEF Pages, DurableKnown
<1>14. Loop'
  <2>1. PICK loop : loop = g.loop
    OBVIOUS
  <2>2. LoopThere(loop, n) /\ loop \in Nat
    BY <1>1, <1>4, <1>5, <2>1
  <2>3. PhaseBegan'
    BY <1>7, <1>8, <1>9, <2>1, <2>2 DEF PhaseBegan, LoopThere, OnDisk
  <2>4. \A i \in 1 .. n - 1 : Pattern(loop)[i] \in Sectors
    BY <1>6, <2>2, PatternFacts
  <2>5. \A i \in 1 .. n - 1 : InLoop(Pattern(loop)[i], loop)'
    BY <1>2, <1>7, <2>2, <2>4 DEF LoopThere, OnDisk, InLoop, Content, Cached
  <2>6. loop = host'.loop /\ n = idx'
    BY <1>7, <1>8, <2>1
  <2>7. PhaseWritten'
    BY <1>7, <2>5, <2>6 DEF PhaseWritten, WrittenTo
  <2> QED BY <1>7, <2>3, <2>7 DEF Loop, Verification, Resumes
<1> QED BY <1>11, <1>13, <1>14 DEF Inv

LEMMA IssueChanges ==
  ASSUME g \in State, armed \in BOOLEAN, Issue
  PROVE  /\ g' \in State /\ g'.boot = g.boot /\ g'.loop = g.loop /\ g'.wLsn = g.wLsn
         /\ armed' \in BOOLEAN /\ pc' = "writing"
<1>1. PICK commit \in BOOLEAN : commit = (g.firstCommit \/ IsCommit)
  BY DEF State
<1>2. PICK first \in BOOLEAN, require \in BOOLEAN :
        g' = [g EXCEPT !.firstCommit = first, !.require = require] /\ armed' \in BOOLEAN
  <2>1. CASE g.require
    <3>1. g' = [g EXCEPT !.firstCommit = commit] /\ armed' \in BOOLEAN
      BY <1>1, <2>1 DEF Issue
    <3>2. g' = [g EXCEPT !.firstCommit = commit, !.require = g.require]
      BY <3>1 DEF State
    <3>3. g.require \in BOOLEAN
      BY DEF State
    <3> QED BY <3>1, <3>2, <3>3
  <2>2. CASE ~g.require
    <3>1. MayArm(commit)
      BY <1>1, <2>2 DEF Issue
    <3>2. CASE UNCHANGED armed /\ g' = [g EXCEPT !.firstCommit = commit]
      <4>1. g' = [g EXCEPT !.firstCommit = commit, !.require = g.require]
        BY <3>2 DEF State
      <4>2. g.require \in BOOLEAN
        BY DEF State
      <4> QED BY <3>2, <4>1, <4>2
    <3>3. CASE armed' = TRUE /\ g' = [g EXCEPT !.firstCommit = commit, !.require = TRUE]
      BY <3>3
    <3> QED BY <3>1, <3>2, <3>3 DEF MayArm
  <2> QED BY <2>1, <2>2
<1>3. pc' = "writing"
  BY DEF Issue
<1> QED BY <1>2, <1>3 DEF State

(* The request at hand of a write phase.                                    *)
LEMMA Current ==
  ASSUME Inv, pc \in PhasePlaces
  PROVE  /\ host.boot # 0 /\ host.boot = g.boot /\ host.lsn \in Sectors
         /\ First \in 1 .. Size /\ First <= idx /\ count = idx - First + 1
         /\ pc \in Writing => g.loop = host.loop
         /\ pc \in Writing /\ idx <= Size =>
              /\ idx \in 1 .. Size /\ CurrentLsn \in Sectors
              /\ CurrentLsn = Pattern(host.loop)[idx]
              /\ Position(host.loop, CurrentLsn) = idx
<1>1. /\ idx \in 1 .. Size + 1 /\ idx \in Nat \ {0} /\ host.loop \in Nat
      /\ host.boot \in Nat /\ g.boot \in Nat
  BY Typed
<1>2. host.boot = g.boot /\ g.boot > 0 /\ (pc \in Writing => g.loop = host.loop)
  BY DEF Inv, Shape, HostAndPhase, PhasePlaces
<1>3. host.boot # 0 /\ host.lsn \in Sectors
  BY <1>1, <1>2 DEF Inv, Shape, FirstBoot
<1>4. First <= idx /\ count = idx - First + 1
  BY DEF Inv, Shape, RequestAtHand
<1>5. First \in 1 .. Size
  BY <1>1, <1>3, PositionFacts DEF First
<1>6. ASSUME pc \in Writing, idx <= Size
      PROVE  /\ idx \in 1 .. Size /\ CurrentLsn \in Sectors
             /\ CurrentLsn = Pattern(host.loop)[idx]
             /\ Position(host.loop, CurrentLsn) = idx
  <2>1. idx \in 1 .. Size
    BY <1>1, <1>6, PatternFacts
  <2>2. CurrentLsn = Pattern(host.loop)[idx]
    BY <1>2, <1>6 DEF CurrentLsn
  <2> QED BY <1>1, <2>1, <2>2, PatternFacts, PositionFacts
<1> QED BY <1>2, <1>3, <1>4, <1>5, <1>6

LEMMA InvWrite == Inv /\ Write /\ UNCHANGED storage => Inv'
<1> SUFFICES ASSUME Inv, Write, UNCHANGED storage PROVE Inv'
  OBVIOUS
<1> USE DEF Writing, PhasePlaces
<1>1. /\ TypeOK /\ TypeDevice /\ e \in Engine /\ g \in State /\ g.loop \in Nat
      /\ pc = "write" /\ idx \in Nat /\ armed \in BOOLEAN
  BY Typed DEF Write, TypeDevice
<1>2. UNCHANGED <<host, sdcrash, e, idx, count, disk, cache, before, durable, lost>>
  BY DEF Write
<1>3. idx <= Size
  BY <1>1, PatternFacts DEF Write
<1>4. /\ g' \in State /\ g'.boot = g.boot /\ g'.loop = g.loop /\ armed' \in BOOLEAN
      /\ pc' \in {"flush1", "writing"}
  <2>1. CASE IsCommit
    BY <1>1, <2>1 DEF Write
  <2>2. CASE ~IsCommit
    BY <1>1, <2>2, IssueChanges DEF Write
  <2> QED BY <2>1, <2>2
<1>5. TypeOK'
  <2>1. TypeProgram'
    BY <1>1, <1>2, <1>4, TypeParts DEF TypeProgram, Places
  <2>2. TypeDevice'
    BY <1>1, <1>2, <1>4, TypeDeviceStays
  <2> QED BY <2>1, <2>2, TypePartsNext
<1>6. Shape'
  <2>1. First' = First
    BY <1>2 DEF First
  <2> QED
    BY <1>1, <1>2, <1>3, <1>4, <1>5, <2>1
    DEF Inv, Shape, HostAndPhase, FirstBoot, RequestAtHand, CrashEnds
<1>7. Pages'
  BY <1>1, <1>2, <1>4, PagesStay DEF Inv
<1>8. Loop'
  <2>1. PhaseBegan'
    BY <1>2 DEF Inv, Loop, PhaseBegan, First, LoopThere, OnDisk
  <2>2. WrittenTo(idx - 1)
    BY <1>1 DEF Inv, Loop, PhaseWritten
  <2>3. PICK n : n = idx - 1
    OBVIOUS
  <2>4. WrittenTo(n)' /\ n = idx' - 1
    BY <1>2, <2>2, <2>3 DEF WrittenTo, InLoop, Content
  <2> QED BY <1>4, <2>1, <2>4 DEF Loop, PhaseWritten, Verification, Resumes
<1> QED BY <1>6, <1>7, <1>8 DEF Inv

(* The pages a request of the phase writes.                                 *)
LEMMA NewPages ==
  ASSUME Inv, pc \in Writing
  PROVE  LET pages == Request(Header(g.loop, g.boot, count))
         IN  /\ pages \in PageSeq /\ pages # <<>>
             /\ \A p \in 1 .. NumPages :
                  pages[p].boot = host.boot /\ pages[p].loop = host.loop
<1> DEFINE header == Header(g.loop, g.boot, count)
           pages  == Request(header)
<1>1. g.boot \in Nat /\ g.loop \in Nat /\ host.boot = g.boot /\ host.loop = g.loop
  BY Typed, Current DEF PhasePlaces
<1>2. header \in PageType /\ header.boot = host.boot /\ header.loop = host.loop
  BY <1>1 DEF Header, PageType
<1> HIDE DEF header
<1>3. pages \in PageSeq /\ \A p \in 1 .. NumPages : pages[p] = header
  BY <1>2 DEF Request, PageSeq
<1>4. DOMAIN pages # {} /\ DOMAIN <<>> = {}
  BY CaseAssumption DEF Request
<1> QED BY <1>2, <1>3, <1>4 DEF header

LEMMA InvWriteDone == Inv /\ WriteDone /\ UNCHANGED storage => Inv'
<1> SUFFICES ASSUME Inv, WriteDone, UNCHANGED storage PROVE Inv'
  OBVIOUS
<1> USE DEF Writing, PhasePlaces
<1>1. /\ TypeOK /\ TypeProgram /\ TypeDevice /\ e \in Engine /\ g \in State
      /\ pc = "writing" /\ idx \in Nat /\ host.loop \in Nat /\ host.boot \in Nat
  BY Typed DEF WriteDone
<1>2. idx <= Size /\ idx \in 1 .. Size
  BY <1>1, Current DEF Inv, Shape, RequestAtHand
<1>3. PICK at : at = CurrentLsn
  OBVIOUS
<1>4. /\ at \in Sectors /\ at = Pattern(host.loop)[idx] /\ Position(host.loop, at) = idx
      /\ host.loop = g.loop /\ host.boot = g.boot /\ host.boot # 0
      /\ First \in 1 .. Size /\ First <= idx /\ count = idx - First + 1
  BY <1>1, <1>2, <1>3, Current
<1>5. PICK pages : pages = Request(Header(g.loop, g.boot, count))
  OBVIOUS
<1>6. /\ pages \in PageSeq /\ pages # <<>>
      /\ \A p \in 1 .. NumPages : pages[p].boot = host.boot /\ pages[p].loop = host.loop
  BY <1>1, <1>5, NewPages
<1>7. /\ UNCHANGED <<g, host, sdcrash, e, armed, before, lost>>
      /\ pc' \in {"write", "flush2"}
      /\ pc' = "write" => idx' = idx + 1 /\ count' = count + 1
      /\ pc' = "flush2" => idx' = idx /\ count' = count
      /\ CacheOn => /\ cache' = [cache EXCEPT ![at] = pages]
                    /\ UNCHANGED <<disk, durable>>
      /\ ~CacheOn => /\ disk' = [disk EXCEPT ![at] = pages]
                     /\ durable' = durable \cup {at} /\ UNCHANGED cache
  BY <1>3, <1>5 DEF WriteDone, Advance
<1>8. /\ idx + 1 \in 1 .. Size + 1 /\ count + 1 \in 1 .. Size + 1
      /\ First <= idx + 1 /\ count + 1 = idx + 1 - First + 1
  <2>1. PICK n, first, k, size : n = idx /\ first = First /\ k = count /\ size = Size
    OBVIOUS
  <2>2. /\ n \in 1 .. size /\ first \in 1 .. size /\ first <= n /\ k = n - first + 1
        /\ size \in Nat
    BY <1>2, <1>4, <2>1, PatternFacts
  <2>3. /\ n + 1 \in 1 .. size + 1 /\ k + 1 \in 1 .. size + 1
        /\ first <= n + 1 /\ k + 1 = n + 1 - first + 1
    BY <2>2
  <2> QED BY <2>1, <2>3
<1>9. cache \in [Sectors -> {<<>>} \cup PageSeq]
  BY DEF Inv, Pages, CacheKnown
<1>10. TypeOK'
  <2>1. TypeProgram'
    BY <1>1, <1>7, <1>8 DEF TypeProgram, Places
  <2>2. TypeDevice'
    <3>1. CASE CacheOn
      BY <1>1, <1>4, <1>6, <1>7, <1>9, <3>1 DEF TypeDevice
    <3>2. CASE ~CacheOn
      BY <1>1, <1>4, <1>6, <1>7, <3>2 DEF TypeDevice
    <3> QED BY <3>1, <3>2
  <2> QED BY <2>1, <2>2, TypePartsNext
<1>11. First' = First
  BY <1>7 DEF First
<1>12. Shape'
  BY <1>1, <1>2, <1>4, <1>7, <1>8, <1>10, <1>11
  DEF Inv, Shape, HostAndPhase, FirstBoot, RequestAtHand, CrashEnds
<1>13. \A p \in 1 .. NumPages : PageKnown(at, pages[p])
  BY <1>1, <1>4, <1>6 DEF PageKnown
<1>14. Pages'
  <2>1. BeforeKnown'
    BY <1>7 DEF Inv, Pages, BeforeKnown, PageOlder
  <2>2. CASE CacheOn
    <3>1. DiskKnown' /\ DurableKnown'
      BY <1>7, <1>11, <2>2 DEF Inv, Pages, DiskKnown, DurableKnown, PageKnown
    <3>2. CacheKnown'
      <4>1. cache' \in [Sectors -> {<<>>} \cup PageSeq]
        BY <1>6, <1>7, <1>9, <2>2
      <4>2. \A s \in Cached', p \in 1 .. NumPages :
              cache'[s][p].boot = host.boot /\ PageKnown(s, cache'[s][p])
        <5> TAKE s \in Cached', p \in 1 .. NumPages
        <5>1. CASE s = at
          <6>1. cache'[s] = pages
            BY <1>4, <1>7, <1>9, <2>2, <5>1
          <6> QED BY <1>6, <1>13, <5>1, <6>1
        <5>2. CASE s # at
          <6>1. cache'[s] = cache[s] /\ s \in Cached
            BY <1>4, <1>7, <1>9, <2>2, <5>2 DEF Cached
          <6> QED BY <6>1 DEF Inv, Pages, CacheKnown
        <5> QED BY <5>1, <5>2
      <4> QED BY <1>7, <1>11, <2>2, <4>1, <4>2 DEF CacheKnown, PageKnown
    <3> QED BY <2>1, <3>1, <3>2 DEF Pages
  <2>3. CASE ~CacheOn
    <3>1. CacheKnown'
      BY <1>1, <1>7, <1>11, <2>3 DEF Inv, Pages, CacheKnown, PageKnown, Cached
    <3>2. \A s \in Sectors, p \in 1 .. NumPages : PageKnown(s, disk'[s][p])
      <4> TAKE s \in Sectors, p \in 1 .. NumPages
      <4>1. CASE s = at
        <5>1. disk'[s] = pages
          BY <1>1, <1>7, <2>3, <4>1 DEF TypeDevice
        <5> QED BY <1>13, <4>1, <5>1
      <4>2. CASE s # at
        <5>1. disk'[s] = disk[s]
          BY <1>1, <1>7, <2>3, <4>2 DEF TypeDevice
        <5> QED BY <5>1 DEF Inv, Pages, DiskKnown
      <4> QED BY <4>1, <4>2
    <3>3. DiskKnown'
      BY <1>7, <1>11, <3>2 DEF DiskKnown, PageKnown
    <3>4. DurableKnown'
      BY <1>4, <1>7, <1>11, <2>3 DEF Inv, Pages, DurableKnown
    <3> QED BY <2>1, <3>1, <3>3, <3>4 DEF Pages
  <2> QED BY <2>2, <2>3
<1>15. Loop'
  <2>1. \A i \in 1 .. Size : Pattern(host.loop)[i] = at => i = idx
    BY <1>1, <1>2, <1>4, PatternFacts
  <2>2. \A s \in Sectors \ {at} : disk'[s] = disk[s] /\ cache'[s] = cache[s]
    BY <1>1, <1>7, <1>9 DEF TypeDevice
  <2>3. \A i \in 1 .. First - 1 : i \in 1 .. Size /\ i # idx
    BY <1>2, <1>4, PatternFacts
  <2>4. \A i \in 1 .. First - 1 : Pattern(host.loop)[i] \in Sectors \ {at}
    BY <1>1, <2>1, <2>3, PatternFacts
  <2>5. PhaseBegan'
    <3>1. LoopThere(host.loop, First)
      BY <1>4 DEF Inv, Loop, PhaseBegan
    <3>2. LoopThere(host.loop, First)'
      BY <1>7, <1>11, <2>2, <2>4, <3>1 DEF LoopThere, OnDisk
    <3> QED BY <1>7, <3>2 DEF PhaseBegan
  <2>6. Content(at)' = pages
    <3>1. CASE CacheOn
      BY <1>4, <1>6, <1>7, <1>9, <3>1 DEF Content
    <3>2. CASE ~CacheOn
      <4>1. cache'[at] = <<>>
        BY <1>4, <1>7, <3>2 DEF Inv, Pages, CacheKnown, Cached
      <4>2. disk'[at] = pages
        BY <1>1, <1>4, <1>7, <3>2 DEF TypeDevice
      <4> QED BY <4>1, <4>2 DEF Content
    <3> QED BY <3>1, <3>2
  <2>7. PICK loop : loop = host.loop
    OBVIOUS
  <2>8. InLoop(at, loop)'
    BY <1>6, <2>6, <2>7 DEF InLoop
  <2>9. \A s \in Sectors \ {at} : InLoop(s, loop)' <=> InLoop(s, loop)
    BY <2>2 DEF InLoop, Content
  <2>10. \A i \in 1 .. idx - 1 : Pattern(loop)[i] \in Sectors \ {at}
    <3>1. \A i \in 1 .. idx - 1 : i \in 1 .. Size /\ i # idx
      BY <1>2, PatternFacts
    <3> QED BY <1>1, <2>1, <2>7, <3>1, PatternFacts
  <2>11. \A i \in 1 .. idx - 1 : InLoop(Pattern(loop)[i], loop)'
    <3>1. WrittenTo(idx - 1)
      BY <1>1 DEF Inv, Loop, PhaseWritten
    <3> QED BY <2>7, <2>9, <2>10, <3>1 DEF WrittenTo
  <2>12. \A i \in 1 .. idx : InLoop(Pattern(loop)[i], loop)'
    <3>1. \A i \in 1 .. idx : i \in 1 .. idx - 1 \/ i = idx
      BY <1>1
    <3> QED BY <1>4, <2>7, <2>8, <2>11, <3>1
  <2>13. idx' - 1 \in {idx - 1, idx}
    BY <1>1, <1>7
  <2>14. WrittenTo(idx - 1)' /\ loop = host'.loop
    <3>1. loop = host'.loop
      BY <1>7, <2>7
    <3>2. CASE idx' - 1 = idx - 1
      BY <2>11, <3>1, <3>2 DEF WrittenTo
    <3>3. CASE idx' - 1 = idx
      BY <2>12, <3>1, <3>3 DEF WrittenTo
    <3> QED BY <2>13, <3>1, <3>2, <3>3
  <2>15. pc' = "flush2" => Pattern(host'.loop)[idx'] = at
    BY <1>4, <1>7
  <2> QED BY <1>7, <2>5, <2>8, <2>14, <2>15 DEF Loop, PhaseWritten, Verification, Resumes
<1> QED BY <1>12, <1>14, <1>15 DEF Inv

(* A flush moves pages, and changes none.                                   *)
LEMMA FlushKeeps ==
  ASSUME Inv, pc \in PhasePlaces, FlushCache, UNCHANGED <<host, before, lost>>,
         armed' \in BOOLEAN
  PROVE  /\ TypeDevice' /\ Pages' /\ PhaseBegan' /\ First' = First
         /\ \A s \in Sectors, loop \in Nat : InLoop(s, loop)' <=> InLoop(s, loop)
         /\ \A n \in 0 .. Size : WrittenTo(n) => WrittenTo(n)'
<1>1. /\ TypeOK /\ TypeDevice /\ host.loop \in Nat /\ host.boot \in Nat
      /\ host.boot # 0 /\ First \in 1 .. Size
  BY Typed, Current
<1>2. /\ disk' = [s \in Sectors |-> IF s \in Cached THEN cache[s] ELSE disk[s]]
      /\ cache' = [s \in Sectors |-> <<>>] /\ durable' = durable \cup Cached
  BY DEF FlushCache
<1>3. Cached' = {} /\ Cached \subseteq Sectors
  BY <1>2 DEF Cached
<1>4. First' = First
  BY DEF First
<1>5. TypeDevice'
  <2>1. disk' \in [Sectors -> PageSeq]
    BY <1>1, <1>2 DEF TypeDevice, Cached
  <2>2. durable' \subseteq Sectors /\ lost' \subseteq durable'
    BY <1>1, <1>2, <1>3 DEF TypeDevice
  <2> QED BY <1>2, <2>1, <2>2 DEF TypeDevice
<1>6. \A s \in Sectors : Content(s)' = Content(s)
  BY <1>2 DEF Content, Cached
<1>7. \A s \in Sectors, loop \in Nat : InLoop(s, loop)' <=> InLoop(s, loop)
  BY <1>6 DEF InLoop
<1>8. 1 \in 1 .. NumPages
  BY CaseAssumption
<1>9. \A s \in Cached : Position(host.loop, s) >= First
  BY <1>1, <1>8 DEF Inv, Pages, CacheKnown, PageKnown
<1>10. Pages'
  <2>1. DiskKnown'
    <3>1. \A s \in Sectors, p \in 1 .. NumPages : PageKnown(s, disk'[s][p])
      <4> TAKE s \in Sectors, p \in 1 .. NumPages
      <4>1. CASE s \in Cached
        <5>1. disk'[s] = cache[s]
          BY <1>2, <4>1
        <5> QED BY <4>1, <5>1 DEF Inv, Pages, CacheKnown
      <4>2. CASE s \notin Cached
        <5>1. disk'[s] = disk[s]
          BY <1>2, <4>2
        <5> QED BY <5>1 DEF Inv, Pages, DiskKnown
      <4> QED BY <4>1, <4>2
    <3> QED BY <1>4, <3>1 DEF DiskKnown, PageKnown
  <2>2. CacheKnown'
    BY <1>2, <1>3 DEF CacheKnown
  <2>3. BeforeKnown'
    BY DEF Inv, Pages, BeforeKnown, PageOlder
  <2>4. DurableKnown'
    BY <1>2, <1>4, <1>9 DEF Inv, Pages, DurableKnown
  <2> QED BY <2>1, <2>2, <2>3, <2>4 DEF Pages
<1>11. PhaseBegan'
  <2>1. LoopThere(host.loop, First)
    BY <1>1 DEF Inv, Loop, PhaseBegan
  <2>2. \A i \in 1 .. First - 1 : /\ Pattern(host.loop)[i] \in Sectors
                                  /\ Pattern(host.loop)[i] \notin Cached
    <3> TAKE i \in 1 .. First - 1
    <3>1. i \in 1 .. Size /\ ~(i >= First)
      BY <1>1, PatternFacts
    <3>2. Position(host.loop, Pattern(host.loop)[i]) = i /\ Pattern(host.loop)[i] \in Sectors
      BY <1>1, <3>1, PositionFacts, PatternFacts
    <3> QED BY <1>9, <3>1, <3>2
  <2>3. LoopThere(host.loop, First)'
    BY <1>2, <1>4, <2>1, <2>2 DEF LoopThere, OnDisk
  <2> QED BY <1>4, <2>3 DEF PhaseBegan
<1>12. \A n \in 0 .. Size : WrittenTo(n) => WrittenTo(n)'
  <2> TAKE n \in 0 .. Size
  <2>1. \A i \in 1 .. n : Pattern(host.loop)[i] \in Sectors
    <3>1. \A i \in 1 .. n : i \in 1 .. Size
      BY PatternFacts
    <3> QED BY <1>1, <3>1, PatternFacts
  <2>2. PICK loop \in Nat : loop = host.loop
    BY <1>1
  <2>3. \A i \in 1 .. n : InLoop(Pattern(loop)[i], loop)' <=> InLoop(Pattern(loop)[i], loop)
    BY <1>7, <2>1, <2>2
  <2> QED BY <2>2, <2>3 DEF WrittenTo
<1> QED BY <1>4, <1>5, <1>7, <1>10, <1>11, <1>12

LEMMA InvFirstFlushDone == Inv /\ FirstFlushDone /\ UNCHANGED storage => Inv'
<1> SUFFICES ASSUME Inv, FirstFlushDone, UNCHANGED storage PROVE Inv'
  OBVIOUS
<1> USE DEF Writing, PhasePlaces
<1>1. /\ TypeOK /\ TypeProgram /\ TypeDevice /\ e \in Engine /\ g \in State
      /\ pc = "flush1" /\ idx \in Nat /\ armed \in BOOLEAN
  BY Typed DEF FirstFlushDone, TypeDevice
<1>2. /\ FlushCache /\ Issue /\ UNCHANGED <<host, sdcrash, e, idx, count, before, lost>>
  BY DEF FirstFlushDone
<1>3. /\ g' \in State /\ g'.boot = g.boot /\ g'.loop = g.loop
      /\ armed' \in BOOLEAN /\ pc' = "writing"
  BY <1>1, <1>2, IssueChanges
<1>4. /\ TypeDevice' /\ Pages' /\ PhaseBegan' /\ First' = First
      /\ \A n \in 0 .. Size : WrittenTo(n) => WrittenTo(n)'
  BY <1>1, <1>2, <1>3, FlushKeeps
<1>5. TypeOK'
  <2>1. TypeProgram'
    BY <1>1, <1>2, <1>3 DEF TypeProgram, Places
  <2> QED BY <1>4, <2>1, TypePartsNext
<1>6. Shape'
  BY <1>1, <1>2, <1>3, <1>4, <1>5
  DEF Inv, Shape, HostAndPhase, FirstBoot, RequestAtHand, CrashEnds
<1>7. idx - 1 \in 0 .. Size /\ WrittenTo(idx - 1)
  <2>1. idx \in 1 .. Size
    BY <1>1, Current DEF Inv, Shape, RequestAtHand
  <2> QED BY <1>1, <2>1, PatternFacts DEF Inv, Loop, PhaseWritten
<1>8. PhaseWritten'
  <2>1. PICK n : n = idx - 1
    OBVIOUS
  <2>2. WrittenTo(n)' /\ n = idx' - 1
    BY <1>2, <1>4, <1>7, <2>1
  <2> QED BY <1>3, <2>2 DEF PhaseWritten
<1>9. Loop'
  BY <1>3, <1>4, <1>8 DEF Loop, Verification, Resumes
<1> QED BY <1>4, <1>6, <1>9 DEF Inv

LEMMA InvSecondFlushDone == Inv /\ SecondFlushDone /\ UNCHANGED storage => Inv'
<1> SUFFICES ASSUME Inv, SecondFlushDone, UNCHANGED storage PROVE Inv'
  OBVIOUS
<1> USE DEF Writing, PhasePlaces
<1>1. /\ TypeOK /\ TypeProgram /\ TypeDevice /\ e \in Engine /\ g \in State
      /\ pc = "flush2" /\ idx \in Nat /\ armed \in BOOLEAN /\ host.loop \in Nat
  BY Typed DEF SecondFlushDone, TypeDevice
<1>2. /\ FlushCache /\ UNCHANGED <<host, sdcrash, e, armed, before, lost>>
      /\ g' = [g EXCEPT !.flushPos = CurrentLsn]
      /\ pc' = "write" /\ idx' = idx + 1 /\ count' = count + 1
  BY DEF SecondFlushDone, Advance
<1>3. /\ idx \in 1 .. Size /\ CurrentLsn \in Sectors /\ CurrentLsn \in Nat
      /\ First \in 1 .. Size /\ First <= idx /\ count = idx - First + 1
  BY <1>1, Current, PatternFacts DEF Inv, Shape, RequestAtHand
<1>4. /\ idx + 1 \in 1 .. Size + 1 /\ count + 1 \in 1 .. Size + 1
      /\ First <= idx + 1 /\ count + 1 = idx + 1 - First + 1
  <2>1. PICK n, first, k, size : n = idx /\ first = First /\ k = count /\ size = Size
    OBVIOUS
  <2>2. /\ n \in 1 .. size /\ first \in 1 .. size /\ first <= n /\ k = n - first + 1
        /\ size \in Nat
    BY <1>3, <2>1, PatternFacts
  <2>3. /\ n + 1 \in 1 .. size + 1 /\ k + 1 \in 1 .. size + 1
        /\ first <= n + 1 /\ k + 1 = n + 1 - first + 1
    BY <2>2
  <2> QED BY <2>1, <2>3
<1>5. g' \in State /\ g'.boot = g.boot /\ g'.loop = g.loop
  BY <1>1, <1>2, <1>3 DEF State
<1>6. /\ TypeDevice' /\ Pages' /\ PhaseBegan' /\ First' = First
      /\ \A n \in 0 .. Size : WrittenTo(n) => WrittenTo(n)'
  BY <1>1, <1>2, FlushKeeps
<1>7. TypeOK'
  <2>1. TypeProgram'
    BY <1>1, <1>2, <1>4, <1>5 DEF TypeProgram, Places
  <2> QED BY <1>6, <2>1, TypePartsNext
<1>8. Shape'
  <2>1. PICK first, n, k : first = First /\ n = idx + 1 /\ k = count + 1
    OBVIOUS
  <2>2. first <= n /\ k = n - first + 1
    <3>1. PICK at, from \in Nat : at = idx /\ from = First /\ at \in Nat
      BY <1>1, <1>3, IndexFacts
    <3> QED BY <1>3, <2>1, <3>1
  <2>3. first = First' /\ n = idx' /\ k = count'
    BY <1>2, <1>6, <2>1
  <2> QED
    BY <1>1, <1>2, <1>5, <1>7, <2>2, <2>3
    DEF Inv, Shape, HostAndPhase, FirstBoot, RequestAtHand, CrashEnds
<1>9. idx \in 0 .. Size /\ WrittenTo(idx)
  <2>1. WrittenTo(idx - 1) /\ InLoop(Pattern(host.loop)[idx], host.loop)
    BY <1>1 DEF Inv, Loop, PhaseWritten
  <2>2. \A i \in 1 .. idx : i \in 1 .. idx - 1 \/ i = idx
    BY <1>1
  <2>3. WrittenTo(idx)
    BY <2>1, <2>2 DEF WrittenTo
  <2>4. idx \in 0 .. Size
    BY <1>1, <1>3, PatternFacts
  <2> QED BY <2>3, <2>4
<1>10. PhaseWritten'
  <2>1. PICK n : n = idx
    OBVIOUS
  <2>2. WrittenTo(n)'
    BY <1>6, <1>9, <2>1
  <2>3. n = idx' - 1
    BY <1>1, <1>2, <2>1
  <2> QED BY <1>2, <2>2, <2>3 DEF PhaseWritten
<1>11. Loop'
  BY <1>2, <1>6, <1>10 DEF Loop, Verification, Resumes
<1> QED BY <1>6, <1>8, <1>11 DEF Inv

LEMMA InvLoopWritten == Inv /\ LoopWritten /\ UNCHANGED storage => Inv'
<1> SUFFICES ASSUME Inv, LoopWritten, UNCHANGED storage PROVE Inv'
  OBVIOUS
<1> USE DEF Writing, PhasePlaces
<1>1. /\ TypeOK /\ TypeProgram /\ TypeDevice /\ e \in Engine /\ g \in State
      /\ pc = "write" /\ idx \in 1 .. Size + 1 /\ g.loop \in Nat
  BY Typed DEF LoopWritten
<1>2. UNCHANGED <<host, sdcrash, e, idx, count, armed, disk, cache, before, durable, lost>>
  BY DEF LoopWritten, device
<1>3. idx = Size + 1
  <2>1. idx > Size
    BY <1>1, PatternFacts DEF LoopWritten
  <2> QED BY <1>1, <2>1, PatternFacts
<1>4. PICK next \in Nat : next = g.loop + 1
  BY <1>1
<1>5. PICK first \in Nat : first = FirstLsn(next)
  BY <1>4, PositionFacts, PatternFacts
<1>6. /\ g' \in State /\ g'.boot = g.boot /\ g'.loop = g.loop + 1
      /\ pc' = IF CacheOn THEN "loop_flush" ELSE "repeat"
  <2>1. NextLoopState = [g EXCEPT !.loop = next, !.wLsn = first]
    BY <1>4, <1>5 DEF NextLoopState
  <2>2. NextLoopState \in State /\ NextLoopState.boot = g.boot /\ NextLoopState.loop = next
    BY <1>1, <2>1 DEF State
  <2>3. PICK state : state = NextLoopState
    OBVIOUS
  <2>4. \/ CacheOn /\ g' = state /\ pc' = "loop_flush"
        \/ /\ ~CacheOn /\ pc' = "repeat"
           /\ g' = [state EXCEPT !.poffPos = first, !.flushPos = 0]
    BY <1>4, <1>5, <2>3 DEF LoopWritten
  <2>5. state \in State /\ state.boot = g.boot /\ state.loop = g.loop + 1
    BY <1>4, <2>2, <2>3
  <2>6. CASE CacheOn
    BY <2>4, <2>5, <2>6
  <2>7. CASE ~CacheOn
    <3>1. g' = [state EXCEPT !.poffPos = first, !.flushPos = 0] /\ pc' = "repeat"
      BY <2>4, <2>7
    <3>2. g' \in State /\ g'.boot = state.boot /\ g'.loop = state.loop
      BY <1>5, <2>5, <3>1 DEF State
    <3> QED BY <2>5, <2>7, <3>1, <3>2
  <2> QED BY <2>6, <2>7
<1>7. host.boot = g.boot /\ g.boot > 0 /\ host.loop = g.loop
  BY <1>1 DEF Inv, Shape, HostAndPhase
<1>8. TypeOK'
  <2>1. TypeProgram'
    BY <1>1, <1>2, <1>6 DEF TypeProgram, Places
  <2>2. TypeDevice'
    BY <1>1, <1>2, TypeDeviceStays DEF TypeDevice
  <2> QED BY <2>1, <2>2, TypePartsNext
<1>9. Shape'
  <2>1. First' = First
    BY <1>2 DEF First
  <2> QED
    BY <1>1, <1>2, <1>3, <1>6, <1>7, <1>8, <2>1
    DEF Inv, Shape, HostAndPhase, FirstBoot, RequestAtHand, CrashEnds
<1>10. Pages'
  <2>1. First' = First /\ Cached' = Cached /\ (~CacheOn => Cached = {})
    BY <1>2 DEF First, Cached, Inv, Pages, CacheKnown
  <2> QED
    BY <1>2, <1>6, <2>1 DEF Inv, Pages, DiskKnown, CacheKnown, BeforeKnown, DurableKnown,
                            PageKnown, PageOlder
<1>11. Loop'
  <2>1. PhaseBegan'
    BY <1>2 DEF Inv, Loop, PhaseBegan, First, LoopThere, OnDisk
  <2> QED BY <1>6, <2>1 DEF Loop, PhaseWritten, Verification, Resumes
<1> QED BY <1>9, <1>10, <1>11 DEF Inv

LEMMA InvLoopFlushDone == Inv /\ LoopFlushDone /\ UNCHANGED storage => Inv'
<1> SUFFICES ASSUME Inv, LoopFlushDone, UNCHANGED storage PROVE Inv'
  OBVIOUS
<1> USE DEF Writing, PhasePlaces
<1>1. /\ TypeOK /\ TypeProgram /\ TypeDevice /\ e \in Engine /\ g \in State
      /\ pc = "loop_flush" /\ g.wLsn \in Nat /\ armed \in BOOLEAN
  BY Typed DEF LoopFlushDone, TypeDevice
<1>2. /\ FlushCache /\ UNCHANGED <<host, sdcrash, e, idx, count, armed, before, lost>>
      /\ g' = [g EXCEPT !.poffPos = g.wLsn, !.flushPos = g.wLsn] /\ pc' = "repeat"
  BY DEF LoopFlushDone
<1>3. g' \in State /\ g'.boot = g.boot
  BY <1>1, <1>2 DEF State
<1>4. TypeDevice' /\ Pages' /\ PhaseBegan'
  BY <1>1, <1>2, FlushKeeps
<1>5. TypeOK'
  <2>1. TypeProgram'
    BY <1>1, <1>2, <1>3 DEF TypeProgram, Places
  <2> QED BY <1>4, <2>1, TypePartsNext
<1>6. Shape'
  BY <1>1, <1>2, <1>3, <1>5
  DEF Inv, Shape, HostAndPhase, FirstBoot, RequestAtHand, CrashEnds
<1>7. Loop'
  BY <1>2, <1>4 DEF Loop, PhaseWritten, Verification, Resumes
<1> QED BY <1>4, <1>6, <1>7 DEF Inv

-------------------------------------------------------------------------------
(* What is written in the phase carries its boot and its loop.              *)
LEMMA PageIsOfPhase ==
  ASSUME Inv, pc \in PhasePlaces, NEW s \in Cached \cup InFlight
  PROVE  /\ s \in Sectors /\ Position(host.loop, s) >= First
         /\ New(s) \in PageSeq
         /\ \A p \in 1 .. NumPages : New(s)[p].boot = host.boot /\ PageKnown(s, New(s)[p])
<1>1. /\ TypeDevice /\ host.boot \in Nat /\ host.boot # 0 /\ First \in 1 .. Size
      /\ host.loop \in Nat
  BY Typed, Current
<1>2. CASE s \in InFlight
  <2>1. pc = "writing" /\ s = CurrentLsn
    BY <1>2 DEF InFlight
  <2>2. idx <= Size
    BY <2>1 DEF Inv, Shape, RequestAtHand
  <2>3. s \in Sectors /\ Position(host.loop, s) = idx /\ First <= idx
    BY <2>1, <2>2, Current DEF Writing, PhasePlaces
  <2>4. PICK pages : pages = Request(Header(g.loop, g.boot, count))
    OBVIOUS
  <2>5. /\ pages \in PageSeq
        /\ \A p \in 1 .. NumPages : pages[p].boot = host.boot /\ pages[p].loop = host.loop
    BY <2>1, <2>4, NewPages DEF Writing
  <2>6. New(s) = pages
    BY <1>2, <2>4 DEF New
  <2> QED BY <1>1, <2>3, <2>5, <2>6 DEF PageKnown
<1>3. CASE s \notin InFlight
  <2>1. New(s) = cache[s] /\ s \in Cached /\ s \in Sectors /\ cache[s] # <<>>
    BY <1>3 DEF New, Cached
  <2>2. cache[s] \in PageSeq
    BY <1>1, <2>1 DEF TypeDevice
  <2>3. \A p \in 1 .. NumPages : cache[s][p].boot = host.boot /\ PageKnown(s, cache[s][p])
    BY <2>1 DEF Inv, Pages, CacheKnown
  <2>4. Position(host.loop, s) >= First
    BY <1>1, <2>3, CaseAssumption DEF PageKnown
  <2> QED BY <2>1, <2>2, <2>3, <2>4
<1> QED BY <1>2, <1>3

(* A sector whose new pages arrive at a cut, all of them or the first few.  *)
LEMMA TornPages ==
  ASSUME Inv, pc \in PhasePlaces, NEW s \in Cached \cup InFlight, NEW torn \in Torn(s)
  PROVE  /\ torn \in PageSeq
         /\ \A p \in 1 .. NumPages : torn[p] = New(s)[p] \/ torn[p] = disk[s][p]
         /\ \A p \in 1 .. NumPages : PageKnown(s, torn[p])
<1>1. /\ TypeDevice /\ s \in Sectors /\ New(s) \in PageSeq
      /\ \A p \in 1 .. NumPages : PageKnown(s, New(s)[p])
  BY Typed, PageIsOfPhase
<1>2. \A p \in 1 .. NumPages : PageKnown(s, disk[s][p])
  BY <1>1 DEF Inv, Pages, DiskKnown
<1>3. PICK new, old : new = New(s) /\ old = disk[s]
  OBVIOUS
<1>4. PICK n : torn = [p \in 1 .. NumPages |-> IF p <= n THEN new[p] ELSE old[p]]
  BY <1>3 DEF Torn
<1>5. new \in PageSeq /\ old \in PageSeq
  BY <1>1, <1>3 DEF TypeDevice
<1>6. torn \in PageSeq
  BY <1>4, <1>5 DEF PageSeq
<1>7. \A p \in 1 .. NumPages : torn[p] = new[p] \/ torn[p] = old[p]
  BY <1>4
<1> QED BY <1>1, <1>2, <1>3, <1>6, <1>7

LEMMA OlderIsKnown ==
  ASSUME Inv, NEW s \in Sectors, NEW page \in PageType, PageOlder(page)
  PROVE  PageKnown(s, page)
<1>1. page.boot \in Nat /\ host.boot \in Nat
  BY Typed DEF PageType
<1> QED BY <1>1 DEF PageOlder, PageKnown

(* The sector of the request the driver saw last.                           *)
LEMMA LastIssuedIsSector ==
  ASSUME Inv, pc \in {"flush1", "writing", "flush2", "loop_flush"}
  PROVE  LastIssued \in Sectors /\ LastIssued \in Nat
<1>1. CASE pc = "loop_flush"
  <2>1. g.loop = host.loop + 1 /\ idx = Size + 1 /\ host.loop \in Nat
    BY <1>1, Typed DEF Inv, Shape, HostAndPhase
  <2>2. g.loop - 1 = host.loop /\ idx - 1 = Size /\ Size \in 1 .. Size
    BY <2>1, PatternFacts
  <2> QED BY <1>1, <2>1, <2>2, PatternFacts DEF LastIssued
<1>2. CASE pc # "loop_flush"
  <2>1. idx <= Size
    BY <1>2 DEF Inv, Shape, RequestAtHand
  <2> QED BY <1>2, <2>1, Current, PatternFacts DEF LastIssued, Writing, PhasePlaces
<1> QED BY <1>1, <1>2

(* Each sector of the medium after a power cut.                             *)
LEMMA CutPages ==
  ASSUME Inv, PowerCut, NEW s \in Sectors
  PROVE  /\ disk' \in [Sectors -> PageSeq]
         /\ \A p \in 1 .. NumPages : PageKnown(s, disk'[s][p])
         /\ \/ Position(host.loop, s) >= First
            \/ disk'[s] = disk[s]
<1>1. /\ TypeDevice /\ pc \in {"flush1", "writing", "flush2", "loop_flush"}
      /\ pc \in PhasePlaces
  BY Typed DEF PowerCut, Writing, PhasePlaces
<1>2. PICK kept \in Survivors, gone \in Losses, dead \in {"old", "garbage"} :
        \E torn \in [kept -> UNION {Torn(t) : t \in kept}] :
          /\ \A t \in kept : torn[t] \in Torn(t)
          /\ disk' = [t \in Sectors |->
                        IF t \in kept THEN torn[t]
                        ELSE IF t \notin gone THEN disk[t]
                        ELSE IF dead = "old" THEN before[t] ELSE Request(Garbage)]
  BY DEF PowerCut
<1>3. PICK torn \in [kept -> UNION {Torn(t) : t \in kept}] :
        /\ \A t \in kept : torn[t] \in Torn(t)
        /\ disk' = [t \in Sectors |->
                      IF t \in kept THEN torn[t]
                      ELSE IF t \notin gone THEN disk[t]
                      ELSE IF dead = "old" THEN before[t] ELSE Request(Garbage)]
  BY <1>2
<1>4. kept \subseteq Cached \cup InFlight /\ gone \subseteq durable
  BY DEF Survivors, Losses
<1>5. PICK garbage : garbage = Request(Garbage)
  OBVIOUS
<1>6. garbage \in PageSeq /\ \A p \in 1 .. NumPages : garbage[p].boot = 0
  BY <1>5 DEF Request, Garbage, PageSeq, PageType
<1>7. before \in [Sectors -> PageSeq]
  BY DEF Inv, Pages, BeforeKnown
<1>8. ASSUME NEW t \in Sectors
      PROVE  /\ disk'[t] \in PageSeq
             /\ \A p \in 1 .. NumPages : PageKnown(t, disk'[t][p])
             /\ \/ Position(host.loop, t) >= First
                \/ disk'[t] = disk[t]
  <2>1. CASE t \in kept
    <3>1. disk'[t] = torn[t] /\ torn[t] \in Torn(t)
      BY <1>3, <2>1
    <3>2. t \in Cached \cup InFlight
      BY <1>4, <2>1
    <3> QED BY <1>1, <3>1, <3>2, PageIsOfPhase, TornPages
  <2>2. CASE t \notin kept /\ t \notin gone
    <3>1. disk'[t] = disk[t]
      BY <1>3, <2>2
    <3> QED BY <1>1, <3>1 DEF TypeDevice, Inv, Pages, DiskKnown
  <2>3. CASE t \notin kept /\ t \in gone /\ dead = "old"
    <3>1. disk'[t] = before[t]
      BY <1>3, <2>3
    <3>2. before[t] \in PageSeq /\ \A p \in 1 .. NumPages : PageOlder(before[t][p])
      BY <1>7 DEF Inv, Pages, BeforeKnown
    <3>3. \A p \in 1 .. NumPages : before[t][p] \in PageType
      BY <3>2 DEF PageSeq
    <3>4. \A p \in 1 .. NumPages : PageKnown(t, before[t][p])
      BY <3>2, <3>3, OlderIsKnown
    <3> QED BY <1>4, <2>3, <3>1, <3>2, <3>4 DEF Inv, Pages, DurableKnown
  <2>4. CASE t \notin kept /\ t \in gone /\ dead # "old"
    <3>1. disk'[t] = garbage
      BY <1>3, <1>5, <2>4
    <3>2. \A p \in 1 .. NumPages : garbage[p] \in PageType /\ PageOlder(garbage[p])
      BY <1>6 DEF PageSeq, PageOlder
    <3>3. \A p \in 1 .. NumPages : PageKnown(t, garbage[p])
      BY <3>2, OlderIsKnown
    <3> QED BY <1>4, <1>6, <2>4, <3>1, <3>3 DEF Inv, Pages, DurableKnown
  <2> QED BY <2>1, <2>2, <2>3, <2>4
<1>9. disk' \in [Sectors -> PageSeq]
  BY <1>3, <1>8
<1> QED BY <1>8, <1>9

LEMMA InvPowerCut == Inv /\ PowerCut => Inv'
<1> SUFFICES ASSUME Inv, PowerCut PROVE Inv'
  OBVIOUS
<1> USE DEF Writing, PhasePlaces
<1>1. /\ TypeOK /\ TypeProgram /\ TypeDevice /\ e \in Engine /\ g \in State
      /\ pc \in {"flush1", "writing", "flush2", "loop_flush"}
      /\ host.loop \in Nat /\ host.boot \in Nat
  BY Typed DEF PowerCut
<1>2. /\ UNCHANGED <<storage, host, sdcrash, e, idx, count, before, durable>>
      /\ cache' = [s \in Sectors |-> <<>>] /\ armed' = FALSE /\ pc' = "repeat"
      /\ lost' \subseteq durable
  BY DEF PowerCut, Losses
<1>3. /\ host.boot = g.boot /\ host.boot # 0 /\ First \in 1 .. Size
  BY <1>1, Current
<1>4. PICK position \in Nat : position = LastIssued
  BY <1>1, LastIssuedIsSector
<1>5. g' \in State /\ g'.boot = g.boot
  <2>1. PICK flushed \in Nat : flushed = IF CacheOn THEN g.flushPos ELSE 0
    BY Typed
  <2>2. g' = [g EXCEPT !.poffPos = position, !.require = FALSE, !.flushPos = flushed]
    BY <1>4, <2>1 DEF PowerCut
  <2> QED BY <1>1, <2>2 DEF State
<1>6. TypeOK'
  <2>1. TypeProgram'
    BY <1>1, <1>2, <1>5 DEF TypeProgram, Places
  <2>2. TypeDevice'
    <3>1. disk' \in [Sectors -> PageSeq]
      BY <1>1, PositionFacts, CutPages
    <3> QED BY <1>1, <1>2, <3>1 DEF TypeDevice
  <2> QED BY <2>1, <2>2, TypePartsNext
<1>7. Shape'
  BY <1>1, <1>2, <1>3, <1>5, <1>6
  DEF Inv, Shape, HostAndPhase, FirstBoot, RequestAtHand, CrashEnds
<1>8. First' = First /\ Cached' = {}
  BY <1>2 DEF First, Cached
<1>9. Pages'
  <2>1. DiskKnown'
    BY <1>2, <1>8, CutPages DEF DiskKnown, PageKnown
  <2>2. CacheKnown'
    BY <1>2, <1>8 DEF CacheKnown
  <2>3. BeforeKnown' /\ DurableKnown'
    BY <1>2, <1>8 DEF Inv, Pages, BeforeKnown, DurableKnown, PageOlder
  <2> QED BY <2>1, <2>2, <2>3 DEF Pages
<1>10. Loop'
  <2>1. LoopThere(host.loop, First)
    BY <1>3 DEF Inv, Loop, PhaseBegan
  <2>2. \A i \in 1 .. First - 1 : disk'[Pattern(host.loop)[i]] = disk[Pattern(host.loop)[i]]
    <3> TAKE i \in 1 .. First - 1
    <3>1. i \in 1 .. Size /\ ~(i >= First)
      BY <1>3, PatternFacts
    <3>2. Position(host.loop, Pattern(host.loop)[i]) = i /\ Pattern(host.loop)[i] \in Sectors
      BY <1>1, <3>1, PositionFacts, PatternFacts
    <3> QED BY <3>1, <3>2, CutPages
  <2>3. LoopThere(host.loop, First)'
    BY <1>2, <1>8, <2>1, <2>2 DEF LoopThere, OnDisk
  <2>4. PhaseBegan'
    BY <1>2, <1>8, <2>3 DEF PhaseBegan
  <2> QED BY <1>2, <2>4 DEF Loop, PhaseWritten, Verification, Resumes
<1> QED BY <1>7, <1>9, <1>10 DEF Inv

LEMMA InvStutter == Inv /\ UNCHANGED vars => Inv'
  BY DEF vars, Inv, Shape, Pages, Loop, TypeOK, HostAndPhase, FirstBoot, RequestAtHand,
         CrashEnds, DiskKnown, CacheKnown, BeforeKnown, DurableKnown, PageKnown, PageOlder,
         PhaseBegan, PhaseWritten, WrittenTo, Verification, Walked, Resumes, LoopThere,
         OnDisk, InLoop, Content, First, Cached

LEMMA InvNext == Inv /\ [Next]_vars => Inv'
  BY InvRepeat, InvBeginVerification, InvVerifyRequest, InvVerifyNextLoop,
     InvEndVerification, InvBeginWriting, InvWrite, InvWriteDone, InvFirstFlushDone,
     InvSecondFlushDone, InvLoopWritten, InvLoopFlushDone, InvPowerCut, InvStutter
  DEF Next, Program, Stopped

LEMMA InvHolds == Spec => []Inv
<1>1. Spec => [](Inv)
  BY InvInit, InvNext, PTL DEF Spec
<1> QED BY <1>1, PTL

-------------------------------------------------------------------------------
(* Every variable keeps its type; the request count starts again with every *)
(* loop and never exceeds the pattern.                                      *)
THEOREM TypeCorrect == Spec => []TypeOK
<1>1. Inv => TypeOK
  BY DEF Inv, Shape
<1> QED BY <1>1, InvHolds, PTL

(* A write phase that resumes in the middle of a loop skips no request of   *)
(* it, after any number of power cuts and whatever the storage lost.        *)
THEOREM NothingSkipped == Spec => []NoRequestSkipped
<1>1. Inv => NoRequestSkipped
  BY Current DEF Inv, Loop, PhaseWritten, WrittenTo, NoRequestSkipped, Writing, PhasePlaces
<1> QED BY <1>1, InvHolds, PTL

(* The start the host hands back is that of the last phase that wrote.      *)
THEOREM PhaseKnown == Spec => []HostKnowsThePhase
<1>1. Inv => HostKnowsThePhase
  <2> SUFFICES ASSUME Inv, NEW s \in Sectors, NEW p \in 1 .. NumPages
               PROVE  PageKnown(s, Content(s)[p])
    BY DEF HostKnowsThePhase, PageKnown, First
  <2>1. CASE cache[s] # <<>>
    BY <2>1 DEF Inv, Pages, CacheKnown, Cached, Content
  <2>2. CASE cache[s] = <<>>
    BY <2>2 DEF Inv, Pages, DiskKnown, Content
  <2> QED BY <2>1, <2>2
<1> QED BY <1>1, InvHolds, PTL

(* Once a crash is on record nothing is written: the program has stopped.   *)
THEOREM EvidenceKept == Spec => EvidenceIsKept
<1>1. Inv /\ [Next]_vars => (sdcrash => UNCHANGED <<disk, cache>>)
  <2> SUFFICES ASSUME Inv, [Next]_vars, sdcrash PROVE UNCHANGED <<disk, cache>>
    OBVIOUS
  <2>1. pc = "out"
    BY DEF Inv, Shape, CrashEnds
  <2> QED
    BY <2>1 DEF Next, Program, Stopped, Repeat, BeginVerification, VerifyRequest,
                VerifyNextLoop, EndVerification, BeginWriting, Write, WriteDone,
                FirstFlushDone, SecondFlushDone, LoopWritten, LoopFlushDone, PowerCut, vars
<1> QED BY <1>1, InvHolds, PTL DEF Spec, EvidenceIsKept

-------------------------------------------------------------------------------
(***************************************************************************)
(* What a verification finds after a power cut, for every pair of          *)
(* patterns, with and without a cache, for every window, flush cycle,      *)
(* minor number and kind of storage: a good storage is never called        *)
(* broken, and a loss is found.                                            *)
(*                                                                         *)
(* The invariant Known relates the medium to the write phase before it.    *)
(* Its first half is about the storage, while a phase writes and after it  *)
(* was cut; its second half is about the verification, which reads the     *)
(* medium back and finds the first request of that phase that is missing.  *)
(***************************************************************************)

\* Position i of the last phase, what it is written with, and whether that is there.
Sector(i) == Pattern(host.loop)[i]

Due(i) == Header(host.loop, host.boot, i - First + 1)

Fresh(i) == \A p \in 1 .. NumPages : disk[Sector(i)][p] = Due(i)

Sent(i) == \A p \in 1 .. NumPages : Content(Sector(i))[p] = Due(i)

FreshTo(n) == \A i \in First .. n : Fresh(i)

OfLoop(i) == \E p \in 1 .. NumPages : disk[Sector(i)][p].loop = host.loop

\* What verify_unconfirmed_status would take for evidence, in the phase's loop.
Shows(i) ==
  \E p \in 1 .. NumPages :
    LET page == disk[Sector(i)][p]
    IN  /\ page.loop = host.loop
        /\ CacheOn => \/ page.magic = "FLUSH"
                      \/ page.magic # "NONE" /\ Sector(i) = g.flushPos

InPhase == pc \in PhasePlaces

(***************************************************************************)
(* No page is of a loop to come; a page of the last phase is the one that  *)
(* phase wrote there; and nothing is garbled but by a storage that loses.  *)
(***************************************************************************)
PageOfPhase(s, page) ==
  /\ page.loop <= host.loop
  /\ host.boot # 0 /\ page.boot = host.boot =>
       page = Header(host.loop, host.boot, Position(host.loop, s) - First + 1)

DiskOfPhase ==
  /\ host.boot = 0 => host.loop = 0
  /\ \A s \in Sectors, p \in 1 .. NumPages :
       /\ PageOfPhase(s, disk[s][p])
       /\ before[s][p].loop <= host.loop
       /\ storage # "lossy" => disk[s][p].magic # "BAD"

CacheOfPhase ==
  \A s \in Cached : /\ \A p \in 1 .. NumPages : PageOfPhase(s, cache[s][p])
                    /\ \/ Position(host.loop, s) < idx
                       \/ pc = "flush2" /\ Position(host.loop, s) = idx

(* What the phase has written is there or in the cache.                     *)
AllSent ==
  InPhase => /\ \A i \in First .. idx - 1 : Sent(i)
             /\ pc = "flush2" => Sent(idx)

(***************************************************************************)
(* Evidence: on a storage that keeps what it acknowledged, a page that     *)
(* verification takes for proof proves what was written before it.         *)
(***************************************************************************)
EvidenceProves ==
  storage # "lossy" /\ host.boot # 0 =>
    \A j \in 1 .. Size : Shows(j) => FreshTo(j - 1)

\* With a cache: position d is the last commit, and all up to it is there.
CommittedTo(d) ==
  /\ \A i \in First .. d : Fresh(i) /\ Sector(i) \notin Cached
  /\ \A i \in d + 1 .. idx - 1 : ~DO_CACHE_FLUSH(i - First + 1)
  /\ g.firstCommit => d >= First /\ g.flushPos = Sector(d)

\* A commit's pages are sent when everything before it is there.
Committing == (pc = "writing" /\ IsCommit) \/ pc = "flush2"

CommitPlaces ==
  /\ pc \in {"flush1", "flush2"} => IsCommit
  /\ pc = "loop_flush" => CacheOn

Commits ==
  CacheOn /\ InPhase =>
    /\ Committing => \A i \in First .. idx - 1 : Fresh(i) /\ Sector(i) \notin Cached
    /\ ~Committing => \E d \in First - 1 .. idx - 1 : CommittedTo(d)

\* With a cache the driver is not told before the first commit of a phase.
Armed ==
  CacheOn => /\ armed \/ g.require => g.firstCommit
             /\ pc \notin PhasePlaces \cup {"repeat"} => ~g.firstCommit

(***************************************************************************)
(* Without a cache: how far the phase is; and where it was cut.            *)
(***************************************************************************)
Ahead ==
  ~CacheOn /\ pc \in Writing =>
    /\ lost = {} /\ durable = {Sector(i) : i \in First .. idx - 1}
    /\ \A i \in idx .. Size : disk[Sector(i)] = before[Sector(i)]
    /\ storage # "lossy" =>
         /\ \A i \in idx + 1 .. Size : ~OfLoop(i)
         /\ idx <= Size => disk[Sector(idx)][NumPages].loop # host.loop

CutAt(c) ==
  /\ g.poffPos = IF c <= Size THEN Sector(c) ELSE FirstLsn(host.loop + 1)
  /\ \A i \in First .. c - 1 : Fresh(i) <=> Sector(i) \notin lost
  /\ lost \subseteq {Sector(i) : i \in First .. c - 1}
  /\ c > Size => lost = {}
  /\ storage # "lossy" =>
       /\ lost = {}
       /\ \A i \in c + 1 .. Size : ~OfLoop(i)
       /\ c <= Size /\ ~Fresh(c) =>
            /\ disk[Sector(c)][NumPages].loop # host.loop
            /\ storage = "atomic" => \A p \in 1 .. NumPages : disk[Sector(c)][p] # Due(c)

\* The distance from the cut that the engine has counted.
Counted(c) ==
  pc = "verify" /\ e.status = "NORMAL" /\ c <= Size =>
    IF e.loop = host.loop
    THEN e.afterPO = IF idx <= c THEN PREVIOUS_LAST_PO ELSE idx - 1 - c
    ELSE e.afterPO = Size - c

CutKnown ==
  ~CacheOn /\ ~InPhase /\ host.boot # 0 =>
    \E c \in First .. Size + 1 : CutAt(c) /\ Counted(c)

(***************************************************************************)
(* The verification: where it is, what it found, and that it holds nothing *)
(* against a good storage.                                                 *)
(***************************************************************************)
Found(loop, lsn) ==
  \/ /\ loop = host.loop /\ lsn \in Sectors
     /\ First <= Position(loop, lsn) /\ ~Fresh(Position(loop, lsn))
     /\ FreshTo(Position(loop, lsn) - 1)
  \/ loop = host.loop + 1 /\ FreshTo(Size)

\* The window behind what was found has been read, as far as the walk is.
Suspect_Position == Position(host.loop, e.info.lsn)

WindowRead ==
  e.info.loop = host.loop =>
    /\ e.loop = host.loop => /\ Suspect_Position < idx
                             /\ e.cnt = idx - 1 - Suspect_Position
    /\ CacheOn => \A k \in Suspect_Position + 1 .. Size :
                    (e.loop = host.loop => k < idx) => ~Shows(k)

WalkKnown ==
  pc \in {"verify", "ended"} =>
    /\ e.loop >= host.loop
    /\ e.loop = host.loop => First <= idx /\ count = idx - First + 1
    /\ e.status = "NORMAL" => FreshTo(IF e.loop = host.loop THEN idx - 1 ELSE Size)
    /\ e.status # "NORMAL" /\ e.result = VERI_NOERR =>
         /\ Found(e.info.loop, e.info.lsn) /\ e.info.loop <= e.loop /\ WindowRead
         /\ ~CacheOn /\ g.poffPos # 0 => lost = {}
    /\ Good => e.result = VERI_NOERR
    /\ pc = "ended" => e.cnt >= RequestWindow

ResumeKnown ==
  pc = "begin_write" =>
    /\ host.boot # 0 =>
         /\ Found(g.loop, g.wLsn)
         /\ ~CacheOn /\ g.poffPos # 0 => lost = {}
         /\ CacheOn /\ g.loop = host.loop =>
              \A k \in Position(g.loop, g.wLsn) + 1 .. Size :
                k <= Position(g.loop, g.wLsn) + RequestWindow => ~Shows(k)

OfStorage == DiskOfPhase /\ CacheOfPhase /\ AllSent /\ EvidenceProves /\ CommitPlaces
             /\ Commits /\ Armed /\ Ahead

OfVerdict == WalkKnown /\ ResumeKnown /\ NoFalseCrash

Known == Inv /\ OfStorage /\ CutKnown /\ OfVerdict

-------------------------------------------------------------------------------
(* The positions of the last phase's loop and the requests of the test area *)
(* are the same thing.                                                      *)
LEMMA PhaseFacts ==
  ASSUME Inv, host.boot # 0
  PROVE  /\ host.loop \in Nat /\ host.boot \in Nat /\ host.lsn \in Sectors
         /\ First \in 1 .. Size /\ First \in Nat \ {0} /\ Size \in Nat \ {0}
         /\ \A i \in 1 .. Size : Sector(i) \in Sectors /\ Position(host.loop, Sector(i)) = i
         /\ \A s \in Sectors : /\ Position(host.loop, s) \in 1 .. Size
                               /\ Sector(Position(host.loop, s)) = s
         /\ \A i, j \in 1 .. Size : Sector(i) = Sector(j) => i = j
<1>1. host.loop \in Nat /\ host.boot \in Nat
  BY Typed
<1>2. host.lsn \in Sectors
  BY DEF Inv, Shape, FirstBoot
<1>3. First \in 1 .. Size
  BY <1>1, <1>2, PositionFacts DEF First
<1>4. First \in Nat \ {0} /\ Size \in Nat \ {0}
  BY <1>3, IndexFacts, PatternFacts
<1>5. \A i \in 1 .. Size : Sector(i) \in Sectors /\ Position(host.loop, Sector(i)) = i
  BY <1>1, PatternFacts, PositionFacts DEF Sector
<1>6. \A s \in Sectors : /\ Position(host.loop, s) \in 1 .. Size
                         /\ Sector(Position(host.loop, s)) = s
  BY <1>1, PositionFacts DEF Sector
<1>7. \A i, j \in 1 .. Size : Sector(i) = Sector(j) => i = j
  BY <1>5
<1> QED BY <1>1, <1>2, <1>3, <1>4, <1>5, <1>6, <1>7

LEMMA HostStays ==
  ASSUME UNCHANGED host
  PROVE  First' = First /\ \A i : Sector(i)' = Sector(i) /\ Due(i)' = Due(i)
<1>1. First' = First
  BY DEF First
<1>2. \A i : Sector(i)' = Sector(i)
  BY DEF Sector
<1>3. \A i : Due(i)' = Due(i)
  BY <1>1 DEF Due
<1> QED BY <1>1, <1>2, <1>3

LEMMA LastPage == NumPages \in 1 .. NumPages /\ 1 \in 1 .. NumPages
  BY CaseAssumption

LEMMA DueFacts ==
  ASSUME NEW i
  PROVE  /\ Due(i).loop = host.loop /\ Due(i).boot = host.boot
         /\ Due(i).magic = IF CacheOn /\ DO_CACHE_FLUSH(i - First + 1) THEN "FLUSH" ELSE "PAGE"
  BY DEF Due, Header

(* A request that is there is of the loop, and there is no more to show.    *)
LEMMA FreshIsOfLoop ==
  ASSUME NEW i, Fresh(i)
  PROVE  OfLoop(i) /\ disk[Sector(i)][NumPages].loop = host.loop
<1>1. disk[Sector(i)][NumPages] = Due(i)
  BY LastPage DEF Fresh
<1> QED BY <1>1, LastPage, DueFacts DEF OfLoop

LEMMA ShowsIsOfLoop ==
  ASSUME NEW i PROVE (Shows(i) => OfLoop(i)) /\ (~CacheOn => (Shows(i) <=> OfLoop(i)))
  BY DEF Shows, OfLoop

(* A page of the phase's boot is the one that is due there.                 *)
LEMMA PageIsDue ==
  ASSUME Inv, host.boot # 0, NEW i \in 1 .. Size, NEW page, PageOfPhase(Sector(i), page),
         page.boot = host.boot
  PROVE  page = Due(i)
<1>1. Position(host.loop, Sector(i)) = i
  BY PhaseFacts
<1> QED BY <1>1 DEF PageOfPhase, Due

LEMMA FreshByBoot ==
  ASSUME Inv, DiskOfPhase, host.boot # 0, NEW i \in 1 .. Size
  PROVE  Fresh(i) <=> \A p \in 1 .. NumPages : disk[Sector(i)][p].boot = host.boot
<1>1. Fresh(i) => \A p \in 1 .. NumPages : disk[Sector(i)][p].boot = host.boot
  BY DueFacts DEF Fresh
<1>2. ASSUME NEW p \in 1 .. NumPages, disk[Sector(i)][p].boot = host.boot
      PROVE  disk[Sector(i)][p] = Due(i)
  <2>1. Sector(i) \in Sectors
    BY PhaseFacts
  <2>2. PageOfPhase(Sector(i), disk[Sector(i)][p])
    BY <2>1 DEF DiskOfPhase
  <2> QED BY <1>2, <2>2, PageIsDue
<1> QED BY <1>1, <1>2 DEF Fresh

-------------------------------------------------------------------------------
(* While the program does not write, nothing that is known of the medium    *)
(* changes.                                                                 *)
LEMMA MediumStays ==
  ASSUME UNCHANGED <<storage, host, disk, cache, before, durable, lost>>,
         g'.flushPos = g.flushPos, g'.poffPos = g.poffPos
  PROVE  /\ First' = First
         /\ \A i : /\ Sector(i)' = Sector(i) /\ Due(i)' = Due(i)
                   /\ Fresh(i)' <=> Fresh(i)
                   /\ FreshTo(i)' <=> FreshTo(i)
                   /\ Shows(i)' <=> Shows(i)
         /\ \A c : CutAt(c)' <=> CutAt(c)
         /\ \A loop, lsn : Found(loop, lsn)' <=> Found(loop, lsn)
<1>1. First' = First /\ \A i : Sector(i)' = Sector(i) /\ Due(i)' = Due(i)
  BY HostStays
<1>2. /\ host' = host /\ disk' = disk /\ lost' = lost /\ storage' = storage
      /\ g'.flushPos = g.flushPos /\ g'.poffPos = g.poffPos
  OBVIOUS
<1>3. \A i : Fresh(i)' <=> Fresh(i)
  BY <1>1, <1>2 DEF Fresh
<1>4. \A i : OfLoop(i)' <=> OfLoop(i)
  BY <1>1, <1>2 DEF OfLoop
<1>5. \A i : Shows(i)' <=> Shows(i)
  BY <1>1, <1>2 DEF Shows
<1>6. \A i : FreshTo(i)' <=> FreshTo(i)
  BY <1>1, <1>3 DEF FreshTo
<1>7. \A c : CutAt(c)' <=> CutAt(c)
  <2> TAKE c
  <2>1. {Sector(i) : i \in First .. c - 1}' = {Sector(i) : i \in First .. c - 1}
    BY <1>1
  <2> QED BY <1>1, <1>2, <1>3, <1>4, <2>1 DEF CutAt
<1>8. \A loop, lsn : Found(loop, lsn)' <=> Found(loop, lsn)
  BY <1>1, <1>2, <1>3, <1>6 DEF Found
<1> QED BY <1>1, <1>3, <1>5, <1>6, <1>7, <1>8

LEMMA StorageStays ==
  ASSUME Inv, OfStorage, pc \notin PhasePlaces, pc' \notin PhasePlaces,
         UNCHANGED <<storage, host, disk, cache, before, durable, lost>>,
         g'.flushPos = g.flushPos, g'.poffPos = g.poffPos
  PROVE  /\ DiskOfPhase' /\ CacheOfPhase' /\ AllSent' /\ EvidenceProves'
         /\ CommitPlaces' /\ Commits' /\ Ahead'
<1> USE DEF Writing, PhasePlaces
<1>1. /\ First' = First
      /\ \A i : (FreshTo(i)' <=> FreshTo(i)) /\ (Shows(i)' <=> Shows(i))
  BY MediumStays
<1>2. /\ host' = host /\ disk' = disk /\ before' = before /\ storage' = storage
      /\ cache' = cache
  OBVIOUS
<1>3. DiskOfPhase'
  BY <1>1, <1>2 DEF OfStorage, DiskOfPhase, PageOfPhase
<1>4. CacheOfPhase'
  BY <1>2 DEF Inv, Pages, CacheKnown, CacheOfPhase, Cached
<1>5. EvidenceProves'
  BY <1>1, <1>2 DEF OfStorage, EvidenceProves
<1> QED BY <1>3, <1>4, <1>5 DEF AllSent, CommitPlaces, Commits, Ahead, InPhase

LEMMA CutStays ==
  ASSUME CutKnown, pc \notin PhasePlaces, pc' # "verify",
         UNCHANGED <<storage, host, disk, cache, before, durable, lost>>,
         g'.flushPos = g.flushPos, g'.poffPos = g.poffPos
  PROVE  CutKnown'
<1> SUFFICES ASSUME ~CacheOn, host.boot # 0 PROVE CutKnown'
  BY DEF CutKnown
<1>1. PICK c \in First .. Size + 1 : CutAt(c)
  BY DEF CutKnown, InPhase
<1>2. CutAt(c)' /\ First' = First
  BY <1>1, MediumStays
<1>3. Counted(c)'
  BY DEF Counted
<1> QED BY <1>1, <1>2, <1>3 DEF CutKnown

(* Where plr_main goes from repeat.                                         *)
LEMMA RepeatGoes ==
  ASSUME Known, Repeat, UNCHANGED storage
  PROVE  /\ pc' \in {"finished", "out", "begin_write", "begin_verify"}
         /\ pc' = "begin_write" => host.boot = 0
<1>1. /\ g.boot \in Nat /\ FinishValue[storage] \in Nat /\ sdcrash \in BOOLEAN
      /\ host.boot = g.boot
  BY Typed, DeviceAssumption DEF TypeProgram, Known, Inv, Shape, HostAndPhase, Repeat
<1>2. pc' \in {"finished", "out", "begin_write", "begin_verify"}
  BY <1>1 DEF Repeat
<1>3. pc' = "begin_write" => g.boot + 1 = 1
  BY <1>1 DEF Repeat
<1> QED BY <1>1, <1>2, <1>3

LEMMA KnownRepeat == Known /\ Repeat /\ UNCHANGED storage => Known'
<1> SUFFICES ASSUME Known, Repeat, UNCHANGED storage PROVE Known'
  OBVIOUS
<1>1. Inv /\ Inv'
  BY InvRepeat DEF Known
<1>2. /\ g \in State /\ g.boot \in Nat /\ FinishValue[storage] \in Nat /\ sdcrash \in BOOLEAN
      /\ host.boot \in Nat
  BY <1>1, Typed, DeviceAssumption DEF TypeProgram
<1>3. /\ pc = "repeat" /\ pc' \in {"finished", "out", "begin_write", "begin_verify"}
      /\ UNCHANGED <<storage, host, disk, cache, before, durable, lost>> /\ sdcrash' = sdcrash
      /\ armed' = FALSE
  <2>1. pc' \in {"finished", "out", "begin_write", "begin_verify"}
    BY RepeatGoes
  <2> QED BY <2>1 DEF Repeat
<1>4. /\ g'.flushPos = g.flushPos /\ g'.poffPos = g.poffPos
      /\ CacheOn => g'.firstCommit = FALSE /\ g'.require = FALSE
  BY <1>2 DEF Repeat, State
<1>5. pc \notin PhasePlaces /\ pc' \notin PhasePlaces /\ pc' \notin {"verify", "ended"}
  BY <1>3 DEF PhasePlaces, Writing
<1>6. pc' = "begin_write" => host'.boot = 0
  BY <1>3, RepeatGoes
<1>7. OfStorage'
  <2>1. Armed'
    BY <1>3, <1>4 DEF Armed
  <2> QED BY <1>1, <1>3, <1>4, <1>5, <2>1, StorageStays DEF Known, OfStorage
<1>8. CutKnown'
  BY <1>3, <1>4, <1>5, CutStays DEF Known
<1>9. OfVerdict'
  BY <1>3, <1>5, <1>6 DEF Known, OfVerdict, WalkKnown, ResumeKnown, NoFalseCrash, Good
<1> QED BY <1>1, <1>7, <1>8, <1>9 DEF Known

LEMMA KnownBeginVerification == Known /\ BeginVerification /\ UNCHANGED storage => Known'
<1> SUFFICES ASSUME Known, BeginVerification, UNCHANGED storage PROVE Known'
  OBVIOUS
<1>1. Inv /\ Inv' /\ g \in State /\ host.boot \in Nat /\ host.loop \in Nat
  BY InvBeginVerification, Typed DEF Known
<1>2. /\ pc = "begin_verify" /\ pc' = "verify" /\ count' = 1 /\ idx' = First
      /\ UNCHANGED <<storage, host, disk, cache, before, durable, lost>>
      /\ sdcrash' = sdcrash /\ armed' = armed
      /\ g' = [g EXCEPT !.wLsn = host.lsn, !.wLoop = host.loop, !.wBoot = host.boot]
      /\ e' = verify_reset(host.loop, host.boot)
  BY DEF BeginVerification, VerifyFrom, First, device
<1>3. /\ g'.flushPos = g.flushPos /\ g'.poffPos = g.poffPos
      /\ g'.firstCommit = g.firstCommit /\ g'.require = g.require
  BY <1>1, <1>2 DEF State
<1>4. pc \notin PhasePlaces /\ pc' \notin PhasePlaces
  BY <1>2 DEF PhasePlaces, Writing
<1>5. host.boot # 0
  BY <1>1, <1>2 DEF Inv, Shape, FirstBoot
<1>6. /\ First' = First /\ First \in Nat
      /\ \A c : CutAt(c)' <=> CutAt(c)
  BY <1>1, <1>2, <1>3, <1>5, MediumStays, PhaseFacts
<1>7. /\ e'.status = "NORMAL" /\ e'.result = VERI_NOERR /\ e'.loop = host.loop
      /\ e'.afterPO = PREVIOUS_LAST_PO
  BY <1>2 DEF verify_reset
<1>8. OfStorage'
  <2>1. Armed'
    BY <1>2, <1>3, <1>4 DEF Known, OfStorage, Armed
  <2> QED BY <1>1, <1>2, <1>3, <1>4, <2>1, StorageStays DEF Known, OfStorage
<1>9. CutKnown'
  <2> SUFFICES ASSUME ~CacheOn PROVE CutKnown'
    BY DEF CutKnown
  <2>1. PICK c \in First .. Size + 1 : CutAt(c)
    BY <1>4, <1>5 DEF Known, CutKnown, InPhase
  <2>2. CutAt(c)' /\ c \in (First .. Size + 1)'
    BY <1>6, <2>1
  <2>3. Counted(c)'
    <3>1. First <= c
      BY <2>1
    <3> QED BY <1>2, <1>7, <3>1 DEF Counted
  <2> QED BY <2>2, <2>3 DEF CutKnown
<1>10. OfVerdict'
  <2>1. First' <= idx' /\ count' = idx' - First' + 1
    BY <1>2, <1>6
  <2>2. FreshTo(First - 1)
    BY <1>6 DEF FreshTo
  <2>3. PICK n : n = First - 1
    OBVIOUS
  <2>4. FreshTo(n)' /\ n = idx' - 1
    BY <1>2, <1>3, <2>2, <2>3, MediumStays
  <2>5. WalkKnown'
    BY <1>1, <1>2, <1>7, <2>1, <2>4 DEF WalkKnown
  <2> QED BY <1>2, <2>5 DEF Known, OfVerdict, ResumeKnown, NoFalseCrash, Good
<1> QED BY <1>1, <1>8, <1>9, <1>10 DEF Known

LEMMA KnownVerifyNextLoop == Known /\ VerifyNextLoop /\ UNCHANGED storage => Known'
<1> SUFFICES ASSUME Known, VerifyNextLoop, UNCHANGED storage PROVE Known'
  OBVIOUS
<1>1. /\ Inv /\ Inv' /\ g \in State /\ e \in Engine /\ g.wLoop \in Nat /\ host.loop \in Nat
      /\ idx \in 1 .. Size + 1 /\ idx \in Nat /\ Size \in Nat \ {0}
  BY InvVerifyNextLoop, Typed, PatternFacts DEF Known
<1>2. /\ pc = "verify" /\ pc' = pc /\ idx > Len(Pattern(g.wLoop)) /\ idx' = 1 /\ count' = 1
      /\ g' = [g EXCEPT !.wLoop = @ + 1, !.wLsn = FirstLsn(g.wLoop + 1)]
      /\ e' = verify_set_loop_count(e, g.wLoop + 1)
      /\ UNCHANGED <<storage, host, sdcrash, armed, disk, cache, before, durable, lost>>
  BY DEF VerifyNextLoop, device
<1>3. /\ g'.flushPos = g.flushPos /\ g'.poffPos = g.poffPos
      /\ g'.firstCommit = g.firstCommit /\ g'.require = g.require
  BY <1>1, <1>2 DEF State
<1>4. pc \notin PhasePlaces /\ pc' \notin PhasePlaces
  BY <1>2 DEF PhasePlaces, Writing
<1>5. /\ host.boot # 0 /\ Walked /\ e.loop = g.wLoop /\ idx = Size + 1
      /\ e.loop \in Nat /\ e.loop >= host.loop
  <2>1. host.boot # 0 /\ Walked /\ e.loop = g.wLoop
    BY <1>1, <1>2 DEF Inv, Shape, FirstBoot, Loop, Verification
  <2>2. idx > Size
    BY <1>1, <1>2, PatternFacts
  <2> QED BY <1>1, <1>2, <2>1, <2>2 DEF Known, OfVerdict, WalkKnown
<1>6. /\ e'.status = e.status /\ e'.result = e.result /\ e'.info = e.info
      /\ e'.afterPO = e.afterPO /\ e'.cnt = e.cnt
      /\ e'.loop = e.loop + 1 /\ e'.loop # host.loop /\ e'.loop > host.loop
  <2>1. e'.loop = e.loop + 1
    BY <1>1, <1>2, <1>5 DEF verify_set_loop_count, Engine
  <2>2. g.wLoop + 1 \in Nat
    BY <1>1
  <2>3. e'.status = e.status /\ e'.info = e.info
    BY <1>1, <1>2, <2>2, LoopCountChanges
  <2>4. e'.result = e.result /\ e'.afterPO = e.afterPO /\ e'.cnt = e.cnt
    BY <1>1, <1>2, LoopBlames DEF Quiet, Kept
  <2> QED BY <1>1, <1>5, <2>1, <2>3, <2>4
<1>7. /\ First' = First
      /\ \A i : (FreshTo(i)' <=> FreshTo(i)) /\ (Shows(i)' <=> Shows(i))
      /\ \A c : CutAt(c)' <=> CutAt(c)
      /\ \A loop, lsn : Found(loop, lsn)' <=> Found(loop, lsn)
  BY <1>2, <1>3, MediumStays
<1>8. OfStorage'
  <2>1. Armed'
    BY <1>2, <1>3, <1>4 DEF Known, OfStorage, Armed
  <2> QED BY <1>1, <1>2, <1>3, <1>4, <2>1, StorageStays DEF Known, OfStorage
<1>9. CutKnown'
  <2> SUFFICES ASSUME ~CacheOn PROVE CutKnown'
    BY DEF CutKnown
  <2>1. PICK c \in First .. Size + 1 : CutAt(c) /\ Counted(c)
    BY <1>4, <1>5 DEF Known, CutKnown, InPhase
  <2>2. CutAt(c)' /\ c \in (First .. Size + 1)'
    BY <1>7, <2>1
  <2>3. Counted(c)'
    <3> SUFFICES ASSUME e.status = "NORMAL", c <= Size PROVE e'.afterPO = Size - c
      BY <1>2, <1>6 DEF Counted
    <3>1. e.loop = host.loop
      BY <1>1, <1>5 DEF Walked
    <3>2. c \in Nat
      BY <1>1, <1>5, <2>1, PhaseFacts
    <3>3. e.afterPO = IF idx <= c THEN PREVIOUS_LAST_PO ELSE idx - 1 - c
      BY <1>2, <2>1, <3>1 DEF Counted
    <3> QED BY <1>1, <1>5, <1>6, <3>2, <3>3
  <2> QED BY <2>2, <2>3 DEF CutKnown
<1>10. WalkKnown'
  <2>1. e.status = "NORMAL" => FreshTo(Size)
    <3>1. idx - 1 = Size
      BY <1>1, <1>5
    <3> QED BY <1>2, <3>1 DEF Known, OfVerdict, WalkKnown
  <2>2. ASSUME e.status # "NORMAL", e.result = VERI_NOERR
        PROVE  /\ Found(e.info.loop, e.info.lsn) /\ e.info.loop <= e.loop
               /\ WindowRead /\ (~CacheOn /\ g.poffPos # 0 => lost = {})
    BY <1>2, <2>2 DEF Known, OfVerdict, WalkKnown
  <2>3. ASSUME e.status # "NORMAL", e.result = VERI_NOERR
        PROVE  WindowRead'
    <3>1. PICK from : from = Suspect_Position
      OBVIOUS
    <3>2. e.info.loop = host.loop /\ CacheOn => \A k \in from + 1 .. Size : ~Shows(k)
      <4>1. \A k \in from + 1 .. Size : k < idx
        BY <1>1, <1>5
      <4> QED BY <2>2, <2>3, <3>1, <4>1 DEF WindowRead
    <3>3. from = Suspect_Position'
      BY <1>2, <1>6, <3>1 DEF Suspect_Position
    <3> QED BY <1>2, <1>6, <1>7, <3>2, <3>3 DEF WindowRead
  <2>4. PICK loop, lsn : loop = e.info.loop /\ lsn = e.info.lsn
    OBVIOUS
  <2>5. ASSUME e.status # "NORMAL", e.result = VERI_NOERR
        PROVE  Found(loop, lsn)' /\ loop <= e'.loop
    <3>1. loop \in Nat
      BY <1>1, <2>4 DEF Engine
    <3> QED BY <1>5, <1>6, <1>7, <2>2, <2>4, <2>5, <3>1
  <2>6. loop = e'.info.loop /\ lsn = e'.info.lsn
    BY <1>6, <2>4
  <2>7. e.status = "NORMAL" => FreshTo(Size)'
    BY <1>7, <2>1
  <2>8. Good => e.result = VERI_NOERR
    BY <1>2 DEF Known, OfVerdict, WalkKnown
  <2>9. e'.status # "NORMAL" /\ e'.result = VERI_NOERR =>
          /\ Found(e.info.loop, e.info.lsn)' /\ e'.info.loop <= e'.loop /\ WindowRead'
          /\ ~CacheOn /\ g'.poffPos # 0 => lost' = {}
    BY <1>2, <1>3, <1>6, <2>2, <2>3, <2>5, <2>6
  <2>10. e'.loop >= host'.loop /\ e'.loop # host'.loop /\ pc' # "ended"
    BY <1>1, <1>2, <1>5, <1>6
  <2>11. Good' => e'.result = VERI_NOERR
    BY <1>2, <1>6, <2>8 DEF Good
  <2> QED BY <1>6, <2>7, <2>9, <2>10, <2>11 DEF WalkKnown
<1>11. OfVerdict'
  BY <1>2, <1>10 DEF Known, OfVerdict, ResumeKnown, NoFalseCrash, Good
<1> QED BY <1>1, <1>8, <1>9, <1>11 DEF Known

(* What the steps behind the pattern report, when the pattern found nothing *)
(* to blame and the zone they look at is good.                              *)
LEMMA GoodZoneIsNoError ==
  ASSUME NEW en \in Engine, en.result = VERI_NOERR
  PROVE  verify_get_result(verify_check_random_zone(verify_set_current_step(en, "LSN_CRC"),
                                                    "ok")) = 0
<1> DEFINE step == verify_set_current_step(en, "LSN_CRC")
<1>1. step.result = VERI_NOERR
  BY StepBlames
<1> HIDE DEF step
<1>2. verify_get_result(step) = 0
  BY <1>1 DEF verify_get_result, verify_get_error_num, verify_get_crash_num, VERI_NOERR,
              VERI_EIO, VERI_EREQUEST
<1> QED BY <1>2 DEF verify_check_random_zone, step

LEMMA KnownEndVerification == Known /\ EndVerification /\ UNCHANGED storage => Known'
<1> SUFFICES ASSUME Known, EndVerification, UNCHANGED storage PROVE Known'
  OBVIOUS
<1>1. /\ Inv /\ Inv' /\ g \in State /\ e \in Engine /\ host.loop \in Nat
      /\ idx \in Nat /\ Size \in Nat
  BY InvEndVerification, Typed, PatternFacts DEF Known
<1>2. /\ pc = "ended"
      /\ g' = [g EXCEPT !.wLsn = e.info.lsn, !.wLoop = e.info.loop, !.loop = e.info.loop]
      /\ UNCHANGED <<storage, host, idx, count, armed, disk, cache, before, durable, lost>>
  BY DEF EndVerification, verify_apply_result, device
<1>3. PICK zone \in Sectors, answer \in {"ok", "bad"}, crash \in BOOLEAN :
        LET done == verify_check_random_zone(verify_set_current_step(e, "LSN_CRC"), answer)
        IN  /\ answer = "bad" <=> \E p \in 1 .. NumPages : disk[zone][p].magic = "BAD"
            /\ e' = done /\ crash = (verify_get_result(done) # 0)
            /\ sdcrash' = (sdcrash \/ crash) /\ pc' = AfterVerdict(crash)
  BY DEF EndVerification
<1>4. pc' = IF crash THEN "out" ELSE "begin_write"
  BY <1>3 DEF AfterVerdict
<1>5. /\ g'.flushPos = g.flushPos /\ g'.poffPos = g.poffPos
      /\ g'.firstCommit = g.firstCommit /\ g'.require = g.require
      /\ g'.loop = e.info.loop /\ g'.wLsn = e.info.lsn
  BY <1>1, <1>2 DEF State
<1>6. pc \notin PhasePlaces /\ pc' \notin PhasePlaces /\ pc' \notin {"verify", "ended", "repeat"}
  BY <1>2, <1>4 DEF PhasePlaces, Writing
<1>7. e.status # "NORMAL" /\ host.boot # 0
  BY <1>1, <1>2 DEF Inv, Shape, FirstBoot, Loop, Verification
<1>8. ~crash => e.result = VERI_NOERR
  <2> DEFINE step == verify_set_current_step(e, "LSN_CRC")
             done == verify_check_random_zone(step, answer)
  <2>1. step \in Engine /\ step.result = e.result
    BY <1>1, CurrentStepChanges DEF Steps
  <2> HIDE DEF step
  <2>2. /\ done \in Engine
        /\ answer = "ok" => done = step
        /\ answer = "bad" => done.result = VERI_EREQUEST
    BY <2>1, RandomZoneChanges DEF Answers
  <2>3. crash = (verify_get_result(done) # 0)
    BY <1>3 DEF step
  <2> HIDE DEF done
  <2>4. verify_get_result(done) = 0 => done.result = VERI_NOERR
    BY <2>2 DEF Engine, Results, verify_get_result, verify_get_error_num,
                verify_get_crash_num, VERI_NOERR, VERI_EIO, VERI_EREQUEST, VERI_EPARTIAL,
                PLR_EIO, PLR_ECRASH
  <2>5. VERI_EREQUEST # VERI_NOERR
    BY DEF VERI_EREQUEST, VERI_NOERR
  <2> QED BY <2>1, <2>2, <2>3, <2>4, <2>5
<1>9. OfStorage'
  <2>1. Armed'
    BY <1>2, <1>5, <1>6 DEF Known, OfStorage, Armed
  <2> QED BY <1>1, <1>2, <1>5, <1>6, <2>1, StorageStays DEF Known, OfStorage
<1>10. CutKnown'
  BY <1>2, <1>5, <1>6, CutStays DEF Known
<1>11. ResumeKnown'
  <2> SUFFICES ASSUME ~crash PROVE ResumeKnown'
    BY <1>4 DEF ResumeKnown
  <2>1. /\ Found(e.info.loop, e.info.lsn) /\ e.info.loop <= e.loop /\ WindowRead
        /\ ~CacheOn /\ g.poffPos # 0 => lost = {}
        /\ e.cnt >= RequestWindow
    BY <1>2, <1>7, <1>8 DEF Known, OfVerdict, WalkKnown
  <2>2. PICK loop, lsn : loop = e.info.loop /\ lsn = e.info.lsn
    OBVIOUS
  <2>3. Found(loop, lsn)' /\ loop = g'.loop /\ lsn = g'.wLsn
    BY <1>2, <1>5, <2>1, <2>2, MediumStays
  <2>4. ~CacheOn /\ g'.poffPos # 0 => lost' = {}
    BY <1>2, <1>5, <2>1
  <2>5. PICK from : from = Position(loop, lsn)
    OBVIOUS
  <2>6. ASSUME CacheOn, loop = host.loop, NEW k \in from + 1 .. Size, k <= from + RequestWindow
        PROVE  ~Shows(k)'
    <3>1. from \in Nat
      <4>1. lsn \in Sectors
        BY <1>1, <1>2, <1>7, <2>2 DEF Inv, Loop, Verification, Walked
      <4> QED BY <1>1, <2>5, <2>6, <4>1, PositionFacts, IndexFacts
    <3>2. Suspect_Position = from
      BY <2>2, <2>5, <2>6 DEF Suspect_Position
    <3>3. e.loop = host.loop => k < idx
      <4> SUFFICES ASSUME e.loop = host.loop PROVE k < idx
        OBVIOUS
      <4>1. e.cnt = idx - 1 - from /\ e.cnt >= RequestWindow
        BY <2>1, <2>2, <2>6, <3>2 DEF WindowRead
      <4> QED BY <1>1, <2>6, <3>1, <4>1, RequestWindowAssumption
    <3>4. ~Shows(k)
      BY <2>1, <2>2, <2>6, <3>2, <3>3 DEF WindowRead
    <3> QED BY <1>2, <1>5, <3>4, MediumStays
  <2>7. from = Position(g'.loop, g'.wLsn)
    BY <2>3, <2>5
  <2> QED BY <1>2, <2>3, <2>4, <2>6, <2>7 DEF ResumeKnown
<1>12. NoFalseCrash'
  <2> SUFFICES ASSUME Good PROVE ~sdcrash'
    BY <1>2 DEF NoFalseCrash, Good
  <2>1. e.result = VERI_NOERR /\ ~sdcrash
    BY <1>2 DEF Known, OfVerdict, WalkKnown, NoFalseCrash
  <2>2. answer = "ok"
    BY <1>3 DEF Known, OfStorage, DiskOfPhase, Good
  <2>3. crash = FALSE
    BY <1>1, <1>3, <2>1, <2>2, GoodZoneIsNoError
  <2> QED BY <1>3, <2>1, <2>3
<1>13. OfVerdict'
  BY <1>6, <1>11, <1>12 DEF OfVerdict, WalkKnown
<1> QED BY <1>1, <1>9, <1>10, <1>13 DEF Known

-------------------------------------------------------------------------------
(* One request of a verification, in terms of the phase: what it looks at   *)
(* and what it expects there.                                               *)
LEMMA ReadsTheDue ==
  ASSUME Known, VerifyRequest
  PROVE  LET lsn == Pattern(e.loop)[idx]
         IN  /\ host.boot # 0 /\ idx \in 1 .. Size /\ idx \in Nat \ {0} /\ lsn \in Sectors
             /\ e.loop \in Nat /\ e.loop >= host.loop
             /\ e.loop = host.loop => /\ lsn = Sector(idx) /\ First <= idx
                                      /\ Header(e.loop, e.boot, count) = Due(idx)
             /\ e.loop # host.loop => \A p \in 1 .. NumPages : disk[lsn][p].loop # e.loop
<1>1. Inv /\ host.loop \in Nat
  BY Typed DEF Known
<1> DEFINE lsn == Pattern(e.loop)[idx]
<1>2. /\ pc = "verify" /\ host.boot # 0 /\ idx \in 1 .. Size /\ lsn \in Sectors
      /\ e.loop \in Nat /\ e.boot = host.boot /\ idx \in Nat \ {0}
  BY <1>1, VerifyStep, Typed
<1>3. /\ e.loop >= host.loop
      /\ e.loop = host.loop => First <= idx /\ count = idx - First + 1
  BY <1>2 DEF Known, OfVerdict, WalkKnown
<1>4. e.loop = host.loop => lsn = Sector(idx) /\ Header(e.loop, e.boot, count) = Due(idx)
  BY <1>2, <1>3 DEF Sector, Due
<1>5. ASSUME e.loop # host.loop, NEW p \in 1 .. NumPages
      PROVE  disk[lsn][p].loop # e.loop
  <2>1. disk[lsn][p].loop \in Nat
    BY <1>1, <1>2, Typed, PageTypes DEF PageType
  <2>2. disk[lsn][p].loop <= host.loop
    BY <1>2 DEF Known, OfStorage, DiskOfPhase, PageOfPhase
  <2> QED BY <1>1, <1>2, <1>3, <1>5, <2>1, <2>2
<1> QED BY <1>2, <1>3, <1>4, <1>5

LEMMA ExpectedIsFresh ==
  ASSUME Known, VerifyRequest
  PROVE  LET o == Observe(Pattern(e.loop)[idx])
         IN  /\ AllExpected(o.pages) <=> e.loop = host.loop /\ Fresh(idx)
             /\ DOMAIN o.pages = 1 .. NumPages /\ Len(o.pages) = NumPages
             /\ \A p \in 1 .. NumPages :
                  o.pages[p] <=> /\ e.loop = host.loop
                                 /\ disk[Sector(idx)][p] = Due(idx)
<1> DEFINE lsn == Pattern(e.loop)[idx]
           pages == [p \in 1 .. NumPages |-> disk[lsn][p] = Header(e.loop, e.boot, count)]
<1>1. Observe(lsn).pages = pages
  BY DEF Observe
<1>2. /\ e.loop = host.loop => /\ lsn = Sector(idx)
                               /\ Header(e.loop, e.boot, count) = Due(idx)
      /\ e.loop # host.loop => \A p \in 1 .. NumPages : disk[lsn][p].loop # e.loop
  BY ReadsTheDue
<1> HIDE DEF lsn
<1>3. \A p \in 1 .. NumPages :
        pages[p] <=> e.loop = host.loop /\ disk[Sector(idx)][p] = Due(idx)
  <2>1. CASE e.loop = host.loop
    BY <1>2, <2>1
  <2>2. CASE e.loop # host.loop
    <3>1. Header(e.loop, e.boot, count).loop = e.loop
      BY DEF Header
    <3> QED BY <1>2, <2>2, <3>1
  <2> QED BY <2>1, <2>2
<1>4. DOMAIN pages = 1 .. NumPages /\ Len(pages) = NumPages
  BY CaseAssumption
<1> HIDE DEF pages
<1>5. AllExpected(pages) <=> e.loop = host.loop /\ Fresh(idx)
  BY <1>3, <1>4, LastPage DEF AllExpected, Fresh
<1> QED BY <1>1, <1>3, <1>4, <1>5 DEF lsn

(* A request of which no page, or any part, has arrived is no partial       *)
(* write, or one the test tolerates.                                        *)
LEMMA Tolerated ==
  ASSUME NEW pages \in Seq(BOOLEAN), DOMAIN pages = 1 .. NumPages, Len(pages) = NumPages,
         Minor > 1 \/ \A p \in 1 .. NumPages : ~pages[p]
  PROVE  check_partial_writing(pages, Minor) # VERI_EPARTIAL
<1>1. VERI_NOERR # VERI_EPARTIAL
  BY DEF VERI_NOERR, VERI_EPARTIAL
<1>2. CASE Minor > 1
  <2>1. ~(Minor <= 0) /\ ~(Minor <= 1)
    BY <1>2, CaseAssumption
  <2> QED BY <1>1, <2>1 DEF check_partial_writing
<1>3. CASE \A p \in 1 .. NumPages : ~pages[p]
  <2>1. \A i \in 2 .. NumPages : i \in 1 .. NumPages /\ i - 1 \in 1 .. NumPages
    BY CaseAssumption
  <2>2. Changes(pages) = {} /\ ~pages[Len(pages)]
    <3>1. \A i \in 2 .. NumPages : pages[i] = FALSE /\ pages[i - 1] = FALSE
      <4>1. \A p \in 1 .. NumPages : pages[p] \in BOOLEAN
        OBVIOUS
      <4> QED BY <1>3, <2>1, <4>1
    <3> QED BY <1>3, <3>1, LastPage DEF Changes
  <2>3. classify_partial_type(pages) = 0
    BY <2>2 DEF classify_partial_type
  <2> QED BY <1>1, <2>3 DEF check_partial_writing
<1> QED BY <1>2, <1>3

-------------------------------------------------------------------------------
LEMMA ConfigFields ==
  /\ Config.cache = CacheOn /\ Config.internal = TRUE /\ Config.erase = FALSE
  /\ Config.poffPos = g.poffPos /\ Config.minor = Minor
  BY DEF Config

(* Without a cache the engine counts the requests from the one the power    *)
(* was cut in.                                                              *)
LEMMA CountsFromCut ==
  ASSUME Known, VerifyRequest, e.status = "NORMAL", e.loop = host.loop,
         NEW c \in First .. Size, CutAt(c), Counted(c)
  PROVE  After(e, Config, Sector(idx)) = IF idx < c THEN PREVIOUS_LAST_PO ELSE idx - c
<1>1. /\ Inv /\ pc = "verify" /\ host.boot # 0 /\ idx \in 1 .. Size /\ idx \in Nat
  BY ReadsTheDue DEF Known, VerifyRequest
<1>2. c \in 1 .. Size /\ c \in Nat /\ c <= Size
  BY <1>1, PhaseFacts
<1>3. e.afterPO = IF idx <= c THEN PREVIOUS_LAST_PO ELSE idx - 1 - c
  BY <1>1, <1>2 DEF Counted
<1>4. g.poffPos = Sector(c)
  BY <1>2 DEF CutAt
<1>5. Sector(idx) = g.poffPos <=> idx = c
  BY <1>1, <1>2, <1>4, PhaseFacts
<1>6. After(e, Config, Sector(idx)) =
        IF idx = c THEN LAST_PO
        ELSE IF e.afterPO >= LAST_PO THEN e.afterPO + 1 ELSE e.afterPO
  BY <1>5, ConfigFields DEF After
<1>7. CASE idx < c
  BY <1>1, <1>2, <1>3, <1>6, <1>7 DEF LAST_PO, PREVIOUS_LAST_PO
<1>8. CASE idx = c
  BY <1>1, <1>2, <1>6, <1>8 DEF LAST_PO
<1>9. CASE idx > c
  BY <1>1, <1>2, <1>3, <1>6, <1>9 DEF LAST_PO
<1> QED BY <1>1, <1>2, <1>7, <1>8, <1>9

(* Without a cache and without a loss, the first request that is not there  *)
(* is the one the power was cut in or the next one.                         *)
LEMMA UnexpectedIsAtTheCut ==
  ASSUME Known, VerifyRequest, ~CacheOn, storage # "lossy", e.status = "NORMAL",
         ~(e.loop = host.loop /\ Fresh(idx)),
         NEW c \in First .. Size + 1, CutAt(c)
  PROVE  \/ e.loop = host.loop /\ c <= Size /\ (idx = c \/ idx = c + 1)
         \/ e.loop = host.loop + 1 /\ idx = 1 /\ (c = Size \/ c = Size + 1)
<1>1. /\ Inv /\ pc = "verify" /\ host.boot # 0 /\ idx \in 1 .. Size /\ idx \in Nat
      /\ host.loop \in Nat /\ e.loop \in Nat
      /\ e.loop = host.loop => First <= idx
  BY ReadsTheDue, Typed DEF Known, VerifyRequest
<1>2. First \in Nat \ {0} /\ Size \in Nat /\ c \in Nat
  BY <1>1, PhaseFacts
<1>3. Walked
  BY <1>1 DEF Inv, Loop, Verification
<1>4. FreshTo(IF e.loop = host.loop THEN idx - 1 ELSE Size)
  BY <1>1 DEF Known, OfVerdict, WalkKnown
<1>5. \A i \in First .. c - 1 : Fresh(i)
  BY DEF CutAt
<1>6. \A i \in c + 1 .. Size : ~Fresh(i)
  BY FreshIsOfLoop DEF CutAt
<1>7. CASE e.loop = host.loop
  <2>1. ~(idx <= c - 1)
    BY <1>1, <1>2, <1>5, <1>7
  <2>2. ~(c + 1 <= idx - 1)
    <3> SUFFICES ASSUME c + 1 <= idx - 1 PROVE FALSE
      OBVIOUS
    <3>1. c + 1 \in First .. idx - 1 /\ c + 1 \in c + 1 .. Size
      BY <1>1, <1>2
    <3> QED BY <1>4, <1>6, <1>7, <3>1 DEF FreshTo
  <2> QED BY <1>1, <1>2, <1>7, <2>1, <2>2
<1>8. CASE e.loop # host.loop
  <2>1. e.loop = host.loop + 1 /\ idx = 1
    BY <1>3, <1>8 DEF Walked
  <2>2. ~(c + 1 <= Size)
    <3> SUFFICES ASSUME c + 1 <= Size PROVE FALSE
      OBVIOUS
    <3>1. c + 1 \in First .. Size /\ c + 1 \in c + 1 .. Size
      BY <1>2
    <3> QED BY <1>4, <1>6, <1>8, <3>1 DEF FreshTo
  <2> QED BY <1>2, <2>1, <2>2
<1> QED BY <1>7, <1>8

(* So that a good storage is not blamed for it.                             *)
LEMMA GoodIsTolerated ==
  ASSUME Known, VerifyRequest, Good, e.status = "NORMAL",
         ~AllExpected(Observe(Pattern(e.loop)[idx]).pages)
  PROVE  LET lsn == Pattern(e.loop)[idx]
         IN  /\ ~Intolerable(Config, Observe(lsn))
             /\ ~Far(After(e, Config, lsn), Config)
<1> DEFINE lsn == Pattern(e.loop)[idx]
           o   == Observe(lsn)
<1>1. CASE CacheOn
  BY <1>1, ConfigFields DEF Intolerable, Far
<1>2. CASE ~CacheOn
  <2>1. /\ Inv /\ pc = "verify" /\ host.boot # 0 /\ idx \in 1 .. Size /\ idx \in Nat
        /\ host.loop \in Nat /\ e.loop \in Nat /\ pc \notin PhasePlaces
    BY ReadsTheDue, Typed DEF Known, VerifyRequest, PhasePlaces, Writing
  <2>2. First \in Nat \ {0} /\ Size \in Nat \ {0}
    BY <2>1, PhaseFacts
  <2>3. storage # "lossy" /\ (storage = "atomic" \/ Minor > 1)
    BY <1>2 DEF Good
  <2>4. PICK c \in First .. Size + 1 : CutAt(c) /\ Counted(c)
    BY <1>2, <2>1 DEF Known, CutKnown, InPhase
  <2>5. c \in Nat
    BY <2>2
  <2>6. ~(e.loop = host.loop /\ Fresh(idx))
    BY ExpectedIsFresh
  <2>7. \/ e.loop = host.loop /\ c <= Size /\ (idx = c \/ idx = c + 1)
        \/ e.loop = host.loop + 1 /\ idx = 1 /\ (c = Size \/ c = Size + 1)
    BY <1>2, <2>3, <2>4, <2>6, UnexpectedIsAtTheCut
  <2>8. ~Intolerable(Config, o)
    <3>1. /\ DOMAIN o.pages = 1 .. NumPages /\ Len(o.pages) = NumPages
          /\ o.pages \in Seq(BOOLEAN)
          /\ \A p \in 1 .. NumPages :
               o.pages[p] <=> e.loop = host.loop /\ disk[Sector(idx)][p] = Due(idx)
      BY ExpectedIsFresh, ObserveIsReading DEF Readings
    <3>2. storage = "atomic" => \A p \in 1 .. NumPages : ~o.pages[p]
      <4> SUFFICES ASSUME storage = "atomic", NEW p \in 1 .. NumPages,
                          e.loop = host.loop, disk[Sector(idx)][p] = Due(idx)
                   PROVE  FALSE
        BY <3>1
      <4>1. CASE idx = c
        <5>1. c <= Size /\ ~Fresh(c)
          BY <2>1, <2>6, <2>7, <4>1
        <5>2. \A q \in 1 .. NumPages : disk[Sector(c)][q] # Due(c)
          BY <2>3, <2>4, <5>1 DEF CutAt
        <5> QED BY <4>1, <5>2
      <4>2. CASE idx = c + 1
        <5>1. ~OfLoop(idx)
          BY <2>1, <2>3, <2>4, <2>5, <4>2 DEF CutAt
        <5> QED BY <5>1, DueFacts DEF OfLoop
      <4> QED BY <2>1, <2>7, <4>1, <4>2
    <3> HIDE DEF o
    <3>3. check_partial_writing(o.pages, Minor) # VERI_EPARTIAL
      BY <2>3, <3>1, <3>2, Tolerated
    <3> QED BY <3>3, ConfigFields DEF Intolerable
  <2>9. ~Far(After(e, Config, lsn), Config)
    <3>1. After(e, Config, lsn) \in {0, 1} => ~Far(After(e, Config, lsn), Config)
      BY DEF Far, LAST_PO, PREVIOUS_LAST_PO
    <3>2. CASE e.loop = host.loop
      <4>1. c \in First .. Size /\ lsn = Sector(idx)
        BY <2>1, <2>2, <2>5, <2>7, <3>2, ReadsTheDue
      <4>2. After(e, Config, lsn) = IF idx < c THEN PREVIOUS_LAST_PO ELSE idx - c
        BY <2>4, <3>2, <4>1, CountsFromCut
      <4>3. idx = c \/ idx = c + 1
        BY <2>1, <2>7, <3>2
      <4> QED BY <2>1, <2>5, <3>1, <4>2, <4>3
    <3>3. CASE e.loop = host.loop + 1
      <4>1. idx = 1 /\ (c = Size \/ c = Size + 1) /\ e.loop # host.loop
        BY <2>1, <2>7, <3>3
      <4>2. CASE c = Size
        <5>1. e.afterPO = 0
          BY <2>1, <2>2, <2>4, <4>1, <4>2 DEF Counted
        <5> QED BY <3>1, <5>1 DEF After, LAST_PO
      <4>3. CASE c = Size + 1
        <5>1. g.poffPos = lsn
          BY <2>2, <2>4, <3>3, <4>1, <4>3 DEF CutAt, FirstLsn
        <5> QED BY <3>1, <5>1, ConfigFields DEF After, LAST_PO
      <4> QED BY <4>1, <4>2, <4>3
    <3> QED BY <2>7, <3>2, <3>3
  <2> QED BY <2>8, <2>9
<1> QED BY <1>1, <1>2

(* A loss behind sector 0 is far from where the power was cut.              *)
LEMMA LossIsFar ==
  ASSUME Known, VerifyRequest, ~CacheOn, g.poffPos # 0, e.status = "NORMAL", lost # {},
         ~AllExpected(Observe(Pattern(e.loop)[idx]).pages)
  PROVE  Far(After(e, Config, Pattern(e.loop)[idx]), Config)
<1>1. /\ Inv /\ pc = "verify" /\ host.boot # 0 /\ idx \in 1 .. Size /\ idx \in Nat
      /\ pc \notin PhasePlaces
      /\ e.loop = host.loop => First <= idx /\ Pattern(e.loop)[idx] = Sector(idx)
  BY ReadsTheDue DEF Known, VerifyRequest, PhasePlaces, Writing
<1>2. First \in Nat \ {0} /\ Size \in Nat \ {0}
  BY <1>1, PhaseFacts
<1>3. PICK c \in First .. Size + 1 : CutAt(c) /\ Counted(c)
  BY <1>1 DEF Known, CutKnown, InPhase
<1>4. PICK i \in First .. c - 1 : Sector(i) \in lost
  BY <1>3 DEF CutAt
<1>5. c \in Nat /\ i \in Nat /\ c <= Size /\ i <= Size
  BY <1>2, <1>3, <1>4 DEF CutAt
<1>6. ~Fresh(i)
  BY <1>3, <1>4 DEF CutAt
<1>7. FreshTo(IF e.loop = host.loop THEN idx - 1 ELSE Size)
  BY <1>1 DEF Known, OfVerdict, WalkKnown
<1>8. e.loop = host.loop /\ idx <= i
  <2>1. i \in First .. Size
    BY <1>2, <1>4, <1>5
  <2>2. e.loop = host.loop
    BY <1>6, <1>7, <2>1 DEF FreshTo
  <2>3. ~(i \in First .. idx - 1)
    BY <1>6, <1>7, <2>2 DEF FreshTo
  <2> QED BY <1>1, <1>2, <1>4, <1>5, <2>2, <2>3
<1>9. After(e, Config, Sector(idx)) = PREVIOUS_LAST_PO
  <2>1. c \in First .. Size /\ idx < c
    BY <1>1, <1>2, <1>3, <1>4, <1>5, <1>8
  <2> QED BY <1>3, <1>8, <2>1, CountsFromCut
<1> QED BY <1>1, <1>8, <1>9, ConfigFields DEF Far

(* What verification takes for evidence is what the phase shows.            *)
LEMMA EvidenceShows ==
  ASSUME Known, VerifyRequest
  PROVE  LET o == Observe(Pattern(e.loop)[idx])
         IN  /\ ~o.hit /\ e.loop = host.loop => ~Shows(idx)
             /\ o.hit /\ storage # "lossy" => e.loop = host.loop /\ Shows(idx)
<1> DEFINE lsn == Pattern(e.loop)[idx]
           o   == Observe(lsn)
<1>1. /\ lsn \in Sectors
      /\ e.loop = host.loop => lsn = Sector(idx)
      /\ e.loop # host.loop => \A p \in 1 .. NumPages : disk[lsn][p].loop # e.loop
  BY ReadsTheDue
<1>2. o.hit <=> \E p \in 1 .. NumPages : Evidence(lsn, disk[lsn][p])
  BY DEF Observe
<1> HIDE DEF o
<1>3. ASSUME ~o.hit, e.loop = host.loop
      PROVE  ~Shows(idx)
  <2>1. \A p \in 1 .. NumPages : ~Evidence(lsn, disk[lsn][p])
    BY <1>2, <1>3
  <2> HIDE DEF lsn
  <2> QED BY <1>1, <1>3, <2>1 DEF Shows, Evidence
<1>4. ASSUME o.hit, storage # "lossy"
      PROVE  e.loop = host.loop /\ Shows(idx)
  <2>1. PICK p \in 1 .. NumPages : Evidence(lsn, disk[lsn][p])
    BY <1>2, <1>4
  <2>2. disk[lsn][p].magic # "BAD"
    BY <1>1, <1>4 DEF Known, OfStorage, DiskOfPhase
  <2> HIDE DEF lsn
  <2>3. e.loop = host.loop
    BY <1>1, <2>1, <2>2 DEF Evidence
  <2> QED BY <1>1, <2>1, <2>2, <2>3 DEF Shows, Evidence
<1> QED BY <1>3, <1>4 DEF o

(* A storage that keeps what it acknowledged shows no false evidence.       *)
LEMMA NoFalseEvidence ==
  ASSUME Known, VerifyRequest, storage # "lossy", e.status # "NORMAL", e.result = VERI_NOERR
  PROVE  ~Observe(Pattern(e.loop)[idx]).hit
<1> SUFFICES ASSUME Observe(Pattern(e.loop)[idx]).hit PROVE FALSE
  OBVIOUS
<1>1. /\ Inv /\ pc = "verify" /\ host.boot # 0 /\ idx \in 1 .. Size /\ idx \in Nat
      /\ host.loop \in Nat /\ e.info.loop \in Nat
  BY ReadsTheDue, Typed DEF Known, VerifyRequest, Engine
<1>2. e.loop = host.loop /\ Shows(idx)
  BY EvidenceShows
<1>3. FreshTo(idx - 1)
  BY <1>1, <1>2 DEF Known, OfStorage, EvidenceProves
<1>4. Found(e.info.loop, e.info.lsn) /\ e.info.loop <= e.loop /\ WindowRead
  BY <1>1 DEF Known, OfVerdict, WalkKnown
<1>5. e.info.loop = host.loop
  BY <1>1, <1>2, <1>4 DEF Found
<1>6. /\ First <= Suspect_Position /\ ~Fresh(Suspect_Position) /\ Suspect_Position < idx
      /\ Suspect_Position \in Nat
  <2>1. e.info.lsn \in Sectors
    BY <1>1, <1>4, <1>5 DEF Found
  <2>2. Suspect_Position \in Nat
    BY <1>1, <2>1, PhaseFacts, IndexFacts DEF Suspect_Position
  <2> QED BY <1>1, <1>2, <1>4, <1>5, <2>2 DEF Found, WindowRead, Suspect_Position
<1>7. Suspect_Position \in First .. idx - 1
  BY <1>1, <1>6, PhaseFacts
<1> QED BY <1>3, <1>6, <1>7 DEF FreshTo

(* What the engine makes of a request.                                      *)
LEMMA EngineStep ==
  ASSUME Known, VerifyRequest, ~WindowFull(e)
  PROVE  LET lsn == Pattern(e.loop)[idx]
             o   == Observe(lsn)
         IN  /\ e'.loop = e.loop
             /\ e'.cnt = IF e.status # "NORMAL" THEN e.cnt + 1 ELSE e.cnt
             /\ e'.afterPO = After(e, Config, lsn)
             /\ \/ e.verify = "normal" /\ AllExpected(o.pages)
                \/ e.verify # "normal" /\ ~o.hit
                => e'.result = e.result /\ e'.status = e.status /\ e'.info = e.info
             /\ e.verify = "normal" /\ ~AllExpected(o.pages) =>
                  /\ e'.status # "NORMAL" /\ e'.info.lsn = lsn /\ e'.info.loop = e.loop
                  /\ e'.result \in {e.result, VERI_EREQUEST, VERI_EPARTIAL}
                  /\ IF Intolerable(Config, o) \/ Far(After(e, Config, lsn), Config)
                     THEN e'.result # VERI_NOERR ELSE e'.result = e.result
             /\ e.verify # "normal" /\ o.hit =>
                  /\ e'.result # VERI_NOERR /\ e'.status # "NORMAL"
<1> DEFINE lsn == Pattern(e.loop)[idx]
           o   == Observe(lsn)
           r   == do_verify(e, Config, lsn, count, o)
<1>1. /\ e \in Engine /\ lsn \in Nat /\ o \in Readings /\ ~o.io /\ e' = r.eng
      /\ Config \in Values /\ count \in Nat \ {0}
  BY VerifyStep, ConfigIsValue, Typed DEF Known
<1> HIDE DEF lsn, o
<1>2. /\ r.eng.loop = e.loop
      /\ e.verify = "normal" /\ AllExpected(o.pages) =>
           r.eng.result = e.result /\ Untouched(e, r.eng)
      /\ e.verify = "normal" /\ ~AllExpected(o.pages) =>
           /\ r.eng.status # "NORMAL"
           /\ r.eng.result \in {e.result, VERI_EREQUEST, VERI_EPARTIAL}
           /\ r.eng.info.lsn = lsn /\ r.eng.info.loop = e.loop
      /\ e.verify # "normal" /\ ~o.hit => r.eng.result = e.result /\ Untouched(e, r.eng)
      /\ e.verify # "normal" /\ o.hit =>
           r.eng.status = "CRASH" /\ r.eng.result = VERI_EPARTIAL
  BY <1>1, DoVerify
<1>3. /\ r.eng.cnt = IF e.status # "NORMAL" THEN e.cnt + 1 ELSE e.cnt
      /\ r.eng.afterPO = After(e, Config, lsn)
      /\ e.verify = "normal" /\ ~AllExpected(o.pages) =>
           IF Intolerable(Config, o) \/ Far(After(e, Config, lsn), Config)
           THEN r.eng.result \in {VERI_EREQUEST, VERI_EPARTIAL}
           ELSE r.eng.result = e.result
  <2>1. /\ r.eng.cnt = IF e.status # "NORMAL" THEN e.cnt + 1 ELSE e.cnt
        /\ r.eng.afterPO = After(e, Config, lsn)
    BY <1>1, DoVerifyBlames
  <2>2. ASSUME e.verify = "normal", ~AllExpected(o.pages),
               Intolerable(Config, o) \/ Far(After(e, Config, lsn), Config)
        PROVE  r.eng.result \in {VERI_EREQUEST, VERI_EPARTIAL}
    BY <1>1, <2>2, DoVerifyBlames
  <2>3. ASSUME e.verify = "normal", ~AllExpected(o.pages),
               ~(Intolerable(Config, o) \/ Far(After(e, Config, lsn), Config))
        PROVE  r.eng.result = e.result
    BY <1>1, <2>3, DoVerifyBlames
  <2> QED BY <2>1, <2>2, <2>3
<1> HIDE DEF r
<1>4. VERI_NOERR \notin {VERI_EREQUEST, VERI_EPARTIAL}
  BY DEF VERI_NOERR, VERI_EREQUEST, VERI_EPARTIAL
<1> QED BY <1>1, <1>2, <1>3, <1>4 DEF Untouched, lsn, o

-------------------------------------------------------------------------------
(* What a verification knows after one more request.                        *)
LEMMA WalkGoesOn ==
  ASSUME Known, VerifyRequest, UNCHANGED storage, ~WindowFull(e)
  PROVE  WalkKnown'
<1> DEFINE lsn == Pattern(e.loop)[idx]
           o   == Observe(lsn)
<1>1. /\ Inv /\ pc = "verify" /\ pc' = "verify" /\ idx' = idx + 1 /\ count' = count + 1
      /\ UNCHANGED <<g, storage, host, sdcrash, armed, disk, cache, before, durable, lost>>
  BY VerifyStep DEF Known
<1>2. /\ host.boot # 0 /\ idx \in 1 .. Size /\ idx \in Nat \ {0} /\ lsn \in Sectors
      /\ e.loop \in Nat /\ e.loop >= host.loop /\ host.loop \in Nat /\ count \in Nat
      /\ e.loop = host.loop => lsn = Sector(idx) /\ First <= idx
      /\ First \in Nat \ {0} /\ Size \in Nat \ {0} /\ e \in Engine
  BY <1>1, ReadsTheDue, Typed, PhaseFacts
<1>3. /\ e.status = "NORMAL" => e.cnt = 0 /\ e.verify = "normal"
      /\ e.status = "NORMAL" /\ e.loop # host.loop => e.loop = host.loop + 1
      /\ e.status # "NORMAL" /\ e.verify = "normal" => e.result # VERI_NOERR
      /\ e.status # "NORMAL" => e.info.lsn \in Sectors
  BY <1>1 DEF Inv, Loop, Verification, Walked
<1>4. /\ e.loop = host.loop => count = idx - First + 1
      /\ e.status = "NORMAL" => FreshTo(IF e.loop = host.loop THEN idx - 1 ELSE Size)
      /\ e.status # "NORMAL" /\ e.result = VERI_NOERR =>
           /\ Found(e.info.loop, e.info.lsn) /\ e.info.loop <= e.loop /\ WindowRead
           /\ ~CacheOn /\ g.poffPos # 0 => lost = {}
      /\ Good => e.result = VERI_NOERR
  BY <1>1 DEF Known, OfVerdict, WalkKnown
<1>5. AllExpected(o.pages) <=> e.loop = host.loop /\ Fresh(idx)
  BY ExpectedIsFresh
<1>6. /\ e'.loop = e.loop
      /\ e'.cnt = IF e.status # "NORMAL" THEN e.cnt + 1 ELSE e.cnt
      /\ \/ e.verify = "normal" /\ AllExpected(o.pages)
         \/ e.verify # "normal" /\ ~o.hit
         => e'.result = e.result /\ e'.status = e.status /\ e'.info = e.info
      /\ e.verify = "normal" /\ ~AllExpected(o.pages) =>
           /\ e'.status # "NORMAL" /\ e'.info.lsn = lsn /\ e'.info.loop = e.loop
           /\ e'.result \in {e.result, VERI_EREQUEST, VERI_EPARTIAL}
           /\ IF Intolerable(Config, o) \/ Far(After(e, Config, lsn), Config)
              THEN e'.result # VERI_NOERR ELSE e'.result = e.result
      /\ e.verify # "normal" /\ o.hit =>
           /\ e'.result # VERI_NOERR /\ e'.status # "NORMAL"
  BY EngineStep
<1>7. /\ First' = First
      /\ \A i : (FreshTo(i)' <=> FreshTo(i)) /\ (Shows(i)' <=> Shows(i))
      /\ \A loop, at : Found(loop, at)' <=> Found(loop, at)
  BY <1>1, MediumStays
<1>8. o.hit \in BOOLEAN
  BY ObserveIsReading DEF Readings
<1>9. /\ ~AllExpected(o.pages) /\ e.status = "NORMAL" /\ Good =>
           ~Intolerable(Config, o) /\ ~Far(After(e, Config, lsn), Config)
      /\ ~AllExpected(o.pages) /\ e.status = "NORMAL" /\ ~CacheOn /\ g.poffPos # 0 /\ lost # {}
           => Far(After(e, Config, lsn), Config)
      /\ ~o.hit /\ e.loop = host.loop => ~Shows(idx)
      /\ storage # "lossy" /\ e.status # "NORMAL" /\ e.result = VERI_NOERR => ~o.hit
  BY GoodIsTolerated, LossIsFar, EvidenceShows, NoFalseEvidence
<1>10. VERI_NOERR \notin {VERI_EREQUEST, VERI_EPARTIAL}
  BY DEF VERI_NOERR, VERI_EREQUEST, VERI_EPARTIAL
<1> HIDE DEF lsn, o
<1>11. e'.loop = host'.loop => First' <= idx' /\ count' = idx' - First' + 1
  <2>1. PICK n, first, k : n = idx /\ first = First /\ k = count
    OBVIOUS
  <2>2. n \in Nat /\ first \in Nat /\ k \in Nat /\ idx' = n + 1 /\ count' = k + 1 /\ First' = first
    BY <1>1, <1>2, <1>7, <2>1
  <2>3. e'.loop = host'.loop => e.loop = host.loop
    BY <1>1, <1>6
  <2>4. e.loop = host.loop => first <= n /\ k = n - first + 1
    BY <1>2, <1>4, <2>1
  <2> QED BY <2>2, <2>3, <2>4
<1>12. e'.status = "NORMAL" => e.status = "NORMAL" /\ e.verify = "normal" /\ AllExpected(o.pages)
  BY <1>3, <1>6, <1>8
<1>13. PICK n : n = idx
  OBVIOUS
<1>14. e'.status = "NORMAL" => FreshTo(n)' /\ e'.loop = host'.loop
  <2> SUFFICES ASSUME e'.status = "NORMAL" PROVE FreshTo(n)' /\ e'.loop = host'.loop
    OBVIOUS
  <2>1. e.loop = host.loop /\ Fresh(n) /\ FreshTo(n - 1)
    BY <1>4, <1>5, <1>12, <1>13
  <2>2. \A i \in First .. n : i \in First .. n - 1 \/ i = n
    BY <1>2, <1>13
  <2>3. FreshTo(n)
    BY <2>1, <2>2 DEF FreshTo
  <2>4. FreshTo(n)'
    BY <1>7, <2>3
  <2>5. e'.loop = host'.loop
    BY <1>1, <1>6, <2>1
  <2> QED BY <2>4, <2>5
<1>15. e'.status = "NORMAL" =>
         FreshTo(IF e.loop = host.loop THEN idx - 1 ELSE Size)'
  <2> SUFFICES ASSUME e'.status = "NORMAL"
               PROVE  FreshTo(IF e.loop = host.loop THEN idx - 1 ELSE Size)'
    OBVIOUS
  <2>1. FreshTo(n)' /\ e'.loop = host'.loop
    BY <1>14
  <2>2. n = idx' - 1
    BY <1>1, <1>2, <1>13
  <2>3. n = (IF e'.loop = host'.loop THEN idx' - 1 ELSE Size)
    BY <2>1, <2>2
  <2> QED BY <2>1, <2>3
<1>16. Good' => e'.result = VERI_NOERR
  <2> SUFFICES ASSUME Good PROVE e'.result = VERI_NOERR
    BY <1>1 DEF Good
  <2>1. e.result = VERI_NOERR /\ storage # "lossy"
    BY <1>4 DEF Good
  <2>2. CASE e.verify = "normal"
    BY <1>3, <1>6, <1>9, <2>1, <2>2
  <2>3. CASE e.verify # "normal"
    BY <1>3, <1>6, <1>8, <1>9, <2>1, <2>3
  <2> QED BY <2>2, <2>3
<1>17. ASSUME e'.status # "NORMAL", e'.result = VERI_NOERR
       PROVE  /\ Found(e.info.loop, e.info.lsn)' /\ e'.info.loop <= e'.loop /\ WindowRead'
              /\ ~CacheOn /\ g'.poffPos # 0 => lost' = {}
  <2>1. CASE e.verify = "normal"
    <3>1. e.status = "NORMAL" /\ ~AllExpected(o.pages) /\ e.cnt = 0
      BY <1>3, <1>6, <1>10, <1>17, <2>1
    <3>2. e'.info.lsn = lsn /\ e'.info.loop = e.loop /\ e'.cnt = 0 /\ e'.loop = e.loop
      BY <1>6, <2>1, <3>1
    <3>3. ~Far(After(e, Config, lsn), Config)
      BY <1>6, <1>17, <2>1, <3>1
    <3>4. ~CacheOn /\ g'.poffPos # 0 => lost' = {}
      BY <1>1, <1>9, <3>1, <3>3
    <3>5. PICK loop, at : loop = e.loop /\ at = lsn
      OBVIOUS
    <3>6. Found(loop, at)
      <4>1. CASE e.loop = host.loop
        <5>1. ~Fresh(idx) /\ FreshTo(idx - 1) /\ Position(loop, at) = idx
          BY <1>2, <1>4, <1>5, <1>1, <3>1, <3>5, <4>1, PhaseFacts
        <5> QED BY <1>2, <3>5, <4>1, <5>1 DEF Found
      <4>2. CASE e.loop # host.loop
        BY <1>3, <1>4, <3>1, <3>5, <4>2 DEF Found
      <4> QED BY <4>1, <4>2
    <3>7. loop = e'.info.loop /\ at = e'.info.lsn
      BY <3>2, <3>5
    <3>8. Found(loop, at)'
      BY <1>7, <3>6
    <3>9. WindowRead'
      <4> SUFFICES ASSUME e.loop = host.loop PROVE WindowRead'
        BY <1>1, <3>2 DEF WindowRead
      <4>1. Suspect_Position' = idx
        BY <1>1, <1>2, <3>2, PhaseFacts DEF Suspect_Position
      <4>2. PICK from : from = idx
        OBVIOUS
      <4>3. from = Suspect_Position' /\ from < idx' /\ e'.cnt = idx' - 1 - from
        BY <1>1, <1>2, <3>2, <4>1, <4>2
      <4>4. \A k \in from + 1 .. Size : ~(k < idx')
        BY <1>1, <1>2, <4>2
      <4> QED BY <1>1, <3>2, <4>3, <4>4 DEF WindowRead
    <3> QED BY <1>2, <3>2, <3>4, <3>7, <3>8, <3>9
  <2>2. CASE e.verify # "normal"
    <3>1. ~o.hit /\ e'.result = e.result /\ e'.status = e.status /\ e'.info = e.info
      BY <1>6, <1>8, <1>17, <2>2
    <3>2. /\ Found(e.info.loop, e.info.lsn) /\ e.info.loop <= e.loop /\ WindowRead
          /\ ~CacheOn /\ g.poffPos # 0 => lost = {}
          /\ e.status # "NORMAL" /\ e'.cnt = e.cnt + 1
      BY <1>4, <1>6, <1>17, <3>1
    <3>3. PICK loop, at : loop = e.info.loop /\ at = e.info.lsn
      OBVIOUS
    <3>4. Found(loop, at)' /\ loop = e'.info.loop /\ at = e'.info.lsn
      BY <1>7, <3>1, <3>2, <3>3
    <3>5. WindowRead'
      <4> SUFFICES ASSUME e.info.loop = host.loop PROVE WindowRead'
        BY <1>1, <3>1 DEF WindowRead
      <4>1. PICK from : from = Suspect_Position
        OBVIOUS
      <4>2. from = Suspect_Position' /\ from \in Nat
        <5>1. from = Suspect_Position'
          BY <1>1, <3>1, <4>1 DEF Suspect_Position
        <5>2. Suspect_Position \in Nat
          BY <1>1, <1>2, <1>3, <3>2, PhaseFacts, IndexFacts DEF Suspect_Position
        <5> QED BY <4>1, <5>1, <5>2
      <4>3. e.loop = host.loop => from < idx' /\ e'.cnt = idx' - 1 - from
        <5> SUFFICES ASSUME e.loop = host.loop PROVE from < idx' /\ e'.cnt = idx' - 1 - from
          OBVIOUS
        <5>1. from < idx /\ e.cnt = idx - 1 - from
          BY <3>2, <4>1 DEF WindowRead
        <5> QED BY <1>1, <1>2, <3>2, <4>2, <5>1
      <4>4. ASSUME CacheOn, NEW k \in from + 1 .. Size, e.loop = host.loop => k < idx'
            PROVE  ~Shows(k)'
        <5>1. CASE e.loop = host.loop /\ k = idx
          BY <1>7, <1>9, <3>1, <5>1
        <5>2. CASE e.loop = host.loop => k < idx
          BY <1>7, <3>2, <4>1, <4>4, <5>2 DEF WindowRead
        <5>3. e.loop = host.loop => k < idx \/ k = idx
          BY <1>1, <1>2, <4>2, <4>4
        <5> QED BY <5>1, <5>2, <5>3
      <4> QED BY <1>1, <1>6, <4>2, <4>3, <4>4 DEF WindowRead
    <3> QED BY <1>1, <1>6, <3>1, <3>2, <3>4, <3>5
  <2> QED BY <2>1, <2>2
<1>18. e'.loop >= host'.loop /\ pc' # "ended"
  BY <1>1, <1>2, <1>6
<1> QED BY <1>11, <1>15, <1>16, <1>17, <1>18 DEF WalkKnown

(* Without a cache the distance counted from the cut stays right.           *)
LEMMA CutGoesOn ==
  ASSUME Known, VerifyRequest, UNCHANGED storage, ~WindowFull(e)
  PROVE  CutKnown'
<1> SUFFICES ASSUME ~CacheOn PROVE CutKnown'
  BY DEF CutKnown
<1> DEFINE lsn == Pattern(e.loop)[idx]
           o   == Observe(lsn)
<1>1. /\ Inv /\ pc = "verify" /\ pc' = "verify" /\ idx' = idx + 1
      /\ UNCHANGED <<g, storage, host, sdcrash, armed, disk, cache, before, durable, lost>>
      /\ host.boot # 0 /\ idx \in 1 .. Size /\ idx \in Nat /\ pc \notin PhasePlaces
      /\ e.loop = host.loop => lsn = Sector(idx)
  BY VerifyStep, ReadsTheDue DEF Known, PhasePlaces, Writing
<1>2. First \in Nat \ {0} /\ Size \in Nat \ {0}
  BY <1>1, PhaseFacts
<1>3. PICK c \in First .. Size + 1 : CutAt(c) /\ Counted(c)
  BY <1>1 DEF Known, CutKnown, InPhase
<1>4. CutAt(c)' /\ c \in (First .. Size + 1)'
  BY <1>1, <1>3, MediumStays
<1>5. Counted(c)'
  <2> SUFFICES ASSUME e'.status = "NORMAL", c <= Size
               PROVE  IF e'.loop = host'.loop
                      THEN e'.afterPO = IF idx' <= c THEN PREVIOUS_LAST_PO ELSE idx' - 1 - c
                      ELSE e'.afterPO = Size - c
    BY DEF Counted
  <2>1. e.status = "NORMAL" => e.verify = "normal"
    BY <1>1 DEF Inv, Loop, Verification, Walked
  <2>2. /\ e'.loop = e.loop /\ e'.afterPO = After(e, Config, lsn)
        /\ \/ e.verify = "normal" /\ AllExpected(o.pages)
           \/ e.verify # "normal" /\ ~o.hit
           => e'.status = e.status
        /\ e.verify = "normal" /\ ~AllExpected(o.pages) => e'.status # "NORMAL"
        /\ e.verify # "normal" /\ o.hit => e'.status # "NORMAL"
    BY EngineStep
  <2>3. o.hit \in BOOLEAN
    BY ObserveIsReading DEF Readings
  <2> HIDE DEF lsn, o
  <2>4. e.status = "NORMAL" /\ AllExpected(o.pages)
    BY <2>1, <2>2, <2>3
  <2>5. e.loop = host.loop
    BY <2>4, ExpectedIsFresh DEF lsn, o
  <2>6. c \in First .. Size /\ c \in Nat
    BY <1>2, <1>3
  <2>7. e'.afterPO = IF idx < c THEN PREVIOUS_LAST_PO ELSE idx - c
    BY <1>1, <1>3, <2>2, <2>4, <2>5, <2>6, CountsFromCut
  <2> QED BY <1>1, <2>2, <2>5, <2>6, <2>7
<1> QED BY <1>4, <1>5 DEF CutKnown

LEMMA KnownVerifyRequest == Known /\ VerifyRequest /\ UNCHANGED storage => Known'
<1> SUFFICES ASSUME Known, VerifyRequest, UNCHANGED storage PROVE Known'
  OBVIOUS
<1>1. /\ Inv /\ Inv' /\ pc = "verify" /\ pc' \in {"verify", "ended"}
      /\ UNCHANGED <<g, storage, host, sdcrash, armed, disk, cache, before, durable, lost>>
      /\ WindowFull(e) => e' = e /\ pc' = "ended" /\ UNCHANGED <<idx, count>>
      /\ ~WindowFull(e) => pc' = "verify"
  BY VerifyStep, InvVerifyRequest DEF Known
<1>2. pc \notin PhasePlaces /\ pc' \notin PhasePlaces
  BY <1>1 DEF PhasePlaces, Writing
<1>3. OfStorage'
  <2>1. Armed'
    BY <1>1, <1>2 DEF Known, OfStorage, Armed
  <2> QED BY <1>1, <1>2, <2>1, StorageStays DEF Known, OfStorage
<1>4. CutKnown'
  BY <1>1, <1>2, CutGoesOn, CutStays DEF Known
<1>5. WalkKnown'
  <2>1. CASE WindowFull(e)
    <3>1. /\ e' = e /\ pc' = "ended" /\ idx' = idx /\ count' = count /\ g' = g
          /\ host' = host /\ lost' = lost
      BY <1>1, <2>1
    <3>2. e.cnt >= RequestWindow /\ e.status # "NORMAL"
      BY <1>1, <2>1, RequestWindowAssumption DEF WindowFull, Inv, Loop, Verification, Walked
    <3>3. /\ First' = First
          /\ \A i : (FreshTo(i)' <=> FreshTo(i)) /\ (Shows(i)' <=> Shows(i))
          /\ \A loop, at : Found(loop, at)' <=> Found(loop, at)
      BY <1>1, MediumStays
    <3>4. /\ e.loop >= host.loop
          /\ e.loop = host.loop => First <= idx /\ count = idx - First + 1
          /\ e.result = VERI_NOERR =>
               /\ Found(e.info.loop, e.info.lsn) /\ e.info.loop <= e.loop /\ WindowRead
               /\ ~CacheOn /\ g.poffPos # 0 => lost = {}
          /\ Good => e.result = VERI_NOERR
      BY <1>1, <3>2 DEF Known, OfVerdict, WalkKnown
    <3>5. WindowRead <=> WindowRead'
      BY <3>1, <3>3 DEF WindowRead, Suspect_Position
    <3>6. Found(e.info.loop, e.info.lsn) => Found(e.info.loop, e.info.lsn)'
      <4>1. PICK loop, at : loop = e.info.loop /\ at = e.info.lsn
        OBVIOUS
      <4> QED BY <3>1, <3>3, <4>1
    <3>7. Good' <=> Good
      BY <1>1 DEF Good
    <3> QED BY <3>1, <3>2, <3>3, <3>4, <3>5, <3>6, <3>7 DEF WalkKnown
  <2>2. CASE ~WindowFull(e)
    BY <2>2, WalkGoesOn
  <2> QED BY <2>1, <2>2
<1>6. OfVerdict'
  BY <1>1, <1>5 DEF Known, OfVerdict, ResumeKnown, NoFalseCrash, Good
<1> QED BY <1>1, <1>3, <1>4, <1>6 DEF Known

-------------------------------------------------------------------------------
(* A write phase begins: nothing on the medium is of it, and what is there  *)
(* of its loop is before its first request.                                 *)
LEMMA PhaseBegins ==
  ASSUME Known, BeginWriting, UNCHANGED storage
  PROVE  \E n \in 1 .. Size, loop \in Nat :
           /\ host'.loop = loop /\ host'.boot = g.boot /\ First' = n /\ idx' = n
           /\ host'.boot \in Nat \ {0} /\ n \in Nat
           /\ \A s \in Sectors, p \in 1 .. NumPages :
                /\ disk[s][p].loop <= loop /\ disk[s][p].boot # host'.boot
                /\ disk[s][p] \in PageType
           /\ \/ /\ host.boot # 0 /\ loop = host.loop
                 /\ First <= n /\ ~Fresh(n)
              \/ \A s \in Sectors, p \in 1 .. NumPages : disk[s][p].loop # loop
<1>1. /\ Inv /\ pc = "begin_write" /\ host.loop \in Nat /\ host.boot \in Nat
      /\ g.boot \in Nat /\ g.loop \in Nat /\ TypeDevice
  BY Typed DEF Known, BeginWriting
<1>2. PICK start, n, loop : start = StartLsn /\ loop = g.loop /\ n = Position(loop, start)
  OBVIOUS
<1>3. /\ host' = [lsn |-> start, loop |-> g.loop, boot |-> g.boot] /\ idx' = n
  BY <1>2 DEF BeginWriting, WriteInfo
<1>4. host'.loop = loop /\ host'.boot = g.boot /\ host'.lsn = start
  BY <1>2, <1>3
<1>5. First' = n
  BY <1>2, <1>4 DEF First, Position
<1>6. host.boot < g.boot /\ g.boot \in Nat \ {0}
  BY <1>1 DEF Inv, Shape, HostAndPhase, PhasePlaces, Writing
<1>7. /\ host.boot = 0 => start = FirstLsn(1) /\ g.loop = 1 /\ host.loop = 0
      /\ host.boot # 0 => start = g.wLsn /\ Found(loop, start)
  <2>1. CASE host.boot = 0
    BY <1>1, <1>2, <2>1
    DEF Inv, Shape, FirstBoot, StartLsn, Known, OfStorage, DiskOfPhase
  <2>2. CASE host.boot # 0
    <3>1. start = g.wLsn
      BY <1>1, <1>2, <2>2 DEF Inv, Shape, FirstBoot, StartLsn
    <3> QED BY <1>1, <1>2, <2>2, <3>1 DEF Known, OfVerdict, ResumeKnown
  <2> QED BY <2>1, <2>2
<1>8. start \in Sectors
  <2>1. CASE host.boot = 0
    BY <1>7, <2>1, PositionFacts
  <2>2. CASE host.boot # 0
    BY <1>1, <1>7, <2>2 DEF Inv, Loop, Resumes
  <2> QED BY <2>1, <2>2
<1>9. n \in 1 .. Size /\ n \in Nat
  BY <1>1, <1>2, <1>8, PositionFacts, IndexFacts
<1>10. \/ host.boot # 0 /\ loop = host.loop /\ First <= n /\ ~Fresh(n)
       \/ loop = host.loop + 1
  <2>1. CASE host.boot = 0
    BY <1>1, <1>2, <1>7, <2>1
  <2>2. CASE host.boot # 0
    BY <1>1, <1>2, <1>7, <2>2 DEF Found
  <2> QED BY <2>1, <2>2
<1>11. ASSUME NEW s \in Sectors, NEW p \in 1 .. NumPages
       PROVE  /\ disk[s][p] \in PageType
              /\ disk[s][p].loop \in Nat /\ disk[s][p].loop <= host.loop
              /\ disk[s][p].boot # g.boot
  <2>1. disk[s][p] \in PageType
    BY <1>1, PageTypes
  <2>2. disk[s][p].loop \in Nat /\ disk[s][p].boot \in Nat
    BY <2>1 DEF PageType
  <2>3. disk[s][p].loop <= host.loop
    BY DEF Known, OfStorage, DiskOfPhase, PageOfPhase
  <2>4. disk[s][p].boot <= host.boot
    BY <1>1 DEF Inv, Pages, DiskKnown, PageKnown
  <2> QED BY <1>1, <1>6, <2>1, <2>2, <2>3, <2>4
<1>12. loop \in Nat /\ loop >= host.loop
  BY <1>1, <1>2, <1>10
<1>13. \A s \in Sectors, p \in 1 .. NumPages :
         /\ disk[s][p].loop <= loop /\ disk[s][p].boot # host'.boot /\ disk[s][p] \in PageType
         /\ loop = host.loop + 1 => disk[s][p].loop # loop
  BY <1>1, <1>4, <1>11, <1>12
<1>14. \/ /\ host.boot # 0 /\ loop = host.loop
          /\ First <= n /\ ~Fresh(n)
       \/ \A s \in Sectors, p \in 1 .. NumPages : disk[s][p].loop # loop
  BY <1>10, <1>13
<1> QED BY <1>3, <1>4, <1>5, <1>6, <1>9, <1>12, <1>13, <1>14

LEMMA KnownBeginWriting == Known /\ BeginWriting /\ UNCHANGED storage => Known'
<1> SUFFICES ASSUME Known, BeginWriting, UNCHANGED storage PROVE Known'
  OBVIOUS
<1>1. /\ Inv /\ Inv' /\ g \in State /\ pc = "begin_write"
      /\ pc \notin PhasePlaces \cup {"repeat"} /\ g.loop \in Nat
  BY InvBeginWriting, Typed DEF Known, BeginWriting, PhasePlaces, Writing
<1>2. /\ pc' = "write" /\ before' = disk /\ durable' = {} /\ lost' = {}
      /\ UNCHANGED <<storage, sdcrash, e, armed, disk, cache>>
  BY DEF BeginWriting
<1>3. /\ g'.flushPos = g.flushPos /\ g'.firstCommit = g.firstCommit /\ g'.require = g.require
  BY <1>1 DEF BeginWriting, State
<1>4. PICK n \in 1 .. Size, loop \in Nat :
        /\ host'.loop = loop /\ host'.boot = g.boot /\ First' = n /\ idx' = n
        /\ host'.boot \in Nat \ {0} /\ n \in Nat
        /\ \A s \in Sectors, p \in 1 .. NumPages :
             /\ disk[s][p].loop <= loop /\ disk[s][p].boot # host'.boot
             /\ disk[s][p] \in PageType
        /\ \/ /\ host.boot # 0 /\ loop = host.loop
              /\ First <= n /\ ~Fresh(n)
           \/ \A s \in Sectors, p \in 1 .. NumPages : disk[s][p].loop # loop
  BY PhaseBegins
<1>5. /\ \A i \in 1 .. Size : Sector(i)' \in Sectors
      /\ loop = host.loop => \A i : Sector(i)' = Sector(i)
  BY <1>4, PatternFacts DEF Sector
<1>6. \A i \in 1 .. Size : (OfLoop(i)' => loop = host.loop /\ OfLoop(i))
  BY <1>2, <1>4, <1>5 DEF OfLoop
<1>7. DiskOfPhase'
  BY <1>2, <1>4 DEF Known, OfStorage, DiskOfPhase, PageOfPhase
<1>8. CacheOfPhase' /\ AllSent' /\ CommitPlaces'
  <2>1. Cached' = {}
    BY <1>1, <1>2 DEF Inv, Pages, CacheKnown, Cached
  <2>2. n .. n - 1 = {}
    BY <1>4
  <2> QED BY <1>2, <1>4, <2>1, <2>2 DEF CacheOfPhase, AllSent, CommitPlaces
<1>9. EvidenceProves'
  <2> SUFFICES ASSUME storage # "lossy", NEW j \in 1 .. Size, Shows(j)' PROVE FreshTo(j - 1)'
    BY <1>2 DEF EvidenceProves
  <2>1. OfLoop(j)'
    BY DEF Shows, OfLoop
  <2>2. loop = host.loop /\ OfLoop(j)
    BY <1>6, <2>1
  <2>3. host.boot # 0 /\ First <= n /\ ~Fresh(n)
    BY <1>4, <1>5, <2>2 DEF OfLoop
  <2>4. Shows(j)
    BY <1>2, <1>3, <1>4, <1>5, <2>2 DEF Shows
  <2>5. FreshTo(j - 1)
    BY <2>3, <2>4 DEF Known, OfStorage, EvidenceProves
  <2>6. First \in Nat /\ Size \in Nat
    BY <1>1, <2>3, PhaseFacts
  <2>7. ~(n <= j - 1)
    <3>1. ~(n \in First .. j - 1)
      BY <2>3, <2>5 DEF FreshTo
    <3> QED BY <1>4, <2>3, <2>6, <3>1
  <2>8. n .. j - 1 = {}
    BY <1>4, <2>6, <2>7
  <2> QED BY <1>4, <2>8 DEF FreshTo
<1>10. Commits'
  <2> SUFFICES ASSUME CacheOn PROVE Commits'
    BY DEF Commits
  <2>1. ~g'.firstCommit
    BY <1>1, <1>3 DEF Known, OfStorage, Armed
  <2>2. PICK d : d = n - 1
    OBVIOUS
  <2>3. d \in n - 1 .. n - 1 /\ n .. d = {} /\ d + 1 .. n - 1 = {}
    BY <1>4, <2>2
  <2>4. CommittedTo(d)'
    BY <1>4, <2>1, <2>3 DEF CommittedTo
  <2>5. d \in (First - 1 .. idx - 1)'
    BY <1>4, <2>3
  <2>6. ~Committing'
    BY <1>2 DEF Committing
  <2> QED BY <2>4, <2>5, <2>6 DEF Commits
<1>11. Armed'
  BY <1>2, <1>3 DEF Known, OfStorage, Armed, PhasePlaces, Writing
<1>12. Ahead'
  <2> SUFFICES ASSUME ~CacheOn PROVE Ahead'
    BY DEF Ahead
  <2>1. durable' = {Sector(i) : i \in First .. idx - 1}'
    <3>1. n .. n - 1 = {}
      BY <1>4
    <3> QED BY <1>2, <1>4, <3>1
  <2>2. ASSUME storage # "lossy"
        PROVE  /\ \A i \in n + 1 .. Size : ~OfLoop(i)'
               /\ disk[Sector(n)'][NumPages].loop # loop
    <3>1. CASE \A s \in Sectors, p \in 1 .. NumPages : disk[s][p].loop # loop
      <4>1. \A i \in n + 1 .. Size : i \in 1 .. Size
        BY <1>4
      <4> QED BY <1>2, <1>4, <1>5, <3>1, <4>1, LastPage DEF OfLoop
    <3>2. CASE host.boot # 0 /\ loop = host.loop /\ First <= n /\ ~Fresh(n)
      <4>1. PICK c \in First .. Size + 1 : CutAt(c)
        BY <1>1, <3>2 DEF Known, CutKnown, InPhase
      <4>2. First \in Nat \ {0} /\ Size \in Nat /\ c \in Nat
        BY <1>1, <3>2, <4>1, PhaseFacts
      <4>3. /\ lost = {} /\ \A i \in First .. c - 1 : Fresh(i)
            /\ \A i \in c + 1 .. Size : ~OfLoop(i)
        BY <2>2, <4>1 DEF CutAt
      <4>4. n >= c
        <5>1. ~(n \in First .. c - 1)
          BY <3>2, <4>3
        <5> QED BY <1>4, <3>2, <4>2, <5>1
      <4>5. \A i \in n + 1 .. Size : i \in c + 1 .. Size /\ i \in 1 .. Size
        BY <1>4, <4>2, <4>4
      <4>6. disk[Sector(n)][NumPages].loop # loop
        <5>1. CASE n = c
          BY <1>4, <2>2, <3>2, <4>1, <5>1 DEF CutAt
        <5>2. CASE n # c
          <6>1. n \in c + 1 .. Size
            BY <1>4, <4>2, <4>4, <5>2
          <6> QED BY <3>2, <4>3, <6>1, LastPage DEF OfLoop
        <5> QED BY <5>1, <5>2
      <4> QED BY <1>5, <1>6, <3>2, <4>3, <4>5, <4>6
    <3> QED BY <1>4, <3>1, <3>2
  <2>3. /\ \A i \in (idx .. Size)' : disk'[Sector(i)'] = before'[Sector(i)']
    BY <1>2
  <2> QED BY <1>2, <1>4, <2>1, <2>2, <2>3 DEF Ahead
<1>13. OfStorage' /\ CutKnown' /\ OfVerdict'
  <2>1. CutKnown'
    BY <1>2 DEF CutKnown, InPhase, PhasePlaces, Writing
  <2>2. OfVerdict'
    BY <1>2 DEF Known, OfVerdict, WalkKnown, ResumeKnown, NoFalseCrash, Good
  <2> QED BY <1>7, <1>8, <1>9, <1>10, <1>11, <1>12, <2>1, <2>2 DEF OfStorage
<1> QED BY <1>1, <1>13 DEF Known

-------------------------------------------------------------------------------
(* Told to cut, the driver was told so after the first commit.              *)
LEMMA IssueCommits ==
  ASSUME g \in State, armed \in BOOLEAN, Issue
  PROVE  /\ g'.flushPos = g.flushPos /\ g'.poffPos = g.poffPos
         /\ g'.firstCommit <=> (g.firstCommit \/ IsCommit)
         /\ (armed \/ g.require => g.firstCommit) => (armed' \/ g'.require => g'.firstCommit)
<1>1. PICK commit \in BOOLEAN : commit = (g.firstCommit \/ IsCommit)
  BY DEF State
<1>2. CASE g.require
  <2>1. g' = [g EXCEPT !.firstCommit = commit] /\ armed' = TRUE
    BY <1>1, <1>2 DEF Issue
  <2> QED BY <1>1, <1>2, <2>1 DEF State
<1>3. CASE ~g.require
  <2>1. MayArm(commit)
    BY <1>1, <1>3 DEF Issue
  <2>2. CASE UNCHANGED armed /\ g' = [g EXCEPT !.firstCommit = commit]
    BY <1>1, <2>2 DEF State
  <2>3. CASE /\ commit /\ armed' = TRUE
             /\ g' = [g EXCEPT !.firstCommit = commit, !.require = TRUE]
    BY <1>1, <2>3 DEF State
  <2> QED BY <2>1, <2>2, <2>3 DEF MayArm
<1> QED BY <1>2, <1>3

(* While only the program goes on within a phase, its pages stay.           *)
LEMMA PhaseStays ==
  ASSUME OfStorage, pc \in PhasePlaces \ {"flush2"}, pc' # "flush2",
         UNCHANGED <<storage, host, idx, disk, cache, before, durable, lost>>,
         g'.flushPos = g.flushPos \/ ~CacheOn
  PROVE  /\ DiskOfPhase' /\ CacheOfPhase' /\ AllSent' /\ EvidenceProves'
         /\ First' = First /\ Cached' = Cached
         /\ \A i : /\ Sector(i)' = Sector(i) /\ (Fresh(i)' <=> Fresh(i))
                   /\ (OfLoop(i)' <=> OfLoop(i))
<1>1. First' = First /\ \A i : Sector(i)' = Sector(i) /\ Due(i)' = Due(i)
  BY HostStays
<1>2. /\ storage' = storage /\ host' = host /\ idx' = idx /\ disk' = disk /\ cache' = cache
      /\ before' = before
  OBVIOUS
<1>3. \A i : (Fresh(i)' <=> Fresh(i)) /\ (OfLoop(i)' <=> OfLoop(i)) /\ (Sent(i)' <=> Sent(i))
  BY <1>1, <1>2 DEF Fresh, OfLoop, Sent, Content
<1>4. \A i : (Shows(i)' <=> Shows(i)) /\ (FreshTo(i)' <=> FreshTo(i))
  BY <1>1, <1>2, <1>3 DEF Shows, FreshTo
<1>5. Cached' = Cached
  BY <1>2 DEF Cached
<1>6. DiskOfPhase'
  BY <1>1, <1>2 DEF OfStorage, DiskOfPhase, PageOfPhase
<1>7. CacheOfPhase'
  BY <1>1, <1>2, <1>5 DEF OfStorage, CacheOfPhase, PageOfPhase
<1>8. AllSent'
  BY <1>1, <1>2, <1>3 DEF OfStorage, AllSent, InPhase
<1>9. EvidenceProves'
  BY <1>2, <1>4 DEF OfStorage, EvidenceProves
<1> QED BY <1>1, <1>3, <1>5, <1>6, <1>7, <1>8, <1>9

LEMMA KnownWrite == Known /\ Write /\ UNCHANGED storage => Known'
<1> SUFFICES ASSUME Known, Write, UNCHANGED storage PROVE Known'
  OBVIOUS
<1>1. /\ Inv /\ Inv' /\ g \in State /\ armed \in BOOLEAN /\ pc = "write"
      /\ pc \in PhasePlaces \ {"flush2"} /\ pc \in Writing
  BY InvWrite, Typed DEF Known, Write, TypeDevice, PhasePlaces, Writing
<1>2. UNCHANGED <<host, sdcrash, e, idx, count, disk, cache, before, durable, lost>>
  BY DEF Write
<1>3. /\ \/ IsCommit /\ pc' = "flush1"
         \/ ~IsCommit /\ pc' = "writing"
      /\ g'.flushPos = g.flushPos /\ (g'.firstCommit <=> g.firstCommit)
      /\ (armed \/ g.require => g.firstCommit) => (armed' \/ g'.require => g'.firstCommit)
  <2>1. CASE IsCommit
    BY <2>1 DEF Write
  <2>2. CASE ~IsCommit
    <3>1. Issue /\ pc' = "writing"
      BY <2>2 DEF Write, Issue
    <3> QED BY <1>1, <2>2, <3>1, IssueCommits
  <2> QED BY <2>1, <2>2
<1>4. /\ DiskOfPhase' /\ CacheOfPhase' /\ AllSent' /\ EvidenceProves'
      /\ First' = First /\ Cached' = Cached
      /\ \A i : /\ Sector(i)' = Sector(i) /\ (Fresh(i)' <=> Fresh(i))
                /\ (OfLoop(i)' <=> OfLoop(i))
  BY <1>1, <1>2, <1>3, PhaseStays DEF Known
<1>5. IsCommit' <=> IsCommit
  BY <1>2 DEF IsCommit
<1>6. CommitPlaces'
  BY <1>3, <1>5 DEF CommitPlaces
<1>7. Commits'
  <2> SUFFICES ASSUME CacheOn PROVE Commits'
    BY DEF Commits
  <2>1. PICK d \in First - 1 .. idx - 1 : CommittedTo(d)
    BY <1>1 DEF Known, OfStorage, Commits, InPhase, Committing
  <2>2. CommittedTo(d)'
    BY <1>2, <1>3, <1>4, <2>1 DEF CommittedTo
  <2>3. d \in (First - 1 .. idx - 1)'
    BY <1>2, <1>4, <2>1
  <2>4. ~Committing'
    BY <1>3, <1>5 DEF Committing
  <2> QED BY <2>2, <2>3, <2>4 DEF Commits
<1>8. Armed'
  BY <1>3 DEF Known, OfStorage, Armed, PhasePlaces, Writing
<1>9. Ahead'
  <2> SUFFICES ASSUME ~CacheOn PROVE Ahead'
    BY DEF Ahead
  <2>1. {Sector(i) : i \in First .. idx - 1}' = {Sector(i) : i \in First .. idx - 1}
    BY <1>2, <1>4
  <2> QED BY <1>1, <1>2, <1>4, <2>1 DEF Known, OfStorage, Ahead
<1>10. CutKnown' /\ OfVerdict'
  <2>1. CutKnown'
    BY <1>3 DEF CutKnown, InPhase, PhasePlaces, Writing
  <2>2. OfVerdict'
    BY <1>2, <1>3 DEF Known, OfVerdict, WalkKnown, ResumeKnown, NoFalseCrash, Good
  <2> QED BY <2>1, <2>2
<1> QED BY <1>1, <1>4, <1>6, <1>7, <1>8, <1>9, <1>10 DEF Known, OfStorage

(* A request of the phase carries what is due at its position.              *)
LEMMA WritesTheDue ==
  ASSUME Inv, pc \in {"flush1", "writing", "flush2"}
  PROVE  /\ idx \in 1 .. Size /\ idx \in Nat /\ First \in Nat \ {0} /\ Size \in Nat
         /\ First <= idx /\ host.boot # 0
         /\ CurrentLsn = Sector(idx) /\ CurrentLsn \in Sectors
         /\ Request(Header(g.loop, g.boot, count)) = [p \in 1 .. NumPages |-> Due(idx)]
         /\ IsCommit <=> CacheOn /\ DO_CACHE_FLUSH(idx - First + 1)
<1>1. /\ pc \in PhasePlaces /\ pc \in Writing /\ idx <= Size /\ idx \in Nat
  BY Typed DEF PhasePlaces, Writing, Inv, Shape, RequestAtHand
<1>2. /\ host.boot # 0 /\ host.boot = g.boot /\ g.loop = host.loop
      /\ First <= idx /\ count = idx - First + 1
      /\ idx \in 1 .. Size /\ CurrentLsn \in Sectors /\ CurrentLsn = Sector(idx)
  BY <1>1, Current DEF Sector
<1>3. First \in Nat \ {0} /\ Size \in Nat
  BY <1>2, PhaseFacts
<1>4. Request(Header(g.loop, g.boot, count)) = [p \in 1 .. NumPages |-> Due(idx)]
  BY <1>2 DEF Request, Due
<1> QED BY <1>1, <1>2, <1>3, <1>4 DEF IsCommit

(* What a phase writes is what belongs there, and never garbled.            *)
LEMMA DueBelongs ==
  ASSUME Inv, host.boot # 0, NEW i \in 1 .. Size
  PROVE  /\ PageOfPhase(Sector(i), Due(i)) /\ Due(i).magic # "BAD"
         /\ Due(i).loop = host.loop /\ Due(i).boot = host.boot
<1>1. Position(host.loop, Sector(i)) = i /\ host.loop \in Nat
  BY PhaseFacts
<1>2. Due(i).loop = host.loop /\ Due(i).boot = host.boot /\ Due(i).magic # "BAD"
  BY DueFacts
<1> QED BY <1>1, <1>2 DEF PageOfPhase, Due

LEMMA KnownWriteThrough ==
  ASSUME Known, WriteDone, UNCHANGED storage, ~CacheOn
  PROVE  OfStorage'
<1>1. /\ Inv /\ pc = "writing" /\ pc \in Writing /\ pc \in PhasePlaces /\ TypeDevice
      /\ host.loop \in Nat
  BY Typed DEF Known, WriteDone, Writing, PhasePlaces
<1>2. /\ idx \in 1 .. Size /\ idx \in Nat /\ First \in Nat \ {0} /\ Size \in Nat
      /\ First <= idx /\ host.boot # 0
      /\ CurrentLsn = Sector(idx) /\ CurrentLsn \in Sectors
      /\ Request(Header(g.loop, g.boot, count)) = [p \in 1 .. NumPages |-> Due(idx)]
  BY <1>1, WritesTheDue
<1>3. PICK n, at, due : n = idx /\ at = Sector(idx) /\ due = Due(idx)
  OBVIOUS
<1>4. /\ disk' = [disk EXCEPT ![at] = [p \in 1 .. NumPages |-> due]]
      /\ durable' = durable \cup {at}
      /\ pc' = "write" /\ idx' = n + 1
      /\ UNCHANGED <<storage, g, host, armed, cache, before, lost>>
  BY <1>2, <1>3 DEF WriteDone, Advance, IsCommit
<1>5. /\ First' = First /\ \A i : Sector(i)' = Sector(i) /\ Due(i)' = Due(i)
  BY <1>4, HostStays
<1>6. /\ \A p \in 1 .. NumPages : disk'[at][p] = due
      /\ \A s \in Sectors : s # at => disk'[s] = disk[s]
  BY <1>1, <1>2, <1>3, <1>4 DEF TypeDevice
<1>7. \A i \in 1 .. Size : i # n => Sector(i) \in Sectors /\ Sector(i) # at
  BY <1>1, <1>2, <1>3, PhaseFacts
<1>8. \A i \in 1 .. Size : i # n => /\ Fresh(i)' <=> Fresh(i)
                                    /\ OfLoop(i)' <=> OfLoop(i)
                                    /\ disk'[Sector(i)] = disk[Sector(i)]
  BY <1>4, <1>5, <1>6, <1>7 DEF Fresh, OfLoop
<1>9. Fresh(n)'
  BY <1>3, <1>5, <1>6 DEF Fresh
<1>10. Cached = {} /\ Cached' = {}
  BY <1>1, <1>4 DEF Inv, Pages, CacheKnown, Cached
<1>11. \A i \in First .. n - 1 : Fresh(i) /\ i \in 1 .. Size /\ i # n
  <2> TAKE i \in First .. n - 1
  <2>1. i \in 1 .. Size /\ i # n
    BY <1>2, <1>3
  <2>2. Sent(i)
    BY <1>1, <1>3 DEF Known, OfStorage, AllSent, InPhase
  <2>3. Content(Sector(i)) = disk[Sector(i)]
    <3>1. Sector(i) \in Sectors
      BY <1>1, <1>2, <2>1, PhaseFacts
    <3> QED BY <1>10, <3>1 DEF Content, Cached
  <2> QED BY <2>1, <2>2, <2>3 DEF Sent, Fresh
<1>12. \A i \in First .. n : Fresh(i)' /\ i \in 1 .. Size
  <2>1. \A i \in First .. n : i \in First .. n - 1 \/ i = n
    BY <1>2, <1>3
  <2> QED BY <1>2, <1>3, <1>8, <1>9, <1>11, <2>1
<1>13. DiskOfPhase'
  <2>1. ASSUME NEW s \in Sectors, NEW p \in 1 .. NumPages
        PROVE  PageOfPhase(s, disk'[s][p]) /\ (storage # "lossy" => disk'[s][p].magic # "BAD")
    <3>1. CASE s = at
      BY <1>1, <1>2, <1>3, <1>6, <3>1, DueBelongs
    <3>2. CASE s # at
      BY <1>6, <3>2 DEF Known, OfStorage, DiskOfPhase
    <3> QED BY <3>1, <3>2
  <2>2. \A s \in Sectors, p \in 1 .. NumPages : PageOfPhase(s, disk[s][p])'
    BY <1>4, <1>5, <2>1 DEF PageOfPhase
  <2> QED BY <1>2, <1>4, <2>1, <2>2 DEF Known, OfStorage, DiskOfPhase
<1>14. CacheOfPhase'
  BY <1>10 DEF CacheOfPhase
<1>15. AllSent'
  <2>1. \A i \in First .. n : Sent(i)'
    <3> TAKE i \in First .. n
    <3>1. Fresh(i)' /\ Sector(i)' \in Sectors
      BY <1>1, <1>2, <1>5, <1>12, PhaseFacts
    <3>2. Content(Sector(i))' = disk'[Sector(i)']
      BY <1>10, <3>1 DEF Content, Cached
    <3> QED BY <3>1, <3>2 DEF Sent, Fresh
  <2>2. n = idx' - 1 /\ First' = First
    BY <1>2, <1>3, <1>4, <1>5
  <2> QED BY <1>4, <2>1, <2>2 DEF AllSent
<1>16. EvidenceProves'
  <2> SUFFICES ASSUME storage # "lossy", NEW j \in 1 .. Size, Shows(j)' PROVE FreshTo(j - 1)'
    BY <1>4 DEF EvidenceProves
  <2>1. \A i \in First .. j - 1 : i \in 1 .. Size
    BY <1>2
  <2>2. CASE j = n
    BY <1>5, <1>8, <1>11, <2>2 DEF FreshTo
  <2>3. CASE j # n
    <3>1. Shows(j)
      BY <1>4, <1>5, <1>8, <2>3 DEF Shows
    <3>2. FreshTo(j - 1)
      BY <1>2, <3>1 DEF Known, OfStorage, EvidenceProves
    <3> QED BY <1>5, <1>8, <1>9, <2>1, <3>2 DEF FreshTo
  <2> QED BY <2>2, <2>3
<1>17. CommitPlaces' /\ Commits' /\ Armed'
  BY <1>4 DEF CommitPlaces, Commits, Armed
<1>18. Ahead'
  <2>1. lost = {} /\ durable = {Sector(i) : i \in First .. n - 1}
    BY <1>1, <1>3 DEF Known, OfStorage, Ahead
  <2>2. durable' = {Sector(i) : i \in First .. n}
    <3>1. First .. n = (First .. n - 1) \cup {n}
      BY <1>2, <1>3
    <3> QED BY <1>3, <1>4, <2>1, <3>1
  <2>3. {Sector(i) : i \in First .. idx - 1}' = {Sector(i) : i \in First .. n}
    <3>1. idx' - 1 = n
      BY <1>2, <1>3, <1>4
    <3> QED BY <1>5, <3>1
  <2>4. ASSUME NEW i \in n + 1 .. Size
        PROVE  /\ disk'[Sector(i)'] = before'[Sector(i)']
               /\ storage # "lossy" => ~OfLoop(i)'
    <3>1. i \in 1 .. Size /\ i # n /\ i \in idx .. Size /\ i \in idx + 1 .. Size
      BY <1>2, <1>3
    <3> QED BY <1>1, <1>4, <1>5, <1>8, <3>1 DEF Known, OfStorage, Ahead
  <2>5. storage # "lossy" /\ n + 1 <= Size => disk'[Sector(n + 1)'][NumPages].loop # host.loop
    <3> SUFFICES ASSUME storage # "lossy", n + 1 <= Size
                 PROVE  disk'[Sector(n + 1)'][NumPages].loop # host.loop
      OBVIOUS
    <3>1. n + 1 \in n + 1 .. Size
      BY <1>2, <1>3
    <3> QED BY <1>4, <2>4, <3>1, LastPage DEF OfLoop
  <2>6. \A i \in n + 2 .. Size : i \in n + 1 .. Size
    BY <1>2, <1>3
  <2>7. n + 1 + 1 = n + 2
    BY <1>2, <1>3
  <2> QED BY <1>4, <2>1, <2>2, <2>3, <2>4, <2>5, <2>6, <2>7 DEF Ahead
<1> QED BY <1>13, <1>14, <1>15, <1>16, <1>17, <1>18 DEF OfStorage

LEMMA KnownWriteToCache ==
  ASSUME Known, WriteDone, UNCHANGED storage, CacheOn
  PROVE  OfStorage'
<1>1. /\ Inv /\ pc = "writing" /\ pc \in Writing /\ pc \in PhasePlaces /\ TypeDevice
      /\ host.loop \in Nat /\ cache \in [Sectors -> {<<>>} \cup PageSeq]
  BY Typed DEF Known, WriteDone, Writing, PhasePlaces, Inv, Pages, CacheKnown
<1>2. /\ idx \in 1 .. Size /\ idx \in Nat /\ First \in Nat \ {0} /\ Size \in Nat
      /\ First <= idx /\ host.boot # 0
      /\ CurrentLsn = Sector(idx) /\ CurrentLsn \in Sectors
      /\ Request(Header(g.loop, g.boot, count)) = [p \in 1 .. NumPages |-> Due(idx)]
      /\ IsCommit <=> DO_CACHE_FLUSH(idx - First + 1)
  BY <1>1, WritesTheDue
<1>3. PICK n, at, due, pages : /\ n = idx /\ at = Sector(idx) /\ due = Due(idx)
                               /\ pages = [p \in 1 .. NumPages |-> due]
  OBVIOUS
<1>4. /\ cache' = [cache EXCEPT ![at] = pages]
      /\ UNCHANGED <<storage, g, host, armed, disk, before, durable, lost>>
      /\ \/ IsCommit /\ pc' = "flush2" /\ idx' = n /\ count' = count
         \/ ~IsCommit /\ pc' = "write" /\ idx' = n + 1
  BY <1>2, <1>3 DEF WriteDone, Advance
<1>5. /\ First' = First /\ \A i : Sector(i)' = Sector(i) /\ Due(i)' = Due(i)
  BY <1>4, HostStays
<1>6. pages # <<>> /\ \A p \in 1 .. NumPages : pages[p] = due
  <2>1. DOMAIN pages # {} /\ DOMAIN <<>> = {}
    BY <1>3, CaseAssumption
  <2> QED BY <1>3, <2>1
<1>7. cache'[at] = pages /\ \A s \in Sectors : s # at => cache'[s] = cache[s]
  BY <1>1, <1>2, <1>3, <1>4
<1>8. \A s \in Cached' : s = at \/ s \in Cached
  BY <1>7 DEF Cached
<1>9. \A i \in 1 .. Size : i # n => Sector(i) \in Sectors /\ Sector(i) # at
  BY <1>1, <1>2, <1>3, PhaseFacts
<1>10. \A i : (Fresh(i)' <=> Fresh(i)) /\ (Shows(i)' <=> Shows(i)) /\ (FreshTo(i)' <=> FreshTo(i))
  <2>1. \A i : Fresh(i)' <=> Fresh(i)
    BY <1>4, <1>5 DEF Fresh
  <2> QED BY <1>4, <1>5, <2>1 DEF Shows, FreshTo
<1>11. DiskOfPhase' /\ EvidenceProves'
  BY <1>4, <1>5, <1>10 DEF Known, OfStorage, DiskOfPhase, PageOfPhase, EvidenceProves
<1>12. CacheOfPhase'
  <2>1. ASSUME NEW s \in Cached'
        PROVE  /\ \A p \in 1 .. NumPages : PageOfPhase(s, cache'[s][p])
               /\ \/ Position(host.loop, s) < idx'
                  \/ pc' = "flush2" /\ Position(host.loop, s) = idx'
    <3>1. CASE s = at
      <4>1. Position(host.loop, s) = n
        BY <1>1, <1>2, <1>3, <3>1, PhaseFacts
      <4>2. \A p \in 1 .. NumPages : PageOfPhase(s, cache'[s][p])
        BY <1>1, <1>2, <1>3, <1>6, <1>7, <3>1, DueBelongs
      <4> QED BY <1>2, <1>3, <1>4, <4>1, <4>2
    <3>2. CASE s # at
      <4>1. s \in Cached /\ s \in Sectors /\ cache'[s] = cache[s]
        BY <1>7, <1>8, <3>2 DEF Cached
      <4>2. /\ \A p \in 1 .. NumPages : PageOfPhase(s, cache[s][p])
            /\ Position(host.loop, s) < idx
        BY <1>1, <4>1 DEF Known, OfStorage, CacheOfPhase
      <4>3. Position(host.loop, s) \in Nat
        BY <1>1, <1>2, <4>1, PhaseFacts, IndexFacts
      <4>4. Position(host.loop, s) < idx'
        BY <1>2, <1>3, <1>4, <4>2, <4>3
      <4> QED BY <4>1, <4>2, <4>4
    <3> QED BY <3>1, <3>2
  <2>2. host' = host /\ First' = First
    BY <1>4, <1>5
  <2> QED BY <2>1, <2>2 DEF CacheOfPhase, PageOfPhase
<1>13. AllSent'
  <2>1. Sent(n)'
    BY <1>3, <1>4, <1>5, <1>6, <1>7 DEF Sent, Content
  <2>2. \A i \in First .. n - 1 : Sent(i)'
    <3> TAKE i \in First .. n - 1
    <3>1. i \in 1 .. Size /\ i # n
      BY <1>2, <1>3
    <3>2. Sent(i)
      BY <1>1, <1>3 DEF Known, OfStorage, AllSent, InPhase
    <3> QED BY <1>4, <1>5, <1>7, <1>9, <3>1, <3>2 DEF Sent, Content
  <2>3. \A i \in First .. n : Sent(i)'
    <3>1. \A i \in First .. n : i \in First .. n - 1 \/ i = n
      BY <1>2, <1>3
    <3> QED BY <2>1, <2>2, <3>1
  <2>4. idx' - 1 = IF pc' = "flush2" THEN n - 1 ELSE n
    BY <1>2, <1>3, <1>4
  <2>5. pc' = "flush2" => idx' = n
    BY <1>4
  <2> QED BY <1>5, <2>1, <2>2, <2>3, <2>4, <2>5 DEF AllSent
<1>14. CommitPlaces' /\ Armed'
  <2>1. CommitPlaces'
    BY <1>4 DEF CommitPlaces, IsCommit
  <2>2. Armed'
    BY <1>4 DEF Known, OfStorage, Armed, PhasePlaces, Writing
  <2> QED BY <2>1, <2>2
<1>15. Commits'
  <2>1. \A i \in 1 .. Size : i # n /\ Sector(i) \notin Cached => Sector(i)' \notin Cached'
    BY <1>5, <1>8, <1>9
  <2>2. CASE IsCommit
    <3>1. \A i \in First .. n - 1 : Fresh(i) /\ Sector(i) \notin Cached /\ i \in 1 .. Size /\ i # n
      <4>1. \A i \in First .. n - 1 : i \in 1 .. Size /\ i # n
        BY <1>2, <1>3
      <4> QED BY <1>1, <1>3, <2>2, <4>1 DEF Known, OfStorage, Commits, Committing, InPhase
    <3>2. \A i \in First .. n - 1 : Fresh(i)' /\ Sector(i)' \notin Cached'
      BY <1>10, <2>1, <3>1
    <3>3. Committing' /\ idx' = n
      BY <1>4, <2>2 DEF Committing
    <3> QED BY <1>5, <3>2, <3>3 DEF Commits
  <2>3. CASE ~IsCommit
    <3>1. PICK d \in First - 1 .. n - 1 : CommittedTo(d)
      BY <1>1, <1>3, <2>3 DEF Known, OfStorage, Commits, Committing, InPhase
    <3>2. d \in First - 1 .. n /\ \A i \in First .. d : i \in 1 .. Size /\ i # n
      BY <1>2, <1>3, <3>1
    <3>3. \A i \in First .. d : Fresh(i)' /\ Sector(i)' \notin Cached'
      BY <1>10, <2>1, <3>1, <3>2 DEF CommittedTo
    <3>4. \A i \in d + 1 .. n : ~DO_CACHE_FLUSH(i - First + 1)
      <4>1. \A i \in d + 1 .. n : i \in d + 1 .. n - 1 \/ i = n
        BY <1>2, <1>3, <3>1
      <4> QED BY <1>2, <1>3, <2>3, <3>1, <4>1 DEF CommittedTo
    <3>5. g'.firstCommit => d >= First /\ g'.flushPos = Sector(d)'
      BY <1>4, <1>5, <3>1 DEF CommittedTo
    <3>6. idx' - 1 = n
      BY <1>2, <1>3, <1>4, <2>3
    <3>7. CommittedTo(d)'
      BY <1>5, <3>3, <3>4, <3>5, <3>6 DEF CommittedTo
    <3>8. ~Committing' /\ d \in (First - 1 .. idx - 1)'
      BY <1>4, <1>5, <2>3, <3>2, <3>6 DEF Committing
    <3> QED BY <3>7, <3>8 DEF Commits
  <2> QED BY <2>2, <2>3
<1>16. Ahead'
  BY DEF Ahead
<1> QED BY <1>11, <1>12, <1>13, <1>14, <1>15, <1>16 DEF OfStorage

LEMMA KnownWriteDone == Known /\ WriteDone /\ UNCHANGED storage => Known'
<1> SUFFICES ASSUME Known, WriteDone, UNCHANGED storage PROVE Known'
  OBVIOUS
<1>1. Inv /\ Inv'
  BY InvWriteDone DEF Known
<1>2. pc' \in {"write", "flush2"} /\ UNCHANGED <<storage, sdcrash>>
  BY DEF WriteDone, Advance
<1>3. OfStorage'
  BY KnownWriteThrough, KnownWriteToCache
<1>4. CutKnown'
  BY <1>2 DEF CutKnown, InPhase, PhasePlaces, Writing
<1>5. OfVerdict'
  BY <1>2 DEF Known, OfVerdict, WalkKnown, ResumeKnown, NoFalseCrash, Good
<1> QED BY <1>1, <1>3, <1>4, <1>5 DEF Known

-------------------------------------------------------------------------------
(* After a flush, what the phase has sent is there, and evidence holds.     *)
LEMMA FlushProves ==
  ASSUME Inv, OfStorage, pc \in {"flush1", "flush2", "loop_flush"}, FlushCache,
         UNCHANGED <<storage, host, before>>,
         \A j \in 1 .. Size : j > idx /\ Sector(j) = g'.flushPos => Sector(j) = g.flushPos
  PROVE  /\ DiskOfPhase' /\ EvidenceProves' /\ Cached' = {} /\ First' = First
         /\ \A i : Sector(i)' = Sector(i)
         /\ \A i \in First .. idx - 1 : Fresh(i)' /\ Sent(i)'
         /\ pc = "flush2" => \A i \in First .. idx : Fresh(i)' /\ Sent(i)'
<1>1. /\ pc \in PhasePlaces /\ host.boot # 0 /\ host.loop \in Nat /\ idx \in 1 .. Size + 1
      /\ idx \in Nat
  BY Typed, Current DEF PhasePlaces, Writing
<1>2. First \in Nat \ {0} /\ Size \in Nat /\ First <= Size
  BY <1>1, PhaseFacts
<1>3. /\ disk' = [s \in Sectors |-> IF s \in Cached THEN cache[s] ELSE disk[s]]
      /\ cache' = [s \in Sectors |-> <<>>]
  BY DEF FlushCache
<1>4. Cached' = {} /\ Cached \subseteq Sectors
  BY <1>3 DEF Cached
<1>5. First' = First /\ \A i : Sector(i)' = Sector(i) /\ Due(i)' = Due(i)
  BY HostStays
<1>6. \A i \in 1 .. Size : /\ Sent(i) => Fresh(i)' /\ Sent(i)'
                           /\ Sector(i) \notin Cached => /\ disk'[Sector(i)] = disk[Sector(i)]
                                                         /\ Fresh(i)' <=> Fresh(i)
  <2> TAKE i \in 1 .. Size
  <2>1. Sector(i) \in Sectors
    BY <1>1, PhaseFacts
  <2>2. disk'[Sector(i)] = Content(Sector(i)) /\ Content(Sector(i))' = disk'[Sector(i)']
    BY <1>3, <1>5, <2>1 DEF Content, Cached
  <2>3. Sector(i) \notin Cached => disk'[Sector(i)] = disk[Sector(i)]
    BY <1>3, <2>1
  <2> QED BY <1>5, <2>2, <2>3 DEF Sent, Fresh
<1>7. /\ \A i \in First .. idx - 1 : i \in 1 .. Size /\ Sent(i)
      /\ pc = "flush2" => idx \in 1 .. Size /\ Sent(idx)
  <2>1. \A i \in First .. idx - 1 : i \in 1 .. Size
    BY <1>1, <1>2
  <2>2. pc = "flush2" => idx \in 1 .. Size
    BY WritesTheDue
  <2> QED BY <1>1, <2>1, <2>2 DEF OfStorage, AllSent, InPhase
<1>8. /\ \A i \in First .. idx - 1 : Fresh(i)' /\ Sent(i)'
      /\ pc = "flush2" => \A i \in First .. idx : Fresh(i)' /\ Sent(i)'
  <2>1. \A i \in First .. idx : i \in First .. idx - 1 \/ i = idx
    BY <1>1, <1>2
  <2>2. \A i \in First .. idx : pc = "flush2" => i \in 1 .. Size /\ Sent(i)
    BY <1>7, <2>1
  <2> QED BY <1>6, <1>7, <2>2
<1>9. DiskOfPhase'
  <2>1. ASSUME NEW s \in Sectors, NEW p \in 1 .. NumPages
        PROVE  PageOfPhase(s, disk'[s][p]) /\ (storage # "lossy" => disk'[s][p].magic # "BAD")
    <3>1. CASE s \in Cached
      <4>1. disk'[s] = cache[s]
        BY <1>3, <3>1
      <4>2. PageOfPhase(s, cache[s][p])
        BY <3>1 DEF OfStorage, CacheOfPhase
      <4>3. cache[s][p].boot = host.boot
        BY <3>1 DEF Inv, Pages, CacheKnown
      <4>4. PICK i \in 1 .. Size : s = Sector(i)
        BY <1>1, PhaseFacts
      <4>5. cache[s][p] = Due(i)
        BY <1>1, <4>2, <4>3, <4>4, PageIsDue
      <4>6. Due(i).magic # "BAD"
        BY <1>1, DueBelongs
      <4> QED BY <4>1, <4>2, <4>5, <4>6
    <3>2. CASE s \notin Cached
      <4>1. disk'[s] = disk[s]
        BY <1>3, <3>2
      <4> QED BY <4>1 DEF OfStorage, DiskOfPhase
    <3> QED BY <3>1, <3>2
  <2>2. host' = host /\ before' = before /\ storage' = storage
    OBVIOUS
  <2>3. \A s \in Sectors, p \in 1 .. NumPages : before[s][p].loop <= host.loop
    BY DEF OfStorage, DiskOfPhase
  <2> QED BY <1>1, <1>5, <2>1, <2>2, <2>3 DEF DiskOfPhase, PageOfPhase
<1>10. \A i \in 1 .. Size : Sector(i) \in Cached => i < idx \/ (pc = "flush2" /\ i = idx)
  <2> SUFFICES ASSUME NEW i \in 1 .. Size, Sector(i) \in Cached
               PROVE  i < idx \/ (pc = "flush2" /\ i = idx)
    OBVIOUS
  <2>1. Position(host.loop, Sector(i)) = i
    BY <1>1, PhaseFacts
  <2> QED BY <2>1 DEF OfStorage, CacheOfPhase
<1>11. \A i \in First .. Size : Fresh(i) => Fresh(i)'
  <2> SUFFICES ASSUME NEW i \in First .. Size, Fresh(i) PROVE Fresh(i)'
    OBVIOUS
  <2>1. i \in 1 .. Size /\ (i < idx => i \in First .. idx - 1)
    BY <1>1, <1>2
  <2>2. i = idx => i \in First .. idx
    BY <1>1, <1>2
  <2> QED BY <1>6, <1>8, <1>10, <2>1, <2>2
<1>12. EvidenceProves'
  <2> SUFFICES ASSUME storage # "lossy", NEW j \in 1 .. Size, Shows(j)' PROVE FreshTo(j - 1)'
    BY DEF EvidenceProves
  <2>1. CASE j <= idx
    <3>1. \A i \in First .. j - 1 : i \in First .. idx - 1
      BY <1>1, <1>2, <2>1
    <3> QED BY <1>5, <1>8, <3>1 DEF FreshTo
  <2>2. CASE j > idx
    <3>1. Sector(j) \notin Cached
      BY <1>1, <1>10, <2>2
    <3>2. disk'[Sector(j)] = disk[Sector(j)]
      BY <1>6, <3>1
    <3>3. Shows(j)
      BY <1>5, <2>2, <3>2 DEF Shows
    <3>4. FreshTo(j - 1)
      BY <1>1, <3>3 DEF OfStorage, EvidenceProves
    <3>5. \A i \in First .. j - 1 : i \in First .. Size
      BY <1>1, <1>2
    <3> QED BY <1>5, <1>11, <3>4, <3>5 DEF FreshTo
  <2>3. j <= idx \/ j > idx
    BY <1>1
  <2> QED BY <2>1, <2>2, <2>3
<1> QED BY <1>4, <1>5, <1>8, <1>9, <1>12

LEMMA KnownFirstFlushDone == Known /\ FirstFlushDone /\ UNCHANGED storage => Known'
<1> SUFFICES ASSUME Known, FirstFlushDone, UNCHANGED storage PROVE Known'
  OBVIOUS
<1>1. /\ Inv /\ Inv' /\ OfStorage /\ g \in State /\ armed \in BOOLEAN /\ pc = "flush1"
      /\ IsCommit /\ CacheOn
  BY InvFirstFlushDone, Typed
  DEF Known, FirstFlushDone, TypeDevice, OfStorage, CommitPlaces, IsCommit
<1>2. /\ FlushCache /\ Issue /\ UNCHANGED <<storage, host, sdcrash, e, idx, count, before, lost>>
      /\ pc' = "writing"
  BY DEF FirstFlushDone, Issue
<1>3. /\ g'.flushPos = g.flushPos /\ g'.firstCommit
      /\ (armed \/ g.require => g.firstCommit) => (armed' \/ g'.require => g'.firstCommit)
  BY <1>1, <1>2, IssueCommits
<1>4. /\ DiskOfPhase' /\ EvidenceProves' /\ Cached' = {} /\ First' = First
      /\ \A i : Sector(i)' = Sector(i)
      /\ \A i \in First .. idx - 1 : Fresh(i)' /\ Sent(i)'
  BY <1>1, <1>2, <1>3, FlushProves
<1>5. PICK n : n = idx
  OBVIOUS
<1>6. idx' = n /\ \A i \in First .. n - 1 : Fresh(i)' /\ Sent(i)'
  BY <1>2, <1>4, <1>5
<1>7. CacheOfPhase' /\ AllSent'
  BY <1>2, <1>4, <1>6 DEF CacheOfPhase, AllSent
<1>8. CommitPlaces' /\ Ahead' /\ Armed'
  BY <1>1, <1>2, <1>3 DEF CommitPlaces, Ahead, Armed, PhasePlaces, Writing
<1>9. Commits'
  <2>1. Committing'
    BY <1>1, <1>2 DEF Committing, IsCommit
  <2> QED BY <1>4, <1>6, <2>1 DEF Commits
<1>10. CutKnown' /\ OfVerdict'
  <2>1. CutKnown'
    BY <1>1 DEF CutKnown
  <2>2. OfVerdict'
    BY <1>2 DEF Known, OfVerdict, WalkKnown, ResumeKnown, NoFalseCrash, Good
  <2> QED BY <2>1, <2>2
<1> QED BY <1>1, <1>4, <1>7, <1>8, <1>9, <1>10 DEF Known, OfStorage

LEMMA KnownSecondFlushDone == Known /\ SecondFlushDone /\ UNCHANGED storage => Known'
<1> SUFFICES ASSUME Known, SecondFlushDone, UNCHANGED storage PROVE Known'
  OBVIOUS
<1>1. /\ Inv /\ Inv' /\ OfStorage /\ g \in State /\ pc = "flush2" /\ IsCommit /\ CacheOn
  BY InvSecondFlushDone, Typed
  DEF Known, SecondFlushDone, OfStorage, CommitPlaces, IsCommit
<1>2. /\ FlushCache /\ UNCHANGED <<storage, host, sdcrash, e, armed, before, lost>>
      /\ pc' = "write" /\ idx' = idx + 1
  BY DEF SecondFlushDone, Advance
<1>3. /\ idx \in 1 .. Size /\ idx \in Nat /\ First \in Nat \ {0} /\ Size \in Nat
      /\ First <= idx /\ host.boot # 0 /\ CurrentLsn = Sector(idx)
  BY <1>1, WritesTheDue
<1>4. PICK n, at : n = idx /\ at = Sector(idx)
  OBVIOUS
<1>5. g'.flushPos = at /\ g'.firstCommit = g.firstCommit /\ g'.require = g.require
  BY <1>1, <1>3, <1>4 DEF SecondFlushDone, State
<1>6. \A j \in 1 .. Size : j > idx /\ Sector(j) = g'.flushPos => Sector(j) = g.flushPos
  <2>1. \A j \in 1 .. Size : j > idx => Sector(j) # Sector(idx)
    BY <1>1, <1>3, PhaseFacts
  <2> QED BY <1>4, <1>5, <2>1
<1>7. /\ DiskOfPhase' /\ EvidenceProves' /\ Cached' = {} /\ First' = First
      /\ \A i : Sector(i)' = Sector(i)
      /\ \A i \in First .. n : Fresh(i)' /\ Sent(i)'
  BY <1>1, <1>2, <1>4, <1>6, FlushProves
<1>8. n = idx' - 1 /\ n \in First - 1 .. n /\ n >= First /\ n + 1 .. n = {}
  BY <1>2, <1>3, <1>4
<1>9. CacheOfPhase' /\ AllSent'
  BY <1>2, <1>7, <1>8 DEF CacheOfPhase, AllSent
<1>10. CommitPlaces' /\ Ahead' /\ Armed'
  BY <1>1, <1>2, <1>5 DEF CommitPlaces, Ahead, OfStorage, Armed, PhasePlaces, Writing
<1>11. Commits'
  <2>1. at = Sector(n)'
    BY <1>4, <1>7
  <2>2. CommittedTo(n)'
    BY <1>5, <1>7, <1>8, <2>1 DEF CommittedTo
  <2>3. ~Committing' /\ n \in (First - 1 .. idx - 1)'
    BY <1>2, <1>7, <1>8 DEF Committing
  <2> QED BY <2>2, <2>3 DEF Commits
<1>12. CutKnown' /\ OfVerdict'
  <2>1. CutKnown'
    BY <1>1 DEF CutKnown
  <2>2. OfVerdict'
    BY <1>2 DEF Known, OfVerdict, WalkKnown, ResumeKnown, NoFalseCrash, Good
  <2> QED BY <2>1, <2>2
<1> QED BY <1>1, <1>7, <1>9, <1>10, <1>11, <1>12 DEF Known, OfStorage

LEMMA KnownLoopFlushDone == Known /\ LoopFlushDone /\ UNCHANGED storage => Known'
<1> SUFFICES ASSUME Known, LoopFlushDone, UNCHANGED storage PROVE Known'
  OBVIOUS
<1>1. /\ Inv /\ Inv' /\ OfStorage /\ g \in State /\ pc = "loop_flush" /\ CacheOn
      /\ idx = Size + 1 /\ Size \in Nat
  BY InvLoopFlushDone, Typed, PatternFacts
  DEF Known, LoopFlushDone, OfStorage, CommitPlaces, Inv, Shape, HostAndPhase
<1>2. /\ FlushCache /\ UNCHANGED <<storage, host, sdcrash, e, idx, armed, before, lost>>
      /\ pc' = "repeat"
  BY DEF LoopFlushDone
<1>3. g'.firstCommit = g.firstCommit /\ g'.require = g.require
  BY <1>1 DEF LoopFlushDone, State
<1>4. \A j \in 1 .. Size : ~(j > idx)
  BY <1>1
<1>5. DiskOfPhase' /\ EvidenceProves' /\ Cached' = {}
  BY <1>1, <1>2, <1>4, FlushProves
<1>6. CacheOfPhase' /\ AllSent' /\ CommitPlaces' /\ Commits' /\ Ahead'
  BY <1>1, <1>2, <1>5
  DEF CacheOfPhase, AllSent, CommitPlaces, Commits, Ahead, InPhase, PhasePlaces, Writing
<1>7. Armed'
  BY <1>2, <1>3 DEF Known, OfStorage, Armed
<1>8. CutKnown' /\ OfVerdict'
  <2>1. CutKnown'
    BY <1>1 DEF CutKnown
  <2>2. OfVerdict'
    BY <1>2 DEF Known, OfVerdict, WalkKnown, ResumeKnown, NoFalseCrash, Good
  <2> QED BY <2>1, <2>2
<1> QED BY <1>1, <1>5, <1>6, <1>7, <1>8 DEF Known, OfStorage

LEMMA KnownLoopWritten == Known /\ LoopWritten /\ UNCHANGED storage => Known'
<1> SUFFICES ASSUME Known, LoopWritten, UNCHANGED storage PROVE Known'
  OBVIOUS
<1>1. /\ Inv /\ Inv' /\ OfStorage /\ g \in State /\ g.loop \in Nat /\ pc = "write"
      /\ pc \in Writing /\ pc \in PhasePlaces \ {"flush2"}
      /\ idx \in 1 .. Size + 1 /\ Size \in Nat /\ host.boot # 0 /\ g.loop = host.loop
      /\ First \in Nat \ {0} /\ First <= Size
  <2>1. Inv /\ pc = "write" /\ pc \in Writing /\ pc \in PhasePlaces
    BY DEF Known, LoopWritten, Writing, PhasePlaces
  <2>2. First \in Nat \ {0} /\ First <= Size /\ Size \in Nat
    BY <2>1, Current, PhaseFacts
  <2> QED BY <2>1, <2>2, InvLoopWritten, Typed, Current DEF Known
<1>2. UNCHANGED <<storage, host, sdcrash, e, idx, count, armed, disk, cache, before, durable, lost>>
  BY DEF LoopWritten, device
<1>3. idx = Size + 1
  <2>1. idx > Size
    BY <1>1, PatternFacts DEF LoopWritten
  <2> QED BY <1>1, <2>1
<1>4. /\ CacheOn => pc' = "loop_flush" /\ g'.flushPos = g.flushPos
      /\ ~CacheOn => pc' = "repeat" /\ g'.poffPos = FirstLsn(host.loop + 1)
      /\ g'.firstCommit = g.firstCommit /\ g'.require = g.require
  <2>1. PICK next, first : next = g.loop + 1 /\ first = FirstLsn(g.loop + 1)
    OBVIOUS
  <2>2. CASE CacheOn
    <3>1. g' = [g EXCEPT !.loop = next, !.wLsn = first] /\ pc' = "loop_flush"
      BY <2>1, <2>2 DEF LoopWritten, NextLoopState
    <3> QED BY <1>1, <2>2, <3>1 DEF State
  <2>3. CASE ~CacheOn
    <3>1. PICK state : state = [g EXCEPT !.loop = next, !.wLsn = first]
      OBVIOUS
    <3>2. g' = [state EXCEPT !.poffPos = first, !.flushPos = 0] /\ pc' = "repeat"
      BY <2>1, <2>3, <3>1 DEF LoopWritten, NextLoopState
    <3>3. /\ DOMAIN state = DOMAIN g /\ "poffPos" \in DOMAIN g
          /\ state.firstCommit = g.firstCommit /\ state.require = g.require
      BY <1>1, <3>1 DEF State
    <3>4. g'.poffPos = first /\ g'.firstCommit = g.firstCommit /\ g'.require = g.require
      BY <3>2, <3>3
    <3> QED BY <1>1, <2>1, <2>3, <3>2, <3>4
  <2> QED BY <2>2, <2>3
<1>5. /\ DiskOfPhase' /\ CacheOfPhase' /\ AllSent' /\ EvidenceProves'
      /\ First' = First /\ Cached' = Cached
      /\ \A i : /\ Sector(i)' = Sector(i) /\ (Fresh(i)' <=> Fresh(i))
                /\ (OfLoop(i)' <=> OfLoop(i))
  BY <1>1, <1>2, <1>4, PhaseStays
<1>6. CommitPlaces' /\ Armed'
  BY <1>1, <1>2, <1>4 DEF CommitPlaces, OfStorage, Armed, PhasePlaces, Writing
<1>7. Commits'
  <2> SUFFICES ASSUME CacheOn PROVE Commits'
    BY DEF Commits
  <2>1. PICK d \in First - 1 .. idx - 1 : CommittedTo(d)
    BY <1>1 DEF OfStorage, Commits, InPhase, Committing
  <2>2. CommittedTo(d)'
    BY <1>2, <1>4, <1>5, <2>1 DEF CommittedTo
  <2>3. d \in (First - 1 .. idx - 1)'
    BY <1>2, <1>5, <2>1
  <2>4. ~Committing'
    BY <1>4 DEF Committing
  <2> QED BY <2>2, <2>3, <2>4 DEF Commits
<1>8. Ahead'
  BY <1>4 DEF Ahead, Writing
<1>9. CutKnown'
  <2> SUFFICES ASSUME ~CacheOn PROVE CutKnown'
    BY DEF CutKnown
  <2>1. PICK c : c = Size + 1
    OBVIOUS
  <2>2. c \in First .. Size + 1 /\ ~(c <= Size) /\ c > Size /\ c + 1 .. Size = {}
    BY <1>1, <2>1
  <2>3. lost = {}
    BY <1>1 DEF OfStorage, Ahead
  <2>4. \A i \in First .. c - 1 : Fresh(i)'
    <3> TAKE i \in First .. c - 1
    <3>1. i \in First .. idx - 1 /\ i \in 1 .. Size
      BY <1>1, <1>3, <2>1
    <3>2. Sent(i)
      BY <1>1, <3>1 DEF OfStorage, AllSent, InPhase
    <3>3. cache[Sector(i)] = <<>>
      <4>1. Sector(i) \in Sectors
        BY <1>1, <3>1, PhaseFacts
      <4> QED BY <1>1, <4>1 DEF Inv, Pages, CacheKnown, Cached
    <3> QED BY <1>5, <3>2, <3>3 DEF Sent, Fresh, Content
  <2>5. g'.poffPos = FirstLsn(host'.loop + 1) /\ lost' = {}
    BY <1>2, <1>4, <2>3
  <2>6. CutAt(c)'
    BY <1>5, <2>2, <2>4, <2>5 DEF CutAt
  <2>7. Counted(c)'
    BY <2>2 DEF Counted
  <2>8. c \in (First .. Size + 1)'
    BY <1>5, <2>2
  <2> QED BY <2>6, <2>7, <2>8 DEF CutKnown
<1>10. OfVerdict'
  BY <1>2, <1>4 DEF Known, OfVerdict, WalkKnown, ResumeKnown, NoFalseCrash, Good
<1> QED BY <1>1, <1>5, <1>6, <1>7, <1>8, <1>9, <1>10 DEF Known, OfStorage

-------------------------------------------------------------------------------
(* What a cut does to a request of the phase's loop: nothing; its new pages *)
(* arrive, or with a storage that tears the first of them; or it is lost.   *)
LEMMA CutOutcome ==
  ASSUME Inv, DiskOfPhase, CacheOfPhase, PowerCut, NEW i \in 1 .. Size
  PROVE  \/ Sector(i) \notin lost' /\ disk'[Sector(i)] = disk[Sector(i)]
         \/ /\ Sector(i) \in Cached \cup InFlight
            /\ \/ \A p \in 1 .. NumPages : disk'[Sector(i)][p] = Due(i)
               \/ /\ ~CacheOn /\ storage = "tearing"
                  /\ disk'[Sector(i)][NumPages] = disk[Sector(i)][NumPages]
                  /\ \A p \in 1 .. NumPages : disk'[Sector(i)][p] \in {disk[Sector(i)][p], Due(i)}
         \/ /\ Sector(i) \in lost' /\ storage = "lossy"
            /\ \/ disk'[Sector(i)] = before[Sector(i)]
               \/ \A p \in 1 .. NumPages : disk'[Sector(i)][p] = Garbage
<1>1. /\ TypeDevice /\ pc \in {"flush1", "writing", "flush2", "loop_flush"}
      /\ pc \in PhasePlaces /\ host.boot # 0 /\ Sector(i) \in Sectors
  <2>1. pc \in {"flush1", "writing", "flush2", "loop_flush"} /\ pc \in PhasePlaces
    BY DEF PowerCut, Writing, PhasePlaces
  <2>2. host.boot # 0
    BY <2>1, Current
  <2> QED BY <2>1, <2>2, Typed, PhaseFacts
<1>2. PICK s : s = Sector(i)
  OBVIOUS
<1>3. PICK kept \in Survivors, gone \in Losses, dead \in {"old", "garbage"} :
        \E torn \in [kept -> UNION {Torn(t) : t \in kept}] :
          /\ \A t \in kept : torn[t] \in Torn(t)
          /\ disk' = [t \in Sectors |->
                        IF t \in kept THEN torn[t]
                        ELSE IF t \notin gone THEN disk[t]
                        ELSE IF dead = "old" THEN before[t] ELSE Request(Garbage)]
          /\ lost' = gone
  BY DEF PowerCut
<1>4. PICK torn \in [kept -> UNION {Torn(t) : t \in kept}] :
        /\ \A t \in kept : torn[t] \in Torn(t)
        /\ disk' = [t \in Sectors |->
                      IF t \in kept THEN torn[t]
                      ELSE IF t \notin gone THEN disk[t]
                      ELSE IF dead = "old" THEN before[t] ELSE Request(Garbage)]
        /\ lost' = gone
  BY <1>3
<1>5. kept \subseteq Cached \cup InFlight
  BY DEF Survivors
<1>6. CASE s \in kept
  <2>1. disk'[s] = torn[s] /\ torn[s] \in Torn(s) /\ s \in Cached \cup InFlight
    BY <1>1, <1>2, <1>4, <1>5, <1>6
  <2>2. \A p \in 1 .. NumPages : New(s)[p] = Due(i)
    <3>1. CASE s \in InFlight
      <4>1. pc = "writing" /\ s = CurrentLsn
        BY <3>1 DEF InFlight
      <4>2. /\ CurrentLsn = Sector(idx) /\ idx \in 1 .. Size
            /\ Request(Header(g.loop, g.boot, count)) = [p \in 1 .. NumPages |-> Due(idx)]
        BY <4>1, WritesTheDue
      <4>3. i = idx
        BY <1>1, <1>2, <4>1, <4>2, PhaseFacts
      <4>4. New(s) = [p \in 1 .. NumPages |-> Due(idx)]
        BY <3>1, <4>2 DEF New
      <4> QED BY <4>3, <4>4
    <3>2. CASE s \notin InFlight
      <4>1. New(s) = cache[s] /\ s \in Cached
        BY <2>1, <3>2 DEF New
      <4>2. \A p \in 1 .. NumPages : PageOfPhase(s, cache[s][p])
        BY <4>1 DEF CacheOfPhase
      <4>3. \A p \in 1 .. NumPages : cache[s][p].boot = host.boot
        BY <4>1 DEF Inv, Pages, CacheKnown
      <4> QED BY <1>1, <1>2, <4>1, <4>2, <4>3, PageIsDue
    <3> QED BY <3>1, <3>2
  <2>3. PICK n \in IF storage = "tearing" /\ ~CacheOn THEN 1 .. NumPages ELSE {NumPages} :
          torn[s] = [p \in 1 .. NumPages |-> IF p <= n THEN New(s)[p] ELSE disk[s][p]]
    BY <2>1 DEF Torn
  <2>4. \A p \in 1 .. NumPages : disk'[s][p] = IF p <= n THEN Due(i) ELSE disk[s][p]
    BY <2>1, <2>2, <2>3
  <2>5. NumPages \in Nat /\ n \in 1 .. NumPages
    BY <2>3, LastPage, CaseAssumption
  <2>6. CASE n = NumPages
    <3>1. \A p \in 1 .. NumPages : p <= n
      BY <2>6
    <3> QED BY <1>2, <2>1, <2>4, <3>1
  <2>7. CASE n # NumPages
    <3>1. ~(NumPages <= n) /\ storage = "tearing" /\ ~CacheOn
      BY <2>3, <2>5, <2>7
    <3> QED BY <1>2, <2>1, <2>4, <3>1, LastPage
  <2> QED BY <2>6, <2>7
<1>7. CASE s \notin kept /\ s \notin gone
  BY <1>1, <1>2, <1>4, <1>7
<1>8. CASE s \notin kept /\ s \in gone
  <2>1. storage = "lossy" /\ s \in lost'
    BY <1>4, <1>8 DEF Losses
  <2>2. disk'[s] = IF dead = "old" THEN before[s] ELSE Request(Garbage)
    BY <1>1, <1>2, <1>4, <1>8
  <2>3. \A p \in 1 .. NumPages : Request(Garbage)[p] = Garbage
    BY DEF Request
  <2> QED BY <1>2, <2>1, <2>2, <2>3
<1> QED BY <1>6, <1>7, <1>8

(* What was there before the phase, and garbage, is not what it writes.     *)
LEMMA OldIsNotDue ==
  ASSUME Inv, host.boot # 0, NEW i, NEW s \in Sectors, NEW p \in 1 .. NumPages
  PROVE  before[s][p] # Due(i) /\ Garbage # Due(i)
<1>1. Due(i).boot = host.boot /\ host.boot \in Nat
  BY DueFacts, Typed
<1>2. before[s][p] \in PageType /\ PageOlder(before[s][p])
  BY DEF Inv, Pages, BeforeKnown, PageSeq
<1>3. before[s][p].boot \in Nat
  BY <1>2 DEF PageType
<1> QED BY <1>1, <1>2, <1>3 DEF PageOlder, Garbage

LEMMA CutFreshness ==
  ASSUME Inv, DiskOfPhase, CacheOfPhase, PowerCut, NEW i \in 1 .. Size
  PROVE  /\ Sector(i)' = Sector(i) /\ Due(i)' = Due(i) /\ First' = First
         /\ Fresh(i) /\ Sector(i) \notin lost' => Fresh(i)'
         /\ Sector(i) \in lost' /\ Sector(i) \notin Cached \cup InFlight => ~Fresh(i)'
<1>1. UNCHANGED host
  BY DEF PowerCut
<1>2. Sector(i)' = Sector(i) /\ Due(i)' = Due(i) /\ First' = First
  BY <1>1, HostStays
<1>3. host.boot # 0 /\ Sector(i) \in Sectors
  <2>1. host.boot # 0
    BY Current DEF PowerCut, PhasePlaces, Writing
  <2> QED BY <2>1, PhaseFacts
<1>4. Fresh(i)' <=> \A p \in 1 .. NumPages : disk'[Sector(i)][p] = Due(i)
  BY <1>2 DEF Fresh
<1>5. ASSUME Fresh(i), Sector(i) \notin lost'
      PROVE  \A p \in 1 .. NumPages : disk'[Sector(i)][p] = Due(i)
  <2>1. \A p \in 1 .. NumPages : disk[Sector(i)][p] = Due(i)
    BY <1>5 DEF Fresh
  <2>2. \A p \in 1 .. NumPages : disk'[Sector(i)][p] \in {disk[Sector(i)][p], Due(i)}
    BY <1>5, CutOutcome
  <2> QED BY <2>1, <2>2
<1>6. ASSUME Sector(i) \in lost', Sector(i) \notin Cached \cup InFlight
      PROVE  ~\A p \in 1 .. NumPages : disk'[Sector(i)][p] = Due(i)
  <2>1. \/ disk'[Sector(i)] = before[Sector(i)]
        \/ \A p \in 1 .. NumPages : disk'[Sector(i)][p] = Garbage
    BY <1>6, CutOutcome
  <2>2. disk'[Sector(i)][NumPages] # Due(i)
    BY <1>3, <2>1, LastPage, OldIsNotDue
  <2> QED BY <2>2, LastPage
<1> QED BY <1>2, <1>4, <1>5, <1>6

(* Without a cache: the position of the request that was cut tells all.     *)
LEMMA CutWithoutCache ==
  ASSUME Known, PowerCut, ~CacheOn
  PROVE  EvidenceProves' /\ CutKnown'
<1>1. /\ Inv /\ OfStorage /\ DiskOfPhase /\ CacheOfPhase /\ pc = "writing"
      /\ pc \in Writing /\ pc \in PhasePlaces
  BY DEF Known, OfStorage, PowerCut, CommitPlaces, IsCommit, Writing, PhasePlaces
<1>2. /\ idx \in 1 .. Size /\ idx \in Nat /\ First \in Nat \ {0} /\ Size \in Nat
      /\ First <= idx /\ host.boot # 0 /\ CurrentLsn = Sector(idx)
  BY <1>1, WritesTheDue
<1>3. PICK n, at : n = idx /\ at = Sector(idx)
  OBVIOUS
<1>4. /\ UNCHANGED <<storage, host, idx, before, durable>> /\ pc' = "repeat"
      /\ g'.poffPos = at /\ lost' \subseteq durable
      /\ storage # "lossy" => lost' = {}
  <2>1. g'.poffPos = LastIssued
    BY <1>1, Typed DEF PowerCut, State
  <2> QED BY <1>1, <1>2, <1>3, <2>1 DEF PowerCut, Losses, LastIssued
<1>5. Cached = {} /\ InFlight = {at}
  BY <1>1, <1>2, <1>3 DEF InFlight, Inv, Pages, CacheKnown
<1>6. First' = First /\ \A i : Sector(i)' = Sector(i) /\ Due(i)' = Due(i)
  BY <1>4, HostStays
<1>7. \A i \in 1 .. Size : i # n => Sector(i) \in Sectors /\ Sector(i) \notin Cached \cup InFlight
  BY <1>1, <1>2, <1>3, <1>5, PhaseFacts
<1>8. \A i \in First .. n - 1 : i \in 1 .. Size /\ i # n /\ Fresh(i)
  <2> TAKE i \in First .. n - 1
  <2>1. i \in 1 .. Size /\ i # n
    BY <1>2, <1>3
  <2>2. Sent(i)
    BY <1>1, <1>3 DEF OfStorage, AllSent, InPhase
  <2>3. Content(Sector(i)) = disk[Sector(i)]
    BY <1>5, <1>7, <2>1 DEF Content, Cached
  <2> QED BY <2>1, <2>2, <2>3 DEF Sent, Fresh
<1>9. \A i \in First .. n - 1 : Fresh(i)' <=> Sector(i) \notin lost'
  BY <1>1, <1>7, <1>8, CutFreshness
<1>10. durable = {Sector(i) : i \in First .. n - 1}
  BY <1>1, <1>3 DEF OfStorage, Ahead
<1>11. ASSUME storage # "lossy", NEW i \in n + 1 .. Size
       PROVE  ~OfLoop(i)' /\ i \in 1 .. Size
  <2>1. i \in 1 .. Size /\ i # n
    BY <1>2, <1>3
  <2>2. disk'[Sector(i)] = disk[Sector(i)]
    BY <1>1, <1>4, <1>7, <1>11, <2>1, CutOutcome
  <2>3. ~OfLoop(i)
    BY <1>1, <1>3, <1>11 DEF OfStorage, Ahead
  <2> QED BY <1>4, <1>6, <2>1, <2>2, <2>3 DEF OfLoop
<1>12. EvidenceProves'
  <2> SUFFICES ASSUME storage # "lossy", NEW j \in 1 .. Size, Shows(j)' PROVE FreshTo(j - 1)'
    BY <1>4 DEF EvidenceProves
  <2>1. ~(j \in n + 1 .. Size)
    BY <1>11 DEF Shows, OfLoop
  <2>2. \A i \in First .. j - 1 : i \in First .. n - 1
    BY <1>2, <1>3, <2>1
  <2> QED BY <1>4, <1>6, <1>9, <2>2 DEF FreshTo
<1>13. ASSUME storage # "lossy", ~Fresh(n)'
       PROVE  /\ disk'[at][NumPages].loop # host.loop
              /\ storage = "atomic" => \A p \in 1 .. NumPages : disk'[at][p] # Due(n)
  <2>1. /\ disk[at][NumPages].loop # host.loop /\ disk[at] = before[at] /\ at \in Sectors
    <3>1. idx \in idx .. Size /\ idx <= Size /\ at \in Sectors
      BY <1>1, <1>2, <1>3, PhaseFacts
    <3> QED BY <1>1, <1>3, <1>13, <3>1 DEF OfStorage, Ahead
  <2>2. ~\A p \in 1 .. NumPages : disk'[at][p] = Due(n)
    BY <1>3, <1>6, <1>13 DEF Fresh
  <2>3. \/ disk'[at] = disk[at]
        \/ storage = "tearing" /\ disk'[at][NumPages] = disk[at][NumPages]
    BY <1>1, <1>2, <1>3, <1>13, <2>2, CutOutcome
  <2>4. CASE disk'[at] = disk[at]
    BY <1>1, <1>2, <2>1, <2>4, OldIsNotDue
  <2>5. CASE storage = "tearing" /\ disk'[at][NumPages] = disk[at][NumPages]
    BY <2>1, <2>5
  <2> QED BY <2>3, <2>4, <2>5
<1>14. CutAt(n)'
  <2>1. n <= Size /\ ~(n > Size)
    BY <1>2, <1>3
  <2>2. {Sector(i) : i \in First .. n - 1}' = {Sector(i) : i \in First .. n - 1}
    BY <1>6
  <2>3. lost' \subseteq {Sector(i) : i \in First .. n - 1}'
    BY <1>4, <1>10, <2>2
  <2>4. g'.poffPos = Sector(n)' /\ at = Sector(n)'
    BY <1>3, <1>4, <1>6
  <2>5. \A i \in First .. n - 1 : Fresh(i)' <=> Sector(i)' \notin lost'
    BY <1>6, <1>9
  <2>6. storage' = storage /\ host' = host /\ Due(n)' = Due(n)
    BY <1>4, <1>6
  <2> QED BY <1>4, <1>6, <1>11, <1>13, <2>1, <2>3, <2>4, <2>5, <2>6 DEF CutAt
<1>15. CutKnown'
  <2>1. Counted(n)'
    BY <1>4 DEF Counted
  <2>2. n \in (First .. Size + 1)'
    BY <1>2, <1>3, <1>6
  <2> QED BY <1>14, <2>1, <2>2 DEF CutKnown
<1> QED BY <1>12, <1>15

(* With a cache: what was still in it is behind the last commit, and proves *)
(* nothing, save the commit being written.                                  *)
LEMMA CutWithCache ==
  ASSUME Known, PowerCut, CacheOn
  PROVE  EvidenceProves'
<1>1. /\ Inv /\ OfStorage /\ DiskOfPhase /\ CacheOfPhase /\ pc \in PhasePlaces /\ host.boot # 0
      /\ idx \in Nat
  <2>1. pc \in PhasePlaces
    BY DEF PowerCut, Writing, PhasePlaces
  <2> QED BY <2>1, Typed, Current DEF Known, OfStorage
<1>2. First \in Nat \ {0} /\ Size \in Nat
  BY <1>1, PhaseFacts
<1>3. /\ UNCHANGED <<storage, host, idx>> /\ g'.flushPos = g.flushPos
      /\ storage # "lossy" => lost' = {}
  <2>1. g'.flushPos = g.flushPos
    BY <1>1, Typed DEF PowerCut, State
  <2> QED BY <2>1 DEF PowerCut, Losses
<1>4. First' = First /\ \A i : Sector(i)' = Sector(i) /\ Due(i)' = Due(i)
  BY <1>3, HostStays
<1> SUFFICES ASSUME storage # "lossy", NEW j \in 1 .. Size, Shows(j)' PROVE FreshTo(j - 1)'
  BY <1>3 DEF EvidenceProves
<1>5. \A i \in 1 .. Size : Fresh(i) => Fresh(i)'
  BY <1>1, <1>3, CutFreshness
<1>6. FreshTo(j - 1) => FreshTo(j - 1)'
  <2>1. \A i \in First .. j - 1 : i \in 1 .. Size
    BY <1>2
  <2> QED BY <1>4, <1>5, <2>1 DEF FreshTo
<1>7. CASE disk'[Sector(j)] = disk[Sector(j)]
  <2>1. Shows(j)
    BY <1>3, <1>4, <1>7 DEF Shows
  <2> QED BY <1>1, <1>6, <2>1 DEF OfStorage, EvidenceProves
<1>8. CASE /\ Sector(j) \in Cached \cup InFlight
           /\ \A p \in 1 .. NumPages : disk'[Sector(j)][p] = Due(j)
  <2>1. /\ Position(host.loop, Sector(j)) = j /\ j >= First
        /\ Sector(j) \in Cached => j < idx \/ (pc = "flush2" /\ j = idx)
    <3>1. Position(host.loop, Sector(j)) = j
      BY <1>1, PhaseFacts
    <3>2. Position(host.loop, Sector(j)) >= First
      BY <1>1, <1>8, PageIsOfPhase
    <3> QED BY <1>1, <3>1, <3>2 DEF CacheOfPhase
  <2>2. Sector(j) \in InFlight => pc = "writing" /\ j = idx
    <3> SUFFICES ASSUME Sector(j) \in InFlight PROVE pc = "writing" /\ j = idx
      OBVIOUS
    <3>1. pc = "writing" /\ Sector(j) = CurrentLsn
      BY DEF InFlight
    <3>2. CurrentLsn = Sector(idx) /\ idx \in 1 .. Size
      BY <1>1, <3>1, WritesTheDue
    <3> QED BY <1>1, <3>1, <3>2, PhaseFacts
  <2>3. CASE Committing
    <3>1. \A i \in First .. idx - 1 : Fresh(i) /\ Sector(i) \notin Cached
      BY <1>1, <2>3 DEF OfStorage, Commits, InPhase
    <3>2. j = idx
      <4>1. j < idx => j \in First .. idx - 1
        BY <1>1, <1>2, <2>1
      <4> QED BY <1>8, <2>1, <2>2, <3>1, <4>1
    <3> QED BY <1>6, <3>1, <3>2 DEF FreshTo
  <2>4. CASE ~Committing
    <3>1. PICK d \in First - 1 .. idx - 1 : CommittedTo(d)
      BY <1>1, <2>4 DEF OfStorage, Commits, InPhase
    <3>2. g.flushPos = Sector(d) /\ d >= First
      BY <1>1, <3>1 DEF PowerCut, OfStorage, Armed, CommittedTo
    <3>3. d \in 1 .. Size /\ d \in Nat /\ d < idx
      <4>1. idx \in 1 .. Size + 1
        BY <1>1, Typed
      <4> QED BY <1>1, <1>2, <3>1, <3>2, <4>1
    <3>4. ~(j \in First .. d)
      <4> SUFFICES ASSUME j \in First .. d PROVE FALSE
        OBVIOUS
      <4>1. Sector(j) \notin Cached
        BY <3>1 DEF CommittedTo
      <4> QED BY <1>2, <1>8, <2>2, <3>3, <4>1
    <3>5. j \in d + 1 .. idx
      BY <1>1, <1>2, <1>8, <2>1, <2>2, <3>3, <3>4
    <3>6. Sector(j) # g.flushPos
      BY <1>1, <3>2, <3>3, <3>5, PhaseFacts
    <3>7. ~DO_CACHE_FLUSH(j - First + 1)
      <4>1. CASE j = idx
        <5>1. pc = "writing"
          BY <1>1, <1>8, <2>1, <2>2, <2>4, <4>1 DEF Committing
        <5> QED BY <1>1, <2>4, <4>1, <5>1, WritesTheDue DEF Committing
      <4>2. CASE j # idx
        <5>1. j \in d + 1 .. idx - 1
          BY <1>1, <3>3, <3>5, <4>2
        <5> QED BY <3>1, <5>1 DEF CommittedTo
      <4> QED BY <4>1, <4>2
    <3>8. Due(j).magic = "PAGE"
      BY <3>7, DueFacts
    <3>9. ~Shows(j)'
      BY <1>3, <1>4, <1>8, <3>6, <3>8 DEF Shows
    <3> QED BY <3>9
  <2> QED BY <2>3, <2>4
<1> QED BY <1>1, <1>7, <1>8, CutOutcome

LEMMA KnownPowerCut == Known /\ PowerCut => Known'
<1> SUFFICES ASSUME Known, PowerCut PROVE Known'
  OBVIOUS
<1>1. /\ Inv /\ Inv' /\ DiskOfPhase /\ CacheOfPhase /\ pc \in PhasePlaces /\ host.boot # 0
      /\ host.loop \in Nat /\ host.boot \in Nat
  <2>1. pc \in PhasePlaces
    BY DEF PowerCut, Writing, PhasePlaces
  <2> QED BY <2>1, InvPowerCut, Typed, Current DEF Known, OfStorage
<1>2. /\ UNCHANGED <<storage, host, sdcrash, before>> /\ pc' = "repeat" /\ armed' = FALSE
      /\ g'.require = FALSE /\ cache' = [s \in Sectors |-> <<>>]
  BY <1>1, Typed DEF PowerCut, State
<1>3. Cached' = {} /\ First' = First
  BY <1>2 DEF Cached, First
<1>4. DiskOfPhase'
  <2>1. ASSUME NEW s \in Sectors, NEW p \in 1 .. NumPages
        PROVE  PageOfPhase(s, disk'[s][p]) /\ (storage # "lossy" => disk'[s][p].magic # "BAD")
    <3>1. PICK i \in 1 .. Size : s = Sector(i)
      BY <1>1, PhaseFacts
    <3>2. CASE disk'[s][p] = disk[s][p]
      BY <1>1, <3>2 DEF DiskOfPhase
    <3>3. CASE disk'[s][p] = Due(i)
      BY <1>1, <3>1, <3>3, DueBelongs
    <3>4. CASE storage = "lossy" /\ disk'[s][p] = before[s][p]
      <4>1. before[s][p].loop <= host.loop
        BY <1>1 DEF DiskOfPhase
      <4>2. before[s][p] \in PageType /\ PageOlder(before[s][p])
        BY <1>1 DEF Inv, Pages, BeforeKnown, PageSeq
      <4>3. before[s][p].boot # host.boot
        BY <1>1, <4>2 DEF PageOlder, PageType
      <4> QED BY <3>4, <4>1, <4>3 DEF PageOfPhase
    <3>5. CASE storage = "lossy" /\ disk'[s][p] = Garbage
      <4>1. Garbage.loop <= host.loop /\ Garbage.boot # host.boot
        BY <1>1 DEF Garbage
      <4> QED BY <3>5, <4>1 DEF PageOfPhase
    <3>6. \/ disk'[s][p] = disk[s][p]
          \/ disk'[s][p] = Due(i)
          \/ storage = "lossy" /\ disk'[s][p] \in {before[s][p], Garbage}
      BY <1>1, <3>1, CutOutcome
    <3> QED BY <3>2, <3>3, <3>4, <3>5, <3>6
  <2>2. host' = host /\ before' = before /\ storage' = storage
    BY <1>2
  <2>3. \A s \in Sectors, p \in 1 .. NumPages : before[s][p].loop <= host.loop
    BY <1>1 DEF DiskOfPhase
  <2> QED BY <1>1, <1>3, <2>1, <2>2, <2>3 DEF DiskOfPhase, PageOfPhase
<1>5. CacheOfPhase' /\ AllSent' /\ CommitPlaces' /\ Commits' /\ Armed' /\ Ahead'
  BY <1>2, <1>3
  DEF CacheOfPhase, AllSent, CommitPlaces, Commits, Armed, Ahead, InPhase, PhasePlaces, Writing
<1>6. EvidenceProves' /\ CutKnown'
  <2>1. CASE CacheOn
    <3>1. CutKnown'
      BY <2>1 DEF CutKnown
    <3> QED BY <2>1, <3>1, CutWithCache
  <2>2. CASE ~CacheOn
    BY <2>2, CutWithoutCache
  <2> QED BY <2>1, <2>2
<1>7. OfVerdict'
  BY <1>2 DEF Known, OfVerdict, WalkKnown, ResumeKnown, NoFalseCrash, Good
<1> QED BY <1>1, <1>4, <1>5, <1>6, <1>7 DEF Known, OfStorage

-------------------------------------------------------------------------------
LEMMA KnownInit == Init => Known
<1> SUFFICES ASSUME Init PROVE Known
  OBVIOUS
<1>1. Inv
  BY InvInit
<1>2. /\ pc = "repeat" /\ host.boot = 0 /\ host.loop = 0 /\ armed = FALSE
      /\ g.require = FALSE /\ sdcrash = FALSE /\ before = disk
      /\ cache = [s \in Sectors |-> <<>>] /\ disk = [s \in Sectors |-> Request(Erased)]
  BY DEF Init
<1>3. Cached = {}
  BY <1>2 DEF Cached
<1>4. \A s \in Sectors, p \in 1 .. NumPages : disk[s][p] = Erased
  BY <1>2 DEF Request
<1>5. DiskOfPhase
  BY <1>2, <1>4 DEF DiskOfPhase, PageOfPhase, Erased
<1>6. CacheOfPhase /\ AllSent /\ CommitPlaces /\ Commits /\ Armed /\ Ahead /\ EvidenceProves
  BY <1>2, <1>3
  DEF CacheOfPhase, AllSent, CommitPlaces, Commits, Armed, Ahead, EvidenceProves, InPhase,
      PhasePlaces, Writing
<1>7. CutKnown /\ OfVerdict
  BY <1>2 DEF CutKnown, OfVerdict, WalkKnown, ResumeKnown, NoFalseCrash
<1> QED BY <1>1, <1>5, <1>6, <1>7 DEF Known, OfStorage

LEMMA KnownStutter == Known /\ UNCHANGED vars => Known'
<1> SUFFICES ASSUME Known, UNCHANGED vars PROVE Known'
  OBVIOUS
<1>1. /\ storage' = storage /\ g' = g /\ host' = host /\ sdcrash' = sdcrash /\ pc' = pc
      /\ e' = e /\ idx' = idx /\ count' = count /\ armed' = armed /\ disk' = disk
      /\ cache' = cache /\ before' = before /\ durable' = durable /\ lost' = lost
  BY DEF vars
<1>2. First' = First /\ \A i : Sector(i)' = Sector(i) /\ Due(i)' = Due(i)
  BY <1>1, HostStays
<1>3. \A i : /\ (Fresh(i)' <=> Fresh(i)) /\ (Sent(i)' <=> Sent(i))
             /\ (OfLoop(i)' <=> OfLoop(i)) /\ (Shows(i)' <=> Shows(i))
  BY <1>1, <1>2 DEF Fresh, Sent, OfLoop, Shows, Content
<1>4. \A i : FreshTo(i)' <=> FreshTo(i)
  BY <1>2, <1>3 DEF FreshTo
<1>5. Inv'
  BY InvStutter DEF Known
<1>6. DiskOfPhase' /\ CacheOfPhase' /\ AllSent' /\ EvidenceProves'
  BY <1>1, <1>2, <1>3, <1>4
  DEF Known, OfStorage, DiskOfPhase, CacheOfPhase, PageOfPhase, AllSent, EvidenceProves,
      InPhase, Cached
<1>7. CommitPlaces' /\ Commits' /\ Armed' /\ Ahead'
  BY <1>1, <1>2, <1>3
  DEF Known, OfStorage, CommitPlaces, Commits, CommittedTo, Committing, IsCommit, Armed, Ahead,
      InPhase, Cached
<1>8. CutKnown'
  BY <1>1, <1>2, <1>3 DEF Known, CutKnown, CutAt, Counted, InPhase
<1>9. OfVerdict'
  BY <1>1, <1>2, <1>3, <1>4
  DEF Known, OfVerdict, WalkKnown, ResumeKnown, NoFalseCrash, Good, Found, WindowRead,
      Suspect_Position
<1> QED BY <1>5, <1>6, <1>7, <1>8, <1>9 DEF Known, OfStorage

LEMMA KnownNext == Known /\ [Next]_vars => Known'
  BY KnownRepeat, KnownBeginVerification, KnownVerifyRequest, KnownVerifyNextLoop,
     KnownEndVerification, KnownBeginWriting, KnownWrite, KnownWriteDone,
     KnownFirstFlushDone, KnownSecondFlushDone, KnownLoopWritten, KnownLoopFlushDone,
     KnownPowerCut, KnownStutter
  DEF Next, Program, Stopped

LEMMA KnownHolds == Spec => []Known
<1>1. Spec => [](Known)
  BY KnownInit, KnownNext, PTL DEF Spec
<1> QED BY <1>1, PTL

-------------------------------------------------------------------------------
(* A storage that keeps what it acknowledged, and tears a request no more   *)
(* than the test tolerates, is never called broken: wherever the power is   *)
(* cut, whatever the cache wrote back, over any number of boots.            *)
THEOREM NeverFalseCrash == Spec => []NoFalseCrash
<1>1. Known => NoFalseCrash
  BY DEF Known, OfVerdict
<1> QED BY <1>1, KnownHolds, PTL

(* Without a cache a loss is found before anything is written over it, save *)
(* where the power was cut in the request at sector 0.                      *)
THEOREM LossFoundBehindZero == Spec => []LossIsFoundBehindZero
<1>1. Known => LossIsFoundBehindZero
  <2> SUFFICES ASSUME Known, g.poffPos # 0, ~CacheOn, pc = "begin_write", g.boot > 1
               PROVE  lost = {}
    BY DEF LossIsFoundBehindZero, LossIsFound
  <2>1. host.boot # 0
    BY DEF Known, Inv, Shape, FirstBoot
  <2> QED BY <2>1 DEF Known, OfVerdict, ResumeKnown
<1> QED BY <1>1, KnownHolds, PTL

(* With a cache a missing request is found as soon as a commit behind it,   *)
(* within the window, is on the medium.                                     *)
THEOREM LossFoundBeforeCommit == Spec => []LossBeforeCommitIsFound
<1>1. Known => LossBeforeCommitIsFound
  <2> SUFFICES ASSUME Known, CacheOn, pc = "begin_write", g.boot > 1,
                      NEW i \in First .. Len(Pattern(host.loop)),
                      NEW k \in First .. Len(Pattern(host.loop)),
                      Missing(i), \A j \in First .. i - 1 : ~Missing(j),
                      i < k, k <= i + RequestWindow,
                      NEW p \in 1 .. NumPages,
                      disk[Pattern(host.loop)[k]][p].boot = host.boot,
                      disk[Pattern(host.loop)[k]][p].magic = "FLUSH"
               PROVE  FALSE
    BY DEF LossBeforeCommitIsFound, First
  <2>1. host.boot # 0 /\ Inv /\ DiskOfPhase
    BY DEF Known, Inv, Shape, FirstBoot, OfStorage
  <2>2. First \in Nat \ {0} /\ Size \in Nat /\ Len(Pattern(host.loop)) = Size
    BY <2>1, PhaseFacts, PatternFacts
  <2>3. i \in 1 .. Size /\ k \in 1 .. Size /\ i \in First .. Size
    BY <2>2
  <2>4. \A j \in 1 .. Size : Missing(j) <=> ~Fresh(j)
    BY <2>1, FreshByBoot DEF Missing, Sector
  <2>5. /\ Found(g.loop, g.wLsn)
        /\ g.loop = host.loop =>
             \A j \in Position(g.loop, g.wLsn) + 1 .. Size :
               j <= Position(g.loop, g.wLsn) + RequestWindow => ~Shows(j)
    BY <2>1 DEF Known, OfVerdict, ResumeKnown
  <2>6. PICK n : n = Position(g.loop, g.wLsn)
    OBVIOUS
  <2>7. g.loop = host.loop /\ n \in 1 .. Size /\ First <= n /\ ~Fresh(n) /\ FreshTo(n - 1)
    <3>1. ~FreshTo(Size)
      BY <2>3, <2>4 DEF FreshTo
    <3>2. g.loop = host.loop /\ g.wLsn \in Sectors
      BY <2>5, <3>1 DEF Found
    <3>3. n \in 1 .. Size
      BY <2>1, <2>6, <3>2, PhaseFacts
    <3> QED BY <2>5, <2>6, <3>1, <3>2, <3>3 DEF Found
  <2>8. i = n
    <3>1. ~(i \in First .. n - 1)
      BY <2>3, <2>4, <2>7 DEF FreshTo
    <3>2. ~(n \in First .. i - 1)
      BY <2>4, <2>7
    <3> QED BY <2>2, <2>3, <2>7, <3>1, <3>2
  <2>9. ~Shows(k)
    <3>1. k \in n + 1 .. Size /\ k <= n + RequestWindow
      BY <2>2, <2>3, <2>7, <2>8
    <3> QED BY <2>5, <2>6, <2>7, <3>1
  <2>10. disk[Sector(k)][p] = Due(k)
    <3>1. PageOfPhase(Sector(k), disk[Sector(k)][p]) /\ disk[Sector(k)][p].boot = host.boot
      BY <2>1, <2>3, PhaseFacts DEF DiskOfPhase, Sector
    <3> QED BY <2>1, <2>3, <3>1, PageIsDue
  <2>11. Shows(k)
    BY <2>10, DueFacts DEF Shows, Sector
  <2> QED BY <2>9, <2>11
<1> QED BY <1>1, KnownHolds, PTL

(* No power cut sends the test back, on any storage, with or without a      *)
(* cache: a write phase starts where the one before it started, or further. *)
THEOREM NeverSentBack == Spec => NeverBackwards
<1>1. Known /\ [Next]_vars =>
        (host'.boot > 1 /\ host' # host =>
           \/ host'.loop = host.loop + 1
           \/ /\ host'.loop = host.loop
              /\ Position(host.loop, host'.lsn) >= Position(host.loop, host.lsn))
  <2> SUFFICES ASSUME Known, [Next]_vars, host'.boot > 1, host' # host
               PROVE  \/ host'.loop = host.loop + 1
                      \/ /\ host'.loop = host.loop
                         /\ Position(host.loop, host'.lsn) >= Position(host.loop, host.lsn)
    OBVIOUS
  <2>1. BeginWriting
    BY DEF Next, Program, Stopped, Repeat, BeginVerification, VerifyRequest, VerifyNextLoop,
           EndVerification, Write, WriteDone, FirstFlushDone, SecondFlushDone, LoopWritten,
           LoopFlushDone, PowerCut, vars
  <2>2. pc = "begin_write" /\ host' = [lsn |-> StartLsn, loop |-> g.loop, boot |-> g.boot]
    BY <2>1 DEF BeginWriting, WriteInfo
  <2>3. g.boot > 1 /\ host.boot # 0
    BY <2>2 DEF Known, Inv, Shape, FirstBoot
  <2>4. StartLsn = g.wLsn
    BY <2>3 DEF StartLsn
  <2>5. Found(g.loop, g.wLsn)
    BY <2>2, <2>3 DEF Known, OfVerdict, ResumeKnown
  <2>6. host.lsn \in Sectors /\ First \in Nat
    BY <2>3, PhaseFacts DEF Known
  <2>7. CASE g.loop = host.loop + 1
    BY <2>2, <2>7
  <2>8. CASE /\ g.loop = host.loop /\ g.wLsn \in Sectors
             /\ First <= Position(g.loop, g.wLsn)
    <3>1. Position(host.loop, g.wLsn) \in Nat
      BY <2>3, <2>8, PhaseFacts, IndexFacts DEF Known
    <3> QED BY <2>2, <2>4, <2>6, <2>8, <3>1 DEF First
  <2> QED BY <2>5, <2>7, <2>8 DEF Found
<1> QED BY <1>1, KnownHolds, PTL DEF Spec, NeverBackwards

(* Without a cache, where nothing is lost, no request is written twice in a *)
(* loop: one that arrived just before the cut is recognised.                *)
THEOREM WrittenOnce == Spec => NothingRewritten
<1>1. Known => (~CacheOn /\ storage # "lossy" /\ WriteDone => ~InLoop(CurrentLsn, g.loop))
  <2> SUFFICES ASSUME Known, ~CacheOn, storage # "lossy", WriteDone
               PROVE  ~InLoop(CurrentLsn, g.loop)
    OBVIOUS
  <2>1. Inv /\ pc = "writing" /\ pc \in Writing /\ pc \in PhasePlaces
    BY DEF Known, WriteDone, Writing, PhasePlaces
  <2>2. /\ idx \in 1 .. Size /\ idx \in Nat /\ Size \in Nat
        /\ CurrentLsn = Sector(idx) /\ CurrentLsn \in Sectors /\ g.loop = host.loop
    BY <2>1, WritesTheDue, Current
  <2>3. disk[Sector(idx)][NumPages].loop # host.loop
    BY <2>1, <2>2 DEF Known, OfStorage, Ahead
  <2>4. Content(CurrentLsn) = disk[Sector(idx)]
    BY <2>1, <2>2 DEF Inv, Pages, CacheKnown, Cached, Content
  <2> QED BY <2>2, <2>3, <2>4, LastPage DEF InLoop
<1> QED BY <1>1, KnownHolds, PTL DEF NothingRewritten

-------------------------------------------------------------------------------
(***************************************************************************)
(* The prediction of what the cache held, on a storage that keeps what it  *)
(* acknowledged.  Reach is about the medium: how far behind a flush        *)
(* request the cache may have been written back.                           *)
(***************************************************************************)
CacheKeeps == CacheOn /\ storage # "lossy" /\ host.boot # 0

OfBoot(i) == \E p \in 1 .. NumPages : disk[Sector(i)][p].boot = host.boot

\* Request i of the phase is a flush request.
Flushes(i) == DO_CACHE_FLUSH(i - First + 1)

\* Nothing of the phase is on the medium before it is written.
WrittenBehind == CacheKeeps /\ InPhase => \A k \in idx .. Size : ~OfBoot(k)

\* What arrived behind a flush request was written after it: all up to it is there.
CommitsReach ==
  CacheKeeps => \A k \in First .. Size : OfBoot(k) =>
                  \A m \in First .. k - 1 : Flushes(m) => FreshTo(m)

\* What an earlier phase of the loop left behind this one's first request is
\* within that phase's flush cycle.
Leftover ==
  CacheKeeps => \A k \in First + 1 .. Size :
                  OfLoop(k) /\ ~OfBoot(k) => k < First + FlushCycle - 1

Reach == WrittenBehind /\ CommitsReach /\ Leftover

(***************************************************************************)
(* The engine's count: the requests since the last flush request before    *)
(* the suspected one.  Where it fills the flush cycle is the prediction,   *)
(* and nothing of the loop lies behind; a prediction may also be made in   *)
(* the next loop, when the window reaches that far.                        *)
(***************************************************************************)
\* The last flush request before request n of the phase, or the place before its first.
LastFlush(n, d) ==
  /\ d \in First - 1 .. n - 1
  /\ d >= First => Flushes(d)
  /\ \A k \in d + 1 .. n - 1 : ~Flushes(k)

\* What the engine has counted when it gets to request n.
CountedTo(n, d) == e.cached = IF d >= First THEN n - d ELSE n - First

NothingBehind(q) == \A k \in q + 1 .. Size : ~OfLoop(k)

Predicted ==
  /\ e.lastLsn \in Sectors
  /\ ReadInNextLoop(e.lastLsn) \/ NothingBehind(Position(host.loop, e.lastLsn))

CacheCounted ==
  pc = "verify" /\ e.status = "NORMAL" =>
    /\ ~e.gotLast
    /\ e.loop = host.loop => \E d \in First - 1 .. idx - 1 : LastFlush(idx, d) /\ CountedTo(idx, d)

CachePredicted ==
  pc \in {"verify", "ended"} /\ e.status # "NORMAL" /\ e.result = VERI_NOERR
                             /\ e.info.loop = host.loop =>
    /\ e.gotLast => Predicted
    /\ ~e.gotLast /\ e.loop = host.loop =>
         /\ e.cached < FlushCycle
         /\ \E d \in First - 1 .. Suspect_Position - 1 :
              LastFlush(Suspect_Position, d) /\ CountedTo(idx, d)

Prediction ==
  /\ host.boot = 0 \/ ~CacheOn => ~e.gotLast
  /\ CacheKeeps => /\ CacheCounted /\ CachePredicted
                   /\ pc = "begin_write" /\ g.loop = host.loop /\ e.gotLast => Predicted

(* Multiples of the flush cycle.                                            *)
LEMMA SmallMultiple ==
  ASSUME NEW k \in Int, NEW c \in Nat \ {0}, k * c < c, k * c > -c
  PROVE  k = 0
<1>1. CASE k >= 1
  <2>1. k * c >= 1 * c
    BY <1>1
  <2> QED BY <2>1
<1>2. CASE k <= -1
  <2>1. k * c <= (-1) * c
    BY <1>2
  <2> QED BY <2>1
<1> QED BY <1>1, <1>2

LEMMA DivMod ==
  ASSUME NEW x \in Int, NEW c \in Nat \ {0}
  PROVE  x \div c \in Int /\ x = ((x \div c) * c) + (x % c) /\ x % c \in 0 .. c - 1
OBVIOUS

LEMMA ModIs ==
  ASSUME NEW q \in Int, NEW c \in Nat \ {0}, NEW r \in 0 .. c - 1
  PROVE  (q * c + r) % c = r
<1> DEFINE y == q * c + r
<1>1. y \in Int /\ r \in Int
  OBVIOUS
<1>2. PICK d \in Int, m \in 0 .. c - 1 : y = d * c + m /\ m = y % c
  <2> HIDE DEF y
  <2> QED BY <1>1, DivMod
<1>3. (d - q) * c = r - m
  BY <1>2
<1>4. d - q = 0
  <2>1. PICK k \in Int : k = d - q
    OBVIOUS
  <2>2. k * c = r - m
    BY <1>3, <2>1
  <2> QED BY <2>1, <2>2, SmallMultiple
<1> QED BY <1>2, <1>4

LEMMA NextMultiple ==
  ASSUME NEW x \in Nat, NEW c \in Nat \ {0}, x % c = 0
  PROVE  (x + c) % c = 0
<1>1. PICK d \in Int : x = d * c
  BY DivMod
<1>2. PICK q \in Int : q = d + 1
  OBVIOUS
<1>3. x + c = q * c + 0
  BY <1>1, <1>2
<1>4. (q * c + 0) % c = 0
  BY ModIs
<1> QED BY <1>3, <1>4

LEMMA MultipleAbove ==
  ASSUME NEW x \in Nat, NEW c \in Nat \ {0}, NEW r \in 1 .. c - 1, x % c = r
  PROVE  (x + (c - r)) % c = 0
<1>1. PICK d \in Int : x = d * c + r
  BY DivMod
<1>2. PICK q \in Int : q = d + 1
  OBVIOUS
<1>3. x + (c - r) = q * c + 0
  BY <1>1, <1>2
<1>4. (q * c + 0) % c = 0
  BY ModIs
<1> QED BY <1>3, <1>4

(* A flush request is a cycle behind the one before it, and one is in any   *)
(* cycle's length of the phase.                                             *)
LEMMA FlushFacts ==
  ASSUME First \in Nat \ {0}
  PROVE  /\ FlushCycle \in Nat \ {0}
         /\ \A m \in Nat : m >= First /\ Flushes(m) =>
              m >= First + FlushCycle - 1 /\ Flushes(m + FlushCycle)
         /\ Flushes(First + FlushCycle - 1)
         /\ \A n \in Nat : n >= First => \E m \in n .. n + FlushCycle - 1 : Flushes(m)
<1>1. FlushCycle \in Nat \ {0}
  BY CaseAssumption
<1>2. ASSUME NEW m \in Nat, m >= First, Flushes(m)
      PROVE  m >= First + FlushCycle - 1 /\ Flushes(m + FlushCycle)
  <2>1. PICK x \in Nat \ {0} : x = m - First + 1
    BY <1>2
  <2>2. x % FlushCycle = 0
    BY <1>2, <2>1 DEF Flushes, DO_CACHE_FLUSH
  <2>3. x >= FlushCycle
    BY <1>1, <2>2
  <2>4. (x + FlushCycle) % FlushCycle = 0
    BY <1>1, <2>2, NextMultiple
  <2>5. m + FlushCycle - First + 1 = x + FlushCycle
    BY <1>1, <2>1
  <2> QED BY <1>1, <2>1, <2>3, <2>4, <2>5 DEF Flushes, DO_CACHE_FLUSH
<1>3. Flushes(First + FlushCycle - 1)
  <2>1. PICK n \in Nat : n = First + FlushCycle - 1
    BY <1>1
  <2>2. n - First + 1 = FlushCycle
    BY <1>1, <2>1
  <2>3. FlushCycle % FlushCycle = 0
    BY <1>1
  <2>4. Flushes(n)
    BY <2>2, <2>3 DEF Flushes, DO_CACHE_FLUSH
  <2> QED BY <2>1, <2>4
<1>4. ASSUME NEW n \in Nat, n >= First
      PROVE  \E m \in n .. n + FlushCycle - 1 : Flushes(m)
  <2>1. PICK x \in Nat : x = n - First + 1
    BY <1>4
  <2>2. PICK r \in 0 .. FlushCycle - 1 : x % FlushCycle = r
    BY <1>1
  <2>3. PICK t \in 0 .. FlushCycle - 1 : (x + t) % FlushCycle = 0
    <3>1. CASE r = 0
      <4>1. (x + 0) % FlushCycle = 0
        BY <2>2, <3>1
      <4> QED BY <1>1, <4>1
    <3>2. CASE r \in 1 .. FlushCycle - 1
      <4>1. (x + (FlushCycle - r)) % FlushCycle = 0
        BY <1>1, <2>2, <3>2, MultipleAbove
      <4>2. FlushCycle - r \in 0 .. FlushCycle - 1
        BY <1>1, <3>2
      <4> QED BY <4>1, <4>2
    <3> QED BY <1>1, <2>2, <3>1, <3>2
  <2>4. n + t - First + 1 = x + t /\ n + t \in n .. n + FlushCycle - 1
    BY <1>1, <2>1, <2>3
  <2> QED BY <2>3, <2>4 DEF Flushes, DO_CACHE_FLUSH
<1> QED BY <1>1, <1>2, <1>3, <1>4

(* Behind a missing request nothing of the loop lies at or behind the next  *)
(* flush request.                                                           *)
LEMMA NothingBehindCommit ==
  ASSUME Known, Reach, CacheKeeps, NEW i \in First .. Size, ~Fresh(i),
         NEW m \in i .. Size, Flushes(m), NEW k \in m .. Size, i < k
  PROVE  ~OfLoop(k)
<1> SUFFICES ASSUME OfLoop(k) PROVE FALSE
  OBVIOUS
<1>1. /\ Inv /\ host.boot # 0 /\ First \in Nat \ {0} /\ Size \in Nat
      /\ storage # "lossy" /\ CacheOn
      /\ First <= i /\ i <= m /\ m <= k /\ k <= Size
      /\ i \in Nat /\ m \in Nat /\ k \in Nat /\ k \in 1 .. Size
  BY PhaseFacts DEF Known, CacheKeeps
<1>2. OfBoot(k)
  <2>1. m >= First + FlushCycle - 1 /\ FlushCycle \in Nat
    BY <1>1, FlushFacts
  <2>2. ~(k < First + FlushCycle - 1)
    BY <1>1, <2>1
  <2>3. k \in First + 1 .. Size
    BY <1>1
  <2> QED BY <2>2, <2>3 DEF Reach, Leftover
<1>3. CASE m < k
  <2>1. FreshTo(m)
    <3>1. k \in First .. Size /\ m \in First .. k - 1
      BY <1>1, <1>3
    <3> QED BY <1>2, <3>1 DEF Reach, CommitsReach
  <2>2. i \in First .. m
    BY <1>1
  <2> QED BY <2>1, <2>2 DEF FreshTo
<1>4. CASE m = k
  <2>1. PICK p \in 1 .. NumPages : disk[Sector(k)][p].boot = host.boot
    BY <1>2 DEF OfBoot
  <2>2. disk[Sector(k)][p] = Due(k)
    <3>1. PageOfPhase(Sector(k), disk[Sector(k)][p])
      BY <1>1, PhaseFacts DEF Known, OfStorage, DiskOfPhase
    <3> QED BY <1>1, <2>1, <3>1, PageIsDue
  <2>3. Due(k).magic = "FLUSH" /\ Due(k).loop = host.loop
    BY <1>1, <1>4, DueFacts DEF Flushes
  <2>4. Shows(k)
    BY <2>2, <2>3 DEF Shows
  <2>5. FreshTo(k - 1)
    BY <1>1, <2>4 DEF Known, OfStorage, EvidenceProves
  <2>6. i \in First .. k - 1
    BY <1>1
  <2> QED BY <2>5, <2>6 DEF FreshTo
<1> QED BY <1>1, <1>3, <1>4

(* Whoever counts to the end of the flush cycle is at the next flush        *)
(* request, or just before it.                                              *)
LEMMA CycleIsFull ==
  ASSUME Known, Reach, CacheKeeps, NEW i \in First .. Size, ~Fresh(i),
         NEW q \in i .. Size, NEW d \in Int, LastFlush(i, d),
         NEW n \in Nat, n = (IF d >= First THEN q - d ELSE q - First) + 1, n >= FlushCycle
  PROVE  NothingBehind(q)
<1>1. /\ Inv /\ host.boot # 0 /\ First \in Nat \ {0} /\ Size \in Nat
      /\ First <= i /\ i <= q /\ q <= Size /\ i \in Nat /\ q \in Nat
      /\ FlushCycle \in Nat \ {0}
  BY PhaseFacts, CaseAssumption DEF Known, CacheKeeps
<1>2. PICK m \in Nat : m = IF d >= First THEN d + FlushCycle ELSE First + FlushCycle - 1
  BY <1>1 DEF LastFlush
<1>3. Flushes(m) /\ m > d
  BY <1>1, <1>2, FlushFacts DEF LastFlush
<1>4. m >= i
  <2>1. ~(m \in d + 1 .. i - 1)
    BY <1>3 DEF LastFlush
  <2> QED BY <1>1, <1>2, <1>3, <2>1 DEF LastFlush
<1>5. m <= q + 1
  BY <1>1, <1>2
<1>6. ASSUME NEW k \in q + 1 .. Size PROVE ~OfLoop(k)
  <2>1. m \in i .. Size /\ k \in m .. Size /\ i < k
    BY <1>1, <1>4, <1>5
  <2> QED BY <1>3, <2>1, NothingBehindCommit
<1> QED BY <1>6 DEF NothingBehind

-------------------------------------------------------------------------------
(* A step that changes neither the host nor the medium.                     *)
LEMMA ReachStays ==
  ASSUME Known, Reach, UNCHANGED <<storage, host, disk>>,
         InPhase' => InPhase /\ idx' \in {idx, idx + 1}
  PROVE  Reach'
<1>1. First' = First /\ \A i : Sector(i)' = Sector(i) /\ Due(i)' = Due(i)
  BY HostStays
<1>2. /\ CacheKeeps' <=> CacheKeeps
      /\ \A i : /\ OfBoot(i)' <=> OfBoot(i)
                /\ OfLoop(i)' <=> OfLoop(i)
                /\ Fresh(i)' <=> Fresh(i)
                /\ Flushes(i)' <=> Flushes(i)
  BY <1>1 DEF CacheKeeps, OfBoot, OfLoop, Fresh, Flushes
<1>3. \A i : FreshTo(i)' <=> FreshTo(i)
  BY <1>1, <1>2 DEF FreshTo
<1>4. WrittenBehind'
  <2> SUFFICES ASSUME CacheKeeps', InPhase', NEW k \in idx' .. Size PROVE ~OfBoot(k)'
    BY DEF WrittenBehind
  <2>1. idx \in Nat /\ Size \in Nat
    BY Typed, PatternFacts DEF Known
  <2>2. k \in idx .. Size
    BY <2>1
  <2> QED BY <1>2, <2>2 DEF Reach, WrittenBehind
<1>5. CommitsReach' /\ Leftover'
  BY <1>1, <1>2, <1>3 DEF Reach, CommitsReach, Leftover
<1> QED BY <1>4, <1>5 DEF Reach

(* A phase that begins writes with a new boot count; what the one before    *)
(* left behind its place is as near as its next flush request.              *)
LEMMA ReachBegins ==
  ASSUME Known, Reach, BeginWriting, UNCHANGED storage
  PROVE  Reach'
<1>1. PICK n \in 1 .. Size, loop \in Nat :
        /\ host'.loop = loop /\ host'.boot = g.boot /\ First' = n /\ idx' = n
        /\ host'.boot \in Nat \ {0} /\ n \in Nat
        /\ \A s \in Sectors, p \in 1 .. NumPages :
             /\ disk[s][p].loop <= loop /\ disk[s][p].boot # host'.boot
             /\ disk[s][p] \in PageType
        /\ \/ /\ host.boot # 0 /\ loop = host.loop
              /\ First <= n /\ ~Fresh(n)
           \/ \A s \in Sectors, p \in 1 .. NumPages : disk[s][p].loop # loop
  BY PhaseBegins
<1>2. disk' = disk /\ storage' = storage /\ Inv /\ Inv'
  BY KnownBeginWriting DEF BeginWriting, Known
<1>3. Size \in Nat \ {0} /\ \A k \in 1 .. Size : Sector(k)' \in Sectors
  <2>1. host'.boot # 0
    BY <1>1
  <2>2. Size \in Nat \ {0} /\ \A k \in 1 .. Size : Pattern(loop)[k] \in Sectors
    BY <1>1, PatternFacts
  <2>3. \A k : Sector(k)' = Pattern(loop)[k]
    BY <1>1 DEF Sector, Pattern
  <2> QED BY <2>2, <2>3
<1>4. \A k \in 1 .. Size : ~OfBoot(k)'
  BY <1>1, <1>2, <1>3 DEF OfBoot
<1>5. WrittenBehind' /\ CommitsReach'
  <2>1. \A k \in n .. Size : ~OfBoot(k)'
    BY <1>1, <1>3, <1>4
  <2> QED BY <1>1, <2>1 DEF WrittenBehind, CommitsReach
<1>6. Leftover'
  <2> SUFFICES ASSUME CacheKeeps', NEW k \in n + 1 .. Size, OfLoop(k)',
                      k >= n + FlushCycle - 1
               PROVE  FALSE
    <3>1. FlushCycle \in Nat \ {0}
      BY CaseAssumption
    <3> QED BY <1>1, <3>1 DEF Leftover
  <2>1. PICK p \in 1 .. NumPages : disk[Sector(k)'][p].loop = loop
    BY <1>1, <1>2 DEF OfLoop
  <2>2. k \in 1 .. Size /\ k \in Nat /\ n < k
    BY <1>1, <1>3
  <2>3. host.boot # 0 /\ loop = host.loop /\ First <= n /\ ~Fresh(n)
    BY <1>1, <1>3, <2>1, <2>2
  <2>4. Sector(k)' = Sector(k)
    BY <1>1, <2>3 DEF Sector, Pattern
  <2>5. OfLoop(k)
    BY <2>1, <2>3, <2>4 DEF OfLoop
  <2>6. CacheKeeps
    BY <1>2, <2>3 DEF CacheKeeps
  <2>7. First \in Nat \ {0} /\ n \in First .. Size
    BY <1>1, <1>2, <1>3, <2>3, PhaseFacts
  <2>8. PICK m \in n .. n + FlushCycle - 1 : Flushes(m)
    BY <1>1, <2>3, <2>7, FlushFacts
  <2>9. m \in n .. Size /\ k \in m .. Size
    <3>1. FlushCycle \in Nat \ {0}
      BY CaseAssumption
    <3> QED BY <1>1, <1>3, <2>2, <2>8, <3>1
  <2> QED BY <2>2, <2>3, <2>5, <2>6, <2>7, <2>8, <2>9, NothingBehindCommit
<1> QED BY <1>5, <1>6 DEF Reach

(* When the cache is flushed everything before the request at hand is       *)
(* there, and its pages are those of the phase.                             *)
LEMMA ReachFlushed ==
  ASSUME Known, Reach, pc \in {"flush1", "flush2", "loop_flush"}, FlushCache,
         UNCHANGED <<storage, host, before>>,
         InPhase' => idx' = IF pc = "flush2" THEN idx + 1 ELSE idx
  PROVE  Reach'
<1>1. /\ Inv /\ OfStorage /\ host.boot # 0 /\ pc \in PhasePlaces
      /\ idx \in Nat /\ Size \in Nat /\ First \in Nat \ {0} /\ First <= idx
  <2>1. Inv /\ pc \in PhasePlaces
    BY DEF Known, PhasePlaces, Writing
  <2> QED BY <2>1, Current, PhaseFacts, Typed DEF Known
<1>2. First' = First /\ \A i : Sector(i)' = Sector(i) /\ Due(i)' = Due(i)
  BY HostStays
<1>3. ASSUME NEW k \in 1 .. Size
      PROVE  \/ /\ disk'[Sector(k)] = disk[Sector(k)] /\ Sector(k) \notin Cached
                /\ OfBoot(k)' <=> OfBoot(k)
                /\ OfLoop(k)' <=> OfLoop(k)
                /\ Fresh(k)' <=> Fresh(k)
             \/ /\ Sector(k) \in Cached /\ OfBoot(k)'
                /\ k < idx \/ (pc = "flush2" /\ k = idx)
  <2>1. Sector(k) \in Sectors /\ Position(host.loop, Sector(k)) = k
    BY <1>1, PhaseFacts
  <2>2. CASE Sector(k) \notin Cached
    <3>1. disk'[Sector(k)] = disk[Sector(k)]
      BY <2>1, <2>2 DEF FlushCache
    <3> QED BY <1>2, <2>2, <3>1 DEF OfBoot, OfLoop, Fresh
  <2>3. CASE Sector(k) \in Cached
    <3>1. disk'[Sector(k)] = cache[Sector(k)]
      BY <2>1, <2>3 DEF FlushCache
    <3>2. cache[Sector(k)][1].boot = host.boot
      BY <1>1, <2>3, LastPage DEF Inv, Pages, CacheKnown
    <3>3. OfBoot(k)'
      BY <1>2, <3>1, <3>2, LastPage DEF OfBoot
    <3>4. k < idx \/ (pc = "flush2" /\ k = idx)
      BY <1>1, <2>1, <2>3 DEF OfStorage, CacheOfPhase
    <3> QED BY <2>3, <3>3, <3>4
  <2> QED BY <2>2, <2>3
<1>4. CacheKeeps' <=> CacheKeeps
  BY DEF CacheKeeps
<1>5. \A i : Flushes(i)' <=> Flushes(i)
  BY <1>2 DEF Flushes
<1>6. ASSUME CacheKeeps, NEW i \in First .. idx - 1, i \in 1 .. Size
      PROVE  Fresh(i)'
  <2>1. Sent(i)
    BY <1>1, <1>6 DEF OfStorage, AllSent, InPhase
  <2>2. \A p \in 1 .. NumPages : disk'[Sector(i)][p] = Content(Sector(i))[p]
    <3>1. Sector(i) \in Sectors
      BY <1>1, <1>6, PhaseFacts
    <3> QED BY <3>1 DEF FlushCache, Content, Cached
  <2> QED BY <1>2, <2>1, <2>2 DEF Sent, Fresh
<1>7. WrittenBehind'
  <2> SUFFICES ASSUME CacheKeeps, InPhase', NEW k \in idx' .. Size PROVE ~OfBoot(k)'
    BY <1>4 DEF WrittenBehind
  <2>1. k \in 1 .. Size /\ k \in idx .. Size /\ (pc = "flush2" => k # idx)
    BY <1>1
  <2>2. ~OfBoot(k)
    BY <1>1, <2>1 DEF Reach, WrittenBehind, InPhase
  <2> QED BY <1>1, <1>3, <2>1, <2>2
<1>8. CommitsReach'
  <2> SUFFICES ASSUME CacheKeeps, NEW k \in First .. Size, OfBoot(k)',
                      NEW m \in First .. k - 1, NEW i \in First .. m
               PROVE  Fresh(i)'
    BY <1>2, <1>4 DEF CommitsReach, FreshTo
  <2>1. k \in 1 .. Size /\ k \in Nat /\ i \in 1 .. Size /\ i \in Nat /\ i < k
    BY <1>1
  <2>2. k <= idx
    <3>1. k >= idx /\ k # idx => ~OfBoot(k)
      BY <1>1, <2>1 DEF Reach, WrittenBehind, InPhase
    <3> QED BY <1>1, <1>3, <2>1, <3>1
  <2>3. i \in First .. idx - 1
    BY <1>1, <2>1, <2>2
  <2> QED BY <1>6, <2>1, <2>3
<1>9. Leftover'
  <2> SUFFICES ASSUME CacheKeeps, NEW k \in First + 1 .. Size, OfLoop(k)', ~OfBoot(k)'
               PROVE  k < First + FlushCycle - 1
    BY <1>2, <1>4 DEF Leftover
  <2>1. k \in 1 .. Size
    BY <1>1
  <2>2. OfLoop(k) /\ ~OfBoot(k)
    BY <1>3, <2>1
  <2> QED BY <2>2 DEF Reach, Leftover
<1> QED BY <1>7, <1>8, <1>9 DEF Reach

(* A cut leaves of the cache what it likes: whatever arrives was written    *)
(* behind the last commit, or is it.                                        *)
LEMMA ReachCut ==
  ASSUME Known, Reach, PowerCut
  PROVE  Reach'
<1>1. /\ Inv /\ OfStorage /\ DiskOfPhase /\ CacheOfPhase /\ pc \in PhasePlaces /\ host.boot # 0
      /\ idx \in Nat /\ Size \in Nat /\ First \in Nat \ {0} /\ First <= idx
  <2>1. Inv /\ pc \in PhasePlaces
    BY DEF Known, PowerCut, PhasePlaces, Writing
  <2> QED BY <2>1, Current, PhaseFacts, Typed DEF Known, OfStorage
<1>2. UNCHANGED <<storage, host>> /\ (storage # "lossy" => lost' = {}) /\ pc' = "repeat"
  BY DEF PowerCut, Losses
<1>3. First' = First /\ \A i : Sector(i)' = Sector(i) /\ Due(i)' = Due(i)
  BY <1>2, HostStays
<1>4. /\ CacheKeeps' <=> CacheKeeps
      /\ \A i : Flushes(i)' <=> Flushes(i)
  BY <1>2, <1>3 DEF CacheKeeps, Flushes
<1>5. ~InPhase'
  BY <1>2 DEF InPhase, PhasePlaces, Writing
<1>6. ASSUME CacheKeeps, NEW k \in 1 .. Size
      PROVE  /\ Fresh(k) => Fresh(k)'
             /\ \/ /\ OfBoot(k)' <=> OfBoot(k)
                   /\ OfLoop(k)' <=> OfLoop(k)
                \/ OfBoot(k)' /\ Sector(k) \in Cached \cup InFlight
  <2>1. storage # "lossy" /\ CacheOn /\ lost' = {}
    BY <1>2, <1>6 DEF CacheKeeps
  <2>2. Fresh(k) => Fresh(k)'
    BY <1>1, <2>1, CutFreshness
  <2>3. \/ disk'[Sector(k)] = disk[Sector(k)]
        \/ /\ Sector(k) \in Cached \cup InFlight
           /\ \A p \in 1 .. NumPages : disk'[Sector(k)][p] = Due(k)
    BY <1>1, <2>1, CutOutcome
  <2>4. CASE disk'[Sector(k)] = disk[Sector(k)]
    BY <1>2, <1>3, <2>2, <2>4 DEF OfBoot, OfLoop
  <2>5. CASE /\ Sector(k) \in Cached \cup InFlight
             /\ \A p \in 1 .. NumPages : disk'[Sector(k)][p] = Due(k)
    <3>1. OfBoot(k)'
      BY <1>2, <1>3, <2>5, LastPage, DueFacts DEF OfBoot
    <3> QED BY <2>2, <2>5, <3>1
  <2> QED BY <2>3, <2>4, <2>5
<1>7. WrittenBehind'
  BY <1>5 DEF WrittenBehind
<1>8. CommitsReach'
  <2> SUFFICES ASSUME CacheKeeps, NEW k \in First .. Size, OfBoot(k)',
                      NEW m \in First .. k - 1, Flushes(m), NEW i \in First .. m
               PROVE  Fresh(i)'
    BY <1>3, <1>4 DEF CommitsReach, FreshTo
  <2>1. /\ k \in 1 .. Size /\ k \in Nat /\ i \in 1 .. Size /\ i \in Nat /\ m \in Nat
        /\ i <= m /\ m < k /\ First <= i
    BY <1>1
  <2>2. CASE OfBoot(k)
    <3>1. FreshTo(m)
      BY <2>2 DEF Reach, CommitsReach
    <3> QED BY <1>6, <2>1, <3>1 DEF FreshTo
  <2>3. CASE Sector(k) \in Cached \cup InFlight
    <3>1. k <= idx
      <4>1. CASE Sector(k) \in Cached
        <5>1. Sector(k) \in Sectors /\ Position(host.loop, Sector(k)) = k
          BY <1>1, <2>1, PhaseFacts
        <5> QED BY <1>1, <2>1, <4>1, <5>1 DEF CacheOfPhase
      <4>2. CASE Sector(k) \in InFlight
        <5>1. pc = "writing" /\ Sector(k) = CurrentLsn
          BY <4>2 DEF InFlight
        <5>2. CurrentLsn = Sector(idx) /\ idx \in 1 .. Size
          BY <1>1, <5>1, WritesTheDue
        <5> QED BY <1>1, <2>1, <5>1, <5>2, PhaseFacts
      <4> QED BY <2>3, <4>1, <4>2
    <3>2. m \in First .. idx - 1 /\ i \in First .. idx - 1
      BY <1>1, <2>1, <3>1
    <3>3. CacheOn /\ InPhase
      BY <1>1 DEF CacheKeeps, InPhase
    <3>4. CASE Committing
      BY <1>1, <1>6, <2>1, <3>2, <3>3, <3>4 DEF OfStorage, Commits
    <3>5. CASE ~Committing
      <4>1. PICK d \in First - 1 .. idx - 1 : CommittedTo(d)
        BY <1>1, <3>3, <3>5 DEF OfStorage, Commits
      <4>2. ~(m \in d + 1 .. idx - 1)
        BY <4>1 DEF CommittedTo, Flushes
      <4>3. i \in First .. d
        BY <1>1, <2>1, <3>2, <4>2
      <4> QED BY <1>6, <2>1, <4>1, <4>3 DEF CommittedTo
    <3> QED BY <3>4, <3>5
  <2> QED BY <1>6, <2>1, <2>2, <2>3
<1>9. Leftover'
  <2> SUFFICES ASSUME CacheKeeps, NEW k \in First + 1 .. Size, OfLoop(k)', ~OfBoot(k)'
               PROVE  k < First + FlushCycle - 1
    BY <1>3, <1>4 DEF Leftover
  <2>1. k \in 1 .. Size
    BY <1>1
  <2>2. OfLoop(k) /\ ~OfBoot(k)
    BY <1>6, <2>1
  <2> QED BY <2>2 DEF Reach, Leftover
<1> QED BY <1>7, <1>8, <1>9 DEF Reach

LEMMA ReachNext == Known /\ Reach /\ [Next]_vars => Reach'
<1> SUFFICES ASSUME Known, Reach, [Next]_vars PROVE Reach'
  OBVIOUS
<1>1. CASE \/ Repeat \/ BeginVerification \/ VerifyRequest \/ VerifyNextLoop \/ EndVerification
           \/ Write \/ LoopWritten
  <2> SUFFICES ASSUME UNCHANGED storage PROVE Reach'
    BY <1>1 DEF Next, Program, PowerCut, Stopped, vars
  <2>1. UNCHANGED <<storage, host, disk>>
    BY <1>1 DEF Repeat, BeginVerification, VerifyRequest, VerifyNextLoop, EndVerification,
                Write, LoopWritten, device
  <2>2. InPhase' => InPhase /\ idx' \in {idx, idx + 1}
    <3>1. CASE Repeat \/ BeginVerification \/ VerifyRequest \/ VerifyNextLoop \/ EndVerification
      <4>1. pc' \notin PhasePlaces
        <5>1. CASE Repeat
          BY <5>1, RepeatGoes DEF PhasePlaces, Writing
        <5>2. CASE BeginVerification \/ VerifyRequest \/ VerifyNextLoop \/ EndVerification
          BY <5>2 DEF BeginVerification, VerifyRequest, VerifyNextLoop, EndVerification,
                      AfterVerdict, PhasePlaces, Writing
        <5> QED BY <3>1, <5>1, <5>2
      <4> QED BY <4>1 DEF InPhase
    <3>2. CASE Write \/ LoopWritten
      BY <3>2 DEF Write, LoopWritten, InPhase, PhasePlaces, Writing
    <3> QED BY <1>1, <3>1, <3>2
  <2> QED BY <2>1, <2>2, ReachStays
<1>2. CASE BeginWriting /\ UNCHANGED storage
  BY <1>2, ReachBegins
<1>3. CASE WriteDone /\ UNCHANGED storage
  <2>1. CASE CacheOn
    <3>1. UNCHANGED <<storage, host, disk>>
      BY <1>3, <2>1 DEF WriteDone
    <3>2. InPhase /\ idx' \in {idx, idx + 1}
      BY <1>3 DEF WriteDone, Advance, InPhase, PhasePlaces, Writing
    <3> QED BY <3>1, <3>2, ReachStays
  <2>2. CASE ~CacheOn
    BY <2>2 DEF Reach, WrittenBehind, CommitsReach, Leftover, CacheKeeps
  <2> QED BY <2>1, <2>2
<1>4. CASE (FirstFlushDone \/ SecondFlushDone \/ LoopFlushDone) /\ UNCHANGED storage
  <2>1. /\ pc \in {"flush1", "flush2", "loop_flush"} /\ FlushCache
        /\ UNCHANGED <<storage, host, before>>
    BY <1>4 DEF FirstFlushDone, SecondFlushDone, LoopFlushDone
  <2>2. idx' = IF pc = "flush2" THEN idx + 1 ELSE idx
    BY <1>4 DEF FirstFlushDone, SecondFlushDone, LoopFlushDone, Advance
  <2> QED BY <2>1, <2>2, ReachFlushed
<1>5. CASE PowerCut
  BY <1>5, ReachCut
<1>6. CASE UNCHANGED vars
  BY <1>6, ReachStays DEF vars, InPhase
<1> QED BY <1>1, <1>2, <1>3, <1>4, <1>5, <1>6 DEF Next, Program, Stopped

-------------------------------------------------------------------------------
(* A step of neither the engine nor the phase's begin.                      *)
LEMMA PredictionStays ==
  ASSUME Prediction, UNCHANGED <<storage, e>>, host'.boot = 0 => host.boot = 0,
         pc' \notin {"verify", "ended"}, pc' = "begin_write" => host'.boot = 0
  PROVE  Prediction'
<1>1. CacheKeeps' => host'.boot # 0
  BY DEF CacheKeeps
<1> QED BY <1>1 DEF Prediction, CacheCounted, CachePredicted

(* A verification begins with nothing counted.                              *)
LEMMA PredictionBegins ==
  ASSUME Known, BeginVerification, UNCHANGED storage
  PROVE  Prediction'
<1>1. /\ Inv /\ host.boot # 0 /\ host.loop \in Nat /\ host.boot \in Nat
      /\ First \in 1 .. Size /\ First \in Nat \ {0}
  <2>1. Inv /\ host.boot # 0
    BY DEF Known, BeginVerification, Inv, Shape, FirstBoot
  <2> QED BY <2>1, PhaseFacts
<1>2. /\ e' = verify_reset(host.loop, host.boot) /\ idx' = First /\ pc' = "verify"
      /\ UNCHANGED <<storage, host>>
  BY DEF BeginVerification, VerifyFrom, First
<1>3. /\ ~e'.gotLast /\ e'.cached = 0 /\ e'.status = "NORMAL"
  BY <1>2 DEF verify_reset
<1>4. First' = First
  BY <1>2, HostStays
<1>5. \E d \in First' - 1 .. idx' - 1 : LastFlush(idx, d)' /\ CountedTo(idx, d)'
  <2>1. PICK d \in Int : d = First - 1
    BY <1>1
  <2>2. LastFlush(idx, d)' /\ CountedTo(idx, d)'
    BY <1>1, <1>2, <1>3, <1>4, <2>1 DEF LastFlush, CountedTo
  <2> QED BY <1>1, <1>2, <1>4, <2>1, <2>2
<1>6. CacheCounted'
  BY <1>3, <1>5 DEF CacheCounted
<1> QED BY <1>2, <1>3, <1>6 DEF Prediction, CachePredicted

(* What a prediction says depends on the host and the medium, and on how    *)
(* far the verification is.                                                 *)
LEMMA PredictedStays ==
  ASSUME UNCHANGED <<storage, host, disk>>
  PROVE  /\ First' = First
         /\ CacheKeeps' <=> CacheKeeps
         /\ \A i : Sector(i)' = Sector(i) /\ (Fresh(i)' <=> Fresh(i))
         /\ \A n, d : LastFlush(n, d)' <=> LastFlush(n, d)
         /\ \A q : NothingBehind(q)' <=> NothingBehind(q)
<1>1. First' = First /\ \A i : Sector(i)' = Sector(i) /\ Due(i)' = Due(i)
  BY HostStays
<1>2. CacheKeeps' <=> CacheKeeps
  BY DEF CacheKeeps
<1>3. \A i : (Fresh(i)' <=> Fresh(i)) /\ (OfLoop(i)' <=> OfLoop(i)) /\ (Flushes(i)' <=> Flushes(i))
  BY <1>1 DEF Fresh, OfLoop, Flushes
<1>4. \A n, d : LastFlush(n, d)' <=> LastFlush(n, d)
  BY <1>1, <1>3 DEF LastFlush
<1>5. \A q : NothingBehind(q)' <=> NothingBehind(q)
  BY <1>3 DEF NothingBehind
<1> QED BY <1>1, <1>2, <1>3, <1>4, <1>5

(* The window goes on into the next loop, and with it the verification.     *)
LEMMA PredictionNextLoop ==
  ASSUME Known, Prediction, VerifyNextLoop, UNCHANGED storage
  PROVE  Prediction'
<1>1. /\ Inv /\ e \in Engine /\ host.loop \in Nat /\ pc = "verify" /\ pc' = "verify"
      /\ g.wLoop \in Nat /\ e' = verify_set_loop_count(e, g.wLoop + 1)
      /\ UNCHANGED <<storage, host, disk>>
  BY Typed DEF Known, VerifyNextLoop, device
<1>2. /\ host.boot # 0 /\ e.loop = g.wLoop /\ e.loop \in Nat /\ e.loop >= host.loop
  BY <1>1 DEF Known, Inv, Shape, FirstBoot, Loop, Verification, OfVerdict, WalkKnown
<1>3. /\ e'.gotLast = e.gotLast /\ e'.lastLsn = e.lastLsn
      /\ e'.status = e.status /\ e'.result = e.result /\ e'.info = e.info
      /\ e'.loop = e.loop + 1
  BY <1>1, <1>2 DEF verify_set_loop_count, Engine
<1>4. e'.loop # host.loop /\ e'.loop > host.loop
  BY <1>1, <1>2, <1>3
<1>5. /\ CacheKeeps' <=> CacheKeeps
      /\ \A q : NothingBehind(q)' <=> NothingBehind(q)
  BY <1>1, PredictedStays
<1>6. ASSUME Predicted PROVE Predicted'
  <2>1. PICK q : q = Position(host.loop, e.lastLsn)
    OBVIOUS
  <2>2. q = Position(host'.loop, e'.lastLsn)
    BY <1>1, <1>3, <2>1
  <2>3. CASE ReadInNextLoop(e.lastLsn)
    <3>1. e.loop > host.loop
      BY <1>1, <1>2, <2>3 DEF ReadInNextLoop
    <3>2. e'.loop > host'.loop + 1
      BY <1>1, <1>2, <1>3, <3>1
    <3> QED BY <1>3, <1>6, <3>2 DEF Predicted, ReadInNextLoop, Sectors
  <2>4. CASE NothingBehind(q)
    <3>1. NothingBehind(q)'
      BY <1>5, <2>4
    <3> QED BY <1>3, <1>6, <2>2, <3>1 DEF Predicted, Sectors
  <2> QED BY <1>6, <2>1, <2>3, <2>4 DEF Predicted
<1>7. CacheKeeps' => CacheCounted'
  BY <1>1, <1>3, <1>4, <1>5 DEF Prediction, CacheCounted
<1>8. CacheKeeps' => CachePredicted'
  BY <1>1, <1>3, <1>4, <1>5, <1>6 DEF Prediction, CachePredicted
<1> QED BY <1>1, <1>2, <1>3, <1>7, <1>8 DEF Prediction

(* The checks behind the pattern leave the prediction alone; a write phase  *)
(* follows only where the pattern held nothing against the storage.         *)
LEMMA PredictionEnds ==
  ASSUME Known, Prediction, EndVerification, UNCHANGED storage
  PROVE  Prediction'
<1>1. /\ Inv /\ g \in State /\ e \in Engine /\ host.loop \in Nat
      /\ pc = "ended" /\ g' = [g EXCEPT !.wLsn = e.info.lsn, !.wLoop = e.info.loop,
                                        !.loop = e.info.loop]
      /\ UNCHANGED <<storage, host, idx, disk>>
  BY Typed DEF Known, EndVerification, verify_apply_result, device
<1>2. g'.loop = e.info.loop
  BY <1>1 DEF State
<1>3. e.status # "NORMAL" /\ host.boot # 0
  BY <1>1 DEF Inv, Shape, FirstBoot, Loop, Verification
<1>4. PICK zone \in Sectors, answer \in {"ok", "bad"}, crash \in BOOLEAN :
        LET done == verify_check_random_zone(verify_set_current_step(e, "LSN_CRC"), answer)
        IN  e' = done /\ crash = (verify_get_result(done) # 0) /\ pc' = AfterVerdict(crash)
  BY DEF EndVerification
<1> DEFINE step == verify_set_current_step(e, "LSN_CRC")
           done == verify_check_random_zone(step, answer)
<1>5. /\ step \in Engine /\ step.result = e.result /\ step.loop = e.loop
      /\ SamePrediction(step, e)
  <2>1. step \in Engine /\ step.result = e.result
    BY <1>1, CurrentStepChanges DEF Steps
  <2>2. step.loop = e.loop /\ SamePrediction(step, e)
    BY <1>1 DEF verify_set_current_step, Engine, SamePrediction
  <2> QED BY <2>1, <2>2
<1>6. e' = done
  BY <1>4
<1>7. pc' = (IF verify_get_result(done) # 0 THEN "out" ELSE "begin_write")
  BY <1>4 DEF AfterVerdict
<1> HIDE DEF step
<1>8. done \in Engine /\ done.loop = step.loop /\ SamePrediction(done, step)
  <2>1. VERI_EREQUEST \in Results /\ VERI_EIO \in Results
    BY DEF Results
  <2>2. CASE answer = "ok"
    BY <1>5, <2>2 DEF verify_check_random_zone, SamePrediction
  <2>3. CASE answer = "bad"
    <3> DEFINE blamed == verify_set_result(step, VERI_EREQUEST)
    <3>1. blamed \in Engine
      BY <1>5, <2>1, SetResultChanges
    <3>2. SamePrediction(step, blamed) /\ blamed.loop = step.loop
      <4>1. SamePrediction(step, blamed)
        BY <1>5, SettersPredictNothing
      <4>2. blamed.loop = step.loop
        BY <1>5 DEF verify_set_result, Engine
      <4> QED BY <4>1, <4>2
    <3>3. done = verify_set_status(blamed, "CRASH")
      BY <2>3 DEF verify_check_random_zone
    <3> HIDE DEF blamed, done
    <3>4. SamePrediction(blamed, done)
      BY <3>1, <3>3, SettersPredictNothing
    <3>5. done \in Engine /\ done.loop = blamed.loop
      BY <3>1, <3>3 DEF verify_set_status, Engine, Statuses
    <3> QED BY <3>2, <3>4, <3>5 DEF SamePrediction
  <2> QED BY <2>2, <2>3
<1>9. /\ answer = "ok" => done = step
      /\ answer = "bad" => done.result = VERI_EREQUEST
  BY <1>5, RandomZoneChanges DEF Answers
<1> HIDE DEF done
<1>10. e'.gotLast = e.gotLast /\ e'.lastLsn = e.lastLsn /\ e'.loop = e.loop
  BY <1>5, <1>6, <1>8 DEF SamePrediction
<1>11. pc' = "begin_write" => e.result = VERI_NOERR
  <2>1. verify_get_result(done) = 0 => done.result = VERI_NOERR
    BY <1>8 DEF Engine, Results, verify_get_result, verify_get_error_num,
                verify_get_crash_num, VERI_NOERR, VERI_EIO, VERI_EREQUEST, VERI_EPARTIAL,
                PLR_EIO, PLR_ECRASH
  <2>2. VERI_EREQUEST # VERI_NOERR
    BY DEF VERI_EREQUEST, VERI_NOERR
  <2> QED BY <1>5, <1>7, <1>9, <2>1, <2>2
<1>12. /\ CacheKeeps' <=> CacheKeeps
       /\ \A q : NothingBehind(q)' <=> NothingBehind(q)
  BY <1>1, PredictedStays
<1>13. ASSUME Predicted PROVE Predicted'
  <2>1. PICK q : q = Position(host.loop, e.lastLsn)
    OBVIOUS
  <2>2. q = Position(host'.loop, e'.lastLsn)
    BY <1>1, <1>10, <2>1
  <2>3. ReadInNextLoop(e.lastLsn) => ReadInNextLoop(e.lastLsn)'
    <3>1. PICK s, r : s = e.lastLsn /\ r = Position(e.loop, s)
      OBVIOUS
    <3>2. s = e'.lastLsn /\ r = Position(e'.loop, e'.lastLsn)
      BY <1>10, <3>1
    <3> QED BY <1>1, <1>10, <3>1, <3>2 DEF ReadInNextLoop
  <2>4. NothingBehind(q) => NothingBehind(q)'
    BY <1>12
  <2> QED BY <1>10, <1>13, <2>1, <2>2, <2>3, <2>4 DEF Predicted, Sectors
<1>14. CacheKeeps' /\ pc' = "begin_write" /\ g'.loop = host'.loop /\ e'.gotLast => Predicted'
  BY <1>1, <1>2, <1>3, <1>10, <1>11, <1>12, <1>13 DEF Prediction, CachePredicted
<1>15. pc' \notin {"verify", "ended"}
  BY <1>7
<1>16. ~CacheOn => ~e'.gotLast
  BY <1>10 DEF Prediction
<1> QED BY <1>1, <1>3, <1>14, <1>15, <1>16 DEF Prediction, CacheCounted, CachePredicted

(* A verification that reads on: the engine counts the requests since the   *)
(* last flush request it expected, and stops at the end of the flush cycle. *)
LEMMA PredictionReads ==
  ASSUME Known, Reach, Prediction, VerifyRequest, UNCHANGED storage, ~WindowFull(e)
  PROVE  Prediction'
<1> DEFINE lsn == Pattern(e.loop)[idx]
           o   == Observe(lsn)
<1>1. /\ Inv /\ pc = "verify" /\ pc' = "verify" /\ idx' = idx + 1
      /\ UNCHANGED <<g, storage, host, disk>>
      /\ e' = do_verify(e, Config, lsn, count, o).eng
  BY VerifyStep DEF Known
<1>2. /\ host.boot # 0 /\ idx \in 1 .. Size /\ idx \in Nat \ {0} /\ lsn \in Sectors /\ lsn \in Nat
      /\ e.loop \in Nat /\ e.loop >= host.loop /\ host.loop \in Nat /\ count \in Nat \ {0}
      /\ Position(e.loop, lsn) = idx
      /\ e.loop = host.loop => lsn = Sector(idx) /\ First <= idx /\ count = idx - First + 1
      /\ First \in Nat \ {0} /\ Size \in Nat \ {0} /\ e \in Engine /\ FlushCycle \in Nat \ {0}
      /\ o \in Readings /\ Config \in Values
  BY <1>1, ReadsTheDue, VerifyStep, Typed, PhaseFacts, CaseAssumption, ConfigIsValue
  DEF Known, OfVerdict, WalkKnown
<1>3. /\ e.status = "NORMAL" => e.verify = "normal"
      /\ e.status = "NORMAL" /\ e.loop # host.loop => e.loop = host.loop + 1
      /\ e.status # "NORMAL" /\ e.verify = "normal" => e.result # VERI_NOERR
      /\ e.status # "NORMAL" => e.info.lsn \in Sectors
  BY <1>1 DEF Inv, Loop, Verification, Walked
<1>4. e.status # "NORMAL" /\ e.result = VERI_NOERR =>
        Found(e.info.loop, e.info.lsn) /\ e.info.loop <= e.loop /\ WindowRead
  BY <1>1 DEF Known, OfVerdict, WalkKnown
<1>5. AllExpected(o.pages) <=> e.loop = host.loop /\ Fresh(idx)
  BY ExpectedIsFresh
<1>6. /\ e'.loop = e.loop
      /\ \/ e.verify = "normal" /\ AllExpected(o.pages)
         \/ e.verify # "normal" /\ ~o.hit
         => e'.result = e.result /\ e'.status = e.status /\ e'.info = e.info
      /\ e.verify = "normal" /\ ~AllExpected(o.pages) =>
           /\ e'.status # "NORMAL" /\ e'.info.lsn = lsn /\ e'.info.loop = e.loop
           /\ e'.result \in {e.result, VERI_EREQUEST, VERI_EPARTIAL}
      /\ e.verify # "normal" /\ o.hit => e'.result # VERI_NOERR /\ e'.status # "NORMAL"
  BY EngineStep
<1>8. PICK next :
        next = (IF count % FlushCycle = 0 /\ e'.status = "NORMAL" THEN 0 ELSE e.cached) + 1
  OBVIOUS
<1>9. /\ e.gotLast \/ ~CacheOn => e'.gotLast = e.gotLast /\ e'.lastLsn = e.lastLsn
      /\ ~e.gotLast /\ CacheOn =>
           /\ e'.cached = next
           /\ IF e'.status # "NORMAL" /\ next >= FlushCycle
              THEN e'.gotLast /\ e'.lastLsn = lsn
              ELSE ~e'.gotLast
  <2> DEFINE cf == Config
  <2>1. cf.cache = CacheOn /\ cf.cycle = FlushCycle
    BY DEF Config
  <2>2. cf \in Values
    BY <1>2
  <2> HIDE DEF lsn, o, cf
  <2>3. e' = do_verify(e, cf, lsn, count, o).eng
    BY <1>1 DEF cf
  <2> QED BY <1>2, <1>8, <2>1, <2>2, <2>3, DoVerifyPredicts
<1> HIDE DEF lsn, o
<1>7. o.hit \in BOOLEAN /\ VERI_NOERR \notin {VERI_EREQUEST, VERI_EPARTIAL}
  BY <1>2 DEF Readings, VERI_NOERR, VERI_EREQUEST, VERI_EPARTIAL
<1>10. /\ First' = First
       /\ CacheKeeps' <=> CacheKeeps
       /\ \A n, d : LastFlush(n, d)' <=> LastFlush(n, d)
       /\ \A q : NothingBehind(q)' <=> NothingBehind(q)
  BY <1>1, PredictedStays
<1>11. CacheKeeps => CacheOn /\ storage # "lossy"
  BY DEF CacheKeeps
<1>12. e'.status = "NORMAL" => /\ e.status = "NORMAL" /\ e'.info = e.info
                               /\ AllExpected(o.pages) /\ e.loop = host.loop
  BY <1>3, <1>5, <1>6, <1>7
<1>13. ASSUME CacheKeeps, e'.status = "NORMAL" PROVE CacheCounted'
  <2>1. ~e.gotLast /\ e.loop = host.loop /\ count = idx - First + 1 /\ First <= idx
    BY <1>1, <1>2, <1>12, <1>13 DEF Prediction, CacheCounted
  <2>2. PICK d \in First - 1 .. idx - 1 : LastFlush(idx, d) /\ CountedTo(idx, d)
    BY <1>1, <1>12, <1>13, <2>1 DEF Prediction, CacheCounted
  <2>3. PICK q : q = idx
    OBVIOUS
  <2>4. /\ q \in Nat /\ idx' = q + 1 /\ d \in Int /\ ~e'.gotLast /\ e'.cached = next
        /\ LastFlush(q, d) /\ CountedTo(q, d)
    BY <1>1, <1>2, <1>9, <1>11, <1>13, <2>1, <2>2, <2>3
  <2>5. Flushes(q) <=> count % FlushCycle = 0
    BY <2>1, <2>3 DEF Flushes, DO_CACHE_FLUSH
  <2>6. \E b \in First - 1 .. q :
          /\ LastFlush(q + 1, b)
          /\ e'.cached = IF b >= First THEN q + 1 - b ELSE q + 1 - First
    <3>1. CASE Flushes(q)
      <4>1. LastFlush(q + 1, q)
        BY <1>2, <2>1, <2>3, <2>4, <3>1 DEF LastFlush
      <4>2. e'.cached = 1
        BY <1>8, <1>13, <2>4, <2>5, <3>1
      <4> QED BY <1>2, <2>1, <2>3, <2>4, <4>1, <4>2
    <3>2. CASE ~Flushes(q)
      <4>1. \A k \in d + 1 .. q : k \in d + 1 .. q - 1 \/ k = q
        BY <2>4
      <4>2. LastFlush(q + 1, d)
        BY <1>2, <2>1, <2>2, <2>3, <2>4, <3>2, <4>1 DEF LastFlush
      <4>3. e'.cached = e.cached + 1
        BY <1>8, <2>4, <2>5, <3>2
      <4>4. e.cached = IF d >= First THEN q - d ELSE q - First
        BY <2>4 DEF CountedTo
      <4>5. e'.cached = IF d >= First THEN q + 1 - d ELSE q + 1 - First
        BY <1>2, <2>4, <4>3, <4>4
      <4> QED BY <1>2, <2>2, <2>3, <4>2, <4>5
    <3> QED BY <3>1, <3>2
  <2>7. PICK b \in First - 1 .. q : /\ LastFlush(q + 1, b)
                                    /\ e'.cached = IF b >= First THEN q + 1 - b ELSE q + 1 - First
    BY <2>6
  <2>8. LastFlush(idx, b)'
    <3>1. PICK n : n = q + 1
      OBVIOUS
    <3>2. LastFlush(n, b)'
      BY <1>10, <2>7, <3>1
    <3> QED BY <2>4, <3>1, <3>2
  <2>9. CountedTo(idx, b)'
    <3>1. PICK n : n = q + 1
      OBVIOUS
    <3>2. idx' = n /\ First' = First /\ e'.cached = IF b >= First THEN n - b ELSE n - First
      <4>1. idx' = n /\ First' = First /\ q + 1 = n
        BY <1>10, <2>4, <3>1
      <4>2. e'.cached = IF b >= First THEN n - b ELSE n - First
        <5>1. q \in Int /\ b \in Int /\ First \in Int
          BY <1>2, <2>4, <2>7
        <5> QED BY <2>7, <4>1, <5>1
      <4> QED BY <4>1, <4>2
    <3> QED BY <3>2 DEF CountedTo
  <2>10. b \in (First - 1 .. idx - 1)'
    BY <1>2, <1>10, <2>4, <2>7
  <2> QED BY <2>4, <2>8, <2>9, <2>10 DEF CacheCounted
<1>14. PICK n, from : n = idx + 1 /\ from = Suspect_Position'
  OBVIOUS
<1>15. n \in Nat /\ idx' = n /\ e'.loop = e.loop /\ host'.loop = host.loop
  BY <1>1, <1>2, <1>6, <1>14
<1>16. ASSUME CacheKeeps, e'.status # "NORMAL", e.loop = host.loop, ~e.gotLast,
              NEW i \in First .. idx, ~Fresh(i), from = i,
              NEW d \in First - 1 .. i - 1, LastFlush(i, d), CountedTo(idx, d)
       PROVE  /\ e'.gotLast => Predicted'
              /\ ~e'.gotLast =>
                   /\ e'.cached < FlushCycle
                   /\ \E b \in First - 1 .. from - 1 : LastFlush(from, b) /\ CountedTo(idx, b)'
  <2>1. /\ i \in Nat /\ d \in Int /\ idx \in i .. Size /\ i \in First .. Size
        /\ e'.cached = next /\ next = e.cached + 1
        /\ e.cached = (IF d >= First THEN idx - d ELSE idx - First)
    BY <1>2, <1>8, <1>9, <1>11, <1>16 DEF CountedTo
  <2>2. next \in Nat /\ next = (IF d >= First THEN idx - d ELSE idx - First) + 1
    BY <1>2, <1>16, <2>1
  <2>3. CASE next >= FlushCycle
    <3>1. NothingBehind(idx)
      <4>1. PICK q : q = idx
        OBVIOUS
      <4>2. q \in i .. Size /\ next = (IF d >= First THEN q - d ELSE q - First) + 1
        BY <2>1, <2>2, <4>1
      <4>3. NothingBehind(q)
        BY <1>16, <2>1, <2>2, <2>3, <4>2, CycleIsFull
      <4> QED BY <4>1, <4>3
    <3>2. e'.gotLast /\ e'.lastLsn = lsn
      BY <1>9, <1>11, <1>16, <2>3
    <3>3. PICK q : q = idx
      OBVIOUS
    <3>4. NothingBehind(q)' /\ q = Position(host'.loop, e'.lastLsn)
      BY <1>2, <1>10, <1>15, <1>16, <3>1, <3>2, <3>3
    <3>5. Predicted'
      BY <1>2, <3>2, <3>4 DEF Predicted, Sectors
    <3> QED BY <3>2, <3>5
  <2>4. CASE ~(next >= FlushCycle)
    <3>1. ~e'.gotLast /\ e'.cached < FlushCycle
      BY <1>2, <1>9, <1>11, <1>16, <2>1, <2>2, <2>4
    <3>2. e'.cached = IF d >= First THEN n - d ELSE n - First
      BY <1>2, <1>14, <1>16, <2>1, <2>2
    <3>3. CountedTo(idx, d)'
      BY <1>10, <1>15, <3>2 DEF CountedTo
    <3> QED BY <1>16, <3>1, <3>3
  <2> QED BY <2>3, <2>4
<1>17. ASSUME CacheKeeps, e'.status # "NORMAL", e'.result = VERI_NOERR, e'.info.loop = host.loop
       PROVE  /\ e'.gotLast => Predicted'
              /\ ~e'.gotLast /\ e.loop = host.loop =>
                   /\ e'.cached < FlushCycle
                   /\ \E d \in First - 1 .. from - 1 : LastFlush(from, d) /\ CountedTo(idx, d)'
  <2>1. CASE e.verify = "normal"
    <3>1. e.status = "NORMAL" /\ ~AllExpected(o.pages)
      BY <1>3, <1>6, <1>7, <1>17, <2>1
    <3>2. e'.info.lsn = lsn /\ e.loop = host.loop /\ ~Fresh(idx)
      BY <1>5, <1>6, <1>17, <2>1, <3>1
    <3>3. from = idx
      BY <1>1, <1>2, <1>14, <3>2 DEF Suspect_Position
    <3>4. PICK i : i = idx
      OBVIOUS
    <3>5. i \in First .. idx /\ ~Fresh(i) /\ from = i
      BY <1>2, <3>2, <3>3, <3>4
    <3>6. ~e.gotLast /\ \E d \in First - 1 .. i - 1 : LastFlush(i, d) /\ CountedTo(idx, d)
      BY <1>1, <1>17, <3>1, <3>2, <3>4 DEF Prediction, CacheCounted
    <3> QED BY <1>16, <1>17, <3>2, <3>5, <3>6
  <2>2. CASE e.verify # "normal"
    <3>1. /\ ~o.hit /\ e'.result = e.result /\ e'.status = e.status /\ e'.info = e.info
          /\ e.info.loop = host.loop
      BY <1>6, <1>7, <1>17, <2>2
    <3>2. Found(e.info.loop, e.info.lsn) /\ WindowRead
      BY <1>4, <1>17, <3>1
    <3>3. /\ e.gotLast => Predicted
          /\ ~e.gotLast /\ e.loop = host.loop =>
               \E d \in First - 1 .. Suspect_Position - 1 :
                 LastFlush(Suspect_Position, d) /\ CountedTo(idx, d)
      BY <1>1, <1>17, <3>1 DEF Prediction, CachePredicted
    <3>4. from = Suspect_Position
      BY <1>1, <1>14, <3>1 DEF Suspect_Position
    <3>5. CASE e.gotLast
      <4>1. Predicted /\ e'.gotLast /\ e'.lastLsn = e.lastLsn
        BY <1>9, <3>3, <3>5
      <4>2. PICK s, q, r : s = e.lastLsn /\ q = Position(host.loop, s) /\ r = Position(e.loop, s)
        OBVIOUS
      <4>3. /\ s = e'.lastLsn /\ q = Position(host'.loop, e'.lastLsn)
            /\ r = Position(e'.loop, e'.lastLsn) /\ s \in Sectors
        BY <1>15, <4>1, <4>2 DEF Predicted
      <4>4. r \in Nat
        <5>1. Position(e.loop, s) \in 1 .. Size
          BY <1>2, <4>3, PositionFacts
        <5> QED BY <4>2, <5>1, IndexFacts
      <4>5. CASE ReadInNextLoop(s)
        <5>1. e.loop > host.loop + 1 \/ (e.loop = host.loop + 1 /\ r < idx)
          BY <4>2, <4>5 DEF ReadInNextLoop
        <5>2. e'.loop > host'.loop + 1 \/ (e'.loop = host'.loop + 1 /\ r < idx')
          BY <1>2, <1>14, <1>15, <4>4, <5>1
        <5>3. Predicted'
          BY <4>3, <5>2 DEF Predicted, ReadInNextLoop, Sectors
        <5> QED BY <4>1, <5>3
      <4>6. CASE NothingBehind(q)
        <5>1. NothingBehind(q)'
          BY <1>10, <4>6
        <5>2. Predicted'
          BY <4>3, <5>1 DEF Predicted, Sectors
        <5> QED BY <4>1, <5>2
      <4> QED BY <4>1, <4>2, <4>5, <4>6 DEF Predicted
    <3>6. CASE ~e.gotLast /\ e.loop = host.loop
      <4>1. PICK i : i = Suspect_Position
        OBVIOUS
      <4>2. i \in First .. idx /\ ~Fresh(i)
        <5>1. First <= i /\ ~Fresh(i) /\ i < idx
          <6>1. ~(e.info.loop = host.loop + 1)
            BY <1>2, <3>1
          <6> QED BY <3>1, <3>2, <3>6, <4>1, <6>1 DEF Found, WindowRead, Suspect_Position
        <5>2. i \in Nat
          BY <1>1, <1>2, <1>3, <1>17, <3>1, <4>1, PhaseFacts, IndexFacts DEF Suspect_Position
        <5> QED BY <1>2, <5>1, <5>2
      <4>3. \E d \in First - 1 .. i - 1 : LastFlush(i, d) /\ CountedTo(idx, d)
        BY <3>3, <3>6, <4>1
      <4> QED BY <1>16, <1>17, <3>4, <3>6, <4>1, <4>2, <4>3
    <3>7. CASE ~e.gotLast /\ e.loop # host.loop
      <4> SUFFICES ASSUME e'.gotLast PROVE Predicted'
        BY <3>7
      <4>1. e'.lastLsn = lsn
        BY <1>9, <1>11, <1>17, <3>7
      <4>2. Position(e'.loop, e'.lastLsn) < idx'
        <5>1. Position(e'.loop, e'.lastLsn) = idx
          BY <1>2, <1>15, <4>1
        <5> QED BY <1>1, <1>2, <5>1
      <4>3. e'.loop > host'.loop + 1 \/ e'.loop = host'.loop + 1
        BY <1>2, <1>15, <3>7
      <4> QED BY <1>2, <4>1, <4>2, <4>3 DEF Predicted, ReadInNextLoop, Sectors
    <3> QED BY <3>5, <3>6, <3>7
  <2> QED BY <2>1, <2>2
<1>18. CacheKeeps' => CacheCounted'
  BY <1>10, <1>13 DEF CacheCounted
<1>19. CacheKeeps' => CachePredicted'
  <2> SUFFICES ASSUME CacheKeeps, e'.status # "NORMAL", e'.result = VERI_NOERR,
                      e'.info.loop = host.loop, ~e'.gotLast, e.loop = host.loop
               PROVE  /\ e'.cached < FlushCycle
                      /\ \E d \in First' - 1 .. Suspect_Position' - 1 :
                           LastFlush(Suspect_Position, d)' /\ CountedTo(idx, d)'
    BY <1>1, <1>10, <1>15, <1>17 DEF CachePredicted
  <2>1. PICK d \in First - 1 .. from - 1 : LastFlush(from, d) /\ CountedTo(idx, d)'
    BY <1>17
  <2>2. LastFlush(from, d)'
    BY <1>10, <2>1
  <2>3. LastFlush(Suspect_Position, d)'
    BY <1>14, <2>2
  <2> QED BY <1>10, <1>14, <1>17, <2>1, <2>3
<1>20. ~CacheOn => ~e'.gotLast
  BY <1>9 DEF Prediction
<1> QED BY <1>1, <1>2, <1>18, <1>19, <1>20 DEF Prediction

LEMMA PredictionNext == Known /\ Reach /\ Prediction /\ [Next]_vars => Prediction'
<1> SUFFICES ASSUME Known, Reach, Prediction, [Next]_vars PROVE Prediction'
  OBVIOUS
<1>1. CASE BeginVerification /\ UNCHANGED storage
  BY <1>1, PredictionBegins
<1>2. CASE VerifyRequest /\ UNCHANGED storage
  <2>1. CASE WindowFull(e)
    <3>1. /\ e' = e /\ pc = "verify" /\ pc' = "ended" /\ idx' = idx
          /\ UNCHANGED <<storage, host, disk>>
      BY <1>2, <2>1, VerifyStep DEF Known
    <3>2. e.status # "NORMAL"
      BY <1>2, <2>1, <3>1, RequestWindowAssumption
      DEF WindowFull, Known, Inv, Loop, Verification, Walked
    <3>3. First' = First /\ (CacheKeeps' <=> CacheKeeps) /\ Suspect_Position' = Suspect_Position
      BY <3>1, PredictedStays DEF Suspect_Position
    <3>4. PICK q, from, s : /\ q = Position(host.loop, e.lastLsn) /\ from = Suspect_Position
                            /\ s = e.lastLsn
      OBVIOUS
    <3>5. /\ q = Position(host.loop, e.lastLsn)' /\ from = Suspect_Position' /\ s = e'.lastLsn
          /\ NothingBehind(q)' <=> NothingBehind(q)
          /\ \A d : LastFlush(from, d)' <=> LastFlush(from, d)
          /\ \A d : CountedTo(idx, d)' <=> CountedTo(idx, d)
      BY <3>1, <3>3, <3>4, PredictedStays DEF CountedTo
    <3>6. Predicted => Predicted'
      BY <3>1, <3>4, <3>5 DEF Predicted, ReadInNextLoop, Sectors
    <3>7. CachePredicted => CachePredicted'
      BY <3>1, <3>3, <3>4, <3>5, <3>6 DEF CachePredicted
    <3>8. CacheCounted'
      BY <3>1 DEF CacheCounted
    <3> QED BY <3>1, <3>3, <3>7, <3>8 DEF Prediction
  <2>2. CASE ~WindowFull(e)
    BY <1>2, <2>2, PredictionReads
  <2> QED BY <2>1, <2>2
<1>3. CASE VerifyNextLoop /\ UNCHANGED storage
  BY <1>3, PredictionNextLoop
<1>4. CASE EndVerification /\ UNCHANGED storage
  BY <1>4, PredictionEnds
<1>5. CASE Repeat /\ UNCHANGED storage
  <2>1. UNCHANGED <<storage, e, host>>
    BY <1>5 DEF Repeat
  <2> QED BY <1>5, <2>1, RepeatGoes, PredictionStays
<1>6. CASE BeginWriting /\ UNCHANGED storage
  <2>1. UNCHANGED <<storage, e>> /\ pc' = "write"
    BY <1>6 DEF BeginWriting
  <2>2. host'.boot # 0
    BY <1>6, PhaseBegins
  <2> QED BY <2>1, <2>2, PredictionStays
<1>7. CASE /\ \/ Write \/ WriteDone \/ FirstFlushDone \/ SecondFlushDone
              \/ LoopWritten \/ LoopFlushDone \/ PowerCut
           /\ UNCHANGED storage
  <2>1. UNCHANGED <<storage, e, host>> /\ pc' \notin {"verify", "ended", "begin_write"}
    BY <1>7 DEF Write, Issue, WriteDone, Advance, FirstFlushDone, SecondFlushDone, LoopWritten,
                LoopFlushDone, PowerCut, device
  <2> QED BY <2>1, PredictionStays
<1>8. CASE UNCHANGED vars
  <2>1. UNCHANGED <<storage, g, host, disk, pc, e, idx>>
    BY <1>8 DEF vars
  <2>2. First' = First /\ (CacheKeeps' <=> CacheKeeps) /\ Suspect_Position' = Suspect_Position
    BY <2>1, PredictedStays DEF Suspect_Position
  <2>3. PICK q, from, n : /\ q = Position(host.loop, e.lastLsn) /\ from = Suspect_Position
                          /\ n = idx
    OBVIOUS
  <2>4. /\ q = Position(host.loop, e.lastLsn)' /\ from = Suspect_Position' /\ n = idx'
        /\ NothingBehind(q)' <=> NothingBehind(q)
        /\ \A d : LastFlush(from, d)' <=> LastFlush(from, d)
        /\ \A d : LastFlush(n, d)' <=> LastFlush(n, d)
        /\ \A d : CountedTo(n, d)' <=> CountedTo(n, d)
    BY <2>1, <2>2, <2>3, PredictedStays DEF CountedTo
  <2>5. Predicted => Predicted'
    BY <2>1, <2>3, <2>4 DEF Predicted, ReadInNextLoop, Sectors
  <2>6. CachePredicted => CachePredicted'
    BY <2>1, <2>2, <2>3, <2>4, <2>5 DEF CachePredicted
  <2>7. CacheCounted => CacheCounted'
    BY <2>1, <2>2, <2>3, <2>4 DEF CacheCounted
  <2> QED BY <2>1, <2>2, <2>5, <2>6, <2>7 DEF Prediction
<1>9. PowerCut => UNCHANGED storage
  BY DEF PowerCut
<1> QED BY <1>1, <1>2, <1>3, <1>4, <1>5, <1>6, <1>7, <1>8, <1>9 DEF Next, Program, Stopped

LEMMA PredictionHolds == Spec => [](Known /\ Reach /\ Prediction)
<1>1. Init => Known /\ Reach /\ Prediction
  <2> SUFFICES ASSUME Init PROVE Known /\ Reach /\ Prediction
    OBVIOUS
  <2>1. host.boot = 0 /\ ~e.gotLast
    BY DEF Init, verify_reset
  <2>2. ~CacheKeeps
    BY <2>1 DEF CacheKeeps
  <2> QED BY <2>1, <2>2, KnownInit DEF Reach, WrittenBehind, CommitsReach, Leftover, Prediction
<1>2. Known /\ Reach /\ Prediction /\ [Next]_vars => (Known /\ Reach /\ Prediction)'
  BY KnownNext, ReachNext, PredictionNext
<1> QED BY <1>1, <1>2, PTL DEF Spec

(* With a cache the engine predicts the last sector the cache may have held: *)
(* unless the prediction is one of the next loop, no request behind it was   *)
(* written in this one, whatever the cache wrote back by itself and wherever *)
(* the power was cut, over any number of boots.                              *)
THEOREM PredictionIsRight == Spec => []NothingBehindPrediction
<1>1. Known /\ Reach /\ Prediction => NothingBehindPrediction
  <2> SUFFICES ASSUME Known, Prediction, storage # "lossy", pc = "begin_write", e.gotLast,
                      host.loop = g.loop, ~ReadInNextLoop(e.lastLsn),
                      NEW i \in Position(g.loop, e.lastLsn) + 1 .. Len(Pattern(g.loop)),
                      NEW p \in 1 .. NumPages
               PROVE  disk[Pattern(g.loop)[i]][p].loop < g.loop
    BY DEF NothingBehindPrediction
  <2>1. Inv /\ host.boot # 0 /\ CacheOn
    BY DEF Known, Prediction
  <2>2. e.lastLsn \in Sectors /\ NothingBehind(Position(host.loop, e.lastLsn))
    BY <2>1 DEF Prediction, CacheKeeps, Predicted
  <2>3. PICK q : q = Position(host.loop, e.lastLsn)
    OBVIOUS
  <2>4. /\ q \in Nat /\ Size \in Nat /\ Len(Pattern(g.loop)) = Size /\ host.loop \in Nat
        /\ i \in q + 1 .. Size
    <3>1. q \in 1 .. Size /\ host.loop \in Nat
      BY <2>1, <2>2, <2>3, PhaseFacts
    <3>2. Len(Pattern(host.loop)) = Size
      BY <3>1, PatternFacts
    <3> QED BY <2>3, <3>1, <3>2, IndexFacts, PatternFacts
  <2>5. i \in 1 .. Size
    BY <2>4
  <2>6. ~OfLoop(i)
    BY <2>2, <2>3, <2>4 DEF NothingBehind
  <2>7. disk[Sector(i)][p].loop # host.loop
    BY <2>6 DEF OfLoop
  <2>8. Sector(i) \in Sectors
    BY <2>1, <2>5, PhaseFacts
  <2>9. disk[Sector(i)][p].loop \in Nat /\ disk[Sector(i)][p].loop <= host.loop
    BY <2>1, <2>8, Typed, PageTypes DEF PageType, Known, OfStorage, DiskOfPhase, PageOfPhase
  <2> QED BY <2>4, <2>7, <2>9 DEF Sector
<1> QED BY <1>1, PredictionHolds, PTL
===============================================================================
