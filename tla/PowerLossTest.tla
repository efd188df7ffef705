---------------------------- MODULE PowerLossTest ----------------------------
(***************************************************************************)
(* A power loss test with internal power control, end to end: the loop of  *)
(* plr_main (repeat: boot count, verification, write phase, power off),    *)
(* write_pattern and the write requests of plr_common.c, the verification  *)
(* of VerifyCore, and the storage under test with its volatile cache.      *)
(*                                                                         *)
(* A request is a start sector and a few pages; a page is what the checks  *)
(* tell apart of its header.  The random sizes of the requests are left    *)
(* out: they are drawn again from the recorded seed, so that verification  *)
(* sees the writer's requests.  The host, the power control driver and the *)
(* storage are outside the source tree.                                    *)
(***************************************************************************)
EXTENDS VerifyCore

CONSTANTS
  Pattern1,     \* start sectors of an odd loop, in the order they are written
  Pattern2,     \* and of an even one
  NumPages,     \* pages in a request
  CacheOn,      \* b_cache_enable
  FlushCycle,   \* cache_flush_cycle
  Minor,        \* test_minor
  FinishValue   \* finish.value, with finish.type 0: the boots to run, for each
                \* kind of storage; its domain is the kinds that are tested

\* The two patterns start the same requests, each once, in different orders.
ASSUME PatternsAssumption ==
  /\ Pattern1 \in Seq(Nat) /\ Pattern2 \in Seq(Nat)
  /\ Len(Pattern1) > 0 /\ Len(Pattern2) = Len(Pattern1)
  /\ {Pattern1[i] : i \in DOMAIN Pattern1} = {Pattern2[i] : i \in DOMAIN Pattern2}
  /\ \A i, j \in DOMAIN Pattern1 :
       Pattern1[i] = Pattern1[j] \/ Pattern2[i] = Pattern2[j] => i = j

ASSUME CaseAssumption ==
  /\ NumPages \in Nat \ {0} /\ FlushCycle \in Nat \ {0}
  /\ CacheOn \in BOOLEAN /\ Minor \in Nat

ASSUME DeviceAssumption ==
  /\ DOMAIN FinishValue \subseteq {"atomic", "tearing", "lossy"}
  /\ FinishValue \in [DOMAIN FinishValue -> Nat]

VARIABLES
  storage,  \* what the storage does when its power is cut
  g,        \* g_plr_state and the globals beside it
  host,     \* the write information the host was last sent
  sdcrash,  \* the crash state on the SD card
  pc,       \* where the program is
  e,        \* the verification engine
  idx,      \* position of the current request in its loop's pattern
  count,    \* its request_count
  armed,    \* the driver was told to cut the power
  disk,     \* sector -> pages on the medium
  cache,    \* sector -> pages in the volatile cache, <<>> when none
  before,   \* history: the medium when the current write phase began
  durable,  \* history: requests of this phase the storage owes the test
  lost      \* history: those of them it lost

vars == <<storage, g, host, sdcrash, pc, e, idx, count, armed, disk, cache, before, durable, lost>>

device  == <<armed, disk, cache, before, durable, lost>>

Places == {"repeat", "begin_verify", "verify", "ended", "begin_write", "write",
           "flush1", "writing", "flush2", "loop_flush", "finished", "out"}

Sectors == {Pattern1[i] : i \in DOMAIN Pattern1}

Pattern(loop) == IF loop % 2 = 1 THEN Pattern1 ELSE Pattern2

Position(loop, lsn) == CHOOSE i \in DOMAIN Pattern(loop) : Pattern(loop)[i] = lsn

\* What init_pattern_1 and init_pattern_2 start with.
FirstLsn(loop) == Pattern(loop)[1]

Request(page) == [p \in 1 .. NumPages |-> page]

Erased  == [loop |-> 0, boot |-> 0, magic |-> "NONE"]
Garbage == [loop |-> 0, boot |-> 0, magic |-> "BAD"]

DO_CACHE_FLUSH(n) == n % FlushCycle = 0

\* make_header (writer) and make_expected_header (verifier) fill in the same fields.
Header(loop, boot, n) ==
  [loop  |-> loop, boot |-> boot,
   magic |-> IF CacheOn /\ DO_CACHE_FLUSH(n) THEN "FLUSH" ELSE "PAGE"]

-------------------------------------------------------------------------------
Init ==
  /\ storage \in DOMAIN FinishValue
  /\ g = [ boot |-> 0, loop |-> 1, wLsn |-> 0, wLoop |-> 1, wBoot |-> 0,
           poffPos |-> 0, flushPos |-> 0, firstCommit |-> FALSE, require |-> FALSE ]
  /\ host    = [lsn |-> 0, loop |-> 0, boot |-> 0]
  /\ sdcrash = FALSE
  /\ pc      = "repeat"
  /\ e       = verify_reset(0, 0)
  /\ idx     = 1
  /\ count   = 1
  /\ armed   = FALSE
  /\ disk    = [s \in Sectors |-> Request(Erased)]
  /\ cache   = [s \in Sectors |-> <<>>]
  /\ before  = disk
  /\ durable = {}
  /\ lost    = {}

(***************************************************************************)
(* plr_main from "repeat": count the boot, disarm the driver, stop when    *)
(* the test is finished or a crash is on record.  The first boot has       *)
(* nothing to verify.                                                      *)
(***************************************************************************)
Repeat ==
  /\ pc = "repeat"
  /\ g' = [g EXCEPT !.boot = @ + 1,
                    !.firstCommit = ~CacheOn,
                    !.require = @ /\ ~CacheOn]
  /\ armed' = FALSE
  /\ pc' = CASE g.boot + 1 > FinishValue[storage] -> "finished"
             [] g.boot + 1 <= FinishValue[storage] /\ sdcrash -> "out"
             [] g.boot + 1 <= FinishValue[storage] /\ ~sdcrash ->
                  IF g.boot + 1 = 1 THEN "begin_write" ELSE "begin_verify"
  /\ UNCHANGED <<host, sdcrash, e, idx, count, disk, cache, before, durable, lost>>

-------------------------------------------------------------------------------
\* Mutant: verification starts with the loop, not with the phase.
VerifyFrom_LoopStart == FirstLsn(host.loop)

\* Verification walks the pattern from where the last write phase began.
VerifyFrom == host.lsn

\* verify_pattern
BeginVerification ==
  /\ pc = "begin_verify"
  /\ g' = [g EXCEPT !.wLsn = VerifyFrom, !.wLoop = host.loop, !.wBoot = host.boot]
  /\ e' = verify_reset(host.loop, host.boot)
  /\ idx' = Position(host.loop, VerifyFrom)
  /\ count' = 1
  /\ pc' = "verify"
  /\ UNCHANGED <<host, sdcrash, device>>

Config == [ cache |-> CacheOn, internal |-> TRUE, erase |-> FALSE,
            poffPos |-> g.poffPos, minor |-> Minor, cycle |-> FlushCycle ]

\* Mutant: the mark of a flush request is not looked at.
Evidence_OnlyFlushPosition(lsn, page) ==
  \/ page.magic = "BAD"
  \/ page.loop = e.loop /\ (CacheOn => page.magic # "NONE" /\ lsn = g.flushPos)

\* Mutant: any page of the loop is taken for proof, cache or not.
Evidence_AnyPage(lsn, page) == page.magic = "BAD" \/ page.loop = e.loop

\* Proof that a page written after the suspected one reached the medium: with a
\* cache only the pages of flush requests prove that.
Evidence(lsn, page) ==
  \/ page.magic = "BAD"
  \/ /\ page.loop = e.loop
     /\ CacheOn => page.magic = "FLUSH" \/ (page.magic # "NONE" /\ lsn = g.flushPos)

Observe(lsn) ==
  [ io    |-> FALSE,
    pages |-> [p \in 1 .. NumPages |-> disk[lsn][p] = Header(e.loop, e.boot, count)],
    hit   |-> \E p \in 1 .. NumPages : Evidence(lsn, disk[lsn][p]) ]

VerifyRequest ==
  /\ pc = "verify"
  /\ idx <= Len(Pattern(g.wLoop))
  /\ LET lsn == Pattern(g.wLoop)[idx]
         r   == do_verify(e, Config, lsn, count, Observe(lsn))
     IN  /\ e' = r.eng
         /\ IF r.ret = 0 THEN idx' = idx + 1 /\ count' = count + 1 /\ pc' = pc
                         ELSE UNCHANGED <<idx, count>> /\ pc' = "ended"
  /\ UNCHANGED <<g, host, sdcrash, device>>

\* Mutant: the request count goes on from the loop before.
VerifyNextLoop_KeepsCount ==
  /\ pc = "verify"
  /\ idx > Len(Pattern(g.wLoop))
  /\ g' = [g EXCEPT !.wLoop = @ + 1, !.wLsn = FirstLsn(g.wLoop + 1)]
  /\ e' = verify_set_loop_count(e, g.wLoop + 1)
  /\ idx' = 1
  /\ UNCHANGED <<host, sdcrash, pc, count, device>>

VerifyNextLoop ==
  /\ pc = "verify"
  /\ idx > Len(Pattern(g.wLoop))
  /\ g' = [g EXCEPT !.wLoop = @ + 1, !.wLsn = FirstLsn(g.wLoop + 1)]
  /\ e' = verify_set_loop_count(e, g.wLoop + 1)
  /\ idx' = 1
  /\ count' = 1
  /\ UNCHANGED <<host, sdcrash, pc, device>>

\* Mutant: a crash is reported and the test goes on.
AfterVerdict_GoesOn(crash) == "begin_write"

AfterVerdict(crash) == IF crash THEN "out" ELSE "begin_write"

verify_apply_result(state) ==
  [state EXCEPT !.wLsn = e.info.lsn, !.wLoop = e.info.loop, !.loop = e.info.loop]

\* verify_apply_result, the check of a random zone (here one request's sectors)
\* and verification_error_result.  The test case has no check of its own.
EndVerification ==
  /\ pc = "ended"
  /\ g' = verify_apply_result(g)
  /\ \E zone \in Sectors :
       LET bad  == \E p \in 1 .. NumPages : disk[zone][p].magic = "BAD"
           done == verify_check_random_zone(verify_set_current_step(e, "LSN_CRC"),
                                            IF bad THEN "bad" ELSE "ok")
           crash == verify_get_result(done) # 0
       IN  /\ e' = done
           /\ sdcrash' = (sdcrash \/ crash)
           /\ pc' = AfterVerdict(crash)
  /\ UNCHANGED <<host, idx, count, device>>

-------------------------------------------------------------------------------
\* Mutant: the boot count the host sent last is sent back to it.
WriteInfo_StaleBoot(lsn) == [lsn |-> lsn, loop |-> g.loop, boot |-> g.wBoot]

\* send_token_writing
WriteInfo(lsn) == [lsn |-> lsn, loop |-> g.loop, boot |-> g.boot]

\* Mutant: the first loop always starts at its beginning.
StartLsn_EveryBoot == IF g.loop = 1 THEN FirstLsn(1) ELSE g.wLsn

\* The very first phase starts the first loop, any other where the verification says.
StartLsn == IF g.boot = 1 /\ g.loop = 1 THEN FirstLsn(1) ELSE g.wLsn

\* write_pattern up to its first request.
BeginWriting ==
  /\ pc = "begin_write"
  /\ g' = [g EXCEPT !.wLsn = StartLsn]
  /\ host' = WriteInfo(StartLsn)
  /\ idx' = Position(g.loop, StartLsn)
  /\ count' = 1
  /\ pc' = "write"
  /\ before' = disk
  /\ durable' = {}
  /\ lost' = {}
  /\ UNCHANGED <<sdcrash, e, armed, disk, cache>>

CurrentLsn == Pattern(g.loop)[idx]

IsCommit == CacheOn /\ DO_CACHE_FLUSH(count)

\* poweroff_processing: the driver is told when the boundary has passed, which
\* may be any time once the first commit was issued.
MayArm(first) ==
  \/ UNCHANGED armed /\ g' = [g EXCEPT !.firstCommit = first]
  \/ first /\ armed' = TRUE /\ g' = [g EXCEPT !.firstCommit = first, !.require = TRUE]

\* Once g_require_powerloss is set every request tells the driver again.
Issue ==
  /\ IF g.require THEN armed' = TRUE /\ g' = [g EXCEPT !.firstCommit = @ \/ IsCommit]
                  ELSE MayArm(g.firstCommit \/ IsCommit)
  /\ pc' = "writing"

Write ==
  /\ pc = "write"
  /\ idx <= Len(Pattern(g.loop))
  /\ IF IsCommit THEN pc' = "flush1" /\ UNCHANGED <<g, armed>> ELSE Issue
  /\ UNCHANGED <<host, sdcrash, e, idx, count, disk, cache, before, durable, lost>>

\* Mutant: the pattern does not move on.
Advance_Stands == pc' = "write" /\ UNCHANGED <<idx, count>>

\* The test case's pattern goes on with its next request.
Advance == pc' = "write" /\ idx' = idx + 1 /\ count' = count + 1

\* dd_write has returned: the pages are on the medium, or in the cache.
WriteDone ==
  /\ pc = "writing"
  /\ LET pages == Request(Header(g.loop, g.boot, count))
     IN  IF CacheOn
         THEN /\ cache' = [cache EXCEPT ![CurrentLsn] = pages]
              /\ UNCHANGED <<disk, durable>>
         ELSE /\ disk' = [disk EXCEPT ![CurrentLsn] = pages]
              /\ durable' = durable \cup {CurrentLsn}
              /\ UNCHANGED cache
  /\ IF IsCommit THEN pc' = "flush2" /\ UNCHANGED <<idx, count>>
                 ELSE Advance
  /\ UNCHANGED <<g, host, sdcrash, e, armed, before, lost>>

Cached == {s \in Sectors : cache[s] # <<>>}

FlushCache ==
  /\ disk' = [s \in Sectors |-> IF s \in Cached THEN cache[s] ELSE disk[s]]
  /\ cache' = [s \in Sectors |-> <<>>]
  /\ durable' = durable \cup Cached

\* write_flush_request: flush, write the commit pages, flush, remember where.
FirstFlushDone ==
  /\ pc = "flush1"
  /\ FlushCache
  /\ Issue
  /\ UNCHANGED <<host, sdcrash, e, idx, count, before, lost>>

SecondFlushDone ==
  /\ pc = "flush2"
  /\ FlushCache
  /\ g' = [g EXCEPT !.flushPos = CurrentLsn]
  /\ Advance
  /\ UNCHANGED <<host, sdcrash, e, armed, before, lost>>

\* The pattern is through: write_pattern prepares the next loop, flushes, and
\* pretends the power was cut at that loop's first request.
NextLoopState == [g EXCEPT !.loop = @ + 1, !.wLsn = FirstLsn(g.loop + 1)]

LoopWritten ==
  /\ pc = "write"
  /\ idx > Len(Pattern(g.loop))
  /\ IF CacheOn
     THEN g' = NextLoopState /\ pc' = "loop_flush"
     ELSE g' = [NextLoopState EXCEPT !.poffPos = FirstLsn(g.loop + 1), !.flushPos = 0]
          /\ pc' = "repeat"
  /\ UNCHANGED <<host, sdcrash, e, idx, count, device>>

LoopFlushDone ==
  /\ pc = "loop_flush"
  /\ FlushCache
  /\ g' = [g EXCEPT !.poffPos = g.wLsn, !.flushPos = g.wLsn]
  /\ pc' = "repeat"
  /\ UNCHANGED <<host, sdcrash, e, idx, count, armed, before, lost>>

-------------------------------------------------------------------------------
(***************************************************************************)
(* The driver cuts the power during a request or a flush.  A cut takes the *)
(* cache with it except what the storage had written back by itself.  The  *)
(* request being written arrives whole or not at all, or torn, its first   *)
(* pages new; a lossy device also loses or garbles what it acknowledged.   *)
(***************************************************************************)
InFlight == IF pc = "writing" THEN {CurrentLsn} ELSE {}

New(s) == IF s \in InFlight THEN Request(Header(g.loop, g.boot, count)) ELSE cache[s]

Torn(s) == {[p \in 1 .. NumPages |-> IF p <= n THEN New(s)[p] ELSE disk[s][p]] :
              n \in IF storage = "tearing" /\ ~CacheOn THEN 1 .. NumPages ELSE {NumPages}}

Survivors == SUBSET (Cached \cup InFlight)

Losses == IF storage = "lossy" THEN SUBSET durable ELSE {{}}

\* The request the driver saw last: it reports that one's sector.
LastIssued == IF pc = "loop_flush" THEN Pattern(g.loop - 1)[idx - 1] ELSE CurrentLsn

PowerCut ==
  /\ armed
  /\ pc \in {"flush1", "writing", "flush2", "loop_flush"}
  /\ \E kept \in Survivors, gone \in Losses, dead \in {"old", "garbage"} :
       \E torn \in [kept -> UNION {Torn(s) : s \in kept}] :
         /\ \A s \in kept : torn[s] \in Torn(s)
         /\ disk' = [s \in Sectors |->
                       IF s \in kept THEN torn[s]
                       ELSE IF s \notin gone THEN disk[s]
                       ELSE IF dead = "old" THEN before[s] ELSE Request(Garbage)]
         /\ dead = "garbage" => gone # {}
         /\ lost' = gone
  /\ cache' = [s \in Sectors |-> <<>>]
  /\ armed' = FALSE
  /\ g' = [g EXCEPT !.poffPos = LastIssued, !.require = FALSE,
                    !.flushPos = IF CacheOn THEN @ ELSE 0]
  /\ pc' = "repeat"
  /\ UNCHANGED <<storage, host, sdcrash, e, idx, count, before, durable>>

Stopped == pc \in {"finished", "out"} /\ UNCHANGED vars

Program ==
  /\ \/ Repeat
     \/ BeginVerification \/ VerifyRequest \/ VerifyNextLoop \/ EndVerification
     \/ BeginWriting \/ Write \/ WriteDone \/ FirstFlushDone \/ SecondFlushDone
     \/ LoopWritten \/ LoopFlushDone
  /\ UNCHANGED storage

Next == Program \/ PowerCut \/ Stopped

\* One thread runs the program; a request that is not cut completes.
Spec == Init /\ [][Next]_vars /\ WF_vars(Program)

-------------------------------------------------------------------------------
PageType == [loop : Nat, boot : Nat, magic : {"NONE", "BAD", "PAGE", "FLUSH"}]

(* Every variable keeps its type; the request count starts again with every loop. *)
TypeOK ==
  /\ storage \in DOMAIN FinishValue
  /\ g \in [ boot : Nat, loop : Nat, wLsn : Nat, wLoop : Nat, wBoot : Nat,
             poffPos : Nat, flushPos : Nat, firstCommit : BOOLEAN, require : BOOLEAN ]
  /\ host \in [lsn : Nat, loop : Nat, boot : Nat]
  /\ sdcrash \in BOOLEAN
  /\ pc \in Places
  /\ idx \in 1 .. Len(Pattern1) + 1
  /\ count \in 1 .. Len(Pattern1) + 1
  /\ armed \in BOOLEAN
  /\ disk \in [Sectors -> [1 .. NumPages -> PageType]]
  /\ \A s \in Sectors : cache[s] = <<>> \/ cache[s] \in [1 .. NumPages -> PageType]
  /\ durable \subseteq Sectors
  /\ lost \subseteq durable

\* A storage that keeps what it acknowledged, and tears a request no more than
\* the test tolerates: check_partial_writing looks at the test's minor number.
Good == storage = "atomic" \/ (storage = "tearing" /\ (CacheOn \/ Minor > 1))

(* A good storage is never called broken, wherever the power is cut and     *)
(* whatever the cache wrote back by itself.                                 *)
NoFalseCrash == Good => ~sdcrash

Content(s) == IF cache[s] # <<>> THEN cache[s] ELSE disk[s]

InLoop(s, loop) == \A p \in 1 .. NumPages : Content(s)[p].loop = loop

(* When a write phase goes on in the middle of a loop, the whole loop up to *)
(* that request is there: resuming at the first unexpected request skips    *)
(* none, over any number of power cuts.                                     *)
NoRequestSkipped ==
  pc = "write" => \A i \in 1 .. idx - 1 : InLoop(Pattern(g.loop)[i], g.loop)

(* What the host will hand back as the start of the next verification is    *)
(* the last phase that wrote anything: no page is of a later boot, and the  *)
(* pages of that boot are of that loop, none before its first request.      *)
HostKnowsThePhase ==
  \A s \in Sectors, p \in 1 .. NumPages :
    LET page == Content(s)[p]
    IN  /\ page.boot <= host.boot
        /\ page.boot # 0 /\ page.boot = host.boot =>
          /\ page.loop = host.loop
          /\ Position(host.loop, s) >= Position(host.loop, host.lsn)

(* A loss of acknowledged data is found before anything is written over it, *)
(* when there is no cache: the power was cut somewhere else.                *)
LossIsFound == ~CacheOn /\ pc = "begin_write" /\ g.boot > 1 => lost = {}

(* The same, save where the power was cut in the request at sector 0.       *)
LossIsFoundBehindZero == g.poffPos # 0 => LossIsFound

\* Position of the first request of the last phase that is not there.
Missing(i) ==
  LET s == Pattern(host.loop)[i]
  IN  \E p \in 1 .. NumPages : disk[s][p].boot # host.boot

(* With a cache, a missing request is a crash as soon as a flush request    *)
(* behind it, within the window, is on the medium.                          *)
LossBeforeCommitIsFound ==
  CacheOn /\ pc = "begin_write" /\ g.boot > 1 =>
    \A i, k \in Position(host.loop, host.lsn) .. Len(Pattern(host.loop)) :
      /\ Missing(i) /\ \A j \in Position(host.loop, host.lsn) .. i - 1 : ~Missing(j)
      /\ i < k /\ k <= i + RequestWindow
      => \A p \in 1 .. NumPages :
           LET page == disk[Pattern(host.loop)[k]][p]
           IN  ~(page.boot = host.boot /\ page.magic = "FLUSH")

\* A request the verification also read in the next loop, which its window reached.
ReadInNextLoop(s) ==
  \/ e.loop > host.loop + 1
  \/ e.loop = host.loop + 1 /\ Position(e.loop, s) < idx

(* The last sector the cache may have held is predicted well: no request    *)
(* behind it was written in this loop, so the test cases' extra checks may  *)
(* demand the previous loop there.  The engine keeps the sector and not the *)
(* loop of the prediction, which may be one of the next loop.               *)
NothingBehindPrediction ==
  /\ storage # "lossy" /\ pc = "begin_write" /\ e.gotLast /\ host.loop = g.loop
  /\ ~ReadInNextLoop(e.lastLsn)
  => \A i \in Position(g.loop, e.lastLsn) + 1 .. Len(Pattern(g.loop)) :
       \A p \in 1 .. NumPages : disk[Pattern(g.loop)[i]][p].loop < g.loop

(* No power cut sends the test back, whatever the storage lost: every write *)
(* phase starts in the same loop as the one before it, no earlier in the    *)
(* pattern, or in the next.                                                 *)
NeverBackwards ==
  [][host'.boot > 1 /\ host' # host =>
       \/ host'.loop = host.loop + 1
       \/ /\ host'.loop = host.loop
          /\ Position(host.loop, host'.lsn) >= Position(host.loop, host.lsn)]_vars

(* Without a cache, if nothing is lost, no request is written twice in one  *)
(* loop: what is there when the power is cut is recognised, also the        *)
(* request that was being written and just arrived, and the test goes on    *)
(* behind it.                                                               *)
NothingRewritten ==
  [][~CacheOn /\ storage # "lossy" /\ WriteDone => ~InLoop(CurrentLsn, g.loop)]_vars

(* Nothing is written to the storage once a crash is on record, so that the *)
(* evidence can be read.                                                    *)
EvidenceIsKept == [][sdcrash => UNCHANGED <<disk, cache>>]_vars

(* The test ends: every verification and every write phase is finite.       *)
TestEnds == <>(pc \in {"finished", "out"})
===============================================================================
