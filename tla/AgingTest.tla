------------------------------ MODULE AgingTest ------------------------------
(***************************************************************************)
(* plr_main's aging test with the cases of AgingCases and ReadDisturb: no  *)
(* power is cut, and so every loop is written to its end and every fifth   *)
(* is verified.  The device fails a few calls and loses a few pages, and   *)
(* the test is started again now and then, from what the host has kept.    *)
(*                                                                         *)
(* Without internal power-off and cache; the test is not ended by its boot *)
(* count, and the numbers of a test's name leave test_minor at 0.          *)
(***************************************************************************)
EXTENDS AgingCases, ReadDisturb, TLC

CONSTANTS
  Tests,                        \* the test cases that are run
  Seeds,                        \* the numbers drawn, as sequences that repeat
  AGING_VERIFICATION_INTERVAL,  \* 5 in the code
  FinishPages,                  \* values of finish.value, for the cases that count what they write
  Cycles,                       \* finish.value, for those that prepare the device
  MAX_TEST_CYCLE,               \* performance tests, 1000 in the code
  PerfLength,                   \* pages of one, 16 MB or 1 GB
  MaxLoop,                      \* bound: the loops of the read disturbance cases
  MaxFaults, MaxLosses, MaxRestarts  \* bounds: failed calls, lost pages, restarts

ASSUME TestsAssumption ==
  /\ Tests \subseteq AgingTestCases \cup ReadDisturbCases
  /\ AGING_VERIFICATION_INTERVAL \in Nat \ {0}
  /\ PerfLength \in 0 .. AreaLength
  /\ AreaEnd <= DeviceLength

VARIABLES
  behind,    \* what a read over the end of the area finds is data
  slept,     \* extend_feature has SLEEP_N_AWAKE_TEST
  value,     \* finish.value: pages, or rounds of a preparation
  boot,      \* boot_cnt, as the host sent it
  loop,      \* loop_cnt
  host,      \* what the host keeps: the loop written last and its seed
  writing,   \* _writing_sequence
  total,     \* _total_writing_page
  perf,      \* _perf_cycle
  finish,    \* b_finish_condition
  p,         \* the pattern while it writes
  fill,      \* the passes left of a preparation
  reading,   \* the readings done of extra_verification
  disk,      \* what is on the device
  meant,     \* history: what the device answered for
  faults, losses, restarts,  \* what is left of the bounds
  pc

statics == <<writing, total, perf>>
bounds  == <<faults, losses, restarts>>
vars == <<TestCase, behind, slept, value, boot, loop, host, statics, finish, p, fill, reading,
          disk, meant, bounds, pc>>

ReadsDisturb == TestCase \in ReadDisturbCases

Init ==
  /\ TestCase \in Tests
  /\ behind \in {FALSE, \E l \in 1 .. 2 : IsSequential(l)}
  /\ slept \in (IF TestCase \in ReadDisturbCases THEN BOOLEAN ELSE {FALSE})
  /\ value \in (IF TestCase \in ReadDisturbCases THEN Cycles ELSE FinishPages)
  /\ boot = 1 /\ loop = 1
  /\ host = [loop |-> 1, seed |-> <<0>>]
  /\ writing = TRUE /\ total = 0 /\ perf = 0
  /\ finish = FALSE
  /\ p = EndOfLoop
  /\ fill = <<>>
  /\ reading = 0
  /\ disk = [u \in 0 .. DeviceLength - 1 |-> Blank("NONE")]
  /\ meant = disk
  /\ faults = MaxFaults /\ losses = MaxLosses /\ restarts = MaxRestarts
  /\ pc = "init"

\* What a write leaves, on the device and in what it answered for.
Put(pages) == disk' = pages @@ disk /\ meant' = pages @@ meant

-------------------------------------------------------------------------------
(***************************************************************************)
(* plr_start_initialization.  The read disturbance cases prepare the       *)
(* device, but on the first boot only.                                     *)
(***************************************************************************)
Initialize ==
  /\ pc = "init"
  /\ IF ReadsDisturb /\ Preparations(TestCase, boot, value, AreaLength) # {}
     THEN /\ fill' \in Preparations(TestCase, boot, value, AreaLength)
          /\ pc' = "fill"
          /\ UNCHANGED boot
     ELSE /\ boot' = IF ReadsDisturb THEN boot ELSE 1
          /\ pc' = "verify"
          /\ UNCHANGED fill
  /\ UNCHANGED <<loop, host, statics, finish, p, reading, disk, meant, bounds>>

\* The pieces a workload writes to are drawn.
FillPiece ==
  /\ pc = "fill" /\ fill # <<>> /\ fill[1].at < fill[1].to
  /\ IF fill[1].data = "WORKLOAD"
     THEN \E pieces \in SUBSET (fill[1].at .. fill[1].to - 1) :
            /\ Put([u \in pieces |-> Blank("RANDOM")])
            /\ fill' = Tail(fill)
     ELSE /\ Put([u \in {fill[1].at} |-> Blank(fill[1].data)])
          /\ fill' = [fill EXCEPT ![1].at = @ + 1]
  /\ UNCHANGED <<boot, loop, host, statics, finish, p, reading, bounds, pc>>

NextPass ==
  /\ pc = "fill" /\ fill # <<>> /\ fill[1].at >= fill[1].to
  /\ fill' = Tail(fill)
  /\ UNCHANGED <<boot, loop, host, statics, finish, p, reading, disk, meant, bounds, pc>>

Filled ==
  /\ pc = "fill" /\ fill = <<>>
  /\ pc' = "verify"
  /\ UNCHANGED <<boot, loop, host, statics, finish, p, fill, reading, disk, meant, bounds>>

FillFails ==
  /\ pc = "fill" /\ fill # <<>> /\ fill[1].data # "WORKLOAD"
  /\ faults > 0 /\ faults' = faults - 1
  /\ pc' = "error"
  /\ UNCHANGED <<boot, loop, host, statics, finish, p, fill, reading, disk, meant,
                 losses, restarts>>

-------------------------------------------------------------------------------
(***************************************************************************)
(* plr_start_verification: nothing in the first loop, and verify_pattern   *)
(* or extra_verification after that.                                       *)
(***************************************************************************)
\* verify_pattern walks through what the host kept.
Due == host.loop % AGING_VERIFICATION_INTERVAL = 0

Skip ==
  /\ pc = "verify"
  /\ \/ loop = 1
     \/ ~ReadsDisturb /\ ~Due
     \/ TestCase = "daxx_0009"
  /\ pc' = "write"
  /\ UNCHANGED <<boot, loop, host, statics, finish, p, fill, reading, disk, meant, bounds>>

Config == [ cache |-> FALSE, internal |-> FALSE, erase |-> FALSE,
            poffPos |-> 0, minor |-> 0, cycle |-> 1 ]

Walks == IsSequential(host.loop) \/ (writing /\ ~Measures(host.loop))

\* One request of the pattern with do_verify.  A test started again believes to be
\* writing, and counts the pages.
Step(v) ==
  LET r == do_verify(v.eng, Config, v.at.lsn, v.at.num, Observe(v.at, host.loop, disk, behind))
      n == IF writing /\ r.ret = 0 /\ TestCase # "daxx_0003" THEN v.total + v.at.len
                                                             ELSE v.total
  IN  [eng   |-> r.eng,
       total |-> n,
       ret   |-> r.ret,
       at    |-> IF r.ret # 0 \/ (writing /\ n >= value) THEN EndOfLoop
                 ELSE Following(v.at, host.loop, host.seed)]

Walk ==
  LET walk[n \in Nat] ==
        IF n = 0 THEN [eng |-> verify_reset(host.loop, 1), total |-> total, ret |-> 0,
                       at |-> FirstRequest(host.loop, host.seed)]
        ELSE IF walk[n - 1].at.len = 0 THEN walk[n - 1] ELSE Step(walk[n - 1])
  IN  walk[AreaLength]

Done(pages, cycles) ==
  IF TestCase = "daxx_0003" THEN cycles >= MAX_TEST_CYCLE ELSE pages >= value

\* verify_check_pages_lsn_crc_loop over the area.
AllGood == \A lsn \in Area : PageIsGood(disk[lsn])

Judge(crash) == pc' = IF crash THEN "crash" ELSE "write"

Verify ==
  /\ pc = "verify" /\ loop # 1 /\ ~ReadsDisturb /\ Due
  /\ IF Walks
     THEN /\ total' = Walk.total
          /\ perf' = IF TestCase = "daxx_0003" /\ Walk.ret = 0 THEN perf + 1 ELSE perf
          /\ finish' = (writing /\ Done(total', perf'))
          /\ Judge(verify_get_result(Walk.eng) # 0)
          /\ UNCHANGED <<disk, meant>>
     ELSE /\ Judge(TestCase # "daxx_0003" /\ ~AllGood)
          /\ IF TestCase = "daxx_0003" /\ writing
             THEN Put(start_perf_test(PerfLength, loop)) ELSE UNCHANGED <<disk, meant>>
          /\ UNCHANGED <<total, perf, finish>>
  /\ UNCHANGED <<boot, loop, host, writing, p, fill, reading, bounds>>

VerifyFails ==
  /\ pc = "verify" /\ loop # 1 /\ ~ReadsDisturb /\ Due
  /\ Walks \/ TestCase # "daxx_0003"
  /\ faults > 0 /\ faults' = faults - 1
  /\ pc' = "error"
  /\ UNCHANGED <<boot, loop, host, statics, finish, p, fill, reading, disk, meant,
                 losses, restarts>>

\* extra_verification, reading by reading.
BeginReading ==
  /\ pc = "verify" /\ loop # 1 /\ ReadsDisturb /\ TestCase # "daxx_0009"
  /\ reading' = 0
  /\ pc' = "read"
  /\ UNCHANGED <<boot, loop, host, statics, finish, p, fill, disk, meant, bounds>>

read_disturb_verify ==
  /\ pc = "read" /\ reading < RD_REPEAT_COUNT
  /\ IF Compared(TestCase, reading) /\ \E u \in Area : disk[u] # Blank("REF")
     THEN pc' = "crash" /\ UNCHANGED reading
     ELSE reading' = reading + 1 /\ UNCHANGED pc
  /\ UNCHANGED <<boot, loop, host, statics, finish, p, fill, disk, meant, bounds>>

\* A suspend that fails answers what a comparison does.
ReadingFails ==
  /\ pc = "read" /\ reading < RD_REPEAT_COUNT
  /\ faults > 0 /\ faults' = faults - 1
  /\ \/ pc' = "error"
     \/ slept /\ pc' = "crash"
  /\ UNCHANGED <<boot, loop, host, statics, finish, p, fill, reading, disk, meant,
                 losses, restarts>>

EndReading ==
  /\ pc = "read" /\ reading = RD_REPEAT_COUNT
  /\ pc' = "write"
  /\ UNCHANGED <<boot, loop, host, statics, finish, p, fill, reading, disk, meant, bounds>>

-------------------------------------------------------------------------------
(***************************************************************************)
(* plr_start_writing: write_pattern, or one more loop of readings.         *)
(***************************************************************************)
Finish ==
  /\ pc = "write" /\ ~ReadsDisturb
  /\ TestCase # "daxx_0003" /\ total >= value
  /\ finish' = TRUE
  /\ pc' = "finished"
  /\ UNCHANGED <<boot, loop, host, statics, p, fill, reading, disk, meant, bounds>>

\* Mutant: the host keeps the loop before.
BeginWriting_LateInfo ==
  /\ pc = "write" /\ ~ReadsDisturb
  /\ \E seed \in Seeds :
       /\ host' = [loop |-> loop, seed |-> host.seed]
       /\ p' = FirstRequest(loop, seed)
  /\ writing' = TRUE
  /\ pc' = "writing"
  /\ UNCHANGED <<boot, loop, total, perf, finish, fill, reading, disk, meant, bounds>>

BeginWriting ==
  /\ pc = "write" /\ ~ReadsDisturb
  /\ TestCase # "daxx_0003" => total < value
  /\ \E seed \in Seeds :
       /\ host' = [loop |-> loop, seed |-> seed]
       /\ p' = FirstRequest(loop, seed)
  /\ writing' = TRUE
  /\ pc' = "writing"
  /\ UNCHANGED <<boot, loop, total, perf, finish, fill, reading, disk, meant, bounds>>

Write ==
  /\ pc = "writing" /\ p.len > 0
  /\ Put(PagesWritten(p, loop))
  /\ total' = IF TestCase = "daxx_0003" THEN total ELSE total + p.len
  /\ finish' = (finish \/ (TestCase # "daxx_0003" /\ total' >= value))
  /\ p' = IF finish' /\ TestCase # "daxx_0003" THEN EndOfLoop
                                               ELSE Following(p, loop, host.seed)
  /\ UNCHANGED <<boot, loop, host, writing, perf, fill, reading, bounds, pc>>

\* The first failure ends the pattern, the phase and the test.
WriteFails ==
  /\ pc = "writing" /\ (p.len > 0 \/ Measures(loop))
  /\ faults > 0 /\ faults' = faults - 1
  /\ pc' = "error"
  /\ UNCHANGED <<boot, loop, host, statics, finish, p, fill, reading, disk, meant,
                 losses, restarts>>

\* The loop is through, or the performance measured.
LoopWritten ==
  /\ pc = "writing" /\ p.len = 0
  /\ IF Measures(loop) THEN Put(start_perf_test(PerfLength, loop))
                       ELSE UNCHANGED <<disk, meant>>
  /\ perf' = IF TestCase = "daxx_0003" /\ ~Measures(loop) THEN perf + 1 ELSE perf
  /\ finish' = (finish \/ Done(total, perf'))
  /\ writing' = FALSE
  /\ loop' = loop + 1
  /\ pc' = IF finish' THEN "finished" ELSE "verify"
  /\ UNCHANGED <<boot, host, total, p, fill, reading, bounds>>

\* write_daxx_0008 to 0012 write nothing, and 0009 is through.
WriteNothing ==
  /\ pc = "write" /\ ReadsDisturb /\ loop < MaxLoop
  /\ loop' = loop + 1
  /\ finish' = (TestCase = "daxx_0009")
  /\ pc' = IF finish' THEN "finished" ELSE "verify"
  /\ UNCHANGED <<boot, host, statics, p, fill, reading, disk, meant, bounds>>

-------------------------------------------------------------------------------
(***************************************************************************)
(* The device loses a page: it reads as never written, or as garbage.      *)
(***************************************************************************)
Lose ==
  /\ pc \in {"verify", "read"} /\ losses > 0
  /\ losses' = losses - 1
  /\ \E u \in Area, found \in {Blank("NONE"), Blank("BAD")} :
       disk[u] # found /\ disk' = [disk EXCEPT ![u] = found]
  /\ UNCHANGED <<boot, loop, host, statics, finish, p, fill, reading, meant,
                 faults, restarts, pc>>

(***************************************************************************)
(* The program is started again: its variables begin anew, and the host    *)
(* sends the loop it kept, and its own count of the boots.                 *)
(***************************************************************************)
Restart ==
  /\ pc \in {"init", "fill", "verify", "read", "write", "writing"} /\ restarts > 0
  /\ restarts' = restarts - 1
  /\ boot' \in (IF ReadsDisturb THEN {boot, boot + 1} ELSE {boot})
  /\ loop' = host.loop
  /\ writing' = TRUE /\ total' = 0 /\ perf' = 0
  /\ finish' = FALSE
  /\ p' = EndOfLoop
  /\ fill' = <<>>
  /\ reading' = 0
  /\ pc' = "init"
  /\ UNCHANGED <<host, disk, meant, faults, losses>>

Stopped ==
  /\ \/ pc \in {"finished", "crash", "error"}
     \/ pc = "write" /\ ReadsDisturb /\ loop = MaxLoop
  /\ UNCHANGED vars

Next ==
  /\ \/ Initialize \/ FillPiece \/ NextPass \/ Filled \/ FillFails
     \/ Skip \/ Verify \/ VerifyFails
     \/ BeginReading \/ read_disturb_verify \/ ReadingFails \/ EndReading
     \/ Finish \/ BeginWriting \/ Write \/ WriteFails \/ LoopWritten \/ WriteNothing
     \/ Lose \/ Restart \/ Stopped
  /\ UNCHANGED <<TestCase, behind, slept, value>>

Spec == Init /\ [][Next]_vars

-------------------------------------------------------------------------------
Lost == {u \in Area : disk[u] # meant[u]}

StartedAgain == restarts < MaxRestarts

\* Started again, a case looks for random requests that later ones have overwritten.
LooksForRandomRequests ==
  StartedAgain /\ writing /\ ~ReadsDisturb /\ ~IsSequential(host.loop)

\* Started again on a later boot, the preparation is not gone on with.
NeverPrepared == StartedAgain /\ \E u \in Area : meant[u] # Blank("REF")

\* The requests of the loop, as the host's seed has them.
LoopRequest[k \in Nat] ==
  IF k = 0 THEN FirstRequest(host.loop, host.seed)
  ELSE LET before == LoopRequest[k - 1]
       IN  IF before.len = 0 THEN before ELSE Following(before, host.loop, host.seed)

\* What they leave: the first n of them, and all.
LoopPagesUpTo(n) ==
  UNION {{<<u, PagesWritten(LoopRequest[k], host.loop)[u]>> :
            u \in DOMAIN PagesWritten(LoopRequest[k], host.loop)} : k \in 0 .. n - 1}

LoopPages == LoopPagesUpTo(AreaLength + 1)

OfThisLoop(u) == <<u, meant[u]>> \in LoopPages

\* Two attempts at a sequential loop have left pages that are not the beginning of one.
WrittenTwice ==
  /\ StartedAgain /\ ~ReadsDisturb /\ IsSequential(host.loop)
  /\ \A n \in 0 .. AreaLength :
       LoopPagesUpTo(n) # {<<u, meant[u]>> : u \in {v \in Area : meant[v].loop = host.loop}}

\* A loop the test was started again in is not all there, and its last request is looked
\* for over the end of the area, where there is data.
LooksBehind ==
  /\ behind /\ StartedAgain /\ IsSequential(host.loop)
  /\ \E k \in 1 .. AreaLength :
       /\ LoopRequest[k].lsn + LoopRequest[k].len > AreaEnd
       /\ \E page \in LoopPagesUpTo(k) : meant[page[1]] # page[2]

(* A device that lost nothing is called broken only where a test that was   *)
(* started again looks for what it never wrote, has begun its loop a second *)
(* time or looks behind the area, or a suspend failed: the walk through a   *)
(* loop meets the requests that were written, though the last of them was   *)
(* cut off, and no check reaches pages of another kind.                     *)
NoOtherFalseAlarm ==
  pc = "crash" /\ Lost = {} =>
    \/ LooksForRandomRequests \/ WrittenTwice \/ LooksBehind
    \/ ReadsDisturb /\ (NeverPrepared \/ (slept /\ faults < MaxFaults))

\* A sequential loop is taken for written up to a point where nothing of it follows,
\* and its last request for one that was not written.
AtTheEnd(u) ==
  LET first == u - meant[u].idx
  IN  \/ first + meant[u].len = AreaEnd
      \/ \A v \in first .. AreaEnd - 1 : OfThisLoop(v) => disk[v] # meant[v]

Overlooked(u) ==
  IF IsSequential(host.loop) THEN ~OfThisLoop(u) \/ AtTheEnd(u)
                             ELSE writing \/ PageIsGood(disk[u])

VerifiesLoop ==
  pc = "verify" /\ TestCase # "daxx_0003" /\ ~ReadsDisturb
                /\ loop # 1 /\ host.loop % AGING_VERIFICATION_INTERVAL = 0

VerifiesReading ==
  pc = "read" /\ TestCase \in {"daxx_0011", "daxx_0012"} /\ reading % CompareEvery = 0

(* A loss the test goes on behind is one it could not see: of an earlier    *)
(* loop or at the end of this one in a sequential loop, a page that came    *)
(* back with a good checksum in a random one; and none in a reading that is *)
(* compared.                                                                *)
LossIsFound ==
  [][/\ VerifiesLoop /\ pc' = "write" => \A u \in Lost : Overlooked(u)
     /\ VerifiesReading /\ reading' > reading => Lost = {}]_vars
===============================================================================
