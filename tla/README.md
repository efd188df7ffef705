# kerplrt: a TLA+ model of the power loss recovery test

`kerplrt` tests whether an eMMC survives a loss of power. A board writes
requests whose pages carry a header (sector, loop, boot, sequence number, CRC);
the power is cut, by a driver in the board ("internal") or by a host that
switches the board ("external"); after the next boot the board reads the
requests back in the order they were written and decides whether the storage
kept what it acknowledged. The host, reached over the serial console with
"plrtoken"/"plrack" lines, keeps what must survive a cut: where the last write
phase began, its loop and boot counts and the seed of its request sizes.

What can be wrong with such a program is its verdict. A good device called
broken, a broken one passed, a request the test stops looking at, evidence
overwritten: none shows in a unit test, and each takes several boots and a cut
at the wrong place. The models are about that.

## Inventory

| Component | State | Operations | With whom | Hard because | Correct when |
|---|---|---|---|---|---|
| test program, `plr_main.c` | `g_plr_state` (boot, loop, write info, last cut) | repeat loop: count the boot, verify, write, restore power | all | the loop spans boots; external tests restart the process | no write after a crash; every phase resumes right |
| pattern engine, `plr_pattern.c` | `_state->write_info` | `verify_pattern`, `write_pattern`, `_write` | test cases, verification, protocol | verification runs over loops; the loop counter moves before the last flush | the host knows each phase; it ends |
| verification, `plr_verify.c` | status, result, window, distance from the cut, prediction, crash information | `do_verify`, two status functions, zone check, verdict, save and load | pattern engine, device I/O | four counters and a switched function pointer decide | the verdict is the evidence in what was read |
| write requests, `plr_common.c` | commit flags, time of the cut, packed buffer | `write_request`, `write_flush_request`, `poweroff_processing` | device I/O, driver | the cut is announced requests ahead | commits are flushed before and after |
| device I/O, `plr_deviceio.c`, `plr_hooking_5410_system.c` | file descriptors | read, write, flush, erase, power control | driver | an error is a cut if the driver says so | a cut is never an error, an error never a cut |
| host protocol, `plr_protocol.c` | parameters in `g_plr_state` | `send_token` and its parameter checks | host | lines are lost, garbled, late; an answer does not name its question | success means the host has it |
| console and glue, `plr_system.c` | terminal modes | `readline`, `poweroff_data_check` | protocol, driver | waits that are too short | |
| test cases, `test_case/` | static pattern state | patterns, extra checks | pattern engine, case info | the verifier must draw the writer's random sizes again | extra checks demand only what must be there |
| case info, `plr_case_info.c` | zone geometry | zone of a sector and back | test cases | boundaries | zones partition the area |
| crash state, `plr_err_handling.c` | SD card sectors | set, get, dump, load | test program, `tr` | several sectors, restarts in between | a crash is never forgotten |
| verify log, `plr_verify_log.c` | lists of requests | insert, save, print | verification | a moving window | shows the requests around the crash |
| calibration, `plr_calibration.c` | table of busy times | measure, look up | write requests | rounding, empty ranges | the cut is drawn inside the busy time |
| precondition, `plr_precondition.c` | a count over two areas, the crash state it clears | clear the state, erase, check, fill up to a ratio | crash state, device I/O, test cases | runs in the midst of some tests too | erases and fills what it was asked to |
| file transfer, `plr_tftp.c` | | upload with retries | host | | |
| clock, `plr_rtc64.c`, `plr_tick_conversion.c` | overflow count | extend to 64 bits, convert | calibration | wrap-around | monotonic |
| result viewer, `tr.c` | | load crash information and log, print | crash state, log | lists that may not be there | prints what was found |
| random numbers, statistics, report | | | | | |

`PROJECT.json` lists every component with its status, and under "hazards" what
is hard to test, each at its line.

## Modules

| Module | Models | Extends |
|---|---|---|
| `VerifyCore` | the verification engine as operators on one record | |
| `VerifyEngine` | `verify_pattern`, driven by whatever a device may return | `VerifyCore` |
| `VerifyCore_proofs` | lemmas: what each function of the engine changes | `VerifyCore` |
| `VerifyEngine_proofs` | theorems about `VerifyEngine` and `PartialWriting` | both, `VerifyCore_proofs` |
| `PartialWriting` | the loop that classifies a torn request | `VerifyCore` |
| `PowerLossTest` | an internal test end to end over many boots | `VerifyCore` |
| `PowerLossTest_proofs` | theorems: types, the phase, nothing skipped; the verdict after a cut | `PowerLossTest`, `VerifyCore_proofs` |
| `SendToken` | one end of the serial protocol, its line and host | |
| `SendToken_proofs` | theorems about it | `SendToken` |
| `TestArea` | the zones of the test area, and the order and checks the cases share | |
| `ZoneCases` | patterns and extra checks of `dpin_0004`, `0005`, `0007`, `0008` | `TestArea` |
| `ZoneTest` | a test of these cases over many cuts | `ZoneCases` |
| `ZoneTest_proofs` | theorems about it | `ZoneTest` |
| `RandomCases` | patterns and extra checks of `dpin_0000`, `0001`, `0003`, `0006`, and the patterns of `0009` to `0012` | `TestArea` |
| `EraseCase` | the verification of `dpin_0009` to `0012`, whose even loops erase | `VerifyCore` |
| `RandomTest` | a test of these cases over many cuts, verified by the engine | `RandomCases`, `EraseCase` |
| `AgingCases` | patterns and verification of `daxx_0000` to `0004` | `VerifyCore` |
| `ReadDisturb` | what `daxx_0008` to `0012` write before the test and compare in it | |
| `AgingTest` | an aging test: failed calls, lost pages, restarts of the program | `AgingCases`, `ReadDisturb` |
| `WritePromise` | abstract: what the requests of a test promise about the medium | |
| `WritePromise_proofs` | a theorem about it | `WritePromise` |
| `DeviceIO` | a request with its retries, the device, and the driver that cuts the power | implements `WritePromise` |
| `DeviceIO_proofs` | theorems about it, the refinement among them | `DeviceIO`, uses `WritePromise_proofs` |
| `VerifyLog` | the verification log: the lists, the sectors, reading them back | |
| `Session` | what outlives a restart: crash state, crash information, log; preparation; `tr` | `VerifyLog` |
| `Session_proofs` | theorems about it | `Session` |

`MCVerifyEngine`, `MCPowerLossTest`, `MCSendToken`, `MCZoneTest`, `MCRandomTest`,
`MCAgingTest`, `MCDeviceIO` and `MCSession` give the constants their values.

`VerifyCore` keeps the names of `plr_verify.c`. Its record `e` holds the static
variables of that file: `cnt` is `_veri_request_cnt_unconfirmed`, `afterPO` is
`_request_cnt_after_last_PO`, `verify` the function pointer `_verify`, `crashed`
the set of steps in `_crashed_flag_in_each_step`, `info` what
`_unconfirmed_crash_info` keeps of the suspected request, and `cached`,
`lastLsn`, `gotLast` the prediction of the last cached sector. What a request
looks like when it is read is an *observation*: the read failed, which pages
are as expected, whether some page is evidence of a crash.

`VerifyEngine` lets the observation be anything: it asks whether the engine
draws the right conclusion from what it reads. `PowerLossTest` computes the
observation from a modelled medium and cache: it asks whether these conclusions
are right about the device. It composes the engine with the `repeat` loop of
`plr_main` (`Repeat`), `verify_pattern` (`BeginVerification` to
`EndVerification`), `write_pattern` with `_write`, `write_request` and
`write_flush_request` (`BeginWriting` to `LoopFlushDone`; a commit is
`flush1`, `writing`, `flush2`), and the device. `g` is `g_plr_state`, `host`
what `recv_write_info` will answer. The device is the adversary: the cut comes
in any request or flush after the driver was told (`armed`), and then
- `atomic`: any subset of the cached requests and the one in flight survives;
- `tearing`: the one in flight may also arrive with only its first pages new;
- `lossy`: requests that were acknowledged (without cache) or flushed (with)
  are lost, or read as garbage, as well.

`SendToken` models `send_token` for a short list of tokens with the readings of
`_recv_acks`; a line may be lost, come as something else, or with damaged
parameters.

`ZoneCases` says for each case which request follows which, and which pages of a
zone `extra_verification` expects to be of which loop. Odd loops interleave the
zones (a row of the same place in every zone, then the next row), even loops are
sequential. A pattern is a function of the last request alone, because the code
resumes at any. `ZoneTest` writes with these patterns, cuts the power in any
state, and compares the check of every zone with what the medium holds. It takes
the result of the verification proper from the models above: `verified` is the
first request that is not there, with the prediction of the last cached page as
`set_last_lsn_in_cached_list` counts it, which may lie in the next loop
(`lastLoop`).

`RandomCases` has the cases that draw their lengths, and those that erase. What a zone
should hold is, with lengths drawn, nowhere but on the medium: `verify_find_chunk`
looks for a first page of the loop, and the `verify_customizing` functions walk from there by what the headers say,
each in its own way. `RandomTest` writes with these patterns and numbers drawn from
a seed, and verifies with the operators of `VerifyCore` along the pattern run again
from what the host kept, so that what the walk meets behind the cut, requests that
were never written, is drawn from the same seed too. A verification is one step
(`Verify`), for it reads only what does not change while it runs. In an even loop of
`dpin_0009` to `0012` a request that arrived leaves pages that are all zero
(`PageOf`), does not wait in the cache, and `EraseCase` judges it.

`DeviceIO` follows one request at a time from `write_request`, `write_flush_request`,
`erase_request` and the verification's `dd_read` through the retries of
`plr_deviceio.c` to the system call, and, when that fails, `poweroff_data_check` with its
readings of the driver's file (`Seen`, `Unseen`, `Unanswered`). The clamp of a request
to the test area (`Length`) is in unsigned arithmetic modulo `Word`, as in the code.
The driver is told of a cut in a phase of its own (`poweroff_processing`); the cut
(`Cut`) then comes in any step, or between two requests. Under the refinement mapping
the plan is the sequence of requests with the pages the clamp leaves of them, and the
cache may be forgotten once the power was cut; a plan reads only when it is done writing
(`PlanAssumption`), as a test does. In `WritePromise` pages arrive, are written back and
forgotten as the device likes. It says what the verification of the other models takes
for granted: a commit that is on the medium proves that everything requested before it
is, or was written over (`CommitIsProof`).

`Session` is about sectors of the SD card. A verification inserts requests with any
verdict into the log (`Insert`), and saves what it found in the code's order
(`ClearInfo`, `DumpInfo`, `ClearLog`, `DumpLog`, `DumpIndex`, `Report`, the last of
which sets the crash state); the board may be restarted between any two sectors.
The crash information is one sector or two: the steps with a crash stand behind the map
of the pages of the first suspected request (`CrashInfo`), where `tr` looks for them.
`verify_load_log` is what `tr` reads back. `ClearState`, `Erase`, `Check` and `Fill`
are `plr_prepare`, before a test or, with `area.due`, half-way through a `dpin_0014`.

`AgingTest` has no cuts: `plr_main` writes loop after loop and verifies every fifth.
Calls fail, pages are lost, and the program is started again, from what the host kept.

## Abstractions

- Packed mode is left out: `get_mmc_packed_enable` returns 0 in this build and
  `plr_start_writing` then refuses the test.
- A page is what the checks distinguish of its header: loop, boot, magic. The
  body is not checked by the code. CRC and sector mismatches are the magic "BAD".
- Random numbers are short sequences that repeat (`Seeds`), one for each phase;
  `PowerLossTest` and `ZoneTest` need none. That the seed reaches the verifier
  through the host is part of `host`; failure of that is a listed hazard that is not
  modelled.
- In `RandomTest` the driver reports no sector, a torn request is accepted (minor
  number 2) and the storage keeps what it acknowledged, so that every alarm is a
  false one. `verify_customizing_00`
  does not end at a header that names no pages; there the model lets the check fail.
- The pattern of a test case is a constant sequence of sectors, upwards in odd
  loops and downwards in even ones, so that a sector's place differs.
- The zone check of `VerifyEngine` answers "ok", "bad" or "io"; in
  `PowerLossTest` a zone is the sectors of one request.
- `TestArea` counts in pages: every address and length of the cases is a multiple
  of one. The area begins at a zone (`AreaAssumption`), which the code takes for
  granted when it masks addresses.
- `PowerLossTest`, `RandomTest` and `AgingTest` assume that tokens arrive;
  `SendToken` says what that takes. When a token of `verify_pattern` does not, its
  result is not looked at, and the verification starts from what the memory has: the
  boot count in it is that of an older phase.
- `SendToken` leaves out the host's "plrack reset", with which `_recv_ack` reboots the
  board (`plr_protocol.c:783`, `plr_system.c:726`): it ends the program without an answer
  being taken. A program that begins again is the matter of the tests' modules.
- `DeviceIO` leaves delays and time-outs to the driver: the phase of a cut is a
  number, not a time. The delay before sleep is computed in unsigned numbers and may
  wrap (`plr_common.c:327`). BKOPS and HPI tests are refused at their start
  (`plr_main.c:211`), as the driver reports both off in this build.
  `dev_erase` never asks the driver, which `CutIsNeverAnError` names.
- `Session` leaves open what a verification finds. It leaves out the count of software
  resets, the pages dumped with the crash information, how `tr` reads its arguments
  and lays out its text. A log write that fails moves the next text by its error
  number (`plr_verify_log.c:632`), which is in the model and why `CrashIsPrinted`
  speaks of a card that does not fail.
- `AgingTest` has no cut and no cache, a test that ends (`finish.type` is not 0) and a
  minor number of 0. The write information and the seed reach the host in one step,
  and the program is started again between requests only. What lies behind the area
  is of no loop, and either nothing or data (`behind`): the device may go on there, filled
  by the precondition, or end, and a read over its end is then no error but a short one,
  which `do_read` takes for a good one (`plr_hooking_5410_system.c:256`) and which leaves
  the rest of the buffer as it was. The numbers a performance test gives are left out, as is its
  failure inside a restarted verification, which the code ignores.

## Runs

| Run | Question | Bounds |
|---|---|---|
| `verify_engine` | Is the verdict exactly the evidence, whatever is read? | 3 requests, window 2, 2 loops, all starts, 11 configurations |
| `no_cache` | Without cache: no false alarm, no request skipped or written twice on a tearing device; is a loss of acknowledged data found, and the evidence kept? | 4 requests of 2 pages from sector 0, window 2, 5 boots, 4 if lossy |
| `cache` | With a cache that reorders: no false alarm, no request skipped; is a hole before a commit found? | 6 requests, flush cycle 3, window 3, 5 boots, 3 if lossy |
| `send_token` | Does success mean that the host has it? | 4 tokens, 3 printings, 2 readings |
| `partial_writing` | Does the loop compute the class? | all requests of up to 6 pages |
| `zones` | Does the extra check of a zone accept every good device, and without a cache look at every page? | 4 cases with and without cache (0008 without), 3 zones of 8 pages, flush cycle 6, 3 loops |
| `random_cases` | Does the walk with the kept seed meet the requests that were written, does a loop ever have a hole, and do the verification and the walk by headers accept every good device? | 5 cases (0009 to 0012 are one) with and without cache, 4 zones of 6 pages, requests of 1 to 3 pages, 2 seeds, flush cycle 4, window 6, 4 cuts or loops |
| `device_io` | Is a cut answered as a cut, at the right sector, does every request return, and does `DeviceIO` implement `WritePromise`? | 11 plans of up to 5 requests over 7 pages, 3 failures, 3 attempts, 3 readings, 1 file that does not open |
| `session` | Does a crash stay remembered and printable whenever the board is restarted, and is the device prepared as asked? | 8 devices of up to 6 blocks, verifications of up to 4 and 2 requests, 1 failure of the card, 2 preparations |
| `aging` | Is a good device ever called broken, and which losses are overlooked? | 9 cases, 6 pages, 2 seeds, with nothing and with data behind the area, verification every 3rd loop, 1 failure, 1 loss, 2 restarts |
| `late_ack`, `loss_at_sector_zero` | disagreements, below | as above |

Why the bounds are enough. The engine's memory of a pattern is: one first
unexpected request, the requests since the cut (0, 1, more), and those since
the suspicion (0 up to the window). With 3 requests, a window of 2 and any
start, a suspicion occurs before, at, right behind and far from the cut, and the
window ends in the same loop and in the next one; the last loop (`MaxLoop`) was
never written, which stands for the fact that some loop was not. Over boots, what
a phase inherits is the medium, the write information and the position of the
cut; five boots cover a cut in a resumed phase of a loop, the end of that loop,
and a cut in the next. A flush cycle of 3 puts a suspicion on a commit,
right behind and right before one. Six pages hold up to five changes, where the
code tells apart 0, 1 and more. A zone of 8 pages with lengths 1 and 2 has every
part the cases know: two rounds of the chunk array and a remainder (0005), a first
part, a second part and a reserved page (0007); 3 loops make pages of the loop
before, and of the one before that, which 0005 asks for. In
`zones` the requests of a flush cycle of 6 are more than what is left of a row, a
zone and a loop, and more than a zone, so that the last page the cache may have held
lies in the same zone, the next one, the one behind that, and in the next loop; with
a cycle of 3 or 5 some of these never happen. `random_cases` has a cycle of 4 for
the same reason. Two seeds make a resumed phase draw shorter, equal and longer
requests than the phase before it, four cuts or loops hold three cuts in one loop and
cuts on each side of its end, and reach a sequential loop over what an interleaved one
left and an erased one over a written one; a piece of 4 pages (`ReadWindow`) is shorter
than a zone and longer than a request; chunks of 1 and 3 pages leave a remainder.
In `device_io` three failures and three attempts are a read that is tried again until
it fails, and a failing write next to a failing flush; the plans have a commit with
requests before and behind it, the repeat of `plr_main`, and every edge of the area. In
`session` four requests with one neighbour kept (`MAX_NORMAL_REQUEST`) are a crash with
neighbours on both sides and a request that is dropped, a sector of two units is filled
exactly and overrun, and a second, shorter verification lies over the first one's log.
In `aging` six pages with requests of 1 to 3 have a last request that is cut off,
verifying every third loop has both kinds of loop verified, and two restarts reach a
loop that is written three times. The two seeds are chosen so that what two attempts at
a loop leave consists of requests of the second alone and still has a hole.

### What they show

The verdict of a verification is the evidence in what it read, save that a later
read error replaces a crash by `PLR_EIO` (`VerdictIsRight`). The first
unexpected request is where the next phase starts. Nothing is skipped over any
number of cuts, and a good device is never called broken, with the cache on or
off, including a cut in the flush after a loop. Losses are found except at
sector 0, and with a cache as far as commits reach. Without a cache the extra
checks of the zones draw the line between two loops exactly: no page but those
of the request to resume at goes unchecked, and no good one is refused. With a
cache they are right as long as the last page the cache may have held is of the same
loop and in the zone of the request to resume at or the next one.
With random lengths the seed the host keeps is enough to meet every request again,
over the end of a loop and with lengths redrawn, and what was written up to the
request to resume at is complete (`NoHole`), whatever the lengths. The walks from
header to header refuse no good device but in two cases (next section), nor does the
verification of a loop that erases. Without a cache they see
every outdated page of the loop behind the place where they begin, but for the
first of a request near the end of a piece of 0001 (`ZoneIsCovered`); what lies
before that place, and with a cache behind a request without a gap in 0003, is not
looked at.

### Disagreements

1. `late_ack`: an answer may be taken for the answer to the next token. The wait
   for a line is short because the retry test in `_kbhit` is inverted.
2. `loss_at_sector_zero`: `poweroff_pos` 0 doubles as "unknown".

### Exceptions the properties name

Each of these behaviours was met while modelling, as a counterexample to a plainer
property; the property now says that there is no other.

- `NextLoopPredicted`, `OtherZonePredicted`, `ZoneBetween` of `ZoneTest`, `BetweenThem`
  of `RandomTest`: with a cache the check of a zone is sure of too much. The
  last page the cache may have held is of the next loop, and its place in the zone, or
  the masked end of the zone, which is 0, is compared with one of this loop; or it lies
  in another zone (0005, even loops); or whole zones lie on the way to it and are
  demanded to be of the loop before. Zones are 64 MB, requests and gaps up to 512 KB
  each: the last takes a cycle of some hundred requests, and the prediction is complete
  up to 256.
- `LengthRedrawn` of `RandomTest`: when the power is cut in a small request of the
  second half (0000), the next phase writes the random request before it again, with a
  new length. Pages left of a longer one are of this loop and lie where this phase has
  not been yet; if it is cut before it gets there they are evidence of a crash.
- An erased page passes `verify_check_page`. In an even loop of `dpin_0009` to `0012` an
  erase that was acknowledged and lost is therefore taken for the place to resume at,
  unless a page behind it has a bad checksum (`plr_dpin0009_12.c:131`);
  `RandomTest` loses nothing and does not judge this.
- `CutIsNeverAnError`: a cut is answered as an error of the device in an erase, which
  does not ask the driver; between two requests, when the next one tells the driver
  again and so erases what its file says; and when that file does not open, which
  `CutIsLocated` excuses too: -1 is then as good as a cut.
- `CrashIsRemembered`: the crash information is saved before the crash state is set, so
  a restart between the two, or a sector that fails, forgets the crash; and
  `dpin_0014` half-way through its boots prepares the device again, which clears the
  crash state and erases the evidence before `previous_crash_state_result` looks.
- `CrashIsPrinted`: a text that fills its sectors exactly is read on into what an
  earlier step left in the buffer (`ReadOn`).
- `NoOtherFalseAlarm` of `AgingTest`: a test started again looks for random requests
  that later ones have overwritten, or has begun its loop a second time over what the
  first attempt left: the pages of the loop are then not what the kept seed writes up to
  any request (`WrittenTwice`), though each of them may be one it writes. Where the loop
  it was started again in is not all there, the verification is unconfirmed when it comes
  to the last request, which it reads over the end of the area: data it finds there has no
  good header and is called a crash (`LooksBehind`). A preparation that was interrupted is
  not gone on with (`NeverPrepared`); and a suspend that fails returns -1, the number of a
  comparison that failed.
- `LossIsFound` of `AgingTest`: a sequential loop is taken for written up to a point
  behind which nothing of it follows, and its last request, cut off at the end of the
  area, never compares (`AtTheEnd`).

Two comments differ from the code in words only. The one above `do_verify` lists no
way from `CRASH` back to `UNCONFIRMED`, but after a torn request the normal
verification function stays in use and the next unexpected request sets the status
back and overwrites the crash information; the result stays a crash
(`CrashIsSticky`). And the comments of `_classify_partial_type` name the classes the
wrong way round: new pages followed by old ones are class 2, not 1.

## Fairness

The test is one thread and a request either completes or is cut: weak fairness
of the program's steps in `PowerLossTest`, of each step of `verify_pattern` in
`VerifyEngine`. `PowerCut` is not fair: the driver need not cut. In `SendToken` the
board is one thread that never blocks, and the line disposes of what it carries,
if by losing it. In `DeviceIO` the program's steps are weakly fair as one action: a
request is a chain of system calls that return; the cut is not fair.
`VerifyEngine` needs a pattern to be not as expected in some loop
(`Possible`), or else the verification would rightly go on.

## Proofs

Proved for every value of the constants the named assumptions allow:

| Module | Theorems | That is |
|---|---|---|
| `VerifyEngine_proofs` | `TypeCorrect`, `ResumesRight`, `CrashStays`, `VerdictRight`, `StepsRight`, `WindowRight` | every property `verify_engine` checks but `EventuallyJudged` |
| | `LoopIsRight` | the loop of `PartialWriting` computes the class |
| `PowerLossTest_proofs` | `TypeCorrect`, `NothingSkipped`, `PhaseKnown`, `EvidenceKept` | what a boot inherits |
| | `NeverFalseCrash`, `LossFoundBehindZero`, `LossFoundBeforeCommit`, `NeverSentBack`, `WrittenOnce`, `PredictionIsRight` | what a boot concludes |
| `WritePromise_proofs` | `CommitProves` | a commit on the medium is proof |
| `DeviceIO_proofs` | `TypeCorrect`, `CutIsAnswered`, `CutIsWhereItIsSaid`, `RequestsKeepTheirPromise`, `CommitsAreProof` | every property `device_io` checks but `EveryRequestReturns` |
| `SendToken_proofs` | `SuccessProven`, `ParametersProven` | success means that the host has it |
| `Session_proofs` | `PreparedRight`, `CrashRemembered`, `CrashHasLog` | the device is prepared as asked; a crash is on record, with a log to print |
| `ZoneTest_proofs` | `ZonesKept`, `FalseAlarmsKnown`, `ZonesCovered` | both properties `zones` checks |

### The engine

Each function of the engine has a lemma that says what it changes
(`VerifyCore_proofs`); `DoVerify` puts them together, one case for each way a
request can be read.

`ResumeAtFirstUnexpected` speaks of the end of a verification and is not
inductive; `ResumeInv` is. Its parts: in normal status nothing unexpected was
read, nothing counted, the first function in use (`NormalMeansNothing`); once
something was read that function stays in use only after a crash
(`NotSwitchedIsCrash`), which is why overwriting the information does no harm to
a verification that reports nothing; otherwise the information is that of the
first unexpected request (`SuspectIsFirst`); and what was handed to the next phase
is that information (`AppliedIsInfo`).

`VerdictIsRight` compares the result with all that was read, of which the engine keeps
a few numbers. `VerdictInv` says which: its distance to the last request the power was
cut in is the history's (`PowerOffCounted`), so is the distance to the first suspicion
(`FirstCounted`); each step is blamed exactly for its own evidence, and only the step
at hand can be (`StepsBlamed`, `StepAtHand`); a crash and a failed read are told apart
by the result, the read winning (`ResultTells`). `WindowFilled` is the window.

### The test

The first theorems of `PowerLossTest_proofs` need nothing of the verdict. Their invariant `Inv` is `Shape` (types, and where the
program is: the host's boot and loop against the program's), `Pages` (no page is of a
boot after the host's, one of that boot is of its loop and not before the phase's first
request, and the cache holds nothing else) and `Loop`: the part of the loop before the
phase was there when it began, what the phase wrote is there now, the walk of the
verification has met nothing but requests that are there, and what it hands to the
next phase is the first that is not. The storage may be "lossy" throughout: a loss
behind the phase's first request makes the next phase begin there.

The theorems about the verdict strengthen this to `Known`, in two halves. The first is about the storage:

- `DiskOfPhase`, `CacheOfPhase`, `AllSent`: a page of the last phase is the one that
  phase wrote there, and all it wrote is on the medium or in the cache.
- `EvidenceProves`: on a storage that keeps its promise, a page that verification takes
  for evidence (`Shows`) proves that every request of the phase before it is there.
- `Commits`, `Armed`: with a cache there is a last commit, up to which all is there
  and which is the flush position handed to the verification; the driver is told of no
  cut before the first one.
- `Ahead`, `CutKnown`: without a cache nothing of the loop lies behind the request at
  hand, and after a cut there is a position `c` such that the sector on record is that of `c`,
  what is before `c` is there or lost, and nothing behind it is of the loop;
  the engine's distance is counted from `c` (`Counted`).

The second is about the verification: in normal status all that was walked over is
there (`WalkKnown`); afterwards the request found is the first that is missing, the
window read behind it shows no evidence, without a cache nothing is lost, and all that still holds where
the next phase begins (`ResumeKnown`). `NoFalseCrash` is inductive only with the first
half: that a suspicion on a good storage meets no evidence is `EvidenceProves`
with a cache and `CutAt` with `Counted` without one.

`PredictionIsRight` needs two more parts. `Reach` says how far behind a flush request
anything can have arrived: what is of this boot came after every flush request before
it (`CommitsReach`), and what an earlier phase of the loop left behind this one's first
request lies within one flush cycle of it (`Leftover`), because each phase counts its
requests from 1. `Prediction` says what the engine has counted on its walk: the requests
since the last flush request before the suspected one (`LastFlush`, `CountedTo`). The
next flush request is a cycle behind that one, so where the count fills the cycle
nothing of the loop can follow (`CycleIsFull`), and a count that does not get there
predicts nothing. The cycle may be longer than the window.

Three properties came out of these proofs different from what was checked before.
`NoFalseCrash` was stated for a minor number that every run used; for all of them it
holds of a storage that tears requests only with the cache on or a minor number above
1 (`Good`), as `check_partial_writing` says. And `NeverBackwards` holds of
a storage that loses data too, which it used to except.
`NothingBehindPrediction` said nothing of a window that reaches into the next loop, where
the count goes on: with seven requests, a cycle of 5 and a window of 3 the predicted
sector is one of the next loop, and in this one requests behind its place are there. The
engine keeps the sector and not the loop, so the property now excepts a sector that was
read in the next loop (`ReadInNextLoop`); it is the case `NextLoopPredicted` of `ZoneTest`,
where the test cases trip over it.

### Requests and tokens

`CommitIsProof` is about the medium only and says nothing of
commits still in the cache; `PromiseInv` adds that of a page the cache never holds an
older request than the medium, so that the medium only goes up (`Newest`), that until
the cache is forgotten it and the medium hold what was accepted (`Kept`), and that what
precedes a commit in the cache is on the medium already (`CachedCommit`). The last comes
of the flush before it: when the first page of a commit arrives the cache is empty.

`RequestsKeepTheirPromise` maps every step of `DeviceIO` to one of `WritePromise` or a
stutter. It takes an invariant because the abstract guards must hold: `Control`
(each place of the program has its kind of request), `Stored` (only pages of the area are
written, which is the lemma `PagesInArea` about the clamp in unsigned arithmetic) and
`Barrier` (a commit finds nothing of an earlier request in the cache, and is in the cache when
its own flush begins). For every plan, so, a commit on the medium is a proof
(`CommitsAreProof`), which is what the other models take for granted. For
`CutIsAnswered` and `CutIsWhereItIsSaid` the invariant has what the driver knows of a
cut: until it is asked, the request stays in the step that was cut (`CutSaid`); what it says
is true (`Located`); and while a loop is read back it was told nothing (`Restored`,
`Untold`).

`SendToken` is proved under `~MayBeLate`, without which `late_ack` is the
counterexample: between two printings the line then holds at most one line that matters,
the token or its answer (`OneAnswer`). In `PartialWriting` the invariant says of the scan
what it has seen: no change, one, or more, and which value it looks for (`Scanned`).

### Zones

`NoOtherFalseAlarm` and `ZoneIsCovered` of `ZoneTest` are about any area, any zone size and
any chunk array; the code's zones of 16384 pages are one instance. Their invariant `ZInv`
says of each page that is in use (`Used`) where it lies in the loop: `Before` or `After` a
request, by the order of the loop, which is by place in the zone first in an odd loop and
by address in an even one. `Done` is a page as the loop leaves it; in an even loop of 0005
that looks two loops back.

- `CoveredUpTo`, `UntouchedFrom`: what is before the request at hand is of this loop, what
  is behind it still of the loop before. Without a cache that is all, and one more lemma
  for each case (the pages behind a request are those before the next one, the next
  request is `Valid`) carries it through a write and a torn one, and over the end of a loop.
- `CacheCovers`, `FrontCovered`: with a cache, what is before a cached request is there
  or in the cache before it, so that the first request that a cut lost is one up to which
  the loop is covered. `CommitAlone` says that a commit is never cached with others.
- `OnWalk`: what has been written lies on the pattern walked through from where the phase
  began, request by request and over the end of the loop (`Walks`), and nothing of the
  loop lies behind the `Horizon`: what this phase has counted, or the first flush cycle, in
  which an earlier phase may have left something.
- `VerifiedOK`: after a verification the loop is covered up to the request to resume at,
  and `PredictionRight`: if the predicted last cached page is of the same loop, nothing of
  the loop lies behind it. This is `NothingBehindPrediction` of `PowerLossTest` for the
  cases' own patterns, and the cases rely on it to tell which page must be of which loop.

The check of a zone is then compared with this, case by case and for odd and even loops:
each of its parts demands a page that `VerifiedOK` gives, save where the zone of the
prediction is not the one the code assumes, which are the three exceptions. `ZonesCovered`
goes the other way: each page of the zone is demanded by some part. Both need arithmetic of
zones (`Masked` and `get_zone_num` against sums, the rows of the chunk array in 0005 and
0007), which is a good part of the module.

### Sessions

`PreparedAsAsked` speaks of the end of a preparation. `PreparationInv` adds what each step
finds: the medium covers the device (`DeviceThere`), the area lies in it, or the
preparation has stopped (`AreaInside`), before the filling nothing but what was there or is erased
(`ErasedOrOld`), and when it fills, the check has seen the test area erased (`FillsErased`).
How far it fills is about the number of filled blocks outside the area against the ratio, for
areas of any size, which needs cardinalities and the place in each part the filling
has got to.

`CrashIsRemembered` needs `RecordInv`: the board goes on only with a clean record
(`GoesOnClean`), and from the moment it is found a crash is either in a verification that
is being saved, or on record, or forgotten in one of the named ways (`FoundIsOnRecord`).
`CrashLeavesLog` is the part of `CrashIsPrinted` that speaks of the card alone: when the
board has stopped with a crash and the card never failed, `verify_load_log` takes the log.
`LogInv` follows the index through the saving: it begins at the first sector of the lists as
soon as the first list is written (`IndexGrows`, `IndexDone`), and is on the card before
the crash state is (`LogIsThere`).

### Assumptions

They are those named in the modules. Of the pattern: it is not empty, and odd
and even loops start the same requests, each once (`PatternAssumption`,
`PatternsAssumption`). Of sizes: window, loops, flush cycle and pages of a request are
positive (`RequestWindowAssumption`, `MaxLoopAssumption`, `CaseAssumption`). Of the storage: the three kinds above
(`DeviceAssumption`). Of requests: the area lies in the device and sector numbers
do not reach the word's width, also not behind a request (`LengthAssumption`, `SetupsAssumption`);
a loop is written, `plr_main` is at "repeat", and then it is read back (`PlanAssumption`); the driver
is asked more than once (`RetryAssumption`; `poweroff_data_check` asks in a loop). The bounds
on failures (`BoundAssumption`) may be any number. Of the test area (`AreaAssumption`): it
begins at a zone and has at least two. Of the chunks (`ZoneChunksAssumption`): they are
different, begin with 1, and fill a zone as the code's 1, 2, 4 .. 64 pages fill 16384, with
nothing left of what 0007 uses and at most a pair of what 0005 does. Of a preparation: the numbers are
natural and the ratio a percentage (`AreasAssumption`, `BoundsAssumption`).

### Only model-checked

- Liveness: `TestEnds`, `EventuallyJudged`, `EveryTokenReturns`, `EveryRequestReturns`.
  Fairness and ENABLED are out of the prover's reach.
- `RandomTest` (`ResumesAtFirstMissing`, `NoHole`, `NoOtherFalseAlarm`, `ZoneIsCovered`)
  and `AgingTest` (`NoOtherFalseAlarm`, `LossIsFound`). A verification there is one step
  that walks through a loop with lengths drawn from a seed, or from header to header
  through what the medium holds, and what it computes is defined by recursion. The
  library's induction theorems cannot be used with the provers at hand; for the chunk
  array, the walks of `ZoneTest` and the fillings of `Session` a least counterexample
  serves instead (`LeastOf`), because there a step of the walk is a step of the model or
  follows from the last request alone. For walks over headers that was not done.
- `CrashIsPrinted` of `Session`: what `verify_load_log` reads back is defined by recursion
  over the sectors and the texts in them. `CrashLeavesLog` is what is proved of it.

## Plan

1. Done: `VerifyCore`, `VerifyEngine`, `PartialWriting`, `PowerLossTest`,
   `SendToken`, first theorems.
2. Done: `TestArea`, `ZoneCases`, `ZoneTest`, `RandomCases`, `EraseCase`,
   `RandomTest`: `dpin_0000`, `0001`, `0003` to `0012`.
3. Done: `DeviceIO` and the abstract `WritePromise` it implements; `VerifyLog` and
   `Session`; `AgingCases`, `ReadDisturb`, `AgingTest`.
4. Done, proofs: `VerifyEngine`, `PartialWriting`, `SendToken`, `WritePromise`,
   `DeviceIO` with the refinement, all invariants and action properties of `PowerLossTest`
   and `ZoneTest`, and `Session` but for what is printed.
5. Left: tokens that fail, composed with the tests; `dpin_0002`; the extra
   checks of `ZoneTest` when the cycle is longer than the window and predicts nothing; the
   walks of `RandomTest` and `AgingTest` step by step, which could then be proved about.

## Not modelled

`dpin_0002` writes the first two pages of each zone over and over and verifies only their
checksums: no order of requests is checked. `dpin_0013` to `0015` share their pattern
with `0000`. What they write in between is described here only: `dpin_0015`, when the
boots reach `finish.value`, fills the whole device with a known pattern, which the
verification that follows takes for a broken device; `dpin_0013` compares the first
`test_sector_length` sectors of the device with that pattern, wherever the test area
begins. `saxx_0000` is a copy of `daxx_0000` that no table names, and cases 5 to 7 of the
aging table do nothing. The overflow of `ratio_addr` (`plr_daxx0009.c:370`) is in
`ReadDisturb`, but no property is about it.

The calibration measures how long the device stays busy, one request after the other,
and says when in a request the power is to be cut; the models let the cut come at any
point, so that no verdict rests on its table. The file transfer is an external command that is tried
again. Nothing calls the 64-bit clock of `plr_rtc64.c` but its own tests. The statistics and the
report are counters and output that no decision reads.

Not planned either: packed mode (unreachable in this build), terminal and file
handling, memory layout, printing.
