-------------------------------- MODULE Session --------------------------------
(***************************************************************************)
(* What is left of a test when the board is restarted: the SD card with    *)
(* the crash state, the crash information and the verification log.  The   *)
(* device is prepared (plr_precondition.c), test boots follow              *)
(* (plr_main.c), at two of which dpin_0014 prepares it again, each with a  *)
(* verification that logs its requests and saves what it found             *)
(* (plr_pattern.c, plr_verify.c, plr_err_handling.c), and the tr command   *)
(* prints it later.                                                        *)
(*                                                                         *)
(* The board may be restarted between any two sectors it writes, and       *)
(* writing a sector may fail.  What a verification finds is left open      *)
(* here: it is the subject of the other modules.                           *)
(***************************************************************************)
EXTENDS VerifyLog, FiniteSets

CONSTANTS
  Areas,       \* what is prepared: records with the length of the device, the test
               \* area and ratio_of_filled, in blocks of FILL_BLOCK_CNT, whether the
               \* test is one that prepares the device itself (daxx_0008, 0009), the
               \* boot half-way through a dpin_0014, at which it does so again, or 0,
               \* and boot_cnt, 0 before the test and counted as far as due
  MaxRequests, \* bound: requests verified up to the first, the second, ... verification
  MaxFaults,   \* bound: sectors the SD card fails to write
  MaxTests     \* bound: times the device is prepared

\* The ratio is a percentage, which the host sends and the board takes as it comes.
ASSUME AreasAssumption ==
  Areas \subseteq [device : Nat, start : Nat, length : Nat, ratio : 0 .. 100,
                   itself : BOOLEAN, due : Nat, boot : Nat]

ASSUME BoundsAssumption ==
  MaxRequests \in Seq(Nat) /\ MaxRequests # <<>> /\ MaxFaults \in Nat

PLR_EIO    == 2
PLR_ECRASH == 5

SAVE_VERIFY_RESULT_SECTOR_NUM        == 5
SAVE_HISTORY_INFO_SECTOR_NUM         == 10
SAVE_HISTORY_REQUEST_INFO_SECTOR_NUM == 11

\* More sectors than the longest log takes.
LastSector == SAVE_HISTORY_REQUEST_INFO_SECTOR_NUM + MaxRequests[1] + 2

VARIABLES
  state,    \* crash state, sector 0 of the SD card
  card,     \* its sectors from SAVE_VERIFY_RESULT_SECTOR_NUM on
  log,      \* the verification log
  v,        \* the verification: its requests, step, steps with a crash, dd_read failed
  save,     \* verify_save_log: what is saved, the sector it has come to, the index so far
  area,     \* which of Areas
  medium,   \* block -> what is on the device, while it is prepared
  pc,
  total,    \* requests verified so far
  boots,    \* verifications so far
  tests,    \* times prepared so far
  faults,   \* failures the SD card has left
  found,    \* history: a verification since the preparation found a crash
  forgot,   \* history: and the crash state was not set, restarted before or failed, or it
            \* was cleared half-way through a dpin_0014
  saved     \* history: the requests of the verification whose index is on the card

vars == <<state, card, log, v, save, area, medium, pc, total, boots, tests,
          faults, found, forgot, saved>>

Blank == [ long |-> FALSE, crashed |-> {}, index |-> <<>>,
           units |-> [u \in 1 .. SectorUnits |-> Zero] ]

NoVerification == [requests |-> <<>>, step |-> "none", crashed |-> {}, io |-> FALSE]

NoSave == [step |-> 1, at |-> SAVE_HISTORY_REQUEST_INFO_SECTOR_NUM, index |-> <<>>]

Init ==
  /\ state = 0
  /\ card = [s \in SAVE_VERIFY_RESULT_SECTOR_NUM .. LastSector |-> Blank]
  /\ log = NoLog
  /\ v = NoVerification
  /\ save = NoSave
  /\ area \in Areas
  /\ medium = [b \in 0 .. area.device - 1 |-> "old"]
  /\ pc = "clear_state"
  /\ total = 0 /\ boots = 0 /\ tests = 1 /\ faults = MaxFaults
  /\ found = FALSE /\ forgot = FALSE
  /\ saved = <<>>

NoArea == [device |-> 0, start |-> 0, length |-> 0, ratio |-> 0, itself |-> FALSE,
           due |-> 0, boot |-> 1]

verification == <<log, v, save, total, boots, saved>>
preparation  == <<area, medium, tests>>
history      == <<found, forgot>>

-------------------------------------------------------------------------------
(***************************************************************************)
(* plr_prepare: the crash state is cleared, the whole device erased, the   *)
(* test area looked at, and the rest filled up to the ratio.               *)
(***************************************************************************)
TestArea == area.start .. area.start + area.length - 1

Outside == DOMAIN medium \ TestArea

InTest == area.boot > 0

\* The host resets the board, a test goes on; a failure ends either.
Prepared(ok) == pc' = IF ~ok THEN "stopped" ELSE IF InTest THEN "boot" ELSE "prepared"

\* clear_state_sdcard: its result is overwritten by that of the next call.
ClearState ==
  /\ pc = "clear_state"
  /\ \/ /\ state' = 0 /\ UNCHANGED faults
        /\ IF area.boot > 1 THEN forgot' = (forgot \/ found) /\ UNCHANGED found
                         ELSE found' = FALSE /\ forgot' = FALSE
     \/ faults > 0 /\ faults' = faults - 1 /\ UNCHANGED <<state, history>>
  /\ pc' = CASE area.itself -> "prepared"
             [] ~area.itself /\ area.start + area.length > area.device -> "stopped"
             [] ~area.itself /\ area.start + area.length <= area.device -> "erase"
  /\ UNCHANGED <<card, verification, preparation>>

\* make_erase_zero_condition; a device may say that it erased and leave a block.
Erase ==
  /\ pc = "erase"
  /\ \/ \E left \in SUBSET DOMAIN medium :
          /\ Cardinality(left) <= 1
          /\ medium' = [b \in DOMAIN medium |-> IF b \in left THEN "old" ELSE "erased"]
          /\ pc' = "check"
     \/ pc' = "stopped" /\ UNCHANGED medium
  /\ UNCHANGED <<state, card, verification, area, tests, faults, history>>

\* The blocks check_erase_zero_condition reads.
check_erase_zero_condition == TestArea

Check ==
  /\ pc = "check"
  /\ \/ /\ \A b \in check_erase_zero_condition : medium[b] = "erased"
        /\ IF area.ratio > 0 /\ ~InTest THEN pc' = "fill" ELSE Prepared(TRUE)
     \/ /\ \E b \in check_erase_zero_condition : medium[b] # "erased"
        /\ Prepared(FALSE)
     \/ Prepared(FALSE)  \* dd_read failed
  /\ UNCHANGED <<state, card, verification, preparation, faults, history>>

\* Mutant: the blocks are counted from anew behind the test area.
make_dirty_condition_Restarts ==
  LET fill  == (Cardinality(Outside) * area.ratio) \div 100
      First(blocks, n) == {b \in blocks : Cardinality({c \in blocks : c < b}) < n}
      front == {b \in Outside : b < area.start}
      back  == Outside \ front
  IN  First(front, fill + 1) \cup First(back, fill + 1)

\* The blocks make_dirty_condition writes: those in front of the test area, then
\* those behind it, as long as it has not written more than it was to.
make_dirty_condition ==
  LET fill == (Cardinality(Outside) * area.ratio) \div 100
  IN  {b \in Outside : Cardinality({c \in Outside : c < b}) <= fill}

Fill ==
  /\ pc = "fill"
  /\ \/ /\ medium' = [b \in DOMAIN medium |->
                        IF b \in make_dirty_condition THEN "dirty" ELSE medium[b]]
        /\ Prepared(TRUE)
     \/ Prepared(FALSE) /\ UNCHANGED medium  \* dd_write failed
  /\ UNCHANGED <<state, card, verification, area, tests, faults, history>>

Device(a) == [b \in 0 .. a.device - 1 |-> "old"]

\* plr_start_initialization: at its first boot and half-way dpin_0014 writes all over the
\* device and prepares it.  A test that has no preparation before it keeps no area.
plr_start_initialization ==
  IF area.boot >= area.due THEN pc' = "boot" /\ area' = NoArea /\ medium' = <<>>
  ELSE /\ area' = [area EXCEPT !.boot = @ + 1]
       /\ IF area'.boot \in {1, area.due} THEN pc' = "clear_state" /\ medium' = Device(area)
                                          ELSE pc' = "boot" /\ medium' = <<>>

\* The board is reset, and the test begins.
Reset ==
  /\ pc = "prepared"
  /\ plr_start_initialization
  /\ UNCHANGED <<state, card, verification, tests, faults, history>>

-------------------------------------------------------------------------------
Start ==
  /\ boots < Len(MaxRequests) /\ boots' = boots + 1
  /\ pc' = "verify"
  /\ v' = [NoVerification EXCEPT !.step = "DEFAULT"]
  /\ log' = verify_init_log

\* previous_crash_state_result, and the beginning of verify_pattern.
Boot ==
  /\ pc = "boot"
  /\ IF state # 0 THEN pc' = "stopped" /\ UNCHANGED <<v, log, boots>> ELSE Start
  /\ UNCHANGED <<state, card, save, total, saved, preparation, faults, history>>

Crashed(step) == \E i \in DOMAIN v.requests : v.requests[i].crash /\ v.requests[i].step = step

\* verify_insert_request_info.  In the first step a crash is a request that is not what
\* was expected, the first with the pages that are not, and the engine decides; in the
\* others it is the result.
Insert ==
  /\ pc = "verify" /\ total < MaxRequests[boots]
  /\ total' = total + 1
  /\ \E crash \in BOOLEAN :
       LET r == [ n |-> total', step |-> v.step, crash |-> crash,
                  pages |-> crash /\ v.step = "DEFAULT" /\ ~Crashed("DEFAULT") ]
       IN  /\ log' = insert_request_list(log, r)
           /\ v' = [v EXCEPT !.requests = Append(@, r),
                             !.crashed = IF crash /\ v.step # "DEFAULT"
                                         THEN @ \cup {v.step} ELSE @]
  /\ UNCHANGED <<state, card, save, boots, saved, preparation, pc, faults, history>>

\* The next step: of the first one it is now known whether it found a crash.
NextStep ==
  /\ pc = "verify" /\ v.step # "EXTRA"
  /\ \E crashed \in {{}, {"DEFAULT"}} :
       /\ crashed # {} => v.step = "DEFAULT" /\ Crashed("DEFAULT")
       /\ v' = [v EXCEPT !.step = IF @ = "DEFAULT" THEN "LSN_CRC" ELSE "EXTRA",
                         !.crashed = @ \cup crashed]
  /\ UNCHANGED <<state, card, log, save, total, boots, saved, preparation, pc, faults, history>>

verify_get_result == IF v.io THEN PLR_EIO ELSE IF v.crashed # {} THEN PLR_ECRASH ELSE 0

\* verify_pattern is through, with a read that failed or without.  A result of 2 is
\* not VERI_EIO, and so what was found up to a failed read is saved too.
Judge ==
  /\ pc = "verify"
  /\ \E io \in BOOLEAN :
       /\ ~io => v.step # "DEFAULT"
       /\ v' = [v EXCEPT !.io = io]
  /\ pc' = IF verify_get_result' = 0 THEN "write" ELSE "clear_info"
  /\ found' = (found \/ verify_get_result' = PLR_ECRASH)
  /\ save' = NoSave
  /\ UNCHANGED <<state, card, log, total, boots, saved, preparation, faults, forgot>>

-------------------------------------------------------------------------------
Off == pc' = "off" /\ forgot' = (forgot \/ (found /\ state = 0)) /\ UNCHANGED faults

(***************************************************************************)
(* A function that writes sectors, in a sequence of functions from sectors *)
(* to what is written: all of them, or, when the power goes or a write     *)
(* fails, the first few.  Nobody looks at the result.  Sectors nobody      *)
(* reads until the index is written are taken together.                    *)
(***************************************************************************)
Written(writes, n) ==
  [s \in DOMAIN card |->
     LET here == {i \in 1 .. n : s \in DOMAIN writes[i]}
     IN  IF here = {} THEN card[s] ELSE writes[CHOOSE i \in here : \A j \in here : j <= i][s]]

WriteSectors(writes, next) ==
  \E n \in 0 .. Len(writes) :
    /\ card' = Written(writes, n)
    /\ \/ n = Len(writes) /\ pc' = next /\ UNCHANGED <<faults, forgot>>
       \/ n < Len(writes) /\ Off
       \/ n < Len(writes) /\ faults > 0 /\ faults' = faults - 1 /\ pc' = next
          /\ UNCHANGED forgot

Clear(first, last) == [s \in first .. last |-> Blank]

Dump(sector, contents) == [s \in {sector} |-> contents]

(***************************************************************************)
(* verify_save_crash_info: one sector is cleared, one or two are written.  *)
(* The steps with a crash come last: behind the map of the pages of the    *)
(* first suspected request, which is long for a long request.              *)
(***************************************************************************)
ClearInfo ==
  /\ pc = "clear_info"
  /\ WriteSectors(<< Clear(SAVE_VERIFY_RESULT_SECTOR_NUM, SAVE_VERIFY_RESULT_SECTOR_NUM) >>,
                  "dump_info")
  /\ UNCHANGED <<state, log, v, save, total, boots, saved, preparation, found>>

CrashInfo(long) ==
  IF long THEN << Dump(SAVE_VERIFY_RESULT_SECTOR_NUM, [Blank EXCEPT !.long = TRUE]),
                  Dump(SAVE_VERIFY_RESULT_SECTOR_NUM + 1, [Blank EXCEPT !.crashed = v.crashed]) >>
          ELSE << Dump(SAVE_VERIFY_RESULT_SECTOR_NUM, [Blank EXCEPT !.crashed = v.crashed]) >>

DumpInfo ==
  /\ pc = "dump_info"
  /\ \E long \in {FALSE, Crashed("DEFAULT")} : WriteSectors(CrashInfo(long), "clear_log")
  /\ UNCHANGED <<state, log, v, save, total, boots, saved, preparation, found>>

\* Mutant: the index of the log before is left.
ClearLog_KeepsIndex ==
  /\ pc = "clear_log"
  /\ WriteSectors(<< Clear(SAVE_HISTORY_REQUEST_INFO_SECTOR_NUM, LastSector) >>, "dump_log")
  /\ UNCHANGED <<state, log, v, save, total, boots, saved, preparation, found>>

\* verify_save_log: the index first, and the sectors of the log.
ClearLog ==
  /\ pc = "clear_log"
  /\ WriteSectors(<< Clear(SAVE_HISTORY_INFO_SECTOR_NUM, SAVE_HISTORY_INFO_SECTOR_NUM),
                     Clear(SAVE_HISTORY_REQUEST_INFO_SECTOR_NUM, LastSector) >>, "dump_log")
  /\ UNCHANGED <<state, log, v, save, total, boots, saved, preparation, found>>

\* save_manager_list of one step.  What save_crash_dump returns moves the place of the
\* next step, the number of an error too.
DumpLog ==
  /\ pc = "dump_log"
  /\ LET text   == Text(log, LogSteps[save.step])
         length == Sectors(Len(text))
         used   == CASE text = <<>>                      -> 1
                     [] text # <<>> /\ faults' = faults  -> length
                     [] text # <<>> /\ faults' # faults  -> 0 - PLR_EIO
     IN  /\ WriteSectors(<< [s \in save.at .. save.at + length - 1 |->
                               [Blank EXCEPT !.units = SectorOf(text, s - save.at + 1)]] >>,
                         IF save.step = Len(LogSteps) THEN "dump_index" ELSE "dump_log")
         /\ save' = IF pc' = "off" THEN NoSave
                    ELSE [step  |-> save.step + 1, at |-> save.at + used,
                          index |-> save.index \o <<save.at, Len(text)>>]
  /\ UNCHANGED <<state, log, v, total, boots, saved, preparation, found>>

DumpIndex ==
  /\ pc = "dump_index"
  /\ WriteSectors(<< Dump(SAVE_HISTORY_INFO_SECTOR_NUM, [Blank EXCEPT !.index = save.index]) >>,
                  "report")
  /\ saved' = IF card'[SAVE_HISTORY_INFO_SECTOR_NUM].index = save.index THEN v.requests ELSE saved
  /\ save' = NoSave
  /\ UNCHANGED <<state, log, v, total, boots, preparation, found>>

\* Mutant: the crash state is not set when a step after the first one found it.
Report_FirstStepOnly ==
  /\ pc = "report"
  /\ pc' = "stopped"
  /\ IF verify_get_result = PLR_ECRASH /\ "DEFAULT" \in v.crashed
     THEN state' = PLR_ECRASH ELSE UNCHANGED state
  /\ UNCHANGED <<card, verification, preparation, faults, history>>

\* verification_error_result: only a crash is kept in mind, and either way the host
\* is told and the board waits.
Report ==
  /\ pc = "report"
  /\ pc' = "stopped"
  /\ \/ /\ state' = IF verify_get_result = PLR_ECRASH THEN PLR_ECRASH ELSE state
        /\ UNCHANGED <<faults, forgot>>
     \/ /\ verify_get_result = PLR_ECRASH
        /\ faults > 0 /\ faults' = faults - 1
        /\ forgot' = TRUE
        /\ UNCHANGED state
  /\ UNCHANGED <<card, verification, preparation, found>>

\* The write phase, and the next loop of plr_main.
Write ==
  /\ pc = "write"
  /\ pc' = "boot"
  /\ UNCHANGED <<state, card, verification, preparation, faults, history>>

\* The power goes, and with it what was in the memory.
PowerOff ==
  /\ pc \notin {"off", "prepared"}
  /\ Off
  /\ UNCHANGED <<state, card, verification, preparation, found>>

PowerOn ==
  /\ pc = "off"
  /\ plr_start_initialization
  /\ log' = NoLog /\ v' = NoVerification /\ save' = NoSave
  /\ UNCHANGED <<state, card, total, boots, tests, saved, faults, history>>

\* A board that waits is prepared for another test.
PrepareAgain ==
  /\ pc = "stopped" /\ tests < MaxTests
  /\ tests' = tests + 1
  /\ pc' = "clear_state"
  /\ area' \in Areas /\ medium' = Device(area')
  /\ log' = NoLog /\ v' = NoVerification /\ save' = NoSave
  /\ UNCHANGED <<state, card, total, boots, saved, faults, history>>

Next ==
  \/ ClearState \/ Erase \/ Check \/ Fill \/ Reset
  \/ Boot \/ Insert \/ NextStep \/ Judge
  \/ ClearInfo \/ DumpInfo \/ ClearLog \/ DumpLog \/ DumpIndex \/ Report
  \/ Write \/ PowerOff \/ PowerOn \/ PrepareAgain

Spec == Init /\ [][Next]_vars

-------------------------------------------------------------------------------
Index == card[SAVE_HISTORY_INFO_SECTOR_NUM].index

\* verify_load_log takes a log whose first text is where it belongs.
Loadable == Index # <<>> /\ Index[1] = SAVE_HISTORY_REQUEST_INFO_SECTOR_NUM

\* One step of it, into a log and a buffer that hold the steps before.
LoadStep(loaded, i) ==
  LET length == Index[2 * i]
      at     == Index[2 * i - 1]
      buffer == ReadInto(loaded.buffer, [s \in 1 .. Sectors(length) |-> card[at + s - 1].units])
  IN  IF length = 0 THEN loaded
      ELSE [ buffer |-> buffer,
             log    |-> InsertAll(loaded.log, Parsed(buffer, LogSteps[i])) ]

verify_load_log ==
  LET empty == [ log    |-> verify_init_log,
                 buffer |-> [at \in 1 .. (LastSector - 10) * SectorUnits |-> Zero] ]
  IN  FoldLeft(LoadStep, empty, <<1, 2, 3>>).log

\* The steps with a crash, from behind the map of pages.
verify_load_crash_info ==
  LET first == card[SAVE_VERIFY_RESULT_SECTOR_NUM]
  IN  IF first.long THEN card[SAVE_VERIFY_RESULT_SECTOR_NUM + 1].crashed ELSE first.crashed

-------------------------------------------------------------------------------
(* A crash that was found is remembered: there is no write phase, which     *)
(* would write over what the crash left, until the device is prepared       *)
(* again.  Unless the board was restarted between the verification and      *)
(* set_crash_state_sdcard, or that failed; and unless a dpin_0014 has come  *)
(* half-way, where it prepares the device before it looks at the state.     *)
CrashIsRemembered == pc = "write" => ~found \/ forgot

Faulty == faults < MaxFaults

\* The requests of a step with a crash next to them, or one themselves.
Neighbours(requests, step) ==
  LET these   == SelectSeq(requests, LAMBDA r : r.step = step)
      Near(i) == \E j \in DOMAIN these :
                   these[j].crash /\ i - j <= MAX_NORMAL_REQUEST /\ j - i <= MAX_NORMAL_REQUEST
      near    == {i \in DOMAIN these : Near(i)}
  IN  {these[i].n : i \in near}

\* The text of step i ends with a sector, and is read on into that of a step before.
ReadOn(i) ==
  /\ Index[2 * i] > 0 /\ Index[2 * i] % SectorUnits = 0
  /\ \E j \in 1 .. i - 1 : Index[2 * j] > Index[2 * i]

Numbers(requests) == [i \in DOMAIN requests |-> requests[i].n]

(* What tr prints of a log is each crash of one verification with its       *)
(* neighbours, in their order, whenever the power went; unless the text of  *)
(* a step is read on.  And when the board stops with a crash, tr finds what *)
(* it is told to print: a log, and a list for each step that is broken,     *)
(* without which verify_print_step2 and 3 look into a list that is not      *)
(* there.  All this as long as the SD card does not fail.                   *)
CrashIsPrinted ==
  ~Faulty =>
    /\ Loadable =>
         \A i \in DOMAIN LogSteps :
           LET printed == Numbers(Printed(verify_load_log, LogSteps[i]))
           IN  \/ ReadOn(i)
               \/ /\ {printed[k] : k \in DOMAIN printed} = Neighbours(saved, LogSteps[i])
                  /\ \A k \in 1 .. Len(printed) - 1 : printed[k] < printed[k + 1]
    /\ pc = "stopped" /\ state = PLR_ECRASH =>
         /\ Loadable
         /\ \A step \in verify_load_crash_info :
              verify_load_log.lists[step] # <<>>

(* A preparation that says it is done has left nothing in the test area,    *)
(* and has filled of the rest what it was to, and at most a block more; but *)
(* for a test that prepares the device itself, where it does nothing.       *)
PreparedAsAsked ==
  pc = "prepared" /\ ~area.itself =>
    /\ \A b \in TestArea : medium[b] = "erased"
    /\ LET dirty == Cardinality({b \in Outside : medium[b] = "dirty"})
       IN  /\ 100 * dirty >= area.ratio * Cardinality(Outside) - 100
           /\ 100 * (dirty - 1) <= area.ratio * Cardinality(Outside)
===============================================================================
