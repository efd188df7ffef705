------------------------------- MODULE DeviceIO -------------------------------
(***************************************************************************)
(* The way of a request from write_request, write_flush_request and        *)
(* erase_request of plr_common.c through plr_deviceio.c to the system      *)
(* calls of plr_hooking_5410_system.c, with the driver that cuts the power *)
(* and says so in a file, and a device that fails now and then.            *)
(*                                                                         *)
(* A request that fails is a cut if the driver says so and an error        *)
(* otherwise; but the driver may answer late, its file may not open, and   *)
(* telling it to cut the power erases what it had to say.                  *)
(***************************************************************************)
EXTENDS Integers, Sequences, FiniteSets

CONSTANTS
  AreaStart, AreaLength,  \* test_start_sector, test_sector_length
  DeviceLength,           \* total_device_sector
  Word,                   \* 2^32 in the code: unsigned arithmetic
  RWRETRY,                \* 5 in the code
  Polls,                  \* readings of the driver's file, 5 in the code
  Setups,                 \* what is tested: records with the requests to be made,
                          \* b_cache_enable, the extended feature, and whether
                          \* pl_time_min and pl_time_max are equal
  MaxFaults,              \* bound: failures of the device
  MaxMisses               \* bound: times the driver's file does not open

ASSUME LengthAssumption ==
  /\ AreaStart \in Nat /\ AreaLength \in Nat \ {0} /\ DeviceLength \in Nat /\ Word \in Nat
  /\ AreaStart + AreaLength <= DeviceLength /\ DeviceLength < Word

Operation == [op : {"write", "commit", "erase", "read", "repeat"}, start : Nat, len : Nat]

\* A test makes at least one request, and none that passes the last sector number.
ASSUME SetupsAssumption ==
  /\ Setups \subseteq [plan : Seq(Operation), cache : BOOLEAN,
                      feature : {"none", "sleep", "opcon"}, equal : BOOLEAN]
  /\ \A s \in Setups : /\ Len(s.plan) > 0
                       /\ \A i \in DOMAIN s.plan : s.plan[i].start + s.plan[i].len < Word

\* A loop is written, plr_main is at "repeat", and then it is read back.
ASSUME PlanAssumption ==
  \A s \in Setups : \A i, j \in DOMAIN s.plan :
    /\ s.plan[i].op = "read" /\ i < j => s.plan[j].op = "read"
    /\ s.plan[j].op = "read" /\ i = j - 1 => s.plan[i].op \in {"repeat", "read"}

\* The driver is asked more than once, for the first reading may come too early.
ASSUME RetryAssumption == RWRETRY \in Nat \ {0} /\ Polls \in Nat \ {0, 1}

ASSUME BoundAssumption == MaxFaults \in Nat /\ MaxMisses \in Nat

VARIABLES
  setup,    \* which of Setups
  answers,  \* what the requests returned, "cut" for -INTERNAL_POWEROFF_FLAG
  pc,       \* where the request is
  asker,    \* the step that failed while the driver is asked
  tries,    \* attempts left to dd_read or dd_write
  polls,    \* readings left to poweroff_data_check
  require,  \* g_require_powerloss
  pos,      \* poweroff_pos
  driver,   \* told to cut the power, in which phase, and what its file says of a cut
  power,
  cache, medium,  \* page -> number of the request it is of, 0 when of none
  faults,   \* failures the device has left
  misses,   \* times the driver's file will not open
  cutIn     \* history: the step the power was cut in

vars == <<setup, answers, pc, asker, tries, polls, require, pos, driver, power,
          cache, medium, faults, misses, cutIn>>

device == <<power, cache, medium, cutIn>>
asking == <<asker, polls>>

Device == 0 .. DeviceLength - 1
None   == [lsn \in Device |-> 0]

Plan    == setup.plan
Current == Len(answers) + 1
Request == Plan[Current]

\* What _write makes of a request: only a cache is committed to.
Op(i) == IF Plan[i].op = "commit" /\ ~setup.cache THEN "write" ELSE Plan[i].op

-------------------------------------------------------------------------------
\* test_sector_length + test_start_sector - req_start, as unsigned numbers are.
Remaining(start) == (AreaLength + AreaStart - start) % Word

\* Mutant: the end of the area is looked at first, and the clamp left out.
Length_Unclamped(r) == r.len

\* write_data_pages and erase_data_pages cut a request off at the end of the area.
Length(r) == IF r.len > Remaining(r.start) THEN Remaining(r.start) ELSE r.len

\* They refuse one that begins outside of it, or is empty.
Refused(r) ==
  \/ r.start < AreaStart
  \/ /\ r.len <= Remaining(r.start)
     /\ r.start > AreaStart + AreaLength \/ r.len = 0

PagesOf(i) ==
  CASE Op(i) \in {"write", "commit", "erase"} ->
         IF Refused(Plan[i]) THEN {}
         ELSE Plan[i].start .. Plan[i].start + Length(Plan[i]) - 1
    [] OTHER -> {}

-------------------------------------------------------------------------------
(***************************************************************************)
(* Where the power is to be cut; how long after the begin of the phase     *)
(* only the driver knows.                                                  *)
(***************************************************************************)
random_ratio_poweroff_phase ==
  (IF setup.feature = "sleep" THEN {"SLEEP_AWAKE"} ELSE {})
  \cup (IF setup.feature = "opcon" THEN {"OP_CONDITION"} ELSE {})
  \cup (IF setup.cache THEN {"WRITE_BUSY", "DATA_TRANS", "CACHE_FLUSH"}
                       ELSE {"WRITE_BUSY", "DATA_TRANS"})

select_poweroff_phase ==
  IF Op(Current) = "erase" THEN {"ERASE"} ELSE random_ratio_poweroff_phase

-------------------------------------------------------------------------------
Init ==
  /\ setup \in Setups
  /\ answers = <<>>
  /\ pc = "start"
  /\ asker = "none"
  /\ tries = RWRETRY
  /\ polls = Polls
  /\ require = FALSE
  /\ pos = DeviceLength
  /\ driver = [told |-> FALSE, phase |-> "NONE", says |-> "nothing", lsn |-> 0]
  /\ power = TRUE
  /\ cache = None /\ medium = None
  /\ faults = MaxFaults
  /\ misses = MaxMisses
  /\ cutIn = "none"

\* The request returns, and a pattern goes on after a good one only.
Return(answer) ==
  /\ answers' = Append(answers, answer)
  /\ pc' = IF answer = "ok" /\ Current < Len(Plan) THEN "begin" ELSE "stopped"
  /\ asker' = "none" /\ tries' = RWRETRY /\ polls' = Polls

Goto(place) == pc' = place /\ UNCHANGED <<answers, tries, asking>>

\* The driver's file takes what is written to it, or does not open.
Written(told, phase) ==
  \/ /\ driver' = [driver EXCEPT !.told = told, !.phase = phase,
                                 !.says = IF @ = "cut" THEN "nothing" ELSE @]
     /\ UNCHANGED misses
  \/ misses > 0 /\ misses' = misses - 1 /\ UNCHANGED driver

\* poweroff_processing: the time of the cut may come with any request, and from
\* then on every request tells the driver again.
poweroff_processing ==
  \/ ~require /\ UNCHANGED <<require, driver, misses>>
  \/ require' = TRUE /\ \E phase \in select_poweroff_phase : Written(TRUE, phase)

\* plr_start_writing: the time of the cut is drawn modulo max - min.
StartWriting ==
  /\ pc = "start"
  /\ Goto(IF setup.equal THEN "killed" ELSE "begin")
  /\ UNCHANGED <<setup, require, pos, driver, device, faults, misses>>

(***************************************************************************)
(* extend_feature_request, now and then before a write: a sleep flushes    *)
(* the cache first, an operation condition only in its phase.  The         *)
(* commands themselves do nothing in this build.                           *)
(***************************************************************************)
Begin ==
  /\ pc = "begin"
  /\ \/ Op(Current) \in {"write", "erase"} /\ Goto("issue")
        /\ UNCHANGED <<require, driver, misses>>
     \/ Op(Current) = "commit" /\ Goto("flush1") /\ UNCHANGED <<require, driver, misses>>
     \/ Op(Current) = "read" /\ Goto("read") /\ UNCHANGED <<require, driver, misses>>
     \/ /\ Op(Current) = "write" /\ setup.feature = "sleep" /\ setup.cache
        /\ Goto("feature")
        /\ UNCHANGED <<require, driver, misses>>
     \/ /\ Op(Current) = "write" /\ setup.feature = "opcon"
        /\ poweroff_processing
        /\ Goto(IF require' /\ driver'.phase = "OP_CONDITION" /\ setup.cache
                THEN "feature" ELSE "issue")
  /\ UNCHANGED <<setup, pos, device, faults>>

\* plr_main at "repeat": the loop is through, and the driver is told to do nothing.
Repeat ==
  /\ pc = "begin" /\ Op(Current) = "repeat"
  /\ Written(FALSE, "NONE")
  /\ Return("ok")
  /\ UNCHANGED <<setup, require, pos, device, faults>>

\* write_data_pages and erase_data_pages up to the system call.
Issue ==
  /\ pc = "issue"
  /\ IF Refused(Request)
     THEN Return("error") /\ UNCHANGED <<require, driver, misses>>
     ELSE /\ poweroff_processing
          /\ Goto(IF Op(Current) = "erase" THEN "erase" ELSE "write")
  /\ UNCHANGED <<setup, pos, device, faults>>

-------------------------------------------------------------------------------
\* The first pages of a request, put where the device puts them.
Put(pages) ==
  LET Over(where) == [lsn \in Device |-> IF lsn \in pages THEN Current ELSE where[lsn]]
  IN  IF setup.cache
      THEN cache' = Over(cache) /\ UNCHANGED medium
      ELSE medium' = Over(medium) /\ UNCHANGED cache

\* The system call is done: write, or the BLKDISCARD of every gigabyte.
Done ==
  /\ pc \in {"write", "erase"} /\ power
  /\ Put(PagesOf(Current))
  /\ IF Op(Current) = "commit" THEN Goto("flush2") ELSE Return("ok")
  /\ UNCHANGED <<setup, require, pos, driver, power, cutIn, faults, misses>>

Ask(place) == pc' = "ask" /\ asker' = place /\ UNCHANGED <<answers, tries, polls>>

\* It fails with some pages written: dev_erase returns at once, a write asks.
Fails ==
  /\ pc \in {"write", "erase"}
  /\ IF power THEN faults > 0 /\ faults' = faults - 1 ELSE UNCHANGED faults
  /\ \E n \in 0 .. Cardinality(PagesOf(Current)) :
       /\ ~power => n = 0
       /\ Put(Request.start .. Request.start + n - 1)
  /\ IF pc = "erase" THEN Return("error") ELSE Ask(pc)
  /\ UNCHANGED <<setup, require, pos, driver, power, cutIn, misses>>

\* do_cache_flush
Flushed ==
  /\ pc \in {"feature", "flush1", "flush2"} /\ power
  /\ medium' = [lsn \in Device |-> IF cache[lsn] # 0 THEN cache[lsn] ELSE medium[lsn]]
  /\ cache' = None
  /\ CASE pc = "flush2" -> Return("ok")
       [] pc # "flush2" -> Goto("issue")
  /\ UNCHANGED <<setup, require, pos, driver, power, cutIn, faults, misses>>

\* Mutant: the result of the flush is not looked at.
FlushFails_Ignored ==
  /\ pc \in {"feature", "flush1", "flush2"}
  /\ IF power THEN faults > 0 /\ faults' = faults - 1 ELSE UNCHANGED faults
  /\ IF pc = "flush2" THEN Return("ok") ELSE Goto("issue")
  /\ UNCHANGED <<setup, require, pos, driver, device, misses>>

FlushFails ==
  /\ pc \in {"feature", "flush1", "flush2"}
  /\ IF power THEN faults > 0 /\ faults' = faults - 1 ELSE UNCHANGED faults
  /\ Ask(pc)
  /\ UNCHANGED <<setup, require, pos, driver, device, misses>>

\* do_read: one that ends short of what it asked for is no error.
ReadDone ==
  /\ pc = "read" /\ power
  /\ Return("ok")
  /\ UNCHANGED <<setup, require, pos, driver, device, faults, misses>>

ReadFails ==
  /\ pc = "read"
  /\ IF power THEN faults > 0 /\ faults' = faults - 1 ELSE UNCHANGED faults
  /\ Ask("read")
  /\ UNCHANGED <<setup, require, pos, driver, device, misses>>

\* The requests the device was sent, and the sector of the last one.
Sent ==
  {i \in 1 .. Current :
     /\ PagesOf(i) # {}
     /\ i = Current => pc \in {"write", "erase", "flush2"} \/ (pc = "ask" /\ asker = "write")}

LastSector == IF Sent = {} THEN 0
              ELSE Plan[CHOOSE i \in Sent : \A j \in Sent : j <= i].start

(***************************************************************************)
(* The driver cuts the power, in a request or, the delay being over, after *)
(* it.  Of the cache anything may come back.  Its file says so at once or  *)
(* a few readings later.                                                   *)
(***************************************************************************)
Cut ==
  /\ driver.told /\ power /\ pc \notin {"start", "stopped", "killed"}
  /\ power' = FALSE
  /\ cutIn' = IF pc \in {"begin", "issue", "ask"} THEN "between" ELSE pc
  /\ \E kept \in SUBSET {lsn \in Device : cache[lsn] # 0} :
       medium' = [lsn \in Device |-> IF lsn \in kept THEN cache[lsn] ELSE medium[lsn]]
  /\ cache' = None
  /\ \E says \in {"cut", "late"} :
       driver' = [driver EXCEPT !.told = FALSE, !.says = says,
                                !.lsn = LastSector]
  /\ UNCHANGED <<setup, answers, pc, asking, tries, require, pos, faults, misses>>

-------------------------------------------------------------------------------
\* Mutant: the attempts are not counted.
GiveUp_Never ==
  IF asker \in {"write", "read"}
  THEN pc' = asker /\ asker' = "none" /\ polls' = Polls /\ UNCHANGED <<answers, tries>>
  ELSE Return("error")

\* The attempt is lost: dd_read and dd_write make another, a flush does not.
GiveUp ==
  IF asker \in {"write", "read"} /\ tries > 1
  THEN pc' = asker /\ asker' = "none" /\ polls' = Polls /\ tries' = tries - 1
       /\ UNCHANGED answers
  ELSE Return("error")

\* Mutant: where the power was cut is not taken over.
Seen_KeepsPosition ==
  /\ pc = "ask" /\ driver.says = "cut"
  /\ IF asker = "read"
     THEN /\ GiveUp
          /\ Written(FALSE, driver.phase)
          /\ power' = TRUE
     ELSE Return("cut") /\ UNCHANGED <<driver, misses, power>>
  /\ UNCHANGED <<setup, require, pos, cache, medium, cutIn, faults>>

\* poweroff_data_check reads that the power was cut.  A write is done with that; a
\* read has the driver forget it (excute_internal_reset), waits for the power, and
\* is tried again.
Seen ==
  /\ pc = "ask" /\ driver.says = "cut"
  /\ pos' = driver.lsn
  /\ IF asker = "read"
     THEN /\ GiveUp
          /\ Written(FALSE, driver.phase)
          /\ power' = TRUE
     ELSE Return("cut") /\ UNCHANGED <<driver, misses, power>>
  /\ UNCHANGED <<setup, require, cache, medium, cutIn, faults>>

\* Mutant: the driver is asked once.
Unseen_Once ==
  /\ pc = "ask" /\ driver.says # "cut"
  /\ driver' = [driver EXCEPT !.says = IF @ = "late" THEN "cut" ELSE @]
  /\ GiveUp
  /\ UNCHANGED <<setup, require, pos, device, faults, misses>>

\* It reads that it was not, and waits; in the meantime a late driver says it.
Unseen ==
  /\ pc = "ask" /\ driver.says # "cut"
  /\ driver' = [driver EXCEPT !.says = IF @ = "late" THEN "cut" ELSE @]
  /\ IF polls > 1 THEN polls' = polls - 1 /\ UNCHANGED <<answers, pc, asker, tries>>
                  ELSE GiveUp
  /\ UNCHANGED <<setup, require, pos, device, faults, misses>>

\* It cannot read: -1 is as good as a cut, but for a read.
Unanswered ==
  /\ pc = "ask" /\ misses > 0
  /\ misses' = misses - 1
  /\ IF asker = "read" THEN GiveUp ELSE Return("cut")
  /\ UNCHANGED <<setup, require, pos, driver, device, faults>>

Stopped == pc \in {"stopped", "killed"} /\ UNCHANGED vars

Program ==
  \/ StartWriting \/ Begin \/ Repeat \/ Issue
  \/ Done \/ Fails \/ Flushed \/ FlushFails \/ ReadDone \/ ReadFails
  \/ Seen \/ Unseen \/ Unanswered

Next == Program \/ Cut \/ Stopped

Spec == Init /\ [][Next]_vars /\ WF_vars(Program)

-------------------------------------------------------------------------------
(* Every variable keeps its type, and nothing is on a page outside of the   *)
(* test area.                                                               *)
TypeOK ==
  /\ setup \in Setups
  /\ answers \in Seq({"ok", "cut", "error"}) /\ Len(answers) <= Len(Plan)
  /\ tries \in 1 .. RWRETRY /\ polls \in 1 .. Polls
  /\ require \in BOOLEAN /\ power \in BOOLEAN
  /\ driver.says \in {"nothing", "late", "cut"} /\ driver.told \in BOOLEAN
  /\ cache \in [Device -> 0 .. Len(Plan)] /\ medium \in [Device -> 0 .. Len(Plan)]
  /\ \A lsn \in Device : cache[lsn] + medium[lsn] > 0 =>
       lsn \in AreaStart .. AreaStart + AreaLength - 1

Promise ==
  INSTANCE WritePromise WITH
    plan <- [i \in DOMAIN Plan |-> [commit |-> Op(i) = "commit", pages |-> PagesOf(i)]],
    forgot <- cutIn # "none"

(* The requests keep their promise: with all retries, cuts and errors, one  *)
(* that returns 0 is there, and a commit reaches the device only when       *)
(* everything before it is on the medium.                                   *)
ImplementsPromise == Promise!Spec

Last == answers[Len(answers)]

Missed == misses < MaxMisses

(* A power cut in a request is answered as a cut, never as an error of the  *)
(* device, which would end the test.  It is answered as an error where the  *)
(* code does not ask (an erase), where it comes between two requests and    *)
(* the next one tells the driver again, which erases what the driver says,  *)
(* or where the driver's file did not open.                                 *)
CutIsNeverAnError ==
  pc = "stopped" /\ Last = "error" /\ cutIn # "none" =>
    cutIn \in {"erase", "between"} \/ Missed

(* What is answered as a cut was one, and poweroff_pos is the sector of the *)
(* request it was in or of the one before, which is what the verification   *)
(* allows for; unless the driver's file did not open, when any error will   *)
(* do and the position is that of an earlier cut.                           *)
CutIsLocated ==
  pc = "stopped" /\ Last = "cut" =>
    \/ Missed
    \/ /\ cutIn # "none"
       /\ LET written == {i \in DOMAIN answers : PagesOf(i) # {}}
              before  == {i \in written : \A j \in written : j <= i \/ j = Len(answers)}
          IN  \/ \E i \in before : pos = Plan[i].start
              \/ before \subseteq {Len(answers)} /\ pos = 0

(* Every test comes to an end or a good last request, however its requests  *)
(* fail; but for one whose host sent equal times, which divides by zero.    *)
EveryRequestReturns == setup.equal \/ <>(pc = "stopped")

===============================================================================
