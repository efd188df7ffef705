---------------------------- MODULE DeviceIO_proofs ----------------------------
(***************************************************************************)
(* That the requests keep the promise of WritePromise, and that a power    *)
(* cut is answered as a cut and located, for every test area, plan of      *)
(* requests, number of retries and of failures.                            *)
(***************************************************************************)
EXTENDS DeviceIO, FiniteSetTheorems, WellFoundedInduction, TLAPS

Places == {"start", "killed", "begin", "feature", "flush1", "issue", "write",
           "erase", "flush2", "read", "ask", "stopped"}

Askers == {"feature", "flush1", "flush2", "write", "read"}

Results == {"ok", "cut", "error"}

Phases == {"NONE", "SLEEP_AWAKE", "OP_CONDITION", "WRITE_BUSY", "DATA_TRANS",
           "CACHE_FLUSH", "ERASE"}

DriverType == [told : BOOLEAN, phase : Phases, says : {"nothing", "late", "cut"}, lsn : Nat]

\* The step the request is in, the one that failed while the driver is asked.
Where == IF pc = "ask" THEN asker ELSE pc

Area == AreaStart .. AreaStart + AreaLength - 1

Numbers == [Device -> 0 .. Len(Plan)]

-------------------------------------------------------------------------------
(* The plan does not change, nor what follows from it.                      *)
LEMMA SamePlan ==
  ASSUME setup' = setup
  PROVE  /\ Plan' = Plan /\ Numbers' = Numbers
         /\ \A i : Op(i)' = Op(i) /\ PagesOf(i)' = PagesOf(i)
BY DEF Plan, Op, PagesOf, Numbers

(* The plan is one that the assumptions speak of.                           *)
LEMMA PlanType ==
  ASSUME setup \in Setups
  PROVE  /\ setup.cache \in BOOLEAN /\ Plan \in Seq(Operation) /\ Len(Plan) \in Nat \ {0}
         /\ \A i \in 1 .. Len(Plan) :
              /\ Plan[i] \in Operation
              /\ Plan[i].start \in Nat /\ Plan[i].len \in Nat
              /\ Plan[i].start + Plan[i].len < Word
<1>1. setup \in [plan : Seq(Operation), cache : BOOLEAN,
                 feature : {"none", "sleep", "opcon"}, equal : BOOLEAN]
  BY SetupsAssumption
<1>2. setup.cache \in BOOLEAN /\ Plan \in Seq(Operation)
  BY <1>1 DEF Plan
<1>3. Len(Plan) \in Nat \ {0} /\ \A i \in 1 .. Len(Plan) : Plan[i].start + Plan[i].len < Word
  BY <1>2, SetupsAssumption DEF Plan
<1>4. \A i \in 1 .. Len(Plan) : Plan[i] \in Operation
  BY <1>2
<1>5. \A i \in 1 .. Len(Plan) : Plan[i].start \in Nat /\ Plan[i].len \in Nat
  BY <1>4 DEF Operation
<1> QED BY <1>2, <1>3, <1>4, <1>5

(* What is left of the area behind a sector, as the code computes it.       *)
LEMMA RemainingIs ==
  ASSUME NEW start \in 0 .. Word - 1
  PROVE  Remaining(start) = IF start <= AreaStart + AreaLength
                            THEN AreaStart + AreaLength - start
                            ELSE AreaStart + AreaLength - start + Word
<1>1. /\ AreaStart \in Nat /\ AreaLength \in Nat \ {0} /\ DeviceLength \in Nat /\ Word \in Nat
      /\ AreaStart + AreaLength <= DeviceLength /\ DeviceLength < Word
  BY LengthAssumption
<1>2. \A x \in 0 .. Word - 1 : x % Word = x
  BY <1>1
<1>3. \A x \in Int : x < 0 /\ x >= -Word => x % Word = x + Word
  BY <1>1
<1>4. CASE start <= AreaStart + AreaLength
  BY <1>1, <1>2, <1>4 DEF Remaining
<1>5. CASE start > AreaStart + AreaLength
  BY <1>1, <1>3, <1>5 DEF Remaining
<1> QED BY <1>1, <1>4, <1>5

(* A request that is not refused is cut off at the end of the area.         *)
LEMMA PagesInArea ==
  ASSUME setup \in Setups, NEW i \in 1 .. Len(Plan)
  PROVE  /\ PagesOf(i) \subseteq Area /\ Area \subseteq Device
         /\ \A n \in 0 .. Cardinality(PagesOf(i)) :
              Plan[i].start .. Plan[i].start + n - 1 \subseteq PagesOf(i)
<1> DEFINE r == Plan[i]
           last == r.start + Length(r) - 1
<1>1. /\ AreaStart \in Nat /\ AreaLength \in Nat \ {0} /\ DeviceLength \in Nat /\ Word \in Nat
      /\ AreaStart + AreaLength <= DeviceLength /\ DeviceLength < Word
  BY LengthAssumption
<1>2. r.start \in Nat /\ r.len \in Nat /\ r.start + r.len < Word
  BY PlanType
<1>3. Remaining(r.start) = IF r.start <= AreaStart + AreaLength
                           THEN AreaStart + AreaLength - r.start
                           ELSE AreaStart + AreaLength - r.start + Word
  BY <1>1, <1>2, RemainingIs
<1>4. ~Refused(r) => /\ r.start >= AreaStart /\ Length(r) \in Nat
                     /\ r.start + Length(r) <= AreaStart + AreaLength
  BY <1>1, <1>2, <1>3 DEF Refused, Length
<1>5. PagesOf(i) = {} \/ (~Refused(r) /\ PagesOf(i) = r.start .. last)
  BY DEF PagesOf
<1>6. Area \subseteq Device
  BY <1>1 DEF Area, Device
<1>7. CASE PagesOf(i) = {}
  <2>1. Cardinality(PagesOf(i)) = 0
    BY <1>7, FS_EmptySet
  <2>2. r.start .. r.start + 0 - 1 = {}
    BY <1>2
  <2>3. \A n \in 0 .. Cardinality(PagesOf(i)) : r.start .. r.start + n - 1 \subseteq PagesOf(i)
    BY <2>1, <2>2
  <2> QED BY <1>6, <1>7, <2>3
<1>8. CASE ~Refused(r) /\ PagesOf(i) = r.start .. last
  <2>1. Length(r) \in Nat /\ r.start >= AreaStart /\ r.start + Length(r) <= AreaStart + AreaLength
    BY <1>4, <1>8
  <2>2. Cardinality(r.start .. last) = Length(r)
    <3>1. PICK a \in Int, b \in Int : a = r.start /\ b = last
      BY <1>2, <2>1
    <3>2. Cardinality(a .. b) = IF a > b THEN 0 ELSE b - a + 1
      BY FS_Interval
    <3>3. b = a + Length(r) - 1
      BY <3>1
    <3> HIDE DEF last
    <3> QED BY <2>1, <3>1, <3>2, <3>3
  <2>3. Cardinality(PagesOf(i)) = Length(r)
    BY <1>8, <2>2
  <2>4. \A n \in 0 .. Length(r) : r.start .. r.start + n - 1 \subseteq r.start .. last
    BY <1>2, <2>1
  <2>5. r.start .. last \subseteq Area
    BY <1>1, <1>2, <2>1 DEF Area
  <2> QED BY <1>6, <1>8, <2>3, <2>4, <2>5
<1> QED BY <1>5, <1>7, <1>8

-------------------------------------------------------------------------------
\* Where a request is, and what it is, go together.
Fits(place, op) ==
  /\ place = "issue" => op \in {"write", "commit", "erase"}
  /\ place = "write" => op \in {"write", "commit"}
  /\ place = "erase" => op = "erase"
  /\ place = "feature" => op = "write"
  /\ place \in {"flush1", "flush2"} => op = "commit"
  /\ place = "read" => op = "read"

Control ==
  /\ setup \in Setups
  /\ answers \in Seq(Results)
  /\ pc \in Places /\ asker \in Askers \cup {"none"}
  /\ asker # "none" <=> pc = "ask"
  /\ tries \in 1 .. RWRETRY /\ polls \in 1 .. Polls
  /\ pc # "ask" => polls = Polls
  /\ pc = "stopped" => answers # <<>> /\ Len(answers) <= Len(Plan)
  /\ pc # "stopped" => Current <= Len(Plan) /\ \A i \in DOMAIN answers : answers[i] = "ok"
  /\ Fits(Where, Op(Current))

\* What the driver and the failures to come may be.
Driver ==
  /\ require \in BOOLEAN /\ power \in BOOLEAN
  /\ driver \in DriverType
  /\ misses \in 0 .. MaxMisses
  /\ cutIn \in {"none", "between"} \cup Askers \cup {"erase"}

(* The first request is begun.                                              *)
LEMMA InitControl == Init => Control /\ Driver
<1>1. SUFFICES ASSUME Init PROVE Control /\ Driver
  OBVIOUS
<1>2. setup \in Setups /\ Len(Plan) \in Nat \ {0} /\ Current = 1
  BY <1>1, PlanType DEF Init, Current
<1>3. Control
  BY <1>1, <1>2, RetryAssumption DEF Init, Control, Fits, Places, Askers, Where
<1>4. Driver
  <2>1. driver = [told |-> FALSE, phase |-> "NONE", says |-> "nothing", lsn |-> 0]
    BY <1>1 DEF Init
  <2>2. driver \in DriverType
    BY <2>1 DEF DriverType, Phases
  <2>3. require \in BOOLEAN /\ power \in BOOLEAN /\ cutIn = "none"
    BY <1>1 DEF Init
  <2>4. misses \in 0 .. MaxMisses
    BY <1>1, BoundAssumption DEF Init
  <2> QED BY <2>2, <2>3, <2>4 DEF Driver
<1> QED BY <1>3, <1>4

(* A request that returns is the last, or the next one begins.              *)
LEMMA ReturnControl ==
  ASSUME Control, pc \notin {"stopped", "killed"}, setup' = setup,
         NEW answer \in Results, Return(answer)
  PROVE  /\ Control' /\ Current' = Current + 1 /\ Len(answers') = Current
         /\ answers'[Current] = answer /\ pc' \in {"begin", "stopped"}
<1>1. /\ answers' = Append(answers, answer) /\ answers \in Seq(Results)
      /\ Len(answers) \in Nat /\ Current = Len(answers) + 1
      /\ Len(Plan) \in Nat /\ Current <= Len(Plan) /\ \A i \in DOMAIN answers : answers[i] = "ok"
  BY PlanType DEF Return, Control, Current
<1>2. /\ answers' \in Seq(Results) /\ Len(answers') = Current
      /\ Current' = Current + 1 /\ answers'[Current] = answer /\ answers' # <<>>
      /\ \A i \in 1 .. Current - 1 : answers'[i] = "ok"
  BY <1>1 DEF Current
<1>3. /\ pc' = IF answer = "ok" /\ Current < Len(Plan) THEN "begin" ELSE "stopped"
      /\ asker' = "none" /\ tries' = RWRETRY /\ polls' = Polls
  BY DEF Return
<1>4. Where' = pc'
  BY <1>3 DEF Where
<1>5. pc' # "stopped" => \A i \in DOMAIN answers' : answers'[i] = "ok"
  BY <1>2, <1>3
<1>6. Control'
  BY <1>1, <1>2, <1>3, <1>4, <1>5, SamePlan, RetryAssumption DEF Control, Fits, Places
<1> QED BY <1>2, <1>3, <1>6

(* A request that goes on to another step.                                  *)
LEMMA GotoControl ==
  ASSUME Control, pc \notin {"stopped", "ask"}, setup' = setup,
         NEW place \in Places \ {"stopped", "ask"}, Goto(place), Fits(place, Op(Current))
  PROVE  Control' /\ Where' = place /\ Current' = Current
<1>1. /\ pc' = place /\ answers' = answers /\ tries' = tries
      /\ asker' = asker /\ polls' = polls
  BY DEF Goto, asking
<1>2. asker = "none"
  BY DEF Control
<1>3. Where' = place /\ Current' = Current
  BY <1>1 DEF Where, Current
<1>4. Op(Current)' = Op(Current)
  BY <1>3, SamePlan
<1>5. Fits(Where, Op(Current))'
  BY <1>3, <1>4 DEF Fits
<1> QED BY <1>1, <1>2, <1>3, <1>5, SamePlan DEF Control

(* A step that failed, and has the driver asked.                            *)
LEMMA AskControl ==
  ASSUME Control, pc \in Askers, setup' = setup, Ask(pc)
  PROVE  Control' /\ pc' = "ask" /\ Where' = Where /\ Current' = Current /\ polls' = polls
<1>1. /\ pc' = "ask" /\ asker' = pc /\ answers' = answers /\ tries' = tries /\ polls' = polls
  BY DEF Ask
<1>2. pc # "stopped" /\ pc # "ask"
  BY DEF Askers
<1>3. Where' = Where /\ Current' = Current
  BY <1>1, <1>2 DEF Where, Current
<1>4. Op(Current)' = Op(Current)
  BY <1>3, SamePlan
<1>5. Fits(Where, Op(Current))'
  BY <1>3, <1>4 DEF Control, Fits
<1>6. asker' # "none" /\ asker' \in Askers /\ pc' \in Places
  BY <1>1 DEF Askers, Places
<1> QED BY <1>1, <1>2, <1>3, <1>5, <1>6, SamePlan DEF Control

(* Another attempt at the step that failed, or the end of the request.      *)
LEMMA GiveUpControl ==
  ASSUME Control, pc = "ask", setup' = setup, GiveUp
  PROVE  /\ Control'
         /\ answers' = answers => Where' = Where /\ Current' = Current
         /\ \/ pc' = asker /\ asker \in {"write", "read"} /\ answers' = answers
            \/ Return("error")
<1>1. CASE asker \in {"write", "read"} /\ tries > 1
  <2>1. /\ pc' = asker /\ asker' = "none" /\ polls' = Polls /\ tries' = tries - 1
        /\ answers' = answers
    BY <1>1 DEF GiveUp
  <2>2. Where' = Where /\ Current' = Current
    BY <1>1, <2>1 DEF Where, Current
  <2>3. Op(Current)' = Op(Current)
    BY <2>2, SamePlan
  <2>4. Fits(Where, Op(Current))'
    BY <2>2, <2>3 DEF Control, Fits
  <2>5. pc' \in Places /\ pc' # "ask" /\ pc' # "stopped" /\ asker' \in Askers \cup {"none"}
    BY <1>1, <2>1 DEF Places
  <2>6. tries' \in 1 .. RWRETRY /\ polls' \in 1 .. Polls
    BY <1>1, <2>1, RetryAssumption DEF Control
  <2>7. Control'
    BY <2>1, <2>2, <2>4, <2>5, <2>6, SamePlan DEF Control
  <2> QED BY <1>1, <2>1, <2>2, <2>7
<1>2. CASE ~(asker \in {"write", "read"} /\ tries > 1)
  <2>1. Return("error")
    BY <1>2 DEF GiveUp
  <2>2. Control' /\ Len(answers') = Current /\ Current = Len(answers) + 1 /\ Len(answers) \in Nat
    BY <2>1, ReturnControl DEF Results, Control, Current
  <2> QED BY <2>1, <2>2
<1> QED BY <1>1, <1>2

-------------------------------------------------------------------------------
(* What telling the driver does to what it says: it never invents a cut.    *)
LEMMA WrittenIs ==
  ASSUME driver \in DriverType, misses \in 0 .. MaxMisses,
         NEW told \in BOOLEAN, NEW phase \in Phases, Written(told, phase)
  PROVE  /\ driver' \in DriverType /\ misses' \in 0 .. MaxMisses /\ misses' <= misses
         /\ driver'.lsn = driver.lsn
         /\ driver'.says = driver.says \/ driver'.says = "nothing"
         /\ misses' = misses => driver'.told = told /\ driver'.says # "cut"
<1>1. MaxMisses \in Nat
  BY BoundAssumption
<1>2. CASE misses > 0 /\ misses' = misses - 1 /\ UNCHANGED driver
  BY <1>1, <1>2
<1>3. CASE /\ driver' = [driver EXCEPT !.told = told, !.phase = phase,
                                      !.says = IF @ = "cut" THEN "nothing" ELSE @]
           /\ UNCHANGED misses
  <2>1. driver' \in DriverType
    BY <1>3 DEF DriverType
  <2>2. /\ driver'.told = told /\ driver'.lsn = driver.lsn
        /\ driver'.says = IF driver.says = "cut" THEN "nothing" ELSE driver.says
    BY <1>3 DEF DriverType
  <2> QED BY <1>1, <1>3, <2>1, <2>2
<1> QED BY <1>2, <1>3 DEF Written

(* And so with every request that may be the one to be cut.                 *)
LEMMA ProcessingIs ==
  ASSUME Driver, poweroff_processing
  PROVE  /\ driver' \in DriverType /\ misses' \in 0 .. MaxMisses /\ misses' <= misses
         /\ require' \in BOOLEAN /\ driver'.lsn = driver.lsn
         /\ driver'.says = driver.says \/ driver'.says = "nothing"
<1>1. driver \in DriverType /\ misses \in 0 .. MaxMisses /\ require \in BOOLEAN /\ MaxMisses \in Nat
  BY BoundAssumption DEF Driver
<1>2. CASE UNCHANGED <<require, driver, misses>>
  BY <1>1, <1>2
<1>3. CASE require' = TRUE /\ \E phase \in select_poweroff_phase : Written(TRUE, phase)
  <2>1. select_poweroff_phase \subseteq Phases
    BY DEF select_poweroff_phase, random_ratio_poweroff_phase, Phases
  <2>2. PICK phase \in Phases : Written(TRUE, phase)
    BY <1>3, <2>1
  <2> QED BY <1>1, <1>3, <2>2, WrittenIs
<1> QED BY <1>2, <1>3 DEF poweroff_processing

-------------------------------------------------------------------------------
\* The sector of the request the device was sent last, but for the one in progress.
Behind(i) == \A j \in i + 1 .. Current - 1 : PagesOf(j) = {}

Loc(lsn) ==
  \/ \E i \in 1 .. Current : PagesOf(i) # {} /\ lsn = Plan[i].start /\ Behind(i)
  \/ lsn = 0 /\ Behind(0)

(* Of a finite number of requests one is the last.                          *)
LEMMA LastOne ==
  ASSUME NEW n \in Nat, NEW S \in SUBSET (1 .. n), S # {}
  PROVE  \E i \in S : \A j \in S : j <= i
<1> DEFINE T == {n - i : i \in S}
<1>1. T \subseteq Nat /\ T # {}
  <2>1. \A i \in S : n - i \in Nat
    OBVIOUS
  <2>2. PICK k \in S : TRUE
    OBVIOUS
  <2>3. n - k \in T
    BY <2>2
  <2> QED BY <2>1, <2>3
<1>2. \E x \in T : \A y \in T : ~ (<<y, x>> \in OpToRel(<, Nat))
  <2> HIDE DEF T
  <2> QED BY <1>1, NatLessThanWellFounded, WFMin, Zenon
<1>3. \A x, y \in Nat : x < y => <<x, y>> \in OpToRel(<, Nat)
  BY DEF OpToRel
<1>4. PICK x \in T : \A y \in T : ~ (y < x)
  <2> HIDE DEF T
  <2> QED BY <1>1, <1>2, <1>3, Zenon
<1>5. PICK i \in S : x = n - i
  OBVIOUS
<1>6. \A j \in S : ~ (n - j < n - i)
  BY <1>4, <1>5
<1> QED BY <1>5, <1>6

(* Where the driver finds the device at work is such a sector.              *)
LEMMA LastSectorIs ==
  ASSUME Current \in Nat
  PROVE  Loc(LastSector)
<1>1. CASE Sent = {}
  <2>1. LastSector = 0
    BY <1>1 DEF LastSector
  <2>2. \A j \in 1 .. Current - 1 : PagesOf(j) = {}
    BY <1>1 DEF Sent
  <2> QED BY <2>1, <2>2 DEF Loc, Behind
<1>2. CASE Sent # {}
  <2>1. Sent \in SUBSET (1 .. Current)
    BY DEF Sent
  <2>2. \E i \in Sent : \A j \in Sent : j <= i
    BY <1>2, <2>1, LastOne
  <2>3. PICK i \in Sent : LastSector = Plan[i].start /\ \A j \in Sent : j <= i
    BY <1>2, <2>2 DEF LastSector
  <2>4. i \in 1 .. Current /\ PagesOf(i) # {}
    BY DEF Sent
  <2>5. \A j \in i + 1 .. Current - 1 : PagesOf(j) = {}
    <3>1. SUFFICES ASSUME NEW j \in i + 1 .. Current - 1, PagesOf(j) # {} PROVE FALSE
      OBVIOUS
    <3>2. j \in Sent
      BY <2>4, <3>1 DEF Sent
    <3> QED BY <2>3, <2>4, <3>2
  <2> QED BY <2>3, <2>4, <2>5 DEF Loc, Behind
<1> QED BY <1>1, <1>2

(* It is a sector number.                                                   *)
LEMMA LocType ==
  ASSUME setup \in Setups, Current \in Nat, Current <= Len(Plan), NEW lsn, Loc(lsn)
  PROVE  lsn \in Nat
<1>1. Len(Plan) \in Nat /\ \A i \in 1 .. Len(Plan) : Plan[i].start \in Nat
  BY PlanType
<1> QED BY <1>1 DEF Loc

-------------------------------------------------------------------------------
(* Every step keeps the request and the driver together.                    *)
LEMMA ControlStep ==
  ASSUME Control, Driver, Next
  PROVE  Control' /\ Driver' /\ setup' = setup /\ misses' <= misses
<1>1. /\ setup \in Setups /\ Len(Plan) \in Nat /\ Len(answers) \in Nat /\ MaxMisses \in Nat
      /\ Current \in Nat
  BY PlanType, BoundAssumption DEF Control, Current
<1>2. /\ require \in BOOLEAN /\ power \in BOOLEAN /\ driver \in DriverType
      /\ misses \in 0 .. MaxMisses
      /\ cutIn \in {"none", "between"} \cup Askers \cup {"erase"}
  BY DEF Driver
<1> DEFINE Same == UNCHANGED <<require, power, driver, misses, cutIn>>
           Goal == Control' /\ Driver' /\ setup' = setup /\ misses' <= misses
<1>3. ASSUME Control', setup' = setup, Same
      PROVE  Goal
  BY <1>1, <1>2, <1>3 DEF Driver
<1>4. CASE StartWriting
  <2>1. pc = "start" /\ setup' = setup /\ Same
    BY <1>4 DEF StartWriting, device
  <2>2. Goto("killed") \/ Goto("begin")
    BY <1>4 DEF StartWriting
  <2>3. Control'
    BY <2>1, <2>2, GotoControl DEF Places, Fits
  <2> QED BY <1>3, <2>1, <2>3
<1>5. CASE Begin
  <2>1. pc = "begin" /\ setup' = setup /\ UNCHANGED device
    BY <1>5 DEF Begin
  <2>2. power' = power /\ cutIn' = cutIn
    BY <2>1 DEF device
  <2>3. \E place \in {"issue", "flush1", "read", "feature"} :
           Goto(place) /\ Fits(place, Op(Current))
    BY <1>5 DEF Begin, Fits
  <2>4. Control'
    BY <2>1, <2>3, GotoControl DEF Places
  <2>5. UNCHANGED <<require, driver, misses>> \/ poweroff_processing
    BY <1>5 DEF Begin
  <2>6. CASE UNCHANGED <<require, driver, misses>>
    BY <1>3, <2>1, <2>2, <2>4, <2>6
  <2>7. CASE poweroff_processing
    BY <1>1, <1>2, <2>1, <2>2, <2>4, <2>7, ProcessingIs DEF Driver
  <2> QED BY <2>5, <2>6, <2>7
<1>6. CASE Repeat
  <2>1. /\ pc = "begin" /\ setup' = setup /\ power' = power /\ cutIn' = cutIn
        /\ require' = require /\ Written(FALSE, "NONE") /\ Return("ok")
    BY <1>6 DEF Repeat, device
  <2>2. Control'
    BY <2>1, ReturnControl DEF Results
  <2>3. driver' \in DriverType /\ misses' \in 0 .. MaxMisses /\ misses' <= misses
    BY <1>2, <2>1, WrittenIs DEF Phases
  <2> QED BY <1>2, <2>1, <2>2, <2>3 DEF Driver
<1>7. CASE Issue
  <2>1. pc = "issue" /\ setup' = setup /\ power' = power /\ cutIn' = cutIn
    BY <1>7 DEF Issue, device
  <2>2. CASE Refused(Request)
    <3>1. Return("error") /\ Same
      BY <1>7, <2>1, <2>2 DEF Issue
    <3>2. Control'
      BY <2>1, <3>1, ReturnControl DEF Results
    <3> QED BY <1>3, <2>1, <3>1, <3>2
  <2>3. CASE ~Refused(Request)
    <3>1. /\ poweroff_processing
          /\ Goto(IF Op(Current) = "erase" THEN "erase" ELSE "write")
      BY <1>7, <2>3 DEF Issue
    <3>2. Op(Current) \in {"write", "commit", "erase"}
      BY <2>1 DEF Control, Fits, Where
    <3>3. \E place \in {"erase", "write"} : Goto(place) /\ Fits(place, Op(Current))
      BY <3>1, <3>2 DEF Fits
    <3>4. Control'
      BY <2>1, <3>3, GotoControl DEF Places
    <3> QED BY <1>1, <1>2, <2>1, <3>1, <3>4, ProcessingIs DEF Driver
  <2> QED BY <2>2, <2>3
<1>8. CASE Done
  <2>1. pc \in {"write", "erase"} /\ setup' = setup /\ Same
    BY <1>8 DEF Done
  <2>2. (Op(Current) = "commit" /\ Goto("flush2")) \/ Return("ok")
    BY <1>8 DEF Done
  <2>3. Control'
    BY <2>1, <2>2, GotoControl, ReturnControl DEF Places, Results, Fits
  <2> QED BY <1>3, <2>1, <2>3
<1>9. CASE Fails
  <2>1. pc \in {"write", "erase"} /\ setup' = setup /\ Same
    BY <1>9 DEF Fails
  <2>2. Return("error") \/ (pc = "write" /\ Ask(pc))
    BY <1>9, <2>1 DEF Fails
  <2>3. Control'
    BY <2>1, <2>2, AskControl, ReturnControl DEF Askers, Results
  <2> QED BY <1>3, <2>1, <2>3
<1>10. CASE Flushed
  <2>1. pc \in {"feature", "flush1", "flush2"} /\ setup' = setup /\ Same
    BY <1>10 DEF Flushed
  <2>2. Return("ok") \/ (pc # "flush2" /\ Goto("issue"))
    BY <1>10 DEF Flushed
  <2>3. Fits(pc, Op(Current))
    BY <2>1 DEF Control, Where
  <2>4. Control'
    BY <2>1, <2>2, <2>3, GotoControl, ReturnControl DEF Places, Results, Fits
  <2> QED BY <1>3, <2>1, <2>4
<1>11. CASE FlushFails
  <2>1. pc \in {"feature", "flush1", "flush2"} /\ setup' = setup /\ Same /\ Ask(pc)
    BY <1>11 DEF FlushFails, device
  <2>2. Control'
    BY <2>1, AskControl DEF Askers
  <2> QED BY <1>3, <2>1, <2>2
<1>12. CASE ReadDone
  <2>1. pc = "read" /\ setup' = setup /\ Same /\ Return("ok")
    BY <1>12 DEF ReadDone, device
  <2>2. Control'
    BY <2>1, ReturnControl DEF Results
  <2> QED BY <1>3, <2>1, <2>2
<1>13. CASE ReadFails
  <2>1. pc = "read" /\ setup' = setup /\ Same /\ Ask(pc)
    BY <1>13 DEF ReadFails, device
  <2>2. Control'
    BY <2>1, AskControl DEF Askers
  <2> QED BY <1>3, <2>1, <2>2
<1>14. CASE Seen
  <2>1. pc = "ask" /\ setup' = setup /\ require' = require /\ cutIn' = cutIn
    BY <1>14 DEF Seen
  <2>2. CASE asker = "read"
    <3>1. GiveUp /\ Written(FALSE, driver.phase) /\ power' = TRUE
      BY <1>14, <2>2 DEF Seen
    <3>2. Control'
      BY <2>1, <3>1, GiveUpControl
    <3>3. driver.phase \in Phases
      BY <1>2 DEF DriverType
    <3> QED BY <1>2, <2>1, <3>1, <3>2, <3>3, WrittenIs DEF Driver
  <2>3. CASE asker # "read"
    <3>1. Return("cut") /\ Same
      BY <1>14, <2>1, <2>3 DEF Seen
    <3>2. Control'
      BY <2>1, <3>1, ReturnControl DEF Results
    <3> QED BY <1>3, <2>1, <3>1, <3>2
  <2> QED BY <2>2, <2>3
<1>15. CASE Unseen
  <2>1. /\ pc = "ask" /\ setup' = setup /\ require' = require /\ cutIn' = cutIn
        /\ power' = power /\ misses' = misses
    BY <1>15 DEF Unseen, device
  <2>2. driver' = [driver EXCEPT !.says = IF @ = "late" THEN "cut" ELSE @]
    BY <1>15 DEF Unseen
  <2>3. driver' \in DriverType
    BY <1>2, <2>2 DEF DriverType
  <2>4. Driver' /\ misses' <= misses
    BY <1>1, <1>2, <2>1, <2>3 DEF Driver
  <2>5. CASE polls > 1
    <3>1. polls' = polls - 1 /\ UNCHANGED <<answers, pc, asker, tries>>
      BY <1>15, <2>5 DEF Unseen
    <3>2. polls' \in 1 .. Polls
      BY <2>5, <3>1, RetryAssumption DEF Control
    <3>3. Where' = Where /\ Current' = Current
      BY <3>1 DEF Where, Current
    <3>4. Op(Current)' = Op(Current)
      BY <2>1, <3>3, SamePlan
    <3>5. Control'
      BY <2>1, <3>1, <3>2, <3>3, <3>4, SamePlan DEF Control, Fits
    <3> QED BY <2>1, <2>4, <3>5
  <2>6. CASE ~(polls > 1)
    <3>1. GiveUp
      BY <1>15, <2>6 DEF Unseen
    <3> QED BY <2>1, <2>4, <3>1, GiveUpControl
  <2> QED BY <2>5, <2>6
<1>16. CASE Unanswered
  <2>1. /\ pc = "ask" /\ setup' = setup /\ require' = require /\ cutIn' = cutIn
        /\ power' = power /\ driver' = driver /\ misses > 0 /\ misses' = misses - 1
    BY <1>16 DEF Unanswered, device
  <2>2. GiveUp \/ Return("cut")
    BY <1>16 DEF Unanswered
  <2>3. Control'
    BY <2>1, <2>2, GiveUpControl, ReturnControl DEF Results
  <2> QED BY <1>1, <1>2, <2>1, <2>3 DEF Driver
<1>17. CASE Cut
  <2>1. /\ pc \notin {"start", "stopped", "killed"}
        /\ UNCHANGED <<setup, answers, pc, asker, polls, tries, require, misses>>
        /\ power' = FALSE
    BY <1>17 DEF Cut, asking
  <2>2. Where' = Where /\ Current' = Current
    BY <2>1 DEF Where, Current
  <2>3. Op(Current)' = Op(Current)
    BY <2>1, <2>2, SamePlan
  <2>4. Control'
    BY <2>1, <2>2, <2>3, SamePlan DEF Control, Fits
  <2>5. LastSector \in Nat
    BY <1>1, <2>1, LastSectorIs, LocType DEF Control
  <2>6. PICK says \in {"cut", "late"} :
           driver' = [driver EXCEPT !.told = FALSE, !.says = says, !.lsn = LastSector]
    BY <1>17 DEF Cut
  <2>7. driver' \in DriverType
    <3>1. PICK sector \in Nat : sector = LastSector
      BY <2>5
    <3>2. driver' = [driver EXCEPT !.told = FALSE, !.says = says, !.lsn = sector]
      BY <2>6, <3>1
    <3> QED BY <1>2, <3>2 DEF DriverType
  <2>8. cutIn' = IF pc \in {"begin", "issue", "ask"} THEN "between" ELSE pc
    BY <1>17 DEF Cut
  <2>9. cutIn' \in {"none", "between"} \cup Askers \cup {"erase"}
    BY <2>1, <2>8 DEF Control, Places, Askers
  <2>10. Driver'
    BY <1>2, <2>1, <2>7, <2>9 DEF Driver
  <2> QED BY <1>1, <1>2, <2>1, <2>4, <2>10
<1>18. CASE Stopped
  <2>1. /\ UNCHANGED <<setup, answers, pc, asker, polls, tries>>
        /\ Same
    BY <1>18 DEF Stopped, vars
  <2>2. Where' = Where /\ Current' = Current
    BY <2>1 DEF Where, Current
  <2>3. Op(Current)' = Op(Current)
    BY <2>1, <2>2, SamePlan
  <2>4. Control'
    BY <2>1, <2>2, <2>3, SamePlan DEF Control, Fits
  <2> QED BY <1>3, <2>1, <2>4
<1> QED
  BY <1>4, <1>5, <1>6, <1>7, <1>8, <1>9, <1>10, <1>11, <1>12, <1>13, <1>14, <1>15,
     <1>16, <1>17, <1>18 DEF Next, Program

-------------------------------------------------------------------------------
\* What is on a page is the number of a request, and only pages of the area are used.
Stored ==
  /\ cache \in Numbers /\ medium \in Numbers
  /\ \A lsn \in Device \ Area : cache[lsn] = 0 /\ medium[lsn] = 0
  /\ ~setup.cache => cache = None

\* A commit meets nothing of another request in the cache, and is flushed when it is there.
Barrier ==
  /\ Where \in {"issue", "write", "flush2"} /\ Op(Current) = "commit" =>
       \A lsn \in Device : cache[lsn] \in {0, Current}
  /\ Where = "flush2" /\ power => \A lsn \in PagesOf(Current) : cache[lsn] = Current

(* Pages of the request in progress are put on pages of the area.           *)
LEMMA PutStored ==
  ASSUME Control, Stored, pc # "stopped", setup' = setup,
         NEW pages \in SUBSET PagesOf(Current), Put(pages)
  PROVE  /\ Stored'
         /\ setup.cache => /\ medium' = medium
                           /\ cache' = [lsn \in Device |->
                                          IF lsn \in pages THEN Current ELSE cache[lsn]]
         /\ ~setup.cache => /\ cache' = cache
                            /\ medium' = [lsn \in Device |->
                                            IF lsn \in pages THEN Current ELSE medium[lsn]]
<1>1. /\ setup \in Setups /\ Current \in 1 .. Len(Plan) /\ Len(Plan) \in Nat
      /\ setup.cache \in BOOLEAN
  BY PlanType DEF Control, Current
<1>2. pages \subseteq Area /\ Area \subseteq Device
  BY <1>1, PagesInArea
<1>3. PICK k \in 1 .. Len(Plan) : k = Current
  BY <1>1
<1>4. ASSUME NEW where \in Numbers, NEW over,
             over = [lsn \in Device |-> IF lsn \in pages THEN k ELSE where[lsn]]
      PROVE  /\ over \in Numbers
             /\ (\A lsn \in Device \ Area : where[lsn] = 0) =>
                  \A lsn \in Device \ Area : over[lsn] = 0
  BY <1>1, <1>2, <1>4 DEF Numbers
<1>5. Numbers' = Numbers
  BY SamePlan
<1>6. CASE setup.cache
  <2>1. /\ medium' = medium
        /\ cache' = [lsn \in Device |-> IF lsn \in pages THEN k ELSE cache[lsn]]
    BY <1>3, <1>6 DEF Put
  <2>2. Stored'
    BY <1>4, <1>5, <1>6, <2>1 DEF Stored
  <2> QED BY <1>3, <1>6, <2>1, <2>2
<1>7. CASE ~setup.cache
  <2>1. /\ cache' = cache
        /\ medium' = [lsn \in Device |-> IF lsn \in pages THEN k ELSE medium[lsn]]
    BY <1>3, <1>7 DEF Put
  <2>2. Stored'
    BY <1>4, <1>5, <1>7, <2>1 DEF Stored
  <2> QED BY <1>3, <1>7, <2>1, <2>2
<1> QED BY <1>1, <1>6, <1>7

(* Of the cache something is written back, all of it or what a cut leaves.  *)
LEMMA BackStored ==
  ASSUME setup \in Setups, Stored, setup' = setup, cache' = None, NEW pages,
         medium' = [lsn \in Device |-> IF lsn \in pages THEN cache[lsn] ELSE medium[lsn]]
  PROVE  Stored'
<1>1. Len(Plan) \in Nat
  BY PlanType
<1>2. cache' \in Numbers /\ medium' \in Numbers
  BY <1>1 DEF Stored, Numbers, None
<1>3. \A lsn \in Device \ Area : cache'[lsn] = 0 /\ medium'[lsn] = 0
  BY DEF Stored, None
<1> QED BY <1>2, <1>3, SamePlan DEF Stored, None

(* What is on the pages stays in the area.                                  *)
LEMMA StoredStep ==
  ASSUME Control, Driver, Stored, Next
  PROVE  Stored'
<1>1. /\ setup' = setup /\ setup \in Setups /\ Current \in Nat
      /\ pc # "stopped" => Current \in 1 .. Len(Plan)
  BY ControlStep, PlanType DEF Control, Current
<1>2. ASSUME UNCHANGED <<cache, medium>>
      PROVE  Stored'
  BY <1>1, <1>2, SamePlan DEF Stored
<1>3. CASE Done
  BY <1>1, <1>3, PutStored DEF Done
<1>4. CASE Fails
  <2>1. PICK n \in 0 .. Cardinality(PagesOf(Current)) : Put(Request.start .. Request.start + n - 1)
    BY <1>4 DEF Fails
  <2>2. pc # "stopped"
    BY <1>4 DEF Fails
  <2>3. Request.start .. Request.start + n - 1 \subseteq PagesOf(Current)
    BY <1>1, <2>2, PagesInArea DEF Request
  <2> QED BY <1>1, <2>1, <2>2, <2>3, PutStored
<1>5. CASE Flushed
  <2>1. /\ medium' = [lsn \in Device |-> IF cache[lsn] # 0 THEN cache[lsn] ELSE medium[lsn]]
        /\ cache' = None
    BY <1>5 DEF Flushed
  <2> DEFINE held == {lsn \in Device : cache[lsn] # 0}
  <2>2. medium' = [lsn \in Device |-> IF lsn \in held THEN cache[lsn] ELSE medium[lsn]]
    BY <2>1
  <2> HIDE DEF held
  <2> QED BY <1>1, <2>1, <2>2, BackStored
<1>6. CASE Cut
  BY <1>1, <1>6, BackStored DEF Cut
<1>7. CASE StartWriting \/ Begin \/ Repeat \/ Issue
  BY <1>2, <1>7 DEF StartWriting, Begin, Repeat, Issue, device
<1>8. CASE FlushFails \/ ReadDone \/ ReadFails
  BY <1>2, <1>8 DEF FlushFails, ReadDone, ReadFails, device
<1>9. CASE Seen \/ Unseen \/ Unanswered
  BY <1>2, <1>9 DEF Seen, Unseen, Unanswered, device
<1>10. CASE Stopped
  BY <1>2, <1>10 DEF Stopped, vars
<1> QED
  BY <1>3, <1>4, <1>5, <1>6, <1>7, <1>8, <1>9, <1>10 DEF Next, Program

(* A request that returned is in none of its steps.                         *)
LEMMA ReturnWhere ==
  ASSUME NEW answer, Return(answer)
  PROVE  Where' \in {"begin", "stopped"} /\ Where' = pc'
BY DEF Return, Where

(* Between what a commit flushes and its own pages nothing gets in.         *)
LEMMA BarrierStep ==
  ASSUME Control, Driver, Stored, Barrier, Next
  PROVE  Barrier'
<1>1. /\ setup' = setup /\ setup \in Setups /\ Current \in Nat /\ setup.cache \in BOOLEAN
      /\ pc # "stopped" => Current \in 1 .. Len(Plan)
  BY ControlStep, PlanType DEF Control, Current
<1>2. ASSUME Where' \notin {"issue", "write", "flush2"} PROVE Barrier'
  BY <1>2 DEF Barrier
<1>3. ASSUME NEW answer, Return(answer) PROVE Barrier'
  BY <1>2, <1>3, ReturnWhere
<1>4. ASSUME Current' = Current
      PROVE  Op(Current)' = Op(Current) /\ PagesOf(Current)' = PagesOf(Current)
  BY <1>1, <1>4, SamePlan
<1>5. ASSUME Where' = Where, Current' = Current, cache' = cache, power' = power
      PROVE  Barrier'
  BY <1>4, <1>5 DEF Barrier
<1>6. CASE StartWriting
  <2>1. Where' \in {"killed", "begin"}
    BY <1>6 DEF StartWriting, Goto, Where
  <2> QED BY <1>2, <2>1
<1>7. CASE Begin
  <2>1. pc = "begin" /\ pc # "stopped" /\ pc # "ask"
    BY <1>7 DEF Begin
  <2>2. CASE \E place \in {"flush1", "read", "feature"} : Goto(place)
    <3>1. Where' \in {"flush1", "read", "feature"}
      BY <2>2 DEF Goto, Where
    <3> QED BY <1>2, <3>1
  <2>3. CASE Goto("issue") /\ Op(Current) \in {"write", "erase"}
    <3>1. Where' = "issue" /\ Current' = Current
      BY <2>3 DEF Goto, Where, Current
    <3> QED BY <1>4, <2>3, <3>1 DEF Barrier
  <2>4. \/ \E place \in {"flush1", "read", "feature"} : Goto(place)
        \/ Goto("issue") /\ Op(Current) \in {"write", "erase"}
    BY <1>7 DEF Begin
  <2> QED BY <2>2, <2>3, <2>4
<1>8. CASE Repeat
  BY <1>3, <1>8 DEF Repeat
<1>9. CASE Issue
  <2>1. CASE Return("error")
    BY <1>3, <2>1
  <2>2. CASE Goto("erase") \/ Goto("write")
    <3>1. Where = "issue" /\ Where' \in {"write", "erase"} /\ Current' = Current /\ cache' = cache
      BY <1>9, <2>2 DEF Issue, Goto, Where, Current, device
    <3> QED BY <1>4, <3>1 DEF Barrier
  <2> QED BY <1>9, <2>1, <2>2 DEF Issue
<1>10. CASE Done
  <2>1. CASE Return("ok")
    BY <1>3, <2>1
  <2>2. CASE Op(Current) = "commit" /\ Goto("flush2")
    <3>1. /\ Where \in {"write", "erase"} /\ Where' = "flush2" /\ Current' = Current
          /\ pc # "stopped" /\ Put(PagesOf(Current))
      BY <1>10, <2>2 DEF Done, Goto, Where, Current
    <3>2. Where = "write" /\ setup.cache
      BY <1>1, <2>2, <3>1 DEF Control, Fits, Op
    <3>3. cache' = [lsn \in Device |-> IF lsn \in PagesOf(Current) THEN Current ELSE cache[lsn]]
      BY <1>1, <3>1, <3>2, PutStored
    <3>4. \A lsn \in Device : cache[lsn] \in {0, Current}
      BY <2>2, <3>2 DEF Barrier
    <3>5. PagesOf(Current) \subseteq Device
      BY <1>1, <3>1, PagesInArea
    <3>6. /\ \A lsn \in Device : cache'[lsn] \in {0, Current}
          /\ \A lsn \in PagesOf(Current) : cache'[lsn] = Current
      BY <3>3, <3>4, <3>5
    <3> QED BY <1>4, <3>1, <3>6 DEF Barrier
  <2> QED BY <1>10, <2>1, <2>2 DEF Done
<1>11. CASE Fails
  <2>1. CASE Return("error")
    BY <1>3, <2>1
  <2>2. CASE pc = "write" /\ Ask(pc)
    <3>1. PICK n \in 0 .. Cardinality(PagesOf(Current)) :
             Put(Request.start .. Request.start + n - 1)
      BY <1>11 DEF Fails
    <3>2. Where = "write" /\ Where' = "write" /\ Current' = Current /\ pc # "stopped"
      BY <2>2 DEF Ask, Where, Current
    <3>3. PICK pages \in SUBSET PagesOf(Current) : Put(pages)
      BY <1>1, <3>1, <3>2, PagesInArea DEF Request
    <3>4. \/ cache' = cache
          \/ cache' = [lsn \in Device |-> IF lsn \in pages THEN Current ELSE cache[lsn]]
      BY <1>1, <3>2, <3>3, PutStored
    <3>5. ASSUME Op(Current) = "commit", NEW lsn \in Device
          PROVE  cache'[lsn] \in {0, Current}
      BY <3>2, <3>4, <3>5 DEF Barrier
    <3> QED BY <1>4, <3>2, <3>5 DEF Barrier
  <2> QED BY <1>11, <2>1, <2>2 DEF Fails
<1>12. CASE Flushed
  <2>1. CASE Return("ok")
    BY <1>3, <2>1
  <2>2. CASE Goto("issue")
    <3>1. Where' = "issue" /\ cache' = None
      BY <1>12, <2>2 DEF Flushed, Goto, Where
    <3>2. \A lsn \in Device : cache'[lsn] = 0
      BY <3>1 DEF None
    <3> QED BY <3>1, <3>2 DEF Barrier
  <2> QED BY <1>12, <2>1, <2>2 DEF Flushed
<1>13. CASE FlushFails
  <2>1. Where' = Where /\ Current' = Current /\ cache' = cache /\ power' = power
    BY <1>13 DEF FlushFails, Ask, Where, Current, device
  <2> QED BY <1>5, <2>1
<1>14. CASE ReadDone
  BY <1>3, <1>14 DEF ReadDone
<1>15. CASE ReadFails
  <2>1. Where' = "read"
    BY <1>15 DEF ReadFails, Ask, Where
  <2> QED BY <1>2, <2>1
<1>16. CASE Seen
  <2>1. CASE Return("cut")
    BY <1>3, <2>1
  <2>2. CASE asker = "read" /\ GiveUp
    <3>1. pc = "ask" /\ Where = "read"
      BY <1>16, <2>2 DEF Seen, Where
    <3>2. CASE Return("error")
      BY <1>3, <3>2
    <3>3. CASE answers' = answers
      BY <1>1, <1>2, <2>2, <3>1, <3>3, GiveUpControl
    <3> QED BY <1>1, <2>2, <3>1, <3>2, <3>3, GiveUpControl
  <2> QED BY <1>16, <2>1, <2>2 DEF Seen
<1>17. CASE Unseen \/ Unanswered
  <2>1. pc = "ask" /\ cache' = cache /\ power' = power
    BY <1>17 DEF Unseen, Unanswered, device
  <2>2. CASE UNCHANGED <<answers, pc, asker, tries>>
    <3>1. Where' = Where /\ Current' = Current
      BY <2>2 DEF Where, Current
    <3> QED BY <1>5, <2>1, <3>1
  <2>3. CASE GiveUp
    BY <1>1, <1>3, <1>5, <2>1, <2>3, GiveUpControl
  <2>4. CASE Return("cut")
    BY <1>3, <2>4
  <2> QED BY <1>17, <2>2, <2>3, <2>4 DEF Unseen, Unanswered
<1>18. CASE Cut
  <2>1. /\ Where' = Where /\ Current' = Current /\ cache' = None /\ power' = FALSE
    BY <1>18 DEF Cut, asking, Where, Current
  <2>2. \A lsn \in Device : cache'[lsn] = 0
    BY <2>1 DEF None
  <2> QED BY <2>1, <2>2 DEF Barrier
<1>19. CASE Stopped
  <2>1. Where' = Where /\ Current' = Current /\ cache' = cache /\ power' = power
    BY <1>19 DEF Stopped, vars, Where, Current
  <2> QED BY <1>5, <2>1
<1> QED
  BY <1>6, <1>7, <1>8, <1>9, <1>10, <1>11, <1>12, <1>13, <1>14, <1>15, <1>16, <1>17,
     <1>18, <1>19 DEF Next, Program

-------------------------------------------------------------------------------
\* What no step of the program does to the driver, the power and the answers.
Orderly ==
  /\ pc # "stopped" /\ cutIn' = cutIn
  /\ answers' = answers \/ (pc # "killed" /\ \E answer \in Results : Return(answer))
  /\ power' = power \/ (Where = "read" /\ power' = TRUE)
  /\ misses' = misses /\ driver'.told =>
       driver.told \/ (Op(Current) \notin {"read", "repeat"} /\ answers' = answers)
  /\ misses' = misses /\ Op(Current) = "repeat" /\ answers' # answers => ~driver'.told
  /\ driver'.says # "nothing" => driver.says # "nothing" /\ driver'.lsn = driver.lsn
  /\ misses' = misses /\ power' # power => driver'.says = "nothing"
  /\ pc' # "stopped" /\ answers' # answers => power \/ PagesOf(Current) = {}

(* The power comes back for a read only, a request that returns well had    *)
(* power or no pages, and the driver is told to cut by a write or an erase. *)
LEMMA ProgramStep ==
  ASSUME Control, Driver, Program
  PROVE  Orderly
<1>1. driver \in DriverType /\ misses \in 0 .. MaxMisses /\ Fits(Where, Op(Current))
  BY DEF Driver, Control
<1>2. ASSUME pc # "stopped", UNCHANGED <<driver, power, cutIn, answers>>
      PROVE  Orderly
  BY <1>2 DEF Orderly
<1>3. ASSUME pc \notin {"stopped", "killed"}, UNCHANGED <<driver, power, cutIn>>,
             Op(Current) # "repeat",
             NEW answer \in Results, Return(answer), answer = "ok" => power
      PROVE  Orderly
  <2>1. pc' # "stopped" => answer = "ok"
    BY <1>3 DEF Return
  <2> QED BY <1>3, <2>1 DEF Orderly
<1>4. ASSUME poweroff_processing, pc # "stopped", UNCHANGED <<power, cutIn, answers>>,
             Op(Current) \notin {"read", "repeat"}
      PROVE  Orderly
  BY <1>4, ProcessingIs DEF Orderly
<1>5. CASE StartWriting
  BY <1>2, <1>5 DEF StartWriting, Goto, device
<1>6. CASE Begin
  <2>1. pc # "stopped" /\ UNCHANGED <<power, cutIn, answers>>
    BY <1>6 DEF Begin, Goto, device
  <2>2. UNCHANGED driver \/ (poweroff_processing /\ Op(Current) = "write")
    BY <1>6 DEF Begin
  <2> QED BY <1>2, <1>4, <2>1, <2>2
<1>7. CASE Repeat
  <2>1. /\ pc = "begin" /\ UNCHANGED <<power, cutIn>> /\ Written(FALSE, "NONE") /\ Return("ok")
        /\ Op(Current) = "repeat"
    BY <1>7 DEF Repeat, device
  <2>2. /\ driver'.lsn = driver.lsn
        /\ driver'.says = driver.says \/ driver'.says = "nothing"
        /\ misses' = misses => ~driver'.told
    BY <1>1, <2>1, WrittenIs DEF Phases
  <2>3. PagesOf(Current) = {}
    BY <2>1 DEF PagesOf
  <2>4. \E answer \in Results : Return(answer)
    BY <2>1 DEF Results
  <2> QED BY <2>1, <2>2, <2>3, <2>4 DEF Orderly
<1>8. CASE Issue
  <2>1. /\ pc = "issue" /\ UNCHANGED <<power, cutIn>> /\ Op(Current) \notin {"read", "repeat"}
    BY <1>1, <1>8 DEF Issue, device, Fits, Where
  <2>2. CASE Refused(Request)
    BY <1>3, <1>8, <2>1, <2>2 DEF Issue, Results
  <2>3. CASE ~Refused(Request)
    BY <1>4, <1>8, <2>1, <2>3 DEF Issue, Goto
  <2> QED BY <2>2, <2>3
<1>9. CASE Done
  <2>1. pc \in {"write", "erase"} /\ power /\ UNCHANGED <<driver, power, cutIn>>
    BY <1>9 DEF Done
  <2>2. Op(Current) # "repeat"
    BY <1>1, <2>1 DEF Fits, Where
  <2>3. Return("ok") \/ Goto("flush2")
    BY <1>9 DEF Done
  <2> QED BY <1>2, <1>3, <2>1, <2>2, <2>3 DEF Results, Goto
<1>10. CASE Fails
  <2>1. pc \in {"write", "erase"} /\ UNCHANGED <<driver, power, cutIn>>
    BY <1>10 DEF Fails
  <2>2. Op(Current) # "repeat"
    BY <1>1, <2>1 DEF Fits, Where
  <2>3. Return("error") \/ Ask(pc)
    BY <1>10 DEF Fails
  <2> QED BY <1>2, <1>3, <2>1, <2>2, <2>3 DEF Results, Ask
<1>11. CASE Flushed
  <2>1. pc \in {"feature", "flush1", "flush2"} /\ power /\ UNCHANGED <<driver, power, cutIn>>
    BY <1>11 DEF Flushed
  <2>2. Op(Current) # "repeat"
    BY <1>1, <2>1 DEF Fits, Where
  <2>3. Return("ok") \/ Goto("issue")
    BY <1>11 DEF Flushed
  <2> QED BY <1>2, <1>3, <2>1, <2>2, <2>3 DEF Results, Goto
<1>12. CASE FlushFails
  BY <1>2, <1>12 DEF FlushFails, Ask, device
<1>13. CASE ReadDone
  <2>1. pc = "read" /\ power /\ UNCHANGED <<driver, power, cutIn>> /\ Return("ok")
    BY <1>13 DEF ReadDone, device
  <2>2. Op(Current) # "repeat"
    BY <1>1, <2>1 DEF Fits, Where
  <2> QED BY <1>3, <2>1, <2>2 DEF Results
<1>14. CASE ReadFails
  BY <1>2, <1>14 DEF ReadFails, Ask, device
<1>15. ASSUME pc = "ask", Op(Current) # "repeat", GiveUp, setup' = setup
       PROVE  /\ answers' = answers \/ \E answer \in Results : Return(answer)
              /\ answers' # answers => pc' = "stopped"
  <2>1. answers' = answers \/ Return("error")
    BY <1>15, GiveUpControl
  <2> QED BY <2>1 DEF Results, Return
<1>16. ASSUME pc = "ask"
       PROVE  Op(Current) # "repeat"
  BY <1>1, <1>16 DEF Fits, Where, Control, Askers
<1>17. CASE Seen
  <2>1. pc = "ask" /\ cutIn' = cutIn /\ setup' = setup /\ driver.says = "cut"
    BY <1>17 DEF Seen
  <2>2. CASE asker = "read"
    <3>1. GiveUp /\ Written(FALSE, driver.phase) /\ power' = TRUE
      BY <1>17, <2>2 DEF Seen
    <3>2. driver.phase \in Phases
      BY <1>1 DEF DriverType
    <3>3. /\ driver'.lsn = driver.lsn
          /\ driver'.says = driver.says \/ driver'.says = "nothing"
          /\ misses' = misses => ~driver'.told /\ driver'.says # "cut"
      BY <1>1, <3>1, <3>2, WrittenIs
    <3>4. Where = "read" /\ Op(Current) # "repeat"
      BY <1>16, <2>1, <2>2 DEF Where
    <3> QED BY <1>15, <2>1, <3>1, <3>3, <3>4 DEF Orderly
  <2>3. CASE asker # "read"
    BY <1>3, <1>16, <1>17, <2>1, <2>3 DEF Seen, Results
  <2> QED BY <2>2, <2>3
<1>18. CASE Unseen
  <2>1. /\ pc = "ask" /\ setup' = setup /\ UNCHANGED <<power, cutIn>>
        /\ driver' = [driver EXCEPT !.says = IF @ = "late" THEN "cut" ELSE @]
    BY <1>18 DEF Unseen, device
  <2>2. /\ driver'.told = driver.told /\ driver'.lsn = driver.lsn
        /\ driver'.says # "nothing" => driver.says # "nothing"
    BY <1>1, <2>1 DEF DriverType
  <2>3. answers' = answers \/ GiveUp
    BY <1>18 DEF Unseen
  <2>4. /\ answers' = answers \/ \E answer \in Results : Return(answer)
        /\ answers' # answers => pc' = "stopped"
    BY <1>15, <1>16, <2>1, <2>3
  <2> QED BY <1>16, <2>1, <2>2, <2>4 DEF Orderly
<1>19. CASE Unanswered
  <2>1. pc = "ask" /\ setup' = setup /\ UNCHANGED <<power, cutIn, driver>>
    BY <1>19 DEF Unanswered, device
  <2>2. GiveUp \/ Return("cut")
    BY <1>19 DEF Unanswered
  <2>3. CASE GiveUp
    BY <1>15, <1>16, <2>1, <2>3 DEF Orderly
  <2>4. CASE Return("cut")
    BY <1>3, <1>16, <2>1, <2>4 DEF Results
  <2> QED BY <2>2, <2>3, <2>4
<1> QED
  BY <1>5, <1>6, <1>7, <1>8, <1>9, <1>10, <1>11, <1>12, <1>13, <1>14, <1>17, <1>18, <1>19
  DEF Program

\* After a cut the power is back for a loop that is read back, and for nothing else.
Restored == cutIn # "none" /\ power /\ pc # "stopped" => Op(Current) = "read"

\* While a loop is read back the driver has been told to do nothing.
Untold == ~Missed /\ pc # "stopped" /\ Op(Current) = "read" => ~driver.told

\* A cut in a step of a request keeps the request there until the driver says so.
CutSaid ==
  cutIn \notin {"none", "erase", "between"} /\ ~Missed /\ pc # "stopped" =>
    /\ ~power /\ Where = cutIn /\ cutIn # "read"
    /\ driver.says \in {"late", "cut"}
    /\ driver.says = "late" => polls = Polls

\* What the driver says of a cut is true, and where.
Located ==
  ~Missed /\ pc # "stopped" /\ driver.says # "nothing" =>
    ~power /\ cutIn # "none" /\ Loc(driver.lsn)

(* The request behind a read is a read, the one before a read or "repeat".  *)
LEMMA NextRead ==
  ASSUME Control, setup' = setup, pc \notin {"stopped", "killed"}, pc' # "stopped",
         NEW answer \in Results, Return(answer)
  PROVE  /\ Op(Current) = "read" => Op(Current)' = "read"
         /\ Op(Current)' = "read" => Op(Current) \in {"read", "repeat"}
<1>1. Current' = Current + 1 /\ Current' <= Len(Plan') /\ Len(Plan) \in Nat /\ Current \in Nat \ {0}
  BY ReturnControl, PlanType DEF Control, Current
<1>2. Current \in DOMAIN setup.plan /\ Current + 1 \in DOMAIN setup.plan /\ setup \in Setups
  BY <1>1, PlanType, SamePlan DEF Plan, Control
<1>3. \A i : (Op(i) = "read" <=> Plan[i].op = "read") /\ (Plan[i].op = "repeat" => Op(i) = "repeat")
  BY DEF Op
<1>4. Op(Current)' = Op(Current + 1)
  BY <1>1, SamePlan
<1>5. /\ Plan[Current].op = "read" => Plan[Current + 1].op = "read"
      /\ Plan[Current + 1].op = "read" => Plan[Current].op \in {"repeat", "read"}
  BY <1>1, <1>2, PlanAssumption DEF Plan
<1> QED BY <1>3, <1>4, <1>5

(* A cut leaves the request where it is, without power.                     *)
LEMMA CutIs ==
  ASSUME Control, Driver, Cut
  PROVE  /\ UNCHANGED <<setup, answers, pc, asker, polls, misses>>
         /\ Where' = Where /\ Current' = Current /\ Op(Current)' = Op(Current)
         /\ power' = FALSE /\ driver.told /\ pc # "stopped"
         /\ ~driver'.told /\ driver'.says \in {"late", "cut"} /\ driver'.lsn = LastSector
         /\ cutIn' = IF pc \in {"begin", "issue", "ask"} THEN "between" ELSE pc
<1>1. /\ UNCHANGED <<setup, answers, pc, asker, polls, misses>>
      /\ power' = FALSE /\ driver.told /\ pc # "stopped"
      /\ cutIn' = IF pc \in {"begin", "issue", "ask"} THEN "between" ELSE pc
  BY DEF Cut, asking
<1>2. PICK says \in {"cut", "late"} :
         driver' = [driver EXCEPT !.told = FALSE, !.says = says, !.lsn = LastSector]
  BY DEF Cut
<1>3. ~driver'.told /\ driver'.says = says /\ driver'.lsn = LastSector
  BY <1>2 DEF Driver, DriverType
<1>4. Where' = Where /\ Current' = Current
  BY <1>1 DEF Where, Current
<1>5. Op(Current)' = Op(Current)
  BY <1>1, <1>4, SamePlan
<1> QED BY <1>1, <1>2, <1>3, <1>4, <1>5

(* Power that came back serves reads only.                                  *)
LEMMA RestoredStep ==
  ASSUME Control, Driver, Restored, Next
  PROVE  Restored'
<1>1. setup' = setup
  BY ControlStep
<1>2. CASE Program
  <2>1. SUFFICES ASSUME cutIn' # "none", power', pc' # "stopped" PROVE Op(Current)' = "read"
    BY DEF Restored
  <2>2. Orderly
    BY <1>2, ProgramStep
  <2>3. Op(Current) = "read"
    BY <2>1, <2>2 DEF Orderly, Restored, Control, Fits
  <2>4. CASE answers' = answers
    <3>1. Current' = Current
      BY <2>4 DEF Current
    <3> QED BY <1>1, <2>3, <3>1, SamePlan
  <2>5. CASE pc # "killed" /\ \E answer \in Results : Return(answer)
    BY <1>1, <2>1, <2>2, <2>3, <2>5, NextRead DEF Orderly
  <2> QED BY <2>2, <2>4, <2>5 DEF Orderly
<1>3. CASE Cut
  BY <1>3, CutIs DEF Restored
<1>4. CASE Stopped
  <2>1. Current' = Current /\ UNCHANGED <<cutIn, power, pc>>
    BY <1>4 DEF Stopped, vars, Current
  <2> QED BY <1>1, <2>1, SamePlan DEF Restored
<1> QED BY <1>2, <1>3, <1>4 DEF Next

(* Unless its file did not open, the driver does nothing during a read.     *)
LEMMA UntoldStep ==
  ASSUME Control, Driver, Untold, Next
  PROVE  Untold'
<1>1. setup' = setup /\ misses' <= misses /\ misses \in 0 .. MaxMisses /\ MaxMisses \in Nat
  BY ControlStep, BoundAssumption DEF Driver
<1>2. CASE Program
  <2>1. SUFFICES ASSUME ~Missed', pc' # "stopped", Op(Current)' = "read", driver'.told PROVE FALSE
    BY DEF Untold
  <2>2. Orderly
    BY <1>2, ProgramStep
  <2>3. misses' \in 0 .. MaxMisses
    BY ControlStep DEF Driver
  <2>4. ~Missed /\ misses' = misses
    BY <1>1, <2>1, <2>3 DEF Missed
  <2>5. CASE answers' = answers
    <3>1. Current' = Current
      BY <2>5 DEF Current
    <3>2. Op(Current) = "read"
      BY <1>1, <2>1, <3>1, SamePlan
    <3> QED BY <2>1, <2>2, <2>4, <3>2 DEF Orderly, Untold
  <2>6. CASE answers' # answers
    <3>1. Op(Current) \in {"read", "repeat"}
      BY <1>1, <2>1, <2>2, <2>6, NextRead DEF Orderly
    <3> QED BY <2>1, <2>2, <2>4, <2>6, <3>1 DEF Orderly, Untold
  <2> QED BY <2>5, <2>6
<1>3. CASE Cut
  BY <1>3, CutIs DEF Untold
<1>4. CASE Stopped
  <2>1. Current' = Current /\ UNCHANGED <<driver, misses, pc>>
    BY <1>4 DEF Stopped, vars, Current
  <2> QED BY <1>1, <2>1, SamePlan DEF Untold, Missed
<1> QED BY <1>2, <1>3, <1>4 DEF Next

(* A cut in a request is not passed over.                                   *)
LEMMA CutSaidStep ==
  ASSUME Control, Driver, Untold, CutSaid, Next
  PROVE  CutSaid'
<1>1. /\ setup' = setup /\ misses' <= misses /\ misses \in 0 .. MaxMisses /\ MaxMisses \in Nat
      /\ misses' \in 0 .. MaxMisses /\ driver \in DriverType
  BY ControlStep, BoundAssumption DEF Driver
<1>2. SUFFICES ASSUME cutIn' \notin {"none", "erase", "between"}, ~Missed', pc' # "stopped"
               PROVE  /\ ~power' /\ Where' = cutIn' /\ cutIn' # "read"
                      /\ driver'.says \in {"late", "cut"}
                      /\ driver'.says = "late" => polls' = Polls
  BY DEF CutSaid
<1>3. ~Missed /\ misses' = misses
  BY <1>1, <1>2 DEF Missed
<1>4. CASE Program
  <2>1. pc # "stopped" /\ cutIn' = cutIn
    BY <1>4, ProgramStep DEF Orderly
  <2>2. /\ ~power /\ Where = cutIn /\ cutIn \in {"feature", "flush1", "flush2", "write"}
        /\ driver.says \in {"late", "cut"}
        /\ driver.says = "late" => polls = Polls
    BY <1>2, <1>3, <2>1 DEF CutSaid, Driver, Askers
  <2>3. pc = "ask" \/ pc = cutIn
    BY <2>2 DEF Where
  <2>4. CASE Fails \/ FlushFails
    <3>1. /\ pc # "ask" /\ Ask(pc) /\ UNCHANGED <<driver, power>>
      BY <1>2, <2>2, <2>3, <2>4 DEF Fails, FlushFails, Return, device
    <3>2. Where' = Where /\ polls' = polls
      BY <3>1 DEF Ask, Where
    <3>3. driver' = driver /\ power' = power
      BY <3>1
    <3> QED BY <2>1, <2>2, <3>2, <3>3
  <2>5. CASE Seen
    <3>1. pc = "ask" /\ asker # "read"
      BY <2>2, <2>5 DEF Seen, Where
    <3>2. Return("cut")
      BY <2>5, <3>1 DEF Seen
    <3> QED BY <1>2, <3>2 DEF Return
  <2>6. CASE Unseen
    <3>1. pc = "ask" /\ driver.says # "cut" /\ UNCHANGED power
          /\ driver' = [driver EXCEPT !.says = IF @ = "late" THEN "cut" ELSE @]
      BY <2>6 DEF Unseen, device
    <3>2. driver.says = "late" /\ polls > 1
      BY <2>2, <3>1, RetryAssumption
    <3>3. UNCHANGED <<pc, asker>>
      BY <2>6, <3>2 DEF Unseen
    <3>4. driver'.says = "cut" /\ Where' = Where
      BY <1>1, <3>1, <3>2, <3>3 DEF DriverType, Where
    <3> QED BY <2>1, <2>2, <3>1, <3>4
  <2>7. CASE Unanswered
    BY <1>1, <1>3, <2>7 DEF Unanswered
  <2>8. CASE StartWriting \/ Begin \/ Repeat \/ Issue \/ ReadDone \/ ReadFails
    BY <2>2, <2>3, <2>8 DEF StartWriting, Begin, Repeat, Issue, ReadDone, ReadFails
  <2>9. CASE Done \/ Flushed
    BY <2>2, <2>9 DEF Done, Flushed
  <2> QED BY <1>4, <2>4, <2>5, <2>6, <2>7, <2>8, <2>9 DEF Program
<1>5. CASE Cut
  <2>1. /\ cutIn' = pc /\ pc \notin {"begin", "issue", "ask"} /\ pc # "stopped" /\ pc' = pc
        /\ ~power' /\ Where' = Where /\ polls' = polls /\ driver.told
        /\ driver'.says \in {"late", "cut"}
    BY <1>2, <1>5, CutIs
  <2>2. Where = pc /\ polls = Polls
    BY <2>1 DEF Where, Control
  <2>3. pc # "read"
    BY <1>3, <2>1, <2>2 DEF Untold, Control, Fits
  <2> QED BY <2>1, <2>2, <2>3
<1>6. CASE Stopped
  <2>1. Where' = Where /\ UNCHANGED <<driver, misses, pc, power, cutIn, polls>>
    BY <1>6 DEF Stopped, vars, Where
  <2> QED BY <1>2, <1>3, <2>1 DEF CutSaid
<1> QED BY <1>4, <1>5, <1>6 DEF Next

(* The sector is the one of the request, or of the one before that has any. *)
LEMMA LocatedStep ==
  ASSUME Control, Driver, Located, Next
  PROVE  Located'
<1>1. /\ setup' = setup /\ misses' <= misses /\ misses \in 0 .. MaxMisses /\ MaxMisses \in Nat
      /\ misses' \in 0 .. MaxMisses /\ Current \in Nat
  BY ControlStep, BoundAssumption DEF Driver, Control, Current
<1>2. SUFFICES ASSUME ~Missed', pc' # "stopped", driver'.says # "nothing"
               PROVE  ~power' /\ cutIn' # "none" /\ Loc(driver.lsn)'
  BY DEF Located
<1>3. ~Missed /\ misses' = misses
  BY <1>1, <1>2 DEF Missed
<1>4. ASSUME Current' = Current, driver'.lsn = driver.lsn, Loc(driver.lsn)
      PROVE  Loc(driver.lsn)'
  BY <1>1, <1>4, SamePlan DEF Loc, Behind
<1>5. CASE Program
  <2>1. Orderly
    BY <1>5, ProgramStep
  <2>2. pc # "stopped" /\ driver.says # "nothing" /\ driver'.lsn = driver.lsn
    BY <1>2, <2>1 DEF Orderly
  <2>3. ~power /\ cutIn # "none" /\ Loc(driver.lsn)
    BY <1>3, <2>2 DEF Located
  <2>4. ~power' /\ cutIn' # "none"
    BY <1>2, <1>3, <2>1, <2>3 DEF Orderly
  <2>5. CASE answers' = answers
    BY <1>4, <2>2, <2>3, <2>4, <2>5 DEF Current
  <2>6. CASE answers' # answers
    <3>1. PagesOf(Current) = {} /\ Current' = Current + 1
      BY <1>1, <1>2, <2>1, <2>3, <2>6, ReturnControl DEF Orderly
    <3>2. \A i \in 0 .. Current : Behind(i) => Behind(i)'
      BY <1>1, <3>1, SamePlan DEF Behind
    <3>3. Loc(driver.lsn)'
      BY <1>1, <2>2, <2>3, <3>1, <3>2, SamePlan DEF Loc
    <3> QED BY <2>4, <3>3
  <2> QED BY <2>5, <2>6
<1>6. CASE Cut
  <2>1. /\ Current' = Current /\ power' = FALSE /\ driver'.lsn = LastSector
        /\ cutIn' = IF pc \in {"begin", "issue", "ask"} THEN "between" ELSE pc
    BY <1>6, CutIs
  <2>2. cutIn' # "none"
    BY <2>1 DEF Control, Places
  <2>3. Loc(LastSector)
    BY <1>1, LastSectorIs
  <2>4. PICK sector : sector = LastSector
    OBVIOUS
  <2>5. Loc(sector) /\ driver'.lsn = sector
    BY <2>1, <2>3, <2>4
  <2>6. Loc(driver.lsn)'
    BY <1>1, <2>1, <2>5, SamePlan DEF Loc, Behind
  <2> QED BY <2>1, <2>2, <2>6
<1>7. CASE Stopped
  <2>1. Current' = Current /\ UNCHANGED <<driver, misses, pc, power, cutIn>>
    BY <1>7 DEF Stopped, vars, Current
  <2> QED BY <1>2, <1>3, <1>4, <2>1 DEF Located
<1> QED BY <1>5, <1>6, <1>7 DEF Next

-------------------------------------------------------------------------------
Inv == Control /\ Driver /\ Stored /\ Barrier /\ Restored /\ Untold /\ CutSaid /\ Located

(* At the start nothing is stored, told or cut.                             *)
LEMMA InitInv == Init => Inv
<1>1. SUFFICES ASSUME Init PROVE Inv
  OBVIOUS
<1>2. Control /\ Driver /\ Len(Plan) \in Nat
  BY <1>1, InitControl, PlanType DEF Control
<1>3. /\ cache = None /\ medium = None /\ cutIn = "none" /\ pc = "start"
      /\ driver = [told |-> FALSE, phase |-> "NONE", says |-> "nothing", lsn |-> 0]
  BY <1>1 DEF Init
<1>4. Stored
  BY <1>2, <1>3 DEF Stored, None, Numbers
<1>5. Barrier
  BY <1>3 DEF Barrier, Where
<1>6. Restored /\ Untold /\ CutSaid /\ Located
  BY <1>3 DEF Restored, Untold, CutSaid, Located
<1> QED BY <1>2, <1>4, <1>5, <1>6 DEF Inv

(* The invariant is kept by every step.                                     *)
LEMMA InvStep == Inv /\ [Next]_vars => Inv'
<1>1. CASE Inv /\ Next
  BY <1>1, ControlStep, StoredStep, BarrierStep, RestoredStep, UntoldStep, CutSaidStep,
     LocatedStep DEF Inv
<1>2. CASE Inv /\ UNCHANGED vars
  <2>1. /\ UNCHANGED <<setup, answers, pc, asker, tries, polls>>
        /\ UNCHANGED <<require, driver, power, cache, medium, misses, cutIn>>
    BY <1>2 DEF vars
  <2>2. Where' = Where /\ Current' = Current
    BY <2>1 DEF Where, Current
  <2>3. Op(Current)' = Op(Current) /\ PagesOf(Current)' = PagesOf(Current)
    BY <2>1, <2>2, SamePlan
  <2>4. Control' /\ Driver'
    BY <1>2, <2>1, <2>2, <2>3, SamePlan DEF Inv, Control, Driver, Fits
  <2>5. Stored' /\ Barrier' /\ Restored'
    BY <1>2, <2>1, <2>2, <2>3, SamePlan DEF Inv, Stored, Barrier, Restored
  <2>6. Untold' /\ CutSaid'
    BY <1>2, <2>1, <2>2, <2>3 DEF Inv, Untold, CutSaid, Missed
  <2>7. Located'
    BY <1>2, <2>1, <2>2, SamePlan DEF Inv, Located, Missed, Loc, Behind
  <2> QED BY <2>4, <2>5, <2>6, <2>7 DEF Inv
<1> QED BY <1>1, <1>2

(* The invariant holds in every state.                                      *)
LEMMA Invariance == Spec => []Inv
<1>1. Init => Inv
  BY InitInv
<1>2. Inv /\ [Next]_vars => Inv'
  BY InvStep
<1> QED BY <1>1, <1>2, PTL DEF Spec

(* Every variable of DeviceIO keeps its type, and no request, cut off at    *)
(* the end of the area by unsigned arithmetic, puts a page outside of it.   *)
THEOREM TypeCorrect == Spec => []TypeOK
<1>1. ASSUME Inv PROVE TypeOK
  <2>1. /\ setup \in Setups /\ answers \in Seq({"ok", "cut", "error"})
        /\ tries \in 1 .. RWRETRY /\ polls \in 1 .. Polls
        /\ Len(Plan) \in Nat /\ Len(answers) \in Nat
    BY <1>1, PlanType DEF Inv, Control, Results
  <2>2. Len(answers) <= Len(Plan)
    BY <1>1, <2>1 DEF Inv, Control, Current
  <2>3. require \in BOOLEAN /\ power \in BOOLEAN
    BY <1>1 DEF Inv, Driver
  <2>4. driver.says \in {"nothing", "late", "cut"} /\ driver.told \in BOOLEAN
    BY <1>1 DEF Inv, Driver, DriverType
  <2>5. /\ cache \in [Device -> 0 .. Len(Plan)] /\ medium \in [Device -> 0 .. Len(Plan)]
        /\ \A lsn \in Device \ Area : cache[lsn] = 0 /\ medium[lsn] = 0
    BY <1>1 DEF Inv, Stored, Numbers
  <2>6. \A lsn \in Device : cache[lsn] + medium[lsn] > 0 => lsn \in Area
    BY <2>5
  <2> QED BY <2>1, <2>2, <2>3, <2>4, <2>5, <2>6 DEF TypeOK, Area
<1> QED BY <1>1, Invariance, PTL

-------------------------------------------------------------------------------
(* What stops the test is the last answer.                                  *)
LEMMA LastIs ==
  ASSUME Control, pc \notin {"stopped", "killed"}, setup' = setup,
         NEW answer \in Results, Return(answer)
  PROVE  Last' = answer
BY ReturnControl DEF Last

(* Nothing follows the last answer.                                         *)
LEMMA StoppedStays ==
  ASSUME Inv, Next, pc = "stopped"
  PROVE  UNCHANGED vars
BY ProgramStep, CutIs DEF Inv, Next, Orderly, Stopped

(* A power cut in a write, a commit or a flush, and there is none in a      *)
(* read, is answered as a cut and not as an error that ends the test; but   *)
(* for the two gaps the code has, and as long as the driver's file opens.   *)
THEOREM CutIsAnswered == Spec => []CutIsNeverAnError
<1>1. Init => CutIsNeverAnError
  BY DEF Init, CutIsNeverAnError
<1>2. ASSUME Inv, Inv', CutIsNeverAnError, Next PROVE CutIsNeverAnError'
  <2>1. CASE pc = "stopped"
    <3>1. UNCHANGED vars
      BY <1>2, <2>1, StoppedStays
    <3> QED BY <1>2, <3>1 DEF vars, CutIsNeverAnError, Last, Missed
  <2>2. CASE pc # "stopped"
    <3>1. SUFFICES ASSUME pc' = "stopped", Last' = "error", ~Missed',
                          cutIn' \notin {"none", "erase", "between"}
                   PROVE  FALSE
      BY DEF CutIsNeverAnError
    <3>2. Program /\ setup' = setup /\ misses' <= misses /\ misses \in 0 .. MaxMisses
      BY <1>2, <2>2, <3>1, CutIs, ControlStep DEF Inv, Next, Stopped, Driver, vars
    <3>3. cutIn' = cutIn /\ ~Missed /\ misses' = misses
      <4>1. cutIn' = cutIn
        BY <1>2, <3>2, ProgramStep DEF Inv, Orderly
      <4>2. misses' \in 0 .. MaxMisses /\ MaxMisses \in Nat
        BY <1>2, BoundAssumption DEF Inv, Driver
      <4> QED BY <3>1, <3>2, <4>1, <4>2 DEF Missed
    <3>4. /\ ~power /\ Where = cutIn /\ cutIn \in {"feature", "flush1", "flush2", "write"}
          /\ driver.says = "cut" \/ (driver.says = "late" /\ polls > 1)
      BY <1>2, <2>2, <3>1, <3>3, RetryAssumption DEF Inv, CutSaid, Driver, Askers
    <3>5. pc = "ask" \/ pc = cutIn
      BY <3>4 DEF Where
    <3>6. CASE Fails \/ FlushFails
      BY <3>1, <3>4, <3>5, <3>6 DEF Fails, FlushFails, Ask
    <3>7. CASE Seen
      <4>1. pc = "ask" /\ Return("cut")
        BY <3>4, <3>7 DEF Seen, Where
      <4> QED BY <1>2, <3>1, <3>2, <4>1, LastIs DEF Inv, Results
    <3>8. CASE Unseen
      BY <3>1, <3>4, <3>8 DEF Unseen
    <3>9. CASE Unanswered
      BY <3>3, <3>2, <3>9, BoundAssumption DEF Unanswered
    <3>10. CASE StartWriting \/ Begin \/ Repeat \/ Issue \/ ReadDone \/ ReadFails
      BY <3>4, <3>5, <3>10 DEF StartWriting, Begin, Repeat, Issue, ReadDone, ReadFails
    <3>11. CASE Done \/ Flushed
      BY <3>4, <3>11 DEF Done, Flushed
    <3> QED BY <3>2, <3>6, <3>7, <3>8, <3>9, <3>10, <3>11 DEF Program
  <2> QED BY <2>1, <2>2
<1>3. ASSUME Inv, CutIsNeverAnError, UNCHANGED vars PROVE CutIsNeverAnError'
  BY <1>3 DEF vars, CutIsNeverAnError, Last, Missed
<1> QED BY <1>1, <1>2, <1>3, Invariance, PTL DEF Spec

(* What is answered as a cut was one, and poweroff_pos is the sector of the *)
(* request it was in or of the one before: the range the verification       *)
(* looks at; as long as the driver's file opens.                            *)
THEOREM CutIsWhereItIsSaid == Spec => []CutIsLocated
<1>1. Init => CutIsLocated
  BY DEF Init, CutIsLocated
<1>2. ASSUME UNCHANGED vars, CutIsLocated PROVE CutIsLocated'
  <2>1. UNCHANGED <<setup, answers, pc, misses, cutIn, pos>>
    BY <1>2 DEF vars
  <2> QED BY <1>2, <2>1, SamePlan DEF CutIsLocated, Last, Missed
<1>3. ASSUME Inv, Inv', CutIsLocated, Next PROVE CutIsLocated'
  <2>1. CASE pc = "stopped"
    BY <1>2, <1>3, <2>1, StoppedStays
  <2>2. CASE pc # "stopped"
    <3>1. SUFFICES ASSUME pc' = "stopped", Last' = "cut", ~Missed' PROVE CutIsLocated'
      BY DEF CutIsLocated
    <3>2. Program /\ setup' = setup /\ misses' <= misses /\ misses \in 0 .. MaxMisses
      BY <1>3, <2>2, <3>1, CutIs, ControlStep DEF Inv, Next, Stopped, Driver, vars
    <3>3. cutIn' = cutIn /\ ~Missed /\ misses' = misses
      <4>1. cutIn' = cutIn
        BY <1>3, <3>2, ProgramStep DEF Inv, Orderly
      <4>2. misses' \in 0 .. MaxMisses /\ MaxMisses \in Nat
        BY <1>3, BoundAssumption DEF Inv, Driver
      <4> QED BY <3>1, <3>2, <4>1, <4>2 DEF Missed
    <3>4. ASSUME NEW answer \in Results, Return(answer), pc # "killed" PROVE answer = "cut"
      BY <1>3, <2>2, <3>1, <3>2, <3>4, LastIs DEF Inv
    <3>5. answers' # answers
      <4>1. answers' # <<>> /\ answers' \in Seq(Results)
        BY <1>3, <3>1 DEF Inv, Control
      <4>2. \A i \in DOMAIN answers : answers[i] = "ok"
        BY <1>3, <2>2 DEF Inv, Control
      <4>3. answers'[Len(answers')] = "cut" /\ Len(answers') \in DOMAIN answers'
        BY <3>1, <4>1 DEF Last
      <4> QED BY <4>2, <4>3
    <3>6. Seen /\ asker # "read"
      <4>1. CASE Seen
        <5>1. pc = "ask" /\ (asker = "read" => GiveUp)
          BY <4>1 DEF Seen
        <5>2. GiveUp => answers' = answers \/ Return("error")
          BY DEF GiveUp
        <5> QED BY <3>4, <3>5, <4>1, <5>1, <5>2 DEF Results
      <4>2. CASE Unanswered
        BY <3>2, <3>3, <4>2, BoundAssumption DEF Unanswered
      <4>3. CASE Unseen
        <5>1. pc = "ask" /\ (answers' = answers \/ Return("error"))
          BY <4>3 DEF Unseen, GiveUp
        <5> QED BY <3>4, <3>5, <5>1 DEF Results
      <4>4. CASE Program /\ ~Seen /\ ~Unseen /\ ~Unanswered
        <5>1. pc # "killed" /\ (answers' = answers \/ Return("error") \/ Return("ok"))
          BY <4>4 DEF Program, StartWriting, Begin, Repeat, Issue, Done, Fails, Flushed,
             FlushFails, ReadDone, ReadFails, Goto, Ask
        <5> QED BY <3>4, <3>5, <5>1 DEF Results
      <4> QED BY <3>2, <4>1, <4>2, <4>3, <4>4
    <3>7. /\ pc = "ask" /\ driver.says = "cut" /\ pos' = driver.lsn /\ Return("cut")
      BY <3>6 DEF Seen
    <3>8. cutIn # "none" /\ Loc(driver.lsn)
      BY <1>3, <2>2, <3>3, <3>7 DEF Inv, Located
    <3>9. answers' \in Seq(Results) /\ Len(answers') = Current /\ Current \in Nat
      BY <1>3, <3>2, <3>7, ReturnControl DEF Inv, Results, Control, Current
    <3> DEFINE written == {i \in DOMAIN answers' : PagesOf(i) # {}}
               before  == {i \in written : \A j \in written : j <= i \/ j = Len(answers')}
    <3>10. \/ \E i \in before : pos' = Plan[i].start
           \/ before \subseteq {Len(answers')} /\ pos' = 0
      <4>1. CASE \E i \in 1 .. Current : PagesOf(i) # {} /\ pos' = Plan[i].start /\ Behind(i)
        BY <3>9, <4>1 DEF Behind
      <4>2. CASE pos' = 0 /\ Behind(0)
        BY <3>9, <4>2 DEF Behind
      <4> QED BY <3>7, <3>8, <4>1, <4>2 DEF Loc
    <3>11. \A i : PagesOf(i)' = PagesOf(i) /\ Plan' = Plan
      BY <3>2, SamePlan
    <3> QED BY <3>3, <3>8, <3>10, <3>11 DEF CutIsLocated
  <2> QED BY <2>1, <2>2
<1> QED BY <1>1, <1>2, <1>3, Invariance, PTL DEF Spec

-------------------------------------------------------------------------------
\* The plan as WritePromise has it.
Promised == [i \in DOMAIN Plan |-> [commit |-> Op(i) = "commit", pages |-> PagesOf(i)]]

(* The requests of the plan are requests that WritePromise speaks of.       *)
LEMMA PromisedType ==
  ASSUME setup \in Setups
  PROVE  /\ Promised \in Seq([commit : BOOLEAN, pages : SUBSET Device])
         /\ Len(Promised) = Len(Plan)
         /\ \A i \in 1 .. Len(Plan) : /\ Promised[i].commit = (Op(i) = "commit")
                                      /\ Promised[i].pages = PagesOf(i)
<1>1. Len(Plan) \in Nat /\ DOMAIN Plan = 1 .. Len(Plan)
  BY PlanType
<1>2. Promised = [i \in 1 .. Len(Plan) |-> [commit |-> Op(i) = "commit", pages |-> PagesOf(i)]]
  BY <1>1 DEF Promised
<1>3. \A i \in 1 .. Len(Plan) :
         [commit |-> Op(i) = "commit", pages |-> PagesOf(i)]
           \in [commit : BOOLEAN, pages : SUBSET Device]
  BY PagesInArea
<1>4. Promised \in [1 .. Len(Plan) -> [commit : BOOLEAN, pages : SUBSET Device]]
  BY <1>2, <1>3
<1>5. Promised \in Seq([commit : BOOLEAN, pages : SUBSET Device]) /\ Len(Promised) = Len(Plan)
  <2>1. ASSUME NEW S, NEW n \in Nat, NEW requests \in [1 .. n -> S]
        PROVE  requests \in Seq(S) /\ Len(requests) = n
    OBVIOUS
  <2> DEFINE S == [commit : BOOLEAN, pages : SUBSET Device]
  <2>2. Promised \in [1 .. Len(Plan) -> S]
    BY <1>4
  <2> HIDE DEF S
  <2>3. Promised \in Seq(S) /\ Len(Promised) = Len(Plan)
    BY <1>1, <2>1, <2>2
  <2> QED BY <2>3 DEF S
<1> QED BY <1>2, <1>5

(* It does not change.                                                      *)
LEMMA SamePromised == setup' = setup => Promised' = Promised
BY SamePlan DEF Promised

(* The request in progress is the one WritePromise has in progress.         *)
LEMMA SameRequest ==
  ASSUME Inv, pc # "stopped"
  PROVE  /\ Promise!InProgress
         /\ Promise!Request.commit = (Op(Current) = "commit")
         /\ Promise!Request.pages = PagesOf(Current)
         /\ Promise!Current = Current
<1>1. /\ setup \in Setups /\ Current \in 1 .. Len(Plan) /\ Promise!Current = Current
      /\ \A i \in DOMAIN answers : answers[i] = "ok"
  BY PlanType DEF Inv, Control, Current, Promise!Current
<1>2. /\ Len(Promised) = Len(Plan) /\ Promised[Current].commit = (Op(Current) = "commit")
      /\ Promised[Current].pages = PagesOf(Current)
  BY <1>1, PromisedType
<1> QED BY <1>1, <1>2 DEF Promise!InProgress, Promise!Request, Promised

(* Pages of a request that has the power, or none at all, arrive.           *)
LEMMA PutArrives ==
  ASSUME Inv, pc \in {"write", "erase"}, setup' = setup, cutIn' = cutIn,
         NEW pages \in SUBSET PagesOf(Current), Put(pages), power \/ pages = {}
  PROVE  Promise!Storage
<1>1. /\ setup \in Setups /\ setup.cache \in BOOLEAN /\ cache \in Numbers /\ medium \in Numbers
      /\ pc # "stopped" /\ ~setup.cache => cache = None
  BY PlanType DEF Inv, Control, Stored
<1>2. /\ setup.cache => /\ medium' = medium
                        /\ cache' = [lsn \in Device |->
                                       IF lsn \in pages THEN Current ELSE cache[lsn]]
      /\ ~setup.cache => /\ cache' = cache
                         /\ medium' = [lsn \in Device |->
                                         IF lsn \in pages THEN Current ELSE medium[lsn]]
  BY <1>1, PutStored DEF Inv
<1>3. CASE pages = {}
  <2>1. /\ cache = [lsn \in Device |-> IF lsn \in {} THEN Current ELSE cache[lsn]]
        /\ medium = [lsn \in Device |-> IF lsn \in {} THEN Current ELSE medium[lsn]]
    BY <1>1 DEF Numbers
  <2>2. cache' = cache /\ medium' = medium
    BY <1>1, <1>2, <1>3, <2>1
  <2> QED BY <2>2 DEF Promise!Storage
<1>4. CASE power
  <2>1. Where = pc /\ Op(Current) # "read"
    BY DEF Where, Inv, Control, Fits
  <2>2. cutIn = "none"
    BY <1>1, <1>4, <2>1 DEF Inv, Restored
  <2>3. Op(Current) = "commit" => \A lsn \in Device : cache[lsn] \in {0, Current}
    BY <2>1 DEF Inv, Barrier, Control, Fits
  <2>4. Promise!Request.commit => Promise!Uncommitted = {}
    BY <1>1, <2>3, SameRequest DEF Promise!Uncommitted
  <2>5. \/ cache' = Promise!Put(Promise!Current, pages, cache) /\ UNCHANGED medium
        \/ /\ medium' = Promise!Put(Promise!Current, pages, medium)
           /\ cache' = Promise!Put(0, pages, cache)
    <3>1. CASE setup.cache
      BY <1>1, <1>2, <3>1, SameRequest DEF Promise!Put
    <3>2. CASE ~setup.cache
      <4>1. Promise!Put(0, pages, cache) = cache
        BY <1>1, <3>2 DEF Promise!Put, None
      <4>2. medium' = Promise!Put(Promise!Current, pages, medium)
        BY <1>1, <1>2, <3>2, SameRequest DEF Promise!Put
      <4> QED BY <1>2, <3>2, <4>1, <4>2
    <3> QED BY <1>1, <3>1, <3>2
  <2>6. pages \in SUBSET Promise!Request.pages /\ Promise!InProgress
    BY <1>1, SameRequest
  <2> QED BY <2>2, <2>4, <2>5, <2>6 DEF Promise!Storage, Promise!Arrive
<1> QED BY <1>3, <1>4

(* What the device does with the pages is what WritePromise allows.         *)
LEMMA StorageStep == Inv /\ Next => Promise!Storage
<1>1. SUFFICES ASSUME Inv, Next PROVE Promise!Storage
  OBVIOUS
<1>2. /\ setup' = setup /\ setup \in Setups /\ cache \in Numbers
      /\ pc # "stopped" => Current \in 1 .. Len(Plan)
  BY <1>1, ControlStep, PlanType DEF Inv, Control, Current, Stored
<1>3. ASSUME UNCHANGED <<cache, medium, cutIn>> PROVE Promise!Storage
  BY <1>3 DEF Promise!Storage
<1>4. CASE Done
  BY <1>1, <1>2, <1>4, PutArrives DEF Done
<1>5. CASE Fails
  <2>1. PICK n \in 0 .. Cardinality(PagesOf(Current)) :
           (~power => n = 0) /\ Put(Request.start .. Request.start + n - 1)
    BY <1>5 DEF Fails
  <2>2. pc \in {"write", "erase"} /\ cutIn' = cutIn
    BY <1>5 DEF Fails
  <2>3. Request.start .. Request.start + n - 1 \subseteq PagesOf(Current)
    BY <1>2, <2>2, PagesInArea DEF Request
  <2>4. Request.start \in Nat
    BY <1>2, <2>2, PlanType DEF Request
  <2>5. n = 0 => Request.start .. Request.start + n - 1 = {}
    BY <2>4
  <2> QED BY <1>1, <1>2, <2>1, <2>2, <2>3, <2>5, PutArrives
<1>6. CASE Flushed
  <2>1. /\ medium' = [lsn \in Device |-> IF cache[lsn] # 0 THEN cache[lsn] ELSE medium[lsn]]
        /\ cache' = None /\ cutIn' = cutIn
    BY <1>6 DEF Flushed
  <2>2. medium' = Promise!Back(Promise!Held)
    BY <2>1 DEF Promise!Back, Promise!Held
  <2>3. cache' = Promise!Put(0, Promise!Held, cache)
    BY <1>2, <2>1 DEF Promise!Put, Promise!Held, None, Numbers
  <2>4. Promise!WriteBack
    BY <2>1, <2>2, <2>3 DEF Promise!WriteBack
  <2> QED BY <2>4 DEF Promise!Storage
<1>7. CASE Cut
  <2>1. cutIn' # "none"
    BY <1>1, <1>7, CutIs DEF Inv, Control, Places
  <2>2. Promise!Forget
    BY <1>7, <2>1 DEF Cut, None, Promise!Forget, Promise!Held, Promise!Back
  <2> QED BY <2>2 DEF Promise!Storage
<1>8. CASE StartWriting \/ Begin \/ Repeat \/ Issue
  BY <1>3, <1>8 DEF StartWriting, Begin, Repeat, Issue, device
<1>9. CASE FlushFails \/ ReadDone \/ ReadFails
  BY <1>3, <1>9 DEF FlushFails, ReadDone, ReadFails, device
<1>10. CASE Seen \/ Unseen \/ Unanswered
  BY <1>3, <1>10 DEF Seen, Unseen, Unanswered, device
<1>11. CASE Stopped
  BY <1>3, <1>11 DEF Stopped, vars
<1> QED
  BY <1>1, <1>4, <1>5, <1>6, <1>7, <1>8, <1>9, <1>10, <1>11 DEF Next, Program

(* A request that returns 0 has its pages there, a commit on the medium.    *)
LEMMA AnswerStep ==
  Inv /\ Next => UNCHANGED answers \/ \E answer \in Promise!Answers : Promise!Answer(answer)
<1>1. SUFFICES ASSUME Inv, Next
               PROVE  UNCHANGED answers \/ \E answer \in Promise!Answers : Promise!Answer(answer)
  OBVIOUS
<1>2. /\ setup' = setup /\ setup \in Setups /\ setup.cache \in BOOLEAN
      /\ pc # "stopped" => Current \in 1 .. Len(Plan)
  BY <1>1, ControlStep, PlanType DEF Inv, Control, Current
<1>3. ASSUME pc # "stopped", NEW answer \in Results, Return(answer),
             answer = "ok" => \A lsn \in PagesOf(Current) :
               Current = medium'[lsn] \/ (Op(Current) # "commit" /\ Current = cache'[lsn])
      PROVE  \E a \in Promise!Answers : Promise!Answer(a)
  <2>1. answers' = Append(answers, answer) /\ answer \in Promise!Answers
    BY <1>3 DEF Return, Results, Promise!Answers
  <2>2. Promise!Answer(answer)
    BY <1>1, <1>3, <2>1, SameRequest DEF Promise!Answer
  <2> QED BY <2>1, <2>2
<1>4. CASE Done
  <2>1. pc \in {"write", "erase"} /\ Put(PagesOf(Current)) /\ pc # "stopped"
    BY <1>4 DEF Done
  <2>2. CASE Op(Current) = "commit"
    BY <1>4, <2>2 DEF Done, Goto
  <2>3. CASE Op(Current) # "commit"
    <3>1. Return("ok")
      BY <1>4, <2>3 DEF Done
    <3>2. PagesOf(Current) \subseteq Device
      BY <1>2, <2>1, PagesInArea
    <3>3. \A lsn \in PagesOf(Current) : Current = medium'[lsn] \/ Current = cache'[lsn]
      BY <1>1, <1>2, <2>1, <3>2, PutStored DEF Inv
    <3> QED BY <1>3, <2>1, <2>3, <3>1, <3>3 DEF Results
  <2> QED BY <2>2, <2>3
<1>5. CASE Flushed
  <2>1. CASE pc = "flush2"
    <3>1. Return("ok") /\ power /\ Where = "flush2"
          /\ medium' = [lsn \in Device |-> IF cache[lsn] # 0 THEN cache[lsn] ELSE medium[lsn]]
      BY <1>5, <2>1 DEF Flushed, Where
    <3>2. PagesOf(Current) \subseteq Device /\ Current # 0
      BY <1>2, <2>1, PagesInArea
    <3>3. \A lsn \in PagesOf(Current) : cache[lsn] = Current
      BY <1>1, <3>1 DEF Inv, Barrier
    <3>4. \A lsn \in PagesOf(Current) : Current = medium'[lsn]
      BY <3>1, <3>2, <3>3
    <3> QED BY <1>3, <2>1, <3>1, <3>4 DEF Results
  <2>2. CASE pc # "flush2"
    BY <1>5, <2>2 DEF Flushed, Goto
  <2> QED BY <2>1, <2>2
<1>6. CASE Repeat \/ ReadDone
  <2>1. pc \in {"begin", "read"} /\ Op(Current) \in {"repeat", "read"} /\ Return("ok")
    BY <1>1, <1>6 DEF Repeat, ReadDone, Inv, Control, Fits, Where
  <2>2. PagesOf(Current) = {}
    BY <2>1 DEF PagesOf
  <2> QED BY <1>3, <2>1, <2>2 DEF Results
<1>7. CASE StartWriting \/ Begin \/ Issue \/ Fails \/ FlushFails \/ ReadFails
  <2>1. pc # "stopped" /\ (UNCHANGED answers \/ Return("error"))
    BY <1>7 DEF StartWriting, Begin, Issue, Fails, FlushFails, ReadFails, Goto, Ask
  <2> QED BY <1>3, <2>1 DEF Results
<1>8. CASE Seen \/ Unseen \/ Unanswered
  <2>1. pc # "stopped" /\ (UNCHANGED answers \/ Return("error") \/ Return("cut"))
    BY <1>8 DEF Seen, Unseen, Unanswered, GiveUp
  <2> QED BY <1>3, <2>1 DEF Results
<1>9. CASE Cut
  BY <1>9 DEF Cut
<1>10. CASE Stopped
  BY <1>10 DEF Stopped, vars
<1> QED
  BY <1>1, <1>4, <1>5, <1>6, <1>7, <1>8, <1>9, <1>10 DEF Next, Program

(* The code of the requests, with the driver, the retries, the cut-off at   *)
(* the end of the area and the flushes it makes, implements WritePromise.   *)
THEOREM RequestsKeepTheirPromise == Spec => ImplementsPromise
<1>1. Init => Promise!Init
  <2>1. SUFFICES ASSUME Init PROVE Promise!Init
    OBVIOUS
  <2>2. Promised \in Seq([commit : BOOLEAN, pages : SUBSET Device])
    BY <2>1, PromisedType DEF Init
  <2>3. /\ answers = <<>> /\ cache = [lsn \in Device |-> 0] /\ medium = [lsn \in Device |-> 0]
        /\ cutIn = "none"
    BY <2>1 DEF Init, None
  <2> QED BY <2>2, <2>3 DEF Promise!Init, Promised
<1>2. Inv /\ [Next]_vars => [Promise!Next]_Promise!vars
  <2>1. ASSUME Inv, Next PROVE Promise!Next
    <3>1. Promised' = Promised
      BY <2>1, ControlStep, SamePromised DEF Inv
    <3>2. Promise!Storage /\ (UNCHANGED answers \/ \E a \in Promise!Answers : Promise!Answer(a))
      BY <2>1, StorageStep, AnswerStep
    <3> QED BY <3>1, <3>2 DEF Promise!Next, Promised
  <2>2. ASSUME UNCHANGED vars PROVE UNCHANGED Promise!vars
    <3>1. UNCHANGED <<setup, answers, cache, medium, cutIn>>
      BY <2>2 DEF vars
    <3>2. Promised' = Promised
      BY <3>1, SamePromised
    <3> QED BY <3>1, <3>2 DEF Promise!vars, Promised
  <2> QED BY <2>1, <2>2
<1>3. Spec => Promise!Init /\ [][Promise!Next]_Promise!vars
  BY <1>1, <1>2, Invariance, PTL DEF Spec
<1> QED BY <1>3 DEF ImplementsPromise, Promise!Spec

\* WritePromise with what is proved of it.
Proved ==
  INSTANCE WritePromise_proofs WITH
    plan <- [i \in DOMAIN Plan |-> [commit |-> Op(i) = "commit", pages |-> PagesOf(i)]],
    forgot <- cutIn # "none"

(* On the medium of a device that these requests write, a page of a commit  *)
(* proves that everything requested before was written: the argument of     *)
(* verify_unconfirmed_status, from the system calls up.                     *)
THEOREM CommitsAreProof == Spec => []Promise!CommitIsProof
<1>1. Promise!Init => Proved!Init
  BY DEF Promise!Init, Proved!Init
<1>2. [Promise!Next]_Promise!vars => [Proved!Next]_Proved!vars
  BY DEF Promise!vars, Proved!vars, Promise!Next, Proved!Next,
     Promise!Storage, Proved!Storage, Promise!Arrive, Proved!Arrive,
     Promise!WriteBack, Proved!WriteBack, Promise!Forget, Proved!Forget,
     Promise!Answers, Proved!Answers, Promise!Answer, Proved!Answer,
     Promise!InProgress, Proved!InProgress, Promise!Current, Proved!Current,
     Promise!Request, Proved!Request, Promise!Uncommitted, Proved!Uncommitted,
     Promise!Held, Proved!Held, Promise!Back, Proved!Back, Promise!Put, Proved!Put
<1>3. Proved!CommitIsProof => Promise!CommitIsProof
  BY DEF Promise!CommitIsProof, Proved!CommitIsProof, Promise!Preceded, Proved!Preceded
<1>4. Promise!Spec => Proved!Spec
  BY <1>1, <1>2, PTL DEF Promise!Spec, Proved!Spec
<1>5. Proved!Spec => []Proved!CommitIsProof
  BY Proved!CommitProves
<1> QED BY <1>3, <1>4, <1>5, RequestsKeepTheirPromise, PTL DEF ImplementsPromise

===============================================================================
