---------------------------- MODULE Session_proofs ----------------------------
(***************************************************************************)
(* Theorems about Session, for every log, every SD card and every device:  *)
(* that a crash that was found is remembered across restarts, and that the *)
(* device is prepared as it was asked for.                                 *)
(***************************************************************************)
EXTENDS Session, FiniteSetTheorems, WellFoundedInduction, TLAPS

\* What is prepared, the area of a test that keeps none included.
AreaTyped ==
  area \in [device : Nat, start : Nat, length : Nat, ratio : 0 .. 100,
            itself : BOOLEAN, due : Nat, boot : Nat]

Preparing == pc \in {"clear_state", "erase", "check", "fill"}

\* The whole device is there to be prepared, and the test area lies in it.
DeviceThere == Preparing => DOMAIN medium = 0 .. area.device - 1

AreaInside == Preparing /\ pc # "clear_state" => area.start + area.length <= area.device

\* Before it is filled a device holds nothing but what it held before.
ErasedOrOld ==
  pc \in {"check", "fill"} => \A b \in DOMAIN medium : medium[b] \in {"old", "erased"}

FillsErased ==
  pc = "fill" => area.ratio > 0 /\ (\A b \in TestArea : medium[b] = "erased")

PreparationInv ==
  AreaTyped /\ DeviceThere /\ AreaInside /\ ErasedOrOld /\ FillsErased /\ PreparedAsAsked

-------------------------------------------------------------------------------
(* A non-empty set of numbers has a least one.                              *)
LEMMA LeastOf ==
  ASSUME NEW T, T \subseteq Nat, T # {}
  PROVE  \E x \in T : \A y \in T : x <= y
<1>1. \E x \in T : \A y \in T : ~ (<<y, x>> \in OpToRel(<, Nat))
  BY NatLessThanWellFounded, WFMin, Zenon
<1>2. \A x, y \in Nat : y < x => <<y, x>> \in OpToRel(<, Nat)
  BY DEF OpToRel
<1>3. \E x \in T : \A y \in T : ~(y < x)
  BY <1>1, <1>2, Zenon
<1> QED BY <1>3

(* A non-empty set of numbers below a bound has a greatest one.             *)
LEMMA GreatestOf ==
  ASSUME NEW T, NEW n \in Nat, T \subseteq 0 .. n - 1, T # {}
  PROVE  \E x \in T : \A y \in T : y <= x
<1> DEFINE Bounds == {b \in Nat : \A y \in T : y <= b}
<1>1. n \in Bounds
  OBVIOUS
<1>2. PICK u \in Bounds : \A b \in Bounds : u <= b
  BY <1>1, LeastOf
<1>3. CASE u = 0
  <2>1. PICK x \in T : TRUE
    OBVIOUS
  <2>2. \A y \in T : y \in Nat /\ y <= 0
    BY <1>2, <1>3
  <2> QED BY <2>1, <2>2
<1>4. CASE u # 0
  <2>1. u - 1 \in Nat /\ u - 1 \notin Bounds
    BY <1>2, <1>4
  <2>2. PICK y \in T : ~(y <= u - 1)
    BY <2>1
  <2>3. y = u
    BY <1>2, <2>2
  <2> QED BY <1>2, <2>3
<1> QED BY <1>3, <1>4

(* Blocks of a device are finitely many.                                    *)
LEMMA BlocksAreFinite ==
  ASSUME NEW n \in Nat, NEW S, S \subseteq 0 .. n - 1
  PROVE  S \subseteq Nat /\ IsFiniteSet(S) /\ Cardinality(S) \in Nat
<1>1. n - 1 \in Int /\ 0 \in Int
  OBVIOUS
<1>2. IsFiniteSet(0 .. n - 1)
  BY <1>1, FS_Interval
<1>3. IsFiniteSet(S)
  BY <1>2, FS_Subset
<1>4. S \subseteq Nat
  OBVIOUS
<1> QED BY <1>3, <1>4, FS_CardinalityType

(* Of a set of blocks those are taken that have no more than k of it in     *)
(* front of them: k + 1 of them, or all if there are no more than that.     *)
LEMMA FirstBlocks ==
  ASSUME NEW n \in Nat, NEW S, S \subseteq 0 .. n - 1, NEW k \in Nat,
         NEW T, T = {b \in S : Cardinality({c \in S : c < b}) <= k}
  PROVE  /\ IsFiniteSet(T) /\ Cardinality(T) \in Nat /\ Cardinality(T) <= k + 1
         /\ T = S \/ Cardinality(T) >= k + 1
<1>1. IsFiniteSet(S) /\ S \subseteq Nat
  BY BlocksAreFinite
<1>2. IsFiniteSet(T) /\ Cardinality(T) \in Nat
  BY <1>1, FS_Subset, FS_CardinalityType
<1>3. Cardinality(T) <= k + 1
  <2>1. CASE T = {}
    <3>1. Cardinality(T) = 0
      BY <2>1, <1>2, FS_EmptySet, Zenon
    <3> QED BY <3>1
  <2>2. CASE T # {}
    <3>1. PICK m \in T : \A y \in T : y <= m
      BY <2>2, GreatestOf
    <3>2. T \ {m} \subseteq {c \in S : c < m}
      <4>1. \A y \in T : y \in S /\ y \in Nat
        BY <1>1
      <4>2. \A y \in T : y # m => y < m
        BY <3>1, <4>1
      <4> QED BY <4>1, <4>2
    <3>3. IsFiniteSet({c \in S : c < m}) /\ Cardinality({c \in S : c < m}) <= k
      BY <1>1, <3>1, FS_Subset
    <3>4. Cardinality({c \in S : c < m}) \in Nat
      BY <3>3, FS_CardinalityType
    <3>5. Cardinality(T \ {m}) <= Cardinality({c \in S : c < m})
      BY <3>2, <3>3, FS_Subset
    <3>6. Cardinality(T \ {m}) = Cardinality(T) - 1
      BY <1>2, <3>1, FS_RemoveElement
    <3> QED BY <1>2, <3>3, <3>4, <3>5, <3>6
  <2> QED BY <2>1, <2>2
<1>4. ASSUME T # S PROVE Cardinality(T) >= k + 1
  <2>1. S \ T # {} /\ S \ T \subseteq Nat
    BY <1>1, <1>4
  <2>2. PICK b \in S \ T : \A y \in S \ T : b <= y
    BY <2>1, LeastOf
  <2> DEFINE InFront == {c \in S : c < b}
  <2>3. InFront \subseteq T
    <3>1. SUFFICES ASSUME NEW c \in S, c < b, c \notin T PROVE FALSE
      OBVIOUS
    <3>2. b <= c /\ b \in Nat /\ c \in Nat
      BY <1>1, <2>2, <3>1
    <3> QED BY <3>1, <3>2
  <2>4. Cardinality(InFront) <= Cardinality(T)
    BY <1>2, <2>3, FS_Subset
  <2>5. IsFiniteSet(InFront) /\ ~(Cardinality(InFront) <= k)
    BY <1>1, <2>2, FS_Subset
  <2>6. Cardinality(InFront) \in Nat
    BY <2>5, FS_CardinalityType
  <2> QED BY <1>2, <2>4, <2>5, <2>6
<1> QED BY <1>2, <1>3, <1>4

(* Whether k + 1 blocks are written or all of n, where k is r hundredths of *)
(* n rounded down, the ratio is reached but for a block, and passed by one. *)
LEMMA RatioReached ==
  ASSUME NEW n \in Nat, NEW r \in 0 .. 100, NEW d \in Nat,
         d <= (n * r) \div 100 + 1, d = n \/ d >= (n * r) \div 100 + 1
  PROVE  100 * d >= r * n - 100 /\ 100 * (d - 1) <= r * n
<1>1. n * r \in Nat /\ n * r = r * n /\ r * n <= 100 * n
  OBVIOUS
<1>2. PICK w \in Nat : w = n * r
  BY <1>1
<1>3. PICK k \in Nat : k = w \div 100
  OBVIOUS
<1>4. 100 * k <= w /\ w < 100 * k + 100
  BY <1>3
<1>5. w = r * n /\ d <= k + 1 /\ (d = n \/ d >= k + 1) /\ w <= 100 * n
  BY <1>1, <1>2, <1>3
<1>6. 100 * d >= w - 100 /\ 100 * (d - 1) <= w
  BY <1>4, <1>5
<1> QED BY <1>5, <1>6

-------------------------------------------------------------------------------
LEMMA PreparationInit == Init => PreparationInv
<1> SUFFICES ASSUME Init PROVE PreparationInv
  OBVIOUS
<1>1. AreaTyped /\ pc = "clear_state" /\ medium = [b \in 0 .. area.device - 1 |-> "old"]
  BY AreasAssumption DEF Init, AreaTyped
<1> QED BY <1>1 DEF PreparationInv, DeviceThere, AreaInside, ErasedOrOld, FillsErased,
           PreparedAsAsked

LEMMA ClearStatePrepares == PreparationInv /\ ClearState => PreparationInv'
<1> SUFFICES ASSUME PreparationInv, ClearState PROVE PreparationInv'
  OBVIOUS
<1>1. /\ pc = "clear_state" /\ UNCHANGED <<area, medium>> /\ AreaTyped
      /\ DOMAIN medium = 0 .. area.device - 1
  BY DEF ClearState, PreparationInv, DeviceThere, Preparing, preparation
<1>2. area.itself \in BOOLEAN /\ area.start + area.length \in Nat /\ area.device \in Nat
  BY <1>1 DEF AreaTyped
<1>3. \/ pc' = "prepared" /\ area.itself
      \/ pc' = "stopped"
      \/ pc' = "erase" /\ area.start + area.length <= area.device
  BY <1>2 DEF ClearState
<1> QED BY <1>1, <1>2, <1>3 DEF PreparationInv, AreaTyped, DeviceThere, AreaInside, ErasedOrOld,
           FillsErased, PreparedAsAsked, Preparing

LEMMA ErasePrepares == PreparationInv /\ Erase => PreparationInv'
<1> SUFFICES ASSUME PreparationInv, Erase PROVE PreparationInv'
  OBVIOUS
<1>1. /\ pc = "erase" /\ area' = area /\ AreaTyped
      /\ DOMAIN medium = 0 .. area.device - 1 /\ area.start + area.length <= area.device
  BY DEF Erase, PreparationInv, DeviceThere, AreaInside, Preparing
<1>2. \/ pc' = "check" /\ DOMAIN medium' = DOMAIN medium
         /\ \A b \in DOMAIN medium' : medium'[b] \in {"old", "erased"}
      \/ pc' = "stopped"
  BY DEF Erase
<1> QED BY <1>1, <1>2 DEF PreparationInv, AreaTyped, DeviceThere, AreaInside, ErasedOrOld,
           FillsErased, PreparedAsAsked, Preparing

(* A device that holds no dirt is prepared if it was asked for none.        *)
LEMMA CheckPrepares == PreparationInv /\ Check => PreparationInv'
<1> SUFFICES ASSUME PreparationInv, Check PROVE PreparationInv'
  OBVIOUS
<1>1. /\ pc = "check" /\ UNCHANGED <<area, medium>> /\ AreaTyped
      /\ DOMAIN medium = 0 .. area.device - 1 /\ area.start + area.length <= area.device
      /\ \A b \in DOMAIN medium : medium[b] \in {"old", "erased"}
  BY DEF Check, PreparationInv, DeviceThere, AreaInside, ErasedOrOld, Preparing, preparation
<1>2. area.ratio \in 0 .. 100 /\ area.boot \in Nat
  BY <1>1 DEF AreaTyped
<1>3. \/ pc' \in {"stopped", "boot"}
      \/ pc' = "fill" /\ area.ratio > 0 /\ \A b \in TestArea : medium[b] = "erased"
      \/ pc' = "prepared" /\ area.ratio = 0 /\ \A b \in TestArea : medium[b] = "erased"
  BY <1>2 DEF Check, Prepared, InTest, check_erase_zero_condition
<1>4. TestArea' = TestArea /\ Outside' = Outside
  BY <1>1 DEF TestArea, Outside
<1>5. CASE pc' # "prepared"
  BY <1>1, <1>3, <1>4, <1>5 DEF PreparationInv, AreaTyped, DeviceThere, AreaInside, ErasedOrOld,
     FillsErased, PreparedAsAsked, Preparing
<1>6. CASE pc' = "prepared"
  <2>1. {b \in Outside : medium[b] = "dirty"} = {}
    BY <1>1 DEF Outside
  <2>2. Cardinality({b \in Outside : medium[b] = "dirty"}) = 0
    BY <2>1, FS_EmptySet
  <2>3. Cardinality(Outside) \in Nat
    BY <1>1, BlocksAreFinite DEF Outside, AreaTyped
  <2>4. /\ 100 * 0 >= area.ratio * Cardinality(Outside) - 100
        /\ 100 * (0 - 1) <= area.ratio * Cardinality(Outside)
    BY <1>3, <1>6, <2>3
  <2>5. PreparedAsAsked'
    BY <1>1, <1>3, <1>4, <1>6, <2>2, <2>4 DEF PreparedAsAsked
  <2> QED BY <1>1, <1>6, <2>5 DEF PreparationInv, AreaTyped, DeviceThere, AreaInside, ErasedOrOld,
             FillsErased, Preparing
<1> QED BY <1>5, <1>6

(* What is filled is what was to be.                                        *)
LEMMA FillPrepares == PreparationInv /\ Fill => PreparationInv'
<1> SUFFICES ASSUME PreparationInv, Fill PROVE PreparationInv'
  OBVIOUS
<1>1. /\ pc = "fill" /\ UNCHANGED area /\ AreaTyped
      /\ DOMAIN medium = 0 .. area.device - 1 /\ area.start + area.length <= area.device
      /\ \A b \in DOMAIN medium : medium[b] \in {"old", "erased"}
      /\ \A b \in TestArea : medium[b] = "erased"
  BY DEF Fill, PreparationInv, DeviceThere, AreaInside, ErasedOrOld, FillsErased, Preparing
<1>2. /\ area.ratio \in 0 .. 100 /\ area.device \in Nat /\ area.start \in Nat
      /\ area.length \in Nat
  BY <1>1 DEF AreaTyped
<1>3. CASE pc' # "prepared"
  <2>1. pc' \in {"boot", "stopped"}
    BY <1>3 DEF Fill, Prepared
  <2> QED BY <1>1, <2>1 DEF PreparationInv, AreaTyped, DeviceThere, AreaInside, ErasedOrOld,
             FillsErased, PreparedAsAsked, Preparing
<1>4. CASE pc' = "prepared"
  <2>1. medium' = [b \in DOMAIN medium |->
                     IF b \in make_dirty_condition THEN "dirty" ELSE medium[b]]
    BY <1>4 DEF Fill, Prepared
  <2>2. DOMAIN medium' = DOMAIN medium /\ Outside' = Outside /\ TestArea' = TestArea
    BY <1>1, <2>1 DEF Outside, TestArea
  <2>3. PICK n \in Nat : n = Cardinality(Outside)
    BY <1>1, <1>2, BlocksAreFinite DEF Outside
  <2>4. PICK k \in Nat : k = (n * area.ratio) \div 100
    BY <1>2, <2>3
  <2>5. PICK dirty : dirty = make_dirty_condition
    OBVIOUS
  <2>6. dirty = {b \in Outside : Cardinality({c \in Outside : c < b}) <= k}
    BY <2>3, <2>4, <2>5 DEF make_dirty_condition
  <2>7. Outside \subseteq 0 .. area.device - 1 /\ dirty \subseteq Outside
    BY <1>1, <2>6 DEF Outside
  <2>8. {b \in Outside : medium'[b] = "dirty"} = dirty
    BY <1>1, <2>1, <2>5, <2>7 DEF Outside
  <2>9. /\ Cardinality(dirty) \in Nat /\ Cardinality(dirty) <= k + 1
        /\ Cardinality(dirty) = n \/ Cardinality(dirty) >= k + 1
    <3>1. PICK rest : rest = Outside
      OBVIOUS
    <3>2. PICK blocks \in Nat : blocks = area.device
      BY <1>2
    <3>3. dirty = {b \in rest : Cardinality({c \in rest : c < b}) <= k}
      BY <2>6, <3>1
    <3>4. rest \subseteq 0 .. blocks - 1
      BY <2>7, <3>1, <3>2
    <3>5. /\ Cardinality(dirty) \in Nat /\ Cardinality(dirty) <= k + 1
          /\ dirty = rest \/ Cardinality(dirty) >= k + 1
      BY <3>3, <3>4, FirstBlocks
    <3> QED BY <2>3, <3>1, <3>5
  <2>10. /\ 100 * Cardinality(dirty) >= area.ratio * n - 100
         /\ 100 * (Cardinality(dirty) - 1) <= area.ratio * n
    BY <1>2, <2>4, <2>9, RatioReached
  <2>11. \A b \in TestArea : medium'[b] = "erased"
    <3>1. TestArea \subseteq DOMAIN medium /\ TestArea \cap dirty = {}
      BY <1>1, <1>2, <2>7 DEF TestArea, Outside
    <3> QED BY <1>1, <2>1, <2>5, <3>1
  <2>12. PreparedAsAsked'
    BY <1>1, <2>2, <2>3, <2>8, <2>10, <2>11 DEF PreparedAsAsked
  <2> QED BY <1>1, <1>4, <2>12 DEF PreparationInv, AreaTyped, DeviceThere, AreaInside,
             ErasedOrOld, FillsErased, Preparing
<1> QED BY <1>3, <1>4

(* A board that comes up and prepares begins with the device as it is.      *)
LEMMA BootPrepares ==
  ASSUME AreaTyped, plr_start_initialization
  PROVE  /\ AreaTyped'
         /\ \/ pc' = "boot"
            \/ pc' = "clear_state" /\ DOMAIN medium' = 0 .. area'.device - 1
<1>1. CASE area.boot >= area.due
  <2>1. pc' = "boot" /\ area' = NoArea
    BY <1>1 DEF plr_start_initialization
  <2>2. NoArea \in [device : Nat, start : Nat, length : Nat, ratio : 0 .. 100,
                    itself : BOOLEAN, due : Nat, boot : Nat]
    BY DEF NoArea
  <2> QED BY <2>1, <2>2 DEF AreaTyped
<1>2. CASE ~(area.boot >= area.due)
  <2>1. area' = [area EXCEPT !.boot = area.boot + 1]
    BY <1>2 DEF plr_start_initialization
  <2>2. AreaTyped' /\ area'.device = area.device
    BY <2>1 DEF AreaTyped
  <2> QED BY <1>2, <2>2 DEF plr_start_initialization, Device
<1> QED BY <1>1, <1>2

LEMMA PreparationNext == PreparationInv /\ [Next]_vars => PreparationInv'
<1> SUFFICES ASSUME PreparationInv, [Next]_vars PROVE PreparationInv'
  OBVIOUS
<1>a. AreaTyped
  BY DEF PreparationInv
<1>1. ASSUME Reset \/ PowerOn \/ PrepareAgain PROVE PreparationInv'
  <2>1. /\ AreaTyped'
        /\ \/ pc' = "boot"
           \/ pc' = "clear_state" /\ DOMAIN medium' = 0 .. area'.device - 1
    <3>1. CASE Reset \/ PowerOn
      BY <1>a, <3>1, BootPrepares DEF Reset, PowerOn
    <3>2. CASE PrepareAgain
      BY <3>2, AreasAssumption DEF PrepareAgain, AreaTyped, Device
    <3> QED BY <1>1, <3>1, <3>2
  <2> QED BY <2>1 DEF PreparationInv, DeviceThere, AreaInside, ErasedOrOld, FillsErased,
             PreparedAsAsked, Preparing
<1>2. ASSUME \/ Boot \/ Insert \/ NextStep \/ Judge \/ Write \/ Report \/ PowerOff
             \/ ClearInfo \/ DumpInfo \/ ClearLog \/ DumpLog \/ DumpIndex
      PROVE  PreparationInv'
  <2>1. /\ UNCHANGED area
        /\ pc' \in {"stopped", "verify", "write", "clear_info", "dump_info", "clear_log",
                    "dump_log", "dump_index", "report", "boot", "off"}
    BY <1>2 DEF Boot, Start, Insert, NextStep, Judge, Write, Report, PowerOff, Off, ClearInfo,
       DumpInfo, ClearLog, DumpLog, DumpIndex, WriteSectors, preparation
  <2> QED BY <1>a, <2>1 DEF PreparationInv, AreaTyped, DeviceThere, AreaInside, ErasedOrOld,
             FillsErased, PreparedAsAsked, Preparing
<1>3. CASE UNCHANGED vars
  BY <1>3 DEF vars, PreparationInv, AreaTyped, DeviceThere, AreaInside, ErasedOrOld, FillsErased,
     PreparedAsAsked, Preparing, TestArea, Outside
<1> QED BY <1>1, <1>2, <1>3, ClearStatePrepares, ErasePrepares, CheckPrepares, FillPrepares DEF Next

LEMMA PreparationHolds == Spec => []PreparationInv
BY PreparationInit, PreparationNext, PTL DEF Spec

(* A preparation that says it is done has left nothing in the test area and *)
(* has filled of the rest what it was to, and at most a block more          *)
(* (plr_prepare, make_dirty_condition): on every device, wherever the test  *)
(* area lies and whatever the device leaves behind when it is erased.       *)
THEOREM PreparedRight == Spec => []PreparedAsAsked
BY PreparationHolds, PTL DEF PreparationInv

-------------------------------------------------------------------------------
\* Between the end of a verification and its report.
Saving == pc \in {"clear_info", "dump_info", "clear_log", "dump_log", "dump_index", "report"}

(* The board goes on only while no crash is on record, and from the moment  *)
(* it is found a crash is on its way to the record, on record, or forgotten.*)
StateIsKnown == state \in {0, PLR_ECRASH} /\ found \in BOOLEAN /\ forgot \in BOOLEAN

GoesOnClean == pc \in {"verify", "write"} \/ Saving => state = 0

FoundIsOnRecord ==
  found => forgot \/ state = PLR_ECRASH \/ (Saving /\ verify_get_result = PLR_ECRASH)

RecordInv == StateIsKnown /\ GoesOnClean /\ FoundIsOnRecord

LEMMA RecordMeans == RecordInv => CrashIsRemembered
BY DEF RecordInv, GoesOnClean, FoundIsOnRecord, CrashIsRemembered, Saving, PLR_ECRASH

LEMMA RecordInit == Init => RecordInv
BY DEF Init, RecordInv, StateIsKnown, GoesOnClean, FoundIsOnRecord, Saving

-------------------------------------------------------------------------------
(* What writing sectors does to the record: it goes on to the next step, or *)
(* the power goes, and what was found with no record of it is forgotten.    *)
LEMMA WritingChanges ==
  ASSUME NEW writes, NEW next, WriteSectors(writes, next)
  PROVE  \/ pc' = next /\ forgot' = forgot
         \/ pc' = "off" /\ forgot' = (forgot \/ (found /\ state = 0))
BY DEF WriteSectors, Off

(* A step that saves.                                                       *)
LEMMA SavingKeepsRecord ==
  ASSUME RecordInv, NEW writes, NEW next, WriteSectors(writes, next), Saving,
         next \in {"dump_info", "clear_log", "dump_log", "dump_index", "report"},
         state' = state, v' = v, found' = found
  PROVE  RecordInv'
<1>1. state = 0
  BY DEF RecordInv, GoesOnClean
<1>2. verify_get_result' = verify_get_result
  BY DEF verify_get_result
<1>3. CASE pc' = next /\ forgot' = forgot
  BY <1>1, <1>2, <1>3 DEF RecordInv, StateIsKnown, GoesOnClean, FoundIsOnRecord, Saving
<1>4. CASE pc' = "off" /\ forgot' = (forgot \/ (found /\ state = 0))
  BY <1>1, <1>4 DEF RecordInv, StateIsKnown, GoesOnClean, FoundIsOnRecord, Saving
<1> QED BY <1>3, <1>4, WritingChanges

LEMMA RecordNext == AreaTyped /\ RecordInv /\ [Next]_vars => RecordInv'
<1> SUFFICES ASSUME AreaTyped, RecordInv, [Next]_vars PROVE RecordInv'
  OBVIOUS
<1>a. StateIsKnown /\ GoesOnClean /\ FoundIsOnRecord
  BY DEF RecordInv
<1>1. CASE ClearState
  <2>1. ~Saving /\ pc' \in {"prepared", "stopped", "erase"}
    <3>1. area.itself \in BOOLEAN /\ area.start + area.length \in Nat /\ area.device \in Nat
      BY DEF AreaTyped
    <3> QED BY <1>1, <3>1 DEF ClearState, Saving
  <2> QED BY <1>1, <1>a, <2>1 DEF ClearState, RecordInv, StateIsKnown, GoesOnClean,
             FoundIsOnRecord, Saving, history
<1>2. ASSUME Erase \/ Check \/ Fill PROVE RecordInv'
  <2>1. /\ ~Saving /\ pc' \in {"check", "fill", "stopped", "boot", "prepared"}
        /\ UNCHANGED <<state, v, found, forgot>>
    BY <1>2 DEF Erase, Check, Fill, Prepared, Saving, verification, history
  <2> QED BY <1>a, <2>1 DEF RecordInv, StateIsKnown, GoesOnClean, FoundIsOnRecord, Saving
<1>3. ASSUME Reset \/ PowerOn \/ PrepareAgain PROVE RecordInv'
  <2>1. /\ ~Saving /\ pc' \in {"clear_state", "boot"}
        /\ UNCHANGED <<state, found, forgot>>
    BY <1>3 DEF Reset, PowerOn, PrepareAgain, plr_start_initialization, Saving, history
  <2> QED BY <1>a, <2>1 DEF RecordInv, StateIsKnown, GoesOnClean, FoundIsOnRecord, Saving
<1>4. CASE Boot
  <2>1. /\ ~Saving /\ UNCHANGED <<state, found, forgot>>
        /\ \/ state # 0 /\ pc' = "stopped"
           \/ state = 0 /\ pc' = "verify"
    BY <1>4 DEF Boot, Start, Saving, history
  <2> QED BY <1>a, <2>1 DEF RecordInv, StateIsKnown, GoesOnClean, FoundIsOnRecord, Saving
<1>5. ASSUME Insert \/ NextStep PROVE RecordInv'
  <2>1. pc = "verify" /\ UNCHANGED <<state, pc, found, forgot>>
    BY <1>5 DEF Insert, NextStep, history
  <2> QED BY <1>a, <2>1 DEF RecordInv, StateIsKnown, GoesOnClean, FoundIsOnRecord, Saving
<1>6. CASE Judge
  <2>1. /\ pc = "verify" /\ ~Saving /\ UNCHANGED <<state, forgot>>
        /\ pc' = IF verify_get_result' = 0 THEN "write" ELSE "clear_info"
        /\ found' = (found \/ verify_get_result' = PLR_ECRASH)
    BY <1>6 DEF Judge, Saving
  <2>2. state = 0 /\ (found => forgot)
    BY <1>a, <2>1 DEF GoesOnClean, FoundIsOnRecord, PLR_ECRASH
  <2> QED BY <1>a, <2>1, <2>2 DEF RecordInv, StateIsKnown, GoesOnClean, FoundIsOnRecord, Saving,
             PLR_ECRASH
<1>7. CASE ClearInfo
  BY <1>7, SavingKeepsRecord DEF ClearInfo, Saving
<1>8. CASE DumpInfo
  <2>1. PICK long : WriteSectors(CrashInfo(long), "clear_log")
    BY <1>8 DEF DumpInfo
  <2> QED BY <1>8, <2>1, SavingKeepsRecord DEF DumpInfo, Saving
<1>9. CASE ClearLog
  BY <1>9, SavingKeepsRecord DEF ClearLog, Saving
<1>10. CASE DumpLog
  BY <1>10, SavingKeepsRecord DEF DumpLog, Saving
<1>11. CASE DumpIndex
  BY <1>11, SavingKeepsRecord DEF DumpIndex, Saving
<1>12. CASE Report
  <2>1. /\ Saving /\ pc' = "stopped" /\ UNCHANGED <<v, found>>
        /\ \/ /\ state' = IF verify_get_result = PLR_ECRASH THEN PLR_ECRASH ELSE state
              /\ UNCHANGED forgot
           \/ forgot' = TRUE /\ UNCHANGED state
    BY <1>12 DEF Report, Saving, verification
  <2>2. state = 0 /\ ~Saving' /\ pc' \notin {"verify", "write"}
    BY <1>a, <2>1 DEF GoesOnClean, Saving
  <2>3. found /\ ~forgot' => state' = PLR_ECRASH
    BY <1>a, <2>1, <2>2 DEF StateIsKnown, FoundIsOnRecord, PLR_ECRASH
  <2> QED BY <1>a, <2>1, <2>2, <2>3 DEF RecordInv, StateIsKnown, GoesOnClean, FoundIsOnRecord
<1>13. CASE Write
  <2>1. /\ pc = "write" /\ ~Saving /\ pc' = "boot" /\ UNCHANGED <<state, found, forgot>>
    BY <1>13 DEF Write, Saving, history
  <2> QED BY <1>a, <2>1 DEF RecordInv, StateIsKnown, GoesOnClean, FoundIsOnRecord, Saving
<1>14. CASE PowerOff
  <2>1. /\ pc' = "off" /\ UNCHANGED <<state, found>>
        /\ forgot' = (forgot \/ (found /\ state = 0))
    BY <1>14 DEF PowerOff, Off
  <2> QED BY <1>a, <2>1 DEF RecordInv, StateIsKnown, GoesOnClean, FoundIsOnRecord, Saving
<1>15. CASE UNCHANGED vars
  BY <1>a, <1>15 DEF vars, RecordInv, StateIsKnown, GoesOnClean, FoundIsOnRecord, Saving,
     verify_get_result
<1> QED BY <1>1, <1>2, <1>3, <1>4, <1>5, <1>6, <1>7, <1>8, <1>9, <1>10, <1>11, <1>12, <1>13,
           <1>14, <1>15 DEF Next

(* A crash that was found is remembered (verification_error_result,         *)
(* previous_crash_state_result): for every log and every verification,      *)
(* however often the board restarts and wherever the SD card fails.         *)
THEOREM CrashRemembered == Spec => []CrashIsRemembered
<1>1. PreparationInv => AreaTyped
  BY DEF PreparationInv
<1> QED BY <1>1, PreparationHolds, RecordInit, RecordNext, RecordMeans, PTL DEF Spec

-------------------------------------------------------------------------------
(* What tr finds when the board has stopped with a crash on record.         *)

\* An index with the place of the first text in front.
BeginsRight(index) ==
  /\ \E places : index \in Seq(places)
  /\ index # <<>> /\ index[1] = SAVE_HISTORY_REQUEST_INFO_SECTOR_NUM

CardThere == SAVE_HISTORY_INFO_SECTOR_NUM \in DOMAIN card

FaultsCounted == faults \in Int /\ faults <= MaxFaults

IndexGrows ==
  pc = "dump_log" =>
    /\ save.step \in 1 .. Len(LogSteps)
    /\ IF save.step = 1
       THEN save.at = SAVE_HISTORY_REQUEST_INFO_SECTOR_NUM /\ save.index = <<>>
       ELSE BeginsRight(save.index)

IndexDone == pc = "dump_index" => BeginsRight(save.index)

SaveAnew == pc \in {"clear_info", "dump_info", "clear_log"} => save = NoSave

LogIsThere == ~Faulty /\ (pc = "report" \/ state = PLR_ECRASH) => Loadable

LogInv ==
  CardThere /\ FaultsCounted /\ SaveAnew /\ IndexGrows /\ IndexDone /\ LogIsThere

LEMMA LogInit == Init => LogInv
<1> SUFFICES ASSUME Init PROVE LogInv
  OBVIOUS
<1>1. /\ pc = "clear_state" /\ state = 0 /\ faults = MaxFaults
      /\ DOMAIN card = SAVE_VERIFY_RESULT_SECTOR_NUM .. LastSector
  BY DEF Init
<1>2. MaxRequests[1] \in Nat
  BY BoundsAssumption
<1>3. CardThere
  BY <1>1, <1>2 DEF CardThere, LastSector, SAVE_HISTORY_REQUEST_INFO_SECTOR_NUM,
     SAVE_VERIFY_RESULT_SECTOR_NUM, SAVE_HISTORY_INFO_SECTOR_NUM
<1> QED BY <1>1, <1>3, BoundsAssumption DEF LogInv, FaultsCounted, SaveAnew, IndexGrows,
           IndexDone, LogIsThere, PLR_ECRASH

(* An index that grows at its end begins as it did.                         *)
LEMMA IndexAppended ==
  ASSUME NEW index, NEW at, NEW length, BeginsRight(index)
  PROVE  BeginsRight(index \o <<at, length>>)
<1>1. PICK places : index \in Seq(places)
  BY DEF BeginsRight
<1> DEFINE more == places \cup {at, length}
<1>2. index \in Seq(more) /\ <<at, length>> \in Seq(more)
  BY <1>1
<1> HIDE DEF more
<1>3. index \o <<at, length>> \in Seq(more) /\ Len(index) \in Nat \ {0}
  BY <1>2 DEF BeginsRight
<1>4. (index \o <<at, length>>)[1] = index[1] /\ index \o <<at, length>> # <<>>
  BY <1>2, <1>3
<1> QED BY <1>3, <1>4 DEF BeginsRight

LEMMA IndexBegun ==
  ASSUME NEW length
  PROVE  BeginsRight(<<>> \o <<SAVE_HISTORY_REQUEST_INFO_SECTOR_NUM, length>>)
<1>1. PICK first : first = SAVE_HISTORY_REQUEST_INFO_SECTOR_NUM
  OBVIOUS
<1>2. <<first, length>> \in Seq({first, length}) /\ <<>> \in Seq({first, length})
  OBVIOUS
<1>3. <<>> \o <<first, length>> = <<first, length>>
  BY <1>2
<1>4. <<first, length>> # <<>> /\ <<first, length>>[1] = first
  OBVIOUS
<1> QED BY <1>1, <1>2, <1>3, <1>4 DEF BeginsRight

(* A write of sectors leaves a card, and if the SD card does not fail goes  *)
(* through, or the power goes.                                              *)
LEMMA WritingSucceeds ==
  ASSUME NEW writes, NEW next, WriteSectors(writes, next), CardThere, FaultsCounted
  PROVE  /\ CardThere' /\ FaultsCounted'
         /\ pc' \in {next, "off"}
         /\ ~Faulty' => ~Faulty /\ (pc' # "off" => card' = Written(writes, Len(writes)))
<1>1. PICK n \in 0 .. Len(writes) :
        /\ card' = Written(writes, n)
        /\ \/ n = Len(writes) /\ pc' = next /\ UNCHANGED <<faults, forgot>>
           \/ n < Len(writes) /\ Off
           \/ n < Len(writes) /\ faults > 0 /\ faults' = faults - 1 /\ pc' = next
              /\ UNCHANGED forgot
  BY DEF WriteSectors
<1>2. CardThere'
  BY <1>1 DEF CardThere, Written
<1> QED BY <1>1, <1>2, BoundsAssumption DEF FaultsCounted, Faulty, Off

(* The index is written with nothing else.                                  *)
LEMMA IndexWritten ==
  ASSUME NEW index, NEW writes, CardThere,
         writes = << Dump(SAVE_HISTORY_INFO_SECTOR_NUM, [Blank EXCEPT !.index = index]) >>,
         card' = Written(writes, Len(writes))
  PROVE  Index' = index
<1>1. PICK sector : sector = [Blank EXCEPT !.index = index]
  OBVIOUS
<1>2. sector.index = index
  BY <1>1 DEF Blank
<1>3. PICK at : at = SAVE_HISTORY_INFO_SECTOR_NUM
  OBVIOUS
<1>4. PICK write : write = Dump(at, sector)
  OBVIOUS
<1>5. DOMAIN write = {at} /\ write[at] = sector
  BY <1>4 DEF Dump
<1>6. writes = <<write>> /\ Len(writes) = 1 /\ at \in DOMAIN card
  BY <1>1, <1>3, <1>4 DEF CardThere
<1>7. {i \in 1 .. 1 : at \in DOMAIN writes[i]} = {1}
  BY <1>5, <1>6
<1>8. (CHOOSE i \in {1} : \A j \in {1} : j <= i) = 1
  OBVIOUS
<1>9. card'[at] = sector
  BY <1>5, <1>6, <1>7, <1>8 DEF Written
<1> QED BY <1>2, <1>3, <1>9 DEF Index

(* A step that leaves the card and what is saved alone, and does not begin  *)
(* to save.                                                                 *)
LEMMA LogIsKept ==
  ASSUME RecordInv, LogInv, card' = card, faults' \in {faults, faults - 1},
         faults' = faults \/ faults > 0,
         ~Saving',
         state' = PLR_ECRASH => state = PLR_ECRASH \/ pc = "report"
  PROVE  LogInv'
<1>1. CardThere /\ FaultsCounted /\ LogIsThere
  BY DEF LogInv
<1>2. CardThere' /\ FaultsCounted' /\ (~Faulty' => ~Faulty)
  BY <1>1, BoundsAssumption DEF CardThere, FaultsCounted, Faulty
<1>3. Loadable' = Loadable
  BY DEF Loadable, Index
<1>4. LogIsThere'
  BY <1>1, <1>2, <1>3 DEF LogIsThere, Saving
<1> QED BY <1>2, <1>4 DEF LogInv, SaveAnew, IndexGrows, IndexDone, Saving

(* A step that saves ahead of the index.                                    *)
LEMMA ClearingKeepsLog ==
  ASSUME RecordInv, LogInv, NEW writes, NEW next, WriteSectors(writes, next),
         pc \in {"clear_info", "dump_info", "clear_log"},
         next \in {"dump_info", "clear_log", "dump_log"}, UNCHANGED <<state, save>>
  PROVE  LogInv'
<1>1. CardThere /\ FaultsCounted /\ save = NoSave
  BY DEF LogInv, SaveAnew
<1>2. CardThere' /\ FaultsCounted' /\ pc' \in {next, "off"}
  BY <1>1, WritingSucceeds
<1>3. state # PLR_ECRASH
  BY DEF RecordInv, GoesOnClean, Saving, PLR_ECRASH
<1> QED BY <1>1, <1>2, <1>3 DEF LogInv, SaveAnew, IndexGrows, IndexDone, LogIsThere, NoSave,
           LogSteps

LEMMA DumpLogKeepsLog == RecordInv /\ LogInv /\ DumpLog => LogInv'
<1> SUFFICES ASSUME RecordInv, LogInv, DumpLog PROVE LogInv'
  OBVIOUS
<1>1. CardThere /\ FaultsCounted /\ IndexGrows /\ pc = "dump_log" /\ UNCHANGED state
  BY DEF LogInv, DumpLog
<1>2. PICK next : /\ next = IF save.step = Len(LogSteps) THEN "dump_index" ELSE "dump_log"
                  /\ \E writes : WriteSectors(writes, next)
  BY DEF DumpLog
<1>3. PICK used, length :
        save' = IF pc' = "off" THEN NoSave
                ELSE [step  |-> save.step + 1, at |-> save.at + used,
                      index |-> save.index \o <<save.at, length>>]
  BY DEF DumpLog
<1>4. CardThere' /\ FaultsCounted' /\ pc' \in {next, "off"}
  BY <1>1, <1>2, WritingSucceeds
<1>5. state' # PLR_ECRASH
  BY <1>1 DEF RecordInv, GoesOnClean, Saving, PLR_ECRASH
<1>6. CASE pc' = "off"
  BY <1>4, <1>5, <1>6 DEF LogInv, SaveAnew, IndexGrows, IndexDone, LogIsThere
<1>7. CASE pc' # "off"
  <2>1. pc' = next /\ save'.index = save.index \o <<save.at, length>>
        /\ save'.step = save.step + 1
    BY <1>3, <1>4, <1>7
  <2>2. save.step \in 1 .. 3
    BY <1>1 DEF IndexGrows, LogSteps
  <2>3. BeginsRight(save'.index)
    <3>1. CASE save.step = 1
      BY <1>1, <2>1, <3>1, IndexBegun DEF IndexGrows
    <3>2. CASE save.step # 1
      BY <1>1, <2>1, <3>2, IndexAppended DEF IndexGrows
    <3> QED BY <3>1, <3>2
  <2>4. Len(LogSteps) = 3
    BY DEF LogSteps
  <2>5. CASE save.step = 3
    BY <1>2, <1>4, <1>5, <2>1, <2>3, <2>4, <2>5 DEF LogInv, SaveAnew, IndexGrows, IndexDone,
       LogIsThere
  <2>6. CASE save.step # 3
    <3>1. pc' = "dump_log" /\ save'.step \in 1 .. 3 /\ save'.step # 1
      BY <1>2, <2>1, <2>2, <2>4, <2>6
    <3> QED BY <1>4, <1>5, <2>3, <2>4, <3>1 DEF LogInv, SaveAnew, IndexGrows, IndexDone,
               LogIsThere
  <2> QED BY <2>5, <2>6
<1> QED BY <1>6, <1>7

LEMMA DumpIndexKeepsLog == RecordInv /\ LogInv /\ DumpIndex => LogInv'
<1> SUFFICES ASSUME RecordInv, LogInv, DumpIndex PROVE LogInv'
  OBVIOUS
<1>1. /\ CardThere /\ FaultsCounted /\ BeginsRight(save.index) /\ pc = "dump_index"
      /\ UNCHANGED state
  BY DEF LogInv, IndexDone, DumpIndex
<1>2. PICK writes :
        /\ writes = << Dump(SAVE_HISTORY_INFO_SECTOR_NUM, [Blank EXCEPT !.index = save.index]) >>
        /\ WriteSectors(writes, "report")
  BY DEF DumpIndex
<1>3. /\ CardThere' /\ FaultsCounted' /\ pc' \in {"report", "off"}
      /\ ~Faulty' => ~Faulty /\ (pc' # "off" => card' = Written(writes, Len(writes)))
  BY <1>1, <1>2, WritingSucceeds
<1>4. state' # PLR_ECRASH
  BY <1>1 DEF RecordInv, GoesOnClean, Saving, PLR_ECRASH
<1>5. ASSUME ~Faulty', pc' = "report" PROVE Loadable'
  <2>1. PICK index : index = save.index
    OBVIOUS
  <2>2. Index' = index
    BY <1>1, <1>2, <1>3, <1>5, <2>1, IndexWritten
  <2> QED BY <1>1, <2>1, <2>2 DEF Loadable, BeginsRight
<1> QED BY <1>3, <1>4, <1>5 DEF LogInv, SaveAnew, IndexGrows, IndexDone, LogIsThere

LEMMA LogNext == AreaTyped /\ RecordInv /\ LogInv /\ [Next]_vars => LogInv'
<1> SUFFICES ASSUME AreaTyped, RecordInv, LogInv, [Next]_vars PROVE LogInv'
  OBVIOUS
<1>1. ASSUME \/ ClearState \/ Erase \/ Check \/ Fill \/ Reset \/ Boot \/ Insert \/ NextStep
             \/ Report \/ Write \/ PowerOff \/ PowerOn \/ PrepareAgain
      PROVE  LogInv'
  <2>1. ~Saving'
    <3>1. CASE ClearState
      <4>1. area.itself \in BOOLEAN /\ area.start + area.length \in Nat /\ area.device \in Nat
        BY DEF AreaTyped
      <4> QED BY <3>1, <4>1 DEF ClearState, Saving
    <3>2. CASE Erase \/ Check \/ Fill
      BY <3>2 DEF Erase, Check, Fill, Prepared, Saving
    <3>3. CASE Reset \/ PowerOn
      BY <3>3 DEF Reset, PowerOn, plr_start_initialization, Saving
    <3>4. CASE Boot \/ Insert \/ NextStep \/ Report \/ Write \/ PowerOff \/ PrepareAgain
      BY <3>4 DEF Boot, Start, Insert, NextStep, Report, Write, PowerOff, Off, PrepareAgain, Saving
    <3> QED BY <1>1, <3>1, <3>2, <3>3, <3>4
  <2>2. card' = card
    BY <1>1 DEF ClearState, Erase, Check, Fill, Reset, Boot, Insert, NextStep, Report, Write,
       PowerOff, PowerOn, PrepareAgain
  <2>3. faults' \in {faults, faults - 1} /\ (faults' = faults \/ faults > 0)
    BY <1>1 DEF ClearState, Erase, Check, Fill, Reset, Boot, Insert, NextStep, Report, Write,
       PowerOff, Off, PowerOn, PrepareAgain
  <2>4. state' = PLR_ECRASH => state = PLR_ECRASH \/ pc = "report"
    <3>1. CASE ClearState
      BY <3>1 DEF ClearState, PLR_ECRASH
    <3>2. CASE Report
      BY <3>2 DEF Report
    <3>3. CASE ~ClearState /\ ~Report
      BY <1>1, <3>3 DEF Erase, Check, Fill, Reset, Boot, Insert, NextStep, Write, PowerOff,
         PowerOn, PrepareAgain
    <3> QED BY <3>1, <3>2, <3>3
  <2> QED BY <2>1, <2>2, <2>3, <2>4, LogIsKept
<1>2. CASE Judge
  <2>1. /\ pc = "verify" /\ pc' \in {"write", "clear_info"} /\ save' = NoSave
        /\ UNCHANGED <<card, state, faults>>
    BY <1>2 DEF Judge
  <2>2. state # PLR_ECRASH
    BY <2>1 DEF RecordInv, GoesOnClean, PLR_ECRASH
  <2> QED BY <2>1, <2>2 DEF LogInv, CardThere, FaultsCounted, SaveAnew, IndexGrows, IndexDone,
             LogIsThere
<1>3. CASE ClearInfo
  BY <1>3, ClearingKeepsLog DEF ClearInfo
<1>4. CASE DumpInfo
  <2>1. PICK long : WriteSectors(CrashInfo(long), "clear_log")
    BY <1>4 DEF DumpInfo
  <2> QED BY <1>4, <2>1, ClearingKeepsLog DEF DumpInfo
<1>5. CASE ClearLog
  BY <1>5, ClearingKeepsLog DEF ClearLog
<1>6. CASE UNCHANGED vars
  BY <1>6 DEF vars, LogInv, CardThere, FaultsCounted, SaveAnew, IndexGrows, IndexDone, LogIsThere,
     Loadable, Index, Faulty
<1> QED BY <1>1, <1>2, <1>3, <1>4, <1>5, <1>6, DumpLogKeepsLog, DumpIndexKeepsLog DEF Next

\* What CrashIsPrinted asks of the card when the board has stopped with a crash.
CrashLeavesLog == ~Faulty /\ pc = "stopped" /\ state = PLR_ECRASH => Loadable

(* When the board has stopped with a crash on record, there is a log on the *)
(* SD card that verify_load_log takes (verify_save_log), wherever the power *)
(* went on the way there, as long as the SD card does not fail.             *)
THEOREM CrashHasLog == Spec => []CrashLeavesLog
<1>1. PreparationInv => AreaTyped
  BY DEF PreparationInv
<1>2. LogInv => CrashLeavesLog
  BY DEF LogInv, LogIsThere, CrashLeavesLog
<1> QED BY <1>1, <1>2, PreparationHolds, RecordInit, RecordNext, LogInit, LogNext, PTL DEF Spec
===============================================================================
