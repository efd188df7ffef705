----------------------------- MODULE ReadDisturb -----------------------------
(***************************************************************************)
(* The read disturbance cases daxx_0008 to 0012: how they prepare the      *)
(* whole device before the first boot, and which of the readings of the    *)
(* test area that follow are compared with what was written.  The unit is  *)
(* the 8 MB piece the cases write and read at a time.                      *)
(*                                                                         *)
(* A preparation is a sequence of passes, each over the pieces from at up  *)
(* to to, with the reference pattern or with random data.                  *)
(***************************************************************************)
EXTENDS Integers, Sequences

CONSTANTS
  DeviceLength,     \* total_device_sector
  ratio_of_filled,  \* per cent of the device 0009 writes over
  Word,             \* 2^32 in the code: unsigned arithmetic
  RD_REPEAT_COUNT,  \* readings in one loop, 1000 in the code
  CompareEvery,     \* the readings compared in 0011 and 0012, every 100th
  MaxRandomPasses   \* bound: passes 0009 makes until its time is over

ASSUME DeviceAssumption ==
  /\ DeviceLength \in Nat \ {0} /\ Word > DeviceLength /\ ratio_of_filled \in 0 .. 100
  /\ RD_REPEAT_COUNT \in Nat \ {0} /\ CompareEvery \in Nat \ {0}

ReadDisturbCases == {"daxx_0008", "daxx_0009", "daxx_0010", "daxx_0011", "daxx_0012"}

Pass(to, data) == [at |-> 0, to |-> to, data |-> data]

Whole(data) == Pass(DeviceLength, data)

Times(n, pass) == [i \in 1 .. n |-> pass]

\* What is drawn between two passes is not told apart from what was drawn before.
\* finish.value counts the passes, and the last of them writes the reference pattern.
fill_0008(value) ==
  IF value < 1 THEN {<<>>} ELSE {Times(value - 1, Whole("RANDOM")) \o <<Whole("REF")>>}

\* Where 0009 stops: the product is taken before the division, and in a word.
ratio_addr == ((DeviceLength * ratio_of_filled) % Word) \div 100

\* finish.value is a time.
fill_0009(value) ==
  IF value = 0 THEN {<<>>}
  ELSE { <<Whole("REF")>> \o Times(n, Pass(ratio_addr, "RANDOM")) \o <<Pass(ratio_addr, "REF")>> :
           n \in 0 .. MaxRandomPasses }

\* filled_data.type says whether it is the reference pattern that is written.
fill_0010(value) == {Times(value, Whole("REF")), Times(value, Whole("RANDOM"))}

\* The workload writes random data anywhere in a stretch as long as the test area that
\* begins with the device; its results are not looked at.  0011 sleeps in between.
do_workload_0011(value, length) ==
  {(IF value = 0 THEN <<>> ELSE <<Pass(length, "WORKLOAD")>>) \o <<Whole("REF")>>}

do_workload_0012(value, length) ==
  {(IF value = 0 THEN <<>> ELSE <<Pass(length, "WORKLOAD")>>) \o <<Whole("REF")>>}

\* The device is prepared on the first boot only, and {} is what does nothing.
initialize_daxx_0008(boot, value) == IF boot \in {0, 1} THEN fill_0008(value) ELSE {}
initialize_daxx_0009(boot, value) == IF boot \in {0, 1} THEN fill_0009(value) ELSE {}
initialize_daxx_0010(boot, value) == IF boot \in {0, 1} THEN fill_0010(value) ELSE {}

initialize_daxx_0011(boot, value, length) ==
  IF boot \in {0, 1} THEN do_workload_0011(value, length) ELSE {}

initialize_daxx_0012(boot, value, length) ==
  IF boot \in {0, 1} THEN do_workload_0012(value, length) ELSE {}

Preparations(case, boot, value, length) ==
  CASE case = "daxx_0008" -> initialize_daxx_0008(boot, value)
    [] case = "daxx_0009" -> initialize_daxx_0009(boot, value)
    [] case = "daxx_0010" -> initialize_daxx_0010(boot, value)
    [] case = "daxx_0011" -> initialize_daxx_0011(boot, value, length)
    [] case = "daxx_0012" -> initialize_daxx_0012(boot, value, length)

-------------------------------------------------------------------------------
\* b_verify of the extra_verification of each case, in reading i.
extra_verification_0008(i) == FALSE
extra_verification_0010(i) == FALSE

\* Mutant: the flag is taken back before the reading it was set for.
extra_verification_0011_Never(i) == FALSE

extra_verification_0011(i) == i % CompareEvery = 0
extra_verification_0012(i) == i % CompareEvery = 0

Compared(case, i) ==
  CASE case = "daxx_0008" -> extra_verification_0008(i)
    [] case = "daxx_0010" -> extra_verification_0010(i)
    [] case = "daxx_0011" -> extra_verification_0011(i)
    [] case = "daxx_0012" -> extra_verification_0012(i)
===============================================================================
