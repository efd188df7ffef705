------------------------------ MODULE VerifyCore ------------------------------
(***************************************************************************)
(* The verification engine of plr_verify.c as operators on one record, e,  *)
(* which holds the file's static variables.  A "configuration" c holds the *)
(* fields of g_plr_state the engine reads, and an "observation" o what the *)
(* pages of one request look like when they are read back:                 *)
(*   o.io      dd_read failed                                              *)
(*   o.pages   one BOOLEAN per page, TRUE when its header is the expected  *)
(*   o.hit     some page fails verify_check_page, or is a page this status *)
(*             looks at and carries the expected loop count                *)
(* Packed mode is left out: get_mmc_packed_enable always returns 0 in this *)
(* build, and plr_start_writing then refuses to run.                       *)
(***************************************************************************)
EXTENDS Integers, Sequences

CONSTANT RequestWindow  \* VERI_REQUEST_CNT_UNCONFIRMED_STATUS, 256 in the code

ASSUME RequestWindowAssumption == RequestWindow \in Nat \ {0}

VERI_NOERR    == 0
VERI_EIO      == 1
VERI_EREQUEST == 5
VERI_EPARTIAL == 6

PLR_EIO    == 2
PLR_ECRASH == 5

\* do_verify's "stop the pattern" answer, VERI_STATUS_FINISH in the code.
VERI_STATUS_FINISH == 3

PREVIOUS_LAST_PO == -1
LAST_PO          == 0

Statuses == {"NORMAL", "UNCONFIRMED", "CRASH"}
Results  == {VERI_NOERR, VERI_EIO, VERI_EREQUEST, VERI_EPARTIAL}
Steps    == {"DEFAULT", "LSN_CRC", "EXTRA"}

\* The static variables of plr_verify.c.
Engine ==
  [ status : Statuses, result : Results, verify : {"normal", "unconfirmed"},
    cnt : 0 .. RequestWindow, afterPO : {PREVIOUS_LAST_PO} \cup Nat,
    step : Steps, crashed : SUBSET Steps,
    info : [lsn : Nat, loop : Nat, boot : Nat],
    loop : Nat, boot : Nat, cached : Nat, lastLsn : Nat, gotLast : BOOLEAN ]

\* _unconfirmed_crash_info after the memset of verify_reset.
NoInfo == [lsn |-> 0, loop |-> 0, boot |-> 0]

verify_reset(loop, boot) ==
  [ status |-> "NORMAL",  result |-> VERI_NOERR,  verify  |-> "normal",
    cnt    |-> 0,         afterPO |-> PREVIOUS_LAST_PO,
    step   |-> "DEFAULT", crashed |-> {},         info    |-> NoInfo,
    loop   |-> loop,      boot    |-> boot,
    cached |-> 0,         lastLsn |-> 0,          gotLast |-> FALSE ]

verify_set_status(e, s) == [e EXCEPT !.status = s]

verify_set_loop_count(e, loop) == [e EXCEPT !.loop = loop]

verify_set_current_step(e, s) == [e EXCEPT !.step = s]

\* Mutant: the step at fault is not taken from the current step.
verify_set_result_DefaultStep(e, r) ==
  [e EXCEPT !.result  = r,
            !.crashed = IF r >= VERI_EREQUEST THEN @ \cup {"DEFAULT"} ELSE @]

verify_set_result(e, r) ==
  [e EXCEPT !.result  = r,
            !.crashed = IF r >= VERI_EREQUEST THEN @ \cup {e.step} ELSE @]

verify_set_unexpected_info(e, lsn) ==
  [e EXCEPT !.info = [lsn |-> lsn, loop |-> e.loop, boot |-> e.boot]]

verify_get_error_num(e) == IF e.result = VERI_EIO THEN PLR_EIO ELSE 0

verify_get_crash_num(e) == IF e.result >= VERI_EREQUEST THEN PLR_ECRASH ELSE 0

verify_get_result(e) ==
  IF verify_get_error_num(e) # 0 THEN verify_get_error_num(e)
                                 ELSE verify_get_crash_num(e)

(***************************************************************************)
(* classify_partial_type counts the changes from one page to the next and  *)
(* looks at the last page; check_partial_writing turns the class into an   *)
(* error depending on how much the test (its minor number) tolerates.      *)
(***************************************************************************)
Changes(pages) == {i \in 2 .. Len(pages) : pages[i] # pages[i - 1]}

classify_partial_type(pages) ==
  CASE Changes(pages) = {} /\ ~pages[Len(pages)]           -> 0
    [] (\E i \in Changes(pages) : Changes(pages) = {i})
                               /\ pages[Len(pages)]        -> 1
    [] Changes(pages) = {} /\ pages[Len(pages)]            -> 3
    [] OTHER                                               -> 2

check_partial_writing(pages, minor) ==
  LET type == classify_partial_type(pages)
  IN  IF \/ type = 1 /\ minor <= 0
         \/ type = 2 /\ minor <= 1
      THEN VERI_EPARTIAL ELSE VERI_NOERR

AllExpected(pages) == \A i \in DOMAIN pages : pages[i]

(***************************************************************************)
(* The two verification functions.  Each returns the engine after the call *)
(* and the value it returns to do_verify.                                  *)
(***************************************************************************)
verify_normal_status(e, c, lsn, o) ==
  IF o.io THEN [eng |-> verify_set_result(e, VERI_EIO), ret |-> VERI_EIO]
  ELSE IF AllExpected(o.pages) THEN [eng |-> e, ret |-> VERI_NOERR]
  ELSE LET partial == ~c.cache /\ check_partial_writing(o.pages, c.minor) = VERI_EPARTIAL
           seen    == IF partial
                      THEN verify_set_result(verify_set_status(e, "CRASH"), VERI_EPARTIAL)
                      ELSE verify_set_status(e, "UNCONFIRMED")
       IN  [eng |-> verify_set_unexpected_info(seen, lsn), ret |-> VERI_EREQUEST]

verify_unconfirmed_status(e, o) ==
  IF o.io THEN [eng |-> verify_set_result(e, VERI_EIO), ret |-> VERI_EIO]
  ELSE IF o.hit
  THEN [eng |-> verify_set_status(verify_set_result(e, VERI_EPARTIAL), "CRASH"),
        ret |-> VERI_EREQUEST]
  ELSE [eng |-> e, ret |-> VERI_NOERR]

(***************************************************************************)
(* set_last_lsn_in_cached_list: count the requests since the last flush    *)
(* request seen in normal status, and once something is suspected, stop at *)
(* the request that fills the flush cycle.                                 *)
(***************************************************************************)
\* Mutant: the prediction stops one request short of the flush cycle.
set_last_lsn_in_cached_list_TooShort(e, c, lsn, count) ==
  IF e.gotLast \/ ~c.cache THEN e
  ELSE LET flushed == count % c.cycle = 0 /\ e.status = "NORMAL"
           n       == (IF flushed THEN 0 ELSE e.cached) + 1
       IN  IF e.status # "NORMAL" /\ n + 1 >= c.cycle
           THEN [e EXCEPT !.cached = n, !.lastLsn = lsn, !.gotLast = TRUE]
           ELSE [e EXCEPT !.cached = n]

set_last_lsn_in_cached_list(e, c, lsn, count) ==
  IF e.gotLast \/ ~c.cache THEN e
  ELSE LET flushed == count % c.cycle = 0 /\ e.status = "NORMAL"
           n       == (IF flushed THEN 0 ELSE e.cached) + 1
       IN  IF e.status # "NORMAL" /\ n >= c.cycle
           THEN [e EXCEPT !.cached = n, !.lastLsn = lsn, !.gotLast = TRUE]
           ELSE [e EXCEPT !.cached = n]

(***************************************************************************)
(* do_verify: called by a test case's pattern for every request.           *)
(***************************************************************************)
\* Mutant: the window counts requests before the suspicion too.
CountRequest_Always(e, c, lsn) ==
  [e EXCEPT !.cnt     = @ + 1,
            !.afterPO = IF c.internal /\ lsn = c.poffPos THEN LAST_PO
                        ELSE IF @ >= LAST_PO THEN @ + 1 ELSE @]

\* Mutant: the power-off request itself is counted as one after it.
CountRequest_LateIncrement(e, c, lsn) ==
  [e EXCEPT !.cnt     = IF e.status # "NORMAL" THEN @ + 1 ELSE @,
            !.afterPO = IF c.internal /\ lsn = c.poffPos THEN LAST_PO + 1
                        ELSE IF @ >= LAST_PO THEN @ + 1 ELSE @]

CountRequest(e, c, lsn) ==
  [e EXCEPT
     !.cnt     = IF e.status # "NORMAL" THEN @ + 1 ELSE @,
     !.afterPO = IF c.internal /\ lsn = c.poffPos THEN LAST_PO
                 ELSE IF @ >= LAST_PO THEN @ + 1 ELSE @]

\* Mutant: a verification that has not met the power-off request yet is let pass.
FarFromPowerOff_OnlyBehind(e, c) ==
  /\ c.poffPos # 0 /\ c.internal /\ ~c.cache /\ ~c.erase
  /\ e.afterPO > LAST_PO + 1

\* The first unexpected request must be the one the power was cut in, or the next one.
FarFromPowerOff(e, c) ==
  /\ c.poffPos # 0 /\ c.internal /\ ~c.cache /\ ~c.erase
  /\ e.afterPO = PREVIOUS_LAST_PO \/ e.afterPO > LAST_PO + 1

\* Mutant: the verification function is not switched.
Suspect_KeepsNormal(e, c) ==
  IF e.status = "UNCONFIRMED" /\ FarFromPowerOff(e, c)
  THEN verify_set_result(verify_set_status(e, "CRASH"), VERI_EREQUEST)
  ELSE e

Suspect(e, c) ==
  IF e.status # "UNCONFIRMED" THEN e
  ELSE LET judged == IF FarFromPowerOff(e, c)
                     THEN verify_set_result(verify_set_status(e, "CRASH"), VERI_EREQUEST)
                     ELSE e
       IN  [judged EXCEPT !.verify = "unconfirmed"]

\* What do_verify makes of the verification function's answer.
Answer(e, c, ret) ==
  CASE ret = VERI_NOERR -> [eng |-> e, ret |-> VERI_NOERR]
    [] ret = VERI_EIO   -> [eng |-> e, ret |-> verify_get_result(e)]
    [] OTHER            -> [eng |-> Suspect(e, c), ret |-> VERI_NOERR]

\* Mutant: the window is one request too long.
WindowFull_TooLong(e) == e.cnt > RequestWindow

WindowFull(e) == e.cnt >= RequestWindow

do_verify(e, c, lsn, count, o) ==
  IF WindowFull(e) THEN [eng |-> e, ret |-> VERI_STATUS_FINISH]
  ELSE LET e1 == CountRequest(e, c, lsn)
           r  == IF e1.verify = "normal" THEN verify_normal_status(e1, c, lsn, o)
                                         ELSE verify_unconfirmed_status(e1, o)
           e2 == set_last_lsn_in_cached_list(r.eng, c, lsn, count)
       IN  Answer(e2, c, r.ret)

(***************************************************************************)
(* verify_check_pages_lsn_crc_loop over a zone: read fails, or some page   *)
(* fails its header check, or all is well.                                 *)
(***************************************************************************)
\* What a check of a zone may answer.
Answers == {"ok", "bad", "io"}

\* Mutant: a good zone clears the result of the steps before.
verify_check_random_zone_Clears(e, zone) ==
  CASE zone = "io"  -> verify_set_result(e, VERI_EIO)
    [] zone = "bad" -> verify_set_status(verify_set_result(e, VERI_EREQUEST), "CRASH")
    [] zone = "ok"  -> verify_set_result(e, VERI_NOERR)

verify_check_random_zone(e, zone) ==
  CASE zone = "io"  -> verify_set_result(e, VERI_EIO)
    [] zone = "bad" -> verify_set_status(verify_set_result(e, VERI_EREQUEST), "CRASH")
    [] zone = "ok"  -> e
===============================================================================
