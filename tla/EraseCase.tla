------------------------------ MODULE EraseCase ------------------------------
(***************************************************************************)
(* The verification of the test cases dpin_0009 to 0012, whose even loops  *)
(* erase, trim, discard or sanitize what the odd ones wrote.  In an even   *)
(* loop a page is expected when it is all zero; a request with another is  *)
(* suspected, however it was torn, and from there on a page that fails     *)
(* verify_check_page, which one all zero does not, is a crash.             *)
(***************************************************************************)
EXTENDS VerifyCore

\* The engine is in a loop that erases.
Erasing(e) == e.loop % 2 = 0

verify_normal_customizing(e, lsn, o) ==
  CASE o.io                           -> [eng |-> verify_set_result(e, VERI_EIO), ret |-> VERI_EIO]
    [] ~o.io /\ AllExpected(o.pages)  -> [eng |-> e, ret |-> VERI_NOERR]
    [] ~o.io /\ ~AllExpected(o.pages) ->
         [eng |-> verify_set_unexpected_info(verify_set_status(e, "UNCONFIRMED"), lsn),
          ret |-> VERI_EREQUEST]

\* Mutant: what is not all zero proves that the erase came first.
verify_unconfirmed_customizing_Zero(e, o) ==
  IF AllExpected(o.pages) THEN [eng |-> e, ret |-> VERI_NOERR]
  ELSE [eng |-> verify_set_status(verify_set_result(e, VERI_EREQUEST), "CRASH"),
        ret |-> VERI_EREQUEST]

verify_unconfirmed_customizing(e, o) ==
  CASE o.io           -> [eng |-> verify_set_result(e, VERI_EIO), ret |-> VERI_EIO]
    [] ~o.io /\ o.hit -> [eng |-> verify_set_status(verify_set_result(e, VERI_EREQUEST), "CRASH"),
                          ret |-> VERI_EREQUEST]
    [] ~o.io /\ ~o.hit -> [eng |-> e, ret |-> VERI_NOERR]

\* do_verify with the functions initialize_dpin_0009_12 registers.
do_verify_customized(e, c, lsn, count, o) ==
  IF WindowFull(e) \/ ~Erasing(e) THEN do_verify(e, c, lsn, count, o)
  ELSE LET e1 == CountRequest(e, c, lsn)
           r  == IF e1.verify = "normal" THEN verify_normal_customizing(e1, lsn, o)
                                         ELSE verify_unconfirmed_customizing(e1, o)
       IN  Answer(set_last_lsn_in_cached_list(r.eng, c, lsn, count), c, r.ret)
===============================================================================
