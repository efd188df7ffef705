--------------------------- MODULE VerifyCore_proofs ---------------------------
(***************************************************************************)
(* What each function of the verification engine changes, and when it      *)
(* blames the step at hand, for every window, engine and configuration.    *)
(* DoVerify and DoVerifyBlames put them together, one case for each way a  *)
(* request can be read.                                                    *)
(***************************************************************************)
EXTENDS VerifyCore, TLAPS

\* The configurations the engine may be given, and what it may read of a request.
Values == [ cache : BOOLEAN, internal : BOOLEAN, erase : BOOLEAN,
            poffPos : Nat, minor : Nat, cycle : Nat \ {0} ]

Readings == [io : BOOLEAN, pages : Seq(BOOLEAN), hit : BOOLEAN]

-------------------------------------------------------------------------------
(* CountRequest touches the two counters and nothing else, and does not     *)
(* count a request before the first suspicion.                              *)
LEMMA CountRequestChanges ==
  ASSUME NEW en \in Engine, NEW cf \in Values, NEW lsn \in Nat, ~WindowFull(en)
  PROVE  LET r == CountRequest(en, cf, lsn)
         IN  /\ r \in Engine
             /\ r.status = en.status /\ r.result = en.result /\ r.verify = en.verify
             /\ r.info = en.info /\ r.loop = en.loop
             /\ en.status = "NORMAL" => r.cnt = en.cnt
<1> DEFINE n == IF en.status # "NORMAL" THEN en.cnt + 1 ELSE en.cnt
           a == IF cf.internal /\ lsn = cf.poffPos THEN LAST_PO
                ELSE IF en.afterPO >= LAST_PO THEN en.afterPO + 1 ELSE en.afterPO
<1>1. n \in 0 .. RequestWindow
  BY RequestWindowAssumption DEF Engine, WindowFull
<1>2. a \in {PREVIOUS_LAST_PO} \cup Nat
  BY DEF Engine, LAST_PO, PREVIOUS_LAST_PO
<1>3. CountRequest(en, cf, lsn) = [en EXCEPT !.cnt = n, !.afterPO = a]
  BY DEF CountRequest
<1>4. en.status = "NORMAL" => n = en.cnt
  OBVIOUS
<1> HIDE DEF n, a
<1> QED
  BY <1>1, <1>2, <1>3, <1>4 DEF Engine

(* set_last_lsn_in_cached_list touches the prediction and nothing else.     *)
LEMMA CachedListChanges ==
  ASSUME NEW en \in Engine, NEW cf \in Values, NEW lsn \in Nat, NEW n \in Nat \ {0}
  PROVE  LET r == set_last_lsn_in_cached_list(en, cf, lsn, n)
         IN  /\ r \in Engine
             /\ r.status = en.status /\ r.result = en.result /\ r.verify = en.verify
             /\ r.info = en.info /\ r.loop = en.loop /\ r.cnt = en.cnt
<1> DEFINE k == (IF n % cf.cycle = 0 /\ en.status = "NORMAL" THEN 0 ELSE en.cached) + 1
<1>1. k \in Nat
  BY DEF Engine
<1>2. set_last_lsn_in_cached_list(en, cf, lsn, n) \in
        {en, [en EXCEPT !.cached = k, !.lastLsn = lsn, !.gotLast = TRUE],
             [en EXCEPT !.cached = k]}
  BY DEF set_last_lsn_in_cached_list
<1> HIDE DEF k
<1>3. CASE set_last_lsn_in_cached_list(en, cf, lsn, n) = en
  BY <1>3
<1>4. CASE set_last_lsn_in_cached_list(en, cf, lsn, n)
             = [en EXCEPT !.cached = k, !.lastLsn = lsn, !.gotLast = TRUE]
  BY <1>1, <1>4 DEF Engine
<1>5. CASE set_last_lsn_in_cached_list(en, cf, lsn, n) = [en EXCEPT !.cached = k]
  BY <1>1, <1>5 DEF Engine
<1> QED
  BY <1>2, <1>3, <1>4, <1>5

(* The setters change one field, or the result and the steps at fault.      *)
LEMMA SetResultChanges ==
  ASSUME NEW en \in Engine, NEW value \in Results
  PROVE  LET r == verify_set_result(en, value)
         IN  /\ r \in Engine
             /\ r.result = value
             /\ r.status = en.status /\ r.verify = en.verify /\ r.info = en.info
             /\ r.loop = en.loop /\ r.boot = en.boot /\ r.cnt = en.cnt
<1> DEFINE k == IF value >= VERI_EREQUEST THEN en.crashed \cup {en.step} ELSE en.crashed
<1>1. k \in SUBSET Steps
  BY DEF Engine
<1>2. verify_set_result(en, value) = [en EXCEPT !.result = value, !.crashed = k]
  BY DEF verify_set_result
<1> HIDE DEF k
<1> QED
  BY <1>1, <1>2 DEF Engine

LEMMA SetStatusChanges ==
  ASSUME NEW en \in Engine, NEW value \in Statuses
  PROVE  LET r == verify_set_status(en, value)
         IN  /\ r \in Engine
             /\ r.status = value
             /\ r.result = en.result /\ r.verify = en.verify /\ r.info = en.info
             /\ r.loop = en.loop /\ r.boot = en.boot /\ r.cnt = en.cnt
  BY DEF verify_set_status, Engine

LEMMA SetUnexpectedInfoChanges ==
  ASSUME NEW en \in Engine, NEW lsn \in Nat
  PROVE  LET r == verify_set_unexpected_info(en, lsn)
         IN  /\ r \in Engine
             /\ r.info.lsn = lsn /\ r.info.loop = en.loop
             /\ r.status = en.status /\ r.result = en.result /\ r.verify = en.verify
             /\ r.loop = en.loop /\ r.cnt = en.cnt
<1> DEFINE k == [lsn |-> lsn, loop |-> en.loop, boot |-> en.boot]
<1>1. k \in [lsn : Nat, loop : Nat, boot : Nat] /\ k.lsn = lsn /\ k.loop = en.loop
  BY DEF Engine
<1>2. verify_set_unexpected_info(en, lsn) = [en EXCEPT !.info = k]
  BY DEF verify_set_unexpected_info
<1> HIDE DEF k
<1> QED
  BY <1>1, <1>2 DEF Engine

(* A request that does not read as expected leaves normal status and is     *)
(* recorded; a crash is recorded as a result, and no result is taken back.  *)
LEMMA NormalStatusChanges ==
  ASSUME NEW en \in Engine, NEW cf \in Values, NEW lsn \in Nat, NEW o \in Readings
  PROVE  LET r == verify_normal_status(en, cf, lsn, o)
         IN  /\ r.eng \in Engine
             /\ r.eng.cnt = en.cnt /\ r.eng.loop = en.loop /\ r.eng.verify = en.verify
             /\ o.io => r.ret = VERI_EIO /\ r.eng.result = VERI_EIO /\ r.eng.status = en.status
                                         /\ r.eng.info = en.info
             /\ ~o.io /\ AllExpected(o.pages) => r.ret = VERI_NOERR /\ r.eng = en
             /\ ~o.io /\ ~AllExpected(o.pages) =>
                  /\ r.ret = VERI_EREQUEST
                  /\ r.eng.status \in {"UNCONFIRMED", "CRASH"}
                  /\ r.eng.result \in {en.result, VERI_EPARTIAL}
                  /\ r.eng.status = "CRASH" => r.eng.result = VERI_EPARTIAL
                  /\ r.eng.info.lsn = lsn /\ r.eng.info.loop = en.loop
<1> DEFINE r == verify_normal_status(en, cf, lsn, o)
           marked == verify_set_status(en, "CRASH")
           torn == verify_set_result(marked, VERI_EPARTIAL)
           odd  == verify_set_status(en, "UNCONFIRMED")
<1>1. {VERI_NOERR, VERI_EIO, VERI_EREQUEST, VERI_EPARTIAL} \subseteq Results
      /\ {"UNCONFIRMED", "CRASH"} \subseteq Statuses
      /\ VERI_EREQUEST # VERI_EIO
  BY DEF Results, Statuses, VERI_EIO, VERI_EREQUEST
<1>2. CASE o.io
  <2>1. r = [eng |-> verify_set_result(en, VERI_EIO), ret |-> VERI_EIO]
    BY <1>2 DEF verify_normal_status
  <2> QED
    BY <1>1, <1>2, <2>1, SetResultChanges
<1>3. CASE ~o.io /\ AllExpected(o.pages)
  <2>1. r = [eng |-> en, ret |-> VERI_NOERR]
    BY <1>3 DEF verify_normal_status
  <2> QED
    BY <1>3, <2>1
<1>4. CASE ~o.io /\ ~AllExpected(o.pages)
  <2>1. PICK seen \in {torn, odd} :
          r = [eng |-> verify_set_unexpected_info(seen, lsn), ret |-> VERI_EREQUEST]
    BY <1>4 DEF verify_normal_status
  <2>2. /\ marked \in Engine /\ marked.status = "CRASH"
        /\ marked.verify = en.verify /\ marked.loop = en.loop /\ marked.cnt = en.cnt
    BY <1>1, SetStatusChanges
  <2>3. /\ torn \in Engine /\ torn.status = "CRASH" /\ torn.result = VERI_EPARTIAL
        /\ torn.verify = en.verify /\ torn.loop = en.loop /\ torn.cnt = en.cnt
    <3> HIDE DEF r, marked
    <3> QED
      BY <1>1, <2>2, SetResultChanges
  <2>4. /\ odd \in Engine /\ odd.status = "UNCONFIRMED" /\ odd.result = en.result
        /\ odd.verify = en.verify /\ odd.loop = en.loop /\ odd.cnt = en.cnt
    BY <1>1, SetStatusChanges
  <2> HIDE DEF r, marked, torn, odd
  <2>5. /\ seen \in Engine
        /\ seen.verify = en.verify /\ seen.loop = en.loop /\ seen.cnt = en.cnt
        /\ seen.status \in {"UNCONFIRMED", "CRASH"}
        /\ seen.result \in {en.result, VERI_EPARTIAL}
        /\ seen.status = "CRASH" => seen.result = VERI_EPARTIAL
    BY <2>1, <2>3, <2>4
  <2>6. LET x == verify_set_unexpected_info(seen, lsn)
        IN  /\ x \in Engine
            /\ x.info.lsn = lsn /\ x.info.loop = en.loop
            /\ x.status = seen.status /\ x.result = seen.result /\ x.verify = en.verify
            /\ x.loop = en.loop /\ x.cnt = en.cnt
    BY <2>5, SetUnexpectedInfoChanges
  <2>7. r.eng = verify_set_unexpected_info(seen, lsn) /\ r.ret = VERI_EREQUEST
    BY <2>1
  <2> QED
    BY <1>1, <1>4, <2>5, <2>6, <2>7 DEF r
<1> QED
  BY <1>2, <1>3, <1>4

(* A hit in unconfirmed status is a crash; anything else changes nothing.   *)
LEMMA UnconfirmedStatusChanges ==
  ASSUME NEW en \in Engine, NEW o \in Readings
  PROVE  LET r == verify_unconfirmed_status(en, o)
         IN  /\ r.eng \in Engine
             /\ r.eng.cnt = en.cnt /\ r.eng.loop = en.loop /\ r.eng.verify = en.verify
             /\ r.eng.info = en.info
             /\ o.io => r.ret = VERI_EIO /\ r.eng.result = VERI_EIO /\ r.eng.status = en.status
             /\ ~o.io /\ ~o.hit => r.ret = VERI_NOERR /\ r.eng = en
             /\ ~o.io /\ o.hit => /\ r.ret = VERI_EREQUEST
                                  /\ r.eng.status = "CRASH" /\ r.eng.result = VERI_EPARTIAL
<1> DEFINE r == verify_unconfirmed_status(en, o)
           hit == verify_set_status(verify_set_result(en, VERI_EPARTIAL), "CRASH")
<1>1. {VERI_EIO, VERI_EPARTIAL} \subseteq Results /\ "CRASH" \in Statuses
  BY DEF Results, Statuses
<1>2. CASE o.io
  <2>1. r = [eng |-> verify_set_result(en, VERI_EIO), ret |-> VERI_EIO]
    BY <1>2 DEF verify_unconfirmed_status
  <2> QED
    BY <1>1, <1>2, <2>1, SetResultChanges
<1>3. CASE ~o.io /\ ~o.hit
  <2>1. r = [eng |-> en, ret |-> VERI_NOERR]
    BY <1>3 DEF verify_unconfirmed_status
  <2> QED
    BY <1>3, <2>1
<1>4. CASE ~o.io /\ o.hit
  <2>1. r = [eng |-> hit, ret |-> VERI_EREQUEST]
    BY <1>4 DEF verify_unconfirmed_status
  <2>2. verify_set_result(en, VERI_EPARTIAL) \in Engine
    BY <1>1, SetResultChanges
  <2>3. /\ hit \in Engine /\ hit.status = "CRASH" /\ hit.result = VERI_EPARTIAL
        /\ hit.verify = en.verify /\ hit.loop = en.loop /\ hit.cnt = en.cnt
        /\ hit.info = en.info
    <3> HIDE DEF r
    <3> QED
      BY <1>1, <2>2, SetResultChanges, SetStatusChanges
  <2> QED
    BY <1>4, <2>1, <2>3
<1> QED
  BY <1>2, <1>3, <1>4 DEF Readings

(* A suspicion switches the verification function, and is a crash when it   *)
(* is far from where the power was cut.                                     *)
LEMMA SuspectChanges ==
  ASSUME NEW en \in Engine, NEW cf \in Values
  PROVE  LET r == Suspect(en, cf)
         IN  /\ r \in Engine
             /\ r.cnt = en.cnt /\ r.loop = en.loop /\ r.info = en.info
             /\ r.result \in {en.result, VERI_EREQUEST}
             /\ en.status # "UNCONFIRMED" => r = en
             /\ en.status = "UNCONFIRMED" => /\ r.verify = "unconfirmed"
                                             /\ r.status \in {"UNCONFIRMED", "CRASH"}
  BY DEF Suspect, verify_set_result, verify_set_status, Engine, Statuses, Results, Steps,
         VERI_EREQUEST, VERI_EPARTIAL, VERI_EIO, VERI_NOERR

-------------------------------------------------------------------------------
\* What a request that is read leaves of the engine when nothing is wrong with it.
Untouched(en, r) ==
  /\ r.status = en.status /\ r.verify = en.verify /\ r.info = en.info
  /\ en.status = "NORMAL" => r.cnt = en.cnt

(* What do_verify answers for each way a request can be read.               *)
LEMMA DoVerify ==
  ASSUME NEW en \in Engine, NEW cf \in Values, NEW lsn \in Nat, NEW n \in Nat \ {0},
         NEW o \in Readings
  PROVE  LET r == do_verify(en, cf, lsn, n, o)
         IN  /\ r.eng \in Engine
             /\ r.eng.loop = en.loop
             /\ WindowFull(en) => r.eng = en /\ r.ret = VERI_STATUS_FINISH
             /\ ~WindowFull(en) => r.ret # VERI_STATUS_FINISH
             /\ ~WindowFull(en) /\ o.io =>
                  r.ret # 0 /\ r.eng.result = VERI_EIO /\ Untouched(en, r.eng)
             /\ ~WindowFull(en) /\ ~o.io => r.ret = 0
             /\ ~WindowFull(en) /\ ~o.io /\ en.verify = "normal" /\ AllExpected(o.pages) =>
                  r.eng.result = en.result /\ Untouched(en, r.eng)
             /\ ~WindowFull(en) /\ ~o.io /\ en.verify = "normal" /\ ~AllExpected(o.pages) =>
                  /\ r.eng.status # "NORMAL"
                  /\ r.eng.result \in {en.result, VERI_EREQUEST, VERI_EPARTIAL}
                  /\ r.eng.verify = "normal" => r.eng.result # VERI_NOERR
                  /\ r.eng.info.lsn = lsn /\ r.eng.info.loop = en.loop
             /\ ~WindowFull(en) /\ ~o.io /\ en.verify # "normal" /\ ~o.hit =>
                  r.eng.result = en.result /\ Untouched(en, r.eng)
             /\ ~WindowFull(en) /\ ~o.io /\ en.verify # "normal" /\ o.hit =>
                  /\ r.eng.status = "CRASH" /\ r.eng.result = VERI_EPARTIAL
                  /\ r.eng.verify = en.verify /\ r.eng.info = en.info
<1> DEFINE r  == do_verify(en, cf, lsn, n, o)
           e1 == CountRequest(en, cf, lsn)
           v  == IF e1.verify = "normal" THEN verify_normal_status(e1, cf, lsn, o)
                                         ELSE verify_unconfirmed_status(e1, o)
           e2 == set_last_lsn_in_cached_list(v.eng, cf, lsn, n)
<1>1. CASE WindowFull(en)
  <2>1. r = [eng |-> en, ret |-> VERI_STATUS_FINISH]
    BY <1>1 DEF do_verify
  <2> QED
    BY <1>1, <2>1
<1>2. CASE ~WindowFull(en)
  <2>1. r = Answer(e2, cf, v.ret)
    BY <1>2 DEF do_verify
  <2>2. /\ e1 \in Engine /\ Untouched(en, e1)
        /\ e1.result = en.result /\ e1.loop = en.loop
    BY <1>2, CountRequestChanges DEF Untouched
  <2> HIDE DEF r, e1
  <2>3. /\ v.eng \in Engine
        /\ v.eng.cnt = e1.cnt /\ v.eng.loop = e1.loop /\ v.eng.verify = e1.verify
        /\ o.io => /\ v.ret = VERI_EIO /\ v.eng.result = VERI_EIO
                   /\ v.eng.status = e1.status /\ v.eng.info = e1.info
        /\ ~o.io /\ e1.verify = "normal" /\ AllExpected(o.pages) =>
             v.ret = VERI_NOERR /\ v.eng = e1
        /\ ~o.io /\ e1.verify = "normal" /\ ~AllExpected(o.pages) =>
             /\ v.ret = VERI_EREQUEST
             /\ v.eng.status \in {"UNCONFIRMED", "CRASH"}
             /\ v.eng.result \in {e1.result, VERI_EPARTIAL}
             /\ v.eng.status = "CRASH" => v.eng.result = VERI_EPARTIAL
             /\ v.eng.info.lsn = lsn /\ v.eng.info.loop = e1.loop
        /\ ~o.io /\ e1.verify # "normal" /\ ~o.hit => v.ret = VERI_NOERR /\ v.eng = e1
        /\ ~o.io /\ e1.verify # "normal" /\ o.hit =>
             /\ v.ret = VERI_EREQUEST /\ v.eng.info = e1.info
             /\ v.eng.status = "CRASH" /\ v.eng.result = VERI_EPARTIAL
    <3>1. CASE e1.verify = "normal"
      BY <2>2, <3>1, NormalStatusChanges
    <3>2. CASE e1.verify # "normal"
      BY <2>2, <3>2, UnconfirmedStatusChanges
    <3> QED
      BY <3>1, <3>2
  <2> HIDE DEF v
  <2>4. /\ e2 \in Engine
        /\ e2.status = v.eng.status /\ e2.result = v.eng.result /\ e2.verify = v.eng.verify
        /\ e2.info = v.eng.info /\ e2.loop = v.eng.loop /\ e2.cnt = v.eng.cnt
    BY <2>3, CachedListChanges
  <2> HIDE DEF e2
  <2>5. /\ v.ret = VERI_NOERR => r = [eng |-> e2, ret |-> VERI_NOERR]
        /\ v.ret = VERI_EIO => r = [eng |-> e2, ret |-> verify_get_result(e2)]
        /\ v.ret = VERI_EREQUEST => r = [eng |-> Suspect(e2, cf), ret |-> VERI_NOERR]
    BY <2>1 DEF Answer, VERI_NOERR, VERI_EIO, VERI_EREQUEST
  <2>6. e2.result = VERI_EIO => verify_get_result(e2) = PLR_EIO
    BY DEF verify_get_result, verify_get_error_num, PLR_EIO
  <2>7. /\ Suspect(e2, cf) \in Engine
        /\ Suspect(e2, cf).info = e2.info /\ Suspect(e2, cf).loop = e2.loop
        /\ Suspect(e2, cf).result \in {e2.result, VERI_EREQUEST}
        /\ e2.status # "UNCONFIRMED" => Suspect(e2, cf) = e2
        /\ e2.status = "UNCONFIRMED" => /\ Suspect(e2, cf).verify = "unconfirmed"
                                        /\ Suspect(e2, cf).status \in {"UNCONFIRMED", "CRASH"}
    BY <2>4, SuspectChanges
  <2>8. /\ VERI_NOERR = 0 /\ VERI_EPARTIAL # VERI_NOERR
        /\ PLR_EIO # 0 /\ PLR_EIO # VERI_STATUS_FINISH /\ VERI_NOERR # VERI_STATUS_FINISH
    BY DEF VERI_NOERR, VERI_EPARTIAL, PLR_EIO, VERI_STATUS_FINISH
  <2>9. CASE o.io
    BY <1>2, <2>2, <2>3, <2>4, <2>5, <2>6, <2>8, <2>9 DEF Untouched, r
  <2>10. CASE ~o.io /\ e1.verify = "normal" /\ AllExpected(o.pages)
    BY <1>2, <2>2, <2>3, <2>4, <2>5, <2>8, <2>10 DEF Untouched, r
  <2>11. CASE ~o.io /\ e1.verify = "normal" /\ ~AllExpected(o.pages)
    BY <1>2, <2>2, <2>3, <2>4, <2>5, <2>7, <2>8, <2>11 DEF Untouched, r
  <2>12. CASE ~o.io /\ e1.verify # "normal" /\ ~o.hit
    BY <1>2, <2>2, <2>3, <2>4, <2>5, <2>8, <2>12 DEF Untouched, r
  <2>13. CASE ~o.io /\ e1.verify # "normal" /\ o.hit
    BY <1>2, <2>2, <2>3, <2>4, <2>5, <2>7, <2>8, <2>13 DEF Untouched, r
  <2> QED
    BY <2>9, <2>10, <2>11, <2>12, <2>13
<1> QED
  BY <1>1, <1>2

-------------------------------------------------------------------------------
(* A fresh engine is one.                                                   *)
LEMMA ResetType ==
  ASSUME NEW loop \in Nat, NEW boot \in Nat
  PROVE  verify_reset(loop, boot) \in Engine
  BY RequestWindowAssumption
  DEF verify_reset, Engine, Statuses, Results, Steps, NoInfo, VERI_NOERR, PREVIOUS_LAST_PO

(* The zone check and the extra check set a result, unless all is well.     *)
LEMMA RandomZoneChanges ==
  ASSUME NEW en \in Engine, NEW zone \in Answers
  PROVE  LET r == verify_check_random_zone(en, zone)
         IN  /\ r \in Engine
             /\ r.info = en.info /\ r.verify = en.verify /\ r.cnt = en.cnt
             /\ zone = "ok"  => r = en
             /\ zone = "bad" => r.result = VERI_EREQUEST /\ r.status = "CRASH"
             /\ zone = "io"  => r.result = VERI_EIO /\ r.status = en.status
<1>1. {VERI_EIO, VERI_EREQUEST} \subseteq Results /\ "CRASH" \in Statuses
  BY DEF Results, Statuses
<1>2. CASE zone = "ok"
  BY <1>2 DEF verify_check_random_zone
<1>3. CASE zone = "bad"
  <2>1. verify_check_random_zone(en, zone)
          = verify_set_status(verify_set_result(en, VERI_EREQUEST), "CRASH")
    BY <1>3 DEF verify_check_random_zone
  <2> QED
    BY <1>1, <1>3, <2>1, SetResultChanges, SetStatusChanges
<1>4. CASE zone = "io"
  <2>1. verify_check_random_zone(en, zone) = verify_set_result(en, VERI_EIO)
    BY <1>4 DEF verify_check_random_zone
  <2> QED
    BY <1>1, <1>4, <2>1, SetResultChanges
<1> QED
  BY <1>2, <1>3, <1>4 DEF Answers

LEMMA CurrentStepChanges ==
  ASSUME NEW en \in Engine, NEW step \in Steps
  PROVE  LET r == verify_set_current_step(en, step)
         IN  /\ r \in Engine
             /\ r.status = en.status /\ r.result = en.result /\ r.verify = en.verify
             /\ r.info = en.info /\ r.cnt = en.cnt
  BY DEF verify_set_current_step, Engine

LEMMA LoopCountChanges ==
  ASSUME NEW en \in Engine, NEW loop \in Nat
  PROVE  LET r == verify_set_loop_count(en, loop)
         IN  /\ r \in Engine
             /\ r.status = en.status /\ r.result = en.result /\ r.verify = en.verify
             /\ r.info = en.info /\ r.cnt = en.cnt
  BY DEF verify_set_loop_count, Engine

\* Which results verify_get_crash_num reports.
LEMMA CrashNum ==
  ASSUME NEW en \in Engine
  PROVE  /\ verify_get_crash_num(en) # 0 <=> en.result \in {VERI_EREQUEST, VERI_EPARTIAL}
         /\ verify_get_result(en) = 0 => verify_get_crash_num(en) = 0
  BY DEF verify_get_result, verify_get_error_num, verify_get_crash_num, Engine, Results,
         VERI_NOERR, VERI_EIO, VERI_EREQUEST, VERI_EPARTIAL, PLR_EIO, PLR_ECRASH

-------------------------------------------------------------------------------
\* How far behind the request the power was cut in the next request is.
After(en, cf, lsn) ==
  IF cf.internal /\ lsn = cf.poffPos THEN LAST_PO
  ELSE IF en.afterPO >= LAST_PO THEN en.afterPO + 1 ELSE en.afterPO

Far(after, cf) ==
  /\ cf.poffPos # 0 /\ cf.internal /\ ~cf.cache /\ ~cf.erase
  /\ after = PREVIOUS_LAST_PO \/ after > LAST_PO + 1

Intolerable(cf, o) == ~cf.cache /\ check_partial_writing(o.pages, cf.minor) = VERI_EPARTIAL

\* What the verification functions leave alone.
Kept(en, r) == /\ r.cnt = en.cnt /\ r.afterPO = en.afterPO
               /\ r.step = en.step /\ r.boot = en.boot

Quiet(en, r) == Kept(en, r) /\ r.crashed = en.crashed /\ r.result = en.result

Blamed(en, r) == /\ Kept(en, r) /\ r.crashed = en.crashed \cup {en.step}
                 /\ r.result \in {VERI_EREQUEST, VERI_EPARTIAL}

(* A crash is blamed on the current step; an error of the device on none.   *)
LEMMA SetResultBlames ==
  ASSUME NEW en \in Engine, NEW value \in Results
  PROVE  LET r == verify_set_result(en, value)
         IN  /\ value \in {VERI_EREQUEST, VERI_EPARTIAL} => Blamed(en, r)
             /\ value \in {VERI_EIO, VERI_NOERR} => Kept(en, r) /\ r.crashed = en.crashed
<1> DEFINE k == IF value >= VERI_EREQUEST THEN en.crashed \cup {en.step} ELSE en.crashed
<1>1. verify_set_result(en, value) = [en EXCEPT !.result = value, !.crashed = k]
  BY DEF verify_set_result
<1>2. /\ value \in {VERI_EREQUEST, VERI_EPARTIAL} => k = en.crashed \cup {en.step}
      /\ value \in {VERI_EIO, VERI_NOERR} => k = en.crashed
  BY DEF VERI_EREQUEST, VERI_EPARTIAL, VERI_EIO, VERI_NOERR
<1> HIDE DEF k
<1> QED BY <1>1, <1>2 DEF Engine, Blamed, Kept

(* The status, what is unexpected and the prediction blame no step.         *)
LEMMA SettersAreQuiet ==
  ASSUME NEW en \in Engine, NEW cf, NEW lsn, NEW n, NEW status
  PROVE  /\ Quiet(en, verify_set_status(en, status))
         /\ Quiet(en, verify_set_unexpected_info(en, lsn))
         /\ Quiet(en, set_last_lsn_in_cached_list(en, cf, lsn, n))
<1>1. Quiet(en, verify_set_status(en, status))
  BY DEF Engine, Quiet, Kept, verify_set_status
<1>2. Quiet(en, verify_set_unexpected_info(en, lsn))
  BY DEF Engine, Quiet, Kept, verify_set_unexpected_info
<1>3. Quiet(en, set_last_lsn_in_cached_list(en, cf, lsn, n))
  <2> DEFINE k == (IF n % cf.cycle = 0 /\ en.status = "NORMAL" THEN 0 ELSE en.cached) + 1
  <2>1. set_last_lsn_in_cached_list(en, cf, lsn, n) \in
          {en, [en EXCEPT !.cached = k, !.lastLsn = lsn, !.gotLast = TRUE],
               [en EXCEPT !.cached = k]}
    BY DEF set_last_lsn_in_cached_list
  <2> HIDE DEF k
  <2> QED BY <2>1 DEF Engine, Quiet, Kept
<1> QED BY <1>1, <1>2, <1>3

(* CountRequest counts, and finds how far behind the power-off it is.       *)
LEMMA CountRequestCounts ==
  ASSUME NEW en \in Engine, NEW cf \in Values, NEW lsn \in Nat
  PROVE  LET r == CountRequest(en, cf, lsn)
         IN  /\ r.cnt = IF en.status # "NORMAL" THEN en.cnt + 1 ELSE en.cnt
             /\ r.afterPO = After(en, cf, lsn)
             /\ r.step = en.step /\ r.boot = en.boot
             /\ r.crashed = en.crashed /\ r.result = en.result
  BY DEF CountRequest, After, Engine

(* Which functions blame the step for what they find in a request.          *)
LEMMA NormalStatusBlames ==
  ASSUME NEW en \in Engine, NEW cf \in Values, NEW lsn \in Nat, NEW o \in Readings
  PROVE  LET r == verify_normal_status(en, cf, lsn, o)
         IN  /\ o.io => Kept(en, r.eng) /\ r.eng.crashed = en.crashed
             /\ ~o.io /\ ~AllExpected(o.pages) /\ Intolerable(cf, o) =>
                  Blamed(en, r.eng) /\ r.eng.status = "CRASH"
             /\ ~o.io /\ ~AllExpected(o.pages) /\ ~Intolerable(cf, o) =>
                  Quiet(en, r.eng) /\ r.eng.status = "UNCONFIRMED"
<1> DEFINE r == verify_normal_status(en, cf, lsn, o)
           marked == verify_set_status(en, "CRASH")
           torn == verify_set_result(marked, VERI_EPARTIAL)
           odd  == verify_set_status(en, "UNCONFIRMED")
<1>1. /\ {VERI_EIO, VERI_EPARTIAL} \subseteq Results
      /\ {"CRASH", "UNCONFIRMED"} \subseteq Statuses
  BY DEF Results, Statuses
<1>2. CASE o.io
  <2>1. r.eng = verify_set_result(en, VERI_EIO)
    BY <1>2 DEF verify_normal_status
  <2> QED BY <1>1, <1>2, <2>1, SetResultBlames
<1>3. CASE ~o.io /\ ~AllExpected(o.pages) /\ Intolerable(cf, o)
  <2>1. r.eng = verify_set_unexpected_info(torn, lsn)
    BY <1>3 DEF verify_normal_status, Intolerable
  <2>2. marked \in Engine /\ Quiet(en, marked) /\ marked.status = "CRASH"
    BY <1>1, SetStatusChanges, SettersAreQuiet
  <2> HIDE DEF r, marked
  <2>3. torn \in Engine /\ Blamed(marked, torn) /\ torn.status = "CRASH"
    BY <1>1, <2>2, SetResultBlames, SetResultChanges
  <2> HIDE DEF torn
  <2>4. r.eng.status = "CRASH" /\ Quiet(torn, r.eng)
    BY <2>1, <2>3, SettersAreQuiet, SetUnexpectedInfoChanges
  <2>5. Blamed(en, r.eng)
    BY <2>2, <2>3, <2>4 DEF Quiet, Blamed, Kept
  <2> QED BY <1>3, <2>4, <2>5 DEF r
<1>4. CASE ~o.io /\ ~AllExpected(o.pages) /\ ~Intolerable(cf, o)
  <2>1. r.eng = verify_set_unexpected_info(odd, lsn)
    BY <1>4 DEF verify_normal_status, Intolerable
  <2>2. odd \in Engine /\ Quiet(en, odd) /\ odd.status = "UNCONFIRMED"
    BY <1>1, SetStatusChanges, SettersAreQuiet
  <2> HIDE DEF r, odd
  <2>3. r.eng.status = "UNCONFIRMED" /\ Quiet(odd, r.eng)
    BY <2>1, <2>2, SettersAreQuiet, SetUnexpectedInfoChanges
  <2>4. Quiet(en, r.eng)
    BY <2>2, <2>3 DEF Quiet, Kept
  <2> QED BY <1>4, <2>3, <2>4 DEF r
<1> QED BY <1>2, <1>3, <1>4 DEF Readings

LEMMA UnconfirmedStatusBlames ==
  ASSUME NEW en \in Engine, NEW o \in Readings
  PROVE  LET r == verify_unconfirmed_status(en, o)
         IN  /\ o.io => Kept(en, r.eng) /\ r.eng.crashed = en.crashed
             /\ ~o.io /\ o.hit => Blamed(en, r.eng) /\ r.eng.status = "CRASH"
<1> DEFINE r == verify_unconfirmed_status(en, o)
           found == verify_set_result(en, VERI_EPARTIAL)
<1>1. {VERI_EIO, VERI_EPARTIAL} \subseteq Results /\ "CRASH" \in Statuses
  BY DEF Results, Statuses
<1>2. CASE o.io
  <2>1. r.eng = verify_set_result(en, VERI_EIO)
    BY <1>2 DEF verify_unconfirmed_status
  <2> QED BY <1>1, <1>2, <2>1, SetResultBlames
<1>3. CASE ~o.io /\ o.hit
  <2>1. r.eng = verify_set_status(found, "CRASH")
    BY <1>3 DEF verify_unconfirmed_status
  <2>2. found \in Engine /\ Blamed(en, found)
    BY <1>1, SetResultBlames, SetResultChanges
  <2> HIDE DEF r, found
  <2>3. Quiet(found, r.eng) /\ r.eng.status = "CRASH"
    BY <1>1, <2>1, <2>2, SettersAreQuiet, SetStatusChanges
  <2>4. Blamed(en, r.eng)
    BY <2>2, <2>3 DEF Quiet, Blamed, Kept
  <2> QED BY <1>3, <2>3, <2>4 DEF r
<1> QED BY <1>2, <1>3

(* A suspicion far from the power-off is a crash of the step.               *)
LEMMA SuspectBlames ==
  ASSUME NEW en \in Engine, NEW cf \in Values, en.status = "UNCONFIRMED"
  PROVE  LET r == Suspect(en, cf)
         IN  /\ Far(en.afterPO, cf) => Blamed(en, r)
             /\ ~Far(en.afterPO, cf) => Quiet(en, r)
             /\ r.verify = "unconfirmed"
<1> DEFINE marked == verify_set_status(en, "CRASH")
           judged == verify_set_result(marked, VERI_EREQUEST)
<1>1. FarFromPowerOff(en, cf) <=> Far(en.afterPO, cf)
  BY DEF FarFromPowerOff, Far
<1>2. VERI_EREQUEST \in Results /\ "CRASH" \in Statuses
  BY DEF Results, Statuses
<1>3. CASE Far(en.afterPO, cf)
  <2>1. Suspect(en, cf) = [judged EXCEPT !.verify = "unconfirmed"]
    BY <1>1, <1>3 DEF Suspect
  <2>2. marked \in Engine /\ Quiet(en, marked)
    BY <1>2, SetStatusChanges, SettersAreQuiet
  <2> HIDE DEF marked
  <2>3. judged \in Engine /\ Blamed(marked, judged)
    BY <1>2, <2>2, SetResultBlames, SetResultChanges
  <2> HIDE DEF judged
  <2> QED BY <1>3, <2>1, <2>2, <2>3 DEF Engine, Quiet, Blamed, Kept
<1>4. CASE ~Far(en.afterPO, cf)
  <2>1. Suspect(en, cf) = [en EXCEPT !.verify = "unconfirmed"]
    BY <1>1, <1>4 DEF Suspect
  <2> QED BY <1>4, <2>1 DEF Engine, Quiet, Kept
<1> QED BY <1>3, <1>4

-------------------------------------------------------------------------------
(* What do_verify counts, and when it blames the current step.              *)
LEMMA DoVerifyBlames ==
  ASSUME NEW en \in Engine, NEW cf \in Values, NEW lsn \in Nat, NEW n \in Nat \ {0},
         NEW o \in Readings, ~WindowFull(en)
  PROVE  LET r == do_verify(en, cf, lsn, n, o).eng
         IN  /\ r.cnt = IF en.status # "NORMAL" THEN en.cnt + 1 ELSE en.cnt
             /\ r.afterPO = After(en, cf, lsn) /\ r.step = en.step /\ r.boot = en.boot
             /\ \/ o.io
                \/ en.verify = "normal" /\ AllExpected(o.pages)
                \/ en.verify # "normal" /\ ~o.hit
                => r.crashed = en.crashed
             /\ ~o.io /\ en.verify = "normal" /\ ~AllExpected(o.pages) =>
                  IF Intolerable(cf, o) \/ Far(After(en, cf, lsn), cf)
                  THEN /\ r.crashed = en.crashed \cup {en.step}
                       /\ r.result \in {VERI_EREQUEST, VERI_EPARTIAL}
                  ELSE r.crashed = en.crashed /\ r.result = en.result
             /\ ~o.io /\ en.verify # "normal" /\ o.hit => r.crashed = en.crashed \cup {en.step}
<1> DEFINE r  == do_verify(en, cf, lsn, n, o)
           e1 == CountRequest(en, cf, lsn)
           v  == IF e1.verify = "normal" THEN verify_normal_status(e1, cf, lsn, o)
                                         ELSE verify_unconfirmed_status(e1, o)
           e2 == set_last_lsn_in_cached_list(v.eng, cf, lsn, n)
<1>1. r = Answer(e2, cf, v.ret)
  BY DEF do_verify
<1>2. /\ e1 \in Engine /\ e1.verify = en.verify
      /\ e1.cnt = IF en.status # "NORMAL" THEN en.cnt + 1 ELSE en.cnt
      /\ e1.afterPO = After(en, cf, lsn)
      /\ e1.step = en.step /\ e1.boot = en.boot
      /\ e1.crashed = en.crashed /\ e1.result = en.result
  BY CountRequestChanges, CountRequestCounts
<1> HIDE DEF r, e1
<1>3. /\ e1.verify = "normal" => v = verify_normal_status(e1, cf, lsn, o)
      /\ e1.verify # "normal" => v = verify_unconfirmed_status(e1, o)
  OBVIOUS
<1>4. /\ v.eng \in Engine
      /\ o.io => v.ret = VERI_EIO
      /\ ~o.io /\ e1.verify = "normal" /\ AllExpected(o.pages) =>
           v.ret = VERI_NOERR /\ v.eng = e1
      /\ ~o.io /\ e1.verify = "normal" /\ ~AllExpected(o.pages) => v.ret = VERI_EREQUEST
      /\ ~o.io /\ e1.verify # "normal" /\ ~o.hit => v.ret = VERI_NOERR /\ v.eng = e1
      /\ ~o.io /\ e1.verify # "normal" /\ o.hit => v.ret = VERI_EREQUEST
  <2>1. CASE e1.verify = "normal"
    BY <1>2, <1>3, <2>1, NormalStatusChanges
  <2>2. CASE e1.verify # "normal"
    BY <1>2, <1>3, <2>2, UnconfirmedStatusChanges
  <2> QED BY <2>1, <2>2
<1>5. /\ o.io => Kept(e1, v.eng) /\ v.eng.crashed = e1.crashed
      /\ ~o.io /\ e1.verify = "normal" /\ ~AllExpected(o.pages) /\ Intolerable(cf, o) =>
           Blamed(e1, v.eng) /\ v.eng.status = "CRASH"
      /\ ~o.io /\ e1.verify = "normal" /\ ~AllExpected(o.pages) /\ ~Intolerable(cf, o) =>
           Quiet(e1, v.eng) /\ v.eng.status = "UNCONFIRMED"
      /\ ~o.io /\ e1.verify # "normal" /\ o.hit =>
           Blamed(e1, v.eng) /\ v.eng.status = "CRASH"
  <2>1. CASE e1.verify = "normal"
    BY <1>2, <1>3, <2>1, NormalStatusBlames
  <2>2. CASE e1.verify # "normal"
    BY <1>2, <1>3, <2>2, UnconfirmedStatusBlames
  <2> QED BY <2>1, <2>2
<1> HIDE DEF v
<1>6. e2 \in Engine /\ Quiet(v.eng, e2) /\ e2.status = v.eng.status
  BY <1>4, CachedListChanges, SettersAreQuiet
<1> HIDE DEF e2
<1>7. /\ v.ret = VERI_NOERR => r.eng = e2
      /\ v.ret = VERI_EIO => r.eng = e2
      /\ v.ret = VERI_EREQUEST => r.eng = Suspect(e2, cf)
  BY <1>1 DEF Answer, VERI_NOERR, VERI_EIO, VERI_EREQUEST
<1>8. e2.status = "CRASH" => Suspect(e2, cf) = e2
  BY DEF Suspect
<1>9. CASE o.io
  BY <1>2, <1>4, <1>5, <1>6, <1>7, <1>9 DEF Quiet, Kept, r
<1>10. CASE ~o.io /\ e1.verify = "normal" /\ AllExpected(o.pages)
  BY <1>2, <1>4, <1>6, <1>7, <1>10 DEF Quiet, Kept, r
<1>11. CASE ~o.io /\ e1.verify # "normal" /\ ~o.hit
  BY <1>2, <1>4, <1>6, <1>7, <1>11 DEF Quiet, Kept, r
<1>12. CASE ~o.io /\ e1.verify # "normal" /\ o.hit
  BY <1>2, <1>4, <1>5, <1>6, <1>7, <1>8, <1>12 DEF Quiet, Blamed, Kept, r
<1>13. CASE ~o.io /\ e1.verify = "normal" /\ ~AllExpected(o.pages) /\ Intolerable(cf, o)
  BY <1>2, <1>4, <1>5, <1>6, <1>7, <1>8, <1>13 DEF Quiet, Blamed, Kept, r
<1>14. CASE ~o.io /\ e1.verify = "normal" /\ ~AllExpected(o.pages) /\ ~Intolerable(cf, o)
  <2>1. /\ r.eng = Suspect(e2, cf) /\ e2.status = "UNCONFIRMED" /\ Quiet(e1, e2)
    BY <1>4, <1>5, <1>6, <1>7, <1>14 DEF Quiet, Kept
  <2>2. /\ Far(e2.afterPO, cf) => Blamed(e2, r.eng)
        /\ ~Far(e2.afterPO, cf) => Quiet(e2, r.eng)
    BY <1>6, <2>1, SuspectBlames
  <2> QED BY <1>2, <1>14, <2>1, <2>2 DEF Quiet, Blamed, Kept, r
<1> QED BY <1>9, <1>10, <1>11, <1>12, <1>13, <1>14

-------------------------------------------------------------------------------
(* What the steps behind the pattern blame.                                 *)
LEMMA ZoneBlames ==
  ASSUME NEW en \in Engine, NEW zone \in Answers
  PROVE  LET r == verify_check_random_zone(en, zone)
         IN  /\ r.cnt = en.cnt
             /\ zone = "bad" => /\ r.crashed = en.crashed \cup {en.step}
                                /\ r.result = VERI_EREQUEST
             /\ zone # "bad" => r.crashed = en.crashed
             /\ zone = "io" => r.result = VERI_EIO
             /\ zone = "ok" => r.result = en.result
<1>1. {VERI_EIO, VERI_EREQUEST} \subseteq Results
  BY DEF Results
<1>2. CASE zone = "ok"
  BY <1>2 DEF verify_check_random_zone
<1>3. CASE zone = "bad"
  <2> DEFINE found == verify_set_result(en, VERI_EREQUEST)
  <2>1. verify_check_random_zone(en, zone) = verify_set_status(found, "CRASH")
    BY <1>3 DEF verify_check_random_zone
  <2>2. found \in Engine /\ Blamed(en, found) /\ found.result = VERI_EREQUEST
    BY <1>1, SetResultBlames, SetResultChanges
  <2> HIDE DEF found
  <2>3. Quiet(found, verify_set_status(found, "CRASH"))
    BY <2>2, SettersAreQuiet
  <2> QED BY <1>3, <2>1, <2>2, <2>3 DEF Quiet, Blamed, Kept
<1>4. CASE zone = "io"
  <2>1. verify_check_random_zone(en, zone) = verify_set_result(en, VERI_EIO)
    BY <1>4 DEF verify_check_random_zone
  <2> QED BY <1>1, <1>4, <2>1, SetResultBlames, SetResultChanges DEF Kept
<1> QED BY <1>2, <1>3, <1>4 DEF Answers

LEMMA StepBlames ==
  ASSUME NEW en \in Engine, NEW step
  PROVE  LET r == verify_set_current_step(en, step)
         IN  /\ r.step = step
             /\ r.cnt = en.cnt /\ r.crashed = en.crashed /\ r.result = en.result
             /\ r.status = en.status
  BY DEF verify_set_current_step, Engine

LEMMA LoopBlames ==
  ASSUME NEW en \in Engine, NEW loop
  PROVE  LET r == verify_set_loop_count(en, loop)
         IN  /\ Quiet(en, r) /\ r.status = en.status
  BY DEF verify_set_loop_count, Engine, Quiet, Kept
-------------------------------------------------------------------------------
\* The engine's prediction of what the cache held.
SamePrediction(a, b) ==
  a.gotLast = b.gotLast /\ a.lastLsn = b.lastLsn /\ a.cached = b.cached

(* The setters leave the prediction alone.                                  *)
LEMMA SettersPredictNothing ==
  ASSUME NEW en \in Engine, NEW cf, NEW lsn, NEW value, NEW status
  PROVE  /\ SamePrediction(en, CountRequest(en, cf, lsn))
         /\ SamePrediction(en, verify_set_status(en, status))
         /\ SamePrediction(en, verify_set_result(en, value))
         /\ SamePrediction(en, verify_set_unexpected_info(en, lsn))
<1>1. SamePrediction(en, CountRequest(en, cf, lsn))
  BY DEF CountRequest, Engine, SamePrediction
<1>2. SamePrediction(en, verify_set_status(en, status))
  BY DEF verify_set_status, Engine, SamePrediction
<1>3. SamePrediction(en, verify_set_result(en, value))
  BY DEF verify_set_result, Engine, SamePrediction
<1>4. SamePrediction(en, verify_set_unexpected_info(en, lsn))
  BY DEF verify_set_unexpected_info, Engine, SamePrediction
<1> QED BY <1>1, <1>2, <1>3, <1>4

(* So do the two verification functions, and what do_verify makes of them.  *)
LEMMA StatusPredictsNothing ==
  ASSUME NEW en \in Engine, NEW cf \in Values, NEW lsn \in Nat, NEW o \in Readings
  PROVE  /\ SamePrediction(en, verify_normal_status(en, cf, lsn, o).eng)
         /\ SamePrediction(en, verify_unconfirmed_status(en, o).eng)
         /\ SamePrediction(en, Suspect(en, cf))
         /\ Suspect(en, cf).status = "NORMAL" <=> en.status = "NORMAL"
<1>1. /\ VERI_EIO \in Results /\ VERI_EPARTIAL \in Results /\ VERI_EREQUEST \in Results
      /\ "CRASH" \in Statuses /\ "UNCONFIRMED" \in Statuses
  BY DEF Results, Statuses
<1>2. SamePrediction(en, verify_normal_status(en, cf, lsn, o).eng)
  <2>1. CASE o.io
    BY <2>1, SettersPredictNothing DEF verify_normal_status
  <2>2. CASE ~o.io /\ AllExpected(o.pages)
    BY <2>2 DEF verify_normal_status, SamePrediction
  <2>3. CASE ~o.io /\ ~AllExpected(o.pages)
    <3> DEFINE crash == verify_set_status(en, "CRASH")
               torn  == verify_set_result(crash, VERI_EPARTIAL)
               quiet == verify_set_status(en, "UNCONFIRMED")
    <3>1. crash \in Engine /\ quiet \in Engine
      BY <1>1, SetStatusChanges
    <3>2. torn \in Engine
      BY <1>1, <3>1, SetResultChanges
    <3>3. PICK seen \in {torn, quiet} :
            verify_normal_status(en, cf, lsn, o).eng = verify_set_unexpected_info(seen, lsn)
      BY <2>3 DEF verify_normal_status
    <3>4. SamePrediction(en, crash) /\ SamePrediction(en, quiet)
      BY SettersPredictNothing
    <3>5. SamePrediction(crash, torn)
      BY <3>1, SettersPredictNothing
    <3> HIDE DEF crash, torn, quiet
    <3>6. SamePrediction(seen, verify_set_unexpected_info(seen, lsn))
      BY <3>1, <3>2, SettersPredictNothing
    <3> QED BY <3>3, <3>4, <3>5, <3>6 DEF SamePrediction
  <2> QED BY <2>1, <2>2, <2>3
<1>3. SamePrediction(en, verify_unconfirmed_status(en, o).eng)
  <2>1. CASE o.io
    BY <2>1, SettersPredictNothing DEF verify_unconfirmed_status
  <2>2. CASE ~o.io /\ ~o.hit
    BY <2>2 DEF verify_unconfirmed_status, SamePrediction
  <2>3. CASE ~o.io /\ o.hit
    <3> DEFINE torn  == verify_set_result(en, VERI_EPARTIAL)
               crash == verify_set_status(torn, "CRASH")
    <3>1. torn \in Engine
      BY <1>1, SetResultChanges
    <3>2. SamePrediction(en, torn)
      BY SettersPredictNothing
    <3>3. verify_unconfirmed_status(en, o).eng = crash
      BY <2>3 DEF verify_unconfirmed_status
    <3> HIDE DEF torn
    <3>4. SamePrediction(torn, crash)
      BY <3>1, SettersPredictNothing
    <3> QED BY <3>2, <3>3, <3>4 DEF SamePrediction
  <2> QED BY <2>1, <2>2, <2>3
<1>4. /\ SamePrediction(en, Suspect(en, cf))
      /\ Suspect(en, cf).status = "NORMAL" <=> en.status = "NORMAL"
  <2>1. CASE en.status # "UNCONFIRMED"
    BY <2>1 DEF Suspect, SamePrediction
  <2>2. CASE en.status = "UNCONFIRMED"
    <3> DEFINE crash == verify_set_status(en, "CRASH")
               far   == verify_set_result(crash, VERI_EREQUEST)
    <3>1. crash \in Engine
      BY <1>1, SetStatusChanges
    <3>2. far \in Engine
      BY <1>1, <3>1, SetResultChanges
    <3>3. SamePrediction(en, crash)
      BY SettersPredictNothing
    <3>4. SamePrediction(crash, far)
      BY <3>1, SettersPredictNothing
    <3>5. PICK judged \in {far, en} : Suspect(en, cf) = [judged EXCEPT !.verify = "unconfirmed"]
      BY <2>2 DEF Suspect
    <3> HIDE DEF crash, far
    <3>6. judged \in Engine /\ SamePrediction(en, judged)
      BY <3>2, <3>3, <3>4, <3>5 DEF SamePrediction
    <3>7. SamePrediction(judged, [judged EXCEPT !.verify = "unconfirmed"])
      BY <3>6 DEF Engine, SamePrediction
    <3>8. Suspect(en, cf).status \in {"UNCONFIRMED", "CRASH"}
      BY <2>2, SuspectChanges
    <3> QED BY <2>2, <3>5, <3>6, <3>7, <3>8 DEF SamePrediction
  <2> QED BY <2>1, <2>2
<1> QED BY <1>2, <1>3, <1>4

(* What do_verify predicts of the cache: it counts the requests since the   *)
(* last flush request in normal status, and predicts when the cycle is full. *)
LEMMA DoVerifyPredicts ==
  ASSUME NEW en \in Engine, NEW cf \in Values, NEW lsn \in Nat, NEW n \in Nat \ {0},
         NEW o \in Readings, ~WindowFull(en)
  PROVE  LET r    == do_verify(en, cf, lsn, n, o).eng
             next == (IF n % cf.cycle = 0 /\ r.status = "NORMAL" THEN 0 ELSE en.cached) + 1
         IN  /\ en.gotLast \/ ~cf.cache => r.gotLast = en.gotLast /\ r.lastLsn = en.lastLsn
             /\ ~en.gotLast /\ cf.cache =>
                  /\ r.cached = next
                  /\ IF r.status # "NORMAL" /\ next >= cf.cycle
                     THEN r.gotLast /\ r.lastLsn = lsn
                     ELSE ~r.gotLast
<1> DEFINE r  == do_verify(en, cf, lsn, n, o)
           e1 == CountRequest(en, cf, lsn)
           v  == IF e1.verify = "normal" THEN verify_normal_status(e1, cf, lsn, o)
                                         ELSE verify_unconfirmed_status(e1, o)
           e2 == set_last_lsn_in_cached_list(v.eng, cf, lsn, n)
<1>1. r = Answer(e2, cf, v.ret)
  BY DEF do_verify
<1>2. e1 \in Engine /\ SamePrediction(en, e1)
  BY CountRequestChanges, SettersPredictNothing
<1> HIDE DEF r, e1
<1>3. v.eng \in Engine /\ SamePrediction(e1, v.eng)
  BY <1>2, NormalStatusChanges, UnconfirmedStatusChanges, StatusPredictsNothing
<1> HIDE DEF v
<1>4. e2 \in Engine /\ e2.status = v.eng.status
  BY <1>3, CachedListChanges
<1>5. PICK en1 \in Engine : en1 = v.eng
  BY <1>3
<1>6. CASE en.gotLast \/ ~cf.cache
  <2>1. e2 = en1
    BY <1>2, <1>3, <1>5, <1>6 DEF set_last_lsn_in_cached_list, SamePrediction
  <2> HIDE DEF e2
  <2>2. r.eng = e2 \/ r.eng = Suspect(e2, cf)
    BY <1>1 DEF Answer
  <2>3. SamePrediction(e2, r.eng)
    BY <1>4, <2>2, StatusPredictsNothing DEF SamePrediction
  <2> QED BY <1>2, <1>3, <1>5, <1>6, <2>1, <2>3 DEF SamePrediction, r
<1>7. CASE ~en.gotLast /\ cf.cache
  <2> DEFINE next == (IF n % cf.cycle = 0 /\ en1.status = "NORMAL" THEN 0 ELSE en1.cached) + 1
  <2>1. e2 = IF en1.status # "NORMAL" /\ next >= cf.cycle
             THEN [en1 EXCEPT !.cached = next, !.lastLsn = lsn, !.gotLast = TRUE]
             ELSE [en1 EXCEPT !.cached = next]
    BY <1>2, <1>3, <1>5, <1>7 DEF set_last_lsn_in_cached_list, SamePrediction
  <2>2. ~en1.gotLast /\ en1.cached = en.cached
    BY <1>2, <1>3, <1>5, <1>7 DEF SamePrediction
  <2> HIDE DEF e2, next
  <2>3. /\ e2.cached = next
        /\ IF en1.status # "NORMAL" /\ next >= cf.cycle
           THEN e2.gotLast /\ e2.lastLsn = lsn ELSE ~e2.gotLast
    BY <2>1, <2>2 DEF Engine
  <2>4. r.eng = e2 \/ r.eng = Suspect(e2, cf)
    BY <1>1 DEF Answer, e2
  <2>5. SamePrediction(e2, r.eng) /\ (r.eng.status = "NORMAL" <=> en1.status = "NORMAL")
    BY <1>4, <1>5, <2>4, StatusPredictsNothing DEF SamePrediction
  <2> QED BY <1>7, <2>2, <2>3, <2>5 DEF SamePrediction, r, next
<1> QED BY <1>6, <1>7
===============================================================================
