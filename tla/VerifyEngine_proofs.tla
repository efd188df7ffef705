-------------------------- MODULE VerifyEngine_proofs --------------------------
(***************************************************************************)
(* Theorems about VerifyEngine, for every pattern, window, set of          *)
(* configurations and page sequences: that the next write phase resumes at *)
(* the first unexpected request, that the verdict is the one the history   *)
(* of a verification calls for, that it blames the steps at fault, and     *)
(* that the window behind the first suspicion is read.  And that the loop  *)
(* of PartialWriting computes the class of every request.                  *)
(***************************************************************************)
EXTENDS VerifyEngine, PartialWriting, VerifyCore_proofs

-------------------------------------------------------------------------------
(* A configuration has the fields the engine reads, and a pattern is a      *)
(* sequence of sectors.                                                     *)
LEMMA ConfigIsValue ==
  ASSUME TypeOK PROVE c \in Values
  BY ConfigsAssumption DEF TypeOK, Values

LEMMA ObservationIsReading == Observations \subseteq Readings
  BY PageSeqsAssumption DEF Observations, Readings

LEMMA PatternElement ==
  ASSUME TypeOK, idx <= Len(Pattern)
  PROVE  Pattern[idx] \in Nat /\ idx \in 1 .. Len(Pattern)
  BY PatternAssumption DEF TypeOK

-------------------------------------------------------------------------------
(* Every variable keeps its type, and at most RequestWindow requests are    *)
(* counted after a suspicion, whatever the device returns.                  *)
LEMMA InitType == Init => TypeOK
<1> SUFFICES ASSUME Init PROVE TypeOK
  OBVIOUS
<1>1. PICK loop \in 1 .. MaxLoop : e = verify_reset(loop, 1)
  BY DEF Init
<1>2. e \in Engine
  BY <1>1, ResetType, MaxLoopAssumption
<1>3. idx \in 1 .. Len(Pattern) + 1
  BY PatternAssumption DEF Init
<1> QED
  BY <1>2, <1>3 DEF Init, TypeOK, Places, NotApplied, NoRequests, Answers

LEMMA NextType == TypeOK /\ [Next]_vars => TypeOK'
<1> SUFFICES ASSUME TypeOK, [Next]_vars PROVE TypeOK'
  OBVIOUS
<1>1. CASE Request
  <2>1. PICK o \in Observations :
          LET r == do_verify(e, c, Pattern[idx], count, o)
          IN  /\ e' = r.eng
              /\ IF r.ret = 0
                 THEN idx' = idx + 1 /\ count' = count + 1 /\ pc' = pc
                 ELSE UNCHANGED <<idx, count>> /\ pc' = "ended"
              /\ log' = IF r.ret = VERI_STATUS_FINISH THEN log
                        ELSE [log EXCEPT !.requests =
                                Append(@, [lsn |-> Pattern[idx], loop |-> e.loop, o |-> o])]
    BY <1>1 DEF Request
  <2>2. idx \in 1 .. Len(Pattern) /\ Pattern[idx] \in Nat
    BY <1>1, PatternElement DEF Request
  <2>3. e' \in Engine
    BY <2>1, <2>2, ConfigIsValue, ObservationIsReading, DoVerify DEF TypeOK
  <2>4. idx' \in 1 .. Len(Pattern) + 1 /\ count' \in Nat \ {0} /\ pc' \in Places
    BY <2>1, <2>2, PatternAssumption DEF TypeOK, Places
  <2>5. log' \in [requests : Seq(RequestRecord), zone : Answers, extra : Answers]
    <3>1. [lsn |-> Pattern[idx], loop |-> e.loop, o |-> o] \in RequestRecord
      BY <2>2 DEF TypeOK, Engine, RequestRecord
    <3>2. Append(log.requests, [lsn |-> Pattern[idx], loop |-> e.loop, o |-> o])
            \in Seq(RequestRecord)
      BY <3>1 DEF TypeOK
    <3> QED
      BY <2>1, <3>2 DEF TypeOK
  <2> QED
    BY <1>1, <2>3, <2>4, <2>5 DEF Request, TypeOK
<1>2. CASE NextLoop
  <2>1. e.loop + 1 \in Nat
    BY DEF TypeOK, Engine
  <2>2. e' \in Engine
    BY <1>2, <2>1, LoopCountChanges DEF NextLoop, TypeOK
  <2>3. idx' \in 1 .. Len(Pattern) + 1 /\ count' \in Nat \ {0}
    BY <1>2, PatternAssumption DEF NextLoop
  <2> QED
    BY <1>2, <2>2, <2>3 DEF NextLoop, TypeOK
<1>3. CASE EndPattern
  <2>1. verify_set_current_step(e, "LSN_CRC") \in Engine
    BY CurrentStepChanges DEF TypeOK, Steps
  <2>2. [lsn |-> e.info.lsn, loop |-> e.info.loop] \in [lsn : Nat, loop : Nat]
    BY DEF TypeOK, Engine
  <2> QED
    BY <1>3, <2>1, <2>2 DEF EndPattern, TypeOK, Places
<1>4. CASE CheckRandomZone
  <2>1. PICK zone \in Answers :
          LET checked == verify_check_random_zone(e, zone)
          IN  /\ log' = [log EXCEPT !.zone = zone]
              /\ IF zone = "io"
                 THEN pc' = "judged" /\ e' = checked
                 ELSE pc' = "extra"  /\ e' = verify_set_current_step(checked, "EXTRA")
    BY <1>4 DEF CheckRandomZone
  <2>2. verify_check_random_zone(e, zone) \in Engine
    BY RandomZoneChanges DEF TypeOK
  <2>3. e' \in Engine
    BY <2>1, <2>2, CurrentStepChanges DEF Steps
  <2> QED
    BY <1>4, <2>1, <2>3 DEF CheckRandomZone, TypeOK, Places
<1>5. CASE ExtraVerification
  <2>1. PICK extra \in Answers :
          /\ log' = [log EXCEPT !.extra = extra]
          /\ e' = CASE extra = "ok"  -> e
                    [] extra = "bad" -> verify_set_result(e, VERI_EREQUEST)
                    [] extra = "io"  -> verify_set_result(e, VERI_EIO)
    BY <1>5 DEF ExtraVerification
  <2>2. {VERI_EIO, VERI_EREQUEST} \subseteq Results
    BY DEF Results
  <2>3. e' \in Engine
    BY <2>1, <2>2, SetResultChanges DEF TypeOK, Answers
  <2> QED
    BY <1>5, <2>1, <2>3 DEF ExtraVerification, TypeOK, Places
<1>6. CASE VerifyAgain
  <2>1. PICK loop \in 1 .. MaxLoop : e' = verify_reset(loop, 1)
    BY <1>6 DEF VerifyAgain
  <2>2. e' \in Engine
    BY <2>1, ResetType, MaxLoopAssumption
  <2>3. idx' \in 1 .. Len(Pattern) + 1
    BY <1>6, PatternAssumption DEF VerifyAgain
  <2> QED
    BY <1>6, <2>2, <2>3 DEF VerifyAgain, TypeOK, Places, NotApplied, NoRequests, Answers
<1>7. CASE Stopped \/ UNCHANGED vars
  BY <1>7 DEF Stopped, vars, TypeOK
<1> QED
  BY <1>1, <1>2, <1>3, <1>4, <1>5, <1>6, <1>7 DEF Next

(* TypeOK holds in every behaviour: the engine's record stays one, and its  *)
(* window counter never passes RequestWindow.                               *)
THEOREM TypeCorrect == Spec => []TypeOK
<1>1. Init => TypeOK
  BY InitType
<1>2. TypeOK /\ [Next]_vars => TypeOK'
  BY NextType
<1> QED
  BY <1>1, <1>2, PTL DEF Spec

-------------------------------------------------------------------------------
(***************************************************************************)
(* Why the test resumes at the first unexpected request.  The engine's     *)
(* status tells whether one was met; the verification function is switched *)
(* by the first one, unless it was already a crash; and as long as no      *)
(* crash and no error is recorded, the unconfirmed information is that of  *)
(* the first one.                                                          *)
(***************************************************************************)
\* Nothing was met, nothing is counted, and the first function is in use.
NormalMeansNothing ==
  e.status = "NORMAL" =>
    e.cnt = 0 /\ e.verify = "normal" /\ \A i \in DOMAIN Reqs : ~Unexpected(i)

\* Only a crash leaves the first function in use.
NotSwitchedIsCrash ==
  e.status # "NORMAL" /\ e.verify = "normal" => e.result # VERI_NOERR

InfoIsFirst(i) ==
  /\ i \in DOMAIN Reqs /\ IsFirst(i)
  /\ e.info.lsn = Reqs[i].lsn /\ e.info.loop = Reqs[i].loop

SuspectIsFirst ==
  e.status # "NORMAL" /\ e.result = VERI_NOERR => \E i \in DOMAIN Reqs : InfoIsFirst(i)

\* The pattern ends in normal status only when the device failed, and what
\* verify_apply_result took over stays what the next phase is told.
AppliedIsInfo ==
  /\ pc = "ended" => e.result = VERI_EIO \/ e.status # "NORMAL"
  /\ pc \in {"zone", "extra"} \/ (pc = "judged" /\ e.result = VERI_NOERR) =>
       e.status # "NORMAL" /\ applied = [lsn |-> e.info.lsn, loop |-> e.info.loop]

ResumeInv == NormalMeansNothing /\ NotSwitchedIsCrash /\ SuspectIsFirst /\ AppliedIsInfo

(* A request that is read is added at the end of the history, so what was   *)
(* first stays first.                                                       *)
LEMMA HistoryGrows ==
  ASSUME TypeOK, NEW rec \in RequestRecord, Reqs' = Append(Reqs, rec)
  PROVE  /\ DOMAIN Reqs = 1 .. Len(Reqs) /\ Len(Reqs) \in Nat
         /\ (DOMAIN Reqs)' = 1 .. Len(Reqs) + 1
         /\ \A i \in DOMAIN Reqs : (Reqs[i])' = Reqs[i] /\ (Unexpected(i)' <=> Unexpected(i))
         /\ Reqs'[Len(Reqs) + 1] = rec
         /\ \A i \in DOMAIN Reqs : InfoIsFirst(i) /\ e'.info = e.info => InfoIsFirst(i)'
<1>1. Reqs \in Seq(RequestRecord)
  BY DEF TypeOK, Reqs
<1>2. /\ DOMAIN Reqs = 1 .. Len(Reqs) /\ Len(Reqs) \in Nat
      /\ (DOMAIN Reqs)' = 1 .. Len(Reqs) + 1
      /\ \A i \in DOMAIN Reqs : (Reqs[i])' = Reqs[i]
      /\ Append(Reqs, rec)[Len(Reqs) + 1] = rec
  BY <1>1
<1>3. \A i \in DOMAIN Reqs : Unexpected(i)' <=> Unexpected(i)
  BY <1>2 DEF Unexpected
<1>4. ASSUME NEW i \in DOMAIN Reqs, InfoIsFirst(i), e'.info = e.info
      PROVE  InfoIsFirst(i)'
  <2>1. \A j \in 1 .. i - 1 : j \in DOMAIN Reqs
    BY <1>2
  <2> QED
    BY <1>2, <1>3, <1>4, <2>1 DEF InfoIsFirst, IsFirst
<1> QED
  BY <1>2, <1>3, <1>4

(* The last request is the first unexpected one when none before it is.     *)
LEMMA NewFirst ==
  ASSUME TypeOK, NEW rec \in RequestRecord, Reqs' = Append(Reqs, rec),
         \A i \in DOMAIN Reqs : ~Unexpected(i),
         ~rec.o.io, ~AllExpected(rec.o.pages),
         e'.info.lsn = rec.lsn, e'.info.loop = rec.loop
  PROVE  (\E i \in DOMAIN Reqs : InfoIsFirst(i))'
<1>1. PICK last \in Nat : last = Len(Reqs) + 1
  BY HistoryGrows
<1>2. /\ DOMAIN Reqs = 1 .. last - 1
      /\ (DOMAIN Reqs)' = 1 .. last
      /\ \A i \in DOMAIN Reqs : ~(Unexpected(i)')
      /\ Reqs'[last] = rec
  BY <1>1, HistoryGrows
<1>3. last \in (DOMAIN Reqs)' /\ \A j \in 1 .. last - 1 : j \in DOMAIN Reqs
  BY <1>1, <1>2
<1>4. Unexpected(last)'
  BY <1>2 DEF Unexpected
<1>5. InfoIsFirst(last)'
  BY <1>2, <1>3, <1>4 DEF InfoIsFirst, IsFirst
<1> QED
  BY <1>3, <1>5

LEMMA ResumeInvInit == Init => ResumeInv
<1> SUFFICES ASSUME Init PROVE ResumeInv
  OBVIOUS
<1>1. PICK loop \in 1 .. MaxLoop : e = verify_reset(loop, 1)
  BY DEF Init
<1>2. e.status = "NORMAL" /\ e.cnt = 0 /\ e.verify = "normal"
  BY <1>1 DEF verify_reset
<1>3. DOMAIN Reqs = {} /\ pc = "pattern"
  BY DEF Init, Reqs, NoRequests
<1> QED
  BY <1>2, <1>3
  DEF ResumeInv, NormalMeansNothing, NotSwitchedIsCrash, SuspectIsFirst, AppliedIsInfo

LEMMA ResumeInvRequest == TypeOK /\ ResumeInv /\ Request => ResumeInv'
<1> SUFFICES ASSUME TypeOK, ResumeInv, Request PROVE ResumeInv'
  OBVIOUS
<1>1. PICK o \in Observations :
        LET r == do_verify(e, c, Pattern[idx], count, o)
        IN  /\ e' = r.eng
            /\ IF r.ret = 0 THEN pc' = pc ELSE pc' = "ended"
            /\ log' = IF r.ret = VERI_STATUS_FINISH THEN log
                      ELSE [log EXCEPT !.requests =
                              Append(@, [lsn |-> Pattern[idx], loop |-> e.loop, o |-> o])]
  BY DEF Request
<1> DEFINE r   == do_verify(e, c, Pattern[idx], count, o)
           rec == [lsn |-> Pattern[idx], loop |-> e.loop, o |-> o]
<1>2. Pattern[idx] \in Nat
  BY PatternElement DEF Request
<1>3. rec \in RequestRecord
  BY <1>2 DEF TypeOK, Engine, RequestRecord
<1>4. e \in Engine /\ count \in Nat \ {0} /\ pc = "pattern"
  BY DEF TypeOK, Request
<1>5. /\ WindowFull(e) => e' = e /\ r.ret = VERI_STATUS_FINISH
      /\ ~WindowFull(e) => r.ret # VERI_STATUS_FINISH
      /\ ~WindowFull(e) /\ o.io =>
           r.ret # 0 /\ e'.result = VERI_EIO /\ Untouched(e, e')
      /\ ~WindowFull(e) /\ ~o.io => r.ret = 0
      /\ ~WindowFull(e) /\ ~o.io /\ e.verify = "normal" /\ AllExpected(o.pages) =>
           e'.result = e.result /\ Untouched(e, e')
      /\ ~WindowFull(e) /\ ~o.io /\ e.verify = "normal" /\ ~AllExpected(o.pages) =>
           /\ e'.status # "NORMAL"
           /\ e'.result \in {e.result, VERI_EREQUEST, VERI_EPARTIAL}
           /\ e'.verify = "normal" => e'.result # VERI_NOERR
           /\ e'.info.lsn = Pattern[idx] /\ e'.info.loop = e.loop
      /\ ~WindowFull(e) /\ ~o.io /\ e.verify # "normal" /\ ~o.hit =>
           e'.result = e.result /\ Untouched(e, e')
      /\ ~WindowFull(e) /\ ~o.io /\ e.verify # "normal" /\ o.hit =>
           /\ e'.status = "CRASH" /\ e'.result = VERI_EPARTIAL
           /\ e'.verify = e.verify /\ e'.info = e.info
  BY <1>1, <1>2, <1>4, ConfigIsValue, ObservationIsReading, DoVerify
<1> HIDE DEF r
<1>6. /\ VERI_STATUS_FINISH # 0
      /\ VERI_NOERR \notin {VERI_EIO, VERI_EREQUEST, VERI_EPARTIAL}
  BY DEF VERI_STATUS_FINISH, VERI_NOERR, VERI_EIO, VERI_EREQUEST, VERI_EPARTIAL
<1>7. /\ pc' = IF r.ret = 0 THEN "pattern" ELSE "ended"
      /\ r.ret # VERI_STATUS_FINISH => Reqs' = Append(Reqs, rec)
      /\ r.ret = VERI_STATUS_FINISH => Reqs' = Reqs
  <2>1. pc' = IF r.ret = 0 THEN "pattern" ELSE "ended"
    BY <1>1, <1>4 DEF r
  <2>2. /\ r.ret # VERI_STATUS_FINISH =>
             log' = [log EXCEPT !.requests = Append(@, rec)]
        /\ r.ret = VERI_STATUS_FINISH => log' = log
    BY <1>1 DEF r
  <2> HIDE DEF rec
  <2> QED
    BY <2>1, <2>2 DEF TypeOK, Reqs
<1>8. CASE WindowFull(e)
  <2>1. e.status # "NORMAL"
    BY <1>8, RequestWindowAssumption DEF WindowFull, ResumeInv, NormalMeansNothing
  <2>2. e' = e /\ Reqs' = Reqs /\ pc' = "ended"
    BY <1>5, <1>6, <1>7, <1>8
  <2> QED
    BY <2>1, <2>2
    DEF ResumeInv, NormalMeansNothing, NotSwitchedIsCrash, SuspectIsFirst, AppliedIsInfo,
        InfoIsFirst, IsFirst, Unexpected
<1>9. CASE ~WindowFull(e)
  <2>1. Reqs' = Append(Reqs, rec)
    BY <1>5, <1>7, <1>9
  <2>2. rec.o = o /\ rec.lsn = Pattern[idx] /\ rec.loop = e.loop
    OBVIOUS
  <2> HIDE DEF rec
  <2>3. /\ DOMAIN Reqs = 1 .. Len(Reqs) /\ Len(Reqs) \in Nat
        /\ (DOMAIN Reqs)' = 1 .. Len(Reqs) + 1
        /\ \A i \in DOMAIN Reqs : Unexpected(i)' <=> Unexpected(i)
        /\ Reqs'[Len(Reqs) + 1] = rec
        /\ \A i \in DOMAIN Reqs : InfoIsFirst(i) /\ e'.info = e.info => InfoIsFirst(i)'
    BY <1>3, <2>1, HistoryGrows
  <2>4. DOMAIN Reqs \subseteq (DOMAIN Reqs)'
    BY <2>3
  <2>5. AppliedIsInfo'
    BY <1>5, <1>7, <1>9 DEF AppliedIsInfo
  <2>6. CASE o.io \/ (e.verify = "normal" /\ AllExpected(o.pages))
             \/ (e.verify # "normal" /\ ~o.hit)
    <3>1. Untouched(e, e') /\ e'.result \in {e.result, VERI_EIO}
      BY <1>5, <1>9, <2>6
    <3>2. NotSwitchedIsCrash'
      BY <1>6, <3>1 DEF ResumeInv, NotSwitchedIsCrash, Untouched
    <3>3. SuspectIsFirst'
      BY <1>6, <2>3, <2>4, <3>1 DEF ResumeInv, SuspectIsFirst, Untouched
    <3>4. NormalMeansNothing'
      <4> SUFFICES ASSUME e'.status = "NORMAL"
                   PROVE  /\ e'.cnt = 0 /\ e'.verify = "normal"
                          /\ \A i \in (DOMAIN Reqs)' : ~Unexpected(i)'
        BY DEF NormalMeansNothing
      <4>1. /\ e.cnt = 0 /\ e.verify = "normal" /\ e'.cnt = 0 /\ e'.verify = "normal"
            /\ \A i \in DOMAIN Reqs : ~Unexpected(i)
        BY <3>1 DEF ResumeInv, NormalMeansNothing, Untouched
      <4>2. ASSUME NEW i \in (DOMAIN Reqs)', i \notin DOMAIN Reqs
            PROVE  ~Unexpected(i)'
        <5>1. i = Len(Reqs) + 1
          BY <2>3, <4>2
        <5>2. Reqs'[i].o = o
          BY <2>2, <2>3, <5>1
        <5> QED
          BY <2>6, <4>1, <5>2 DEF Unexpected
      <4> QED
        BY <2>3, <4>1, <4>2
    <3> QED
      BY <2>5, <3>2, <3>3, <3>4 DEF ResumeInv
  <2>7. CASE ~o.io /\ e.verify = "normal" /\ ~AllExpected(o.pages)
    <3>1. /\ e'.status # "NORMAL"
          /\ e'.result \in {e.result, VERI_EREQUEST, VERI_EPARTIAL}
          /\ e'.verify = "normal" => e'.result # VERI_NOERR
          /\ e'.info.lsn = Pattern[idx] /\ e'.info.loop = e.loop
      BY <1>5, <1>9, <2>7
    <3>2. SuspectIsFirst'
      <4>1. CASE e.status = "NORMAL"
        <5>1. \A i \in DOMAIN Reqs : ~Unexpected(i)
          BY <4>1 DEF ResumeInv, NormalMeansNothing
        <5>2. (\E i \in DOMAIN Reqs : InfoIsFirst(i))'
          BY <1>3, <2>1, <2>2, <2>7, <3>1, <5>1, NewFirst
        <5> QED
          BY <5>2 DEF SuspectIsFirst
      <4>2. CASE e.status # "NORMAL"
        <5>1. e'.result # VERI_NOERR
          BY <1>6, <2>7, <3>1, <4>2 DEF ResumeInv, NotSwitchedIsCrash
        <5> QED
          BY <5>1 DEF SuspectIsFirst
      <4> QED
        BY <4>1, <4>2
    <3> QED
      BY <2>5, <3>1, <3>2 DEF ResumeInv, NormalMeansNothing, NotSwitchedIsCrash
  <2>8. CASE ~o.io /\ e.verify # "normal" /\ o.hit
    <3>1. e'.status = "CRASH" /\ e'.result = VERI_EPARTIAL
      BY <1>5, <1>9, <2>8
    <3> QED
      BY <1>6, <2>5, <3>1
      DEF ResumeInv, NormalMeansNothing, NotSwitchedIsCrash, SuspectIsFirst
  <2> QED
    BY <2>6, <2>7, <2>8
<1> QED
  BY <1>8, <1>9

LEMMA ResumeInvNext == TypeOK /\ ResumeInv /\ [Next]_vars => ResumeInv'
<1> USE DEF ResumeInv, NormalMeansNothing, NotSwitchedIsCrash, SuspectIsFirst,
            InfoIsFirst, IsFirst, Unexpected, Reqs
<1> SUFFICES ASSUME TypeOK, ResumeInv, [Next]_vars PROVE ResumeInv'
  OBVIOUS
<1>1. VERI_NOERR \notin {VERI_EIO, VERI_EREQUEST, VERI_EPARTIAL}
  BY DEF VERI_NOERR, VERI_EIO, VERI_EREQUEST, VERI_EPARTIAL
<1>2. CASE Request
  BY <1>2, ResumeInvRequest
<1>3. CASE NextLoop
  <2>1. /\ e'.status = e.status /\ e'.result = e.result /\ e'.verify = e.verify
        /\ e'.info = e.info /\ e'.cnt = e.cnt
    <3>1. e.loop + 1 \in Nat /\ e \in Engine
      BY DEF TypeOK, Engine
    <3> QED
      BY <1>3, <3>1, LoopCountChanges DEF NextLoop
  <2> QED
    BY <1>3, <2>1 DEF NextLoop, AppliedIsInfo
<1>4. CASE EndPattern
  <2>1. /\ e'.status = e.status /\ e'.result = e.result /\ e'.verify = e.verify
        /\ e'.info = e.info /\ e'.cnt = e.cnt
    BY <1>4, CurrentStepChanges DEF EndPattern, TypeOK, Steps
  <2>2. AppliedIsInfo'
    <3>1. CASE verify_get_error_num(e) # 0
      <4>1. e.result = VERI_EIO /\ e' = e /\ pc' = "judged"
        BY <1>4, <3>1 DEF EndPattern, verify_get_error_num
      <4> QED
        BY <1>1, <4>1 DEF AppliedIsInfo
    <3>2. CASE verify_get_error_num(e) = 0
      <4>1. e.result # VERI_EIO
        BY <3>2 DEF verify_get_error_num, PLR_EIO
      <4>2. applied' = [lsn |-> e.info.lsn, loop |-> e.info.loop] /\ pc = "ended"
        BY <1>4, <3>2 DEF EndPattern
      <4> QED
        BY <1>4, <2>1, <3>2, <4>1, <4>2 DEF EndPattern, AppliedIsInfo
    <3> QED
      BY <3>1, <3>2
  <2> QED
    BY <1>4, <2>1, <2>2 DEF EndPattern
<1>5. CASE CheckRandomZone
  <2>1. PICK zone \in Answers :
          LET checked == verify_check_random_zone(e, zone)
          IN  /\ log' = [log EXCEPT !.zone = zone]
              /\ IF zone = "io"
                 THEN pc' = "judged" /\ e' = checked
                 ELSE pc' = "extra"  /\ e' = verify_set_current_step(checked, "EXTRA")
    BY <1>5 DEF CheckRandomZone
  <2> DEFINE checked == verify_check_random_zone(e, zone)
  <2>2. /\ checked \in Engine
        /\ checked.info = e.info /\ checked.verify = e.verify /\ checked.cnt = e.cnt
        /\ zone = "ok"  => checked = e
        /\ zone = "bad" => checked.result = VERI_EREQUEST /\ checked.status = "CRASH"
        /\ zone = "io"  => checked.result = VERI_EIO /\ checked.status = e.status
    BY RandomZoneChanges DEF TypeOK
  <2>3. /\ zone = "io" => pc' = "judged" /\ e' = checked
        /\ zone # "io" => pc' = "extra"  /\ e' = verify_set_current_step(checked, "EXTRA")
    BY <2>1
  <2>4. Reqs' = Reqs
    BY <2>1 DEF TypeOK
  <2> HIDE DEF checked
  <2>5. /\ e'.status = checked.status /\ e'.result = checked.result
        /\ e'.verify = checked.verify /\ e'.info = checked.info /\ e'.cnt = checked.cnt
    BY <2>2, <2>3, CurrentStepChanges DEF Steps
  <2>6. /\ e'.info = e.info /\ e'.verify = e.verify /\ e'.cnt = e.cnt
        /\ \/ e'.status = e.status /\ e'.result = e.result /\ zone # "io"
           \/ e'.status = "CRASH" /\ e'.result = VERI_EREQUEST /\ zone # "io"
           \/ e'.status = e.status /\ e'.result = VERI_EIO /\ zone = "io"
    BY <2>2, <2>5 DEF Answers
  <2>7. AppliedIsInfo'
    BY <1>1, <1>5, <2>3, <2>6 DEF CheckRandomZone, AppliedIsInfo
  <2>8. (NormalMeansNothing /\ NotSwitchedIsCrash /\ SuspectIsFirst)'
    BY <1>1, <2>4, <2>6
  <2> QED
    BY <2>7, <2>8
<1>6. CASE ExtraVerification
  <2>1. PICK extra \in Answers :
          /\ log' = [log EXCEPT !.extra = extra]
          /\ e' = CASE extra = "ok"  -> e
                    [] extra = "bad" -> verify_set_result(e, VERI_EREQUEST)
                    [] extra = "io"  -> verify_set_result(e, VERI_EIO)
    BY <1>6 DEF ExtraVerification
  <2>2. Reqs' = Reqs
    BY <2>1 DEF TypeOK
  <2>3. {VERI_EIO, VERI_EREQUEST} \subseteq Results
    BY DEF Results
  <2>4. /\ e'.info = e.info /\ e'.verify = e.verify /\ e'.cnt = e.cnt
        /\ e'.status = e.status
        /\ e'.result \in {e.result, VERI_EREQUEST, VERI_EIO}
    BY <2>1, <2>3, SetResultChanges DEF TypeOK, Answers
  <2>5. AppliedIsInfo'
    BY <1>1, <1>6, <2>4 DEF ExtraVerification, AppliedIsInfo
  <2>6. (NormalMeansNothing /\ NotSwitchedIsCrash /\ SuspectIsFirst)'
    BY <1>1, <2>2, <2>4
  <2> QED
    BY <2>5, <2>6
<1>7. CASE VerifyAgain
  <2>1. PICK loop \in 1 .. MaxLoop : e' = verify_reset(loop, 1)
    BY <1>7 DEF VerifyAgain
  <2>2. e'.status = "NORMAL" /\ e'.cnt = 0 /\ e'.verify = "normal"
    BY <2>1 DEF verify_reset
  <2>3. (DOMAIN Reqs)' = {} /\ pc' = "pattern"
    BY <1>7 DEF VerifyAgain, NoRequests
  <2> QED
    BY <2>2, <2>3 DEF AppliedIsInfo
<1>8. CASE Stopped \/ UNCHANGED vars
  BY <1>8 DEF Stopped, vars, AppliedIsInfo
<1> QED
  BY <1>2, <1>3, <1>4, <1>5, <1>6, <1>7, <1>8 DEF Next

(* When a verification reports nothing, the next write phase resumes at the *)
(* very first request that did not read as expected, in that request's      *)
(* loop, for every pattern, window, device and test configuration.          *)
THEOREM ResumesRight == Spec => []ResumeAtFirstUnexpected
<1>1. Init => TypeOK /\ ResumeInv
  BY InitType, ResumeInvInit
<1>2. TypeOK /\ ResumeInv /\ [Next]_vars => (TypeOK /\ ResumeInv)'
  BY NextType, ResumeInvNext
<1>3. TypeOK /\ ResumeInv => ResumeAtFirstUnexpected
  <2> SUFFICES ASSUME TypeOK, ResumeInv, pc = "judged", verify_get_result(e) = 0
               PROVE  \E i \in DOMAIN Reqs :
                        IsFirst(i) /\ applied = [lsn |-> Reqs[i].lsn, loop |-> Reqs[i].loop]
    BY DEF ResumeAtFirstUnexpected
  <2>1. e.result \in Results
    BY DEF TypeOK, Engine
  <2>2. e.result = VERI_NOERR
    BY <2>1
    DEF verify_get_result, verify_get_error_num, verify_get_crash_num, Results,
        VERI_NOERR, VERI_EIO, VERI_EREQUEST, VERI_EPARTIAL, PLR_EIO, PLR_ECRASH
  <2>3. e.status # "NORMAL" /\ applied = [lsn |-> e.info.lsn, loop |-> e.info.loop]
    BY <2>2 DEF ResumeInv, AppliedIsInfo
  <2>4. PICK i \in DOMAIN Reqs : InfoIsFirst(i)
    BY <2>2, <2>3 DEF ResumeInv, SuspectIsFirst
  <2> QED
    BY <2>3, <2>4 DEF InfoIsFirst
<1> QED
  BY <1>1, <1>2, <1>3, PTL DEF Spec

(* Once a verification has called something a crash it never takes that     *)
(* back, unless a later read fails: the next request, loop, zone check or   *)
(* extra check can only add to it.                                          *)
THEOREM CrashStays == Spec => CrashIsSticky
<1> DEFINE Sticks == verify_get_crash_num(e) # 0 /\ ~DeviceError'
                       => verify_get_crash_num(e') # 0
<1>1. ASSUME TypeOK, [Next]_vars PROVE [Sticks]_vars
  <2> SUFFICES ASSUME verify_get_crash_num(e) # 0, ~DeviceError', Next
               PROVE  verify_get_crash_num(e') # 0
    BY <1>1
  <2>1. e \in Engine /\ e' \in Engine
    BY <1>1, NextType DEF TypeOK
  <2>2. e.result \in {VERI_EREQUEST, VERI_EPARTIAL}
    BY <2>1, CrashNum
  <2> SUFFICES e'.result \in {VERI_EREQUEST, VERI_EPARTIAL}
    BY <2>1, CrashNum
  <2>3. CASE Request
    <3>1. PICK o \in Observations :
            LET r == do_verify(e, c, Pattern[idx], count, o)
            IN  /\ e' = r.eng
                /\ log' = IF r.ret = VERI_STATUS_FINISH THEN log
                          ELSE [log EXCEPT !.requests =
                                  Append(@, [lsn |-> Pattern[idx], loop |-> e.loop, o |-> o])]
      BY <2>3 DEF Request
    <3> DEFINE r   == do_verify(e, c, Pattern[idx], count, o)
               rec == [lsn |-> Pattern[idx], loop |-> e.loop, o |-> o]
    <3>2. Pattern[idx] \in Nat /\ count \in Nat \ {0} /\ c \in Values
      BY <1>1, <2>3, PatternElement, ConfigIsValue DEF Request, TypeOK
    <3>3. /\ WindowFull(e) => e' = e
          /\ ~WindowFull(e) => r.ret # VERI_STATUS_FINISH
          /\ ~WindowFull(e) /\ ~o.io =>
               e'.result \in {e.result, VERI_EREQUEST, VERI_EPARTIAL}
      BY <2>1, <3>1, <3>2, ObservationIsReading, DoVerify
    <3>4. ~WindowFull(e) => ~o.io
      <4> SUFFICES ASSUME ~WindowFull(e) PROVE ~o.io
        OBVIOUS
      <4>1. rec \in RequestRecord /\ rec.o = o
        BY <2>1, <3>2 DEF Engine, RequestRecord
      <4>2. log' = [log EXCEPT !.requests = Append(@, rec)]
        BY <3>1, <3>3
      <4> HIDE DEF rec
      <4>3. Reqs' = Append(Reqs, rec)
        BY <1>1, <4>2 DEF TypeOK, Reqs
      <4>4. PICK last \in Nat : last \in (DOMAIN Reqs)' /\ Reqs'[last] = rec
        BY <1>1, <4>1, <4>3, HistoryGrows
      <4> QED
        BY <4>1, <4>4 DEF DeviceError
    <3> QED
      BY <2>2, <3>3, <3>4
  <2>4. CASE NextLoop
    <3>1. e.loop + 1 \in Nat
      BY <2>1 DEF Engine
    <3> QED
      BY <2>1, <2>2, <2>4, <3>1, LoopCountChanges DEF NextLoop
  <2>5. CASE EndPattern
    BY <2>1, <2>2, <2>5, CurrentStepChanges DEF EndPattern, Steps
  <2>6. CASE CheckRandomZone
    <3>1. PICK zone \in Answers :
            LET checked == verify_check_random_zone(e, zone)
            IN  /\ log' = [log EXCEPT !.zone = zone]
                /\ IF zone = "io"
                   THEN pc' = "judged" /\ e' = checked
                   ELSE pc' = "extra"  /\ e' = verify_set_current_step(checked, "EXTRA")
      BY <2>6 DEF CheckRandomZone
    <3>2. log'.zone = zone
      BY <1>1, <3>1 DEF TypeOK
    <3>3. zone # "io"
      BY <3>2 DEF DeviceError
    <3>4. /\ verify_check_random_zone(e, zone) \in Engine
          /\ verify_check_random_zone(e, zone).result \in {e.result, VERI_EREQUEST}
      BY <2>1, <3>3, RandomZoneChanges DEF Answers
    <3> QED
      BY <2>2, <3>1, <3>3, <3>4, CurrentStepChanges DEF Steps
  <2>7. CASE ExtraVerification
    <3>1. PICK extra \in Answers :
            /\ log' = [log EXCEPT !.extra = extra]
            /\ e' = CASE extra = "ok"  -> e
                      [] extra = "bad" -> verify_set_result(e, VERI_EREQUEST)
                      [] extra = "io"  -> verify_set_result(e, VERI_EIO)
      BY <2>7 DEF ExtraVerification
    <3>2. log'.extra = extra
      BY <1>1, <3>1 DEF TypeOK
    <3>3. extra # "io"
      BY <3>2 DEF DeviceError
    <3>4. VERI_EREQUEST \in Results
      BY DEF Results
    <3> QED
      BY <2>1, <2>2, <3>1, <3>3, <3>4, SetResultChanges DEF Answers
  <2>8. CASE VerifyAgain
    BY <2>1, <2>8, CrashNum DEF VerifyAgain
  <2>9. CASE Stopped
    BY <2>2, <2>9 DEF Stopped, vars
  <2> QED
    BY <2>3, <2>4, <2>5, <2>6, <2>7, <2>8, <2>9 DEF Next
<1>2. TypeOK /\ [Next]_vars => [Sticks]_vars
  BY <1>1
<1> QED
  BY <1>2, TypeCorrect, PTL DEF Spec, CrashIsSticky

-------------------------------------------------------------------------------
(***************************************************************************)
(* Why the verdict is right.  The engine keeps two distances instead of    *)
(* the history: how many requests ago the first suspicion was, and how     *)
(* many ago the power was last cut; every crash is blamed on the step at   *)
(* hand; and the result tells whether something was blamed or a read       *)
(* failed, a failed read winning.                                          *)
(***************************************************************************)
\* The engine's distance to the last request the power was cut in.
PowerOffDistance ==
  /\ e.afterPO = PREVIOUS_LAST_PO => SincePowerOff(Len(Reqs)) = {}
  /\ e.afterPO # PREVIOUS_LAST_PO =>
       /\ Len(Reqs) - e.afterPO \in SincePowerOff(Len(Reqs))
       /\ \A j \in SincePowerOff(Len(Reqs)) : j <= Len(Reqs) - e.afterPO

PowerOffCounted == pc = "pattern" /\ c.internal => PowerOffDistance

\* The engine's distance to the first suspicion.
FirstCounted ==
  e.status # "NORMAL" => \E i \in DOMAIN Reqs : IsFirst(i) /\ e.cnt = Len(Reqs) - i

StepsBlamed ==
  /\ "DEFAULT" \in e.crashed <=> PatternCrash
  /\ "LSN_CRC" \in e.crashed <=> log.zone = "bad"
  /\ "EXTRA"   \in e.crashed <=> log.extra = "bad"

\* The step at hand, and that the checks behind it are still to come.
StepAtHand ==
  /\ pc \in {"pattern", "ended"} => e.step = "DEFAULT" /\ log.zone = "ok" /\ log.extra = "ok"
  /\ pc = "zone"  => e.step = "LSN_CRC" /\ log.zone = "ok" /\ log.extra = "ok"
  /\ pc = "extra" => e.step = "EXTRA" /\ log.zone # "io" /\ log.extra = "ok"

ResultTells ==
  /\ e.result = VERI_EIO <=> DeviceError
  /\ e.result # VERI_EIO => (e.result # VERI_NOERR <=> e.crashed # {})
  /\ pc \in {"pattern", "zone", "extra"} => e.result # VERI_EIO

\* The pattern stops when the window is full, or a read fails.
WindowFilled ==
  pc # "pattern" /\ (\A i \in DOMAIN Reqs : ~Reqs[i].o.io) => e.cnt = RequestWindow

VerdictInv == /\ PowerOffCounted /\ FirstCounted /\ StepsBlamed
              /\ StepAtHand /\ ResultTells /\ WindowFilled

(* Evidence found in the requests read so far is not undone by the next.    *)
LEMMA EvidenceStays ==
  ASSUME TypeOK, NEW rec \in RequestRecord, Reqs' = Append(Reqs, rec), c' = c,
         NEW i \in DOMAIN Reqs
  PROVE  /\ IsFirst(i)' <=> IsFirst(i)
         /\ Torn(i)' <=> Torn(i)
         /\ TooFar(i)' <=> TooFar(i)
<1>1. /\ DOMAIN Reqs = 1 .. Len(Reqs) /\ Len(Reqs) \in Nat
      /\ (DOMAIN Reqs)' = 1 .. Len(Reqs) + 1
      /\ \A j \in DOMAIN Reqs : (Reqs[j])' = Reqs[j] /\ (Unexpected(j)' <=> Unexpected(j))
  BY HistoryGrows
<1>2. \A j \in 1 .. i : j \in DOMAIN Reqs
  BY <1>1
<1>3. IsFirst(i)' <=> IsFirst(i)
  <2>1. i \in (DOMAIN Reqs)' /\ \A j \in 1 .. i - 1 : j \in DOMAIN Reqs
    BY <1>1
  <2> QED BY <1>1, <2>1 DEF IsFirst
<1>4. Torn(i)' <=> Torn(i)
  BY <1>1 DEF Torn
<1>5. SincePowerOff(i)' = SincePowerOff(i)
  BY <1>1, <1>2 DEF SincePowerOff
<1> QED BY <1>3, <1>4, <1>5 DEF TooFar

(* There is one first suspicion.                                            *)
LEMMA OneFirst ==
  ASSUME TypeOK, NEW i, NEW j, IsFirst(i), IsFirst(j)
  PROVE  i = j
<1>1. i \in Nat \ {0} /\ j \in Nat \ {0}
  BY DEF IsFirst, TypeOK, Reqs
<1>2. ~(i \in 1 .. j - 1) /\ ~(j \in 1 .. i - 1)
  BY DEF IsFirst
<1> QED BY <1>1, <1>2

(* Behind the first suspicion only a hit is new evidence.                   *)
LEMMA BehindFirst ==
  ASSUME TypeOK, TypeOK', NEW rec \in RequestRecord, Reqs' = Append(Reqs, rec), c' = c,
         NEW i, IsFirst(i)
  PROVE  /\ IsFirst(i)'
         /\ PatternCrash' <=> PatternCrash \/ (~rec.o.io /\ rec.o.hit)
<1> DEFINE Hit(j) == ~Reqs[j].o.io /\ Reqs[j].o.hit
           Crashes == Torn(i) \/ TooFar(i) \/ \E j \in i + 1 .. Len(Reqs) : Hit(j)
<1>1. /\ DOMAIN Reqs = 1 .. Len(Reqs) /\ Len(Reqs) \in Nat
      /\ (DOMAIN Reqs)' = 1 .. Len(Reqs) + 1
      /\ \A j \in DOMAIN Reqs : (Reqs[j])' = Reqs[j]
      /\ Reqs'[Len(Reqs) + 1] = rec
  BY HistoryGrows
<1>2. i \in DOMAIN Reqs
  BY DEF IsFirst
<1>3. IsFirst(i)' /\ (Torn(i)' <=> Torn(i)) /\ (TooFar(i)' <=> TooFar(i))
  BY <1>2, EvidenceStays
<1>4. PatternCrash <=> Crashes
  BY <1>2, OneFirst DEF PatternCrash
<1>5. PatternCrash' <=> Crashes'
  <2>1. \A j : IsFirst(j)' => i = j
    <3> SUFFICES ASSUME NEW j, IsFirst(j)' PROVE i = j
      OBVIOUS
    <3>1. IsFirst(i)'
      BY <1>3
    <3>2. (i \in Nat \ {0} /\ j \in Nat \ {0})'
      BY <3>1 DEF IsFirst, TypeOK, Reqs
    <3>3. (~(i \in 1 .. j - 1) /\ ~(j \in 1 .. i - 1))'
      BY <3>1 DEF IsFirst
    <3> QED BY <3>2, <3>3
  <2>2. i \in (DOMAIN Reqs)'
    BY <1>1, <1>2
  <2> QED BY <1>3, <2>1, <2>2 DEF PatternCrash
<1>6. (\E j \in i + 1 .. Len(Reqs) : Hit(j))'
        <=> (\E j \in i + 1 .. Len(Reqs) : Hit(j)) \/ (~rec.o.io /\ rec.o.hit)
  <2>1. PICK n \in Nat : n = Len(Reqs)
    BY <1>1
  <2>2. Len(Reqs)' = n + 1
    BY <1>1, <2>1 DEF TypeOK, Reqs
  <2>3. /\ \A j \in 1 .. n : (Hit(j))' <=> Hit(j)
        /\ (Hit(n + 1))' <=> ~rec.o.io /\ rec.o.hit
    BY <1>1, <2>1
  <2>4. i \in 1 .. n
    BY <1>1, <1>2, <2>1
  <2> HIDE DEF Hit
  <2>5. /\ \A j \in i + 1 .. n : j \in 1 .. n
        /\ i + 1 .. n + 1 = (i + 1 .. n) \cup {n + 1}
    BY <2>4
  <2> QED BY <2>1, <2>2, <2>3, <2>5
<1> QED BY <1>3, <1>4, <1>5, <1>6

(* While nothing is suspected, the only evidence is the last request's own. *)
LEMMA BeforeFirst ==
  ASSUME TypeOK, TypeOK', NEW rec \in RequestRecord, Reqs' = Append(Reqs, rec), c' = c,
         \A i \in DOMAIN Reqs : ~Unexpected(i),
         NEW k \in Nat, k = Len(Reqs) + 1
  PROVE  /\ ~PatternCrash
         /\ IsFirst(k)' <=> ~rec.o.io /\ ~AllExpected(rec.o.pages)
         /\ Torn(k)' <=> Intolerable(c, rec.o)
         /\ PatternCrash' <=> IsFirst(k)' /\ (Torn(k)' \/ TooFar(k)')
<1>1. /\ DOMAIN Reqs = 1 .. k - 1
      /\ (DOMAIN Reqs)' = 1 .. k
      /\ \A j \in DOMAIN Reqs : ~(Unexpected(j)')
      /\ Reqs'[k] = rec
  BY HistoryGrows
<1>2. ~PatternCrash
  BY DEF PatternCrash, IsFirst
<1>3. IsFirst(k)' <=> ~rec.o.io /\ ~AllExpected(rec.o.pages)
  BY <1>1 DEF IsFirst, Unexpected
<1>4. Torn(k)' <=> Intolerable(c, rec.o)
  BY <1>1 DEF Torn, Intolerable
<1>5. \A i : IsFirst(i)' => i = k
  BY <1>1 DEF IsFirst
<1>6. Len(Reqs)' = k
  BY <1>1 DEF TypeOK, Reqs
<1>7. PatternCrash' <=> IsFirst(k)' /\ (Torn(k)' \/ TooFar(k)')
  BY <1>1, <1>5, <1>6 DEF PatternCrash
<1> QED BY <1>2, <1>3, <1>4, <1>7

(* The distance the engine keeps is the one the history has, so FarFromPowerOff *)
(* tells of the request at hand what TooFar does.                           *)
LEMMA DistanceIsKept ==
  ASSUME TypeOK, TypeOK', NEW rec \in RequestRecord, Reqs' = Append(Reqs, rec), c' = c,
         c.internal => PowerOffDistance,
         e'.afterPO = After(e, c, rec.lsn),
         NEW k \in Nat, k = Len(Reqs) + 1
  PROVE  /\ c.internal => PowerOffDistance'
         /\ TooFar(k)' <=> Far(After(e, c, rec.lsn), c)
<1> DEFINE since == SincePowerOff(Len(Reqs))
           after == e.afterPO
           now   == SincePowerOff(k)'
<1>1. /\ DOMAIN Reqs = 1 .. k - 1
      /\ \A j \in DOMAIN Reqs : (Reqs[j])' = Reqs[j]
      /\ Reqs'[k] = rec
      /\ Len(Reqs) = k - 1 /\ Len(Reqs)' = k
  BY HistoryGrows DEF TypeOK, Reqs
<1>2. SincePowerOff(Len(Reqs))' = now
  BY <1>1
<1>3. /\ rec.lsn = c.poffPos => now = since \cup {k}
      /\ rec.lsn # c.poffPos => now = since
      /\ since \subseteq 1 .. k - 1 /\ now \subseteq 1 .. k
  <2>1. since = {j \in 1 .. k - 1 : Reqs[j].lsn = c.poffPos}
    BY <1>1 DEF SincePowerOff
  <2>2. now = {j \in 1 .. k : Reqs'[j].lsn = c.poffPos}
    BY DEF SincePowerOff
  <2>3. \A j \in 1 .. k - 1 : Reqs'[j] = Reqs[j]
    BY <1>1
  <2>4. 1 .. k = (1 .. k - 1) \cup {k} /\ k \notin 1 .. k - 1
    BY <1>1
  <2> HIDE DEF since, now
  <2> QED BY <1>1, <2>1, <2>2, <2>3, <2>4
<1>4. after \in Nat \cup {-1} /\ e'.afterPO \in Nat \cup {-1} /\ k \in Nat \ {0}
  <2>1. e \in Engine /\ e' \in Engine /\ Len(Reqs) \in Nat
    BY HistoryGrows DEF TypeOK
  <2>2. after \in Nat \cup {-1} /\ e'.afterPO \in Nat \cup {-1}
    BY <2>1 DEF Engine, PREVIOUS_LAST_PO
  <2> QED BY <2>1, <2>2
<1>5. CASE ~c.internal
  BY <1>5 DEF TooFar, Far
<1>6. CASE c.internal
  <2>1. /\ after = -1 => since = {}
        /\ after # -1 => k - 1 - after \in since /\ \A j \in since : j <= k - 1 - after
    BY <1>1, <1>6 DEF PowerOffDistance, PREVIOUS_LAST_PO
  <2>2. e'.afterPO = IF rec.lsn = c.poffPos THEN 0 ELSE IF after >= 0 THEN after + 1 ELSE after
    BY <1>6 DEF After, LAST_PO
  <2> HIDE DEF since, now, after
  <2>3. /\ e'.afterPO = -1 => now = {}
        /\ e'.afterPO # -1 => k - e'.afterPO \in now /\ \A j \in now : j <= k - e'.afterPO
    <3>1. CASE rec.lsn = c.poffPos
      <4>1. now = since \cup {k} /\ e'.afterPO = 0
        BY <1>3, <2>2, <3>1
      <4> QED BY <1>3, <1>4, <4>1
    <3>2. CASE rec.lsn # c.poffPos /\ after >= 0
      <4>1. now = since /\ e'.afterPO = after + 1 /\ after \in Nat
        BY <1>3, <1>4, <2>2, <3>2
      <4>2. k - 1 - after \in since /\ \A j \in since : j <= k - 1 - after
        BY <2>1, <4>1
      <4>3. k - e'.afterPO = k - 1 - after /\ e'.afterPO # -1
        BY <4>1
      <4> QED BY <4>1, <4>2, <4>3
    <3>3. CASE rec.lsn # c.poffPos /\ ~(after >= 0)
      BY <1>3, <1>4, <2>1, <2>2, <3>3
    <3> QED BY <3>1, <3>2, <3>3
  <2>4. PowerOffDistance'
    BY <1>1, <1>2, <2>3 DEF PowerOffDistance, PREVIOUS_LAST_PO
  <2>5. (\A j \in now : k > j + 1) <=> e'.afterPO = -1 \/ e'.afterPO > 1
    <3>1. CASE e'.afterPO = -1
      BY <2>3, <3>1
    <3>2. CASE e'.afterPO # -1
      <4>1. PICK a \in Nat : a = e'.afterPO
        BY <1>4, <3>2
      <4>2. k - a \in now /\ \A j \in now : j <= k - a
        BY <2>3, <3>2, <4>1
      <4>3. now \subseteq Nat
        BY <1>3, <1>4
      <4> QED BY <1>4, <4>1, <4>2, <4>3
    <3> QED BY <3>1, <3>2
  <2>6. TooFar(k)' <=> /\ c.internal /\ ~c.cache /\ ~c.erase /\ c.poffPos # 0
                       /\ \A j \in now : k > j + 1
    BY DEF TooFar, now
  <2> QED BY <2>4, <2>5, <2>6 DEF Far, LAST_PO, PREVIOUS_LAST_PO
<1> QED BY <1>5, <1>6

-------------------------------------------------------------------------------
(* What one request does to the engine and to the history.                  *)
LEMMA RequestStep ==
  ASSUME TypeOK, Request
  PROVE  \/ /\ WindowFull(e) /\ pc' = "ended"
            /\ UNCHANGED <<e, c, log>>
         \/ \E rec \in RequestRecord :
              /\ ~WindowFull(e) /\ Relevant(rec.o)
              /\ Reqs' = Append(Reqs, rec) /\ log'.zone = log.zone /\ log'.extra = log.extra
              /\ c' = c /\ rec.lsn \in Nat
              /\ pc' = IF rec.o.io THEN "ended" ELSE "pattern"
              /\ e' = do_verify(e, c, rec.lsn, count, rec.o).eng
<1>1. PICK o \in Observations :
        LET r == do_verify(e, c, Pattern[idx], count, o)
        IN  /\ Relevant(o)
            /\ e' = r.eng
            /\ IF r.ret = 0 THEN pc' = pc ELSE pc' = "ended"
            /\ log' = IF r.ret = VERI_STATUS_FINISH THEN log
                      ELSE [log EXCEPT !.requests =
                              Append(@, [lsn |-> Pattern[idx], loop |-> e.loop, o |-> o])]
  BY DEF Request
<1> DEFINE r   == do_verify(e, c, Pattern[idx], count, o)
           rec == [lsn |-> Pattern[idx], loop |-> e.loop, o |-> o]
<1>2. Pattern[idx] \in Nat /\ count \in Nat \ {0} /\ e \in Engine /\ c \in Values
      /\ pc = "pattern" /\ c' = c
  BY PatternElement, ConfigIsValue DEF Request, TypeOK
<1>3. rec \in RequestRecord /\ rec.lsn = Pattern[idx] /\ rec.o = o
  BY <1>2 DEF Engine, RequestRecord
<1>4. /\ WindowFull(e) => r.eng = e /\ r.ret = VERI_STATUS_FINISH
      /\ ~WindowFull(e) => /\ r.ret # VERI_STATUS_FINISH
                           /\ r.ret = 0 <=> ~o.io
  BY <1>2, ObservationIsReading, DoVerify DEF Observations
<1>5. VERI_STATUS_FINISH # 0
  BY DEF VERI_STATUS_FINISH
<1>6. /\ e' = r.eng
      /\ pc' = IF r.ret = 0 THEN pc ELSE "ended"
      /\ r.ret = VERI_STATUS_FINISH => log' = log
      /\ r.ret # VERI_STATUS_FINISH => log' = [log EXCEPT !.requests = Append(@, rec)]
  BY <1>1
<1>7. CASE WindowFull(e)
  BY <1>2, <1>4, <1>5, <1>6, <1>7
<1>8. CASE ~WindowFull(e)
  <2>1. r.eng = do_verify(e, c, rec.lsn, count, rec.o).eng
    BY <1>3
  <2> HIDE DEF r, rec
  <2>2. /\ Reqs' = Append(Reqs, rec)
        /\ log'.zone = log.zone /\ log'.extra = log.extra
    BY <1>4, <1>6, <1>8 DEF TypeOK, Reqs
  <2>3. /\ pc' = IF rec.o.io THEN "ended" ELSE "pattern"
        /\ e' = do_verify(e, c, rec.lsn, count, rec.o).eng
        /\ Relevant(rec.o) /\ rec.lsn \in Nat
    BY <1>1, <1>2, <1>3, <1>4, <1>6, <1>8, <2>1
  <2> QED BY <1>2, <1>3, <1>8, <2>2, <2>3
<1> QED BY <1>7, <1>8

(* A request that is no evidence leaves the suspicion and the blame alone.  *)
LEMMA EvidenceRequest ==
  ASSUME TypeOK, TypeOK', ResumeInv, VerdictInv, pc = "pattern",
         NEW rec \in RequestRecord, ~WindowFull(e), Relevant(rec.o),
         Reqs' = Append(Reqs, rec), c' = c, rec.lsn \in Nat,
         e' = do_verify(e, c, rec.lsn, count, rec.o).eng
  PROVE  /\ FirstCounted'
         /\ c.internal => PowerOffDistance'
         /\ "DEFAULT" \in e'.crashed <=> PatternCrash'
         /\ "LSN_CRC" \notin e'.crashed /\ "EXTRA" \notin e'.crashed
         /\ e'.step = "DEFAULT"
         /\ rec.o.io => e'.result = VERI_EIO
         /\ ~rec.o.io => /\ e'.result # VERI_EIO
                         /\ e'.result # VERI_NOERR <=> e'.crashed # {}
<1> DEFINE o == rec.o
<1>1. /\ e \in Engine /\ c \in Values /\ count \in Nat \ {0}
      /\ o \in Observations /\ o \in Readings
  BY ConfigIsValue, ObservationIsReading DEF TypeOK, RequestRecord
<1>2. /\ e'.cnt = IF e.status # "NORMAL" THEN e.cnt + 1 ELSE e.cnt
      /\ e'.afterPO = After(e, c, rec.lsn) /\ e'.step = e.step
      /\ \/ o.io
         \/ e.verify = "normal" /\ AllExpected(o.pages)
         \/ e.verify # "normal" /\ ~o.hit
         => e'.crashed = e.crashed
      /\ ~o.io /\ e.verify = "normal" /\ ~AllExpected(o.pages) =>
           IF Intolerable(c, o) \/ Far(After(e, c, rec.lsn), c)
           THEN e'.crashed = e.crashed \cup {e.step} /\ e'.result \in {VERI_EREQUEST, VERI_EPARTIAL}
           ELSE e'.crashed = e.crashed /\ e'.result = e.result
      /\ ~o.io /\ e.verify # "normal" /\ o.hit => e'.crashed = e.crashed \cup {e.step}
  BY <1>1, DoVerifyBlames
<1>3. /\ o.io => e'.result = VERI_EIO /\ e'.status = e.status
      /\ ~o.io /\ e.verify = "normal" /\ AllExpected(o.pages) =>
           e'.result = e.result /\ e'.status = e.status
      /\ ~o.io /\ e.verify = "normal" /\ ~AllExpected(o.pages) => e'.status # "NORMAL"
      /\ ~o.io /\ e.verify # "normal" /\ ~o.hit =>
           e'.result = e.result /\ e'.status = e.status
      /\ ~o.io /\ e.verify # "normal" /\ o.hit => e'.result = VERI_EPARTIAL
  <2> DEFINE r == do_verify(e, c, rec.lsn, count, o)
  <2>1. e' = r.eng
    OBVIOUS
  <2> HIDE DEF o
  <2>2. /\ o.io => r.eng.result = VERI_EIO /\ Untouched(e, r.eng)
        /\ ~o.io /\ e.verify = "normal" /\ AllExpected(o.pages) =>
             r.eng.result = e.result /\ Untouched(e, r.eng)
        /\ ~o.io /\ e.verify = "normal" /\ ~AllExpected(o.pages) => r.eng.status # "NORMAL"
        /\ ~o.io /\ e.verify # "normal" /\ ~o.hit =>
             r.eng.result = e.result /\ Untouched(e, r.eng)
        /\ ~o.io /\ e.verify # "normal" /\ o.hit => r.eng.result = VERI_EPARTIAL
    <3>1. e \in Engine /\ c \in Values /\ count \in Nat \ {0} /\ o \in Readings
      BY <1>1
    <3> QED BY <3>1, DoVerify
  <2> HIDE DEF r
  <2>3. /\ o.io => e'.result = VERI_EIO /\ Untouched(e, e')
        /\ ~o.io /\ e.verify = "normal" /\ AllExpected(o.pages) =>
             e'.result = e.result /\ Untouched(e, e')
        /\ ~o.io /\ e.verify = "normal" /\ ~AllExpected(o.pages) => e'.status # "NORMAL"
        /\ ~o.io /\ e.verify # "normal" /\ ~o.hit =>
             e'.result = e.result /\ Untouched(e, e')
        /\ ~o.io /\ e.verify # "normal" /\ o.hit => e'.result = VERI_EPARTIAL
    BY <2>1, <2>2
  <2> QED BY <2>3 DEF Untouched
<1>4. /\ e.step = "DEFAULT" /\ e.result # VERI_EIO
      /\ "LSN_CRC" \notin e.crashed /\ "EXTRA" \notin e.crashed
      /\ "DEFAULT" \in e.crashed <=> PatternCrash
      /\ e.result # VERI_NOERR <=> e.crashed # {}
      /\ c.internal => PowerOffDistance
  BY DEF VerdictInv, StepAtHand, StepsBlamed, ResultTells, PowerOffCounted
<1>5. e.crashed # {} => "DEFAULT" \in e.crashed
  BY <1>1, <1>4 DEF Engine, Steps
<1>6. /\ VERI_NOERR \notin {VERI_EREQUEST, VERI_EPARTIAL}
      /\ VERI_EIO \notin {VERI_EREQUEST, VERI_EPARTIAL}
  BY DEF VERI_NOERR, VERI_EIO, VERI_EREQUEST, VERI_EPARTIAL
<1>7. PICK k \in Nat : k = Len(Reqs) + 1
  BY HistoryGrows
<1>8. /\ c.internal => PowerOffDistance'
      /\ TooFar(k)' <=> Far(After(e, c, rec.lsn), c)
  BY <1>2, <1>4, <1>7, DistanceIsKept
<1>9. Len(Reqs)' = k /\ Len(Reqs) = k - 1 /\ (DOMAIN Reqs)' = 1 .. k
  BY <1>7, HistoryGrows DEF TypeOK, Reqs
<1>10. o.io \/ e.verify = "normal" => ~o.hit
  BY DEF Relevant
<1>11. CASE e.status = "NORMAL"
  <2>1. e.cnt = 0 /\ e.verify = "normal" /\ \A i \in DOMAIN Reqs : ~Unexpected(i)
    BY <1>11 DEF ResumeInv, NormalMeansNothing
  <2>2. /\ ~PatternCrash
        /\ IsFirst(k)' <=> ~o.io /\ ~AllExpected(o.pages)
        /\ PatternCrash' <=> IsFirst(k)' /\ (Intolerable(c, o) \/ Far(After(e, c, rec.lsn), c))
    BY <1>7, <1>8, <2>1, BeforeFirst
  <2>3. CASE o.io \/ AllExpected(o.pages)
    <3>1. e'.crashed = e.crashed /\ e'.status = "NORMAL" /\ (~o.io => e'.result = e.result)
      BY <1>2, <1>3, <1>11, <2>1, <2>3
    <3> QED BY <1>2, <1>3, <1>4, <1>8, <2>2, <2>3, <3>1 DEF FirstCounted
  <2>4. CASE ~o.io /\ ~AllExpected(o.pages)
    <3>1. FirstCounted'
      <4>1. k \in (DOMAIN Reqs)' /\ IsFirst(k)' /\ e'.cnt = (Len(Reqs))' - k
        BY <1>2, <1>7, <1>9, <1>11, <2>1, <2>2, <2>4
      <4> QED BY <4>1 DEF FirstCounted
    <3>2. IF PatternCrash'
          THEN /\ e'.crashed = e.crashed \cup {"DEFAULT"}
               /\ e'.result \in {VERI_EREQUEST, VERI_EPARTIAL}
          ELSE e'.crashed = e.crashed /\ e'.result = e.result
      BY <1>2, <1>4, <2>1, <2>2, <2>4
    <3> QED BY <1>2, <1>4, <1>6, <1>8, <2>2, <2>4, <3>1, <3>2
  <2> QED BY <2>3, <2>4
<1>12. CASE e.status # "NORMAL"
  <2>1. PICK i \in DOMAIN Reqs : IsFirst(i) /\ e.cnt = Len(Reqs) - i
    BY <1>12 DEF VerdictInv, FirstCounted
  <2>2. /\ IsFirst(i)'
        /\ PatternCrash' <=> PatternCrash \/ (~o.io /\ o.hit)
    BY <2>1, BehindFirst
  <2>3. FirstCounted'
    <3>1. i \in (DOMAIN Reqs)' /\ e'.cnt = (Len(Reqs))' - i
      BY <1>2, <1>7, <1>9, <1>12, <2>1 DEF TypeOK, Reqs
    <3> QED BY <2>2, <3>1 DEF FirstCounted
  <2>4. CASE o.io \/ (e.verify = "normal" /\ AllExpected(o.pages))
             \/ (e.verify # "normal" /\ ~o.hit)
    <3>1. e'.crashed = e.crashed /\ (~o.io => e'.result = e.result)
      BY <1>2, <1>3, <2>4
    <3>2. PatternCrash' <=> PatternCrash
      BY <1>10, <2>2, <2>4
    <3> QED BY <1>2, <1>3, <1>4, <1>8, <2>3, <3>1, <3>2
  <2>5. CASE ~o.io /\ e.verify = "normal" /\ ~AllExpected(o.pages)
    <3>1. e.result # VERI_NOERR
      BY <1>12, <2>5 DEF ResumeInv, NotSwitchedIsCrash
    <3>2. "DEFAULT" \in e.crashed /\ PatternCrash
      BY <1>4, <1>5, <3>1
    <3>3. e'.crashed = e.crashed /\ e'.result \in {e.result, VERI_EREQUEST, VERI_EPARTIAL}
      BY <1>2, <1>4, <2>5, <3>2
    <3> QED BY <1>2, <1>4, <1>6, <1>8, <2>2, <2>3, <2>5, <3>1, <3>2, <3>3
  <2>6. CASE ~o.io /\ e.verify # "normal" /\ o.hit
    <3>1. e'.crashed = e.crashed \cup {"DEFAULT"} /\ e'.result = VERI_EPARTIAL
      BY <1>2, <1>3, <1>4, <2>6
    <3> QED BY <1>2, <1>4, <1>6, <1>8, <2>2, <2>3, <2>6, <3>1
  <2> QED BY <1>1, <2>4, <2>5, <2>6 DEF Observations
<1> QED BY <1>11, <1>12

LEMMA VerdictInvRequest == TypeOK /\ TypeOK' /\ ResumeInv /\ VerdictInv /\ Request => VerdictInv'
<1> SUFFICES ASSUME TypeOK, TypeOK', ResumeInv, VerdictInv, Request PROVE VerdictInv'
  OBVIOUS
<1>1. pc = "pattern" /\ log.zone = "ok" /\ log.extra = "ok" /\ ~DeviceError
  BY DEF Request, VerdictInv, StepAtHand, ResultTells
<1>2. CASE WindowFull(e) /\ pc' = "ended" /\ UNCHANGED <<e, c, log>>
  <2>1. e' = e /\ c' = c /\ log' = log /\ Reqs' = Reqs
    BY <1>2 DEF Reqs
  <2>2. e.cnt = RequestWindow
    <3>1. e.cnt \in 0 .. RequestWindow
      BY DEF TypeOK, Engine
    <3> QED BY <1>2, <3>1, RequestWindowAssumption DEF WindowFull
  <2>3. (PatternCrash' <=> PatternCrash) /\ (DeviceError' <=> DeviceError) /\ FirstCounted'
    BY <2>1 DEF PatternCrash, DeviceError, VerdictInv, FirstCounted, IsFirst, Unexpected, Torn,
                TooFar, SincePowerOff
  <2>4. StepsBlamed' /\ StepAtHand' /\ ResultTells'
    BY <1>1, <1>2, <2>1, <2>3 DEF VerdictInv, StepsBlamed, StepAtHand, ResultTells
  <2> QED BY <1>2, <2>1, <2>2, <2>3, <2>4 DEF VerdictInv, PowerOffCounted, WindowFilled
<1>3. ASSUME NEW rec \in RequestRecord,
             ~WindowFull(e), Relevant(rec.o),
             Reqs' = Append(Reqs, rec), log'.zone = log.zone, log'.extra = log.extra,
             c' = c, rec.lsn \in Nat,
             pc' = IF rec.o.io THEN "ended" ELSE "pattern",
             e' = do_verify(e, c, rec.lsn, count, rec.o).eng
      PROVE  VerdictInv'
  <2>1. /\ FirstCounted'
        /\ c.internal => PowerOffDistance'
        /\ "DEFAULT" \in e'.crashed <=> PatternCrash'
        /\ "LSN_CRC" \notin e'.crashed /\ "EXTRA" \notin e'.crashed
        /\ e'.step = "DEFAULT"
        /\ rec.o.io => e'.result = VERI_EIO
        /\ ~rec.o.io => /\ e'.result # VERI_EIO
                        /\ e'.result # VERI_NOERR <=> e'.crashed # {}
    BY <1>1, <1>3, EvidenceRequest
  <2>2. /\ DOMAIN Reqs = 1 .. Len(Reqs) /\ Len(Reqs) \in Nat
        /\ (DOMAIN Reqs)' = 1 .. Len(Reqs) + 1
        /\ \A i \in DOMAIN Reqs : (Reqs[i])' = Reqs[i]
        /\ Reqs'[Len(Reqs) + 1] = rec
    BY <1>3, HistoryGrows
  <2>3. (\E i \in DOMAIN Reqs : Reqs[i].o.io)' <=> rec.o.io
    <3>1. PICK k \in Nat : k = Len(Reqs) + 1
      BY <2>2
    <3>2. (DOMAIN Reqs)' = DOMAIN Reqs \cup {k} /\ Reqs'[k] = rec
      BY <2>2, <3>1
    <3>3. \A i \in DOMAIN Reqs : ~Reqs'[i].o.io
      BY <1>1, <2>2 DEF DeviceError
    <3> QED BY <3>2, <3>3
  <2>4. rec.o.io \in BOOLEAN
    BY DEF RequestRecord, Observations
  <2>5. DeviceError' <=> rec.o.io
    BY <1>1, <1>3, <2>3 DEF DeviceError
  <2>6. PowerOffCounted' /\ StepsBlamed' /\ StepAtHand'
    BY <1>1, <1>3, <2>1 DEF PowerOffCounted, StepsBlamed, StepAtHand
  <2>7. ResultTells' /\ WindowFilled'
    BY <1>3, <2>1, <2>3, <2>4, <2>5 DEF ResultTells, WindowFilled
  <2> QED BY <2>1, <2>6, <2>7 DEF VerdictInv
<1> QED BY <1>2, <1>3, RequestStep

LEMMA VerdictInvInit == Init => VerdictInv
<1> SUFFICES ASSUME Init PROVE VerdictInv
  OBVIOUS
<1>1. PICK loop \in 1 .. MaxLoop : e = verify_reset(loop, 1)
  BY DEF Init
<1>2. /\ e.status = "NORMAL" /\ e.afterPO = PREVIOUS_LAST_PO /\ e.step = "DEFAULT"
      /\ e.crashed = {} /\ e.result = VERI_NOERR /\ VERI_NOERR # VERI_EIO
  BY <1>1 DEF verify_reset, VERI_NOERR, VERI_EIO
<1>3. /\ DOMAIN Reqs = {} /\ Len(Reqs) = 0 /\ pc = "pattern"
      /\ log.zone = "ok" /\ log.extra = "ok"
  BY DEF Init, Reqs, NoRequests
<1>4. SincePowerOff(Len(Reqs)) = {} /\ ~PatternCrash /\ ~DeviceError
  BY <1>3 DEF SincePowerOff, PatternCrash, DeviceError
<1> QED
  BY <1>2, <1>3, <1>4
  DEF VerdictInv, PowerOffCounted, PowerOffDistance, FirstCounted, StepsBlamed, StepAtHand,
      ResultTells, WindowFilled

(* The requests decide what the pattern's evidence is.                      *)
LEMMA SameHistory ==
  ASSUME Reqs' = Reqs, c' = c
  PROVE  /\ PatternCrash' <=> PatternCrash
         /\ \A i : (IsFirst(i)' <=> IsFirst(i)) /\ SincePowerOff(i)' = SincePowerOff(i)
  BY DEF PatternCrash, IsFirst, Unexpected, Torn, TooFar, SincePowerOff

LEMMA VerdictInvNext ==
  TypeOK /\ TypeOK' /\ ResumeInv /\ VerdictInv /\ [Next]_vars => VerdictInv'
<1> USE DEF VerdictInv, PowerOffCounted, FirstCounted, StepsBlamed, StepAtHand, ResultTells,
            WindowFilled
<1> SUFFICES ASSUME TypeOK, TypeOK', ResumeInv, VerdictInv, [Next]_vars PROVE VerdictInv'
  OBVIOUS
<1>1. e \in Engine /\ log \in [requests : Seq(RequestRecord), zone : Answers, extra : Answers]
  BY DEF TypeOK
<1>2. /\ VERI_NOERR \notin {VERI_EIO, VERI_EREQUEST, VERI_EPARTIAL}
      /\ VERI_EIO \notin {VERI_EREQUEST, VERI_EPARTIAL}
  BY DEF VERI_NOERR, VERI_EIO, VERI_EREQUEST, VERI_EPARTIAL
<1>3. CASE Request
  BY <1>3, VerdictInvRequest
<1>4. CASE NextLoop
  <2>1. Quiet(e, e') /\ e'.status = e.status
    BY <1>1, <1>4, LoopBlames DEF NextLoop
  <2>2. log' = log /\ Reqs' = Reqs /\ c' = c /\ pc' = pc
    BY <1>4 DEF NextLoop, Reqs
  <2>3. PowerOffDistance => PowerOffDistance'
    BY <2>1, <2>2, SameHistory DEF PowerOffDistance, Quiet, Kept
  <2>4. DeviceError' <=> DeviceError
    BY <2>2 DEF DeviceError
  <2> QED BY <2>1, <2>2, <2>3, <2>4, SameHistory DEF Quiet, Kept
<1>5. CASE EndPattern
  <2>1. log' = log /\ Reqs' = Reqs /\ c' = c /\ pc = "ended"
    BY <1>5 DEF EndPattern, Reqs
  <2>2. DeviceError' <=> DeviceError
    BY <2>1 DEF DeviceError
  <2>3. CASE verify_get_error_num(e) # 0
    <3>1. e' = e /\ pc' = "judged"
      BY <1>5, <2>3 DEF EndPattern
    <3> QED BY <2>1, <2>2, <3>1, SameHistory
  <2>4. CASE verify_get_error_num(e) = 0
    <3>1. e' = verify_set_current_step(e, "LSN_CRC") /\ pc' = "zone"
      BY <1>5, <2>4 DEF EndPattern
    <3>2. /\ e'.step = "LSN_CRC" /\ e'.cnt = e.cnt /\ e'.crashed = e.crashed
          /\ e'.result = e.result /\ e'.status = e.status
      BY <1>1, <3>1, StepBlames
    <3>3. e.result # VERI_EIO
      BY <2>4 DEF verify_get_error_num, PLR_EIO
    <3> QED BY <2>1, <2>2, <3>1, <3>2, <3>3, SameHistory
  <2> QED BY <2>3, <2>4
<1>6. CASE CheckRandomZone
  <2>1. PICK zone \in Answers :
          LET checked == verify_check_random_zone(e, zone)
          IN  /\ log' = [log EXCEPT !.zone = zone]
              /\ IF zone = "io"
                 THEN pc' = "judged" /\ e' = checked
                 ELSE pc' = "extra"  /\ e' = verify_set_current_step(checked, "EXTRA")
    BY <1>6 DEF CheckRandomZone
  <2> DEFINE checked == verify_check_random_zone(e, zone)
  <2>2. /\ Reqs' = Reqs /\ log'.zone = zone /\ log'.extra = log.extra /\ c' = c
        /\ pc = "zone"
    BY <1>1, <1>6, <2>1 DEF Reqs, CheckRandomZone
  <2>3. /\ log.zone = "ok" /\ log.extra = "ok" /\ e.step = "LSN_CRC" /\ ~DeviceError
        /\ e.result # VERI_EIO /\ e.status # "NORMAL"
    BY <2>2 DEF ResumeInv, AppliedIsInfo
  <2>4. DeviceError' <=> zone = "io"
    BY <2>2, <2>3 DEF DeviceError
  <2>5. /\ checked \in Engine /\ checked.cnt = e.cnt
        /\ zone = "bad" => checked.crashed = e.crashed \cup {"LSN_CRC"}
                           /\ checked.result = VERI_EREQUEST
        /\ zone # "bad" => checked.crashed = e.crashed
        /\ zone = "io" => checked.result = VERI_EIO
        /\ zone = "ok" => checked.result = e.result
    BY <1>1, <2>3, ZoneBlames, RandomZoneChanges
  <2>6. /\ zone = "io" => pc' = "judged" /\ e' = checked
        /\ zone # "io" => pc' = "extra"  /\ e' = verify_set_current_step(checked, "EXTRA")
    BY <2>1
  <2> HIDE DEF checked
  <2>7. /\ e'.cnt = checked.cnt /\ e'.crashed = checked.crashed /\ e'.result = checked.result
        /\ zone # "io" => e'.step = "EXTRA"
    BY <2>5, <2>6, StepBlames
  <2>8. FirstCounted'
    BY <2>2, <2>3, <2>5, <2>7, SameHistory
  <2>9. StepsBlamed'
    BY <2>2, <2>3, <2>5, <2>7, SameHistory
  <2>10. ResultTells' /\ StepAtHand' /\ PowerOffCounted' /\ WindowFilled'
    BY <1>2, <2>2, <2>3, <2>4, <2>5, <2>6, <2>7 DEF Answers
  <2> QED BY <2>8, <2>9, <2>10
<1>7. CASE ExtraVerification
  <2>1. PICK extra \in Answers :
          /\ log' = [log EXCEPT !.extra = extra]
          /\ e' = CASE extra = "ok"  -> e
                    [] extra = "bad" -> verify_set_result(e, VERI_EREQUEST)
                    [] extra = "io"  -> verify_set_result(e, VERI_EIO)
    BY <1>7 DEF ExtraVerification
  <2>2. /\ Reqs' = Reqs /\ log'.extra = extra /\ log'.zone = log.zone /\ c' = c
        /\ pc = "extra" /\ pc' = "judged"
    BY <1>1, <1>7, <2>1 DEF Reqs, ExtraVerification
  <2>3. /\ log.zone # "io" /\ log.extra = "ok" /\ e.step = "EXTRA" /\ ~DeviceError
        /\ e.result # VERI_EIO /\ e.status # "NORMAL"
    BY <2>2 DEF ResumeInv, AppliedIsInfo
  <2>4. DeviceError' <=> extra = "io"
    BY <2>2, <2>3 DEF DeviceError
  <2>5. {VERI_EIO, VERI_EREQUEST} \subseteq Results
    BY DEF Results
  <2>6. /\ e'.cnt = e.cnt
        /\ extra = "bad" => e'.crashed = e.crashed \cup {"EXTRA"} /\ e'.result = VERI_EREQUEST
        /\ extra # "bad" => e'.crashed = e.crashed
        /\ extra = "io" => e'.result = VERI_EIO
        /\ extra = "ok" => e'.result = e.result
    BY <1>1, <2>1, <2>3, <2>5, SetResultBlames, SetResultChanges DEF Answers, Blamed, Kept
  <2>7. FirstCounted' /\ StepsBlamed'
    BY <2>2, <2>3, <2>6, SameHistory
  <2>8. ResultTells' /\ StepAtHand' /\ PowerOffCounted' /\ WindowFilled'
    BY <1>2, <2>2, <2>3, <2>4, <2>6 DEF Answers
  <2> QED BY <2>7, <2>8
<1>8. CASE VerifyAgain
  <2>1. PICK loop \in 1 .. MaxLoop : e' = verify_reset(loop, 1)
    BY <1>8 DEF VerifyAgain
  <2>2. /\ e'.status = "NORMAL" /\ e'.afterPO = PREVIOUS_LAST_PO /\ e'.step = "DEFAULT"
        /\ e'.crashed = {} /\ e'.result = VERI_NOERR
    BY <2>1 DEF verify_reset
  <2>3. /\ (DOMAIN Reqs)' = {} /\ Len(Reqs)' = 0 /\ pc' = "pattern"
        /\ log'.zone = "ok" /\ log'.extra = "ok"
    BY <1>8 DEF VerifyAgain, Reqs, NoRequests
  <2>4. SincePowerOff(Len(Reqs))' = {} /\ ~PatternCrash' /\ ~DeviceError'
    BY <2>3 DEF SincePowerOff, PatternCrash, DeviceError
  <2> QED BY <1>2, <2>2, <2>3, <2>4 DEF PowerOffDistance
<1>9. CASE Stopped \/ UNCHANGED vars
  <2>1. /\ e' = e /\ c' = c /\ pc' = pc /\ log' = log /\ Reqs' = Reqs
    BY <1>9 DEF Stopped, vars, Reqs
  <2>2. (PowerOffDistance' <=> PowerOffDistance) /\ (DeviceError' <=> DeviceError)
    BY <2>1, SameHistory DEF PowerOffDistance, DeviceError
  <2> QED BY <2>1, <2>2, SameHistory
<1> QED
  BY <1>3, <1>4, <1>5, <1>6, <1>7, <1>8, <1>9 DEF Next

(* The three parts of the invariant hold together.                          *)
LEMMA Invariant == Spec => [](TypeOK /\ ResumeInv /\ VerdictInv)
<1>1. Init => TypeOK /\ ResumeInv /\ VerdictInv
  BY InitType, ResumeInvInit, VerdictInvInit
<1>2. TypeOK /\ ResumeInv /\ VerdictInv /\ [Next]_vars => (TypeOK /\ ResumeInv /\ VerdictInv)'
  BY NextType, ResumeInvNext, VerdictInvNext
<1> QED BY <1>1, <1>2, PTL DEF Spec

-------------------------------------------------------------------------------
(* verify_pattern answers what the requests read, the zone and the extra    *)
(* check call for: an error when a read failed, a crash when there is       *)
(* evidence of one, and 0 otherwise.                                        *)
THEOREM VerdictRight == Spec => []VerdictIsRight
<1>1. TypeOK /\ ResumeInv /\ VerdictInv => VerdictIsRight
  <2> SUFFICES ASSUME TypeOK, VerdictInv, pc = "judged"
               PROVE  verify_get_result(e) = IF DeviceError THEN PLR_EIO
                                             ELSE IF CrashFound THEN PLR_ECRASH ELSE 0
    BY DEF VerdictIsRight
  <2>1. e.result \in Results /\ e.crashed \subseteq Steps
    BY DEF TypeOK, Engine
  <2>2. verify_get_result(e) = IF e.result = VERI_EIO THEN PLR_EIO
                               ELSE IF e.result # VERI_NOERR THEN PLR_ECRASH ELSE 0
    BY <2>1 DEF verify_get_result, verify_get_error_num, verify_get_crash_num, Results,
                VERI_NOERR, VERI_EIO, VERI_EREQUEST, VERI_EPARTIAL, PLR_EIO, PLR_ECRASH
  <2>3. CrashFound <=> e.crashed # {}
    BY <2>1 DEF VerdictInv, StepsBlamed, CrashFound, Steps
  <2> QED BY <2>2, <2>3 DEF VerdictInv, ResultTells
<1> QED BY <1>1, Invariant, PTL

(* The report of a crash names the steps that found it and no other.        *)
THEOREM StepsRight == Spec => []CrashedStepsAreRight
<1>1. TypeOK /\ ResumeInv /\ VerdictInv => CrashedStepsAreRight
  BY DEF VerdictInv, StepsBlamed, CrashedStepsAreRight
<1> QED BY <1>1, Invariant, PTL

(* The pattern stops when RequestWindow requests behind the first suspicion *)
(* are read, neither sooner nor later, unless the device fails.             *)
THEOREM WindowRight == Spec => []WindowIsRead
<1>1. TypeOK /\ ResumeInv /\ VerdictInv => WindowIsRead
  <2> SUFFICES ASSUME TypeOK, ResumeInv, VerdictInv,
                      pc \in {"zone", "extra", "judged"}, \A i \in DOMAIN Reqs : ~Reqs[i].o.io
               PROVE  \E i \in DOMAIN Reqs : IsFirst(i) /\ Len(Reqs) = i + RequestWindow
    BY DEF WindowIsRead
  <2>1. e.cnt = RequestWindow
    BY DEF VerdictInv, WindowFilled
  <2>2. e.status # "NORMAL"
    BY <2>1, RequestWindowAssumption DEF ResumeInv, NormalMeansNothing
  <2>3. PICK i \in DOMAIN Reqs : IsFirst(i) /\ e.cnt = Len(Reqs) - i
    BY <2>2 DEF VerdictInv, FirstCounted
  <2>4. Len(Reqs) = i + RequestWindow
    <3>1. Len(Reqs) \in Nat /\ i \in 1 .. Len(Reqs)
      BY DEF TypeOK, Reqs
    <3> QED BY <2>1, <2>3, <3>1, RequestWindowAssumption
  <2> QED BY <2>3, <2>4
<1> QED BY <1>1, Invariant, PTL

-------------------------------------------------------------------------------
(***************************************************************************)
(* That the loop of check_partial_writing computes the class of VerifyCore *)
(* for requests of any length and any minor number of a test.              *)
(***************************************************************************)

\* The changes the scan has seen, and the page it has seen last.
Seen == {i \in Changes(buf) : i < page_index}

LastSeen == IF page_index = 1 THEN 1 ELSE page_index - 1

ScanTyped ==
  /\ buf \in Seq(BOOLEAN) /\ Len(buf) \in Nat \ {0}
  /\ page_index \in 1 .. Len(buf) + 1
  /\ looking_for \in {EXPECTED, UNEXPECTED}
  /\ partial_type \in Nat
  /\ place \in {"scan", "classified", "judged"}

\* No change, one change or more, and looking for the negation of the last page.
Scanned ==
  place = "scan" =>
    /\ looking_for = EXPECTED <=> ~buf[LastSeen]
    /\ partial_type = 0 <=> Seen = {}
    /\ partial_type = 1 <=> \E i \in Seen : Seen = {i}

Classified ==
  /\ place # "scan" => partial_type = classify_partial_type(buf)
  /\ place # "judged" => events = [event1 |-> 0, event2 |-> 0]

ScanInv == ScanTyped /\ Scanned /\ Classified /\ LoopComputesTheClass

(* The class tells whether there is a change at all.                        *)
LEMMA ClassIs ==
  ASSUME NEW pages
  PROVE  /\ classify_partial_type(pages) \in 0 .. 3
         /\ classify_partial_type(pages) \in {1, 2} <=> Changes(pages) # {}
BY DEF classify_partial_type

LEMMA ScanInitInv == ScanInit => ScanInv
<1>1. SUFFICES ASSUME ScanInit PROVE ScanInv
  OBVIOUS
<1>2. PICK n \in 1 .. MaxPages : buf \in [1 .. n -> BOOLEAN]
  BY <1>1 DEF ScanInit
<1>3. buf \in Seq(BOOLEAN) /\ Len(buf) = n
  BY <1>2, MaxPagesAssumption
<1>4. ScanTyped
  BY <1>1, <1>2, <1>3, MaxPagesAssumption DEF ScanInit, ScanTyped, EXPECTED, UNEXPECTED
<1>5. Seen = {}
  BY <1>1, <1>3 DEF ScanInit, Seen, Changes
<1>6. looking_for = EXPECTED <=> ~buf[LastSeen]
  BY <1>1 DEF ScanInit, LastSeen, EXPECTED, UNEXPECTED
<1> QED BY <1>1, <1>4, <1>5, <1>6 DEF ScanInit, ScanInv, Scanned, Classified, LoopComputesTheClass

(* The next page is a change if it is not what the last one was.            *)
LEMMA ScanStep == ScanInv /\ ScanPage => ScanInv'
<1>1. SUFFICES ASSUME ScanInv, ScanPage PROVE ScanInv'
  OBVIOUS
<1>2. /\ place = "scan" /\ page_index \in 1 .. Len(buf) /\ page_index' = page_index + 1
      /\ UNCHANGED <<buf, minor, events, partial_error, place>> /\ Len(buf) \in Nat
      /\ looking_for \in {EXPECTED, UNEXPECTED} /\ EXPECTED # UNEXPECTED /\ partial_type \in Nat
      /\ looking_for = EXPECTED <=> ~buf[LastSeen]
      /\ partial_type = 0 <=> Seen = {}
      /\ partial_type = 1 <=> \E i \in Seen : Seen = {i}
  BY <1>1 DEF ScanPage, ScanInv, ScanTyped, Scanned, EXPECTED, UNEXPECTED
<1>3. LastSeen' = page_index /\ buf[page_index] \in BOOLEAN /\ buf[LastSeen] \in BOOLEAN
  BY <1>1, <1>2 DEF LastSeen, ScanInv, ScanTyped
<1>4. CASE buf[page_index] # buf[LastSeen]
  <2>1. buf[page_index] = (looking_for = EXPECTED)
    BY <1>2, <1>3, <1>4
  <2>2. /\ looking_for' = EXPECTED + UNEXPECTED - looking_for
        /\ partial_type' = partial_type + 1
    BY <1>1, <2>1 DEF ScanPage
  <2>3. /\ looking_for' \in {EXPECTED, UNEXPECTED}
        /\ looking_for' = EXPECTED <=> looking_for # EXPECTED
    BY <1>2, <2>2 DEF EXPECTED, UNEXPECTED
  <2>4. page_index \in Changes(buf)
    BY <1>2, <1>4 DEF Changes, LastSeen
  <2>5. Seen' = Seen \cup {page_index} /\ page_index \notin Seen
    BY <1>2, <2>4 DEF Seen, Changes
  <2>6. looking_for' = EXPECTED <=> ~buf[page_index]
    BY <1>2, <1>3, <1>4, <2>3
  <2>7. Scanned'
    <3>1. partial_type' # 0 /\ Seen' # {}
      BY <1>2, <2>2, <2>5
    <3>2. partial_type' = 1 <=> Seen = {}
      BY <1>2, <2>2
    <3>3. (\E i \in Seen' : Seen' = {i}) <=> Seen = {}
      BY <2>5
    <3> QED BY <1>2, <1>3, <2>6, <3>1, <3>2, <3>3 DEF Scanned
  <2> QED BY <1>1, <1>2, <2>2, <2>3, <2>7 DEF ScanInv, ScanTyped, Classified, LoopComputesTheClass
<1>5. CASE buf[page_index] = buf[LastSeen]
  <2>1. ~(buf[page_index] = (looking_for = EXPECTED))
    BY <1>2, <1>3, <1>5
  <2>2. looking_for' = looking_for /\ partial_type' = partial_type
    BY <1>1, <2>1 DEF ScanPage
  <2>3. page_index \notin Changes(buf)
    BY <1>2, <1>5 DEF Changes, LastSeen
  <2>4. Seen' = Seen
    BY <1>2, <2>3 DEF Seen, Changes
  <2>5. Scanned'
    BY <1>2, <1>3, <1>5, <2>2, <2>4 DEF Scanned
  <2> QED BY <1>1, <1>2, <2>2, <2>5 DEF ScanInv, ScanTyped, Classified, LoopComputesTheClass
<1> QED BY <1>4, <1>5

(* At the end the scan has seen every change, and the last page.            *)
LEMMA ClassifyStep == ScanInv /\ Classify => ScanInv'
<1>1. SUFFICES ASSUME ScanInv, Classify PROVE ScanInv'
  OBVIOUS
<1>2. /\ place = "scan" /\ page_index = Len(buf) + 1 /\ place' = "classified"
      /\ UNCHANGED <<buf, minor, page_index, looking_for, events, partial_error>>
      /\ Len(buf) \in Nat \ {0} /\ looking_for \in {EXPECTED, UNEXPECTED} /\ EXPECTED # UNEXPECTED
  BY <1>1 DEF Classify, ScanInv, ScanTyped, EXPECTED, UNEXPECTED
<1>3. Seen = Changes(buf) /\ LastSeen = Len(buf)
  BY <1>2 DEF Seen, Changes, LastSeen
<1>4. /\ looking_for = EXPECTED <=> ~buf[Len(buf)]
      /\ partial_type = 0 <=> Changes(buf) = {}
      /\ partial_type = 1 <=> \E i \in Changes(buf) : Changes(buf) = {i}
  BY <1>1, <1>2, <1>3 DEF ScanInv, Scanned
<1>5. partial_type' = CASE partial_type = 0 /\ looking_for = EXPECTED   -> 0
                        [] partial_type = 1 /\ looking_for = UNEXPECTED -> 1
                        [] partial_type = 0 /\ looking_for = UNEXPECTED -> 3
                        [] OTHER                                        -> 2
  BY <1>1 DEF Classify
<1>6. partial_type' = classify_partial_type(buf)
  BY <1>2, <1>4, <1>5 DEF classify_partial_type
<1>7. partial_type' \in Nat
  BY <1>6, ClassIs
<1> QED BY <1>1, <1>2, <1>6, <1>7 DEF ScanInv, ScanTyped, Scanned, Classified, LoopComputesTheClass

(* The error and the events follow from the class.                          *)
LEMMA JudgeStep == ScanInv /\ Judge => ScanInv'
<1>1. SUFFICES ASSUME ScanInv, Judge PROVE ScanInv'
  OBVIOUS
<1>2. /\ place = "classified" /\ place' = "judged"
      /\ UNCHANGED <<buf, minor, page_index, looking_for, partial_type>>
      /\ partial_type = classify_partial_type(buf)
      /\ events = [event1 |-> 0, event2 |-> 0]
      /\ events' = [event1 |-> events.event1 + (IF partial_type = 1 THEN 1 ELSE 0),
                    event2 |-> events.event2 + (IF partial_type = 2 THEN 1 ELSE 0)]
      /\ partial_error' = IF \/ partial_type = 1 /\ minor <= 0
                             \/ partial_type = 2 /\ minor <= 1
                          THEN VERI_EPARTIAL ELSE VERI_NOERR
  BY <1>1 DEF Judge, ScanInv, Classified
<1>3. partial_error' = check_partial_writing(buf, minor)
  BY <1>2 DEF check_partial_writing
<1>4. events'.event1 + events'.event2 = IF partial_type \in {1, 2} THEN 1 ELSE 0
  BY <1>2
<1>5. events'.event1 + events'.event2 = IF Changes(buf) = {} THEN 0 ELSE 1
  BY <1>2, <1>4, ClassIs
<1> QED BY <1>1, <1>2, <1>3, <1>5 DEF ScanInv, ScanTyped, Scanned, Classified, LoopComputesTheClass

(* For every request, of any number of pages, and every minor number of a   *)
(* test, the scan ends in the class, the error and the event of the formula *)
(* that the models of the engine and of the tests use in its place.         *)
THEOREM LoopIsRight == ScanSpec => []LoopComputesTheClass
<1>1. ScanInit => ScanInv
  BY ScanInitInv
<1>2. ScanInv /\ [ScanNext]_scan_vars => ScanInv'
  <2>1. CASE ScanInv /\ UNCHANGED scan_vars
    BY <2>1 DEF scan_vars, ScanInv, ScanTyped, Scanned, Seen, LastSeen, Classified,
                LoopComputesTheClass
  <2>2. CASE ScanInv /\ ScanStays
    BY <2>1, <2>2 DEF ScanStays
  <2> QED BY <2>1, <2>2, ScanStep, ClassifyStep, JudgeStep DEF ScanNext
<1>3. ScanInv => LoopComputesTheClass
  BY DEF ScanInv
<1> QED BY <1>1, <1>2, <1>3, PTL DEF ScanSpec
===============================================================================
