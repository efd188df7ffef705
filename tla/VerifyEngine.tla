----------------------------- MODULE VerifyEngine -----------------------------
(***************************************************************************)
(* One call of verify_pattern after another (plr_pattern.c), driving the   *)
(* verification engine of VerifyCore with whatever the device may return.  *)
(* The data read is an input: every request is read as expected, partly or *)
(* not at all, with or without evidence of a crash, or the read fails.     *)
(*                                                                         *)
(* A test case's pattern is the sequence Pattern of start sectors; it      *)
(* calls do_verify for each and stops at the first non-zero answer.        *)
(* The aging tests, which skip most of verify_pattern, are left out.       *)
(***************************************************************************)
EXTENDS VerifyCore

CONSTANTS
  Pattern,   \* the start sectors of a loop's requests, in the order of the test case
  Configs,   \* the test configurations to verify under
  PageSeqs,  \* what the pages of a request may look like
  MaxLoop    \* bound: no request was ever written with a loop count >= MaxLoop

ASSUME MaxLoopAssumption == MaxLoop \in Nat \ {0}

ASSUME PatternAssumption == Pattern \in Seq(Nat) /\ Len(Pattern) > 0

ASSUME PageSeqsAssumption ==
  /\ PageSeqs \subseteq Seq(BOOLEAN) \ {<<>>}
  /\ \E pages \in PageSeqs : \E i \in DOMAIN pages : ~pages[i]

ASSUME ConfigsAssumption ==
  Configs \subseteq [ cache : BOOLEAN, internal : BOOLEAN, erase : BOOLEAN,
                      poffPos : Nat, minor : Nat, cycle : Nat \ {0} ]

VARIABLES
  e,         \* the engine
  c,         \* the configuration, fixed during a verification
  pc,        \* where verify_pattern is
  idx,       \* the pattern's next request
  count,     \* its request_count, which starts at 1 in every loop
  applied,   \* write_info and loop_cnt as verify_apply_result leaves them
  log        \* history: the requests read so far, and the later steps' answers

vars == <<e, c, pc, idx, count, applied, log>>

Places == {"pattern", "ended", "zone", "extra", "judged"}

NotApplied == [lsn |-> 0, loop |-> 0]

Observations == [io : BOOLEAN, pages : PageSeqs, hit : BOOLEAN]

\* verify_normal_status looks at the pages, verify_unconfirmed_status for a
\* hit, and neither looks at a request it could not read.
NothingRead == CHOOSE pages \in PageSeqs : ~AllExpected(pages)

Relevant(o) ==
  /\ o.io \/ e.verify # "normal" => o.pages = NothingRead
  /\ o.io \/ e.verify = "normal" => ~o.hit

\* Nothing was written in the last loop or behind it, so no request there reads as expected.
Possible(o) == e.loop >= MaxLoop => ~AllExpected(o.pages)

NoRequests == [requests |-> <<>>, zone |-> "ok", extra |-> "ok"]

Init ==
  /\ c \in Configs
  /\ \E loop \in 1 .. MaxLoop : e = verify_reset(loop, 1)
  /\ idx \in 1 .. Len(Pattern)
  /\ pc      = "pattern"
  /\ count   = 1
  /\ applied = NotApplied
  /\ log     = NoRequests

Request ==
  /\ pc = "pattern"
  /\ idx <= Len(Pattern)
  /\ \E o \in Observations :
       LET r == do_verify(e, c, Pattern[idx], count, o)
       IN  /\ Possible(o) /\ Relevant(o)
           /\ e' = r.eng
           /\ IF r.ret = 0
              THEN idx' = idx + 1 /\ count' = count + 1 /\ pc' = pc
              ELSE UNCHANGED <<idx, count>> /\ pc' = "ended"
           /\ log' = IF r.ret = VERI_STATUS_FINISH THEN log
                     ELSE [log EXCEPT !.requests =
                             Append(@, [lsn |-> Pattern[idx], loop |-> e.loop, o |-> o])]
  /\ UNCHANGED <<c, applied>>

\* Mutant: the verification is begun again instead of told the next loop.
NextLoop_Again ==
  /\ pc = "pattern"
  /\ idx > Len(Pattern)
  /\ e' = verify_reset(e.loop, e.boot)
  /\ idx' = 1
  /\ count' = 1
  /\ log' = NoRequests
  /\ UNCHANGED <<c, pc, applied>>

\* The pattern function returned 0: the loop is verified, go on with the next.
NextLoop ==
  /\ pc = "pattern"
  /\ idx > Len(Pattern)
  /\ e' = verify_set_loop_count(e, e.loop + 1)
  /\ idx' = 1
  /\ count' = 1
  /\ UNCHANGED <<c, pc, applied, log>>

\* A device error ends the verification; otherwise the next write resumes
\* at the first unexpected request, and the next step begins.
EndPattern ==
  /\ pc = "ended"
  /\ IF verify_get_error_num(e) # 0
     THEN pc' = "judged" /\ UNCHANGED <<e, applied>>
     ELSE /\ applied' = [lsn |-> e.info.lsn, loop |-> e.info.loop]
          /\ e' = verify_set_current_step(e, "LSN_CRC")
          /\ pc' = "zone"
  /\ UNCHANGED <<c, idx, count, log>>

CheckRandomZone ==
  /\ pc = "zone"
  /\ \E zone \in Answers :
       LET checked == verify_check_random_zone(e, zone)
       IN  /\ log' = [log EXCEPT !.zone = zone]
           /\ IF zone = "io"
              THEN pc' = "judged" /\ e' = checked
              ELSE pc' = "extra"  /\ e' = verify_set_current_step(checked, "EXTRA")
  /\ UNCHANGED <<c, idx, count, applied>>

\* The test case's own check sets a result and nothing else.
ExtraVerification ==
  /\ pc = "extra"
  /\ \E extra \in Answers :
       /\ log' = [log EXCEPT !.extra = extra]
       /\ e' = CASE extra = "ok"  -> e
                 [] extra = "bad" -> verify_set_result(e, VERI_EREQUEST)
                 [] extra = "io"  -> verify_set_result(e, VERI_EIO)
  /\ pc' = "judged"
  /\ UNCHANGED <<c, idx, count, applied>>

\* plr_main repeats only after a verification that found nothing; the write in
\* between may leave any request of any loop as the start of the next one.
VerifyAgain ==
  /\ pc = "judged"
  /\ verify_get_result(e) = 0
  /\ c' \in Configs
  /\ \E loop \in 1 .. MaxLoop : e' = verify_reset(loop, 1)
  /\ idx' \in 1 .. Len(Pattern)
  /\ pc'      = "pattern"
  /\ count'   = 1
  /\ applied' = NotApplied
  /\ log'     = NoRequests

Stopped == pc = "judged" /\ verify_get_result(e) # 0 /\ UNCHANGED vars

Next == \/ Request \/ NextLoop \/ EndPattern
        \/ CheckRandomZone \/ ExtraVerification
        \/ VerifyAgain \/ Stopped

\* verify_pattern is one thread's loop: it never waits for anybody.
Spec == Init /\ [][Next]_vars
             /\ WF_vars(Request) /\ WF_vars(NextLoop) /\ WF_vars(EndPattern)
             /\ WF_vars(CheckRandomZone) /\ WF_vars(ExtraVerification)

-------------------------------------------------------------------------------
RequestRecord == [lsn : Nat, loop : Nat, o : Observations]

(* Every variable keeps its type, and no more than RequestWindow requests  *)
(* are ever counted after a suspicion.                                     *)
TypeOK ==
  /\ e \in Engine
  /\ c \in Configs
  /\ pc \in Places
  /\ idx \in 1 .. Len(Pattern) + 1
  /\ count \in Nat \ {0}
  /\ applied \in [lsn : Nat, loop : Nat]
  /\ log \in [requests : Seq(RequestRecord), zone : Answers, extra : Answers]

(***************************************************************************)
(* What a verification should conclude, from the history alone.            *)
(***************************************************************************)
Reqs == log.requests

Unexpected(i) == ~Reqs[i].o.io /\ ~AllExpected(Reqs[i].o.pages)

\* The position of the first request that does not read as expected.
IsFirst(i) == i \in DOMAIN Reqs /\ Unexpected(i) /\ \A j \in 1 .. i - 1 : ~Unexpected(j)

\* Torn: partly new, partly old, more than this test tolerates.
Torn(i) == ~c.cache /\ check_partial_writing(Reqs[i].o.pages, c.minor) = VERI_EPARTIAL

\* The requests read since the power was last cut in the one at hand.
SincePowerOff(i) == {j \in 1 .. i : Reqs[j].lsn = c.poffPos}

TooFar(i) ==
  /\ c.internal /\ ~c.cache /\ ~c.erase /\ c.poffPos # 0
  /\ \A j \in SincePowerOff(i) : i > j + 1

PatternCrash ==
  \E i \in DOMAIN Reqs :
    /\ IsFirst(i)
    /\ \/ Torn(i) \/ TooFar(i)
       \/ \E j \in i + 1 .. Len(Reqs) : ~Reqs[j].o.io /\ Reqs[j].o.hit

DeviceError ==
  \/ \E i \in DOMAIN Reqs : Reqs[i].o.io
  \/ log.zone = "io" \/ log.extra = "io"

CrashFound == PatternCrash \/ log.zone = "bad" \/ log.extra = "bad"

(* verify_pattern returns 0 exactly when the requests read hold no evidence *)
(* of a crash: the first unexpected one is whole enough and is where the    *)
(* power was cut or right after it, and none of the requests of the window  *)
(* behind it was written.  A later read error hides a crash found before.   *)
VerdictIsRight ==
  pc = "judged" =>
    verify_get_result(e) = IF DeviceError THEN PLR_EIO
                           ELSE IF CrashFound THEN PLR_ECRASH ELSE 0

(* When nothing is reported, the next write phase resumes at the very first *)
(* request that did not read as expected, in that request's loop: no loop   *)
(* is skipped and no request is left unwritten.                             *)
ResumeAtFirstUnexpected ==
  pc = "judged" /\ verify_get_result(e) = 0 =>
    \E i \in DOMAIN Reqs : IsFirst(i) /\ applied = [lsn |-> Reqs[i].lsn, loop |-> Reqs[i].loop]

(* The crash report prints the default step, the zone check and the extra   *)
(* check separately; a verdict of crash names at least the step that found  *)
(* it, and no step is named that found nothing.                             *)
CrashedStepsAreRight ==
  pc = "judged" /\ ~DeviceError =>
    /\ "DEFAULT" \in e.crashed <=> PatternCrash
    /\ "LSN_CRC" \in e.crashed <=> log.zone = "bad"
    /\ "EXTRA"   \in e.crashed <=> log.extra = "bad"

(* Once a request is suspected, the requests behind it are all read before  *)
(* the pattern stops: the whole window, unless the device fails.            *)
WindowIsRead ==
  pc \in {"zone", "extra", "judged"} /\ (\A i \in DOMAIN Reqs : ~Reqs[i].o.io) =>
    \E i \in DOMAIN Reqs : IsFirst(i) /\ Len(Reqs) = i + RequestWindow

(* Every verification ends.                                                 *)
EventuallyJudged == pc = "pattern" ~> pc = "judged"

(* Once a verification has called something a crash it never takes that     *)
(* back, unless a later read fails.                                         *)
CrashIsSticky ==
  [][verify_get_crash_num(e) # 0 /\ ~DeviceError' => verify_get_crash_num(e') # 0]_vars
===============================================================================
