------------------------------- MODULE VerifyLog -------------------------------
(***************************************************************************)
(* The verification log of plr_verify_log.c: the requests of a             *)
(* verification, of which those around a crash are kept, how they are laid *)
(* out in sectors of the SD card, and how the tr command reads them back.  *)
(*                                                                         *)
(* A log l is a record of the file's static variables: for each step the   *)
(* lists of requests, the step of the current list, which is the last one  *)
(* of its step, and two counters.  A request is a record: its number, its  *)
(* step, whether its status is a crash, and whether it has the array that  *)
(* says which of its pages are broken.                                     *)
(***************************************************************************)
EXTENDS Integers, Sequences, SequencesExt

CONSTANTS
  MAX_NORMAL_REQUEST, \* requests kept on either side of a crash, 20 in the code
  SectorUnits         \* units that fit in a sector: a unit is a saved request, or
                      \* the pages of one

ASSUME LogAssumption ==
  MAX_NORMAL_REQUEST \in Nat \ {0} /\ SectorUnits \in Nat \ {0}

LogSteps == <<"DEFAULT", "LSN_CRC", "EXTRA">>

StepSet == {LogSteps[i] : i \in DOMAIN LogSteps}

EmptyList == [requests |-> <<>>, crashes |-> 0]

\* Before the first verify_init_log.
NoLog == [lists |-> [s \in StepSet |-> <<>>], step |-> "none", before |-> 0, after |-> 0]

\* realloc_request_list and insert_manager_list: a new list in the manager of a step.
NewList(l, step) ==
  [l EXCEPT !.lists[step] = Append(@, EmptyList),
            !.step = step, !.before = 0, !.after = 0]

verify_init_log == NewList(NoLog, "DEFAULT")

\* The current list with what f makes of it.
Current(l) == l.lists[l.step][Len(l.lists[l.step])]

Replace(l, list) == [l EXCEPT !.lists[l.step][Len(l.lists[l.step])] = list]

\* Of a list without a crash only the last requests are kept, r among them.
BeforeFirstCrash(l, r) ==
  LET all == Append(Current(l).requests, r)
  IN  IF l.before + 1 > MAX_NORMAL_REQUEST + 1
      THEN Replace(l, [requests |-> Tail(all), crashes |-> 0])
      ELSE Replace([l EXCEPT !.before = @ + 1], [requests |-> all, crashes |-> 0])

AfterCrash(l, r) ==
  Replace([l EXCEPT !.after = @ + 1],
          [Current(l) EXCEPT !.requests = Append(@, r)])

CountCrash(l) ==
  Replace([l EXCEPT !.after = 0], [Current(l) EXCEPT !.crashes = @ + 1])

\* insert_request_list.  Without a list the request is not kept at all.
insert_request_list(l, r) ==
  IF l.step = "none" THEN l
  ELSE LET here  == IF l.step # r.step THEN NewList(l, r.step) ELSE l
           added == IF Current(here).crashes = 0 THEN BeforeFirstCrash(here, r)
                                                 ELSE AfterCrash(here, r)
       IN  CASE r.crash -> CountCrash(added)
             [] ~r.crash /\ Current(here).crashes > 0
                         /\ added.after >= MAX_NORMAL_REQUEST -> NewList(added, r.step)
             [] OTHER -> added

\* What print_manager_list prints of a step: the lists with a crash.
Printed(l, step) ==
  LET crashed == SelectSeq(l.lists[step], LAMBDA list : list.crashes > 0)
  IN  FlattenSeq([i \in DOMAIN crashed |-> crashed[i].requests])

-------------------------------------------------------------------------------
\* What stands in a unit that is no request: zeros, or the pages of the one before.
Zero  == [n |-> 0, step |-> "none", crash |-> FALSE, pages |-> FALSE]
Pages == [Zero EXCEPT !.n = -1]

IsRequest(unit) == unit.n > 0

\* save_request_list: a request, and its pages if it has any.
Units(r) == IF r.crash /\ r.pages THEN <<r, Pages>> ELSE <<r>>

\* What save_manager_list writes of a step.
Text(l, step) ==
  LET printed == Printed(l, step)
  IN  FlattenSeq([i \in DOMAIN printed |-> Units(printed[i])])

Sectors(n) == (n + SectorUnits - 1) \div SectorUnits

\* The i-th sector of a text, filled up with zeros.
SectorOf(text, i) ==
  [u \in 1 .. SectorUnits |->
     LET at == (i - 1) * SectorUnits + u IN IF at <= Len(text) THEN text[at] ELSE Zero]

-------------------------------------------------------------------------------
\* The buffer of load_request_list once sectors are read into it.  What the step
\* before left behind the last of them is still there.
ReadInto(buffer, sectors) ==
  [at \in DOMAIN buffer |->
     LET s == (at - 1) \div SectorUnits + 1
     IN  IF s \in DOMAIN sectors THEN sectors[s][((at - 1) % SectorUnits) + 1]
                                 ELSE buffer[at]]

\* load_request_list: it takes requests as long as there are some, however long the
\* text was, and after a crash whatever is no request for its pages.
Parsed(buffer, step) ==
  LET from[at \in Nat] ==
        IF at \notin DOMAIN buffer THEN <<>>
        ELSE IF ~IsRequest(buffer[at]) THEN <<>>
        ELSE LET r    == [buffer[at] EXCEPT !.step = step]
                 next == at + 1
                 skip == /\ r.crash /\ step = "DEFAULT"
                         /\ next \in DOMAIN buffer /\ ~IsRequest(buffer[next])
             IN  <<r>> \o from[IF skip THEN next + 1 ELSE next]
  IN  from[1]

InsertAll(l, requests) ==
  FoldLeft(LAMBDA log, r : insert_request_list(log, r), l, requests)
===============================================================================
