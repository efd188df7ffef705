---------------------------- MODULE PartialWriting ----------------------------
(***************************************************************************)
(* check_partial_writing and classify_partial_type of plr_verify.c, step   *)
(* by step: one pass over the pages of a request, each marked EXPECTED (1) *)
(* or UNEXPECTED (0) by verify_normal_status.  VerifyCore states the class *)
(* in one formula; this module is the loop that computes it.               *)
(***************************************************************************)
EXTENDS VerifyCore, FiniteSets

CONSTANTS
  MaxPages,  \* bound: the longest request
  MaxMinor   \* bound: the largest minor number of a test

ASSUME MaxPagesAssumption == MaxPages \in Nat \ {0} /\ MaxMinor \in Nat

VARIABLES
  buf,           \* the pages, TRUE where EXPECTED
  minor,         \* test_minor
  page_index,
  looking_for,   \* changed_boot_cnt: what the scan has seen last, negated
  partial_type,
  events,        \* event1_cnt and event2_cnt
  partial_error,
  place

scan_vars == <<buf, minor, page_index, looking_for, partial_type, events, partial_error, place>>

EXPECTED   == 1
UNEXPECTED == 0

\* changed_boot_cnt is EXPECTED while pages are UNEXPECTED, and the reverse.
ScanInit ==
  /\ buf \in UNION {[1 .. n -> BOOLEAN] : n \in 1 .. MaxPages}
  /\ minor \in 0 .. MaxMinor
  /\ page_index = 1
  /\ looking_for = IF ~buf[1] THEN EXPECTED ELSE UNEXPECTED
  /\ partial_type = 0
  /\ events = [event1 |-> 0, event2 |-> 0]
  /\ partial_error = VERI_NOERR
  /\ place = "scan"

\* Mutant: a change to pages as expected is not counted.
ScanPage_OneWay ==
  /\ place = "scan"
  /\ page_index <= Len(buf)
  /\ page_index' = page_index + 1
  /\ IF buf[page_index] = (looking_for = EXPECTED)
     THEN /\ looking_for' = EXPECTED + UNEXPECTED - looking_for
          /\ partial_type' = IF buf[page_index] THEN partial_type ELSE partial_type + 1
     ELSE UNCHANGED <<looking_for, partial_type>>
  /\ UNCHANGED <<buf, minor, events, partial_error, place>>

ScanPage ==
  /\ place = "scan"
  /\ page_index <= Len(buf)
  /\ page_index' = page_index + 1
  /\ IF buf[page_index] = (looking_for = EXPECTED)
     THEN /\ looking_for' = EXPECTED + UNEXPECTED - looking_for
          /\ partial_type' = partial_type + 1
     ELSE UNCHANGED <<looking_for, partial_type>>
  /\ UNCHANGED <<buf, minor, events, partial_error, place>>

Classify ==
  /\ place = "scan"
  /\ page_index > Len(buf)
  /\ partial_type' = CASE partial_type = 0 /\ looking_for = EXPECTED   -> 0
                       [] partial_type = 1 /\ looking_for = UNEXPECTED -> 1
                       [] partial_type = 0 /\ looking_for = UNEXPECTED -> 3
                       [] OTHER                                        -> 2
  /\ place' = "classified"
  /\ UNCHANGED <<buf, minor, page_index, looking_for, events, partial_error>>

Judge ==
  /\ place = "classified"
  /\ events' = [event1 |-> events.event1 + (IF partial_type = 1 THEN 1 ELSE 0),
                event2 |-> events.event2 + (IF partial_type = 2 THEN 1 ELSE 0)]
  /\ partial_error' = IF \/ partial_type = 1 /\ minor <= 0
                         \/ partial_type = 2 /\ minor <= 1
                      THEN VERI_EPARTIAL ELSE VERI_NOERR
  /\ place' = "judged"
  /\ UNCHANGED <<buf, minor, page_index, looking_for, partial_type>>

ScanStays == place = "judged" /\ UNCHANGED scan_vars

ScanNext == ScanPage \/ Classify \/ Judge \/ ScanStays

ScanSpec == ScanInit /\ [][ScanNext]_scan_vars

-------------------------------------------------------------------------------
(* The class, and the error and the counter that follow from it, are those  *)
(* of the one-line definition the verification engine is modelled with.     *)
LoopComputesTheClass ==
  place = "judged" =>
    /\ partial_type = classify_partial_type(buf)
    /\ partial_error = check_partial_writing(buf, minor)
    /\ events.event1 + events.event2 = IF Changes(buf) = {} THEN 0 ELSE 1
===============================================================================
