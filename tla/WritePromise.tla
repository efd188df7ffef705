----------------------------- MODULE WritePromise -----------------------------
(***************************************************************************)
(* What the requests of a test promise, whatever goes on below them: they  *)
(* are answered one by one; an accepted one is in the volatile cache or on *)
(* the medium; a device that has forgotten its cache is offered nothing    *)
(* more; and a commit is a barrier, for while the device holds something   *)
(* that is not on the medium it is not even offered a commit.              *)
(***************************************************************************)
EXTENDS Integers, Sequences

CONSTANT Device  \* the pages of the device

VARIABLES
  plan,     \* the requests: for each whether it commits, and the pages it is to write
  answers,  \* of the requests so far
  cache,    \* page -> number of the request whose page the cache holds, or 0
  medium,   \* page -> number of the request that wrote it last, or 0
  forgot    \* the power was cut: what the cache held may be gone

vars == <<plan, answers, cache, medium, forgot>>

Answers == {"ok", "cut", "error"}

\* The request the device is working at.
Current == Len(answers) + 1

InProgress == Current <= Len(plan) /\ \A i \in DOMAIN answers : answers[i] = "ok"

Request == plan[Current]

Init ==
  /\ plan \in Seq([commit : BOOLEAN, pages : SUBSET Device])
  /\ answers = <<>>
  /\ cache = [lsn \in Device |-> 0]
  /\ medium = [lsn \in Device |-> 0]
  /\ forgot = FALSE

Put(number, pages, where) == [lsn \in Device |-> IF lsn \in pages THEN number ELSE where[lsn]]

Uncommitted == {lsn \in Device : cache[lsn] \notin {0, Current}}

\* Some pages of the request arrive, in the cache or on the medium.
Arrive ==
  /\ InProgress /\ ~forgot
  /\ Request.commit => Uncommitted = {}
  /\ \E pages \in SUBSET Request.pages :
       \/ cache' = Put(Current, pages, cache) /\ UNCHANGED medium
       \/ medium' = Put(Current, pages, medium) /\ cache' = Put(0, pages, cache)
  /\ UNCHANGED forgot

Held == {lsn \in Device : cache[lsn] # 0}

Back(pages) == [lsn \in Device |-> IF lsn \in pages THEN cache[lsn] ELSE medium[lsn]]

\* The device writes back what it likes.
WriteBack ==
  /\ \E pages \in SUBSET Held :
       medium' = Back(pages) /\ cache' = Put(0, pages, cache)
  /\ UNCHANGED forgot

\* The power is cut, and of the cache only some pages were written back.
Forget ==
  /\ \E pages \in SUBSET Held : medium' = Back(pages)
  /\ cache' = [lsn \in Device |-> 0]
  /\ forgot' = TRUE

\* A request is well answered when all of it is there, a commit only on the medium.
Answer(answer) ==
  /\ InProgress
  /\ answer = "ok" =>
       \A lsn \in Request.pages :
         Current = medium'[lsn] \/ (~Request.commit /\ Current = cache'[lsn])
  /\ answers' = Append(answers, answer)

Storage == Arrive \/ WriteBack \/ Forget \/ UNCHANGED <<cache, medium, forgot>>

Next ==
  /\ Storage
  /\ UNCHANGED plan
  /\ UNCHANGED answers \/ \E answer \in Answers : Answer(answer)

Spec == Init /\ [][Next]_vars

-------------------------------------------------------------------------------
\* Everything requested before number n is on the medium, or what was written over it.
Preceded(n) == \A i \in 1 .. n - 1 : \A lsn \in plan[i].pages : medium[lsn] >= i

(* A page of a commit on the medium proves that everything requested before *)
(* it was written, whatever the power did: verify_unconfirmed_status calls  *)
(* a device broken for a commit behind a request that is not there, and a   *)
(* device that keeps its word never shows it one.                           *)
CommitIsProof ==
  \A lsn \in Device :
    medium[lsn] > 0 /\ plan[medium[lsn]].commit => Preceded(medium[lsn])
===============================================================================
