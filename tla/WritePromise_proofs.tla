-------------------------- MODULE WritePromise_proofs --------------------------
(***************************************************************************)
(* That a commit on the medium proves what was requested before it, for    *)
(* every plan and every device.  The argument: of a page the cache never   *)
(* holds an older request than the medium (Newest), so that the medium     *)
(* only goes up; as long as the cache is not forgotten an accepted request *)
(* is in one of them (Kept); and when the first page of a commit arrives   *)
(* the cache is empty, so that the medium has it all (CachedCommit).       *)
(***************************************************************************)
EXTENDS WritePromise, TLAPS

Numbers == [Device -> Nat]

TypeInv ==
  /\ plan \in Seq([commit : BOOLEAN, pages : SUBSET Device])
  /\ answers \in Seq(Answers) /\ Len(answers) <= Len(plan)
  /\ cache \in Numbers /\ medium \in Numbers
  /\ forgot \in BOOLEAN

\* Nothing is of a request that was not yet made.
Made ==
  \A lsn \in Device :
    /\ cache[lsn] <= Current /\ medium[lsn] <= Current
    /\ cache[lsn] <= Len(plan) /\ medium[lsn] <= Len(plan)

Newest == \A lsn \in Device : cache[lsn] # 0 => cache[lsn] >= medium[lsn]

\* Request i is in the cache or on the medium, or what was written over it.
Kept ==
  ~forgot => \A i \in 1 .. Len(answers) :
    answers[i] = "ok" => \A lsn \in plan[i].pages : cache[lsn] >= i \/ medium[lsn] >= i

CachedCommit ==
  \A lsn \in Device :
    cache[lsn] > 0 /\ plan[cache[lsn]].commit => Preceded(cache[lsn])

PromiseInv == TypeInv /\ Made /\ Newest /\ Kept /\ CachedCommit /\ CommitIsProof

-------------------------------------------------------------------------------
LEMMA InitPromise == Init => PromiseInv
<1>1. SUFFICES ASSUME Init PROVE PromiseInv
  OBVIOUS
<1>2. Len(plan) \in Nat /\ answers = <<>> /\ Len(answers) = 0
  BY <1>1 DEF Init
<1>3. \A lsn \in Device : cache[lsn] = 0 /\ medium[lsn] = 0
  BY <1>1 DEF Init
<1>4. TypeInv
  <2>1. plan \in Seq([commit : BOOLEAN, pages : SUBSET Device]) /\ forgot \in BOOLEAN
    BY <1>1 DEF Init
  <2>2. answers \in Seq(Answers) /\ Len(answers) <= Len(plan)
    BY <1>2
  <2>3. cache \in Numbers /\ medium \in Numbers
    BY <1>1 DEF Init, Numbers
  <2> QED BY <2>1, <2>2, <2>3 DEF TypeInv
<1>5. Made /\ Newest /\ Kept
  BY <1>2, <1>3 DEF Made, Newest, Kept, Current
<1>6. CachedCommit /\ CommitIsProof
  BY <1>3 DEF CachedCommit, CommitIsProof
<1> QED BY <1>4, <1>5, <1>6 DEF PromiseInv

\* What the storage does, before the request is answered.
KeptSoFar ==
  ~forgot' => \A i \in 1 .. Len(answers) :
    answers[i] = "ok" => \A lsn \in plan[i].pages : cache'[lsn] >= i \/ medium'[lsn] >= i

MadeSoFar ==
  \A lsn \in Device :
    /\ cache'[lsn] <= Current /\ medium'[lsn] <= Current
    /\ cache'[lsn] <= Len(plan) /\ medium'[lsn] <= Len(plan)

Stored ==
  /\ cache' \in Numbers /\ medium' \in Numbers /\ forgot' \in BOOLEAN
  /\ \A lsn \in Device : medium'[lsn] >= medium[lsn]
  /\ MadeSoFar /\ Newest' /\ KeptSoFar /\ CachedCommit' /\ CommitIsProof'

-------------------------------------------------------------------------------
(* The plan is over the pages of the device.                                *)
LEMMA PlanPages ==
  ASSUME TypeInv
  PROVE  \A i \in DOMAIN plan : plan[i].pages \subseteq Device
<1>1. ASSUME NEW T, NEW s \in Seq(T), NEW i \in DOMAIN s
      PROVE  s[i] \in T
  OBVIOUS
<1>2. plan \in Seq([commit : BOOLEAN, pages : SUBSET Device])
  BY DEF TypeInv
<1>3. ASSUME NEW i \in DOMAIN plan
      PROVE  plan[i].pages \subseteq Device
  <2>1. plan[i] \in [commit : BOOLEAN, pages : SUBSET Device]
    BY <1>1, <1>2
  <2> QED BY <2>1
<1> QED BY <1>3

(* What preceded a request on a medium that only goes up preceded it still. *)
LEMMA PrecededUp ==
  ASSUME TypeInv, plan' = plan, medium' \in Numbers,
         \A lsn \in Device : medium'[lsn] >= medium[lsn],
         NEW n \in 0 .. Len(plan), Preceded(n)
  PROVE  Preceded(n)'
<1>1. ASSUME NEW i \in 1 .. n - 1, NEW lsn \in plan[i].pages
      PROVE  medium'[lsn] >= i
  <2>1. i \in DOMAIN plan
    BY DEF TypeInv
  <2>2. lsn \in Device
    BY <2>1, PlanPages
  <2>3. medium[lsn] >= i
    BY DEF Preceded
  <2> QED BY <2>2, <2>3 DEF TypeInv, Numbers
<1> QED BY <1>1 DEF Preceded

(* A commit is offered to an empty cache only, so that what was accepted    *)
(* before it is on the medium.                                              *)
LEMMA CommitArrives ==
  ASSUME PromiseInv, InProgress, ~forgot, Request.commit, Uncommitted = {}
  PROVE  Preceded(Current)
<1>1. Current \in Nat \ {0} /\ Current - 1 = Len(answers) /\ Len(plan) \in Nat
  BY DEF PromiseInv, TypeInv, Current
<1>2. ASSUME NEW i \in 1 .. Current - 1, NEW lsn \in plan[i].pages
      PROVE  medium[lsn] >= i
  <2>1. i \in DOMAIN plan /\ i \in DOMAIN answers
    BY <1>1 DEF InProgress, PromiseInv, TypeInv
  <2>2. lsn \in Device
    BY <2>1, PlanPages DEF PromiseInv
  <2>3. cache[lsn] \in Nat /\ medium[lsn] \in Nat
    BY <2>2 DEF PromiseInv, TypeInv, Numbers
  <2>4. cache[lsn] >= i \/ medium[lsn] >= i
    BY <1>1, <2>1 DEF PromiseInv, Kept, InProgress
  <2>5. cache[lsn] \in {0, Current}
    BY <2>2 DEF Uncommitted
  <2>6. CASE cache[lsn] = 0
    BY <2>3, <2>4, <2>6
  <2>7. CASE cache[lsn] = Current
    <3>1. Preceded(Current)
      BY <1>1, <2>2, <2>7 DEF PromiseInv, CachedCommit, Request
    <3> QED BY <3>1 DEF Preceded
  <2> QED BY <2>5, <2>6, <2>7
<1> QED BY <1>2 DEF Preceded

-------------------------------------------------------------------------------
\* The number n has been on the page or in its cache, or arrives now in its turn.
Legal(lsn, n) ==
  \/ n \in {0, cache[lsn], medium[lsn]}
  \/ n = Current /\ InProgress /\ (Request.commit => Preceded(Current))

\* What a step does when it moves legal numbers only, and the medium only up.
Moved ==
  /\ cache' \in Numbers /\ medium' \in Numbers
  /\ \A lsn \in Device :
       medium'[lsn] >= medium[lsn] /\ Legal(lsn, cache'[lsn]) /\ Legal(lsn, medium'[lsn])

(* Moving pages makes no number of a request to come, and keeps what the    *)
(* numbers of commits prove.                                                *)
LEMMA MovedCommits ==
  ASSUME PromiseInv, Moved, plan' = plan
  PROVE  MadeSoFar /\ CachedCommit' /\ CommitIsProof'
<1>1. /\ TypeInv /\ cache \in Numbers /\ medium \in Numbers
      /\ Made /\ CachedCommit /\ CommitIsProof
      /\ Len(plan) \in Nat /\ Current \in Nat \ {0}
      /\ cache' \in Numbers /\ medium' \in Numbers
      /\ \A lsn \in Device : medium'[lsn] >= medium[lsn]
  BY DEF PromiseInv, TypeInv, Current, Moved
<1>2. ASSUME NEW lsn \in Device, NEW n \in Nat, Legal(lsn, n)
      PROVE  /\ n <= Current /\ n <= Len(plan)
             /\ n > 0 /\ plan[n].commit => Preceded(n)'
  <2>1. n <= Current /\ n <= Len(plan)
    BY <1>1, <1>2 DEF Legal, Made, InProgress, Numbers
  <2>2. n > 0 /\ plan[n].commit => Preceded(n)
    BY <1>1, <1>2 DEF Legal, CachedCommit, CommitIsProof, Request
  <2>3. Preceded(n) => Preceded(n)'
    BY <1>1, <2>1, PrecededUp
  <2> QED BY <2>1, <2>2, <2>3
<1>3. \A lsn \in Device :
        /\ Legal(lsn, cache'[lsn]) /\ Legal(lsn, medium'[lsn])
        /\ cache'[lsn] \in Nat /\ medium'[lsn] \in Nat
  BY <1>1 DEF Moved, Numbers
<1>4. MadeSoFar
  BY <1>2, <1>3 DEF MadeSoFar
<1>5. CachedCommit'
  BY <1>2, <1>3 DEF CachedCommit
<1>6. CommitIsProof'
  BY <1>2, <1>3 DEF CommitIsProof
<1> QED BY <1>4, <1>5, <1>6

(* The storage loses nothing that was accepted, but by forgetting its       *)
(* cache, and puts a commit nowhere before what preceded it.                *)
LEMMA StorageStep ==
  ASSUME PromiseInv, Storage, plan' = plan
  PROVE  Stored
<1>1. /\ Current \in Nat \ {0} /\ Len(answers) \in Nat /\ Len(plan) \in Nat
      /\ Current = Len(answers) + 1
      /\ cache \in Numbers /\ medium \in Numbers /\ forgot \in BOOLEAN
      /\ Newest /\ Kept /\ Made /\ Len(answers) <= Len(plan)
  BY DEF PromiseInv, TypeInv, Current
<1>2. \A i \in 1 .. Len(answers) :
        answers[i] = "ok" /\ ~forgot =>
          \A lsn \in plan[i].pages : cache[lsn] >= i \/ medium[lsn] >= i
  BY <1>1 DEF Kept
<1>3. \A i \in 1 .. Len(plan) : plan[i].pages \subseteq Device
  BY PlanPages DEF PromiseInv, TypeInv
<1>4. SUFFICES forgot' \in BOOLEAN /\ Moved /\ Newest' /\ KeptSoFar
  BY MovedCommits DEF Moved, Stored
<1>5. CASE Arrive
  <2>1. PICK pages \in SUBSET Request.pages :
          \/ cache' = Put(Current, pages, cache) /\ UNCHANGED medium
          \/ medium' = Put(Current, pages, medium) /\ cache' = Put(0, pages, cache)
    BY <1>5 DEF Arrive
  <2>2. InProgress /\ ~forgot /\ forgot' = forgot
    BY <1>5 DEF Arrive
  <2>3. Request.commit => Preceded(Current)
    BY <1>5, <2>2, CommitArrives DEF Arrive
  <2>4. CASE cache' = Put(Current, pages, cache) /\ UNCHANGED medium
    <3>1. Moved
      BY <1>1, <2>2, <2>3, <2>4 DEF Moved, Legal, Put, Numbers
    <3>2. Newest'
      BY <1>1, <2>4 DEF Newest, Put, Numbers, Made
    <3>3. \A lsn \in Device : cache'[lsn] >= cache[lsn] /\ medium'[lsn] = medium[lsn]
      BY <1>1, <2>4 DEF Put, Numbers, Made
    <3>4. KeptSoFar
      <4>1. ASSUME NEW i \in 1 .. Len(answers), answers[i] = "ok", NEW lsn \in plan[i].pages
            PROVE  cache'[lsn] >= i \/ medium'[lsn] >= i
        <5>1. lsn \in Device
          BY <1>1, <1>3, <2>2 DEF InProgress
        <5> QED BY <1>1, <1>2, <2>2, <3>1, <3>3, <4>1, <5>1 DEF Numbers, Moved
      <4> QED BY <4>1 DEF KeptSoFar
    <3> QED BY <1>1, <2>2, <3>1, <3>2, <3>4
  <2>5. CASE medium' = Put(Current, pages, medium) /\ cache' = Put(0, pages, cache)
    <3>1. Moved
      BY <1>1, <2>2, <2>3, <2>5 DEF Moved, Legal, Put, Numbers, Made
    <3>2. Newest'
      BY <1>1, <2>5 DEF Newest, Put, Numbers
    <3>3. \A lsn \in Device :
            \/ cache'[lsn] = cache[lsn] /\ medium'[lsn] = medium[lsn]
            \/ medium'[lsn] = Current
      BY <1>1, <2>5 DEF Put, Numbers
    <3>4. KeptSoFar
      <4>1. ASSUME NEW i \in 1 .. Len(answers), answers[i] = "ok", NEW lsn \in plan[i].pages
            PROVE  cache'[lsn] >= i \/ medium'[lsn] >= i
        <5>1. lsn \in Device
          BY <1>1, <1>3, <2>2 DEF InProgress
        <5> QED BY <1>1, <1>2, <2>2, <3>3, <4>1, <5>1
      <4> QED BY <4>1 DEF KeptSoFar
    <3> QED BY <1>1, <2>2, <3>1, <3>2, <3>4
  <2> QED BY <2>1, <2>4, <2>5
<1>6. CASE WriteBack
  <2>1. PICK pages \in SUBSET Held : medium' = Back(pages) /\ cache' = Put(0, pages, cache)
    BY <1>6 DEF WriteBack
  <2>2. forgot' = forgot
    BY <1>6 DEF WriteBack
  <2>3. Moved
    BY <1>1, <2>1 DEF Moved, Legal, Put, Back, Held, Newest, Numbers
  <2>4. Newest'
    BY <1>1, <2>1 DEF Newest, Put, Back, Numbers
  <2>5. \A lsn \in Device :
          \/ cache'[lsn] = cache[lsn] /\ medium'[lsn] = medium[lsn]
          \/ medium'[lsn] = cache[lsn] /\ medium'[lsn] >= medium[lsn]
    BY <1>1, <2>1 DEF Put, Back, Held, Newest, Numbers
  <2>6. KeptSoFar
    <3>1. ASSUME ~forgot', NEW i \in 1 .. Len(answers), answers[i] = "ok",
                 NEW lsn \in plan[i].pages
          PROVE  cache'[lsn] >= i \/ medium'[lsn] >= i
      <4>1. lsn \in Device
        BY <1>1, <1>3
      <4>2. cache[lsn] >= i \/ medium[lsn] >= i
        BY <1>2, <2>2, <3>1
      <4>3. cache[lsn] \in Nat /\ medium[lsn] \in Nat
        BY <1>1, <4>1 DEF Numbers
      <4> QED BY <2>5, <4>1, <4>2, <4>3
    <3> QED BY <3>1 DEF KeptSoFar
  <2> QED BY <1>1, <2>2, <2>3, <2>4, <2>6
<1>7. CASE Forget
  <2>1. PICK pages \in SUBSET Held : medium' = Back(pages)
    BY <1>7 DEF Forget
  <2>2. cache' = [lsn \in Device |-> 0] /\ forgot' = TRUE
    BY <1>7 DEF Forget
  <2>3. Moved
    BY <1>1, <2>1, <2>2 DEF Moved, Legal, Back, Held, Newest, Numbers
  <2>4. Newest' /\ KeptSoFar
    BY <2>2 DEF Newest, KeptSoFar
  <2> QED BY <2>2, <2>3, <2>4
<1>8. CASE UNCHANGED <<cache, medium, forgot>>
  <2>1. Moved
    BY <1>1, <1>8 DEF Moved, Legal, Numbers
  <2>2. Newest' /\ KeptSoFar
    BY <1>1, <1>2, <1>8 DEF Newest, KeptSoFar
  <2> QED BY <1>1, <1>8, <2>1, <2>2
<1> QED BY <1>5, <1>6, <1>7, <1>8 DEF Storage

-------------------------------------------------------------------------------
(* An answer adds one to what must be kept, and it is given when that is    *)
(* there.                                                                   *)
LEMMA AnswerStep ==
  ASSUME PromiseInv, Stored, plan' = plan,
         UNCHANGED answers \/ \E answer \in Answers : Answer(answer)
  PROVE  PromiseInv'
<1>1. /\ Len(answers) \in Nat /\ Len(plan) \in Nat /\ Current = Len(answers) + 1
      /\ Len(answers) <= Len(plan) /\ answers \in Seq(Answers)
      /\ plan \in Seq([commit : BOOLEAN, pages : SUBSET Device])
  BY DEF PromiseInv, TypeInv, Current
<1>2. cache' \in Numbers /\ medium' \in Numbers /\ forgot' \in BOOLEAN
  BY DEF Stored
<1>3. MadeSoFar /\ KeptSoFar /\ Newest' /\ CachedCommit' /\ CommitIsProof'
  BY DEF Stored
<1>4. CASE UNCHANGED answers
  <2>1. TypeInv'
    BY <1>1, <1>2, <1>4 DEF TypeInv
  <2>2. Made'
    BY <1>3, <1>4 DEF MadeSoFar, Made, Current
  <2>3. Kept'
    BY <1>3, <1>4 DEF KeptSoFar, Kept
  <2> QED BY <1>3, <2>1, <2>2, <2>3 DEF PromiseInv
<1>5. ASSUME NEW answer \in Answers, Answer(answer)
      PROVE  PromiseInv'
  <2>1. answers' = Append(answers, answer) /\ InProgress
    BY <1>5 DEF Answer
  <2>2. answers' \in Seq(Answers) /\ Len(answers') = Len(answers) + 1
    BY <1>1, <2>1
  <2>3. TypeInv'
    BY <1>1, <1>2, <2>1, <2>2 DEF TypeInv, InProgress
  <2>4. Current' = Current + 1
    BY <1>1, <2>2 DEF Current
  <2>5. Made'
    BY <1>1, <1>2, <1>3, <2>4 DEF MadeSoFar, Made, Numbers
  <2>6. Kept'
    <3>1. ASSUME ~forgot', NEW i \in 1 .. Len(answers'), answers'[i] = "ok",
                 NEW lsn \in plan[i].pages
          PROVE  cache'[lsn] >= i \/ medium'[lsn] >= i
      <4>1. CASE i \in 1 .. Len(answers)
        <5>1. answers[i] = "ok"
          BY <1>1, <2>1, <3>1, <4>1
        <5> QED BY <1>3, <3>1, <4>1, <5>1 DEF KeptSoFar
      <4>2. CASE i = Current
        <5>1. answer = "ok"
          BY <1>1, <2>1, <3>1, <4>2
        <5>2. Current = medium'[lsn] \/ Current = cache'[lsn]
          BY <1>5, <3>1, <4>2, <5>1 DEF Answer, Request
        <5> QED BY <1>1, <4>2, <5>2
      <4> QED BY <1>1, <2>2, <4>1, <4>2
    <3> QED BY <3>1 DEF Kept
  <2> QED BY <1>3, <2>3, <2>5, <2>6 DEF PromiseInv
<1> QED BY <1>4, <1>5

(* A commit on the medium proves that every request before it is on the     *)
(* medium or was written over, whatever the device writes back, whenever it *)
(* does, and whatever the power does: the ground verify_unconfirmed_status  *)
(* calls a device broken on.                                                *)
THEOREM CommitProves == Spec => []CommitIsProof
<1>1. Init => PromiseInv
  BY InitPromise
<1>2. PromiseInv /\ [Next]_vars => PromiseInv'
  <2>1. SUFFICES ASSUME PromiseInv, [Next]_vars PROVE PromiseInv'
    OBVIOUS
  <2>2. plan' = plan /\ Storage /\ (UNCHANGED answers \/ \E answer \in Answers : Answer(answer))
    BY <2>1 DEF Next, vars, Storage
  <2> QED BY <2>1, <2>2, StorageStep, AnswerStep
<1>3. PromiseInv => CommitIsProof
  BY DEF PromiseInv
<1> QED BY <1>1, <1>2, <1>3, PTL DEF Spec
===============================================================================
