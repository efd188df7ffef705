--------------------------- MODULE SendToken_proofs ---------------------------
(***************************************************************************)
(* That send_token returns success only for a token the host has, and      *)
(* stores only the parameters of the host's answer to it, for any tokens   *)
(* and numbers of tries, as long as no answer takes longer than the board  *)
(* waits.  The argument: between two printings the line is empty but for   *)
(* tokens nobody answers, and while the board waits there is at most one   *)
(* line on its way, the token being sent or its answer (OneAnswer).        *)
(***************************************************************************)
EXTENDS SendToken, TLAPS

Places == {"start", "print", "await", "pause"}

Kinds == {"success", "fail", "noise", "damaged"}

LineType == [kind : Kinds, token : Tokens]

TypeInv ==
  /\ pc \in Places
  /\ cur \in Nat \ {0}
  /\ pc # "start" => cur \in Tokens
  /\ printed \in Seq(Tokens)
  /\ replies \in Seq(LineType) /\ console \in Seq(LineType)
  /\ recorded \subseteq Tokens
  /\ result \in [Tokens -> Int] /\ params \in [Tokens -> Nat]

\* An answer that the board may take for a success proves that the host has the token.
Proof(line) == line.token = cur /\ (line.kind \in {"success", "damaged"} => cur \in recorded)

OneAnswer ==
  /\ pc = "await" => cur \notin NoAck
  /\ pc # "await" => replies = <<>> /\ console = <<>>
  /\ \A i \in DOMAIN printed :
       \/ printed[i] \in NoAck
       \/ /\ pc = "await" /\ i = Len(printed) /\ printed[i] = cur
          /\ replies = <<>> /\ console = <<>>
  /\ Len(replies) + Len(console) <= 1
  /\ \A i \in DOMAIN replies : Proof(replies[i])
  /\ \A i \in DOMAIN console : Proof(console[i])

TokenInv == TypeInv /\ OneAnswer /\ SuccessIsRecorded /\ OwnParameters

-------------------------------------------------------------------------------
(* Nothing is on its way when the test begins.                              *)
LEMMA InitToken == Init => TokenInv
  BY ArityAssumption
     DEF Init, TokenInv, TypeInv, OneAnswer, SuccessIsRecorded, OwnParameters,
         Places, Pending, Nothing, Tokens

(* A new token begins with an empty console, and with an empty line.        *)
LEMMA StartToken == TokenInv /\ Start => TokenInv'
<1>1. SUFFICES ASSUME TokenInv, Start PROVE TokenInv'
  OBVIOUS
<1> USE <1>1 DEF TokenInv, Start, host
<1>2. TypeInv'
  BY DEF TypeInv, Places
<1>3. OneAnswer'
  BY DEF OneAnswer, Proof
<1>4. SuccessIsRecorded' /\ OwnParameters'
  BY DEF SuccessIsRecorded, OwnParameters
<1> QED BY <1>2, <1>3, <1>4

(* A token that waits for an answer becomes the only one that can get one.  *)
LEMMA PrintTokenToken == TokenInv /\ PrintToken => TokenInv'
<1>1. SUFFICES ASSUME TokenInv, PrintToken PROVE TokenInv'
  OBVIOUS
<1> USE <1>1 DEF TokenInv, PrintToken, Return
<1>2. TypeInv'
  BY DEF TypeInv, Places
<1>3. OneAnswer'
  <2>1. /\ printed \in Seq(Tokens) /\ cur \in Tokens
        /\ \A i \in DOMAIN printed : printed[i] \in NoAck
        /\ replies = <<>> /\ console = <<>>
    BY DEF OneAnswer, TypeInv
  <2>2. /\ Len(printed') = Len(printed) + 1 /\ DOMAIN printed' = 1 .. Len(printed')
        /\ \A i \in DOMAIN printed' :
             \/ i = Len(printed') /\ printed'[i] = cur
             \/ i \in DOMAIN printed /\ printed'[i] = printed[i]
    BY <2>1
  <2>3. CASE cur \in NoAck
    BY <2>1, <2>2, <2>3 DEF OneAnswer
  <2>4. CASE cur \notin NoAck
    BY <2>1, <2>2, <2>4 DEF OneAnswer
  <2> QED BY <2>3, <2>4
<1>4. SuccessIsRecorded'
  BY DEF SuccessIsRecorded, TypeInv
<1>5. OwnParameters'
  BY DEF OwnParameters
<1> QED BY <1>2, <1>3, <1>4, <1>5

(* Once a line has arrived nothing else is on its way but tokens nobody     *)
(* answers.                                                                 *)
LEMMA NothingBehind ==
  ASSUME TokenInv, console # <<>>
  PROVE  /\ pc = "await" /\ cur \in Tokens /\ cur \notin NoAck
         /\ Head(console) \in LineType /\ Proof(Head(console))
         /\ Tail(console) = <<>> /\ replies = <<>>
         /\ \A i \in DOMAIN printed : printed[i] \in NoAck
<1>1. console \in Seq(LineType) /\ replies \in Seq(LineType) /\ Len(replies) + Len(console) <= 1
  BY DEF TokenInv, TypeInv, OneAnswer
<1>2. Len(console) = 1 /\ replies = <<>> /\ console[1] = Head(console) /\ Tail(console) = <<>>
  BY <1>1
<1>3. pc = "await" /\ cur \in Tokens /\ cur \notin NoAck
  BY DEF TokenInv, TypeInv, OneAnswer
<1>4. \A i \in DOMAIN printed : printed[i] \in NoAck
  BY DEF TokenInv, OneAnswer
<1>5. Proof(Head(console))
  BY <1>1, <1>2 DEF TokenInv, OneAnswer
<1>6. Head(console) \in LineType
  BY <1>1
<1> QED BY <1>2, <1>3, <1>4, <1>5, <1>6

(* Whatever is read, the line is empty behind it; a success had the token.  *)
LEMMA ReadAckToken == TokenInv /\ ReadAck => TokenInv'
<1>1. SUFFICES ASSUME TokenInv, ReadAck PROVE TokenInv'
  OBVIOUS
<1> DEFINE line == Head(console)
<1>2. /\ pc = "await" /\ cur \in Tokens /\ cur \notin NoAck /\ cur \in Nat \ {0}
      /\ line \in LineType /\ Proof(line)
      /\ console' = <<>> /\ replies' = <<>> /\ replies = <<>>
      /\ \A i \in DOMAIN printed' : printed'[i] \in NoAck
      /\ UNCHANGED <<printed, recorded>>
  BY <1>1, NothingBehind DEF ReadAck, host, TokenInv, TypeInv
<1>3. /\ pc' \in Places /\ cur' \in {cur, cur + 1}
      /\ pc' # "start" => cur' = cur
      /\ result' \in {result, [result EXCEPT ![cur] = 0]}
      /\ params' \in {params, [params EXCEPT ![cur] = IF Arity[cur] > 0 THEN line.token ELSE @]}
      /\ result' = result \/ Acceptable(line)
  BY <1>1, <1>2 DEF ReadAck, Return, Places
<1>4. line.token = cur
  BY <1>2 DEF Proof
<1>5. TypeInv'
  <2>1. cur' \in Nat \ {0} /\ (pc' # "start" => cur' \in Tokens)
    BY <1>2, <1>3
  <2>2. result' \in [Tokens -> Int] /\ params' \in [Tokens -> Nat]
    BY <1>1, <1>2, <1>3, <1>4 DEF TokenInv, TypeInv
  <2> QED BY <1>1, <1>2, <1>3, <2>1, <2>2 DEF TokenInv, TypeInv
<1>6. OneAnswer'
  BY <1>2, <1>3 DEF OneAnswer
<1>7. SuccessIsRecorded'
  <2>1. Acceptable(line) => cur \in recorded
    BY <1>2 DEF Acceptable, Proof
  <2> QED BY <1>1, <1>2, <1>3, <2>1 DEF TokenInv, TypeInv, SuccessIsRecorded
<1>8. OwnParameters'
  BY <1>1, <1>3, <1>4 DEF TokenInv, TypeInv, OwnParameters
<1> QED BY <1>5, <1>6, <1>7, <1>8 DEF TokenInv

(* Giving up finds the line empty if the board outwaits every answer.       *)
LEMMA ReadNothingToken ==
  ASSUME ~MayBeLate, TokenInv, ReadNothing
  PROVE  TokenInv'
<1>1. Quiet /\ printed = <<>> /\ replies = <<>> /\ console = <<>>
  BY DEF ReadNothing, Quiet
<1> USE DEF TokenInv, ReadNothing, host
<1>2. TypeInv'
  BY DEF TypeInv, Places
<1>3. OneAnswer'
  BY <1>1 DEF OneAnswer
<1>4. SuccessIsRecorded' /\ OwnParameters'
  BY DEF SuccessIsRecorded, OwnParameters
<1> QED BY <1>2, <1>3, <1>4

(* The next printing, or the next token, begins with an empty line again.   *)
LEMMA PauseToken == TokenInv /\ Pause => TokenInv'
<1>1. SUFFICES ASSUME TokenInv, Pause PROVE TokenInv'
  OBVIOUS
<1> USE <1>1 DEF TokenInv, Pause, host, Return
<1>2. TypeInv'
  BY DEF TypeInv, Places
<1>3. OneAnswer'
  BY DEF OneAnswer
<1>4. SuccessIsRecorded' /\ OwnParameters'
  BY DEF SuccessIsRecorded, OwnParameters, TypeInv
<1> QED BY <1>2, <1>3, <1>4

(* The host answers the token being sent, after noting it if it is well.    *)
LEMMA HostReceivesToken == TokenInv /\ HostReceives => TokenInv'
<1>1. SUFFICES ASSUME TokenInv, HostReceives PROVE TokenInv'
  OBVIOUS
<1> DEFINE token == Head(printed)
<1>2. /\ printed \in Seq(Tokens) /\ printed # <<>> /\ printed' = Tail(printed)
      /\ UNCHANGED <<pc, cur, console, result, params>>
  BY <1>1 DEF TokenInv, TypeInv, HostReceives
<1>3. /\ token = printed[1] /\ 1 \in DOMAIN printed /\ token \in Tokens
      /\ printed' \in Seq(Tokens) /\ Len(printed') = Len(printed) - 1
      /\ \A i \in DOMAIN printed' : i + 1 \in DOMAIN printed /\ printed'[i] = printed[i + 1]
  BY <1>2
<1>4. recorded' \in {recorded, recorded \cup {token}}
  BY <1>1 DEF HostReceives, Reply
<1>5. \/ replies' = replies
      \/ /\ token \notin NoAck
         /\ \/ /\ replies' = Append(replies, [kind |-> "success", token |-> token])
               /\ token \in recorded'
            \/ replies' = Append(replies, [kind |-> "fail", token |-> token])
  BY <1>1 DEF HostReceives, Reply
<1>6. token \notin NoAck =>
        /\ pc = "await" /\ Len(printed) = 1 /\ token = cur
        /\ replies = <<>> /\ console = <<>>
  BY <1>1, <1>2, <1>3 DEF TokenInv, OneAnswer
<1>7. CASE replies' = replies
  <2>1. TypeInv'
    BY <1>1, <1>2, <1>3, <1>4, <1>7 DEF TokenInv, TypeInv
  <2>2. OneAnswer'
    BY <1>1, <1>2, <1>3, <1>4, <1>7 DEF TokenInv, TypeInv, OneAnswer, Proof
  <2>3. SuccessIsRecorded' /\ OwnParameters'
    BY <1>1, <1>2, <1>4 DEF TokenInv, SuccessIsRecorded, OwnParameters
  <2> QED BY <2>1, <2>2, <2>3 DEF TokenInv
<1>8. ASSUME NEW answer \in LineType, Proof(answer)', answer.token = token,
             token \notin NoAck, replies' = Append(replies, answer)
      PROVE  TokenInv'
  <2>1. replies' = <<answer>> /\ console' = <<>> /\ printed' = <<>>
    BY <1>2, <1>3, <1>6, <1>8
  <2>2. TypeInv'
    <3>1. replies' \in Seq(LineType)
      BY <1>8, <2>1
    <3> QED BY <1>1, <1>2, <1>3, <1>4, <3>1 DEF TokenInv, TypeInv
  <2>3. OneAnswer'
    BY <1>1, <1>2, <1>6, <1>8, <2>1 DEF TokenInv, OneAnswer
  <2>4. SuccessIsRecorded' /\ OwnParameters'
    BY <1>1, <1>2, <1>4 DEF TokenInv, SuccessIsRecorded, OwnParameters
  <2> QED BY <2>2, <2>3, <2>4 DEF TokenInv
<1>9. CASE token \notin NoAck /\ replies' = Append(replies, [kind |-> "success", token |-> token])
           /\ token \in recorded'
  BY <1>2, <1>3, <1>6, <1>8, <1>9 DEF Proof, LineType, Kinds
<1>10. CASE token \notin NoAck /\ replies' = Append(replies, [kind |-> "fail", token |-> token])
  BY <1>2, <1>3, <1>6, <1>8, <1>10 DEF Proof, LineType, Kinds
<1> QED BY <1>5, <1>7, <1>9, <1>10

(* No damage on the line makes a success out of anything else.              *)
LEMMA BoardReceivesToken == TokenInv /\ BoardReceives => TokenInv'
<1>1. SUFFICES ASSUME TokenInv, BoardReceives PROVE TokenInv'
  OBVIOUS
<1> DEFINE line == Head(replies)
           As(kind) == [line EXCEPT !.kind = kind]
<1>2. /\ replies \in Seq(LineType) /\ console \in Seq(LineType) /\ replies # <<>>
      /\ Len(replies) + Len(console) <= 1 /\ replies' = Tail(replies)
      /\ UNCHANGED <<pc, cur, printed, recorded, result, params>>
  BY <1>1 DEF TokenInv, TypeInv, OneAnswer, BoardReceives, host
<1>3. /\ replies' = <<>> /\ console = <<>> /\ line \in LineType /\ line = replies[1]
      /\ 1 \in DOMAIN replies
  BY <1>2
<1>4. Proof(line) /\ pc = "await"
  BY <1>1, <1>2, <1>3 DEF TokenInv, OneAnswer
<1>5. \A i \in DOMAIN printed : printed[i] \in NoAck
  BY <1>1, <1>2 DEF TokenInv, OneAnswer
<1>6. console' = console \/ \E kind \in Kinds :
        /\ console' = Append(console, As(kind))
        /\ kind \in {"success", "damaged"} => line.kind \in {"success", "damaged"}
  <2>1. \/ console' = console
        \/ console' = Append(console, As(line.kind))
        \/ console' = Append(console, As("noise"))
        \/ line.kind = "success" /\ console' = Append(console, As("damaged"))
    BY <1>1 DEF BoardReceives
  <2>2. line.kind \in Kinds
    BY <1>3 DEF LineType
  <2> QED BY <2>1, <2>2 DEF Kinds
<1>7. CASE console' = console
  <2>1. TypeInv' /\ OneAnswer'
    BY <1>1, <1>2, <1>3, <1>5, <1>7 DEF TokenInv, TypeInv, OneAnswer
  <2> QED BY <1>1, <1>2, <2>1 DEF TokenInv, SuccessIsRecorded, OwnParameters
<1>8. ASSUME NEW kind \in Kinds, console' = Append(console, As(kind)),
             kind \in {"success", "damaged"} => line.kind \in {"success", "damaged"}
      PROVE  TokenInv'
  <2>1. PICK answer : answer = As(kind)
    OBVIOUS
  <2>2. answer \in LineType /\ answer.token = line.token /\ answer.kind = kind
    BY <1>3, <2>1 DEF LineType
  <2>3. console' = <<answer>>
    BY <1>3, <1>8, <2>1
  <2>4. Proof(answer)'
    BY <1>2, <1>4, <1>8, <2>2 DEF Proof
  <2>5. TypeInv'
    <3>1. console' \in Seq(LineType)
      BY <2>2, <2>3
    <3> QED BY <1>1, <1>2, <1>3, <3>1 DEF TokenInv, TypeInv
  <2>6. OneAnswer'
    BY <1>1, <1>2, <1>3, <1>4, <1>5, <2>3, <2>4 DEF TokenInv, OneAnswer
  <2> QED BY <1>1, <1>2, <2>5, <2>6 DEF TokenInv, SuccessIsRecorded, OwnParameters
<1> QED BY <1>6, <1>7, <1>8

(* Every step keeps the invariant.                                          *)
LEMMA NextToken ==
  ASSUME ~MayBeLate
  PROVE  TokenInv /\ [Next]_vars => TokenInv'
<1>1. SUFFICES ASSUME TokenInv, [Next]_vars PROVE TokenInv'
  OBVIOUS
<1>2. CASE Board
  BY <1>1, <1>2, StartToken, PrintTokenToken, ReadAckToken, ReadNothingToken, PauseToken DEF Board
<1>3. CASE Line
  BY <1>1, <1>3, HostReceivesToken, BoardReceivesToken DEF Line
<1>4. CASE UNCHANGED vars
  BY <1>1, <1>4
     DEF vars, TokenInv, TypeInv, OneAnswer, Proof, SuccessIsRecorded, OwnParameters
<1> QED BY <1>1, <1>2, <1>3, <1>4 DEF Next, Done

-------------------------------------------------------------------------------
(* The invariant holds throughout.                                          *)
LEMMA TokenInvariant ==
  ASSUME ~MayBeLate
  PROVE  Spec => []TokenInv
BY InitToken, NextToken, PTL DEF Spec

(* For any tokens and numbers of tries, send_token answers 0 only when the  *)
(* host has received the token well, as long as the board waits longer than *)
(* an answer takes.                                                         *)
THEOREM SuccessProven ==
  ASSUME ~MayBeLate
  PROVE  Spec => []SuccessIsRecorded
<1>1. TokenInv => SuccessIsRecorded
  BY DEF TokenInv
<1> QED BY <1>1, TokenInvariant, PTL

(* And it takes over the parameters of the answer to that token only.       *)
THEOREM ParametersProven ==
  ASSUME ~MayBeLate
  PROVE  Spec => []OwnParameters
<1>1. TokenInv => OwnParameters
  BY DEF TokenInv
<1> QED BY <1>1, TokenInvariant, PTL
===============================================================================
