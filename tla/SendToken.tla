------------------------------- MODULE SendToken -------------------------------
(***************************************************************************)
(* send_token of plr_protocol.c over the serial console, and the host at   *)
(* the other end.  The board prints a token and waits for a line "plrack   *)
(* success", with the parameters the token asks for, or "plrack fail".     *)
(* Lines may be lost or garbled on either way; the board gives up after a  *)
(* number of readings that found nothing, waits half a second, throws away *)
(* what has arrived, and prints the token again.                           *)
(*                                                                         *)
(* An acknowledgement does not name its token.  The host and the line are  *)
(* outside the source tree.                                                *)
(***************************************************************************)
EXTENDS Integers, Sequences

CONSTANTS
  Arity,       \* ACK_PARAM_COUNT of the tokens the test sends, in their order
  NoAck,       \* those sent without waiting (setloopcnt, setaddress)
  Retries,     \* 100 in send_token
  AckRetries,  \* 10 in _recv_acks
  MayBeLate    \* an answer may take longer than the board waits for it

ASSUME ArityAssumption == Arity \in Seq(Nat)

ASSUME RetriesAssumption == Retries \in Nat \ {0} /\ AckRetries \in Nat

Tokens == DOMAIN Arity

VARIABLES
  pc,        \* where send_token is
  cur,       \* the token being sent
  retry,     \* its printings left
  waits,     \* readings left in _recv_acks
  printed,   \* lines on their way to the host
  replies,   \* lines on their way to the board
  console,   \* lines that have arrived there, not yet read
  recorded,  \* tokens whose line the host received well
  result,    \* what send_token returned for each token
  params     \* the token whose answer's parameters were stored for each token

vars == <<pc, cur, retry, waits, printed, replies, console, recorded, result, params>>

host == <<printed, recorded>>

Pending == 1  \* send_token has not returned for this token

Nothing == 0

Init ==
  /\ pc       = "start"
  /\ cur      = 1
  /\ retry    = Retries
  /\ waits    = AckRetries
  /\ printed  = <<>>
  /\ replies  = <<>>
  /\ console  = <<>>
  /\ recorded = {}
  /\ result   = [t \in Tokens |-> Pending]
  /\ params   = [t \in Tokens |-> Nothing]

Return(value) ==
  /\ result' = [result EXCEPT ![cur] = value]
  /\ cur' = cur + 1
  /\ pc' = "start"

\* Throw away what is on the console, then start on the next token.
Start ==
  /\ pc = "start"
  /\ cur \in Tokens
  /\ console' = <<>>
  /\ retry' = Retries
  /\ pc' = "print"
  /\ UNCHANGED <<cur, waits, replies, host, result, params>>

PrintToken ==
  /\ pc = "print"
  /\ printed' = Append(printed, cur)
  /\ waits' = AckRetries
  /\ IF cur \in NoAck THEN Return(0) ELSE pc' = "await" /\ UNCHANGED <<cur, result>>
  /\ UNCHANGED <<retry, replies, console, recorded, params>>

\* Mutant: any line of the host will do.
Acceptable_AnyKind(line) == Arity[line.token] >= Arity[cur]

\* recv_param_error_check: as many parameters as the token wants, or more, their
\* CRC and length right; nobody looks at them when it wants none.
Acceptable(line) ==
  \/ line.kind = "success" /\ Arity[line.token] >= Arity[cur]
  \/ line.kind = "damaged" /\ Arity[cur] = 0

ReadAck ==
  /\ pc = "await"
  /\ console # <<>>
  /\ console' = Tail(console)
  /\ LET line == Head(console)
     IN  CASE line.kind = "noise" ->
                /\ IF waits > 0 THEN waits' = waits - 1 /\ pc' = pc
                                ELSE waits' = waits /\ pc' = "pause"
                /\ UNCHANGED <<cur, result, params>>
           [] Acceptable(line) ->
                /\ Return(0)
                /\ params' = [params EXCEPT ![cur] = IF Arity[cur] > 0 THEN line.token ELSE @]
                /\ waits' = waits
           [] line.kind # "noise" /\ ~Acceptable(line) ->
                pc' = "pause" /\ UNCHANGED <<cur, result, params, waits>>
  /\ UNCHANGED <<retry, replies, host>>

\* Mutant: the board does not wait for an answer that is on its way.
Quiet_Impatient == TRUE

Quiet == printed = <<>> /\ replies = <<>>

\* readline found no line in time.
ReadNothing ==
  /\ pc = "await"
  /\ console = <<>>
  /\ MayBeLate \/ Quiet
  /\ IF waits > 0 THEN waits' = waits - 1 /\ pc' = pc
                  ELSE waits' = waits /\ pc' = "pause"
  /\ UNCHANGED <<cur, retry, replies, console, host, result, params>>

\* Mutant: the tries are not counted.
Pause_Forever ==
  /\ pc = "pause"
  /\ console' = <<>>
  /\ pc' = "print"
  /\ UNCHANGED <<cur, retry, waits, replies, result, host, params>>

\* mdelay(500), throw away what has arrived, and try again while tries are left.
Pause ==
  /\ pc = "pause"
  /\ console' = <<>>
  /\ retry' = retry - 1
  /\ IF retry - 1 > 0 THEN pc' = "print" /\ UNCHANGED <<cur, result>> ELSE Return(-1)
  /\ UNCHANGED <<waits, replies, host, params>>

-------------------------------------------------------------------------------
Reply(kind, token) == replies' = Append(replies, [kind |-> kind, token |-> token])

\* The line arrives well, arrives garbled (its CRC is wrong), or not at all.
HostReceives ==
  /\ printed # <<>>
  /\ printed' = Tail(printed)
  /\ LET token == Head(printed)
     IN  \/ /\ recorded' = recorded \cup {token}
            /\ IF token \in NoAck THEN UNCHANGED replies ELSE Reply("success", token)
         \/ /\ IF token \in NoAck THEN UNCHANGED replies ELSE Reply("fail", token)
            /\ UNCHANGED recorded
         \/ UNCHANGED <<recorded, replies>>
  /\ UNCHANGED <<pc, cur, retry, waits, console, result, params>>

\* The answer arrives well, as something else, with its parameters damaged, or not.
BoardReceives ==
  /\ replies # <<>>
  /\ replies' = Tail(replies)
  /\ LET line == Head(replies)
         As(kind) == Append(console, [line EXCEPT !.kind = kind])
     IN  \/ console' \in {console, As(line.kind), As("noise")}
         \/ line.kind = "success" /\ console' = As("damaged")
  /\ UNCHANGED <<pc, cur, retry, waits, host, result, params>>

Done == cur \notin Tokens /\ Quiet /\ UNCHANGED vars

Board == Start \/ PrintToken \/ ReadAck \/ ReadNothing \/ Pause

Line == HostReceives \/ BoardReceives

Next == Board \/ Line \/ Done

\* The board is one thread that never blocks; the host and the line do their
\* part sooner or later, if only by losing what they carry.
Spec == Init /\ [][Next]_vars /\ WF_vars(Board) /\ WF_vars(Line)

-------------------------------------------------------------------------------
(* send_token returns 0 only when the host has the token: whatever the test *)
(* does next relies on it, above all on the host knowing the write phase.   *)
SuccessIsRecorded ==
  \A t \in Tokens \ NoAck : result[t] = 0 => t \in recorded

(* The parameters stored for a token are those of the host's answer to that *)
(* token, not of its answer to another one: the comment above do_recv_acks  *)
(* has them be those of "the PC's ack to the token sent".                   *)
OwnParameters == \A t \in Tokens : params[t] \in {Nothing, t}

(* send_token returns for every token, whatever is lost.                    *)
EveryTokenReturns == \A t \in Tokens : <>(result[t] # Pending)
===============================================================================
