---------------------------- MODULE RedisClient ----------------------------
(***************************************************************************)
(* The client of the live reader: redis-py as it is vendored under         *)
(* lambda/live/redis, with one connection in its pool, used for one        *)
(* command at a time and kept between the invocations of the Lambda.       *)
(*                                                                         *)
(* The replies of a connection carry no identity: the client takes the     *)
(* next one to be the reply to the command it waits for.  So a connection  *)
(* must never be used again after a command on it was given up, and one    *)
(* that has something to read is not fit for another command.  External:   *)
(* the server, which answers the commands of a connection in order, or     *)
(* closes it.                                                              *)
(***************************************************************************)
EXTENDS LiveCache, Sequences

CONSTANT Retries \* of the default Retry of redis.Redis

ASSUME RetryAssumption == Retries \in Nat

VARIABLES
  sock,       \* "none", "open", or "reset" when the server has closed it
  unanswered, \* the commands that the server has yet to answer: their keys
  replies,    \* the replies that are there to be read
  stage,      \* "idle", "acquire", "await", "retry", or "raised"
  asked,      \* the key of the command that is executed
  failures    \* how often it has failed

socketVars == <<sock, unanswered, replies>>
clientVars == <<socketVars, stage, asked, failures>>

InitClient ==
  /\ sock = "none"
  /\ unanswered = <<>> /\ replies = <<>>
  /\ stage = "idle"
  /\ asked = Exec
  /\ failures = 0

(* execute_command of a command on key k.                                  *)
Execute(k) ==
  /\ stage' = "acquire"
  /\ asked' = k
  /\ failures' = 0

(* Mutant: a command that fails leaves its connection to the next one.     *)
KeepConnection == UNCHANGED socketVars

(* disconnect.                                                             *)
Disconnect ==
  /\ sock' = "none"
  /\ unanswered' = <<>> /\ replies' = <<>>

(* can_read finds data, or the end of what the server sent.                *)
FitForCommand == sock = "open" /\ replies = <<>>

SendOn(queue) ==
  /\ stage' = "await"
  /\ unanswered' = Append(queue, asked)
  /\ UNCHANGED <<asked, failures>>

(* get_connection of the pool and send_command.                            *)
Send ==
  /\ stage = "acquire"
  /\ IF FitForCommand
       THEN SendOn(unanswered) /\ UNCHANGED <<sock, replies>>
       ELSE SendOn(<<>>) /\ sock' = "open" /\ replies' = <<>>

(* The connection cannot be made, after its own retries.                   *)
GetConnectionFails ==
  /\ stage = "acquire"
  /\ ~FitForCommand
  /\ Disconnect
  /\ stage' = "raised"
  /\ UNCHANGED <<asked, failures>>

(* send_command again, on the same connection object: it connects if there *)
(* is no socket, and does not look whether there is something to read.     *)
Resend ==
  /\ stage = "retry"
  /\ SendOn(unanswered)
  /\ sock' = IF sock = "none" THEN "open" ELSE sock
  /\ UNCHANGED replies

(* Connecting, writing or reading fails or times out: call_with_retry has  *)
(* the connection closed and tries again, until it raises.                 *)
CommandFails ==
  /\ stage = "retry" \/ (stage = "await" /\ replies = <<>>)
  /\ Disconnect
  /\ IF failures < Retries
       THEN stage' = "retry" /\ failures' = failures + 1
       ELSE stage' = "raised" /\ UNCHANGED failures
  /\ UNCHANGED asked

Reply(k) == [key |-> k, value |-> ValueAt(k)]

ServerAnswers ==
  /\ sock = "open"
  /\ unanswered # <<>>
  /\ replies' = Append(replies, Reply(Head(unanswered)))
  /\ unanswered' = Tail(unanswered)
  /\ UNCHANGED <<sock, stage, asked, failures>>

ServerCloses ==
  /\ sock = "open"
  /\ sock' = "reset"
  /\ unanswered' = <<>>
  /\ UNCHANGED <<replies, stage, asked, failures>>

(* parse_response: the caller takes the value that was read.               *)
Answered == stage = "await" /\ replies # <<>>
ValueRead == Head(replies).value
TakeReply == replies' = Tail(replies) /\ UNCHANGED <<sock, unanswered>>

(* The caller has what it asked for, or an exception.                      *)
Done ==
  /\ stage' = "idle"
  /\ asked' = Exec
  /\ failures' = 0

ClientStep == Send \/ GetConnectionFails \/ Resend \/ CommandFails
ServerStep == ServerAnswers \/ ServerCloses
=============================================================================
