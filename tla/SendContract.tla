---------------------------- MODULE SendContract ----------------------------
(***************************************************************************)
(* What the send service promises its clients, with nothing of how it is   *)
(* done: messages are taken in the order they were queued, one at a time;  *)
(* each gets one verdict; a request is told "ok" only when every message   *)
(* it queued got the verdict "ok", and "failed" only when one of them got  *)
(* another; a request turned away as "unavailable" queued nothing.         *)
(* SendPipeline implements it.                                             *)
(***************************************************************************)
EXTENDS Naturals, Sequences

CONSTANTS
  Clients,   \* requests
  PerClient, \* a bound on the messages of one request
  None       \* no message is being sent

Jobs == Clients \X (1 .. PerClient)
Verdicts == {"ok", "failed"}
Answers == {"ok", "failed", "invalid", "unavailable"}

VARIABLES queue, serving, verdict, answer
vars == <<queue, serving, verdict, answer>>

Of(c) == {j \in Jobs : j[1] = c}
Queued == {queue[i] : i \in DOMAIN queue}

Init ==
  /\ queue = <<>>
  /\ serving = None
  /\ verdict = [j \in Jobs |-> "none"]
  /\ answer = [c \in Clients |-> "none"]

\* A request that has no answer yet queues a message it did not queue before.
Submit(j) ==
  /\ answer[j[1]] = "none"
  /\ verdict[j] = "none" /\ j # serving /\ j \notin Queued
  /\ queue' = Append(queue, j)
  /\ UNCHANGED <<serving, verdict, answer>>

Serve ==
  /\ serving = None /\ queue # <<>>
  /\ serving' = Head(queue)
  /\ queue' = Tail(queue)
  /\ UNCHANGED <<verdict, answer>>

Settle(v) ==
  /\ serving # None
  /\ verdict[serving] = "none"
  /\ verdict' = [verdict EXCEPT ![serving] = v]
  /\ serving' = None
  /\ UNCHANGED <<queue, answer>>

Answer(c, a) ==
  /\ answer[c] = "none"
  /\ a = "ok" => \A j \in Of(c) : j # serving /\ j \notin Queued /\ verdict[j] # "failed"
  /\ a = "failed" => \E j \in Of(c) : verdict[j] = "failed"
  /\ a = "unavailable" =>
       \A j \in Of(c) : j # serving /\ j \notin Queued /\ verdict[j] = "none"
  /\ answer' = [answer EXCEPT ![c] = a]
  /\ UNCHANGED <<queue, serving, verdict>>

Next ==
  \/ \E j \in Jobs : Submit(j)
  \/ Serve
  \/ \E v \in Verdicts : Settle(v)
  \/ \E c \in Clients, a \in Answers : Answer(c, a)

Spec == Init /\ [][Next]_vars
=============================================================================
