---------------------------- MODULE SendPipeline ----------------------------
(***************************************************************************)
(* Sending a message, end to end: HTTP and WebSocket clients queue         *)
(* messages on msgChan (http.go, websocket.go), the one SendWorker         *)
(* goroutine takes them, calls the agent and waits for the answer          *)
(* (worker.go), and one goroutine per response feeds buf2RespChan          *)
(* (main.go).  The agent and WeChat are those of module Agent.             *)
(*                                                                         *)
(* Time is not modelled: a deadline may pass at any moment the code allows *)
(* (see ClassicTimer for the one order of deadlines that is kept).         *)
(***************************************************************************)
EXTENDS Agent, Sequences, FiniteSets

CONSTANTS
  HttpClients, WsClients,  \* one client is one request
  HttpBodies, WsBodies,    \* the message lists they may post
  MaxSegments,             \* the longest of them
  MsgCap, AckCap           \* capacity of msgChan and of buf2RespChan

Clients == HttpClients \cup WsClients

\* "text" adds to the text message sent last; "at" is a mention that adds
\* nothing (nickname unknown, or not a group); "bad_card" is a mini_program
\* segment with a field missing; "image" is accepted from WebSocket only.
SegmentTypes == {"text", "at", "mini_program", "bad_card", "image"}
HttpBodyTypes == SegmentTypes \ {"image"}
Bodies == HttpBodies \cup WsBodies

ASSUME PipelineAssumption ==
  /\ HttpClients \cap WsClients = {}
  /\ MaxSegments \in Nat /\ MsgCap \in Nat \ {0} /\ AckCap \in Nat \ {0}
  /\ HttpBodies \subseteq Seq(HttpBodyTypes)
  /\ WsBodies \subseteq Seq(SegmentTypes)
  /\ \A b \in Bodies : Len(b) <= MaxSegments

VARIABLES
  cpc, body, seg,        \* a client's goroutine: where it is, its segments
  queued, collected,     \* messages it queued, results it has received
  answer,                \* what it was told
  resultChan,            \* the ResultChan of each message (capacity 1)
  msgChan,               \* the send queue
  wpc, m, currTaskId,    \* SendWechatMsg: where it is, message, task id
  sendErr, ackOf,        \* its outcome, and the task whose answer gave it
  taskId,                \* the task counter
  buf2RespChan,          \* answers waiting for the worker
  report,                \* history: how each message was reported
  timedOut               \* history: the tasks given up at their deadline

clientVars == <<cpc, body, seg, queued, collected, answer>>
workerVars == <<wpc, m, currTaskId, sendErr, ackOf, taskId, report, timedOut>>
chanVars   == <<resultChan, msgChan, buf2RespChan>>
vars == <<clientVars, workerVars, chanVars, agentVars>>

-----------------------------------------------------------------------------
Jobs == Clients \X (1 .. MaxSegments + 1)
JobTypes == MsgTypes \cup {"image"}
Messages == [job : Jobs, type : JobTypes]

Outcomes == {"ok", "rejected", "refused", "timeout"}
NoReport == [task |-> 0, outcome |-> "none", ackOf |-> 0]
NoMessage == [job |-> <<>>, type |-> "text"]

ClientTypeOK ==
  /\ cpc \in [Clients -> {"idle", "queueing", "waiting", "done"}]
  /\ body \in [Clients -> Bodies \cup {<<>>}]
  /\ seg \in [Clients -> 1 .. MaxSegments + 1]
  /\ queued \in [Clients -> 0 .. MaxSegments + 1]
  /\ \A c \in Clients : cpc[c] \in {"idle", "queueing"} => queued[c] < seg[c]
  /\ collected \in [Clients -> 0 .. MaxSegments + 1]
  /\ answer \in [Clients -> {"none", "ok", "failed", "invalid", "unavailable"}]

ChanTypeOK ==
  /\ resultChan \in [Jobs -> {"empty", "ok", "failed"}]
  /\ msgChan \in Seq(Messages) /\ Len(msgChan) <= MsgCap
  /\ buf2RespChan \in Seq(Responses) /\ Len(buf2RespChan) <= AckCap

WorkerTypeOK ==
  /\ wpc \in {"idle", "ready", "calling", "awaiting", "cancelling", "publishing"}
  /\ m \in Messages \cup {NoMessage}
  /\ wpc # "idle" => m \in Messages /\ currTaskId # 0
  /\ currTaskId \in Nat /\ taskId \in Nat
  /\ sendErr \in Outcomes \cup {"none"}
  /\ wpc \in {"cancelling", "publishing"} => sendErr # "none"
  /\ ackOf \in Nat
  /\ timedOut \in SUBSET TaskIds
  /\ report \in [Jobs -> [task : Nat, outcome : Outcomes \cup {"none"}, ackOf : Nat]]

TypeOK == AgentTypeOK /\ ClientTypeOK /\ ChanTypeOK /\ WorkerTypeOK

Init ==
  /\ AgentInit
  /\ cpc = [c \in Clients |-> "idle"]
  /\ body = [c \in Clients |-> <<>>]
  /\ seg = [c \in Clients |-> 1]
  /\ queued = [c \in Clients |-> 0]
  /\ collected = [c \in Clients |-> 0]
  /\ answer = [c \in Clients |-> "none"]
  /\ resultChan = [j \in Jobs |-> "empty"]
  /\ msgChan = <<>>
  /\ wpc = "idle" /\ m = NoMessage
  /\ currTaskId = 0 /\ taskId = 0
  /\ sendErr = "none" /\ ackOf = 0
  /\ buf2RespChan = <<>>
  /\ report = [j \in Jobs |-> NoReport]
  /\ timedOut = {}

-----------------------------------------------------------------------------
(* Clients *)

Cards(b) == {i \in DOMAIN b : b[i] \in {"mini_program", "bad_card"}}

\* sendHandler's status check, made once, before anything is queued.
Admit(c, b) ==
  /\ cpc[c] = "idle"
  /\ ScriptThreadFree
  /\ IF Cards(b) = {} \/ MiniProgramReady
     THEN /\ cpc' = [cpc EXCEPT ![c] = "queueing"]
          /\ body' = [body EXCEPT ![c] = b]
          /\ UNCHANGED answer
     ELSE /\ cpc' = [cpc EXCEPT ![c] = "done"]
          /\ answer' = [answer EXCEPT ![c] = "unavailable"]
          /\ UNCHANGED body
  /\ UNCHANGED <<seg, queued, collected, workerVars, chanVars, agentVars>>

\* A WebSocket frame reaches SendWS, which checks nothing first.
Receive(c, b) ==
  /\ cpc[c] = "idle"
  /\ cpc' = [cpc EXCEPT ![c] = "queueing"]
  /\ body' = [body EXCEPT ![c] = b]
  /\ UNCHANGED <<seg, queued, collected, answer, workerVars, chanVars, agentVars>>

\* A queue that never fills.
EnqueueUnbounded(c, type) ==
  /\ msgChan' = Append(msgChan, [job |-> <<c, queued[c] + 1>>, type |-> type])
  /\ queued' = [queued EXCEPT ![c] = @ + 1]

\* msgChan <- msg, which waits while the channel is full.
Enqueue(c, type) ==
  /\ Len(msgChan) < MsgCap
  /\ msgChan' = Append(msgChan, [job |-> <<c, queued[c] + 1>>, type |-> type])
  /\ queued' = [queued EXCEPT ![c] = @ + 1]

\* The next segment of the list.  sendHandler queues a card at once and gives
\* up on an incomplete one; SendWS queues media and ignores cards.
QueueSegment(c) ==
  /\ cpc[c] = "queueing" /\ seg[c] <= Len(body[c])
  /\ LET s == body[c][seg[c]]
         queues == IF c \in HttpClients THEN {"mini_program"} ELSE {"image"}
     IN  \/ /\ s \in queues
            /\ Enqueue(c, s)
            /\ seg' = [seg EXCEPT ![c] = @ + 1]
            /\ UNCHANGED <<cpc, answer>>
         \/ /\ s = "bad_card" /\ c \in HttpClients
            /\ cpc' = [cpc EXCEPT ![c] = "done"]
            /\ answer' = [answer EXCEPT ![c] = "invalid"]
            /\ UNCHANGED <<seg, queued, msgChan>>
         \/ /\ s \notin queues /\ ~(s = "bad_card" /\ c \in HttpClients)
            /\ seg' = [seg EXCEPT ![c] = @ + 1]
            /\ UNCHANGED <<cpc, answer, queued, msgChan>>
  /\ UNCHANGED <<body, collected, resultChan, buf2RespChan, workerVars, agentVars>>

\* After the loop: the collected text, if any, is queued last.
QueueText(c) ==
  /\ cpc[c] = "queueing" /\ seg[c] > Len(body[c])
  /\ IF \E i \in DOMAIN body[c] : body[c][i] = "text"
     THEN Enqueue(c, "text")
     ELSE UNCHANGED <<msgChan, queued>>
  /\ cpc' = [cpc EXCEPT ![c] = IF c \in HttpClients THEN "waiting" ELSE "done"]
  /\ UNCHANGED <<body, seg, collected, answer, resultChan, buf2RespChan,
                 workerVars, agentVars>>

\* A loop that reports on the first result only.
CollectFirst(c) ==
  /\ cpc[c] = "waiting"
  /\ LET j == <<c, collected[c] + 1>>
     IN  IF collected[c] = queued[c]
         THEN /\ cpc' = [cpc EXCEPT ![c] = "done"]
              /\ answer' = [answer EXCEPT ![c] = "ok"]
              /\ UNCHANGED <<collected, resultChan>>
         ELSE /\ resultChan[j] # "empty"
              /\ resultChan' = [resultChan EXCEPT ![j] = "empty"]
              /\ collected' = [collected EXCEPT ![c] = @ + 1]
              /\ cpc' = [cpc EXCEPT ![c] = "done"]
              /\ answer' = [answer EXCEPT ![c] = resultChan[j]]
  /\ UNCHANGED <<body, seg, queued, msgChan, buf2RespChan, workerVars, agentVars>>

\* The results are awaited in order; the first error ends the request.
Collect(c) ==
  /\ cpc[c] = "waiting"
  /\ LET j == <<c, collected[c] + 1>>
     IN  \/ /\ collected[c] = queued[c]
            /\ cpc' = [cpc EXCEPT ![c] = "done"]
            /\ answer' = [answer EXCEPT ![c] = "ok"]
            /\ UNCHANGED <<collected, resultChan>>
         \/ /\ collected[c] < queued[c] /\ resultChan[j] = "ok"
            /\ resultChan' = [resultChan EXCEPT ![j] = "empty"]
            /\ collected' = [collected EXCEPT ![c] = @ + 1]
            /\ UNCHANGED <<cpc, answer>>
         \/ /\ collected[c] < queued[c] /\ resultChan[j] = "failed"
            /\ resultChan' = [resultChan EXCEPT ![j] = "empty"]
            /\ collected' = [collected EXCEPT ![c] = @ + 1]
            /\ cpc' = [cpc EXCEPT ![c] = "done"]
            /\ answer' = [answer EXCEPT ![c] = "failed"]
  /\ UNCHANGED <<body, seg, queued, msgChan, buf2RespChan, workerVars, agentVars>>

-----------------------------------------------------------------------------
(* The worker *)

\* SendWorker hands the next message to SendWechatMsg, which draws a task id.
TakeNewest ==
  /\ wpc = "idle" /\ msgChan # <<>>
  /\ m' = msgChan[Len(msgChan)]
  /\ msgChan' = SubSeq(msgChan, 1, Len(msgChan) - 1)
  /\ taskId' = taskId + 1 /\ currTaskId' = taskId + 1
  /\ wpc' = "ready" /\ sendErr' = "none" /\ ackOf' = 0
  /\ UNCHANGED <<report, timedOut, resultChan, buf2RespChan, clientVars, agentVars>>

Take ==
  /\ wpc = "idle" /\ msgChan # <<>>
  /\ m' = Head(msgChan)
  /\ msgChan' = Tail(msgChan)
  /\ taskId' = taskId + 1 /\ currTaskId' = taskId + 1
  /\ wpc' = "ready" /\ sendErr' = "none" /\ ackOf' = 0
  /\ UNCHANGED <<report, timedOut, resultChan, buf2RespChan, clientVars, agentVars>>

\* The message does not get as far as MMStartTask: its protobuf cannot be
\* built, the script is gone ("unavailable"), or the export's checks fail; an
\* upload always fails, the hook that captures its context is not attached.
Refuse ==
  /\ wpc = "ready"
  /\ wpc' = "publishing" /\ sendErr' = "refused"
  /\ UNCHANGED <<m, currTaskId, ackOf, taskId, report, timedOut, chanVars, clientVars, agentVars>>

\* triggerSendTextMessage or triggerSendMiniProgram is called ...
Call(o) ==
  /\ wpc = "ready" /\ m.type \in MsgTypes
  /\ BeginSend(currTaskId, m.type, o)
  /\ wpc' = "calling"
  /\ UNCHANGED <<m, currTaskId, sendErr, ackOf, taskId, report, timedOut, chanVars, clientVars>>

\* ... and returns: "fail" after a native fault, else "submitted:" or "1".
CallReturns ==
  /\ wpc = "calling"
  /\ EndSend
  /\ IF call.outcome = "faulted"
     THEN wpc' = "publishing" /\ sendErr' = "refused"
     ELSE wpc' = "awaiting" /\ UNCHANGED sendErr
  /\ UNCHANGED <<m, currTaskId, ackOf, taskId, report, timedOut, chanVars, clientVars>>

\* case resp := <-buf2RespChan: whatever answer is there is this task's.
PeekAck ==
  /\ wpc = "awaiting" /\ buf2RespChan # <<>>
  /\ LET resp == Head(buf2RespChan)
     IN  /\ sendErr' = IF resp.ok THEN "ok" ELSE "rejected"
         /\ ackOf' = resp.task
  /\ wpc' = "publishing"
  /\ UNCHANGED <<m, currTaskId, taskId, report, timedOut, chanVars, clientVars, agentVars>>

TakeAck ==
  /\ wpc = "awaiting" /\ buf2RespChan # <<>>
  /\ LET resp == Head(buf2RespChan)
     IN  /\ sendErr' = IF resp.ok THEN "ok" ELSE "rejected"
         /\ ackOf' = resp.task
  /\ buf2RespChan' = Tail(buf2RespChan)
  /\ wpc' = "publishing"
  /\ UNCHANGED <<m, currTaskId, taskId, report, timedOut, resultChan, msgChan, clientVars, agentVars>>

\* case <-ctx.Done(), 15 s after the task was taken ...
Timeout ==
  /\ wpc = "awaiting"
  /\ wpc' = "cancelling" /\ sendErr' = "timeout"
  /\ timedOut' = timedOut \cup {currTaskId}
  /\ UNCHANGED <<m, currTaskId, ackOf, taskId, report, chanVars, clientVars, agentVars>>

\* ... and the cancel export of the message's kind.
Cancel ==
  /\ wpc = "cancelling"
  /\ IF m.type = "text" THEN CancelText(currTaskId) ELSE CancelMiniProgram(currTaskId)
  /\ wpc' = "publishing"
  /\ UNCHANGED <<m, currTaskId, sendErr, ackOf, taskId, report, timedOut, chanVars, clientVars>>

Verdict(outcome) == IF outcome = "ok" THEN "ok" ELSE "failed"

\* The deferred send of the result; a WebSocket message has no ResultChan.
\* On an unbuffered channel the client would have to be receiving.
PublishUnbuffered ==
  /\ wpc = "publishing"
  /\ LET c == m.job[1]
     IN  IF c \in HttpClients
         THEN /\ cpc[c] = "waiting" /\ collected[c] + 1 = m.job[2]
              /\ resultChan' = [resultChan EXCEPT ![m.job] = Verdict(sendErr)]
         ELSE UNCHANGED resultChan
  /\ report' = [report EXCEPT ![m.job] =
                  [task |-> currTaskId, outcome |-> sendErr, ackOf |-> ackOf]]
  /\ wpc' = "idle"
  /\ UNCHANGED <<m, currTaskId, sendErr, ackOf, taskId, timedOut, msgChan,
                 buf2RespChan,
                 clientVars, agentVars>>

Publish ==
  /\ wpc = "publishing"
  /\ IF m.job[1] \in HttpClients
     THEN /\ resultChan[m.job] = "empty"
          /\ resultChan' = [resultChan EXCEPT ![m.job] = Verdict(sendErr)]
     ELSE UNCHANGED resultChan
  /\ report' = [report EXCEPT ![m.job] =
                  [task |-> currTaskId, outcome |-> sendErr, ackOf |-> ackOf]]
  /\ wpc' = "idle"
  /\ UNCHANGED <<m, currTaskId, sendErr, ackOf, taskId, timedOut, msgChan,
                 buf2RespChan,
                 clientVars, agentVars>>

-----------------------------------------------------------------------------
(* The response goroutines, the agent's timers and WeChat *)

\* HandleBuf2Resp not looking at ret.
DeliverUnchecked(r) ==
  /\ r \in buf2resp /\ Len(buf2RespChan) < AckCap
  /\ buf2resp' = buf2resp \ {r}
  /\ buf2RespChan' = Append(buf2RespChan, [r EXCEPT !.ok = TRUE])
  /\ UNCHANGED <<taskIdGlobal, sendMsgType, classicPendingTaskId, classicTimers,
                 miniProgramPendingTaskId, pendingBuf2RespTaskId, call, wechatVars,
                 resultChan, msgChan, workerVars, clientVars>>

\* One goroutine per buf2resp message runs HandleBuf2Resp; it waits while
\* the channel is full.
Deliver(r) ==
  /\ r \in buf2resp /\ Len(buf2RespChan) < AckCap
  /\ buf2resp' = buf2resp \ {r}
  /\ buf2RespChan' = Append(buf2RespChan, r)
  /\ UNCHANGED <<taskIdGlobal, sendMsgType, classicPendingTaskId, classicTimers,
                 miniProgramPendingTaskId, pendingBuf2RespTaskId, call, wechatVars,
                 resultChan, msgChan, workerVars, clientVars>>

goVars == <<clientVars, workerVars, chanVars>>

\* The 25 s timer is armed after the worker's 15 s context started, so it does
\* not fire while the worker still waits on that task.
ClassicTimer(t) ==
  /\ ~(currTaskId = t /\ wpc \in {"calling", "awaiting"})
  /\ TimerFires(t)
  /\ UNCHANGED goVars

WeChat ==
  /\ \E t \in started : Req2BufExit(t) \/ \E ok \in BOOLEAN : Response(t, ok)
  /\ UNCHANGED goVars

-----------------------------------------------------------------------------
ClientStep(c) == QueueSegment(c) \/ QueueText(c) \/ Collect(c)

Worker ==
  \/ Take \/ Refuse \/ (\E o \in StartOutcomes : Call(o)) \/ CallReturns
  \/ TakeAck \/ Timeout \/ Cancel \/ Publish

Next ==
  \/ \E c \in HttpClients, b \in HttpBodies : Admit(c, b)
  \/ \E c \in WsClients, b \in WsBodies : Receive(c, b)
  \/ \E c \in Clients : ClientStep(c)
  \/ Worker
  \/ \E r \in buf2resp : Deliver(r)
  \/ \E t \in classicTimers : ClassicTimer(t)
  \/ WeChat

Spec == Init /\ [][Next]_vars

\* Goroutines and timers run; requests and WeChat owe nothing.  The worker's
\* fairness includes MMStartTask returning and the 15 s context expiring.
Fairness ==
  /\ \A c \in Clients : WF_vars(ClientStep(c))
  /\ WF_vars(Worker)
  /\ WF_vars(\E r \in buf2resp : Deliver(r))
  /\ WF_vars(\E t \in classicTimers : ClassicTimer(t))

FairSpec == Spec /\ Fairness

-----------------------------------------------------------------------------
(* Properties *)

\* As long as no send has timed out, what a client is told about a message is
\* the server's own answer to that message: "ok" only for a message the server
\* took, and never on the strength of another task's answer - although
\* buf2RespChan carries no task id (worker.go:364).
SuccessEarnedBeforeAnyTimeout ==
  timedOut = {} =>
    \A j \in Jobs :
      /\ report[j].outcome = "ok" => report[j].task \in accepted
      /\ report[j].ackOf \in {0, report[j].task}

\* Even after timeouts, no server answer settles two messages: the number of
\* successes told never exceeds the number of messages the server took.
EachAckCreditedOnce ==
  \A i, j \in Jobs :
    i # j /\ report[i].ackOf # 0 => report[i].ackOf # report[j].ackOf

\* Answers nobody waits for pile up only as fast as sends time out: at most
\* one per timeout, plus the one of the message being sent.  This is what
\* keeps ten slots of buf2RespChan from filling without ten timeouts.
StaleAcksBounded ==
  Cardinality(buf2resp) + Len(buf2RespChan)
    <= Cardinality(timedOut) + (IF wpc \in {"calling", "awaiting"} THEN 1 ELSE 0)

\* A registration that waits for a response is cleared only by that response,
\* by that task's own timer (classic slot) or by the worker's cancel of that
\* very task (card slot) - never by the timer or the cancel of an older one
\* (script.js:1446 and :778).
OnlyOwnerClears ==
  /\ classicPendingTaskId # 0 /\ classicPendingTaskId' = 0 =>
       \/ classicPendingTaskId \in answered' \ answered
       \/ classicPendingTaskId \in classicTimers \ classicTimers'
  /\ miniProgramPendingTaskId # 0 /\ miniProgramPendingTaskId' = 0 =>
       \/ miniProgramPendingTaskId \in answered' \ answered
       \/ wpc = "cancelling" /\ currTaskId = miniProgramPendingTaskId

SlotsClearedByOwner == [][OnlyOwnerClears]_vars

\* The pipeline does what SendContract says: one message at a time, in queue
\* order, one verdict each, and HTTP answers that agree with the verdicts.
Contract == INSTANCE SendContract WITH
  PerClient <- MaxSegments + 1,
  None      <- <<>>,
  queue     <- [i \in DOMAIN msgChan |-> msgChan[i].job],
  serving   <- IF wpc = "idle" THEN <<>> ELSE m.job,
  verdict   <- [j \in Jobs |-> IF report[j].outcome = "none" THEN "none"
                               ELSE Verdict(report[j].outcome)]

ImplementsContract == Contract!Spec

\* Every request is answered (a WebSocket frame: handed over) although the
\* server may never respond and an earlier client may have stopped listening:
\* the worker neither waits for ever on an answer nor blocks on a ResultChan.
EveryRequestEnds == \A c \in Clients : cpc[c] = "queueing" ~> cpc[c] = "done"

\* script.js:1444: the classic slot is never occupied for ever by one task.
ClassicSlotFreed ==
  \A t \in 1 .. Cardinality(Jobs) :
    classicPendingTaskId = t ~> classicPendingTaskId # t

-----------------------------------------------------------------------------
(* Why SuccessEarnedBeforeAnyTimeout holds: the parts of its inductive       *)
(* invariant, proved in SendPipelineProofs                                   *)

Submitted == wpc \in {"calling", "awaiting"}

\* The worker's task is the newest; a task is started at most once; the export
\* being executed is the worker's.
TaskInv ==
  /\ currTaskId = taskId
  /\ \A t \in started : t <= taskId
  /\ wpc = "ready" => currTaskId \notin started
  /\ wpc = "calling" =>
       /\ call.task = currTaskId
       /\ call.outcome # "queued" => currTaskId \notin started

\* An answer on its way to the worker is one the server gave.
TrueAck(r) == r.task \in answered /\ (r.ok => r.task \in accepted)

AcksAreTrue ==
  /\ \A r \in buf2resp : TrueAck(r)
  /\ \A i \in DOMAIN buf2RespChan : TrueAck(buf2RespChan[i])
  /\ sendErr = "ok" => ackOf \in accepted

\* Without a timeout only the task being sent can be unanswered, and what is on
\* its way to the worker is its one answer.
OnlyTheCurrentTask ==
  /\ \A t \in started \ answered : Submitted /\ t = currTaskId
  /\ \A r \in buf2resp : Submitted /\ r.task = currTaskId
  /\ \A i \in DOMAIN buf2RespChan : Submitted /\ buf2RespChan[i].task = currTaskId
  /\ \A r, s \in buf2resp : r = s
  /\ buf2resp = {} \/ buf2RespChan = <<>>
  /\ Len(buf2RespChan) <= 1
  /\ ackOf \in {0, currTaskId}

IInv ==
  /\ TypeOK
  /\ TaskInv
  /\ AcksAreTrue
  /\ timedOut = {} => OnlyTheCurrentTask
  /\ SuccessEarnedBeforeAnyTimeout

-----------------------------------------------------------------------------
(* What the repository says of itself and the code does not do *)

\* resp_parser.go:17 forbids reporting a success that is not one: a message
\* told "ok" is one the server took.  The answer of a task given up earlier is
\* taken for the next one's.
NoForgedSuccess ==
  \A j \in Jobs : report[j].outcome = "ok" => report[j].task \in accepted

\* script_safety_test.go and README.md say a timed-out text send can be
\* cancelled and its pending state cleared: after the cancel export returned,
\* the agent no longer waits for the cancelled task's response.
CancelEndsTheWait ==
  [][wpc = "cancelling" /\ wpc' = "publishing" => classicPendingTaskId' # currTaskId]_vars

\* script.js:2273: the response of the awaited cloned text task is handed to
\* Go.
AckReachesGo ==
  [][\A t \in answered' \ answered :
       classicPendingTaskId = t => \E r \in buf2resp' : r.task = t]_vars
=============================================================================
