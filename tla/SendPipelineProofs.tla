------------------------- MODULE SendPipelineProofs -------------------------
(***************************************************************************)
(* Proofs about SendPipeline, for any clients, bodies, capacities and      *)
(* agent mode: type correctness, that before any send has timed out what a *)
(* client is told is the server's own answer to its message, and what      *)
(* holds of the answers when sends do time out.                            *)
(***************************************************************************)
EXTENDS SendPipeline, FiniteSetTheorems, TLAPS

LEMMA JobsOf ==
  ASSUME NEW c \in Clients, NEW n \in 1 .. MaxSegments + 1
  PROVE  <<c, n>> \in Jobs /\ <<c, n>>[1] = c
BY DEF Jobs

\* A client's segments are counted by MaxSegments.
LEMMA BodyLength ==
  ASSUME NEW b \in Bodies \cup {<<>>}
  PROVE  Len(b) \in 0 .. MaxSegments
<1>1. CASE b \in Bodies
  <2>1. b \in Seq(SegmentTypes)
    BY <1>1, PipelineAssumption DEF Bodies, HttpBodyTypes
  <2>2. Len(b) \in Nat /\ Len(b) <= MaxSegments
    BY <1>1, <2>1, PipelineAssumption
  <2> QED BY <2>2, PipelineAssumption
<1>2. CASE b = <<>>
  BY <1>2, PipelineAssumption
<1> QED BY <1>1, <1>2

LEMMA TypeInit == Init => TypeOK
<1> SUFFICES ASSUME Init PROVE TypeOK
  OBVIOUS
<1>1. AgentTypeOK
  BY DEF Init, AgentInit, AgentTypeOK, NoCall, MsgTypes, StartOutcomes, TaskIds, Responses
<1>2. ChanTypeOK
  BY PipelineAssumption DEF Init, ChanTypeOK
<1>3. ClientTypeOK
  <2>1. 1 \in 1 .. MaxSegments + 1 /\ 0 \in 0 .. MaxSegments + 1
    BY PipelineAssumption
  <2> QED BY <2>1 DEF Init, ClientTypeOK
<1>4. WorkerTypeOK
  BY DEF Init, WorkerTypeOK, NoReport, Outcomes, TaskIds
<1> QED
  BY <1>1, <1>2, <1>3, <1>4 DEF TypeOK

\* A part of the state that a step leaves alone keeps its type.
LEMMA TypeFrame ==
  /\ AgentTypeOK /\ UNCHANGED agentVars => AgentTypeOK'
  /\ ClientTypeOK /\ UNCHANGED clientVars => ClientTypeOK'
  /\ ChanTypeOK /\ UNCHANGED chanVars => ChanTypeOK'
  /\ WorkerTypeOK /\ UNCHANGED workerVars => WorkerTypeOK'
<1>1. AgentTypeOK /\ UNCHANGED agentVars => AgentTypeOK'
  BY DEF AgentTypeOK, agentVars, scriptVars, wechatVars
<1>2. ClientTypeOK /\ UNCHANGED clientVars => ClientTypeOK'
  BY DEF ClientTypeOK, clientVars
<1>3. ChanTypeOK /\ UNCHANGED chanVars => ChanTypeOK'
  BY DEF ChanTypeOK, chanVars
<1>4. WorkerTypeOK /\ UNCHANGED workerVars => WorkerTypeOK'
  BY DEF WorkerTypeOK, workerVars
<1> QED BY <1>1, <1>2, <1>3, <1>4

-----------------------------------------------------------------------------
(* Clients *)

LEMMA TypeAdmit ==
  ASSUME TypeOK, NEW c \in HttpClients, NEW b \in HttpBodies, Admit(c, b)
  PROVE  TypeOK'
<1>1. c \in Clients /\ b \in Bodies
  BY DEF Clients, Bodies
<1>2. ClientTypeOK'
  <2>1. CASE Cards(b) = {} \/ MiniProgramReady
    <3>1. /\ cpc[c] = "idle" /\ cpc' = [cpc EXCEPT ![c] = "queueing"]
          /\ body' = [body EXCEPT ![c] = b] /\ UNCHANGED <<answer, seg, queued, collected>>
      BY <2>1 DEF Admit
    <3> QED BY <1>1, <3>1 DEF TypeOK, ClientTypeOK
  <2>2. CASE ~(Cards(b) = {} \/ MiniProgramReady)
    BY <1>1, <2>2 DEF TypeOK, ClientTypeOK, Admit
  <2> QED BY <2>1, <2>2
<1>3. UNCHANGED agentVars /\ UNCHANGED chanVars /\ UNCHANGED workerVars
  BY DEF Admit
<1> QED BY <1>2, <1>3, TypeFrame DEF TypeOK

LEMMA TypeReceive ==
  ASSUME TypeOK, NEW c \in WsClients, NEW b \in WsBodies, Receive(c, b)
  PROVE  TypeOK'
<1>1. c \in Clients /\ b \in Bodies
  BY DEF Clients, Bodies
<1>2. ClientTypeOK'
  BY <1>1 DEF TypeOK, ClientTypeOK, Receive
<1>3. UNCHANGED agentVars /\ UNCHANGED chanVars /\ UNCHANGED workerVars
  BY DEF Receive
<1> QED BY <1>2, <1>3, TypeFrame DEF TypeOK

\* A message is queued under a number no message of its client has had.
LEMMA EnqueueFacts ==
  ASSUME TypeOK, NEW c \in Clients, cpc[c] = "queueing",
         NEW type \in JobTypes, Enqueue(c, type)
  PROVE  /\ msgChan' \in Seq(Messages) /\ Len(msgChan') <= MsgCap
         /\ queued' \in [Clients -> 0 .. MaxSegments + 1]
         /\ queued'[c] = queued[c] + 1 /\ queued[c] + 1 <= seg[c]
         /\ \A d \in Clients \ {c} : queued'[d] = queued[d]
<1>1. /\ queued[c] \in Nat /\ queued[c] < seg[c]
      /\ seg[c] \in 1 .. MaxSegments + 1
  BY PipelineAssumption DEF TypeOK, ClientTypeOK
<1>2. queued[c] + 1 \in 1 .. MaxSegments + 1
  BY <1>1, PipelineAssumption
<1>3. [job |-> <<c, queued[c] + 1>>, type |-> type] \in Messages
  BY <1>2 DEF Messages, Jobs
<1>4. msgChan' \in Seq(Messages) /\ Len(msgChan') <= MsgCap
  BY <1>3, PipelineAssumption DEF TypeOK, ChanTypeOK, Enqueue
<1>5. /\ queued' \in [Clients -> 0 .. MaxSegments + 1]
      /\ queued'[c] = queued[c] + 1
      /\ \A d \in Clients \ {c} : queued'[d] = queued[d]
  BY <1>2, PipelineAssumption DEF TypeOK, ClientTypeOK, Enqueue
<1> QED BY <1>1, <1>4, <1>5

LEMMA TypeQueueSegment ==
  ASSUME TypeOK, NEW c \in Clients, QueueSegment(c)
  PROVE  TypeOK'
<1>1. /\ UNCHANGED <<body, collected, resultChan, buf2RespChan>>
      /\ UNCHANGED workerVars /\ UNCHANGED agentVars /\ cpc[c] = "queueing"
  BY DEF QueueSegment
<1>2. seg[c] + 1 \in 1 .. MaxSegments + 1
  <2>1. Len(body[c]) \in 0 .. MaxSegments /\ seg[c] \in 1 .. MaxSegments + 1
    BY BodyLength DEF TypeOK, ClientTypeOK
  <2> QED BY <2>1, PipelineAssumption DEF QueueSegment
<1>3. CASE \E s \in {"mini_program", "image"} :
             Enqueue(c, s) /\ seg' = [seg EXCEPT ![c] = seg[c] + 1] /\ UNCHANGED <<cpc, answer>>
  <2> PICK s \in {"mini_program", "image"} :
             Enqueue(c, s) /\ seg' = [seg EXCEPT ![c] = seg[c] + 1] /\ UNCHANGED <<cpc, answer>>
    BY <1>3
  <2>1. s \in JobTypes
    BY DEF JobTypes, MsgTypes
  <2>2. /\ msgChan' \in Seq(Messages) /\ Len(msgChan') <= MsgCap
        /\ queued' \in [Clients -> 0 .. MaxSegments + 1]
        /\ queued'[c] = queued[c] + 1 /\ queued[c] + 1 <= seg[c]
        /\ \A d \in Clients \ {c} : queued'[d] = queued[d]
    BY <1>1, <2>1, EnqueueFacts
  <2>3. ChanTypeOK'
    BY <1>1, <2>2 DEF TypeOK, ChanTypeOK
  <2>4. ClientTypeOK'
    <3>1. seg' \in [Clients -> 1 .. MaxSegments + 1]
      BY <1>2 DEF TypeOK, ClientTypeOK
    <3>2. ASSUME NEW d \in Clients, cpc'[d] \in {"idle", "queueing"}
          PROVE  queued'[d] < seg'[d]
      <4>1. CASE d = c
        BY <1>2, <2>2, <4>1, PipelineAssumption DEF TypeOK, ClientTypeOK
      <4>2. CASE d # c
        BY <2>2, <3>2, <4>2 DEF TypeOK, ClientTypeOK
      <4> QED BY <4>1, <4>2
    <3> QED BY <1>1, <2>2, <3>1, <3>2 DEF TypeOK, ClientTypeOK
  <2> QED BY <1>1, <2>3, <2>4, TypeFrame DEF TypeOK
<1>4. CASE /\ cpc' = [cpc EXCEPT ![c] = "done"]
           /\ answer' = [answer EXCEPT ![c] = "invalid"]
           /\ UNCHANGED <<seg, queued, msgChan>>
  <2>1. ClientTypeOK'
    BY <1>1, <1>4 DEF TypeOK, ClientTypeOK
  <2>2. UNCHANGED chanVars
    BY <1>1, <1>4 DEF chanVars
  <2> QED BY <1>1, <2>1, <2>2, TypeFrame DEF TypeOK
<1>5. CASE seg' = [seg EXCEPT ![c] = seg[c] + 1] /\ UNCHANGED <<cpc, answer, queued, msgChan>>
  <2>1. ClientTypeOK'
    <3>1. seg' \in [Clients -> 1 .. MaxSegments + 1]
      BY <1>2, <1>5 DEF TypeOK, ClientTypeOK
    <3>2. ASSUME NEW d \in Clients, cpc'[d] \in {"idle", "queueing"}
          PROVE  queued'[d] < seg'[d]
      <4>1. queued[d] < seg[d] /\ queued[d] \in Nat /\ seg[d] \in Nat
        BY <1>5, <3>2, PipelineAssumption DEF TypeOK, ClientTypeOK
      <4>2. seg'[d] = seg[d] \/ seg'[d] = seg[d] + 1
        BY <1>5 DEF TypeOK, ClientTypeOK
      <4> QED BY <1>5, <4>1, <4>2
    <3> QED BY <1>1, <1>5, <3>1, <3>2 DEF TypeOK, ClientTypeOK
  <2>2. UNCHANGED chanVars
    BY <1>1, <1>5 DEF chanVars
  <2> QED BY <1>1, <2>1, <2>2, TypeFrame DEF TypeOK
<1> QED BY <1>3, <1>4, <1>5 DEF QueueSegment

LEMMA TypeQueueText ==
  ASSUME TypeOK, NEW c \in Clients, QueueText(c)
  PROVE  TypeOK'
<1>1. /\ UNCHANGED <<body, seg, collected, answer, resultChan, buf2RespChan>>
      /\ UNCHANGED workerVars /\ UNCHANGED agentVars /\ cpc[c] = "queueing"
      /\ cpc' = [cpc EXCEPT ![c] = IF c \in HttpClients THEN "waiting" ELSE "done"]
  BY DEF QueueText
<1>2. /\ cpc' \in [Clients -> {"idle", "queueing", "waiting", "done"}]
      /\ \A d \in Clients : cpc'[d] \in {"idle", "queueing"} => d # c /\ cpc'[d] = cpc[d]
  BY <1>1 DEF TypeOK, ClientTypeOK
<1>3. CASE Enqueue(c, "text")
  <2>1. "text" \in JobTypes
    BY DEF JobTypes, MsgTypes
  <2>2. /\ msgChan' \in Seq(Messages) /\ Len(msgChan') <= MsgCap
        /\ queued' \in [Clients -> 0 .. MaxSegments + 1]
        /\ \A d \in Clients \ {c} : queued'[d] = queued[d]
    BY <1>1, <1>3, <2>1, EnqueueFacts
  <2>3. ChanTypeOK'
    BY <1>1, <2>2 DEF TypeOK, ChanTypeOK
  <2>4. ClientTypeOK'
    BY <1>1, <1>2, <2>2 DEF TypeOK, ClientTypeOK
  <2> QED BY <1>1, <2>3, <2>4, TypeFrame DEF TypeOK
<1>4. CASE UNCHANGED <<msgChan, queued>>
  <2>1. ClientTypeOK'
    BY <1>1, <1>2, <1>4 DEF TypeOK, ClientTypeOK
  <2>2. UNCHANGED chanVars
    BY <1>1, <1>4 DEF chanVars
  <2> QED BY <1>1, <2>1, <2>2, TypeFrame DEF TypeOK
<1> QED BY <1>3, <1>4 DEF QueueText

LEMMA TypeCollect ==
  ASSUME TypeOK, NEW c \in Clients, Collect(c)
  PROVE  TypeOK'
<1>1. /\ UNCHANGED <<body, seg, queued, msgChan, buf2RespChan>>
      /\ UNCHANGED workerVars /\ UNCHANGED agentVars
  BY DEF Collect
<1>2. /\ collected' = collected \/ (collected[c] < queued[c] /\ collected' = [collected EXCEPT ![c] = collected[c] + 1])
      /\ cpc' = cpc \/ cpc' = [cpc EXCEPT ![c] = "done"]
      /\ answer' = answer \/ \E a \in {"ok", "failed"} : answer' = [answer EXCEPT ![c] = a]
      /\ resultChan' = resultChan \/ resultChan' = [resultChan EXCEPT ![<<c, collected[c] + 1>>] = "empty"]
  BY DEF Collect
<1>3. collected' \in [Clients -> 0 .. MaxSegments + 1]
  <2>1. /\ collected[c] \in Nat /\ queued[c] \in Nat
        /\ queued[c] <= MaxSegments + 1 /\ MaxSegments \in Nat
    BY PipelineAssumption DEF TypeOK, ClientTypeOK
  <2>2. collected[c] < queued[c] => collected[c] + 1 \in 0 .. MaxSegments + 1
    BY <2>1
  <2> QED BY <1>2, <2>2 DEF TypeOK, ClientTypeOK
<1>4. ClientTypeOK'
  BY <1>1, <1>2, <1>3 DEF TypeOK, ClientTypeOK
<1>5. ChanTypeOK'
  BY <1>1, <1>2 DEF TypeOK, ChanTypeOK
<1> QED BY <1>1, <1>4, <1>5, TypeFrame DEF TypeOK

-----------------------------------------------------------------------------
(* The worker *)

LEMMA TypeTake == TypeOK /\ Take => TypeOK'
<1> SUFFICES ASSUME TypeOK, Take PROVE TypeOK'
  OBVIOUS
<1>1. /\ UNCHANGED <<report, timedOut, resultChan, buf2RespChan>>
      /\ UNCHANGED clientVars /\ UNCHANGED agentVars
  BY DEF Take
<1>2. Head(msgChan) \in Messages /\ Tail(msgChan) \in Seq(Messages)
      /\ Len(Tail(msgChan)) = Len(msgChan) - 1 /\ Len(msgChan) \in Nat
  BY DEF TypeOK, ChanTypeOK, Take
<1>3. ChanTypeOK'
  BY <1>1, <1>2, PipelineAssumption DEF TypeOK, ChanTypeOK, Take
<1>4. taskId + 1 \in Nat /\ taskId + 1 # 0
  BY DEF TypeOK, WorkerTypeOK
<1>5. WorkerTypeOK'
  BY <1>1, <1>2, <1>4 DEF TypeOK, WorkerTypeOK, Take
<1> QED BY <1>1, <1>3, <1>5, TypeFrame DEF TypeOK

LEMMA TypeRefuse == TypeOK /\ Refuse => TypeOK'
<1> SUFFICES ASSUME TypeOK, Refuse PROVE TypeOK'
  OBVIOUS
<1>1. UNCHANGED clientVars /\ UNCHANGED chanVars /\ UNCHANGED agentVars
  BY DEF Refuse
<1>2. WorkerTypeOK'
  BY DEF TypeOK, WorkerTypeOK, Refuse, Outcomes
<1> QED BY <1>1, <1>2, TypeFrame DEF TypeOK

LEMMA TypeCall ==
  ASSUME TypeOK, NEW o \in StartOutcomes, Call(o)
  PROVE  TypeOK'
<1>1. UNCHANGED clientVars /\ UNCHANGED chanVars
  BY DEF Call
<1>2. WorkerTypeOK'
  BY DEF TypeOK, WorkerTypeOK, Call
<1>3. currTaskId \in TaskIds /\ m.type \in MsgTypes
  BY DEF TypeOK, WorkerTypeOK, TaskIds, Call
<1>4. /\ call' = [task |-> currTaskId, kind |-> m.type, outcome |-> o]
      /\ taskIdGlobal' = currTaskId
      /\ sendMsgType' \in {sendMsgType, m.type}
  BY DEF Call, BeginSend, BeginClassic, BeginMedia
<1>5. started \subseteq started' /\ started' \in SUBSET TaskIds
  BY <1>3 DEF TypeOK, AgentTypeOK, Call, BeginSend
<1>6. AgentTypeOK'
  BY <1>3, <1>4, <1>5 DEF TypeOK, AgentTypeOK, Call, BeginSend, TaskIds
<1> QED BY <1>1, <1>2, <1>6, TypeFrame DEF TypeOK

LEMMA TypeCallReturns == TypeOK /\ CallReturns => TypeOK'
<1> SUFFICES ASSUME TypeOK, CallReturns PROVE TypeOK'
  OBVIOUS
<1>1. UNCHANGED clientVars /\ UNCHANGED chanVars
  BY DEF CallReturns
<1>2. WorkerTypeOK'
  BY DEF TypeOK, WorkerTypeOK, CallReturns, Outcomes
<1>3. call.task \in TaskIds
  BY DEF TypeOK, AgentTypeOK, CallReturns, EndSend, ScriptThreadFree, NoCall, TaskIds
<1>4. classicPendingTaskId' \in Nat /\ classicTimers' \in SUBSET TaskIds
  BY <1>3 DEF TypeOK, AgentTypeOK, CallReturns, EndSend, EndClassic, TaskIds
<1>5. AgentTypeOK'
  BY <1>4 DEF TypeOK, AgentTypeOK, CallReturns, EndSend, NoCall, MsgTypes,
    StartOutcomes, wechatVars
<1> QED BY <1>1, <1>2, <1>5, TypeFrame DEF TypeOK

LEMMA TypeTakeAck == TypeOK /\ TakeAck => TypeOK'
<1> SUFFICES ASSUME TypeOK, TakeAck PROVE TypeOK'
  OBVIOUS
<1>1. UNCHANGED <<resultChan, msgChan>> /\ UNCHANGED clientVars /\ UNCHANGED agentVars
  BY DEF TakeAck
<1>2. Head(buf2RespChan) \in Responses /\ Tail(buf2RespChan) \in Seq(Responses)
      /\ Len(Tail(buf2RespChan)) = Len(buf2RespChan) - 1 /\ Len(buf2RespChan) \in Nat
  BY DEF TypeOK, ChanTypeOK, TakeAck
<1>3. ChanTypeOK'
  BY <1>1, <1>2, PipelineAssumption DEF TypeOK, ChanTypeOK, TakeAck
<1>4. Head(buf2RespChan).task \in Nat
  BY <1>2 DEF Responses, TaskIds
<1>5. WorkerTypeOK'
  BY <1>4 DEF TypeOK, WorkerTypeOK, TakeAck, Outcomes
<1> QED BY <1>1, <1>3, <1>5, TypeFrame DEF TypeOK

LEMMA TypeTimeout == TypeOK /\ Timeout => TypeOK'
<1> SUFFICES ASSUME TypeOK, Timeout PROVE TypeOK'
  OBVIOUS
<1>1. UNCHANGED clientVars /\ UNCHANGED chanVars /\ UNCHANGED agentVars
  BY DEF Timeout
<1>2. WorkerTypeOK'
  BY DEF TypeOK, WorkerTypeOK, Timeout, Outcomes, TaskIds
<1> QED BY <1>1, <1>2, TypeFrame DEF TypeOK

LEMMA TypeCancel == TypeOK /\ Cancel => TypeOK'
<1> SUFFICES ASSUME TypeOK, Cancel PROVE TypeOK'
  OBVIOUS
<1>1. UNCHANGED clientVars /\ UNCHANGED chanVars
  BY DEF Cancel
<1>2. sendErr # "none" => WorkerTypeOK'
  BY DEF TypeOK, WorkerTypeOK, Cancel
<1>3. AgentTypeOK'
  <2>1. CASE CancelText(currTaskId)
    BY <2>1 DEF TypeOK, AgentTypeOK, CancelText, wechatVars
  <2>2. CASE CancelMiniProgram(currTaskId)
    BY <2>2 DEF TypeOK, AgentTypeOK, CancelMiniProgram, wechatVars
  <2> QED BY <2>1, <2>2 DEF Cancel
<1>4. sendErr # "none"
  BY DEF TypeOK, WorkerTypeOK, Cancel
<1> QED BY <1>1, <1>2, <1>3, <1>4, TypeFrame DEF TypeOK

LEMMA TypePublish == TypeOK /\ Publish => TypeOK'
<1> SUFFICES ASSUME TypeOK, Publish PROVE TypeOK'
  OBVIOUS
<1>1. UNCHANGED <<msgChan, buf2RespChan>> /\ UNCHANGED clientVars /\ UNCHANGED agentVars
  BY DEF Publish
<1>2. Verdict(sendErr) \in {"ok", "failed"}
  BY DEF Verdict
<1>3. ChanTypeOK'
  BY <1>1, <1>2 DEF TypeOK, ChanTypeOK, Publish
<1>4. [task |-> currTaskId, outcome |-> sendErr, ackOf |-> ackOf]
        \in [task : Nat, outcome : Outcomes \cup {"none"}, ackOf : Nat]
  BY DEF TypeOK, WorkerTypeOK
<1>5. WorkerTypeOK'
  BY <1>4 DEF TypeOK, WorkerTypeOK, Publish
<1> QED BY <1>1, <1>3, <1>5, TypeFrame DEF TypeOK

-----------------------------------------------------------------------------
(* The response goroutines, the agent's timers and WeChat *)

LEMMA TypeDeliver ==
  ASSUME TypeOK, NEW r \in buf2resp, Deliver(r)
  PROVE  TypeOK'
<1>1. UNCHANGED <<resultChan, msgChan>> /\ UNCHANGED workerVars /\ UNCHANGED clientVars
  BY DEF Deliver
<1>2. r \in Responses
  BY DEF TypeOK, AgentTypeOK
<1>3. ChanTypeOK'
  BY <1>1, <1>2, PipelineAssumption DEF TypeOK, ChanTypeOK, Deliver
<1>4. AgentTypeOK'
  BY DEF TypeOK, AgentTypeOK, Deliver, wechatVars
<1> QED BY <1>1, <1>3, <1>4, TypeFrame DEF TypeOK

LEMMA TypeClassicTimer ==
  ASSUME TypeOK, NEW t \in classicTimers, ClassicTimer(t)
  PROVE  TypeOK'
<1>1. UNCHANGED chanVars /\ UNCHANGED workerVars /\ UNCHANGED clientVars
  BY DEF ClassicTimer, goVars
<1>2. AgentTypeOK'
  BY DEF TypeOK, AgentTypeOK, ClassicTimer, TimerFires, wechatVars
<1> QED BY <1>1, <1>2, TypeFrame DEF TypeOK

LEMMA TypeReq2BufExit ==
  ASSUME AgentTypeOK, NEW t \in started, Req2BufExit(t)
  PROVE  AgentTypeOK'
<1>1. t \in TaskIds /\ t \in Nat
  BY DEF AgentTypeOK, TaskIds
<1>2. taskIdGlobal' = 0 \/ UNCHANGED taskIdGlobal
  BY DEF Req2BufExit
<1>3. /\ miniProgramPendingTaskId' = t \/ UNCHANGED miniProgramPendingTaskId
      /\ pendingBuf2RespTaskId' = t \/ UNCHANGED pendingBuf2RespTaskId
  BY DEF Req2BufExit
<1>4. encoded' \in SUBSET started /\ UNCHANGED started
  BY DEF AgentTypeOK, Req2BufExit
<1>5. UNCHANGED <<sendMsgType, classicPendingTaskId, classicTimers, call,
                  buf2resp, started, answered, accepted>>
  BY DEF Req2BufExit
<1>6. /\ taskIdGlobal \in Nat /\ miniProgramPendingTaskId \in Nat
      /\ pendingBuf2RespTaskId \in Nat
  BY DEF AgentTypeOK
<1>7. /\ taskIdGlobal' \in Nat /\ miniProgramPendingTaskId' \in Nat
      /\ pendingBuf2RespTaskId' \in Nat
  BY <1>1, <1>2, <1>3, <1>6
<1> QED BY <1>4, <1>5, <1>7, Zenon DEF AgentTypeOK

LEMMA TypeResponse ==
  ASSUME AgentTypeOK, NEW t \in started, NEW ok \in BOOLEAN, Response(t, ok)
  PROVE  AgentTypeOK'
<1>1. /\ answered' \in SUBSET started /\ accepted' \in SUBSET answered'
  BY DEF AgentTypeOK, Response, Answers
<1>2. \A k \in MsgTypes : [task |-> t, ok |-> ok, msgType |-> k] \in Responses
  BY DEF AgentTypeOK, Responses
<1>3. "text" \in MsgTypes /\ "mini_program" \in MsgTypes
  BY DEF MsgTypes
<1>4. buf2resp' \in SUBSET Responses
  BY <1>2, <1>3 DEF AgentTypeOK, Response
<1>5. /\ classicPendingTaskId' = 0 \/ UNCHANGED classicPendingTaskId
      /\ miniProgramPendingTaskId' = 0 \/ UNCHANGED miniProgramPendingTaskId
  BY DEF Response
<1>6. UNCHANGED <<taskIdGlobal, sendMsgType, classicTimers, pendingBuf2RespTaskId,
                  call, started, encoded>>
  BY DEF Response
<1>7. classicPendingTaskId \in Nat /\ miniProgramPendingTaskId \in Nat
  BY DEF AgentTypeOK
<1>8. classicPendingTaskId' \in Nat /\ miniProgramPendingTaskId' \in Nat
  BY <1>5, <1>7
<1> QED BY <1>1, <1>4, <1>6, <1>8, Zenon DEF AgentTypeOK

LEMMA TypeWeChat == TypeOK /\ WeChat => TypeOK'
<1> SUFFICES ASSUME TypeOK, WeChat PROVE TypeOK'
  OBVIOUS
<1>1. UNCHANGED chanVars /\ UNCHANGED workerVars /\ UNCHANGED clientVars
  BY DEF WeChat, goVars
<1>2. AgentTypeOK'
  BY TypeReq2BufExit, TypeResponse DEF TypeOK, WeChat
<1> QED BY <1>1, <1>2, TypeFrame DEF TypeOK

-----------------------------------------------------------------------------
LEMMA TypeNext == TypeOK /\ [Next]_vars => TypeOK'
<1> SUFFICES ASSUME TypeOK, [Next]_vars PROVE TypeOK'
  OBVIOUS
<1>1. CASE \E c \in HttpClients, b \in HttpBodies : Admit(c, b)
  BY <1>1, TypeAdmit
<1>2. CASE \E c \in WsClients, b \in WsBodies : Receive(c, b)
  BY <1>2, TypeReceive
<1>3. CASE \E c \in Clients : ClientStep(c)
  BY <1>3, TypeQueueSegment, TypeQueueText, TypeCollect DEF ClientStep
<1>4. CASE Worker
  BY <1>4, TypeTake, TypeRefuse, TypeCall, TypeCallReturns, TypeTakeAck,
    TypeTimeout, TypeCancel, TypePublish DEF Worker
<1>5. CASE \E r \in buf2resp : Deliver(r)
  BY <1>5, TypeDeliver
<1>6. CASE \E t \in classicTimers : ClassicTimer(t)
  BY <1>6, TypeClassicTimer
<1>7. CASE WeChat
  BY <1>7, TypeWeChat
<1>8. CASE UNCHANGED vars
  <2>1. /\ UNCHANGED chanVars /\ UNCHANGED workerVars
        /\ UNCHANGED clientVars /\ UNCHANGED agentVars
    BY <1>8 DEF vars
  <2> QED BY <2>1, TypeFrame DEF TypeOK
<1> QED BY <1>1, <1>2, <1>3, <1>4, <1>5, <1>6, <1>7, <1>8 DEF Next

(***************************************************************************)
(* Every variable keeps its type; in particular neither channel ever holds *)
(* more than its capacity, and a request queues at most one message per    *)
(* segment and one text (http.go:177, :266; worker.go:611).                *)
(***************************************************************************)
THEOREM TypeCorrect == Spec => []TypeOK
<1>1. Init => TypeOK
  BY TypeInit
<1>2. TypeOK /\ [Next]_vars => TypeOK'
  BY TypeNext
<1> QED BY <1>1, <1>2, PTL DEF Spec

-----------------------------------------------------------------------------
(***************************************************************************)
(* Before any timeout, what is told is the server's own answer.  IInv is   *)
(* SuccessEarnedBeforeAnyTimeout strengthened with what makes it           *)
(* inductive; timedOut only grows, so the conditional parts are assumed    *)
(* with timedOut = {} in the state before as well.                         *)
(***************************************************************************)

LEMMA NonEmpty ==
  ASSUME NEW S, NEW s \in Seq(S), s # <<>>
  PROVE  1 \in DOMAIN s /\ s[1] = Head(s) /\ Len(s) \in Nat \ {0}
OBVIOUS

LEMMA IInvInit == Init => IInv
<1> SUFFICES ASSUME Init PROVE IInv
  OBVIOUS
<1>1. TypeOK
  BY TypeInit
<1>2. TaskInv
  BY DEF Init, AgentInit, TaskInv
<1>e. buf2RespChan = <<>> /\ DOMAIN buf2RespChan = {} /\ Len(buf2RespChan) = 0
  BY DEF Init
<1>3. AcksAreTrue
  BY <1>e DEF Init, AgentInit, AcksAreTrue
<1>4. OnlyTheCurrentTask
  <2>1. buf2resp = {} /\ started = {} /\ ackOf = 0
    BY DEF Init, AgentInit
  <2> QED BY <1>e, <2>1 DEF OnlyTheCurrentTask
<1>5. SuccessEarnedBeforeAnyTimeout
  BY DEF Init, SuccessEarnedBeforeAnyTimeout, NoReport
<1> QED BY <1>1, <1>2, <1>3, <1>4, <1>5 DEF IInv

\* A step of a client, or none.
LEMMA IInvFrame ==
  ASSUME IInv, TypeOK', UNCHANGED workerVars, UNCHANGED agentVars, UNCHANGED buf2RespChan
  PROVE  IInv'
<1>1. /\ UNCHANGED <<wpc, currTaskId, sendErr, ackOf, taskId, report, timedOut>>
      /\ UNCHANGED <<call, buf2resp, started, answered, accepted>>
  BY DEF workerVars, agentVars, scriptVars, wechatVars
<1>2. TaskInv'
  BY <1>1 DEF IInv, TaskInv
<1>3. AcksAreTrue'
  BY <1>1 DEF IInv, AcksAreTrue, TrueAck
<1>4. OnlyTheCurrentTask => OnlyTheCurrentTask'
  BY <1>1 DEF OnlyTheCurrentTask, Submitted
<1>5. SuccessEarnedBeforeAnyTimeout'
  BY <1>1 DEF IInv, SuccessEarnedBeforeAnyTimeout
<1> QED BY <1>1, <1>2, <1>3, <1>4, <1>5 DEF IInv

\* Before any timeout nothing is in flight unless a task is being sent, and
\* nothing is in flight for a task not yet answered.
LEMMA NothingInFlight ==
  ASSUME IInv, timedOut = {}, ~Submitted \/ currTaskId \notin answered
  PROVE  buf2resp = {} /\ buf2RespChan = <<>>
<1>1. OnlyTheCurrentTask /\ AcksAreTrue
  BY DEF IInv
<1>2. buf2resp = {}
  BY <1>1 DEF OnlyTheCurrentTask, AcksAreTrue, TrueAck
<1>3. buf2RespChan = <<>>
  <2> SUFFICES ASSUME buf2RespChan # <<>> PROVE FALSE
    OBVIOUS
  <2>1. 1 \in DOMAIN buf2RespChan
    BY NonEmpty DEF IInv, TypeOK, ChanTypeOK
  <2> QED BY <1>1, <2>1 DEF OnlyTheCurrentTask, AcksAreTrue, TrueAck
<1> QED BY <1>2, <1>3

LEMMA IInvTake == IInv /\ TypeOK' /\ Take => IInv'
<1> SUFFICES ASSUME IInv, TypeOK', Take PROVE IInv'
  OBVIOUS
<1>1. /\ UNCHANGED <<report, timedOut, buf2RespChan, buf2resp, started, answered, accepted>>
      /\ wpc = "idle" /\ wpc' = "ready" /\ sendErr' = "none" /\ ackOf' = 0
      /\ taskId' = taskId + 1 /\ currTaskId' = taskId + 1
  BY DEF Take, agentVars, scriptVars, wechatVars
<1>2. TaskInv'
  <2>1. taskId \in Nat /\ \A t \in started : t \in Nat /\ t <= taskId
    BY DEF IInv, TypeOK, AgentTypeOK, WorkerTypeOK, TaskInv, TaskIds
  <2>2. /\ \A t \in started : t <= taskId + 1
        /\ taskId + 1 \notin started
    BY <2>1
  <2> QED BY <1>1, <2>2 DEF TaskInv
<1>3. AcksAreTrue'
  BY <1>1 DEF IInv, AcksAreTrue, TrueAck
<1>4. ASSUME timedOut = {} PROVE OnlyTheCurrentTask'
  <2>1. ~Submitted /\ \A t \in started : t \in answered
    BY <1>1, <1>4 DEF IInv, OnlyTheCurrentTask, Submitted
  <2>2. buf2resp = {} /\ buf2RespChan = <<>>
    BY <1>4, <2>1, NothingInFlight
  <2> QED BY <1>1, <2>1, <2>2 DEF OnlyTheCurrentTask
<1>5. SuccessEarnedBeforeAnyTimeout'
  BY <1>1 DEF IInv, SuccessEarnedBeforeAnyTimeout
<1> QED BY <1>1, <1>2, <1>3, <1>4, <1>5 DEF IInv

LEMMA IInvRefuse == IInv /\ TypeOK' /\ Refuse => IInv'
<1> SUFFICES ASSUME IInv, TypeOK', Refuse PROVE IInv'
  OBVIOUS
<1>1. /\ UNCHANGED <<currTaskId, ackOf, taskId, report, timedOut, buf2RespChan>>
      /\ UNCHANGED <<buf2resp, started, answered, accepted>>
      /\ wpc = "ready" /\ wpc' = "publishing" /\ sendErr' = "refused"
  BY DEF Refuse, agentVars, scriptVars, wechatVars, chanVars
<1>2. TaskInv'
  BY <1>1 DEF IInv, TaskInv
<1>3. AcksAreTrue'
  BY <1>1 DEF IInv, AcksAreTrue, TrueAck
<1>4. OnlyTheCurrentTask => OnlyTheCurrentTask'
  BY <1>1 DEF OnlyTheCurrentTask, Submitted
<1>5. SuccessEarnedBeforeAnyTimeout'
  BY <1>1 DEF IInv, SuccessEarnedBeforeAnyTimeout
<1> QED BY <1>1, <1>2, <1>3, <1>4, <1>5 DEF IInv

LEMMA IInvCall ==
  ASSUME IInv, TypeOK', NEW o \in StartOutcomes, Call(o)
  PROVE  IInv'
<1>1. /\ UNCHANGED <<currTaskId, sendErr, ackOf, taskId, report, timedOut, buf2RespChan>>
      /\ UNCHANGED <<buf2resp, answered, accepted>>
      /\ wpc = "ready" /\ wpc' = "calling"
      /\ call' = [task |-> currTaskId, kind |-> m.type, outcome |-> o]
      /\ started' = IF o = "queued" THEN started \cup {currTaskId} ELSE started
  BY DEF Call, BeginSend, BeginClassic, BeginMedia, chanVars
<1>2. TaskInv'
  <2>1. /\ currTaskId = taskId /\ taskId \in Nat /\ currTaskId \notin started
        /\ \A t \in started : t <= taskId
    BY <1>1 DEF IInv, TaskInv, TypeOK, WorkerTypeOK
  <2>2. \A t \in started' : t <= taskId'
    BY <1>1, <2>1
  <2>3. call'.task = currTaskId' /\ (call'.outcome # "queued" => currTaskId' \notin started')
    BY <1>1, <2>1
  <2> QED BY <1>1, <2>1, <2>2, <2>3 DEF TaskInv
<1>3. AcksAreTrue'
  BY <1>1 DEF IInv, AcksAreTrue, TrueAck
<1>4. ASSUME timedOut = {} PROVE OnlyTheCurrentTask'
  <2>1. ~Submitted /\ (\A t \in started : t \in answered) /\ ackOf \in {0, currTaskId}
    BY <1>1, <1>4 DEF IInv, OnlyTheCurrentTask, Submitted
  <2>2. buf2resp = {} /\ buf2RespChan = <<>>
    BY <1>4, <2>1, NothingInFlight
  <2> QED BY <1>1, <2>1, <2>2 DEF OnlyTheCurrentTask, Submitted
<1>5. SuccessEarnedBeforeAnyTimeout'
  BY <1>1 DEF IInv, SuccessEarnedBeforeAnyTimeout
<1> QED BY <1>1, <1>2, <1>3, <1>4, <1>5 DEF IInv

LEMMA IInvCallReturns == IInv /\ TypeOK' /\ CallReturns => IInv'
<1> SUFFICES ASSUME IInv, TypeOK', CallReturns PROVE IInv'
  OBVIOUS
<1>1. /\ UNCHANGED <<currTaskId, ackOf, taskId, report, timedOut, buf2RespChan>>
      /\ UNCHANGED <<buf2resp, started, answered, accepted>>
      /\ wpc = "calling" /\ wpc' \in {"publishing", "awaiting"}
      /\ wpc' = "publishing" => call.outcome = "faulted"
      /\ sendErr' = "refused" \/ UNCHANGED sendErr
  BY DEF CallReturns, EndSend, wechatVars, chanVars
<1>2. TaskInv'
  BY <1>1 DEF IInv, TaskInv
<1>3. AcksAreTrue'
  BY <1>1 DEF IInv, AcksAreTrue, TrueAck
<1>4. ASSUME timedOut = {} PROVE OnlyTheCurrentTask'
  <2>1. CASE wpc' = "awaiting"
    BY <1>1, <1>4, <2>1 DEF IInv, OnlyTheCurrentTask, Submitted
  <2>2. CASE wpc' = "publishing"
    <3>1. currTaskId \notin started
      BY <1>1, <2>2 DEF IInv, TaskInv
    <3>2. currTaskId \notin answered
      BY <3>1 DEF IInv, TypeOK, AgentTypeOK
    <3>3. buf2resp = {} /\ buf2RespChan = <<>>
      BY <1>4, <3>2, NothingInFlight
    <3>4. (\A t \in started : t \in answered) /\ ackOf \in {0, currTaskId}
      BY <1>4, <3>1 DEF IInv, OnlyTheCurrentTask
    <3> QED BY <1>1, <3>3, <3>4 DEF OnlyTheCurrentTask
  <2> QED BY <1>1, <2>1, <2>2
<1>5. SuccessEarnedBeforeAnyTimeout'
  BY <1>1 DEF IInv, SuccessEarnedBeforeAnyTimeout
<1> QED BY <1>1, <1>2, <1>3, <1>4, <1>5 DEF IInv

\* The one answer in flight is the current task's, and it is the last.
LEMMA IInvTakeAck == IInv /\ TypeOK' /\ TakeAck => IInv'
<1> SUFFICES ASSUME IInv, TypeOK', TakeAck PROVE IInv'
  OBVIOUS
<1> DEFINE resp == Head(buf2RespChan)
<1>1. /\ UNCHANGED <<currTaskId, taskId, report, timedOut>>
      /\ UNCHANGED <<call, buf2resp, started, answered, accepted>>
      /\ wpc = "awaiting" /\ wpc' = "publishing"
      /\ sendErr' = IF resp.ok THEN "ok" ELSE "rejected"
      /\ ackOf' = resp.task
      /\ buf2RespChan # <<>> /\ buf2RespChan' = Tail(buf2RespChan)
  BY DEF TakeAck, agentVars, scriptVars, wechatVars
<1>2. /\ buf2RespChan \in Seq(Responses) /\ 1 \in DOMAIN buf2RespChan
      /\ buf2RespChan[1] = resp
  BY <1>1, NonEmpty DEF IInv, TypeOK, ChanTypeOK
<1>3. TrueAck(resp)
  BY <1>2 DEF IInv, AcksAreTrue
<1>4. TaskInv'
  BY <1>1 DEF IInv, TaskInv
<1>5. AcksAreTrue'
  <2>1. \A r \in buf2resp' : TrueAck(r)'
    BY <1>1 DEF IInv, AcksAreTrue, TrueAck
  <2>2. ASSUME NEW i \in DOMAIN buf2RespChan'
        PROVE  TrueAck(buf2RespChan[i])'
    <3>1. /\ i + 1 \in DOMAIN buf2RespChan
          /\ buf2RespChan'[i] = buf2RespChan[i + 1]
      BY <1>1, <1>2, <2>2
    <3> QED BY <1>1, <3>1 DEF IInv, AcksAreTrue, TrueAck
  <2>3. sendErr' = "ok" => ackOf' \in accepted'
    BY <1>1, <1>3 DEF TrueAck
  <2> QED BY <2>1, <2>2, <2>3 DEF AcksAreTrue
<1>6. ASSUME timedOut = {} PROVE OnlyTheCurrentTask'
  <2>1. OnlyTheCurrentTask
    BY <1>6 DEF IInv
  <2>2. resp.task = currTaskId
    BY <1>2, <2>1 DEF OnlyTheCurrentTask
  <2>3. \A t \in started : t \in answered
    BY <1>3, <2>1, <2>2 DEF OnlyTheCurrentTask, TrueAck
  <2>4. buf2resp = {}
    BY <1>1, <2>1 DEF OnlyTheCurrentTask
  <2>5. Len(buf2RespChan') = 0 /\ DOMAIN buf2RespChan' = {}
    <3>1. Len(buf2RespChan) <= 1
      BY <2>1 DEF OnlyTheCurrentTask
    <3>2. /\ Tail(buf2RespChan) \in Seq(Responses)
          /\ Len(Tail(buf2RespChan)) = Len(buf2RespChan) - 1
          /\ Len(buf2RespChan) \in Nat \ {0}
      BY <1>1, <1>2
    <3>3. Len(Tail(buf2RespChan)) = 0
      BY <3>1, <3>2
    <3> QED BY <1>1, <3>2, <3>3
  <2> QED BY <1>1, <2>2, <2>3, <2>4, <2>5 DEF OnlyTheCurrentTask
<1>7. SuccessEarnedBeforeAnyTimeout'
  BY <1>1 DEF IInv, SuccessEarnedBeforeAnyTimeout
<1> QED BY <1>1, <1>4, <1>5, <1>6, <1>7 DEF IInv

\* From here on nothing more is promised.
LEMMA IInvTimeout == IInv /\ TypeOK' /\ Timeout => IInv'
<1> SUFFICES ASSUME IInv, TypeOK', Timeout PROVE IInv'
  OBVIOUS
<1>1. /\ UNCHANGED <<currTaskId, ackOf, taskId, report, buf2RespChan>>
      /\ UNCHANGED <<call, buf2resp, started, answered, accepted>>
      /\ wpc = "awaiting" /\ wpc' = "cancelling" /\ sendErr' = "timeout"
      /\ timedOut' # {}
  BY DEF Timeout, agentVars, scriptVars, wechatVars, chanVars
<1>2. TaskInv'
  BY <1>1 DEF IInv, TaskInv
<1>3. AcksAreTrue'
  BY <1>1 DEF IInv, AcksAreTrue, TrueAck
<1> QED BY <1>1, <1>2, <1>3 DEF IInv, SuccessEarnedBeforeAnyTimeout

LEMMA IInvCancel == IInv /\ TypeOK' /\ Cancel => IInv'
<1> SUFFICES ASSUME IInv, TypeOK', Cancel PROVE IInv'
  OBVIOUS
<1>1. /\ UNCHANGED <<currTaskId, sendErr, ackOf, taskId, report, timedOut, buf2RespChan>>
      /\ UNCHANGED <<call, buf2resp, started, answered, accepted>>
      /\ wpc = "cancelling" /\ wpc' = "publishing"
  BY DEF Cancel, CancelText, CancelMiniProgram, wechatVars, chanVars
<1>2. TaskInv'
  BY <1>1 DEF IInv, TaskInv
<1>3. AcksAreTrue'
  BY <1>1 DEF IInv, AcksAreTrue, TrueAck
<1>4. OnlyTheCurrentTask => OnlyTheCurrentTask'
  BY <1>1 DEF OnlyTheCurrentTask, Submitted
<1>5. SuccessEarnedBeforeAnyTimeout'
  BY <1>1 DEF IInv, SuccessEarnedBeforeAnyTimeout
<1> QED BY <1>1, <1>2, <1>3, <1>4, <1>5 DEF IInv

\* The report: an outcome "ok" has an answer behind it, and it is this task's.
LEMMA IInvPublish == IInv /\ TypeOK' /\ Publish => IInv'
<1> SUFFICES ASSUME IInv, TypeOK', Publish PROVE IInv'
  OBVIOUS
<1> DEFINE rep == [task |-> currTaskId, outcome |-> sendErr, ackOf |-> ackOf]
<1>1. /\ UNCHANGED <<currTaskId, sendErr, ackOf, taskId, timedOut, buf2RespChan>>
      /\ UNCHANGED <<call, buf2resp, started, answered, accepted>>
      /\ wpc = "publishing" /\ wpc' = "idle"
      /\ report' = [report EXCEPT ![m.job] = rep]
  BY DEF Publish, agentVars, scriptVars, wechatVars
<1>2. TaskInv'
  BY <1>1 DEF IInv, TaskInv
<1>3. AcksAreTrue'
  BY <1>1 DEF IInv, AcksAreTrue, TrueAck
<1>4. OnlyTheCurrentTask => OnlyTheCurrentTask'
  BY <1>1 DEF OnlyTheCurrentTask, Submitted
<1>5. SuccessEarnedBeforeAnyTimeout'
  <2> SUFFICES ASSUME timedOut = {}, NEW j \in Jobs
               PROVE  /\ report'[j].outcome = "ok" => report'[j].task \in accepted
                      /\ report'[j].ackOf \in {0, report'[j].task}
    BY <1>1 DEF SuccessEarnedBeforeAnyTimeout
  <2>1. CASE report'[j] = report[j]
    BY <2>1 DEF IInv, SuccessEarnedBeforeAnyTimeout
  <2>2. CASE report'[j] = rep
    <3>1. ackOf \in {0, currTaskId} /\ (sendErr = "ok" => ackOf \in accepted)
      BY DEF IInv, OnlyTheCurrentTask, AcksAreTrue
    <3>2. 0 \notin accepted
      BY DEF IInv, TypeOK, AgentTypeOK, TaskIds
    <3> QED BY <2>2, <3>1, <3>2
  <2>3. report'[j] = report[j] \/ report'[j] = rep
    BY <1>1 DEF IInv, TypeOK, WorkerTypeOK
  <2> QED BY <2>1, <2>2, <2>3
<1> QED BY <1>1, <1>2, <1>3, <1>4, <1>5 DEF IInv

LEMMA IInvDeliver ==
  ASSUME IInv, TypeOK', NEW r \in buf2resp, Deliver(r)
  PROVE  IInv'
<1>1. /\ UNCHANGED <<wpc, currTaskId, sendErr, ackOf, taskId, report, timedOut>>
      /\ UNCHANGED <<call, started, answered, accepted>>
      /\ buf2resp' = buf2resp \ {r} /\ buf2RespChan' = Append(buf2RespChan, r)
  BY DEF Deliver, workerVars, wechatVars
<1>2. r \in Responses /\ buf2RespChan \in Seq(Responses)
  BY DEF IInv, TypeOK, AgentTypeOK, ChanTypeOK
<1>3. ASSUME NEW i \in DOMAIN buf2RespChan'
      PROVE  \/ buf2RespChan'[i] = r
             \/ i \in DOMAIN buf2RespChan /\ buf2RespChan'[i] = buf2RespChan[i]
  BY <1>1, <1>2
<1>4. TaskInv'
  BY <1>1 DEF IInv, TaskInv
<1>5. AcksAreTrue'
  BY <1>1, <1>3 DEF IInv, AcksAreTrue, TrueAck
<1>6. ASSUME timedOut = {} PROVE OnlyTheCurrentTask'
  <2>1. OnlyTheCurrentTask
    BY <1>6 DEF IInv
  <2>2. buf2RespChan = <<>> /\ buf2resp' = {}
    BY <1>1, <2>1 DEF OnlyTheCurrentTask
  <2>3. Len(buf2RespChan') = 1
    BY <1>1, <1>2, <2>2
  <2> QED BY <1>1, <1>3, <2>1, <2>2, <2>3 DEF OnlyTheCurrentTask, Submitted
<1>7. SuccessEarnedBeforeAnyTimeout'
  BY <1>1 DEF IInv, SuccessEarnedBeforeAnyTimeout
<1> QED BY <1>1, <1>4, <1>5, <1>6, <1>7 DEF IInv

\* Steps of the agent that touch only its slots.
LEMMA IInvSlots ==
  ASSUME IInv, TypeOK', UNCHANGED goVars,
         UNCHANGED <<call, buf2resp, started, answered, accepted>>
  PROVE  IInv'
<1>1. UNCHANGED <<wpc, currTaskId, sendErr, ackOf, taskId, report, timedOut, buf2RespChan>>
  BY DEF goVars, workerVars, chanVars
<1>2. TaskInv'
  BY <1>1 DEF IInv, TaskInv
<1>3. AcksAreTrue'
  BY <1>1 DEF IInv, AcksAreTrue, TrueAck
<1>4. OnlyTheCurrentTask => OnlyTheCurrentTask'
  BY <1>1 DEF OnlyTheCurrentTask, Submitted
<1>5. SuccessEarnedBeforeAnyTimeout'
  BY <1>1 DEF IInv, SuccessEarnedBeforeAnyTimeout
<1> QED BY <1>1, <1>2, <1>3, <1>4, <1>5 DEF IInv

\* A response: before any timeout it is the current task's first and only one.
LEMMA IInvResponse ==
  ASSUME IInv, TypeOK', UNCHANGED goVars,
         NEW t \in started, NEW ok \in BOOLEAN, Response(t, ok)
  PROVE  IInv'
<1>1. UNCHANGED <<wpc, currTaskId, sendErr, ackOf, taskId, report, timedOut, buf2RespChan>>
  BY DEF goVars, workerVars, chanVars
<1>2. /\ UNCHANGED <<call, started>> /\ t \notin answered
      /\ answered' = answered \cup {t}
      /\ accepted' = IF ok THEN accepted \cup {t} ELSE accepted
  BY DEF Response, Answers
<1>3. UNCHANGED buf2resp \/ \E k \in MsgTypes :
        buf2resp' = buf2resp \cup {[task |-> t, ok |-> ok, msgType |-> k]}
  BY DEF Response, MsgTypes
<1>4. TaskInv'
  BY <1>1, <1>2 DEF IInv, TaskInv
<1>5. AcksAreTrue'
  <2>1. \A r : TrueAck(r) => TrueAck(r)'
    BY <1>2 DEF TrueAck
  <2>2. \A k : TrueAck([task |-> t, ok |-> ok, msgType |-> k])'
    BY <1>2 DEF TrueAck
  <2>3. \A r \in buf2resp' : TrueAck(r)'
    BY <1>3, <2>1, <2>2 DEF IInv, AcksAreTrue
  <2>4. \A i \in DOMAIN buf2RespChan' : TrueAck(buf2RespChan[i])'
    BY <1>1, <2>1 DEF IInv, AcksAreTrue, TrueAck
  <2>5. sendErr' = "ok" => ackOf' \in accepted'
    BY <1>1, <1>2 DEF IInv, AcksAreTrue
  <2> QED BY <2>3, <2>4, <2>5 DEF AcksAreTrue
<1>6. ASSUME timedOut = {} PROVE OnlyTheCurrentTask'
  <2>1. OnlyTheCurrentTask /\ Submitted /\ t = currTaskId
    BY <1>2, <1>6 DEF IInv, OnlyTheCurrentTask
  <2>2. buf2resp = {} /\ buf2RespChan = <<>>
    BY <1>2, <1>6, <2>1, NothingInFlight
  <2>3. \A u \in started' : u \in answered'
    BY <1>2, <2>1 DEF OnlyTheCurrentTask
  <2>4. \A r \in buf2resp' : r.task = currTaskId
    BY <1>3, <2>1, <2>2
  <2>5. \A r, s \in buf2resp' : r = s
    BY <1>3, <2>2
  <2> QED BY <1>1, <2>1, <2>2, <2>3, <2>4, <2>5 DEF OnlyTheCurrentTask, Submitted
<1>7. SuccessEarnedBeforeAnyTimeout'
  BY <1>1, <1>2 DEF IInv, SuccessEarnedBeforeAnyTimeout
<1> QED BY <1>1, <1>4, <1>5, <1>6, <1>7 DEF IInv

LEMMA IInvNext == IInv /\ [Next]_vars => IInv'
<1> SUFFICES ASSUME IInv, [Next]_vars PROVE IInv'
  OBVIOUS
<1>t. TypeOK'
  BY TypeNext DEF IInv
<1>1. CASE \E c \in HttpClients, b \in HttpBodies : Admit(c, b)
  BY <1>1, <1>t, IInvFrame DEF Admit, chanVars
<1>2. CASE \E c \in WsClients, b \in WsBodies : Receive(c, b)
  BY <1>2, <1>t, IInvFrame DEF Receive, chanVars
<1>3. CASE \E c \in Clients : ClientStep(c)
  BY <1>3, <1>t, IInvFrame DEF ClientStep, QueueSegment, QueueText, Collect
<1>4. CASE Worker
  BY <1>4, <1>t, IInvTake, IInvRefuse, IInvCall, IInvCallReturns, IInvTakeAck,
    IInvTimeout, IInvCancel, IInvPublish DEF Worker
<1>5. CASE \E r \in buf2resp : Deliver(r)
  BY <1>5, <1>t, IInvDeliver
<1>6. CASE \E t \in classicTimers : ClassicTimer(t)
  BY <1>6, <1>t, IInvSlots DEF ClassicTimer, TimerFires, wechatVars
<1>7. CASE WeChat
  <2>1. UNCHANGED goVars
    BY <1>7 DEF WeChat
  <2>2. CASE \E t \in started : Req2BufExit(t)
    BY <1>t, <2>1, <2>2, IInvSlots DEF Req2BufExit
  <2>3. CASE \E t \in started : \E ok \in BOOLEAN : Response(t, ok)
    BY <1>t, <2>1, <2>3, IInvResponse
  <2> QED BY <1>7, <2>2, <2>3 DEF WeChat
<1>8. CASE UNCHANGED vars
  BY <1>8, <1>t, IInvFrame DEF vars, chanVars
<1> QED BY <1>1, <1>2, <1>3, <1>4, <1>5, <1>6, <1>7, <1>8 DEF Next

(***************************************************************************)
(* However many clients and messages there are, as long as no send has     *)
(* timed out a message reported "ok" is one the server took, and every     *)
(* report rests on the answer to that very message (worker.go:364), though *)
(* the channel between them carries no task id.                            *)
(***************************************************************************)
THEOREM SuccessEarned == Spec => []SuccessEarnedBeforeAnyTimeout
<1>1. Init => IInv
  BY IInvInit
<1>2. IInv /\ [Next]_vars => IInv'
  BY IInvNext
<1>3. IInv => SuccessEarnedBeforeAnyTimeout
  BY DEF IInv
<1> QED BY <1>1, <1>2, <1>3, PTL DEF Spec

-----------------------------------------------------------------------------
(* The agent's two slots *)

LEMMA OwnerClears == TypeOK /\ [Next]_vars => OnlyOwnerClears
<1> SUFFICES ASSUME TypeOK, [Next]_vars PROVE OnlyOwnerClears
  OBVIOUS
<1>0. ASSUME UNCHANGED <<classicPendingTaskId, miniProgramPendingTaskId>>
      PROVE  OnlyOwnerClears
  BY <1>0 DEF OnlyOwnerClears
<1>1. CASE \E c \in HttpClients, b \in HttpBodies : Admit(c, b)
  BY <1>0, <1>1 DEF Admit, agentVars, scriptVars
<1>2. CASE \E c \in WsClients, b \in WsBodies : Receive(c, b)
  BY <1>0, <1>2 DEF Receive, agentVars, scriptVars
<1>3. CASE \E c \in Clients : ClientStep(c)
  BY <1>0, <1>3 DEF ClientStep, QueueSegment, QueueText, Collect, agentVars, scriptVars
<1>4. CASE Worker
  <2>1. CASE Take \/ Refuse \/ TakeAck \/ Timeout \/ Publish
    BY <1>0, <2>1 DEF Take, Refuse, TakeAck, Timeout, Publish, agentVars, scriptVars
  <2>2. CASE \E o \in StartOutcomes : Call(o)
    BY <1>0, <2>2 DEF Call, BeginSend
  <2>3. CASE CallReturns
    <3>1. call.task # 0
      BY <2>3 DEF TypeOK, AgentTypeOK, TaskIds, CallReturns, EndSend, ScriptThreadFree
    <3>2. classicPendingTaskId' \in {classicPendingTaskId, call.task}
          /\ UNCHANGED miniProgramPendingTaskId
      BY <2>3 DEF CallReturns, EndSend, EndClassic
    <3> QED BY <3>1, <3>2 DEF OnlyOwnerClears
  <2>4. CASE Cancel
    <3>1. /\ wpc = "cancelling" /\ UNCHANGED classicPendingTaskId
          /\ miniProgramPendingTaskId # currTaskId => UNCHANGED miniProgramPendingTaskId
      BY <2>4 DEF Cancel, CancelText, CancelMiniProgram
    <3> QED BY <3>1 DEF OnlyOwnerClears
  <2> QED BY <1>4, <2>1, <2>2, <2>3, <2>4 DEF Worker
<1>5. CASE \E r \in buf2resp : Deliver(r)
  BY <1>0, <1>5 DEF Deliver
<1>6. CASE \E t \in classicTimers : ClassicTimer(t)
  BY <1>6 DEF ClassicTimer, TimerFires, OnlyOwnerClears
<1>7. CASE WeChat
  <2>1. CASE \E t \in started : Req2BufExit(t)
    <3> PICK t \in started : Req2BufExit(t)
      BY <2>1
    <3>1. t # 0
      BY DEF TypeOK, AgentTypeOK, TaskIds
    <3>2. UNCHANGED classicPendingTaskId /\ miniProgramPendingTaskId' \in {t, miniProgramPendingTaskId}
      BY DEF Req2BufExit
    <3> QED BY <3>1, <3>2 DEF OnlyOwnerClears
  <2>2. CASE \E t \in started, ok \in BOOLEAN : Response(t, ok)
    BY <2>2 DEF Response, Answers, OnlyOwnerClears
  <2> QED BY <1>7, <2>1, <2>2 DEF WeChat
<1>8. CASE UNCHANGED vars
  BY <1>0, <1>8 DEF vars, agentVars, scriptVars
<1> QED BY <1>1, <1>2, <1>3, <1>4, <1>5, <1>6, <1>7, <1>8 DEF Next

(***************************************************************************)
(* A wait for a response is ended only by that response, by that task's    *)
(* own timer or by the cancel of that very task (script.js:1446, :778):    *)
(* an older task's timer or cancel never unregisters a newer task.         *)
(***************************************************************************)
THEOREM SlotsOwned == Spec => SlotsClearedByOwner
<1>1. TypeOK /\ [Next]_vars => OnlyOwnerClears
  BY OwnerClears
<1> QED BY <1>1, TypeCorrect, PTL DEF Spec, SlotsClearedByOwner

-----------------------------------------------------------------------------
(* Answers, timeouts or not: no answer is counted twice, and those nobody    *)
(* waits for are as few as the timeouts.  Both count answers by the task they *)
(* answer, although buf2RespChan itself makes no difference between tasks.    *)
(* The two inductive invariants: *)

OnItsWay(t) ==
  \/ \E r \in buf2resp : r.task = t
  \/ \E i \in DOMAIN buf2RespChan : buf2RespChan[i].task = t

\* At most one answer of each task is on its way.
OneAckEach ==
  /\ \A r, s \in buf2resp : r.task = s.task => r = s
  /\ \A i, k \in DOMAIN buf2RespChan :
       buf2RespChan[i].task = buf2RespChan[k].task => i = k
  /\ \A r \in buf2resp, i \in DOMAIN buf2RespChan : r.task # buf2RespChan[i].task

\* An answer the worker has used is not on its way any more, and the one it
\* holds is not one it has reported.
Used(t) == t \in answered /\ ~OnItsWay(t)

UsedIsGone ==
  /\ ackOf # 0 => Used(ackOf)
  /\ \A j \in Jobs : report[j].ackOf # 0 =>
       /\ Used(report[j].ackOf)
       /\ wpc # "idle" => report[j].ackOf # ackOf

AckInv == OneAckEach /\ UsedIsGone /\ EachAckCreditedOnce

\* Answers on their way, and those WeChat may still give.
Unanswered == started \ answered
Sending == Submitted /\ currTaskId \in started

CountInv ==
  /\ IsFiniteSet(buf2resp) /\ IsFiniteSet(started) /\ IsFiniteSet(timedOut)
  /\ \A t \in timedOut : t <= taskId
  /\ wpc \in {"ready", "calling", "awaiting"} => currTaskId \notin timedOut
  /\ Cardinality(buf2resp) + Len(buf2RespChan) + Cardinality(Unanswered)
       <= Cardinality(timedOut) + (IF Sending THEN 1 ELSE 0)

-----------------------------------------------------------------------------
(* No answer is credited twice *)

LEMMA AckInit == Init => AckInv
<1> SUFFICES ASSUME Init PROVE AckInv
  OBVIOUS
<1>1. buf2resp = {} /\ buf2RespChan = <<>> /\ ackOf = 0
  BY DEF Init, AgentInit
<1>2. \A j \in Jobs : report[j].ackOf = 0
  BY DEF Init, NoReport
<1>3. DOMAIN buf2RespChan = {}
  BY <1>1
<1> QED BY <1>1, <1>2, <1>3 DEF AckInv, OneAckEach, UsedIsGone, EachAckCreditedOnce

\* A step that moves no answer.
LEMMA AckFrame ==
  ASSUME AckInv, UNCHANGED <<ackOf, report, buf2resp, buf2RespChan>>,
         answered \subseteq answered', wpc' # "idle" => wpc # "idle"
  PROVE  AckInv'
<1>1. \A t : Used(t) => Used(t)'
  BY DEF Used, OnItsWay
<1>2. UsedIsGone'
  BY <1>1 DEF AckInv, UsedIsGone
<1> QED BY <1>2 DEF AckInv, OneAckEach, EachAckCreditedOnce

LEMMA AckTake == AckInv /\ Take => AckInv'
<1> SUFFICES ASSUME AckInv, Take PROVE AckInv'
  OBVIOUS
<1>1. UNCHANGED <<report, buf2resp, buf2RespChan, answered>> /\ ackOf' = 0
  BY DEF Take, agentVars, scriptVars, wechatVars
<1>2. \A t : Used(t) => Used(t)'
  BY <1>1 DEF Used, OnItsWay
<1>3. UsedIsGone'
  BY <1>1, <1>2 DEF AckInv, UsedIsGone
<1> QED BY <1>1, <1>3 DEF AckInv, OneAckEach, EachAckCreditedOnce

\* The worker takes the first answer; the same task has no other.
LEMMA AckTakeAck == IInv /\ AckInv /\ TakeAck => AckInv'
<1> SUFFICES ASSUME IInv, AckInv, TakeAck PROVE AckInv'
  OBVIOUS
<1> PICK t : t = Head(buf2RespChan).task
  OBVIOUS
<1>1. /\ UNCHANGED <<report, buf2resp, answered>>
      /\ wpc = "awaiting" /\ ackOf' = t
      /\ buf2RespChan # <<>> /\ buf2RespChan' = Tail(buf2RespChan)
  BY DEF TakeAck, agentVars, scriptVars, wechatVars
<1>2. /\ buf2RespChan \in Seq(Responses) /\ 1 \in DOMAIN buf2RespChan
      /\ buf2RespChan[1].task = t /\ t \in answered
  <2>1. buf2RespChan \in Seq(Responses)
    BY DEF IInv, TypeOK, ChanTypeOK
  <2>2. 1 \in DOMAIN buf2RespChan /\ buf2RespChan[1] = Head(buf2RespChan)
    BY <1>1, <2>1, NonEmpty
  <2> QED BY <2>1, <2>2 DEF IInv, AcksAreTrue, TrueAck
<1>3. ASSUME NEW i \in DOMAIN buf2RespChan'
      PROVE  /\ i \in Nat /\ i + 1 \in DOMAIN buf2RespChan /\ i + 1 # 1
             /\ buf2RespChan'[i] = buf2RespChan[i + 1]
  BY <1>1, <1>2, <1>3
<1>4. OneAckEach'
  <2>1. ASSUME NEW i \in DOMAIN buf2RespChan', NEW k \in DOMAIN buf2RespChan',
               buf2RespChan'[i].task = buf2RespChan'[k].task
        PROVE  i = k
    <3>1. i + 1 = k + 1
      BY <1>3, <2>1 DEF AckInv, OneAckEach
    <3> QED BY <1>3, <3>1
  <2> QED BY <1>1, <1>3, <2>1 DEF AckInv, OneAckEach
<1>5. ~OnItsWay(t)'
  BY <1>1, <1>2, <1>3 DEF AckInv, OneAckEach, OnItsWay
<1>6. \A u : Used(u) => Used(u)'
  BY <1>1, <1>3 DEF Used, OnItsWay
<1>7. OnItsWay(t)
  BY <1>2 DEF OnItsWay
<1>8. UsedIsGone'
  BY <1>1, <1>2, <1>5, <1>6, <1>7 DEF AckInv, UsedIsGone, Used
<1> QED BY <1>1, <1>4, <1>8 DEF AckInv, EachAckCreditedOnce

LEMMA AckPublish == IInv /\ AckInv /\ Publish => AckInv'
<1> SUFFICES ASSUME IInv, AckInv, Publish PROVE AckInv'
  OBVIOUS
<1>1. /\ UNCHANGED <<ackOf, buf2resp, buf2RespChan, answered>>
      /\ wpc = "publishing" /\ wpc' = "idle"
      /\ report' = [report EXCEPT ![m.job] =
                      [task |-> currTaskId, outcome |-> sendErr, ackOf |-> ackOf]]
  BY DEF Publish, agentVars, scriptVars, wechatVars
<1>2. \A j \in Jobs : \/ report'[j].ackOf = report[j].ackOf /\ j # m.job
                      \/ report'[j].ackOf = ackOf /\ j = m.job
  BY <1>1 DEF IInv, TypeOK, WorkerTypeOK
<1>3. \A t : Used(t) => Used(t)'
  BY <1>1 DEF Used, OnItsWay
<1>4. UsedIsGone'
  BY <1>1, <1>2, <1>3 DEF AckInv, UsedIsGone
<1>5. EachAckCreditedOnce'
  BY <1>1, <1>2 DEF AckInv, UsedIsGone, EachAckCreditedOnce
<1> QED BY <1>1, <1>4, <1>5 DEF AckInv, OneAckEach

LEMMA AckDeliver ==
  ASSUME IInv, AckInv, NEW r \in buf2resp, Deliver(r)
  PROVE  AckInv'
<1>1. /\ UNCHANGED <<wpc, ackOf, report, answered>>
      /\ buf2resp' = buf2resp \ {r} /\ buf2RespChan' = Append(buf2RespChan, r)
  BY DEF Deliver, workerVars, wechatVars
<1>2. buf2RespChan \in Seq(Responses) /\ r \in Responses
  BY DEF IInv, TypeOK, AgentTypeOK, ChanTypeOK
<1>3. ASSUME NEW i \in DOMAIN buf2RespChan'
      PROVE  \/ i = Len(buf2RespChan) + 1 /\ buf2RespChan'[i] = r
             \/ i \in DOMAIN buf2RespChan /\ buf2RespChan'[i] = buf2RespChan[i]
  BY <1>1, <1>2, <1>3
<1>4. OneAckEach'
  BY <1>1, <1>3 DEF AckInv, OneAckEach
<1>5. \A t : Used(t) => Used(t)'
  BY <1>1, <1>3 DEF Used, OnItsWay
<1>6. UsedIsGone'
  BY <1>1, <1>5 DEF AckInv, UsedIsGone
<1> QED BY <1>1, <1>4, <1>6 DEF AckInv, EachAckCreditedOnce

\* The answer is the first of its task, so none of that task is on its way.
LEMMA AckResponse ==
  ASSUME IInv, AckInv, UNCHANGED goVars,
         NEW t \in started, NEW ok \in BOOLEAN, Response(t, ok)
  PROVE  AckInv'
<1>1. /\ UNCHANGED <<wpc, ackOf, report, buf2RespChan>>
      /\ t \notin answered /\ answered' = answered \cup {t}
  BY DEF goVars, workerVars, chanVars, Response, Answers
<1>2. PICK k : \/ UNCHANGED buf2resp
               \/ buf2resp' = buf2resp \cup {[task |-> t, ok |-> ok, msgType |-> k]}
  BY DEF Response
<1>3. ~OnItsWay(t)
  BY <1>1 DEF IInv, AcksAreTrue, TrueAck, OnItsWay
<1>4. \A r \in buf2resp' : r \in buf2resp \/ r = [task |-> t, ok |-> ok, msgType |-> k]
  BY <1>2
<1>5. OneAckEach'
  BY <1>1, <1>3, <1>4 DEF AckInv, OneAckEach, OnItsWay
<1>6. \A u : Used(u) => Used(u)'
  BY <1>1, <1>4 DEF Used, OnItsWay
<1>7. UsedIsGone'
  BY <1>1, <1>6 DEF AckInv, UsedIsGone
<1> QED BY <1>1, <1>5, <1>7 DEF AckInv, EachAckCreditedOnce

LEMMA AckNext == IInv /\ AckInv /\ [Next]_vars => AckInv'
<1> SUFFICES ASSUME IInv, AckInv, [Next]_vars PROVE AckInv'
  OBVIOUS
<1>1. CASE \E c \in HttpClients, b \in HttpBodies : Admit(c, b)
  BY <1>1, AckFrame DEF Admit, workerVars, chanVars, agentVars, scriptVars, wechatVars
<1>2. CASE \E c \in WsClients, b \in WsBodies : Receive(c, b)
  BY <1>2, AckFrame DEF Receive, workerVars, chanVars, agentVars, scriptVars, wechatVars
<1>3. CASE \E c \in Clients : ClientStep(c)
  BY <1>3, AckFrame DEF ClientStep, QueueSegment, QueueText, Collect,
    workerVars, agentVars, scriptVars, wechatVars
<1>4. CASE Worker
  <2>1. CASE Refuse \/ Timeout
    BY <2>1, AckFrame DEF Refuse, Timeout, chanVars, agentVars, scriptVars, wechatVars
  <2>2. CASE \E o \in StartOutcomes : Call(o)
    BY <2>2, AckFrame DEF Call, BeginSend, chanVars
  <2>3. CASE CallReturns
    BY <2>3, AckFrame DEF CallReturns, EndSend, chanVars, wechatVars
  <2>4. CASE Cancel
    BY <2>4, AckFrame DEF Cancel, CancelText, CancelMiniProgram, chanVars, wechatVars
  <2> QED BY <1>4, <2>1, <2>2, <2>3, <2>4, AckTake, AckTakeAck, AckPublish DEF Worker
<1>5. CASE \E r \in buf2resp : Deliver(r)
  BY <1>5, AckDeliver
<1>6. CASE \E t \in classicTimers : ClassicTimer(t)
  BY <1>6, AckFrame DEF ClassicTimer, TimerFires, goVars, workerVars, chanVars, wechatVars
<1>7. CASE WeChat
  <2>1. UNCHANGED goVars
    BY <1>7 DEF WeChat
  <2>2. CASE \E t \in started : Req2BufExit(t)
    BY <2>1, <2>2, AckFrame DEF Req2BufExit, goVars, workerVars, chanVars
  <2>3. CASE \E t \in started : \E ok \in BOOLEAN : Response(t, ok)
    BY <2>1, <2>3, AckResponse
  <2> QED BY <1>7, <2>2, <2>3 DEF WeChat
<1>8. CASE UNCHANGED vars
  BY <1>8, AckFrame DEF vars, workerVars, chanVars, agentVars, scriptVars, wechatVars
<1> QED BY <1>1, <1>2, <1>3, <1>4, <1>5, <1>6, <1>7, <1>8 DEF Next

(***************************************************************************)
(* Whatever times out, and however late the answers are, no answer of the  *)
(* server settles two messages (worker.go:364, main.go:253): each is taken *)
(* from buf2RespChan once, and a task is answered once (script.js:2273).   *)
(***************************************************************************)
THEOREM AcksCreditedOnce == Spec => []EachAckCreditedOnce
<1>1. Init => IInv /\ AckInv
  BY IInvInit, AckInit
<1>2. (IInv /\ AckInv) /\ [Next]_vars => (IInv /\ AckInv)'
  BY IInvNext, AckNext
<1>3. AckInv => EachAckCreditedOnce
  BY DEF AckInv
<1> QED BY <1>1, <1>2, <1>3, PTL DEF Spec

-----------------------------------------------------------------------------
(* Stale answers are as few as timeouts *)

LEMMA CountInit == Init => CountInv
<1> SUFFICES ASSUME Init PROVE CountInv
  OBVIOUS
<1>1. /\ buf2resp = {} /\ started = {} /\ timedOut = {} /\ Unanswered = {}
      /\ buf2RespChan = <<>> /\ wpc = "idle"
  BY DEF Init, AgentInit, Unanswered
<1>2. Len(buf2RespChan) = 0
  BY <1>1
<1> QED BY <1>1, <1>2, FS_EmptySet DEF CountInv

\* The sizes that CountInv adds up are numbers.
LEMMA CountTypes ==
  ASSUME TypeOK, CountInv
  PROVE  /\ Cardinality(buf2resp) \in Nat /\ Len(buf2RespChan) \in Nat
         /\ IsFiniteSet(Unanswered) /\ Cardinality(Unanswered) \in Nat
         /\ Cardinality(timedOut) \in Nat /\ taskId \in Nat
<1>1. Unanswered \in SUBSET started
  BY DEF Unanswered
<1>2. IsFiniteSet(Unanswered)
  BY <1>1, FS_Subset DEF CountInv
<1>3. buf2RespChan \in Seq(Responses) /\ taskId \in Nat
  BY DEF TypeOK, ChanTypeOK, WorkerTypeOK
<1> QED BY <1>2, <1>3, FS_CardinalityType DEF CountInv

\* A step that starts, answers, moves and gives up no task.
LEMMA CountFrame ==
  ASSUME CountInv,
         UNCHANGED <<buf2resp, buf2RespChan, started, answered, timedOut, currTaskId, taskId>>,
         Sending <=> Sending', wpc' = "ready" => wpc = "ready",
         wpc' \in {"calling", "awaiting"} => wpc \in {"calling", "awaiting"}
  PROVE  CountInv'
BY DEF CountInv, Unanswered

LEMMA CountTake == IInv /\ CountInv /\ Take => CountInv'
<1> SUFFICES ASSUME IInv, CountInv, Take PROVE CountInv'
  OBVIOUS
<1>1. /\ UNCHANGED <<timedOut, buf2resp, buf2RespChan, started, answered>>
      /\ wpc = "idle" /\ wpc' = "ready"
      /\ taskId' = taskId + 1 /\ currTaskId' = taskId + 1
  BY DEF Take, agentVars, scriptVars, wechatVars
<1>2. /\ taskId \in Nat /\ \A t \in timedOut : t \in Nat /\ t <= taskId
  BY DEF IInv, TypeOK, WorkerTypeOK, CountInv, TaskIds
<1>3. taskId + 1 \notin timedOut /\ \A t \in timedOut : t <= taskId + 1
  BY <1>2
<1>4. ~Sending /\ ~Sending'
  BY <1>1 DEF Sending, Submitted
<1> QED BY <1>1, <1>3, <1>4 DEF CountInv, Unanswered

\* A task that WeChat queued may be answered once.
LEMMA CountCall ==
  ASSUME IInv, CountInv, NEW o \in StartOutcomes, Call(o)
  PROVE  CountInv'
<1>1. /\ UNCHANGED <<currTaskId, taskId, timedOut, buf2RespChan, buf2resp, answered>>
      /\ wpc = "ready" /\ wpc' = "calling"
      /\ started' = IF o = "queued" THEN started \cup {currTaskId} ELSE started
  BY DEF Call, BeginSend, BeginClassic, BeginMedia, chanVars
<1>2. currTaskId \notin started /\ currTaskId \notin answered /\ ~Sending
  BY <1>1 DEF IInv, TaskInv, TypeOK, AgentTypeOK, Sending, Submitted
<1>3. CASE o # "queued"
  BY <1>1, <1>2, <1>3 DEF CountInv, Unanswered, Sending
<1>4. CASE o = "queued"
  <2>1. Unanswered' = Unanswered \cup {currTaskId} /\ currTaskId \notin Unanswered
    BY <1>1, <1>2, <1>4 DEF Unanswered
  <2>2. Cardinality(Unanswered') = Cardinality(Unanswered) + 1
    BY <2>1, CountTypes, FS_AddElement DEF IInv
  <2>3. IsFiniteSet(started')
    BY <1>1, <1>4, FS_AddElement DEF CountInv
  <2>4. Sending'
    BY <1>1, <1>4 DEF Sending, Submitted
  <2>5. Cardinality(buf2resp) + Len(buf2RespChan) + Cardinality(Unanswered')
          <= Cardinality(timedOut) + 1
    BY <1>2, <2>2, CountTypes DEF IInv, CountInv
  <2> QED BY <1>1, <2>3, <2>4, <2>5 DEF CountInv
<1> QED BY <1>3, <1>4

\* The call failed: WeChat did not queue the task.
LEMMA CountCallReturns == IInv /\ CountInv /\ CallReturns => CountInv'
<1> SUFFICES ASSUME IInv, CountInv, CallReturns PROVE CountInv'
  OBVIOUS
<1>1. /\ UNCHANGED <<currTaskId, taskId, timedOut, buf2RespChan, buf2resp, started, answered>>
      /\ wpc = "calling" /\ wpc' \in {"publishing", "awaiting"}
      /\ wpc' = "publishing" => call.outcome = "faulted"
  BY DEF CallReturns, EndSend, wechatVars, chanVars
<1>2. Sending <=> Sending'
  BY <1>1 DEF IInv, TaskInv, Sending, Submitted
<1> QED BY <1>1, <1>2, CountFrame

LEMMA CountTakeAck == IInv /\ CountInv /\ TakeAck => CountInv'
<1> SUFFICES ASSUME IInv, CountInv, TakeAck PROVE CountInv'
  OBVIOUS
<1>1. /\ UNCHANGED <<currTaskId, taskId, timedOut, buf2resp, started, answered>>
      /\ wpc = "awaiting" /\ wpc' = "publishing"
      /\ buf2RespChan # <<>> /\ buf2RespChan' = Tail(buf2RespChan)
  BY DEF TakeAck, agentVars, scriptVars, wechatVars
<1>2. Len(buf2RespChan') = Len(buf2RespChan) - 1
  BY <1>1 DEF IInv, TypeOK, ChanTypeOK
<1>3. ~Sending'
  BY <1>1 DEF Sending, Submitted
<1>4. Cardinality(buf2resp) + Len(buf2RespChan') + Cardinality(Unanswered)
        <= Cardinality(timedOut)
  BY <1>2, CountTypes DEF IInv, CountInv
<1> QED BY <1>1, <1>3, <1>4, CountTypes DEF IInv, CountInv, Unanswered

\* From now on the task's answer is one nobody waits for.
LEMMA CountTimeout == IInv /\ CountInv /\ Timeout => CountInv'
<1> SUFFICES ASSUME IInv, CountInv, Timeout PROVE CountInv'
  OBVIOUS
<1>1. /\ UNCHANGED <<currTaskId, taskId, buf2RespChan, buf2resp, started, answered>>
      /\ wpc = "awaiting" /\ wpc' = "cancelling"
      /\ timedOut' = timedOut \cup {currTaskId}
  BY DEF Timeout, chanVars, agentVars, scriptVars, wechatVars
<1>2. /\ IsFiniteSet(timedOut')
      /\ Cardinality(timedOut') = Cardinality(timedOut) + 1
  BY <1>1, FS_AddElement DEF CountInv
<1>3. ~Sending'
  BY <1>1 DEF Sending, Submitted
<1>4. \A t \in timedOut' : t <= taskId
  BY <1>1 DEF IInv, TaskInv, TypeOK, WorkerTypeOK, CountInv
<1>5. Cardinality(buf2resp) + Len(buf2RespChan) + Cardinality(Unanswered)
        <= Cardinality(timedOut')
  BY <1>2, CountTypes DEF IInv, CountInv
<1> QED BY <1>1, <1>2, <1>3, <1>4, <1>5, CountTypes DEF IInv, CountInv, Unanswered

LEMMA CountDeliver ==
  ASSUME IInv, CountInv, NEW r \in buf2resp, Deliver(r)
  PROVE  CountInv'
<1>1. /\ UNCHANGED <<wpc, currTaskId, taskId, timedOut, started, answered>>
      /\ buf2resp' = buf2resp \ {r} /\ buf2RespChan' = Append(buf2RespChan, r)
  BY DEF Deliver, workerVars, wechatVars
<1>2. Len(buf2RespChan') = Len(buf2RespChan) + 1
  <2>1. buf2RespChan \in Seq(Responses) /\ r \in Responses
    BY DEF IInv, TypeOK, AgentTypeOK, ChanTypeOK
  <2> QED BY <1>1, <2>1
<1>3. /\ IsFiniteSet(buf2resp')
      /\ Cardinality(buf2resp') = Cardinality(buf2resp) - 1
  BY <1>1, FS_RemoveElement DEF CountInv
<1>4. Cardinality(buf2resp') + Len(buf2RespChan') = Cardinality(buf2resp) + Len(buf2RespChan)
  BY <1>2, <1>3, CountTypes DEF IInv
<1> QED BY <1>1, <1>3, <1>4 DEF CountInv, Unanswered, Sending, Submitted

\* An unanswered task becomes at most one answer on its way.
LEMMA CountResponse ==
  ASSUME IInv, CountInv, UNCHANGED goVars,
         NEW t \in started, NEW ok \in BOOLEAN, Response(t, ok)
  PROVE  CountInv'
<1>1. /\ UNCHANGED <<wpc, currTaskId, taskId, timedOut, buf2RespChan, started>>
      /\ t \notin answered /\ answered' = answered \cup {t}
  BY DEF goVars, workerVars, chanVars, Response, Answers
<1>2. /\ Unanswered' = Unanswered \ {t} /\ t \in Unanswered
  BY <1>1 DEF Unanswered
<1>3. Cardinality(Unanswered') = Cardinality(Unanswered) - 1
  BY <1>2, CountTypes, FS_RemoveElement DEF IInv
<1>4. PICK r : UNCHANGED buf2resp \/ buf2resp' = buf2resp \cup {r}
  BY DEF Response
<1>5. /\ IsFiniteSet(buf2resp')
      /\ Cardinality(buf2resp') \in {Cardinality(buf2resp), Cardinality(buf2resp) + 1}
  BY <1>4, FS_AddElement DEF CountInv
<1>6. Cardinality(buf2resp') + Len(buf2RespChan') + Cardinality(Unanswered')
        <= Cardinality(buf2resp) + Len(buf2RespChan) + Cardinality(Unanswered)
  BY <1>1, <1>3, <1>5, CountTypes DEF IInv
<1>7. /\ Cardinality(buf2resp') \in Nat /\ Cardinality(Unanswered') \in Nat
  BY <1>3, <1>5, CountTypes, FS_CardinalityType, <1>2, FS_RemoveElement DEF IInv
<1>8. Sending' <=> Sending
  BY <1>1 DEF Sending, Submitted
<1>9. Cardinality(buf2resp') + Len(buf2RespChan') + Cardinality(Unanswered')
        <= Cardinality(timedOut') + (IF Sending' THEN 1 ELSE 0)
  <2>1. Cardinality(buf2resp) + Len(buf2RespChan) + Cardinality(Unanswered)
          <= Cardinality(timedOut) + (IF Sending THEN 1 ELSE 0)
    BY DEF CountInv
  <2>2. /\ Len(buf2RespChan') \in Nat /\ Len(buf2RespChan) \in Nat
        /\ Cardinality(buf2resp) \in Nat /\ Cardinality(Unanswered) \in Nat /\ Cardinality(timedOut) \in Nat
    BY <1>1, CountTypes DEF IInv
  <2> QED BY <1>1, <1>6, <1>7, <1>8, <2>1, <2>2
<1> QED BY <1>1, <1>5, <1>9 DEF CountInv

LEMMA CountNext == IInv /\ CountInv /\ [Next]_vars => CountInv'
<1> SUFFICES ASSUME IInv, CountInv, [Next]_vars PROVE CountInv'
  OBVIOUS
<1>1. CASE \E c \in HttpClients, b \in HttpBodies : Admit(c, b)
  BY <1>1, CountFrame DEF Admit, Sending, Submitted, workerVars, chanVars,
    agentVars, scriptVars, wechatVars
<1>2. CASE \E c \in WsClients, b \in WsBodies : Receive(c, b)
  BY <1>2, CountFrame DEF Receive, Sending, Submitted, workerVars, chanVars,
    agentVars, scriptVars, wechatVars
<1>3. CASE \E c \in Clients : ClientStep(c)
  BY <1>3, CountFrame DEF ClientStep, QueueSegment, QueueText, Collect, Sending,
    Submitted, workerVars, agentVars, scriptVars, wechatVars
<1>4. CASE Worker
  <2>1. CASE Refuse
    BY <2>1, CountFrame DEF Refuse, Sending, Submitted, chanVars, agentVars,
      scriptVars, wechatVars
  <2>2. CASE Cancel
    BY <2>2, CountFrame DEF Cancel, CancelText, CancelMiniProgram, Sending, Submitted,
      chanVars, wechatVars
  <2>3. CASE Publish
    BY <2>3, CountFrame DEF Publish, Sending, Submitted, agentVars, scriptVars, wechatVars
  <2> QED BY <1>4, <2>1, <2>2, <2>3, CountTake, CountCall, CountCallReturns,
        CountTakeAck, CountTimeout DEF Worker
<1>5. CASE \E r \in buf2resp : Deliver(r)
  BY <1>5, CountDeliver
<1>6. CASE \E t \in classicTimers : ClassicTimer(t)
  BY <1>6, CountFrame DEF ClassicTimer, TimerFires, Sending, Submitted, goVars,
    workerVars, chanVars, wechatVars
<1>7. CASE WeChat
  <2>1. UNCHANGED goVars
    BY <1>7 DEF WeChat
  <2>2. CASE \E t \in started : Req2BufExit(t)
    BY <2>1, <2>2, CountFrame DEF Req2BufExit, Sending, Submitted, goVars,
      workerVars, chanVars
  <2>3. CASE \E t \in started : \E ok \in BOOLEAN : Response(t, ok)
    BY <2>1, <2>3, CountResponse
  <2> QED BY <1>7, <2>2, <2>3 DEF WeChat
<1>8. CASE UNCHANGED vars
  BY <1>8, CountFrame DEF vars, Sending, Submitted, workerVars, chanVars,
    agentVars, scriptVars, wechatVars
<1> QED BY <1>1, <1>2, <1>3, <1>4, <1>5, <1>6, <1>7, <1>8 DEF Next

(***************************************************************************)
(* Answers nobody waits for are at most as many as the sends given up at   *)
(* their deadline (worker.go:355): a task is answered once, and a task     *)
(* that was not given up takes an answer away, its own or an older one.    *)
(***************************************************************************)
THEOREM FewStaleAcks == Spec => []StaleAcksBounded
<1>1. Init => IInv /\ CountInv
  BY IInvInit, CountInit
<1>2. (IInv /\ CountInv) /\ [Next]_vars => (IInv /\ CountInv)'
  BY IInvNext, CountNext
<1>3. IInv /\ CountInv => StaleAcksBounded
  <2> SUFFICES ASSUME IInv, CountInv PROVE StaleAcksBounded
    OBVIOUS
  <2>1. Cardinality(buf2resp) + Len(buf2RespChan)
          <= Cardinality(timedOut) + (IF Sending THEN 1 ELSE 0)
    BY CountTypes DEF IInv, CountInv
  <2>2. Sending => wpc \in {"calling", "awaiting"}
    BY DEF Sending, Submitted
  <2>3. CASE Sending
    BY <2>1, <2>2, <2>3 DEF StaleAcksBounded
  <2>4. CASE ~Sending
    BY <2>1, <2>4, CountTypes DEF IInv, StaleAcksBounded
  <2> QED BY <2>3, <2>4
<1> QED BY <1>1, <1>2, <1>3, PTL DEF Spec

=============================================================================
