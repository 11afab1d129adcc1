-------------------------- MODULE SendContractProofs --------------------------
(***************************************************************************)
(* SendPipeline implements SendContract, for any clients, bodies and       *)
(* capacities: every step is a step of the contract or leaves its state    *)
(* alone.  The proof needs an invariant that says where a message can be,  *)
(* OnePlace, and one that ties what a client has read to what the worker   *)
(* reported, Told.                                                         *)
(***************************************************************************)
EXTENDS SendPipelineProofs

-----------------------------------------------------------------------------
(* The inductive invariant *)

Reported(j) == report[j].outcome # "none"

\* Its client has counted the message.
Numbered(j) == j[2] <= queued[j[1]]

\* A message is in the queue, with the worker, or reported: never in two of
\* these places, and never twice in the queue.
OnePlace ==
  /\ \A i \in DOMAIN msgChan : Numbered(msgChan[i].job) /\ ~Reported(msgChan[i].job)
  /\ \A i, k \in DOMAIN msgChan : msgChan[i].job = msgChan[k].job => i = k
  /\ wpc # "idle" =>
       /\ Numbered(m.job) /\ ~Reported(m.job)
       /\ \A i \in DOMAIN msgChan : msgChan[i].job # m.job
  /\ \A j \in Jobs : Reported(j) => Numbered(j)

\* A result channel holds the verdict on its message, and a client that goes
\* on collecting has read only good ones.
Told ==
  /\ \A j \in Jobs : resultChan[j] # "empty" =>
       Reported(j) /\ resultChan[j] = Verdict(report[j].outcome)
  /\ \A c \in Clients :
       /\ cpc[c] = "idle" => queued[c] = 0
       /\ cpc[c] # "done" =>
            /\ answer[c] = "none"
            /\ \A n \in 1 .. collected[c] : report[<<c, n>>].outcome = "ok"

JobInv == OnePlace /\ Told

LEMMA JobInit == Init => JobInv
<1> SUFFICES ASSUME Init PROVE JobInv
  OBVIOUS
<1>1. msgChan = <<>> /\ wpc = "idle"
  BY DEF Init
<1>2. DOMAIN msgChan = {}
  BY <1>1
<1>3. \A j \in Jobs : ~Reported(j) /\ resultChan[j] = "empty"
  BY DEF Init, NoReport, Reported
<1>4. \A c \in Clients : queued[c] = 0 /\ answer[c] = "none" /\ 1 .. collected[c] = {}
  BY DEF Init
<1> QED BY <1>1, <1>2, <1>3, <1>4 DEF JobInv, OnePlace, Told

\* What the types say of messages and their numbers.
LEMMA JobFacts ==
  ASSUME TypeOK
  PROVE  /\ msgChan \in Seq(Messages)
         /\ \A i \in DOMAIN msgChan : msgChan[i].job \in Jobs
         /\ wpc # "idle" => m.job \in Jobs
         /\ \A c \in Clients : queued[c] \in Nat /\ collected[c] \in Nat
         /\ \A j \in Jobs : /\ j[1] \in Clients /\ j[2] \in Nat \ {0}
                            /\ j = <<j[1], j[2]>>
<1>1. msgChan \in Seq(Messages)
  BY DEF TypeOK, ChanTypeOK
<1>2. \A i \in DOMAIN msgChan : msgChan[i].job \in Jobs
  <2>1. \A i \in DOMAIN msgChan : msgChan[i] \in Messages
    BY <1>1
  <2> QED BY <2>1 DEF Messages
<1>3. wpc # "idle" => m.job \in Jobs
  BY DEF TypeOK, WorkerTypeOK, Messages
<1>4. \A c \in Clients : queued[c] \in Nat /\ collected[c] \in Nat
  BY PipelineAssumption DEF TypeOK, ClientTypeOK
<1>5. \A j \in Jobs : j[1] \in Clients /\ j[2] \in Nat \ {0} /\ j = <<j[1], j[2]>>
  BY PipelineAssumption DEF Jobs
<1> QED BY <1>1, <1>2, <1>3, <1>4, <1>5

\* A step of the worker, the agent or WeChat that neither takes nor reports.
LEMMA JobFrame ==
  ASSUME JobInv, UNCHANGED clientVars,
         UNCHANGED <<resultChan, msgChan, report, m>>, wpc' # "idle" => wpc # "idle"
  PROVE  JobInv'
BY DEF JobInv, OnePlace, Told, Numbered, Reported, clientVars

-----------------------------------------------------------------------------
(* Clients *)

\* A client's control moves on; nothing is queued or read.
LEMMA JobClientMoves ==
  ASSUME TypeOK, JobInv,
         UNCHANGED <<queued, collected, resultChan, msgChan, report, m, wpc>>,
         NEW c \in Clients, cpc[c] # "done",
         NEW p \in {"queueing", "waiting", "done"}, cpc' = [cpc EXCEPT ![c] = p],
         p = "done" \/ UNCHANGED answer,
         \A d \in Clients \ {c} : answer'[d] = answer[d]
  PROVE  JobInv'
<1>1. OnePlace'
  BY DEF JobInv, OnePlace, Numbered, Reported
<1>2. \A d \in Clients : cpc'[d] = IF d = c THEN p ELSE cpc[d]
  BY DEF TypeOK, ClientTypeOK
<1>3. Told'
  BY <1>2 DEF JobInv, Told, Reported
<1> QED BY <1>1, <1>3 DEF JobInv

\* The new message has a number no other message of its client has.
LEMMA JobEnqueue ==
  ASSUME TypeOK, JobInv, UNCHANGED <<collected, resultChan, report, m, wpc, answer>>,
         NEW c \in Clients, cpc[c] = "queueing",
         \A d \in Clients \ {c} : cpc'[d] = cpc[d],
         cpc'[c] \in {"queueing", "waiting", "done"},
         NEW type \in JobTypes, Enqueue(c, type)
  PROVE  JobInv'
<1> PICK new : new = <<c, queued[c] + 1>>
  OBVIOUS
<1>1. /\ msgChan' = Append(msgChan, [job |-> new, type |-> type])
      /\ queued'[c] = queued[c] + 1
      /\ \A d \in Clients \ {c} : queued'[d] = queued[d]
  BY DEF Enqueue, TypeOK, ClientTypeOK
<1>2. queued[c] \in Nat /\ new[1] = c /\ new[2] = queued[c] + 1
  BY JobFacts
<1>3. \A j \in Jobs : Numbered(j) => Numbered(j)' /\ j # new
  BY <1>1, <1>2, JobFacts DEF Numbered
<1>4. Numbered(new)'
  BY <1>1, <1>2, JobFacts DEF Numbered
<1>5. ASSUME NEW i \in DOMAIN msgChan'
      PROVE  \/ i = Len(msgChan) + 1 /\ msgChan'[i].job = new
             \/ /\ i \in DOMAIN msgChan /\ msgChan'[i].job = msgChan[i].job
                /\ msgChan[i].job \in Jobs
  <2>1. [job |-> new, type |-> type].job = new
    OBVIOUS
  <2> QED BY <1>1, <1>5, <2>1, JobFacts
<1>6. new \in Jobs /\ ~Numbered(new) /\ ~Reported(new)
  <2>1. new \in Jobs
    BY <1>2, EnqueueFacts, PipelineAssumption DEF TypeOK, ClientTypeOK, Jobs
  <2> QED BY <1>2, <2>1 DEF Numbered, JobInv, OnePlace
<1>7. OnePlace'
  <2>1. \A i \in DOMAIN msgChan' : (Numbered(msgChan[i].job) /\ ~Reported(msgChan[i].job))'
    BY <1>3, <1>4, <1>5, <1>6 DEF JobInv, OnePlace, Reported
  <2>2. \A i, k \in DOMAIN msgChan' : msgChan'[i].job = msgChan'[k].job => i = k
    BY <1>3, <1>5 DEF JobInv, OnePlace
  <2>3. wpc # "idle" =>
          /\ Numbered(m.job)' /\ ~Reported(m.job)'
          /\ \A i \in DOMAIN msgChan' : msgChan'[i].job # m.job
    BY <1>3, <1>5, JobFacts DEF JobInv, OnePlace, Reported
  <2>4. \A j \in Jobs : Reported(j)' => Numbered(j)'
    BY <1>3 DEF JobInv, OnePlace, Reported
  <2> QED BY <2>1, <2>2, <2>3, <2>4 DEF OnePlace
<1>8. Told'
  BY <1>1 DEF JobInv, Told, Reported
<1> QED BY <1>7, <1>8 DEF JobInv

LEMMA JobAdmit ==
  ASSUME TypeOK, JobInv, NEW c \in HttpClients, NEW b \in HttpBodies, Admit(c, b)
  PROVE  JobInv'
<1>1. /\ c \in Clients /\ cpc[c] = "idle"
      /\ UNCHANGED <<queued, collected, resultChan, msgChan, report, m, wpc>>
  BY DEF Admit, Clients, workerVars, chanVars
<1>2. CASE cpc' = [cpc EXCEPT ![c] = "queueing"] /\ UNCHANGED answer
  BY <1>1, <1>2, JobClientMoves
<1>3. CASE /\ cpc' = [cpc EXCEPT ![c] = "done"]
           /\ answer' = [answer EXCEPT ![c] = "unavailable"]
  <2>1. \A d \in Clients \ {c} : answer'[d] = answer[d]
    BY <1>3 DEF TypeOK, ClientTypeOK
  <2> QED BY <1>1, <1>3, <2>1, JobClientMoves
<1> QED BY <1>2, <1>3 DEF Admit

LEMMA JobReceive ==
  ASSUME TypeOK, JobInv, NEW c \in WsClients, NEW b \in WsBodies, Receive(c, b)
  PROVE  JobInv'
<1>1. /\ c \in Clients /\ cpc[c] = "idle"
      /\ UNCHANGED <<queued, collected, resultChan, msgChan, report, m, wpc, answer>>
      /\ cpc' = [cpc EXCEPT ![c] = "queueing"]
  BY DEF Receive, Clients, workerVars, chanVars
<1> QED BY <1>1, JobClientMoves

LEMMA JobQueueSegment ==
  ASSUME TypeOK, JobInv, NEW c \in Clients, QueueSegment(c)
  PROVE  JobInv'
<1>1. /\ UNCHANGED <<collected, resultChan, report, m, wpc>>
      /\ cpc[c] = "queueing"
  BY DEF QueueSegment, workerVars
<1>2. CASE \E s \in {"mini_program", "image"} : Enqueue(c, s) /\ UNCHANGED <<cpc, answer>>
  BY <1>1, <1>2, JobEnqueue DEF JobTypes, MsgTypes
<1>3. CASE /\ cpc' = [cpc EXCEPT ![c] = "done"]
           /\ answer' = [answer EXCEPT ![c] = "invalid"]
           /\ UNCHANGED <<queued, msgChan>>
  <2>1. \A d \in Clients \ {c} : answer'[d] = answer[d]
    BY <1>3 DEF TypeOK, ClientTypeOK
  <2> QED BY <1>1, <1>3, <2>1, JobClientMoves
<1>4. CASE UNCHANGED <<cpc, answer, queued, msgChan>>
  <2>1. cpc' = [cpc EXCEPT ![c] = "queueing"]
    BY <1>1, <1>4 DEF TypeOK, ClientTypeOK
  <2> QED BY <1>1, <1>4, <2>1, JobClientMoves
<1> QED BY <1>2, <1>3, <1>4 DEF QueueSegment

LEMMA JobQueueText ==
  ASSUME TypeOK, JobInv, NEW c \in Clients, QueueText(c)
  PROVE  JobInv'
<1>1. /\ UNCHANGED <<collected, answer, resultChan, report, m, wpc>>
      /\ cpc[c] = "queueing"
      /\ \E p \in {"waiting", "done"} : cpc' = [cpc EXCEPT ![c] = p]
  BY DEF QueueText, workerVars
<1>2. CASE Enqueue(c, "text")
  BY <1>1, <1>2, JobEnqueue DEF JobTypes, MsgTypes, TypeOK, ClientTypeOK
<1>3. CASE UNCHANGED <<msgChan, queued>>
  BY <1>1, <1>3, JobClientMoves
<1> QED BY <1>2, <1>3 DEF QueueText

\* What the client reads is the verdict on its next message.
LEMMA JobCollect ==
  ASSUME TypeOK, JobInv, NEW c \in Clients, Collect(c)
  PROVE  JobInv'
<1> DEFINE j == <<c, collected[c] + 1>>
<1>1. /\ UNCHANGED <<queued, msgChan, report, m, wpc>> /\ cpc[c] = "waiting"
  BY DEF Collect, workerVars
<1>2. OnePlace'
  BY <1>1 DEF JobInv, OnePlace, Numbered, Reported
<1>3. CASE /\ collected[c] = queued[c] /\ UNCHANGED <<collected, resultChan>>
           /\ cpc' = [cpc EXCEPT ![c] = "done"]
           /\ answer' = [answer EXCEPT ![c] = "ok"]
  BY <1>1, <1>3, JobClientMoves DEF TypeOK, ClientTypeOK
<1>4. CASE /\ collected[c] < queued[c] /\ resultChan[j] = "ok"
           /\ resultChan' = [resultChan EXCEPT ![j] = "empty"]
           /\ collected' = [collected EXCEPT ![c] = @ + 1]
           /\ UNCHANGED <<cpc, answer>>
  <2>1. j \in Jobs
    BY <1>4, PipelineAssumption DEF TypeOK, ClientTypeOK, Jobs
  <2>2. report[j].outcome = "ok"
    BY <1>4, <2>1 DEF JobInv, Told, Verdict
  <2>3. \A n \in 1 .. collected'[c] : n \in 1 .. collected[c] \/ <<c, n>> = j
    BY <1>4, JobFacts DEF TypeOK, ClientTypeOK
  <2>4. \A d \in Clients \ {c} : collected'[d] = collected[d]
    BY <1>4 DEF TypeOK, ClientTypeOK
  <2>5. \A i \in Jobs : resultChan'[i] # "empty" => resultChan'[i] = resultChan[i]
    BY <1>4 DEF TypeOK, ChanTypeOK
  <2>6. Told'
    BY <1>1, <1>4, <2>2, <2>3, <2>4, <2>5 DEF JobInv, Told, Reported
  <2> QED BY <1>2, <2>6 DEF JobInv
<1>5. CASE /\ resultChan' = [resultChan EXCEPT ![j] = "empty"]
           /\ collected' = [collected EXCEPT ![c] = @ + 1]
           /\ cpc' = [cpc EXCEPT ![c] = "done"]
           /\ answer' = [answer EXCEPT ![c] = "failed"]
  <2>1. /\ cpc'[c] = "done"
        /\ \A d \in Clients \ {c} : /\ collected'[d] = collected[d] /\ cpc'[d] = cpc[d]
                                    /\ answer'[d] = answer[d]
    BY <1>5 DEF TypeOK, ClientTypeOK
  <2>2. \A i \in Jobs : resultChan'[i] # "empty" => resultChan'[i] = resultChan[i]
    BY <1>5 DEF TypeOK, ChanTypeOK
  <2>3. Told'
    BY <1>1, <2>1, <2>2 DEF JobInv, Told, Reported
  <2> QED BY <1>2, <2>3 DEF JobInv
<1> QED BY <1>3, <1>4, <1>5 DEF Collect

-----------------------------------------------------------------------------
(* The worker *)

LEMMA JobTake == TypeOK /\ JobInv /\ Take => JobInv'
<1> SUFFICES ASSUME TypeOK, JobInv, Take PROVE JobInv'
  OBVIOUS
<1>1. /\ UNCHANGED <<report, resultChan>> /\ UNCHANGED clientVars
      /\ msgChan # <<>> /\ m' = Head(msgChan) /\ msgChan' = Tail(msgChan)
  BY DEF Take
<1>2. 1 \in DOMAIN msgChan /\ m' = msgChan[1]
  BY <1>1, JobFacts, NonEmpty
<1>3. \A i \in DOMAIN msgChan' :
        /\ i + 1 \in DOMAIN msgChan /\ i + 1 # 1 /\ i \in Nat
        /\ msgChan'[i] = msgChan[i + 1]
  BY <1>1, JobFacts
<1>4. OnePlace'
  <2>1. \A i, k \in DOMAIN msgChan' : msgChan'[i].job = msgChan'[k].job => i = k
    <3>1. \A i, k \in DOMAIN msgChan' : msgChan'[i].job = msgChan'[k].job => i + 1 = k + 1
      BY <1>3 DEF JobInv, OnePlace
    <3> QED BY <1>3, <3>1
  <2> QED BY <1>1, <1>2, <1>3, <2>1 DEF JobInv, OnePlace, Numbered, Reported, clientVars
<1>5. Told'
  BY <1>1 DEF JobInv, Told, Reported, clientVars
<1> QED BY <1>4, <1>5 DEF JobInv

LEMMA JobPublish == TypeOK /\ JobInv /\ Publish => JobInv'
<1> SUFFICES ASSUME TypeOK, JobInv, Publish PROVE JobInv'
  OBVIOUS
<1> DEFINE rep == [task |-> currTaskId, outcome |-> sendErr, ackOf |-> ackOf]
<1>1. /\ UNCHANGED <<m, msgChan>> /\ UNCHANGED clientVars
      /\ wpc = "publishing" /\ wpc' = "idle"
      /\ report' = [report EXCEPT ![m.job] = rep]
      /\ resultChan' \in {resultChan, [resultChan EXCEPT ![m.job] = Verdict(sendErr)]}
  BY DEF Publish
<1>2. m.job \in Jobs /\ sendErr # "none" /\ Numbered(m.job) /\ ~Reported(m.job)
  BY <1>1 DEF TypeOK, WorkerTypeOK, Messages, JobInv, OnePlace
<1>3. /\ report'[m.job].outcome = sendErr
      /\ \A j \in Jobs \ {m.job} : report'[j] = report[j] /\ resultChan'[j] = resultChan[j]
      /\ resultChan'[m.job] \in {resultChan[m.job], Verdict(sendErr)}
  BY <1>1, <1>2 DEF TypeOK, WorkerTypeOK, ChanTypeOK
<1>4. OnePlace'
  BY <1>1, <1>2, <1>3, JobFacts DEF JobInv, OnePlace, Numbered, Reported, clientVars
<1>5. Told'
  <2>1. ASSUME NEW j \in Jobs, resultChan'[j] # "empty"
        PROVE  Reported(j)' /\ resultChan'[j] = Verdict(report'[j].outcome)
    BY <1>2, <1>3, <2>1 DEF JobInv, Told, Reported
  <2>2. ASSUME NEW c \in Clients, cpc[c] # "done", NEW n \in 1 .. collected[c]
        PROVE  report'[<<c, n>>].outcome = "ok"
    <3>1. report[<<c, n>>].outcome = "ok"
      BY <2>2 DEF JobInv, Told
    <3>2. <<c, n>> \in Jobs
      BY <2>2, PipelineAssumption DEF TypeOK, ClientTypeOK, Jobs
    <3> QED BY <1>2, <1>3, <3>1, <3>2 DEF Reported
  <2> QED BY <1>1, <2>1, <2>2 DEF JobInv, Told, clientVars
<1> QED BY <1>4, <1>5 DEF JobInv

LEMMA JobNext == TypeOK /\ JobInv /\ [Next]_vars => JobInv'
<1> SUFFICES ASSUME TypeOK, JobInv, [Next]_vars PROVE JobInv'
  OBVIOUS
<1>1. CASE \E c \in HttpClients, b \in HttpBodies : Admit(c, b)
  BY <1>1, JobAdmit
<1>2. CASE \E c \in WsClients, b \in WsBodies : Receive(c, b)
  BY <1>2, JobReceive
<1>3. CASE \E c \in Clients : ClientStep(c)
  BY <1>3, JobQueueSegment, JobQueueText, JobCollect DEF ClientStep
<1>4. CASE Worker
  <2>1. CASE Refuse \/ (\E o \in StartOutcomes : Call(o)) \/ CallReturns
    BY <2>1, JobFrame DEF Refuse, Call, CallReturns, chanVars
  <2>2. CASE TakeAck \/ Timeout \/ Cancel
    BY <2>2, JobFrame DEF TakeAck, Timeout, Cancel, chanVars
  <2> QED BY <1>4, <2>1, <2>2, JobTake, JobPublish DEF Worker
<1>5. CASE \E r \in buf2resp : Deliver(r)
  BY <1>5, JobFrame DEF Deliver, workerVars
<1>6. CASE (\E t \in classicTimers : ClassicTimer(t)) \/ WeChat
  BY <1>6, JobFrame DEF ClassicTimer, WeChat, goVars, chanVars, workerVars
<1>7. CASE UNCHANGED vars
  BY <1>7, JobFrame DEF vars, chanVars, workerVars
<1> QED BY <1>1, <1>2, <1>3, <1>4, <1>5, <1>6, <1>7 DEF Next

-----------------------------------------------------------------------------
(* Refinement: the contract's state, and each step as a step of it *)

queueBar == [i \in DOMAIN msgChan |-> msgChan[i].job]
servingBar == IF wpc = "idle" THEN <<>> ELSE m.job
verdictBar == [j \in Jobs |-> IF report[j].outcome = "none" THEN "none"
                              ELSE Verdict(report[j].outcome)]
contractVars == <<queueBar, servingBar, verdictBar, answer>>

LEMMA ContractInit == Init => Contract!Init
<1> SUFFICES ASSUME Init PROVE Contract!Init
  OBVIOUS
<1>1. queueBar = <<>>
  BY DEF Init, queueBar
<1>2. servingBar = <<>> /\ verdictBar = [j \in Jobs |-> "none"]
  BY DEF Init, servingBar, verdictBar, NoReport
<1> QED BY <1>1, <1>2 DEF Init, Contract!Init, queueBar, servingBar, verdictBar, Jobs, Contract!Jobs

\* The pieces of the contract's state that a step leaves alone.
LEMMA ContractFrame ==
  /\ UNCHANGED msgChan => UNCHANGED queueBar
  /\ UNCHANGED report => UNCHANGED verdictBar
  /\ UNCHANGED m /\ (wpc = "idle" <=> wpc' = "idle") => UNCHANGED servingBar
BY DEF queueBar, verdictBar, servingBar

LEMMA ContractVars == Contract!vars = contractVars
BY DEF Contract!vars, contractVars, queueBar, servingBar, verdictBar, Jobs

LEMMA QueueBar ==
  ASSUME NEW s \in Seq(Messages)
  PROVE  LET q == [i \in DOMAIN s |-> s[i].job]
         IN  q \in Seq(Jobs) /\ Len(q) = Len(s) /\ DOMAIN q = DOMAIN s
<1> DEFINE q == [i \in DOMAIN s |-> s[i].job]
<1>1. Len(s) \in Nat /\ DOMAIN s = 1 .. Len(s) /\ \A i \in DOMAIN s : s[i] \in Messages
  OBVIOUS
<1>2. q \in [1 .. Len(s) -> Jobs]
  BY <1>1 DEF Messages
<1>3. q \in Seq(Jobs)
  BY <1>1, <1>2
<1> QED BY <1>1, <1>2, <1>3

\* Where the contract says a message is, given OnePlace.
LEMMA Places ==
  ASSUME TypeOK, JobInv, NEW j \in Jobs
  PROVE  /\ j \in Contract!Queued <=> \E i \in DOMAIN msgChan : msgChan[i].job = j
         /\ j \in Contract!Queued => Numbered(j) /\ ~Reported(j)
         /\ j = servingBar => Numbered(j) /\ ~Reported(j) /\ wpc # "idle"
         /\ verdictBar[j] = IF Reported(j) THEN Verdict(report[j].outcome) ELSE "none"
         /\ Reported(j) => Numbered(j)
<1>1. j # <<>>
  BY DEF Jobs
<1>2. j \in Contract!Queued <=> \E i \in DOMAIN msgChan : msgChan[i].job = j
  BY DEF Contract!Queued
<1>3. j = servingBar => wpc # "idle" /\ j = m.job
  BY <1>1 DEF servingBar
<1> QED BY <1>2, <1>3 DEF JobInv, OnePlace, verdictBar, Reported

LEMMA EnqueueSubmits ==
  ASSUME TypeOK, JobInv, NEW c \in Clients, cpc[c] = "queueing",
         NEW type \in JobTypes, Enqueue(c, type), UNCHANGED <<answer, report, m, wpc>>
  PROVE  Contract!Next
<1> PICK new : new = <<c, queued[c] + 1>>
  OBVIOUS
<1>1. new \in Jobs /\ new[1] = c /\ ~Numbered(new)
  <2>1. queued[c] \in Nat /\ queued[c] + 1 \in 1 .. MaxSegments + 1
    BY EnqueueFacts, PipelineAssumption DEF TypeOK, ClientTypeOK
  <2> QED BY <2>1 DEF Jobs, Numbered
<1>2. answer[c] = "none"
  BY DEF JobInv, Told
<1>3. verdictBar[new] = "none" /\ new # servingBar /\ new \notin Contract!Queued
  BY <1>1, Places
<1>4. queueBar' = Append(queueBar, new)
  <2>1. /\ msgChan \in Seq(Messages)
        /\ msgChan' = Append(msgChan, [job |-> new, type |-> type])
        /\ [job |-> new, type |-> type].job = new
        /\ [job |-> new, type |-> type] \in Messages
    BY <1>1, JobFacts DEF Enqueue, Messages
  <2>2. /\ Len(msgChan') = Len(msgChan) + 1 /\ msgChan' \in Seq(Messages)
        /\ \A i \in 1 .. Len(msgChan) + 1 :
             msgChan'[i] = IF i = Len(msgChan) + 1 THEN [job |-> new, type |-> type]
                           ELSE msgChan[i]
    BY <2>1
  <2>3. /\ queueBar \in Seq(Jobs) /\ Len(queueBar) = Len(msgChan)
        /\ queueBar' \in Seq(Jobs) /\ Len(queueBar') = Len(msgChan')
    BY <2>1, <2>2, QueueBar DEF queueBar
  <2>4. \A i \in 1 .. Len(msgChan') : queueBar'[i] = Append(queueBar, new)[i]
    BY <1>1, <2>1, <2>2, <2>3 DEF queueBar
  <2> QED BY <1>1, <2>2, <2>3, <2>4
<1>5. Contract!Submit(new)
  BY <1>1, <1>2, <1>3, <1>4, ContractFrame
    DEF Contract!Submit, queueBar, servingBar, verdictBar, Jobs
<1> QED BY <1>1, <1>5 DEF Contract!Next, Contract!Jobs, Jobs

LEMMA TakeServes == TypeOK /\ TypeOK' /\ JobInv /\ Take => Contract!Next
<1> SUFFICES ASSUME TypeOK, TypeOK', JobInv, Take PROVE Contract!Next
  OBVIOUS
<1>1. /\ UNCHANGED <<report, answer>> /\ wpc = "idle" /\ wpc' = "ready"
      /\ msgChan # <<>> /\ m' = Head(msgChan) /\ msgChan' = Tail(msgChan)
  BY DEF Take, clientVars
<1>2. /\ msgChan \in Seq(Messages) /\ msgChan' \in Seq(Messages)
      /\ 1 \in DOMAIN msgChan /\ m' = msgChan[1]
      /\ Len(msgChan') = Len(msgChan) - 1 /\ Len(msgChan) \in Nat \ {0}
      /\ \A i \in 1 .. Len(msgChan) - 1 : msgChan'[i] = msgChan[i + 1]
  BY <1>1, JobFacts, NonEmpty
<1>3. /\ queueBar \in Seq(Jobs) /\ Len(queueBar) = Len(msgChan)
      /\ queueBar' \in Seq(Jobs) /\ Len(queueBar') = Len(msgChan')
  BY <1>2, QueueBar DEF queueBar
<1>4. queueBar # <<>> /\ servingBar' = Head(queueBar)
  BY <1>1, <1>2, <1>3 DEF queueBar, servingBar
<1>5. queueBar' = Tail(queueBar)
  <2>1. \A i \in 1 .. Len(msgChan) - 1 : queueBar'[i] = queueBar[i + 1]
    BY <1>2 DEF queueBar
  <2>2. /\ Tail(queueBar) \in Seq(Jobs) /\ Len(Tail(queueBar)) = Len(queueBar) - 1
        /\ \A i \in 1 .. Len(queueBar) - 1 : Tail(queueBar)[i] = queueBar[i + 1]
    BY <1>3, <1>4
  <2>3. /\ Len(queueBar') = Len(Tail(queueBar))
        /\ \A i \in 1 .. Len(queueBar') : queueBar'[i] = Tail(queueBar)[i]
    BY <1>2, <1>3, <2>1, <2>2
  <2> QED BY <1>3, <2>2, <2>3
<1>6. servingBar = <<>>
  BY <1>1 DEF servingBar
<1>7. Contract!Serve
  BY <1>1, <1>4, <1>5, <1>6, ContractFrame
    DEF Contract!Serve, queueBar, servingBar, verdictBar, Jobs
<1> QED BY <1>7 DEF Contract!Next

LEMMA PublishSettles == TypeOK /\ JobInv /\ Publish => Contract!Next
<1> SUFFICES ASSUME TypeOK, JobInv, Publish PROVE Contract!Next
  OBVIOUS
<1>1. /\ UNCHANGED <<m, msgChan, answer>> /\ wpc = "publishing" /\ wpc' = "idle"
      /\ report' = [report EXCEPT ![m.job] =
                      [task |-> currTaskId, outcome |-> sendErr, ackOf |-> ackOf]]
  BY DEF Publish, clientVars
<1>2. /\ m.job \in Jobs /\ m.job # <<>> /\ sendErr # "none"
      /\ report[m.job].outcome = "none" /\ DOMAIN report = Jobs
  BY <1>1 DEF TypeOK, WorkerTypeOK, Messages, JobInv, OnePlace, Reported, Jobs
<1>3. servingBar = m.job /\ servingBar' = <<>>
  BY <1>1 DEF servingBar
<1>4. verdictBar[m.job] = "none"
  BY <1>2 DEF verdictBar
<1>5. verdictBar' = [verdictBar EXCEPT ![m.job] = Verdict(sendErr)]
  <2>1. \A j \in Jobs : report'[j].outcome = IF j = m.job THEN sendErr ELSE report[j].outcome
    BY <1>1, <1>2
  <2>2. Verdict(sendErr) # "none"
    BY <1>2 DEF Verdict
  <2>3. \A j \in Jobs : verdictBar'[j] = IF j = m.job THEN Verdict(sendErr) ELSE verdictBar[j]
    BY <1>2, <2>1 DEF verdictBar
  <2>4. verdictBar = [j \in Jobs |-> verdictBar[j]] /\ verdictBar' = [j \in Jobs |-> verdictBar'[j]]
    BY DEF verdictBar
  <2> QED BY <1>2, <2>3, <2>4
<1>6. PICK v \in Contract!Verdicts : v = Verdict(sendErr)
  BY DEF Contract!Verdicts, Verdict
<1>7. Contract!Settle(v)
  BY <1>1, <1>2, <1>3, <1>4, <1>5, <1>6, ContractFrame
    DEF Contract!Settle, queueBar, servingBar, verdictBar, Jobs
<1> QED BY <1>7 DEF Contract!Next

-----------------------------------------------------------------------------
(* Answers *)

\* A request that has no answer yet gets one.
LEMMA Answering ==
  ASSUME NEW c \in Clients, NEW a \in {"ok", "failed", "invalid", "unavailable"},
         TypeOK, answer[c] = "none", answer' = [answer EXCEPT ![c] = a],
         UNCHANGED <<msgChan, report, m, wpc>>,
         a = "ok" => \A j \in Jobs : j[1] = c =>
           j # servingBar /\ j \notin Contract!Queued /\ verdictBar[j] # "failed",
         a = "failed" => \E j \in Jobs : j[1] = c /\ verdictBar[j] = "failed",
         a = "unavailable" => \A j \in Jobs : j[1] = c =>
           j # servingBar /\ j \notin Contract!Queued /\ verdictBar[j] = "none"
  PROVE  Contract!Next
<1>1. UNCHANGED <<queueBar, servingBar, verdictBar>>
  BY ContractFrame
<1>2. Contract!Of(c) = {j \in Jobs : j[1] = c}
  BY DEF Contract!Of, Contract!Jobs, Jobs
<1>3. Contract!Answer(c, a)
  BY <1>1, <1>2 DEF Contract!Answer, queueBar, servingBar, verdictBar, Jobs
<1> QED BY <1>3 DEF Contract!Next, Contract!Answers

LEMMA AdmitAnswers ==
  ASSUME TypeOK, JobInv, NEW c \in HttpClients, NEW b \in HttpBodies, Admit(c, b)
  PROVE  Contract!Next \/ UNCHANGED contractVars
<1>1. /\ c \in Clients /\ cpc[c] = "idle"
      /\ UNCHANGED <<msgChan, report, m, wpc>>
  BY DEF Admit, Clients, workerVars, chanVars
<1>2. CASE UNCHANGED answer
  BY <1>1, <1>2, ContractFrame DEF contractVars
<1>3. CASE answer' = [answer EXCEPT ![c] = "unavailable"]
  <2>1. answer[c] = "none" /\ queued[c] = 0
    BY <1>1 DEF JobInv, Told
  <2>2. \A j \in Jobs : j[1] = c => ~Numbered(j)
    BY <2>1, JobFacts DEF Numbered
  <2>3. \A j \in Jobs : j[1] = c =>
          j # servingBar /\ j \notin Contract!Queued /\ verdictBar[j] = "none"
    BY <2>2, Places
  <2> QED BY <1>1, <1>3, <2>1, <2>3, Answering
<1> QED BY <1>2, <1>3 DEF Admit

LEMMA SegmentSubmits ==
  ASSUME TypeOK, JobInv, NEW c \in Clients, QueueSegment(c) \/ QueueText(c)
  PROVE  Contract!Next \/ UNCHANGED contractVars
<1>1. UNCHANGED <<report, m, wpc>> /\ cpc[c] = "queueing"
  BY DEF QueueSegment, QueueText, workerVars
<1>2. CASE \E s \in JobTypes : Enqueue(c, s) /\ UNCHANGED answer
  BY <1>1, <1>2, EnqueueSubmits
<1>3. CASE answer' = [answer EXCEPT ![c] = "invalid"] /\ UNCHANGED msgChan
  <2>1. answer[c] = "none"
    BY <1>1 DEF JobInv, Told
  <2> QED BY <1>1, <1>3, <2>1, Answering
<1>4. CASE UNCHANGED <<msgChan, answer>>
  BY <1>1, <1>4, ContractFrame DEF contractVars
<1>5. CASE QueueSegment(c)
  <2>1. {"image", "mini_program"} \subseteq JobTypes
    BY DEF JobTypes, MsgTypes
  <2> QED BY <1>2, <1>3, <1>4, <1>5, <2>1 DEF QueueSegment
<1>6. CASE QueueText(c)
  <2>1. "text" \in JobTypes
    BY DEF JobTypes, MsgTypes
  <2> QED BY <1>2, <1>4, <1>6, <2>1 DEF QueueText
<1> QED BY <1>5, <1>6

\* "ok" after the last result: every message of the request was reported "ok".
LEMMA CollectAnswers ==
  ASSUME TypeOK, JobInv, NEW c \in Clients, Collect(c)
  PROVE  Contract!Next \/ UNCHANGED contractVars
<1> PICK j : j = <<c, collected[c] + 1>>
  OBVIOUS
<1>1. UNCHANGED <<msgChan, report, m, wpc>> /\ cpc[c] = "waiting"
  BY DEF Collect, workerVars
<1>2. /\ answer[c] = "none"
      /\ \A n \in 1 .. collected[c] : report[<<c, n>>].outcome = "ok"
  BY <1>1 DEF JobInv, Told
<1>3. CASE collected[c] = queued[c] /\ answer' = [answer EXCEPT ![c] = "ok"]
  <2>1. ASSUME NEW i \in Jobs, i[1] = c, Numbered(i)
        PROVE  report[i].outcome = "ok"
    <3>1. i = <<c, i[2]>> /\ i[2] \in 1 .. collected[c]
      BY <1>3, <2>1, JobFacts DEF Numbered
    <3> QED BY <1>2, <3>1
  <2>2. ASSUME NEW i \in Jobs, i[1] = c
        PROVE  i # servingBar /\ i \notin Contract!Queued /\ verdictBar[i] # "failed"
    BY <2>1, <2>2, Places DEF Reported, Verdict
  <2> QED BY <1>1, <1>2, <1>3, <2>2, Answering
<1>4. CASE UNCHANGED answer
  BY <1>1, <1>4, ContractFrame DEF contractVars
<1>5. CASE /\ collected[c] < queued[c] /\ resultChan[j] = "failed"
           /\ answer' = [answer EXCEPT ![c] = "failed"]
  <2>1. j \in Jobs /\ j[1] = c
    BY <1>5, PipelineAssumption DEF TypeOK, ClientTypeOK, Jobs
  <2>2. verdictBar[j] = "failed"
    BY <1>5, <2>1, Places DEF JobInv, Told
  <2> QED BY <1>1, <1>2, <1>5, <2>1, <2>2, Answering
<1> QED BY <1>3, <1>4, <1>5 DEF Collect

LEMMA ContractStep ==
  TypeOK /\ TypeOK' /\ JobInv /\ [Next]_vars => Contract!Next \/ UNCHANGED contractVars
<1> SUFFICES ASSUME TypeOK, TypeOK', JobInv, [Next]_vars
             PROVE  Contract!Next \/ UNCHANGED contractVars
  OBVIOUS
<1>1. CASE \E c \in HttpClients, b \in HttpBodies : Admit(c, b)
  BY <1>1, AdmitAnswers
<1>2. CASE \E c \in WsClients, b \in WsBodies : Receive(c, b)
  BY <1>2, ContractFrame DEF Receive, contractVars, workerVars, chanVars
<1>3. CASE \E c \in Clients : ClientStep(c)
  BY <1>3, SegmentSubmits, CollectAnswers DEF ClientStep
<1>4. CASE Worker
  <2>1. CASE Refuse \/ (\E o \in StartOutcomes : Call(o)) \/ CallReturns
    BY <2>1, ContractFrame DEF Refuse, Call, CallReturns, contractVars, chanVars, clientVars
  <2>2. CASE TakeAck \/ Timeout \/ Cancel
    BY <2>2, ContractFrame DEF TakeAck, Timeout, Cancel, contractVars, chanVars, clientVars
  <2> QED BY <1>4, <2>1, <2>2, TakeServes, PublishSettles DEF Worker
<1>5. CASE \E r \in buf2resp : Deliver(r)
  BY <1>5, ContractFrame DEF Deliver, contractVars, workerVars, clientVars
<1>6. CASE (\E t \in classicTimers : ClassicTimer(t)) \/ WeChat
  BY <1>6, ContractFrame DEF ClassicTimer, WeChat, goVars, contractVars, chanVars,
    workerVars, clientVars
<1>7. CASE UNCHANGED vars
  BY <1>7, ContractFrame DEF vars, contractVars, chanVars, workerVars, clientVars
<1> QED BY <1>1, <1>2, <1>3, <1>4, <1>5, <1>6, <1>7 DEF Next

(***************************************************************************)
(* The pipeline implements its contract: messages are sent in queue order, *)
(* one at a time, with one verdict each, and an HTTP request is told "ok"  *)
(* only if every message it queued got that verdict (http.go:179,          *)
(* worker.go:26), whatever times out, is late or is never answered.        *)
(***************************************************************************)
THEOREM ContractKept == Spec => ImplementsContract
<1>1. Init => TypeOK /\ JobInv
  BY TypeInit, JobInit
<1>2. (TypeOK /\ JobInv) /\ [Next]_vars => (TypeOK /\ JobInv)'
  BY TypeNext, JobNext
<1>3. Init => Contract!Init
  BY ContractInit
<1>4. (TypeOK /\ JobInv) /\ (TypeOK /\ JobInv)' /\ [Next]_vars
        => [Contract!Next]_(Contract!vars)
  BY ContractStep, ContractVars DEF contractVars, queueBar, servingBar, verdictBar,
    Contract!vars
<1> QED BY <1>1, <1>2, <1>3, <1>4, PTL DEF Spec, ImplementsContract, Contract!Spec

=============================================================================
