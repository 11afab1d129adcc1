---------------------------- MODULE RealTextSend ----------------------------
(***************************************************************************)
(* Text sent through WeChat's own factory (onebot/script.js, the path that *)
(* triggerSendTextMessage takes until a real task has been captured for    *)
(* cloning): the export hands the text to WeChat's asynchronous submit,    *)
(* hooks on WeChat's threads learn which task that became, and the answer  *)
(* is recognised by the address of the request object.                     *)
(*                                                                         *)
(* The hooks learn by coincidence: while a trace is active, the latest     *)
(* request built and the latest task the factory returned are taken for    *)
(* the bot's.  Operation o of WeChat is send o of the bot, or, above       *)
(* MaxSends, a message the user types; its task id is o as well.           *)
(*                                                                         *)
(* The caller is SendWechatMsg: one send at a time, 15 s for the answer,   *)
(* then a cancel, whose failure it does not look at.                       *)
(***************************************************************************)
EXTENDS Naturals

CONSTANTS
  MaxSends,     \* bound: sends of the bot
  UserSends,    \* bound: messages the user sends in the same client
  Addrs,        \* bound: addresses request objects are allocated at
  LateFactory,  \* TRUE: WeChat may run the factory after the 3 s deadline
  LostCancels,  \* TRUE: the call of a cancel may fail
  CardHooks     \* --enable_mini_program_send: the req2buf hooks are attached

VARIABLES
  status, warm,             \* realTextSendStatus; the 15 s after setup are over
  traceActive, traceTask, traceRequest,
  pendingTask, pendingAt,   \* pendingBuf2RespTaskId and the age of its time stamp
  pendingRequest, pendingFuture,
  toFree, freed,            \* futures with a destructor scheduled; destructions
  classicReady,             \* a real task was captured: texts are cloned from now on
  provider,                 \* WeChat's manager provider returns an object
  stage, addr,              \* WeChat's operations and their request objects
  acks,                     \* buf2resp messages not yet taken by the caller
  pc, cur, nativeTask,      \* the caller: where it is, its send, the id it was told
  verdict                   \* what became of each send

traceVars   == <<traceActive, traceTask, traceRequest>>
futureVars  == <<pendingFuture, toFree, freed>>
pendingVars == <<pendingTask, pendingAt, pendingRequest, pendingFuture, toFree>>
wechatVars  == <<provider, stage, addr>>
callerVars  == <<pc, cur, nativeTask, verdict>>
vars == <<status, warm, classicReady, traceVars, pendingVars, freed, wechatVars, acks, callerVars>>

-----------------------------------------------------------------------------
Sends == 1 .. MaxSends
Ops   == 1 .. (MaxSends + UserSends)
CloneTask == MaxSends + UserSends + 1   \* the id of a cloned task

Answers == [task : Ops \cup {CloneTask}, op : Ops, ok : BOOLEAN]

\* Every variable keeps its type, and a future is never destroyed twice
\* (releasePendingRealTextFuture).
TypeOK ==
  /\ status \in {"off", "unavailable", "ready", "faulted"}
  /\ warm \in BOOLEAN /\ classicReady \in BOOLEAN /\ provider \in BOOLEAN
  /\ traceActive \in BOOLEAN /\ traceTask \in Ops \cup {0} /\ traceRequest \in Addrs \cup {0}
  /\ pendingTask \in Ops \cup {0, CloneTask}
  /\ pendingAt \in {"none", "fresh", "old"}
  /\ pendingRequest \in Addrs \cup {0}
  /\ pendingFuture \in Sends \cup {0}
  /\ toFree \in SUBSET Sends /\ freed \in [Sends -> 0 .. 1]
  /\ stage \in [Ops -> {"none", "queued", "built", "sent", "over"}]
  /\ addr \in [Ops -> Addrs \cup {0}]
  /\ acks \in SUBSET Answers
  /\ pc \in {"idle", "submitting", "submitted", "polling", "waiting", "cancelling"}
  /\ cur \in 0 .. MaxSends /\ nativeTask \in Ops \cup {0}
  /\ verdict \in [Sends -> {"none", "ok", "failed", "never ran", "timeout"}]

Init ==
  /\ status = "off" /\ warm = FALSE /\ classicReady = FALSE
  /\ traceActive = FALSE /\ traceTask = 0 /\ traceRequest = 0
  /\ pendingTask = 0 /\ pendingAt = "none" /\ pendingRequest = 0 /\ pendingFuture = 0
  /\ toFree = {} /\ freed = [s \in Sends |-> 0]
  /\ provider = FALSE
  /\ stage = [o \in Ops |-> "none"] /\ addr = [o \in Ops |-> 0]
  /\ acks = {}
  /\ pc = "idle" /\ cur = 0 /\ nativeTask = 0
  /\ verdict = [s \in Sends |-> "none"]

-----------------------------------------------------------------------------
(* Set-up and status *)

\* Exports and timers wait while the script thread is inside a native call.
ScriptThreadFree == pc \notin {"submitting", "submitted"}

\* An address that is missing in the configuration leaves the path off.
SetupRealTextSend ==
  /\ status = "off"
  /\ status' \in {"ready", "unavailable"}
  /\ UNCHANGED <<warm, classicReady, traceVars, pendingVars, freed, wechatVars, acks, callerVars>>

WarmUp ==
  /\ status # "off" /\ ~warm
  /\ warm' = TRUE
  /\ UNCHANGED <<status, classicReady, traceVars, pendingVars, freed, wechatVars, acks, callerVars>>

Expired == pendingAt = "old"

\* getSendContextStatus; isRealTextManagerProviderReady is provider.
SendContextStatus ==
  IF classicReady THEN "ready"
  ELSE IF status = "faulted" THEN "faulted"
  ELSE IF status # "ready" THEN "ack-unavailable"
  ELSE IF pendingTask # 0 /\ ~Expired THEN "busy"
  ELSE IF ~warm \/ ~provider THEN "warming_up"
  ELSE "ready"

\* releasePendingRealTextFuture: forget the future, destroy it from a timer.
ReleaseFuture ==
  /\ toFree' = IF pendingFuture = 0 THEN toFree ELSE toFree \cup {pendingFuture}
  /\ pendingFuture' = 0

\* The release forgotten.
ClearKeepingFuture ==
  /\ pendingTask' = 0 /\ pendingAt' = "none" /\ pendingRequest' = 0
  /\ UNCHANGED <<pendingFuture, toFree>>

ClearPending ==
  /\ pendingTask' = 0 /\ pendingAt' = "none" /\ pendingRequest' = 0
  /\ ReleaseFuture

\* Asking for the status drops a registration older than 20 s.
AskStatus ==
  /\ ScriptThreadFree
  /\ ~classicReady /\ status = "ready"
  /\ pendingTask # 0 /\ Expired
  /\ ClearPending
  /\ UNCHANGED <<status, warm, classicReady, traceVars, freed, wechatVars, acks, callerVars>>

FreeFuture(f) ==
  /\ ScriptThreadFree
  /\ f \in toFree
  /\ toFree' = toFree \ {f}
  /\ freed' = [freed EXCEPT ![f] = @ + 1]
  /\ UNCHANGED <<status, warm, classicReady, traceVars, pendingTask, pendingAt, pendingRequest,
                 pendingFuture, wechatVars, acks, callerVars>>

\* 20 s pass after the time stamp: the caller has given up by then.
Age ==
  /\ pendingAt = "fresh" /\ pc = "idle"
  /\ pendingAt' = "old"
  /\ UNCHANGED <<status, warm, classicReady, traceVars, pendingTask, pendingRequest, futureVars,
                 wechatVars, acks, callerVars>>

-----------------------------------------------------------------------------
(* triggerSendTextMessage *)

Verdict(s, v) == verdict' = [verdict EXCEPT ![s] = v]

\* The next send of the caller reaches the real text path.
NextSend ==
  /\ pc = "idle" /\ cur < MaxSends /\ ~classicReady
  /\ cur' = cur + 1

Refuse ==
  /\ NextSend
  /\ status # "ready" \/ (pendingTask # 0 /\ ~Expired)
  /\ Verdict(cur', "failed")
  /\ UNCHANGED <<status, warm, classicReady, traceVars, pendingVars, freed, wechatVars, acks,
                 pc, nativeTask>>

CanSubmit == status = "ready" /\ (pendingTask = 0 \/ Expired)

\* An expired registration is dropped, then WeChat refuses the protobuf.
ParseRejects ==
  /\ NextSend /\ CanSubmit
  /\ IF pendingTask # 0 THEN ClearPending ELSE UNCHANGED pendingVars
  /\ Verdict(cur', "failed")
  /\ UNCHANGED <<status, warm, classicReady, traceVars, freed, wechatVars, acks, pc, nativeTask>>

\* The payload constructor or the parser faults.
PayloadFaults ==
  /\ NextSend /\ CanSubmit
  /\ traceActive' = FALSE
  /\ ClearPending
  /\ status' = "faulted"
  /\ Verdict(cur', "failed")
  /\ UNCHANGED <<warm, classicReady, traceTask, traceRequest, freed, wechatVars, acks, pc, nativeTask>>

\* The trace starts before the native submit.
BeginSubmit ==
  /\ NextSend /\ CanSubmit
  /\ traceActive' = TRUE /\ traceTask' = 0 /\ traceRequest' = 0
  /\ pendingTask' = 0
  /\ IF pendingTask # 0
     THEN /\ pendingAt' = "none" /\ pendingRequest' = 0
          /\ toFree' = IF pendingFuture = 0 THEN toFree ELSE toFree \cup {pendingFuture}
     ELSE UNCHANGED <<pendingAt, pendingRequest, toFree>>
  /\ pendingFuture' = cur'
  /\ pc' = "submitting"
  /\ UNCHANGED <<status, warm, classicReady, freed, wechatVars, acks, nativeTask, verdict>>

\* The catch block; only a missing manager leaves the path usable.
SubmitFails(newStatus) ==
  /\ traceActive' = FALSE
  /\ ClearPending
  /\ status' = newStatus
  /\ pc' = "idle"
  /\ Verdict(cur, "failed")
  /\ UNCHANGED <<warm, classicReady, traceTask, traceRequest, freed, wechatVars, acks, cur, nativeTask>>

ManagerUnavailable == pc = "submitting" /\ ~provider /\ SubmitFails("ready")

SubmitFaults == pc \in {"submitting", "submitted"} /\ SubmitFails("faulted")

\* The native submit queues the operation, and then returns.
SubmitQueues ==
  /\ pc = "submitting" /\ provider
  /\ stage' = [stage EXCEPT ![cur] = "queued"]
  /\ pc' = "submitted"
  /\ UNCHANGED <<status, warm, classicReady, traceVars, pendingVars, freed, provider, addr, acks,
                 cur, nativeTask, verdict>>

SubmitReturns ==
  /\ pc = "submitted"
  /\ pc' = "polling"
  /\ UNCHANGED <<status, warm, classicReady, traceVars, pendingVars, freed, wechatVars, acks,
                 cur, nativeTask, verdict>>

\* waitForFactory sees the task the hook recorded.
FactorySeen ==
  /\ pc = "polling" /\ traceTask # 0
  /\ traceActive' = FALSE
  /\ nativeTask' = traceTask
  /\ pc' = "waiting"
  /\ UNCHANGED <<status, warm, classicReady, traceTask, traceRequest, pendingVars, freed,
                 wechatVars, acks, cur, verdict>>

\* The 3 s are over: "async text factory did not run".
FactoryDeadline ==
  /\ pc = "polling" /\ traceTask = 0
  /\ LateFactory \/ stage[cur] = "over"
  /\ traceActive' = FALSE
  /\ ClearPending
  /\ pc' = "idle"
  /\ Verdict(cur, "never ran") /\ UNCHANGED cur
  /\ UNCHANGED <<status, warm, classicReady, traceTask, traceRequest, freed, wechatVars, acks,
                 nativeTask>>

-----------------------------------------------------------------------------
(* WeChat's threads and the hooks on them *)

ProviderChanges ==
  /\ provider' = ~provider
  /\ UNCHANGED <<status, warm, classicReady, traceVars, pendingVars, freed, stage, addr, acks,
                 callerVars>>

UserSend(o) ==
  /\ o > MaxSends /\ stage[o] = "none"
  /\ stage' = [stage EXCEPT ![o] = "queued"]
  /\ UNCHANGED <<status, warm, classicReady, traceVars, pendingVars, freed, provider, addr, acks,
                 callerVars>>

\* The request constructor, inside the factory.
RequestCtor(o, a) ==
  /\ stage[o] = "queued"
  /\ \A p \in Ops : addr[p] # a
  /\ stage' = [stage EXCEPT ![o] = "built"]
  /\ addr' = [addr EXCEPT ![o] = a]
  /\ traceRequest' = IF traceActive THEN a ELSE traceRequest
  /\ UNCHANGED <<status, warm, classicReady, traceActive, traceTask, pendingVars, freed, provider,
                 acks, callerVars>>

\* The time stamp forgotten.
FactoryLeaveUntimed(o) ==
  /\ stage[o] = "built"
  /\ stage' = [stage EXCEPT ![o] = "sent"]
  /\ IF traceActive
     THEN /\ traceTask' = o
          /\ pendingTask' = o /\ pendingRequest' = traceRequest
     ELSE UNCHANGED <<traceTask, pendingTask, pendingRequest>>
  /\ UNCHANGED <<status, warm, classicReady, traceActive, traceRequest, pendingAt, futureVars, provider,
                 addr, acks, callerVars>>

\* The factory returns a task id.
FactoryLeave(o) ==
  /\ stage[o] = "built"
  /\ stage' = [stage EXCEPT ![o] = "sent"]
  /\ IF traceActive
     THEN /\ traceTask' = o
          /\ pendingTask' = o /\ pendingAt' = "fresh" /\ pendingRequest' = traceRequest
     ELSE UNCHANGED <<traceTask, pendingTask, pendingAt, pendingRequest>>
  /\ UNCHANGED <<status, warm, classicReady, traceActive, traceRequest, futureVars, provider,
                 addr, acks, callerVars>>

\* The factory returns 0 and its request is gone.
FactoryFails(o) ==
  /\ stage[o] = "built"
  /\ stage' = [stage EXCEPT ![o] = "over"]
  /\ addr' = [addr EXCEPT ![o] = 0]
  /\ traceTask' = IF traceActive THEN 0 ELSE traceTask
  /\ UNCHANGED <<status, warm, classicReady, traceActive, traceRequest, pendingVars, freed,
                 provider, acks, callerVars>>

\* Any answer ends whatever is registered.
ResponseAnyRequest(o, ok) ==
  /\ stage[o] = "sent"
  /\ stage' = [stage EXCEPT ![o] = "over"]
  /\ addr' = [addr EXCEPT ![o] = 0]
  /\ IF pendingTask # 0 /\ pendingRequest # 0
     THEN /\ acks' = acks \cup {[task |-> pendingTask, op |-> o, ok |-> ok]}
          /\ ClearPending
     ELSE UNCHANGED <<acks, pendingVars>>
  /\ UNCHANGED <<status, warm, classicReady, traceVars, freed, provider, callerVars>>

\* The answer arrives: ok unless the server refused or the bytes cannot be
\* read (then an empty answer is sent, which Go takes for a failure).
Response(o, ok) ==
  /\ stage[o] = "sent"
  /\ stage' = [stage EXCEPT ![o] = "over"]
  /\ addr' = [addr EXCEPT ![o] = 0]
  /\ IF pendingTask # 0 /\ pendingRequest # 0 /\ pendingRequest = addr[o]
     THEN /\ acks' = acks \cup {[task |-> pendingTask, op |-> o, ok |-> ok]}
          /\ ClearPending
     ELSE UNCHANGED <<acks, pendingVars>>
  /\ UNCHANGED <<status, warm, classicReady, traceVars, freed, provider, callerVars>>

\* WeChat gives an operation up without an answer.
Lose(o) ==
  /\ stage[o] = "sent"
  /\ stage' = [stage EXCEPT ![o] = "over"]
  /\ addr' = [addr EXCEPT ![o] = 0]
  /\ UNCHANGED <<status, warm, classicReady, traceVars, pendingVars, freed, provider, acks,
                 callerVars>>

-----------------------------------------------------------------------------
(* The caller, and the change to cloning *)

TakeAck(a) ==
  /\ pc = "waiting" /\ a \in acks
  /\ acks' = acks \ {a}
  /\ pc' = "idle" /\ UNCHANGED cur
  /\ Verdict(cur, IF a.ok THEN "ok" ELSE "failed")
  /\ UNCHANGED <<status, warm, classicReady, traceVars, pendingVars, freed, wechatVars, nativeTask>>

Timeout ==
  /\ pc = "waiting"
  /\ pc' = "cancelling" /\ UNCHANGED cur
  /\ Verdict(cur, "timeout")
  /\ UNCHANGED <<status, warm, classicReady, traceVars, pendingVars, freed, wechatVars, acks,
                 nativeTask>>

\* cancelPendingTextMessage(task), for the task the export reported.
CancelPending(task) ==
  IF pendingTask # 0 /\ pendingTask = task THEN ClearPending ELSE UNCHANGED pendingVars

Cancel ==
  /\ pc = "cancelling"
  /\ pc' = "idle"
  /\ CancelPending(nativeTask) \/ (LostCancels /\ UNCHANGED pendingVars)
  /\ UNCHANGED <<status, warm, classicReady, traceVars, freed, wechatVars, acks, cur, nativeTask,
                 verdict>>

\* triggerX0 and a template are there: they are never given up again.
BecomeClassic ==
  /\ ScriptThreadFree /\ ~classicReady
  /\ classicReady' = TRUE
  /\ UNCHANGED <<status, warm, traceVars, pendingVars, freed, wechatVars, acks, callerVars>>

\* With the card hooks, the req2buf exit hook registers a cloned text in the
\* same variable; it sets no time and leaves the request as it was.
RegisterClone ==
  /\ CardHooks /\ classicReady /\ pc = "idle"
  /\ pendingTask' = CloneTask
  /\ UNCHANGED <<status, warm, classicReady, traceVars, pendingAt, pendingRequest, futureVars,
                 wechatVars, acks, callerVars>>

CancelClone ==
  /\ pendingTask = CloneTask /\ pc = "idle"
  /\ CancelPending(CloneTask)
  /\ UNCHANGED <<status, warm, classicReady, traceVars, freed, wechatVars, acks, callerVars>>

Trigger == Refuse \/ ParseRejects \/ PayloadFaults \/ BeginSubmit
Submit  == ManagerUnavailable \/ SubmitFaults \/ SubmitQueues \/ SubmitReturns
Poll    == FactorySeen \/ FactoryDeadline
WeChat  == \/ ProviderChanges
           \/ \E o \in Ops : UserSend(o) \/ FactoryLeave(o) \/ FactoryFails(o) \/ Lose(o)
           \/ \E o \in Ops, a \in Addrs : RequestCtor(o, a)
           \/ \E o \in Ops, ok \in BOOLEAN : Response(o, ok)
Await   == (\E a \in acks : TakeAck(a)) \/ Timeout \/ Cancel
Classic == BecomeClassic \/ RegisterClone \/ CancelClone

Next == \/ SetupRealTextSend \/ WarmUp \/ AskStatus \/ Age
        \/ \E f \in Sends : FreeFuture(f)
        \/ Trigger \/ Submit \/ Poll \/ Await \/ WeChat \/ Classic

Spec == Init /\ [][Next]_vars

\* The native submit returns, the caller's timers fire, time passes, and
\* somebody asks for the status now and then.
Fairness ==
  /\ WF_vars(Submit) /\ WF_vars(Poll) /\ WF_vars(Await)
  /\ WF_vars(Age) /\ WF_vars(AskStatus)
  /\ \A f \in Sends : WF_vars(FreeFuture(f))

FairSpec == Spec /\ Fairness

-----------------------------------------------------------------------------
\* A future is either held, or scheduled for its destructor, or destroyed,
\* and never two of these; one is held only while its send is submitted or
\* registered: nothing leaks and nothing is destroyed twice, whichever of the
\* answer, the deadline, a fault, a cancel or the 20 s expiry comes first
\* (script.js:1009, 1633).
FuturesAccountedFor ==
  /\ pendingFuture \notin toFree
  /\ \A f \in Sends : freed[f] = 1 => f \notin toFree /\ f # pendingFuture
  /\ pendingFuture # 0 => pc \in {"submitting", "submitted", "polling"} \/ pendingTask # 0
  /\ \A f \in Sends : f <= cur /\ stage[f] # "none"
       => f = pendingFuture \/ f \in toFree \/ freed[f] = 1

\* Whatever is registered will be dropped: its send is in progress, or it
\* carries a time stamp for the 20 s expiry, or texts no longer come this way
\* (script.js:1477, 1599).
RegistrationExpires ==
  pendingTask # 0 => pc # "idle" \/ pendingAt # "none" \/ classicReady

\* An answer handed to Go for a task is the answer WeChat got for that task
\* (script.js:1187).
AnswerOfOwnTask == \A a \in acks : a.task = a.op

\* A send that failed because "async text factory did not run" (script.js:1561)
\* is not sent after all.
FailedMeansNotSent ==
  \A s \in Sends : verdict[s] = "never ran" => stage[s] # "sent"

\* The status does not stay "busy": a lost cancel is made up for by the expiry
\* (script.js:1599).
NotBusyForever == []<>(SendContextStatus # "busy")
=============================================================================
