-------------------------------- MODULE Agent --------------------------------
(***************************************************************************)
(* The send side of the Frida agent (onebot/script.js) that lives inside   *)
(* the WeChat process, and WeChat as the agent sees it.                    *)
(*                                                                         *)
(* The agent holds the JavaScript lock while a handler runs, so a handler  *)
(* is one step; the lock is given up only around a native call, so a send  *)
(* export is two steps, BeginSend (up to MMStartTask) and EndSend (after   *)
(* it), and WeChat's own threads run hooks in between.                     *)
(*                                                                         *)
(* WeChat is external: it may run req2buf for a task it took, may bring    *)
(* the server's response to the delivery point, and may do neither.        *)
(* The module has actions, no specification: SendPipeline composes them    *)
(* with the Go process that calls the exports.                             *)
(***************************************************************************)
EXTENDS Naturals

CONSTANTS
  AutoBuffer,          \* receiveResponseMode = "auto_buffer" (4.1.13), else "legacy"
  MiniProgramEnabled   \* --enable_mini_program_send: its hooks are attached

ASSUME AgentAssumption == AutoBuffer \in BOOLEAN /\ MiniProgramEnabled \in BOOLEAN

VARIABLES
  taskIdGlobal,              \* the task the req2buf hooks look for, 0 for none
  sendMsgType,               \* what kind the req2buf hooks take that task for
  classicPendingTaskId,      \* the cloned text task whose response is awaited
  classicTimers,             \* tasks whose 25 s clean-up timer is armed
  miniProgramPendingTaskId,  \* the card whose response is awaited
  pendingBuf2RespTaskId,     \* the slot cancelPendingTextMessage looks at
  call,                      \* the send export waiting in MMStartTask
  buf2resp,                  \* responses sent to Go, one goroutine each
  started, encoded,          \* WeChat: tasks queued, tasks past req2buf
  answered, accepted         \* WeChat: tasks answered, tasks the server took

scriptVars == <<taskIdGlobal, sendMsgType, classicPendingTaskId, classicTimers,
                miniProgramPendingTaskId, pendingBuf2RespTaskId, call, buf2resp>>
wechatVars == <<started, encoded, answered, accepted>>
agentVars  == <<scriptVars, wechatVars>>

-----------------------------------------------------------------------------
\* Task ids are the Go counter above its base 0x20000000; 0 is "none".
TaskIds == Nat \ {0}
MsgTypes == {"text", "mini_program"}

\* What MMStartTask did with the task: it returned 1, it returned another
\* value, or the native call threw (before WeChat queued anything).
StartOutcomes == {"queued", "refused", "faulted"}

NoCall == [task |-> 0, kind |-> "text", outcome |-> "faulted"]

Responses == [task : TaskIds, ok : BOOLEAN, msgType : MsgTypes]

AgentTypeOK ==
  /\ taskIdGlobal \in Nat
  /\ sendMsgType \in MsgTypes \cup {""}
  /\ classicPendingTaskId \in Nat
  /\ classicTimers \in SUBSET TaskIds
  /\ miniProgramPendingTaskId \in Nat
  /\ pendingBuf2RespTaskId \in Nat
  /\ call = NoCall \/ call \in [task : TaskIds, kind : MsgTypes, outcome : StartOutcomes]
  /\ buf2resp \in SUBSET Responses
  /\ started \in SUBSET TaskIds
  /\ encoded \in SUBSET started
  /\ answered \in SUBSET started
  /\ accepted \in SUBSET answered

AgentInit ==
  /\ taskIdGlobal = 0
  /\ sendMsgType = ""
  /\ classicPendingTaskId = 0
  /\ classicTimers = {}
  /\ miniProgramPendingTaskId = 0
  /\ pendingBuf2RespTaskId = 0
  /\ call = NoCall
  /\ buf2resp = {}
  /\ started = {} /\ encoded = {} /\ answered = {} /\ accepted = {}

-----------------------------------------------------------------------------
\* Exports and timers run on the agent's one script thread, which is inside
\* MMStartTask during a send; hooks run on WeChat's threads.
ScriptThreadFree == call = NoCall

\* getMiniProgramSendStatus() = "ready"; the StartTask context is captured
\* before the model starts.
MiniProgramReady == MiniProgramEnabled /\ miniProgramPendingTaskId = 0

\* triggerClassicCloneSend up to the native call; sendMsgType is left as it was.
BeginClassic(t, o) ==
  /\ ScriptThreadFree
  /\ call' = [task |-> t, kind |-> "text", outcome |-> o]
  /\ taskIdGlobal' = t
  /\ UNCHANGED sendMsgType

\* triggerSendMediaMessage up to the native call.
BeginMedia(t, k, o) ==
  /\ ScriptThreadFree
  /\ call' = [task |-> t, kind |-> k, outcome |-> o]
  /\ taskIdGlobal' = t
  /\ sendMsgType' = k

\* MMStartTask queues the task, or refuses it, or throws.
BeginSend(t, k, o) ==
  /\ IF k = "text" THEN BeginClassic(t, o) ELSE BeginMedia(t, k, o)
  /\ started' = IF o = "queued" THEN started \cup {t} ELSE started
  /\ UNCHANGED <<classicPendingTaskId, classicTimers, miniProgramPendingTaskId,
                 pendingBuf2RespTaskId, buf2resp, encoded, answered, accepted>>

\* The slot registered without the timer that frees it.
EndClassicUntimed ==
  /\ IF call.outcome = "queued"
     THEN classicPendingTaskId' = call.task
     ELSE UNCHANGED classicPendingTaskId
  /\ UNCHANGED classicTimers

\* triggerClassicCloneSend after the native call: only now is a queued task
\* registered, and its 25 s timer armed.
EndClassic ==
  IF call.outcome = "queued"
  THEN /\ classicPendingTaskId' = call.task
       /\ classicTimers' = classicTimers \cup {call.task}
  ELSE UNCHANGED <<classicPendingTaskId, classicTimers>>

\* The export returns.  The media function registers nothing here, and neither
\* function tells a refused task from a queued one.
EndSend ==
  /\ ~ScriptThreadFree
  /\ call' = NoCall
  /\ IF call.kind = "text" THEN EndClassic
     ELSE UNCHANGED <<classicPendingTaskId, classicTimers>>
  /\ UNCHANGED <<taskIdGlobal, sendMsgType, miniProgramPendingTaskId,
                 pendingBuf2RespTaskId, buf2resp, wechatVars>>

\* The 25 s timer of task t; it clears the slot only if the slot is still t's.
TimerFiresUnguarded(t) ==
  /\ ScriptThreadFree
  /\ t \in classicTimers
  /\ classicTimers' = classicTimers \ {t}
  /\ classicPendingTaskId' = 0
  /\ UNCHANGED <<taskIdGlobal, sendMsgType, miniProgramPendingTaskId,
                 pendingBuf2RespTaskId, call, buf2resp, wechatVars>>

TimerFires(t) ==
  /\ ScriptThreadFree
  /\ t \in classicTimers
  /\ classicTimers' = classicTimers \ {t}
  /\ classicPendingTaskId' = IF classicPendingTaskId = t THEN 0
                             ELSE classicPendingTaskId
  /\ UNCHANGED <<taskIdGlobal, sendMsgType, miniProgramPendingTaskId,
                 pendingBuf2RespTaskId, call, buf2resp, wechatVars>>

\* cancelPendingTextMessage: it knows only the req2buf slot.
CancelText(t) ==
  /\ ScriptThreadFree
  /\ pendingBuf2RespTaskId' = IF pendingBuf2RespTaskId = t THEN 0
                              ELSE pendingBuf2RespTaskId
  /\ UNCHANGED <<taskIdGlobal, sendMsgType, classicPendingTaskId, classicTimers,
                 miniProgramPendingTaskId, call, buf2resp, wechatVars>>

\* cancelPendingMiniProgram
CancelMiniProgram(t) ==
  /\ ScriptThreadFree
  /\ miniProgramPendingTaskId' = IF miniProgramPendingTaskId = t THEN 0
                                 ELSE miniProgramPendingTaskId
  /\ UNCHANGED <<taskIdGlobal, sendMsgType, classicPendingTaskId, classicTimers,
                 pendingBuf2RespTaskId, call, buf2resp, wechatVars>>

-----------------------------------------------------------------------------
\* The exit hook of req2buf, attached by setupMiniProgramSend only: the task
\* named by taskIdGlobal is registered in the slot sendMsgType names.
Req2BufExit(t) ==
  /\ MiniProgramEnabled
  /\ t \in started \ encoded
  /\ encoded' = encoded \cup {t}
  /\ IF t = taskIdGlobal
     THEN /\ taskIdGlobal' = 0
          /\ IF sendMsgType = "mini_program"
             THEN /\ miniProgramPendingTaskId' = t
                  /\ UNCHANGED pendingBuf2RespTaskId
             ELSE /\ pendingBuf2RespTaskId' = t
                  /\ UNCHANGED miniProgramPendingTaskId
     ELSE UNCHANGED <<taskIdGlobal, miniProgramPendingTaskId, pendingBuf2RespTaskId>>
  /\ UNCHANGED <<sendMsgType, classicPendingTaskId, classicTimers, call,
                 buf2resp, started, answered, accepted>>

\* The response of task t reaches the delivery point: the server took the
\* message or it did not.  A request is answered only after it was encoded.
Answers(t, ok) ==
  /\ t \in started \ answered
  /\ MiniProgramEnabled => t \in encoded
  /\ answered' = answered \cup {t}
  /\ accepted' = IF ok THEN accepted \cup {t} ELSE accepted

\* setReceiver's onEnter for a response of task t.  In auto_buffer mode the
\* classic branch calls readByteArray on an ArrayBuffer and throws before it
\* changes anything.  A response of no registered task is not a send answer.
Response(t, ok) ==
  /\ Answers(t, ok)
  /\ \/ /\ classicPendingTaskId = t /\ AutoBuffer
        /\ UNCHANGED <<classicPendingTaskId, miniProgramPendingTaskId, buf2resp>>
     \/ /\ classicPendingTaskId = t /\ ~AutoBuffer
        /\ classicPendingTaskId' = 0
        /\ buf2resp' = buf2resp \cup {[task |-> t, ok |-> ok, msgType |-> "text"]}
        /\ UNCHANGED miniProgramPendingTaskId
     \/ /\ classicPendingTaskId # t /\ miniProgramPendingTaskId = t
        /\ miniProgramPendingTaskId' = 0
        /\ buf2resp' = buf2resp \cup {[task |-> t, ok |-> ok, msgType |-> "mini_program"]}
        /\ UNCHANGED classicPendingTaskId
     \/ /\ t \notin {classicPendingTaskId, miniProgramPendingTaskId}
        /\ UNCHANGED <<classicPendingTaskId, miniProgramPendingTaskId, buf2resp>>
  /\ UNCHANGED <<taskIdGlobal, sendMsgType, classicTimers, pendingBuf2RespTaskId,
                 call, started, encoded>>
=============================================================================
