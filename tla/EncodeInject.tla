---------------------------- MODULE EncodeInject ----------------------------
(***************************************************************************)
(* How the agent (onebot/script.js) puts its protobuf into a task.  WeChat *)
(* serialises a queued task on a thread of its own, some time after        *)
(* MMStartTask returned.  Two hooks replace what is written then:          *)
(*                                                                         *)
(*   - attachEncodeInject, on the write function every serialisation calls:*)
(*     the first write within 1.5 s of a text trigger gets the text;       *)
(*   - attachBlrX8Hook (card sends only), on the encoder call: the task    *)
(*     named by taskIdGlobal gets the protobuf of the kind sendMsgType     *)
(*     names.  It calls the write function from inside a hook, where Frida *)
(*     runs no further hook of the same thread (an assumption about Frida),*)
(*     and the encoder it replaces writes nothing any more: the first hook *)
(*     never sees that task.                                               *)
(*                                                                         *)
(* Task t is send t of the bot, or, above MaxSends, a task of WeChat's own.*)
(* Its payload is the send whose protobuf was written, 0 for whatever the  *)
(* task had to begin with (a clone has its template's).                    *)
(***************************************************************************)
EXTENDS Naturals

CONSTANTS
  MaxSends,     \* bound: sends of the bot
  OwnTasks,     \* bound: tasks WeChat starts itself
  CardHooks,    \* --enable_mini_program_send
  Faults,       \* TRUE: MMStartTask may throw or refuse the task
  LateEncodes   \* TRUE: a task may be serialised more than 1.5 s later

VARIABLES
  pc, cur, kind,         \* the one worker: where it is, its send, each send's kind
  window, injected,      \* classicSendWindow with its timer; encodeInjected
  textProto, fileProto,  \* the sends textProtoHexGlobal, fileProtoHexGlobal are of
  sendMsgType, taskIdGlobal,
  stage, payload         \* WeChat: each task, and what was written for it

protoVars == <<textProto, fileProto, sendMsgType>>
vars == <<pc, cur, kind, window, injected, protoVars, taskIdGlobal, stage, payload>>

-----------------------------------------------------------------------------
Sends == 1 .. MaxSends
Tasks == 1 .. (MaxSends + OwnTasks)

\* Every variable keeps its type; nothing is injected before a text was given
\* (script.js:689).
TypeOK ==
  /\ pc \in {"idle", "calling", "queued", "waiting"}
  /\ cur \in 0 .. MaxSends
  /\ kind \in [Sends -> {"none", "text", "card"}]
  /\ window \in BOOLEAN /\ injected \in BOOLEAN
  /\ window => textProto # 0
  /\ textProto \in Sends \cup {0} /\ fileProto \in Sends \cup {0}
  /\ sendMsgType \in {"", "mini_program"}
  /\ taskIdGlobal \in Sends \cup {0}
  /\ stage \in [Tasks -> {"none", "queued", "encoded"}]
  /\ payload \in [Tasks -> Sends \cup {0}]

Init ==
  /\ pc = "idle" /\ cur = 0 /\ kind = [s \in Sends |-> "none"]
  /\ window = FALSE /\ injected = FALSE
  /\ textProto = 0 /\ fileProto = 0 /\ sendMsgType = "" /\ taskIdGlobal = 0
  /\ stage = [t \in Tasks |-> "none"] /\ payload = [t \in Tasks |-> 0]

-----------------------------------------------------------------------------
ScriptThreadFree == pc \in {"idle", "waiting"}

NextSend(k) ==
  /\ pc = "idle" /\ cur < MaxSends
  /\ cur' = cur + 1
  /\ kind' = [kind EXCEPT ![cur + 1] = k]
  /\ taskIdGlobal' = cur + 1
  /\ pc' = "calling"

\* Without the reset of the flag (script.js:1425).
TriggerTextFlagged ==
  /\ NextSend("text")
  /\ textProto' = cur'
  /\ window' = TRUE
  /\ UNCHANGED <<injected, fileProto, sendMsgType, stage, payload>>

\* triggerClassicCloneSend: the window opens, or its 1.5 s start anew.
TriggerText ==
  /\ NextSend("text")
  /\ textProto' = cur'
  /\ injected' = FALSE
  /\ window' = TRUE
  /\ UNCHANGED <<fileProto, sendMsgType, stage, payload>>

\* triggerSendMediaMessage for a card: a window that is open stays open.
TriggerCard ==
  /\ CardHooks
  /\ NextSend("card")
  /\ fileProto' = cur' /\ sendMsgType' = "mini_program"
  /\ UNCHANGED <<textProto, window, injected, stage, payload>>

\* MMStartTask queues the task; hooks may run before it returns.
StartTask ==
  /\ pc = "calling"
  /\ stage' = [stage EXCEPT ![cur] = "queued"]
  /\ pc' = "queued"
  /\ UNCHANGED <<cur, kind, window, injected, protoVars, taskIdGlobal, payload>>

\* It returns, also when it refused the task: the worker waits for an answer.
StartTaskReturns ==
  /\ pc = "queued" \/ (Faults /\ pc = "calling")
  /\ pc' = "waiting"
  /\ UNCHANGED <<cur, kind, window, injected, protoVars, taskIdGlobal, stage, payload>>

\* It throws: the export answers "fail" and the worker goes on.
StartTaskFaults ==
  /\ Faults /\ pc = "calling"
  /\ pc' = "idle"
  /\ UNCHANGED <<cur, kind, window, injected, protoVars, taskIdGlobal, stage, payload>>

\* The answer comes, or 15 s are over, ten times the window.
Answered ==
  /\ pc = "waiting"
  /\ \/ stage[cur] = "encoded"
     \/ ~window /\ (LateEncodes \/ stage[cur] = "none")
  /\ pc' = "idle"
  /\ UNCHANGED <<cur, kind, window, injected, protoVars, taskIdGlobal, stage, payload>>

\* The timer closes the window.
WindowCloses ==
  /\ ScriptThreadFree /\ window
  /\ LateEncodes \/ stage[cur] # "queued"
  /\ window' = FALSE
  /\ UNCHANGED <<pc, cur, kind, injected, protoVars, taskIdGlobal, stage, payload>>

OwnTask(t) ==
  /\ t > MaxSends /\ stage[t] = "none"
  /\ stage' = [stage EXCEPT ![t] = "queued"]
  /\ UNCHANGED <<pc, cur, kind, window, injected, protoVars, taskIdGlobal, payload>>

\* attachEncodeInject, on the write of any task.
Hit == window /\ ~injected

\* attachBlrX8Hook: the protobuf for task t, 0 if it leaves the task alone.
BlrX8Payload(t) ==
  IF CardHooks /\ t = taskIdGlobal /\ sendMsgType = "mini_program" THEN fileProto ELSE 0

\* Every write in the window hit.
EncodeUnflagged(t) ==
  /\ stage[t] = "queued"
  /\ stage' = [stage EXCEPT ![t] = "encoded"]
  /\ payload' = [payload EXCEPT ![t] = IF BlrX8Payload(t) # 0 THEN BlrX8Payload(t)
                                       ELSE IF window THEN textProto ELSE 0]
  /\ injected' = (injected \/ (window /\ BlrX8Payload(t) = 0))
  /\ taskIdGlobal' = IF CardHooks /\ t = taskIdGlobal THEN 0 ELSE taskIdGlobal
  /\ UNCHANGED <<pc, cur, kind, window, protoVars>>

\* WeChat serialises task t: the encoder hook writes it, or leaves it to the
\* encoder and the write hook; at the end the req2buf exit hook forgets it.
Encode(t) ==
  /\ stage[t] = "queued"
  /\ stage' = [stage EXCEPT ![t] = "encoded"]
  /\ payload' = [payload EXCEPT ![t] = IF BlrX8Payload(t) # 0 THEN BlrX8Payload(t)
                                       ELSE IF Hit THEN textProto ELSE 0]
  /\ injected' = (injected \/ (Hit /\ BlrX8Payload(t) = 0))
  /\ taskIdGlobal' = IF CardHooks /\ t = taskIdGlobal THEN 0 ELSE taskIdGlobal
  /\ UNCHANGED <<pc, cur, kind, window, protoVars>>

Next == \/ TriggerText \/ TriggerCard
        \/ StartTask \/ StartTaskReturns \/ StartTaskFaults
        \/ Answered \/ WindowCloses
        \/ \E t \in Tasks : OwnTask(t) \/ Encode(t)

Spec == Init /\ [][Next]_vars

-----------------------------------------------------------------------------
\* A text gets into at most one task, its own or another: a misfire is paid
\* for with the text, it never sends it twice (script.js:687).
TextSentAtMostOnce ==
  \A s \in Sends, t, u \in Tasks :
    kind[s] = "text" /\ payload[t] = s /\ payload[u] = s => t = u

\* The kind is set by a card and never again (script.js:1899, 1391).
AfterCard(s) == \E c \in Sends : c < s /\ kind[c] = "card"

\* When serialisation is prompt, nothing faults and WeChat starts no task in
\* between, every card's task carries that card, although the window of a text
\* may be open for it, and every text's task that text as long as no card was
\* sent before (script.js:682, 870, 1425).
OwnPayload ==
  \A s \in Sends :
    stage[s] = "encoded" /\ (kind[s] = "text" => ~AfterCard(s)) => payload[s] = s

\* With nothing else going on the first write in a text's window is that of
\* its own task: another task's is the only misfire the comment knows
\* (script.js:682-684).  The code breaks it: the encoder hook still takes the
\* text for a card and writes the last card again.
TextsAreInjected ==
  \A s \in Sends : kind[s] = "text" /\ stage[s] = "encoded" => payload[s] = s
=============================================================================
