------------------------------ MODULE HookSetup ------------------------------
(***************************************************************************)
(* How the agent (onebot/script.js) comes up inside a running WeChat: it   *)
(* finds the library, queues one set-up per feature on the event loop, and *)
(* each set-up allocates buffers and attaches hooks, some with retries,    *)
(* while WeChat runs tasks through the very functions that are patched.    *)
(*                                                                         *)
(* An attach may fail at any time (a thread is inside the code being       *)
(* patched).  Buffers are numbered by the set-up that allocated them: a    *)
(* buffer lives as long as the agent's variable refers to it, and a        *)
(* set-up that allocates again frees the former one.                       *)
(***************************************************************************)
EXTENDS Naturals, Sequences

CONSTANTS
  Ranges,             \* memory ranges to scan if the library is not listed
  EnableUnsafeSend, EnableMiniProgramSend,
  ReceiverAttempts,   \* bound: 20 in the code
  SendFuncAttempts    \* bound: 10 in the code

VARIABLES
  scanned, matched, base,  \* ranges done, was there a match, how base came out
  inits,                   \* how often initAddresses ran
  queue,                   \* set-ups waiting on the event loop
  hooks,                   \* what is attached
  receiver, attempts,      \* receiverHookStatus, receiverHookAttempts
  retries,                 \* AttachSendFunc loops: attempts so far, 0 none pending
  classicReady, miniReady, \* classicTextSendReady, miniProgramSendReady
  vtable,                  \* the vtable fakeVtable refers to, by number
  textVtable, fileVtable,  \* the vtables the two message objects point to
  triggerX0, template,     \* captured manager; the task the template is of
  submitted                \* the bot's last task: the vtable handed to WeChat

bootVars  == <<scanned, matched, base, inits>>
recvVars  == <<receiver, attempts>>
readyVars == <<classicReady, miniReady>>
vtVars    == <<vtable, textVtable, fileVtable>>
vars == <<bootVars, queue, hooks, recvVars, retries, readyVars, vtVars, triggerX0, template, submitted>>

-----------------------------------------------------------------------------
Setups == {"receiver", "realText", "classic", "realX1", "miniProgram"}
Hooks  == {"response", "realText", "encodeInject", "realX1", "sendFunc", "blrX8", "req2buf"}
Loops  == {"classic", "miniProgram"}

\* Every variable keeps its type; retries stay within their bounds
\* (script.js:1648, 2200) and the addresses are set up once (script.js:40).
TypeOK ==
  /\ scanned \subseteq Ranges /\ matched \in BOOLEAN
  /\ base \in {"unknown", "found", "missing"}
  /\ inits \in 0 .. 1
  /\ queue \in Seq(Setups)
  /\ hooks \subseteq Hooks
  /\ receiver \in {"initializing", "waiting", "ready", "faulted"}
  /\ attempts \in 0 .. ReceiverAttempts
  /\ retries \in [Loops -> 0 .. SendFuncAttempts - 1]
  /\ classicReady \in BOOLEAN /\ miniReady \in BOOLEAN
  /\ vtable \in 0 .. 2 /\ textVtable \in 0 .. 2 /\ fileVtable \in 0 .. 2
  /\ triggerX0 \in BOOLEAN
  /\ template \in {"none", "newsync", "other", "bot"}
  /\ submitted \in {"none", "live", "freed"}

Init ==
  /\ scanned = {} /\ matched = FALSE /\ base = "unknown" /\ inits = 0
  /\ queue = <<>> /\ hooks = {}
  /\ receiver = "initializing" /\ attempts = 0
  /\ retries = [l \in Loops |-> 0]
  /\ classicReady = FALSE /\ miniReady = FALSE
  /\ vtable = 0 /\ textVtable = 0 /\ fileVtable = 0
  /\ triggerX0 = FALSE /\ template = "none" /\ submitted = "none"

-----------------------------------------------------------------------------
(* Finding the library *)

\* The cards scheduled before the texts.
ScheduleCardsFirst ==
  <<"receiver">>
  \o (IF EnableMiniProgramSend THEN <<"miniProgram">> ELSE <<>>)
  \o (IF EnableUnsafeSend THEN <<"realText", "classic", "realX1">> ELSE <<>>)

\* initAddresses queues the set-ups of the enabled features, in this order.
Schedule ==
  <<"receiver">>
  \o (IF EnableUnsafeSend THEN <<"realText", "classic", "realX1">> ELSE <<>>)
  \o (IF EnableMiniProgramSend THEN <<"miniProgram">> ELSE <<>>)

InitAddresses ==
  /\ base' = "found"
  /\ inits' = inits + 1
  /\ queue' = Schedule

afterBoot == <<hooks, recvVars, retries, readyVars, vtVars, triggerX0, template, submitted>>

LibraryListed ==
  /\ base = "unknown" /\ scanned = {}
  /\ InitAddresses
  /\ UNCHANGED <<scanned, matched, afterBoot>>

\* Initialising at the first range with a match.
ScanRangeEager(r, hit) ==
  /\ r \in Ranges \ scanned
  /\ base = "unknown" \/ scanned # {}
  /\ scanned' = scanned \cup {r}
  /\ matched' = (matched \/ hit)
  /\ IF hit THEN InitAddresses ELSE UNCHANGED <<base, inits, queue>>
  /\ UNCHANGED afterBoot

\* Otherwise every range is scanned; the last one to complete decides.
ScanRange(r, hit) ==
  /\ base = "unknown"
  /\ r \in Ranges \ scanned
  /\ scanned' = scanned \cup {r}
  /\ matched' = (matched \/ hit)
  /\ IF scanned' # Ranges THEN UNCHANGED <<base, inits, queue>>
     ELSE IF matched' THEN InitAddresses
     ELSE base' = "missing" /\ UNCHANGED <<inits, queue>>
  /\ UNCHANGED afterBoot

-----------------------------------------------------------------------------
(* Set-ups, one at a time from the event loop *)

\* runHookSetup without its try: the first failure ends them all.
NextSetupFatal(name, ok) ==
  /\ queue # <<>> /\ Head(queue) = name
  /\ queue' = IF ok THEN Tail(queue) ELSE queue

\* runHookSetup: a set-up that throws is logged, the next one runs.
NextSetup(name, ok) ==
  /\ queue # <<>> /\ Head(queue) = name
  /\ ok \in BOOLEAN
  /\ queue' = Tail(queue)

SetupReceiverWithRetry ==
  /\ NextSetup("receiver", TRUE)
  /\ receiver' = "waiting"
  /\ UNCHANGED <<bootVars, hooks, attempts, retries, readyVars, vtVars, triggerX0, template, submitted>>

\* One firing of the 500 ms timer.
ReceiverAttempt(ok) ==
  /\ receiver = "waiting"
  /\ attempts' = attempts + 1
  /\ IF ok THEN receiver' = "ready" /\ hooks' = hooks \cup {"response"}
     ELSE /\ receiver' = IF attempts' >= ReceiverAttempts THEN "faulted" ELSE "waiting"
          /\ UNCHANGED hooks
  /\ UNCHANGED <<bootVars, queue, retries, readyVars, vtVars, triggerX0, template, submitted>>

SetupRealText(ok) ==
  /\ NextSetup("realText", ok)
  /\ hooks' = IF ok THEN hooks \cup {"realText"} ELSE hooks
  /\ UNCHANGED <<bootVars, recvVars, retries, readyVars, vtVars, triggerX0, template, submitted>>

\* AttachSendFunc of set-up l, which also comes back from a 1 s timer; it
\* never throws, and gives up after its last attempt.
AttachSendFunc(l, n, ok) ==
  retries' = [retries EXCEPT ![l] = IF ok \/ n + 1 = SendFuncAttempts THEN 0 ELSE n + 1]

RetrySendFunc(l, ok) ==
  /\ retries[l] # 0
  /\ AttachSendFunc(l, retries[l], ok)
  /\ hooks' = IF ok THEN hooks \cup {"sendFunc"} ELSE hooks
  /\ UNCHANGED <<bootVars, queue, recvVars, readyVars, vtVars, triggerX0, template, submitted>>

\* setupRetOneStub allocates a vtable; the message objects made afterwards
\* point to it.
SetupRetOneStub(n) == vtable' = n
SetupSendTextMessage == textVtable' = vtable' /\ UNCHANGED fileVtable
SetupSendFileMessage == fileVtable' = vtable' /\ UNCHANGED textVtable

AttachEncodeInject(inject) == IF inject THEN {"encodeInject"} ELSE {}

\* setupClassicTextSend.  The stub cannot be written (then it throws), or all
\* goes through: attachEncodeInject gives up silently after six attempts.
SetupClassicTextSend(stub, sendFunc, inject) ==
  /\ NextSetup("classic", stub)
  /\ IF ~stub THEN UNCHANGED <<hooks, retries, readyVars, vtVars>>
     ELSE /\ SetupRetOneStub(1) /\ SetupSendTextMessage
          /\ hooks' = hooks \cup (IF sendFunc THEN {"sendFunc"} ELSE {})
                            \cup AttachEncodeInject(inject)
          /\ AttachSendFunc("classic", 0, sendFunc)
          /\ classicReady' = TRUE /\ UNCHANGED miniReady
  /\ UNCHANGED <<bootVars, recvVars, triggerX0, template, submitted>>

SetupRealX1Capture(ok) ==
  /\ NextSetup("realX1", ok)
  /\ hooks' = IF ok THEN hooks \cup {"realX1"} ELSE hooks
  /\ UNCHANGED <<bootVars, recvVars, retries, readyVars, vtVars, triggerX0, template, submitted>>

\* setupMiniProgramSend: a new vtable and the file message that points to it,
\* then the hooks; it may throw at the stub, at blrX8, or at req2buf.
SetupMiniProgramSend(upTo, sendFunc) ==
  /\ NextSetup("miniProgram", upTo = "end")
  /\ IF upTo = "stub" THEN UNCHANGED <<hooks, retries, readyVars, vtVars>>
     ELSE /\ SetupRetOneStub(2) /\ SetupSendFileMessage
          /\ IF upTo = "blrX8" THEN UNCHANGED <<hooks, retries, readyVars>>
             ELSE /\ hooks' = hooks \cup {"blrX8"}
                                    \cup (IF sendFunc THEN {"sendFunc"} ELSE {})
                                    \cup (IF upTo = "end" THEN {"req2buf"} ELSE {})
                  /\ AttachSendFunc("miniProgram", 0, sendFunc)
                  /\ miniReady' = (upTo = "end") /\ UNCHANGED classicReady
  /\ UNCHANGED <<bootVars, recvVars, triggerX0, template, submitted>>

-----------------------------------------------------------------------------
(* Tasks, WeChat's and the bot's *)

\* The hook at sendFunc keeps a copy of newsync tasks only.
CaptureTemplate(cgi) ==
  template' = IF "realX1" \in hooks /\ cgi = "newsync" THEN cgi ELSE template

\* A task of WeChat's own: both hooks refresh the manager.
WeChatStartTask(cgi) ==
  /\ triggerX0' = (triggerX0 \/ hooks \cap {"realX1", "sendFunc"} # {})
  /\ CaptureTemplate(cgi)
  /\ UNCHANGED <<bootVars, queue, hooks, recvVars, retries, readyVars, vtVars, submitted>>

Handed(v) == submitted' = IF v = vtable /\ v # 0 THEN "live" ELSE "freed"

\* triggerClassicCloneSend refreshes the message's vtable; its own task goes
\* through the capturing hook like any other.
SendClone ==
  /\ classicReady /\ triggerX0 /\ template # "none"
  /\ textVtable' = vtable
  /\ Handed(textVtable')
  /\ CaptureTemplate("bot")
  /\ UNCHANGED <<bootVars, queue, hooks, recvVars, retries, readyVars, vtable, fileVtable, triggerX0>>

\* getMiniProgramSendStatus with no card on its way.
MiniProgramStatus ==
  IF ~miniReady THEN "unavailable" ELSE IF ~triggerX0 THEN "waiting_context" ELSE "ready"

\* A card uses the vtable its message was set up with.
SendCard ==
  /\ MiniProgramStatus = "ready"
  /\ Handed(fileVtable)
  /\ CaptureTemplate("bot")
  /\ UNCHANGED <<bootVars, queue, hooks, recvVars, retries, readyVars, vtVars, triggerX0>>

Timer == (\E ok \in BOOLEAN : ReceiverAttempt(ok))
         \/ (\E l \in Loops, ok \in BOOLEAN : RetrySendFunc(l, ok))

RunSetup ==
  \/ SetupReceiverWithRetry
  \/ \E ok \in BOOLEAN : SetupRealText(ok) \/ SetupRealX1Capture(ok)
  \/ \E s, f, i \in BOOLEAN : SetupClassicTextSend(s, f, i)
  \/ \E u \in {"stub", "blrX8", "req2buf", "end"}, f \in BOOLEAN : SetupMiniProgramSend(u, f)

Next ==
  \/ LibraryListed
  \/ \E r \in Ranges, hit \in BOOLEAN : ScanRange(r, hit)
  \/ RunSetup \/ Timer
  \/ \E cgi \in {"newsync", "other"} : WeChatStartTask(cgi)
  \/ SendClone \/ SendCard

Spec == Init /\ [][Next]_vars

\* The event loop runs what is queued and its timers.
FairSpec == Spec /\ WF_vars(RunSetup) /\ WF_vars(\E ok \in BOOLEAN : ReceiverAttempt(ok))

-----------------------------------------------------------------------------
\* The object handed to WeChat with a task points to a vtable that has not been
\* freed, although both send paths allocate fakeVtable (script.js:863, 1417).
VtableLive == submitted # "freed"

\* A failed set-up keeps no other from running, and the receiver ends up ready
\* or faulted: /send_status does not say "initializing" for ever
\* (script.js:243, 2188).
SetupSettles == [](base = "found" => <>(queue = <<>> /\ receiver \in {"ready", "faulted"}))
=============================================================================
