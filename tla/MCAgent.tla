------------------------------- MODULE MCAgent -------------------------------
(***************************************************************************)
(* The mechanisms of the agent's script that share no state, checked side  *)
(* by side: a behaviour is one of the part chosen at the start.            *)
(*                                                                         *)
(*   late, user  texts through WeChat's own factory when the factory may   *)
(*               be late and cancels get lost; beside a text of the user's *)
(*   prompt      the same with a prompt factory (the lost cancels remain)  *)
(*   quiet       the same when nothing goes wrong                          *)
(*   encode      what is written into which task, with faults and delays   *)
(*   timely      the same when nothing goes wrong                          *)
(*   setup       how the agent comes up                                    *)
(*   wire        writing and reading protobuf fields                       *)
(*   memory      cloning a task, searching WeChat's task map               *)
(*                                                                         *)
(* A variable of a part that is not running is Unused.                     *)
(***************************************************************************)
EXTENDS Naturals, Sequences, FiniteSets

CONSTANTS
  Unused,
  LateSends, SharedSends, TypedSends, PromptSends, QuietSends, Addrs,   \* of RealTextSend
  InjectSends, OwnTasks, TimelySends,                                   \* of EncodeInject
  Ranges, EnableUnsafeSend, EnableMiniProgramSend, ReceiverAttempts, SendFuncAttempts,  \* of HookSetup
  Radix, VarintBytes, MaxFields, Word, Bytes, MaxBytes, Texts, Stamps,  \* of ProtoWire
  Wide, Narrow, WordSize, Words, Orig, Copy, Keys, MaxSteps             \* of NativeMemory

ASSUME SendsAssumption ==
  /\ {LateSends, SharedSends, TypedSends, PromptSends, QuietSends} \subseteq Nat
  /\ {InjectSends, OwnTasks, TimelySends} \subseteq Nat

\* No address is 0, the null pointer.
ASSUME AddrsAssumption == 0 \notin Addrs

ASSUME SetupAssumption ==
  /\ {EnableUnsafeSend, EnableMiniProgramSend} \subseteq BOOLEAN
  /\ {ReceiverAttempts, SendFuncAttempts} \subseteq Nat \ {0}

\* The captured task lies within the address space, and is shorter than what
\* a difference of addresses can express.
ASSUME MemoryAssumption ==
  /\ {Wide, Narrow, WordSize} \subseteq Nat \ {0}
  /\ {Words, Orig, Copy, MaxSteps} \subseteq Nat
  /\ Orig + WordSize * Words <= Wide /\ WordSize * Words <= Narrow

\* Ids of tasks are numbers of 32 bits.
ASSUME KeysAssumption == Keys \subseteq Nat /\ IsFiniteSet(Keys)

VARIABLES
  part,
  status, warm, traceActive, traceTask, traceRequest, pendingTask, pendingAt, pendingRequest,
  pendingFuture, toFree, freed, provider, addr, acks, nativeTask, verdict,
  kind, window, injected, textProto, fileProto, sendMsgType, taskIdGlobal, payload,
  scanned, matched, base, inits, queue, hooks, receiver, attempts, retries, miniReady,
  vtable, textVtable, fileVtable, triggerX0, template, submitted,
  input, output,
  orig, buf, off, map, found,
  pc, cur, stage,   \* of the real text path or of the encoding
  classicReady      \* of the real text path or of the set-up

realVars   == <<status, warm, traceActive, traceTask, traceRequest, pendingTask, pendingAt,
                pendingRequest, pendingFuture, toFree, freed, provider, addr, acks, nativeTask, verdict>>
encodeVars == <<kind, window, injected, textProto, fileProto, sendMsgType, taskIdGlobal, payload>>
setupVars  == <<scanned, matched, base, inits, queue, hooks, receiver, attempts, retries, miniReady,
                vtable, textVtable, fileVtable, triggerX0, template, submitted>>
wireVars   == <<input, output>>
memoryVars == <<orig, buf, off, map, found>>
callerVars == <<pc, cur, stage>>
realState  == <<realVars, callerVars, classicReady>>
setupState == <<setupVars, classicReady>>
vars == <<part, realVars, encodeVars, setupVars, wireVars, memoryVars, callerVars, classicReady>>

Real(MaxSends, UserSends, LateFactory, LostCancels, CardHooks) == INSTANCE RealTextSend
Inject(MaxSends, BesideTasks, Faults, LateEncodes) ==
  INSTANCE EncodeInject WITH CardHooks <- TRUE, OwnTasks <- BesideTasks
Setup  == INSTANCE HookSetup
Memory == INSTANCE NativeMemory
Wire   == INSTANCE ProtoWire

\* Strings to write: the empty one, and one with a byte beyond a digit.
WireTexts == {<<>>, <<1, 6>>}

\* A varint that is read can be as long as any that is written (10 bytes hold
\* 64 bits), the summary is long enough for every schema, the tags in use are
\* numbers of 32 bits, and so are the lengths of the strings.
ASSUME WireAssumption ==
  /\ {Radix, VarintBytes, MaxFields, Word, MaxBytes} \subseteq Nat
  /\ 2 <= Radix /\ 6 <= MaxFields /\ 39 * 8 + 2 < Word
  /\ Word <= Wire!Power[VarintBytes]
  /\ Bytes \subseteq Nat
  /\ Stamps \subseteq 0 .. Wire!Power[VarintBytes] - 1
  /\ \A s \in Texts : s \in Seq(Nat) /\ Len(s) < Word
  /\ \A r \in Texts, c \in Texts, x \in Texts, t \in Stamps, d \in Stamps :
       Len(Wire!Encode(Wire!Nested(r, c, x, t, d))) < Word

-----------------------------------------------------------------------------
NoReal ==
  /\ status = Unused /\ warm = Unused
  /\ traceActive = Unused /\ traceTask = Unused /\ traceRequest = Unused
  /\ pendingTask = Unused /\ pendingAt = Unused /\ pendingRequest = Unused
  /\ pendingFuture = Unused /\ toFree = Unused /\ freed = Unused
  /\ provider = Unused /\ addr = Unused /\ acks = Unused
  /\ nativeTask = Unused /\ verdict = Unused

NoEncode ==
  /\ kind = Unused /\ window = Unused /\ injected = Unused
  /\ textProto = Unused /\ fileProto = Unused
  /\ sendMsgType = Unused /\ taskIdGlobal = Unused /\ payload = Unused

NoSetup ==
  /\ scanned = Unused /\ matched = Unused /\ base = Unused /\ inits = Unused
  /\ queue = Unused /\ hooks = Unused
  /\ receiver = Unused /\ attempts = Unused /\ retries = Unused /\ miniReady = Unused
  /\ vtable = Unused /\ textVtable = Unused /\ fileVtable = Unused
  /\ triggerX0 = Unused /\ template = Unused /\ submitted = Unused

NoWire   == input = Unused /\ output = Unused
NoMemory == orig = Unused /\ buf = Unused /\ off = Unused /\ map = Unused /\ found = Unused
NoCaller == pc = Unused /\ cur = Unused /\ stage = Unused

InitReal ==
  /\ \/ part = "late" /\ Real(LateSends, 0, TRUE, TRUE, TRUE)!Init
     \/ part = "user" /\ Real(SharedSends, TypedSends, TRUE, TRUE, TRUE)!Init
     \/ part = "prompt" /\ Real(PromptSends, 0, FALSE, TRUE, TRUE)!Init
     \/ part = "quiet" /\ Real(QuietSends, 0, FALSE, FALSE, FALSE)!Init
  /\ NoEncode /\ NoSetup /\ NoWire /\ NoMemory

InitEncode ==
  /\ \/ part = "encode" /\ Inject(InjectSends, OwnTasks, TRUE, TRUE)!Init
     \/ part = "timely" /\ Inject(TimelySends, 0, FALSE, FALSE)!Init
  /\ NoReal /\ NoSetup /\ NoWire /\ NoMemory /\ classicReady = Unused

InitSetup  == part = "setup" /\ Setup!Init
              /\ NoReal /\ NoEncode /\ NoWire /\ NoMemory /\ NoCaller
InitWire   == part = "wire" /\ Wire!Init
              /\ NoReal /\ NoEncode /\ NoSetup /\ NoMemory /\ NoCaller /\ classicReady = Unused
InitMemory == part = "memory" /\ Memory!Init
              /\ NoReal /\ NoEncode /\ NoSetup /\ NoWire /\ NoCaller /\ classicReady = Unused

Init == InitReal \/ InitEncode \/ InitSetup \/ InitWire \/ InitMemory

NextReal ==
  /\ \/ part = "late" /\ Real(LateSends, 0, TRUE, TRUE, TRUE)!Next
     \/ part = "user" /\ Real(SharedSends, TypedSends, TRUE, TRUE, TRUE)!Next
     \/ part = "prompt" /\ Real(PromptSends, 0, FALSE, TRUE, TRUE)!Next
     \/ part = "quiet" /\ Real(QuietSends, 0, FALSE, FALSE, FALSE)!Next
  /\ UNCHANGED <<part, encodeVars, setupVars, wireVars, memoryVars>>

NextEncode ==
  /\ \/ part = "encode" /\ Inject(InjectSends, OwnTasks, TRUE, TRUE)!Next
     \/ part = "timely" /\ Inject(TimelySends, 0, FALSE, FALSE)!Next
  /\ UNCHANGED <<part, realVars, setupVars, wireVars, memoryVars, classicReady>>

NextSetup  == part = "setup" /\ Setup!Next
              /\ UNCHANGED <<part, realVars, encodeVars, wireVars, memoryVars, callerVars>>
NextWire   == part = "wire" /\ Wire!Next
              /\ UNCHANGED <<part, realVars, encodeVars, setupVars, memoryVars, callerVars, classicReady>>
NextMemory == part = "memory" /\ Memory!Next
              /\ UNCHANGED <<part, realVars, encodeVars, setupVars, wireVars, callerVars, classicReady>>

Next == NextReal \/ NextEncode \/ NextSetup \/ NextWire \/ NextMemory

\* The fairness of RealTextSend and of HookSetup, for the two parts with
\* liveness properties.
Spec ==
  /\ Init /\ [][Next]_vars
  /\ WF_realState(part = "prompt" /\ Real(PromptSends, 0, FALSE, TRUE, TRUE)!Submit)
  /\ WF_realState(part = "prompt" /\ Real(PromptSends, 0, FALSE, TRUE, TRUE)!Poll)
  /\ WF_realState(part = "prompt" /\ Real(PromptSends, 0, FALSE, TRUE, TRUE)!Await)
  /\ WF_realState(part = "prompt" /\ Real(PromptSends, 0, FALSE, TRUE, TRUE)!Age)
  /\ WF_realState(part = "prompt" /\ Real(PromptSends, 0, FALSE, TRUE, TRUE)!AskStatus)
  /\ \A f \in 1 .. PromptSends :
       WF_realState(part = "prompt" /\ Real(PromptSends, 0, FALSE, TRUE, TRUE)!FreeFuture(f))
  /\ WF_setupState(part = "setup" /\ Setup!RunSetup)
  /\ WF_setupState(part = "setup" /\ \E ok \in BOOLEAN : Setup!ReceiverAttempt(ok))

-----------------------------------------------------------------------------
(* The properties of the parts; their comments are in the modules. *)

\* The variables of the part that runs keep their types.
TypeOK ==
  CASE part = "late"   -> Real(LateSends, 0, TRUE, TRUE, TRUE)!TypeOK
    [] part = "user"   -> Real(SharedSends, TypedSends, TRUE, TRUE, TRUE)!TypeOK
    [] part = "prompt" -> Real(PromptSends, 0, FALSE, TRUE, TRUE)!TypeOK
    [] part = "quiet"  -> Real(QuietSends, 0, FALSE, FALSE, FALSE)!TypeOK
    [] part = "encode" -> Inject(InjectSends, OwnTasks, TRUE, TRUE)!TypeOK
    [] part = "timely" -> Inject(TimelySends, 0, FALSE, FALSE)!TypeOK
    [] part = "setup"  -> Setup!TypeOK
    [] OTHER -> TRUE

\* No future leaks and none is destroyed twice.
FuturesAccountedFor ==
  /\ part = "late" => Real(LateSends, 0, TRUE, TRUE, TRUE)!FuturesAccountedFor
  /\ part = "user" => Real(SharedSends, TypedSends, TRUE, TRUE, TRUE)!FuturesAccountedFor

\* Every registration that its caller has given up will be dropped.
RegistrationExpires ==
  /\ part = "late" => Real(LateSends, 0, TRUE, TRUE, TRUE)!RegistrationExpires
  /\ part = "user" => Real(SharedSends, TypedSends, TRUE, TRUE, TRUE)!RegistrationExpires

\* An answer is the one of the task it is handed on for.
AnswerOfOwnTask == part = "quiet" => Real(QuietSends, 0, FALSE, FALSE, FALSE)!AnswerOfOwnTask

\* The status does not stay "busy" after a lost cancel.
NotBusyForever == []<>(part = "prompt" => Real(PromptSends, 0, FALSE, TRUE, TRUE)!SendContextStatus # "busy")

\* A text gets into one task at most.
TextSentAtMostOnce == part = "encode" => Inject(InjectSends, OwnTasks, TRUE, TRUE)!TextSentAtMostOnce

\* When nothing goes wrong every card's task carries its card, and every text's
\* task its text as long as no card was sent before.
OwnPayload == part = "timely" => Inject(TimelySends, 0, FALSE, FALSE)!OwnPayload

\* No object handed to WeChat points to a freed vtable.
VtableLive == part = "setup" => Setup!VtableLive

\* Set-ups that fail do not keep the others from settling.
SetupSettles ==
  [](base = "found" => <>(queue = <<>> /\ receiver \in {"ready", "faulted"}))

\* What is written reads back field by field.
ReadsBack == part = "wire" => Wire!ReadsBack

\* An error is reported for bytes that are no message, and for no others.
ErrorsAreReal == part = "wire" => Wire!ErrorsAreReal

\* No pointer of a clone leads into the task it was cloned from.
NothingLeadsBack == part = "memory" => Memory!NothingLeadsBack

\* The search finds a task exactly if it is in the map and not too deep.
FindsExactlyMapped == part = "memory" => Memory!FindsExactlyMapped
=============================================================================
