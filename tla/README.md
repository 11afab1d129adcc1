# A TLA+ verification of wechat_chatter

wechat_chatter (`src/onebot`) makes the macOS WeChat client a OneBot server. A
Go process injects a Frida agent (`script.js`) into WeChat, takes send requests
over HTTP and WebSocket, has the agent start the corresponding WeChat task, and
forwards what the agent sees arrive. This directory holds models of the program,
their TLC configurations, and proofs checked by TLAPS. Line numbers are those of
the source the models were translated from.

Run for instance `tlc -workers 2 -config core_text.cfg MCSendPipeline` and
`tlapm SendPipelineProofs.tla`. Section 4 lists all runs, section 6 the proofs and their modules;
`PROJECT.json` has the module of every run, the lines each definition models, the
hazards, and for each property a plausible bug in the code that breaks it. Those
bugs are the definitions beside the real ones, each with a comment that says what
went wrong in it; no action uses them.

## 1. Inventory

| Component | State | Operations | Talks to |
|---|---|---|---|
| Send queue and worker (`http.go`, `worker.go`, `param.go`) | `msgChan` (100), a `ResultChan` (1) per message, `taskId`, `buf2RespChan` (10), `pendingResultMap` | `sendHandler`, `SendWorker`, `SendWechatMsg`, `HandleBuf2Resp` | handlers → `msgChan` → the one worker → agent exports; agent messages → one goroutine each → `buf2RespChan` → worker → `ResultChan` → handler |
| Agent, clone and card send (`script.js`) | `taskIdGlobal`, `sendMsgType`, `classicPendingTaskId`, `miniProgramPendingTaskId`, `pendingBuf2RespTaskId`, 25 s timers | `triggerSendTextMessage`, `triggerSendMiniProgram`, `cancelPending*`, hooks on req2buf and on the response delivery point | exports from Go; hooks on WeChat's threads; `send()` to Go |
| Agent, real text factory | `realText*`, `pendingRealTextRequest/Future`, `pendingBuf2RespStartedAt` | 3 s factory deadline, 20 s expiry, future release | as above |
| Agent, encode injection | `classicSendWindow`, `encodeInjected`, `textProtoHexGlobal`, `fileProtoHexGlobal` | 1.5 s window in which an encode is overwritten; the card hook on the encoder | WeChat's worker thread |
| Agent, hook set-up | base address, hooks attached, `fakeVtable`, captured manager and template | scan for the library, five set-ups on the event loop, two retry loops | patches functions WeChat is running |
| Agent, memory and wire helpers | none of their own | relocating a cloned task, searching WeChat's task map, writing and reading protobuf fields | WeChat's heap |
| WebSocket gateway (`websocket.go`) | global `conn` | `handleWebSocket`, `SendWS`, `SendWebSocketMsg` | queues like the HTTP handler, without its checks and without results |
| Receiving (`main.go`, `protobuf_handler.go`, `worker.go`) | `myWechatId`, `userID2NicknameMap` | one goroutine per frame: parse, classify, forward | agent → Go → HTTP callback or `conn` |
| Media download (`msg.go`, `worker.go`; hooks in `script.js`) | `userID2FileMsgMap`, per file: bytes, path, time of last chunk, mutex; in the agent the captured downloader and one request buffer | `triggerDownload` and the chunk hooks; `Download` (a chunk), `getDownloadPath` (poll), hourly clean-up | agent chunks → goroutines; message goroutines wait |
| Media upload (`script.js`, `main.go`, `worker.go`) | one id buffer per kind, voice globals, `videoInfoMap` | `triggerUpload*`, `patchCdnOnComplete`, the dispatcher, the second half of a send | worker → agent → WeChat → agent → dispatcher → `msgChan` |
| Media prototype (`frida/file.js`) | id buffers, upload queues, send slot, patched encoder | the same operations in an earlier form | a caller of its own; not loaded by OneBot |
| Attach, detach, exit (`main.go`, `utils.go`) | `fridaScript`, `session`, `fridaLifecycleMu`, `shuttingDown` | `attachWechat`, `loadJs`, signal handler, `MonitorProcess`, `detachFrida` | every export call takes the read lock |
| Observer tools (`tools`) | none | reading WeChat's strings and maps | standalone Frida scripts, not modelled (section 8) |
| Builders, parsers, files, logging, generated protobuf, other prototypes (`frida`, `idapro`) | none, or files | pure conversions and I/O | not modelled (section 8) |

What makes each one hard, and what makes it correct:

* **Send pipeline.** Several handler goroutines, one worker, goroutines for
  answers, two timers (15 s in Go, 25 s in the agent), hooks on WeChat's threads,
  and a result channel that carries no task id. Correct when messages are sent one
  at a time in order, a client is told the truth about its own messages, an answer
  is used once, and no request waits for ever.
* **Agent slots.** Set after the native call, cleared by the answer, a timer or a
  cancel that can each be late. Correct when only the owner of a registration ends
  it and none is left behind.
* **Real text factory.** Deadlines against late results of the same native call, and
  hooks that know their task only by coincidence. Correct when nothing leaks or is
  freed twice, no registration stays for good, and an answer is the task's own.
* **Encode injection.** A time window decides which task is rewritten. Correct when a
  text is written once and the user's tasks are left alone.
* **Hook set-up.** Any step may fail while WeChat runs through the code being patched.
  Correct when what is announced is attached, and no freed memory is handed out.
* **Memory and wire helpers.** 64-bit addresses, hand-made layouts, loops with a limit.
  Correct when what is written is what the other side reads.
* **WebSocket, receiving.** One goroutine per frame, one global connection. Correct when
  messages keep their order, the own id is right, answers do not go astray.
* **Uploads.** One buffer per kind while several uploads run. Correct when what is sent
  is an upload of the program's own, once, with its own data.
* **Download.** A chunk, a poll and a deletion may meet between the map and the
  entry's lock, and completeness is guessed from a pause. Correct when a file handed
  on has its chunks in order, is the same for everyone, and nobody waits for ever.
* **Lifecycle.** Correct when the process always exits and no call uses a
  destroyed script.

`PROJECT.json` lists the hazards with the line where each bites and the property
that covers it.

## 2. Plan

1. *(done)* `Agent`, `SendPipeline`, `SendContract`: the core, with proofs of type
   correctness, of the truth of reports before any timeout, and of slot ownership.
2. *(done)* `RealTextSend`, `EncodeInject`, the card slot: the other ways a send can go.
3. *(done)* `Download`, `DownloadTrigger`, `MediaUpload`: media in both directions.
4. *(done)* `Gateway`, `Lifecycle`: connections, frames, the lock, exits and restarts,
   with proofs of their main invariants.
5. *(done)* `HookSetup`, `ProtoWire`, `NativeMemory`, `PrototypeMedia`: the agent's set-up and
   its algorithms, and the prototype its media code came from.
6. *(done)* Proofs of `EachAckCreditedOnce` and `StaleAcksBounded`, of the refinement
   `SendPipeline => SendContract`, and of the invariants of the agent's and the media modules.
7. *(done)* Proofs about the agent's computations: the search of the task map, what is
   written and read back, and the errors the summary reports.
8. Open: the field scan of received frames; gadget mode; task ids that begin anew with
   each run.

The agent modules share no state variable that two of them change and the other reads,
with two exceptions, which is why they can be checked apart: `taskIdGlobal` and
`sendMsgType` are in `Agent` (registration) and in `EncodeInject` (payload), and
`pendingTask` is in `Agent` and in `RealTextSend`, which have one caller, and that caller
sends one message at a time.

## 3. Modules

| Module | Models | Checked through |
|---|---|---|
| `Agent`, `SendPipeline` | a send from the request to its report: clone path and cards | `MCSendPipeline` |
| `SendContract` | what a client may rely on; `SendPipeline` implements it | `MCSendPipeline` |
| `RealTextSend` | the other way a text can go, through WeChat's own factory | `MCAgent`, and alone |
| `EncodeInject` | which payload is written into which task | `MCAgent` |
| `HookSetup` | finding the library, set-ups, retries, captured objects | `MCAgent` |
| `ProtoWire`, `NativeMemory` | protobuf helpers; task relocation and map search | `MCAgent` |
| `Download` | a received file put together in Go | `MCMedia`, and alone |
| `DownloadTrigger` | the agent's half of a download | `MCMedia` |
| `MediaUpload` | upload, announcement and second half of a media send | `MCMedia` |
| `PrototypeMedia` | `frida/file.js` | `MCMedia` |
| `Gateway` | frames in, events out, the shared connection | `MCGateway`, and alone |
| `Lifecycle` | attach, unload, exit, restart, and the lock around exports | `MCGateway` |
| `SendPipelineProofs`, `SendContractProofs` | theorems about sending | TLAPS |
| `AgentProofs`, `AgentDataProofs` | theorems about the parts of `MCAgent`: tasks and set-ups; searching, writing and reading | TLAPS |
| `DownloadProofs`, `MediaProofs` | theorems about the parts of `MCMedia` | TLAPS |
| `GatewayProofs`, `LifecycleProofs` | theorems about frames, connections and the lock | TLAPS |

`Agent` has variables and one action per export, timer and hook but no specification
of its own: it runs only when Go calls it. `SendPipeline` EXTENDS it, adds the Go
process, and is the composed system. `MCAgent` and `MCMedia` put components that share
no state beside each other: `part` is chosen in the initial state and never changes, each
part is an INSTANCE of its module with its constants, a variable name that two
parts use is one variable, and the variables of parts that do not run are `Unused`.
A behaviour is thus one of a single component, and a property of the union is that of
the component, guarded by `part`. The sizes of the parts are constants, given in the
`.cfg`; `RealTextSend` and `EncodeInject` are instantiated several times with different
faults allowed, so their instances take these as parameters (`Real(...)`, `Inject(...)`).
`MCGateway` has the two connection types and `Lifecycle` side by side in the same way, but
leaves the variables of what does not run as they are at the start.

### Sending: `Agent`, `SendPipeline`, `SendContract`

* A goroutine is a program counter: `cpc[c]` for a client's handler (HTTP
  `sendHandler`, or a WebSocket frame in `SendWS`), `wpc` for the worker inside
  `SendWechatMsg`. A step runs from one blocking operation to the next.
* `Admit` = the checks of `sendHandler` and its single status call; `Receive` = a
  WebSocket frame; `QueueSegment`, `QueueText` = the loop and the text queued after
  it; `Collect` = one `<-ch` of the result loop. A rejected media type never gets as
  far as `Admit`, so those requests are left out.
* `Take`, `Refuse`, `Call`, `CallReturns`, `TakeAck`, `Timeout`, `Cancel`, `Publish`
  are `SendWechatMsg`: draw a task id; give up before the native call; the export up
  to `MMStartTask` and after it; the two branches of the `select`; the cancel
  exports; the deferred send of the result.
* `Deliver` = one goroutine running `HandleBuf2Resp`. A response is `[task, ok,
  msgType]`: `ok` is what `ParseSendMsgResponse` makes of the bytes. The task is
  carried along as history; the code drops it.
* `Req2BufExit`, `Response` = the hooks. The agent's JavaScript lock makes a hook or
  an export one step, but the lock is not held during the native call, which is why
  a send is two steps.
* Task ids are counted from the base 0x20000000, which is 0 here ("no task"). The
  agent's initial `taskIdGlobal`, 0x20000090, also reads as "no task": it could only
  be met after 144 tasks, and each of them overwrites it first.
* `started`, `encoded`, `answered`, `accepted` describe WeChat and the server, which
  are external. A task is answered at most once; with the req2buf hook attached, only
  after it was encoded.
* `report` and `timedOut` are history variables.

Text takes the clone path here, as 4.1.13 configurations do once a real task has been
captured; what comes before that is `RealTextSend` and `HookSetup`.

### The agent: `RealTextSend`, `EncodeInject`, `HookSetup`, `ProtoWire`, `NativeMemory`

* `RealTextSend`: an *operation* is what WeChat makes of a submit. The bot's are numbered
  first, the user's above `MaxSends`; the hooks cannot tell them apart, which is the point:
  while a trace is active, the request built last and the task returned last are taken
  for the bot's. `Trigger`, `Submit`, `Poll` = the export before, in and after the native
  call (`waitForFactory` polls until its 3 s deadline); `RequestCtor`, `FactoryLeave`,
  `FactoryFails`, `Response` = the hooks; `TakeAck`, `Timeout`, `Cancel` = the Go worker,
  which sends one message at a time. Addresses of request objects are reused as soon as
  their operation is over. `CloneTask` is a text sent after the change to cloning,
  which the req2buf hook registers in the same variable without a time.
* `EncodeInject`: `payload[t]` names the send whose protobuf was written into task `t`.
  `window` is `classicSendWindow` with its 1.5 s timer. `Encode` = one serialisation: the
  encoder hook if it takes the task, else the write hook, and the req2buf exit. The write the
  encoder hook makes itself (`script.js:916`) does not reach the write hook: Frida runs no
  hook from inside a listener on the same thread. That is Frida's rule, not the
  repository's, and an assumption here; `TextSentAtMostOnce` holds with or without it.
* `HookSetup`: `queue` is the event loop's list of set-ups, in the order `initAddresses`
  schedules them. A set-up may throw at each of the places where the code can; the
  retries are timers. Vtables are numbered by the set-up that allocated them, and one that
  `fakeVtable` no longer refers to has been freed.
* `ProtoWire`: operators, run on one input per behaviour. A digit is written in base
  `Radix` (128 in the code), so that several-digit tags, lengths and numbers occur with
  few bytes. `Turn` is one turn of the loop of `summarizeProtoShape`; `IsMessage` says what a
  message is without any loop over its fields, for comparison. Numbers are exact, as they
  are in JavaScript up to 2^53; that the reader rounds larger ones is not modelled.
* `NativeMemory`: `Relocate` is one turn of the loop over a cloned task, with addresses
  modulo `Wide` (2^64) and differences cut to `Narrow` (2^32); `Find` is the search of
  WeChat's task map, a binary tree given by the order its keys came in, so that every
  shape of tree occurs, and `Depth` is the depth of a key in it by ancestors, not by the
  search.

### Media: `Download`, `DownloadTrigger`, `MediaUpload`, `PrototypeMedia`

* `Download`: one URL, since entries of `userID2FileMsgMap` share nothing. An entry is
  named after the chunk that created it, because a deletion and the next chunk make a
  second entry for the same URL while goroutines may still hold the first.
  `LoadOrStore`, `AppendChunk` = `Download` before and under the lock; `Load`, `Inspect`,
  `DeleteFailed`, `Wake` = one round of `getDownloadPath`; `FindExpired`, `DeleteExpired` =
  the hourly job around its lock. Bytes are the numbers of the chunks they came in;
  `LastAppendTime` is an age in five classes, one for each comparison the code makes and
  one for "never set". Chunks are handled one at a time and in order: the dispatcher
  starts no goroutine for them.
* `DownloadTrigger`: what WeChat downloads for its user or for the program, the
  replacement of a thumbnail request, and each chunk copied to Go.
* `MediaUpload`: `idAddr` holds one upload per kind; `GetCallback`, `OnComplete` = the two
  hooks; `WorkerUploads`, `WorkerSends` = the two halves in `SendWechatMsg`, up to the export
  they call. `ExportReturns` = the script has run it and posts its reply; `toGo` and `ahead`
  say which announcements were posted before. `Callback` = what the message callback of
  `main.go` takes next: an announcement (`Dispatch`, which waits while `msgChan` is full) or
  the reply (`DispatchAnswer`, with which the worker goes on). That replies come through the
  same callback in the order of posting is frida-go's doing and external. The user's uploads
  run beside.
* `PrototypeMedia`: the same flow in `frida/file.js`, where an upload's keys wait in a queue
  per kind until a send of that kind is encoded, and WeChat's encoder is patched for the
  script's own message object and restored for others.

In this version of the agent nothing calls the functions that attach the media
hooks; both modules describe those functions as attached.

### Gateway and Lifecycle

* `Gateway`: `work[f]` is the goroutine of frame `f`. `Parse` = one message; `Forward`,
  `Learn` = the test of `myWechatId` and its assignment, two steps because other
  goroutines come between; `Post`, `Lose`, `BeginWrite`, `EndWrite` = the event going out.
  `conn` is the package variable; `reader[c]` the handler started for connection `c`, which
  reads and answers on whatever `conn` holds.
* `Lifecycle`: `call[c]` is `callFridaExport` in a goroutine, `detach[g]` is `detachFrida` in
  the signal handler or the monitor. A writer that waits stops new readers, as Go's
  `RWMutex` does. `Off` is any end of the process; `Start` runs it again.

## 4. Runs

| Run | Instance | Properties | States |
|---|---|---|---|
| `core_text` | two HTTP clients and one WebSocket client, text, legacy mode, capacities 2 | `TypeOK`, `SuccessEarnedBeforeAnyTimeout`, `EachAckCreditedOnce`, `StaleAcksBounded`, `SlotsClearedByOwner`, `ImplementsContract` | 925 thousand |
| `core_live` | fair; one request with a card (complete or not) and a text, a picture from WebSocket, auto_buffer mode, capacities 1 | `ImplementsContract`, `EveryRequestEnds`, `ClassicSlotFreed` | 24 thousand |
| `agent` | nine parts, below | `TypeOK`, `FuturesAccountedFor`, `RegistrationExpires`, `AnswerOfOwnTask`, `NotBusyForever`, `TextSentAtMostOnce`, `OwnPayload`, `VtableLive`, `SetupSettles`, `ReadsBack`, `ErrorsAreReal`, `NothingLeadsBack`, `FindsExactlyMapped` | 790 thousand |
| `media` | four parts, below | `TypeOK`, `NoHoles`, `ReadersAgree`, `SavedOnce`, `EveryReaderEnds`, `EveryChunkOnceInOrder`, `SentIsUploaded`, `VideoInfoUsedOnce`, `AnnouncedIsSent`, `KeysUsedOnce`, `DeletesOnlyTheUsers` | 669 thousand |
| `gateway` | HTTP: two frames of up to two messages, a peer and a group; WebSocket: two connections, two requests, one frame; lifecycle: four callers, a signal, three runs of OneBot | `FrameInOrder`, `SelfIdFromTraffic`, `RepliesNeverGoBack`, `NewestIsRead`, `NoCallIntoUnloaded`, `SignalExits`, `GoneIsNoticed` | 703 thousand |
| `forged_success` | two text clients | violated: `NoForgedSuccess` | |
| `cancel_text` | one text client | violated: `CancelEndsTheWait` | |
| `auto_buffer_ack` | one text client, auto_buffer mode | violated: `AckReachesGo` | |
| `download_window` | one reader, three chunks, no pauses, no failures | violated: `DecryptedWhenComplete` | |
| `late_factory` | one send, a factory that may be late | violated: `FailedMeansNotSent` | |
| `card_then_text` | a card and a text, nothing goes wrong | violated: `TextsAreInjected` | |
| `own_message` | one frame of one message | violated: `OwnMessagesInTheirChats` | |

Parts of `agent`: `late` (two sends, late factory, lost cancels), `user` (one send beside
one message of the user's), `prompt` (the same faults, a prompt factory; the part with
liveness), `quiet` (three sends, no fault); `encode` (four sends and a task of WeChat's,
faults and late serialisation), `timely` (five sends, nothing goes wrong); `setup` (three
memory ranges, three attempts per retry loop); `wire`; `memory`. Parts of `media`:
`download` (two readers with two polls, three chunks, pauses, failures, clean-up), `trigger`
(two overlapping downloads of two files, two chunks), `upload` (videos and voice messages
to one chat, three uploads, a queue of one), `prototype` (three uploads, two sends, one of
the user's).

**Bounds.** They are constants of the specifications, which the proofs leave open, and nothing else is cut off
(`SmallTraffic` in `MCGateway` is the exception and says why).

* *Sending*: three messages are the fewest with a timed-out one, a later one that takes its
  answer, and one behind it in the queue. Two slots of `buf2RespChan` let a stale answer
  stand before a true one; one slot (`core_live`) makes every goroutine and handler block.
* *Real text*: two sends let a registration of the first meet the second, and two addresses
  let one be reused while another is in use. The third send of `quiet` follows two reuses.
* *Encoding*: a misfire needs a text, a task in its window, and a text after; a card between
  two texts shows what is not reset. Four sends and a foreign task have both.
* *Set-up*: three attempts distinguish the first, a middle and the last; three ranges have a
  match that is not the last.
* *Wire and memory*: in base 4 with at most five digits, tags have two to five, stamps one
  to four, and a sixth digit is too many. Seven bytes over four values (a last digit 0 or 2,
  a digit 0 or 1 with more to come) hold a nested message, a field cut off, and a varint that
  is too long; strings are empty or have a byte beyond a digit; six fields are what the
  largest schema has, so that the list can also be full before the bytes end. The 32
  addresses hold the task, its clone, and words that only look inside after the cut to
  `Narrow`. Three keys have every shape of tree that differs for a search of depth two.
* *Download*: three chunks are the fewest with one inside a file, so that a hole could
  appear; two polls (30 in the code) let a reader meet an entry and its successor.
* *Uploads*: three uploads let the buffer of a kind be overwritten while the first is under
  way and again after it ended; a queue of one makes the callback wait, for ever too.
* *Gateway*: two goroutines race for the own id; two connections are an older and a newer.
* *Lifecycle*: callers are alike, more of them only wait; two ends and two restarts.

**Deadlock** is not checked: the systems may rightly stop (every request answered, every
bound used up, the process gone). That nothing stops too early is what `EveryRequestEnds`,
`EveryReaderEnds`, `AnnouncedIsSent`, `SetupSettles`, `NewestIsRead`, `SignalExits` and
`GoneIsNoticed` say.

**Time.** A deadline may pass whenever the code is at a point where it can. Orders that
are kept: the agent arms its 25 s timer after Go started the 15 s context of the same task,
so `ClassicTimer(t)` does not fire while the worker still waits for `t`; the 20 s of a
registration are over only when the caller, with its 15 s, has given up (`Age`); without
`LateEncodes` the 1.5 s window does not close before the task is serialised, and without
`LateFactory` the 3 s do not pass before the factory has run. In `Download` a pause
of 2 s between chunks is allowed by `Gaps`, and hours pass only while no chunk, poll or
deletion is half done, since those take a minute at most.

**Fairness.** Weak throughout.

* `SendPipeline`: each client's goroutine, the worker, the response goroutines, the agent's
  timers. The worker's includes that `MMStartTask` returns and the 15 s context expires.
  Nothing is assumed of WeChat, of the server, or of clients sending requests.
* `Download`: only the readers, goroutines whose sleep ends.
* `RealTextSend`: the native submit returns, the caller's polls, timers and cancels run,
  time passes, and somebody asks for the status now and then (`/send_status` and every
  HTTP request do). WeChat's factory and answers are not assumed.
* `HookSetup`: the event loop runs what is queued, and the receiver's timer.
* `MediaUpload`: the worker and the callback, each as long as it can go on; an export that
  was called runs to its end in the script; WeChat ends each upload, well or badly. None of
  this helps once the two wait for each other (`Jammed`), and nothing is assumed against it.
* `Gateway`: its goroutines; the run needs the readers' only.
* `Lifecycle`: goroutines run, calls into a living WeChat return, timers fire, Frida
  reports a dead process. A call under way when WeChat dies may never return.

## 5. What the checks show

*Sending.* The pipeline keeps its contract: queue order, one verdict per message, an
answer that agrees with the verdicts. Until a send has timed out, what is told is the
server's own answer. After a timeout that is no longer so; what remains is that an answer
is never used twice and that unread answers are no more than the timeouts so far (plus one).

*Real text.* No future leaks or is destroyed twice, whichever of answer, deadline, fault,
cancel and expiry comes first. A registration whose caller has gone carries a time stamp and
expires, except after the change to cloning, when the req2buf hook registers without one
and nobody looks at the variable for readiness any more. An answer is the task's own only
when nothing is late, lost or the user's: see below.

*Encoding.* A text is written into at most one task; a misfire costs the text. Only when
serialisation is prompt and nothing faults does every card's task carry its card, and every
text's task its text until a first card was sent; after it, texts are lost (finding 6).

*Set-up.* A failing set-up keeps no other from running, the receiver ends ready or faulted,
and no freed vtable is handed out, which rests on the order of the set-ups: texts refresh
theirs at each send, cards do not, and cards are set up last.

*Media.* A file put together from chunks never has a hole or a repetition, whatever is
deleted meanwhile; it may lack its beginning (the entry was deleted, or reset) or its end (a
pause of 2 s, or the last poll). Goroutines that met the same entry agree on the file, and
late chunks do not change it. What is announced is an upload of the program's own and is
sent at most once. It is sent unless worker and callback end up waiting for each other: with
`msgChan` full, the callback waits for the worker to take a message, and the worker, inside
an export, for a reply that only the callback can bring (`worker.go:25`, `main.go:296`).
`Jammed` is that state. TLC reaches it, and `AnnouncedIsSent` says it is the only thing
that stops an announcement. With 100 places it takes 100 queued messages, but no timeout
ends it. Further, an upload whose buffer was overwritten meanwhile is never announced, and
the length a video goes out with is only known to be one measured for that chat.
In the prototype WeChat's encoder frees the script's message object only if another send was
started since the object was put in, and then the script wrote no payload.

*Gateway.* Messages of one frame stay in order; the own id is right as long as the user
writes to nobody in private; answers may go to a newer connection than asked, never to
an older one; the newest client is served.

*Lifecycle.* No call runs in a script OneBot unloads; a signal always ends the
process; WeChat's end does too unless a call is stuck in it.

Seven statements of the repository are not met by the code (`findings` in `PROJECT.json`):

1. `worker.go:364`: a stale answer is taken for the next message (`forged_success`).
   The run's trace: A times out, its slot survives, B is taken, A's answer arrives,
   B is reported sent.
2. `script.js:1627`: the cancel export does not know the slot of the clone path
   (`cancel_text`), which is what lets the answer of A through in 1.
3. `script.js:2276`: in auto_buffer mode the branch for cloned text throws on the
   ArrayBuffer, so no answer reaches Go (`auto_buffer_ack`).
4. `msg.go:37`: a new entry can be read before its time is set, and the first chunk
   is then decrypted as the whole file (`download_window`).
5. `script.js:1561`: a text reported as failed because the factory had not run is sent when
   the factory runs later (`late_factory`).
6. `script.js:1424`: after a card, the encoder hook takes every text for a card, since
   `sendMsgType` is not reset: the last card goes out again and the text does not
   (`card_then_text`). The comment at 682 knows another misfire only.
7. `protobuf_handler.go:241`: if the first message seen is one of the user's own, the peer
   becomes the own id and the event is filed under the user (`own_message`).

Noted while modelling, in the models as the code has them, and without a run of their own:

* `http.go:274`: the comment at 272 says the handler waits for all messages; it answers at
  the first failure. `SendContract` promises no more.
* `websocket.go:154` queues media that `http.go:19` says remain disabled.
* `script.js:1738`: for the reason of finding 6 a cloned text is also registered in the card
  slot after a card; its answer leaves it there and later cards are refused (`Agent`).
* `script.js:1433`: a fault between the opening of the window and the start of the task
  leaves the window open (677 takes it to be the bot's), so the next task of WeChat's
  gets the text.
* `script.js:1403`: `toInt32` cuts a 64-bit difference; a word that is no pointer may be
  moved as if it were one. `NothingLeadsBack` is about the pointers that are.
* `script.js:672, 700`: encode injection gives up silently while the path reports ready.
* `script.js:2337`: a request for a thumbnail is changed for the user's own downloads too.
* `utils.go:634`: the monitor waits for the lock of a stuck call (622 expects the exit).
* `param.go:20`: task ids begin at the same number in every run, so an answer to a task of
  the run before is credited to one of this run.
* `file.js:373`: if another send is started between the two hooks of a task of the prototype,
  `taskIdGlobal` is no longer that task, so the code that frees the message object is
  restored and the script's own object, already in the slot, is freed by WeChat; the exit hook
  (255) skips the task too. The comment at 252 wants to prevent that. `DeletesOnlyTheUsers`
  names this exception; the prototype is not loaded by OneBot.
* `file.js:177`: the prototype matches uploads with sends by position only, hence
  `KeysUsedOnce` says once and of the right kind, not the right file.

## 6. Proofs

`SendPipelineProofs` assumes only `AgentAssumption` and `PipelineAssumption`: client
sets disjoint, capacities positive, message lists over the known segment types and
no longer than `MaxSegments`. Clients may be infinitely many.

* `TypeCorrect`: `TypeOK` is inductive. The one part that is not a plain typing is
  `queued[c] < seg[c]` while a client is queueing: a client queues at most one message
  per segment it has passed, so a job number never exceeds `MaxSegments + 1`.
* `SuccessEarned`: `SuccessEarnedBeforeAnyTimeout` is not inductive, since it says
  nothing about answers still on their way. `IInv` adds
  `TaskInv` (the worker's task is the newest, and a task is started once),
  `AcksAreTrue` (every answer on its way is one the server gave) and, while no send
  has timed out, `OnlyTheCurrentTask`: only the task being sent can be unanswered, and
  at most one answer is on its way, its own. The step that needs them all is `TakeAck`;
  the one that ends the promise is `Timeout`, after which the conditional part is
  vacuous, because `timedOut` only grows.
* `SlotsOwned`: `SlotsClearedByOwner` follows action by action from `TypeOK` (a task
  id is never 0).

The next three need the same assumptions and say nothing about time: they hold whatever
times out. The last is in `SendContractProofs`.

* `AcksCreditedOnce` (`EachAckCreditedOnce`): `AckInv` says that the answers on their way
  (in the goroutines and in `buf2RespChan`) are of different tasks, and that an answer that
  was used is not among them. A task is answered once, so none comes back.
* `FewStaleAcks` (`StaleAcksBounded`): the property alone is not inductive, since WeChat can
  still answer the tasks that have none. `CountInv` counts those with the answers on their
  way. `Call` adds one and makes the worker wait; `TakeAck` takes one away, `Timeout` adds
  one to the right side; an answer only moves one from one term to the next.
* `ContractKept` (`ImplementsContract`): every step is a step of `SendContract` or leaves its
  state alone. `OnePlace` says that a message is in the queue, with the worker or reported,
  and in one of these once; `Told` that a result channel holds its message's verdict and
  that a client that goes on collecting has read only good ones, which is what the last step
  of a request, its "ok", needs.

`AgentProofs` assumes what `MCAgent` states of its constants: numbers of sends and
attempts, no address 0, and a captured task that lies within the address space. Its
invariant `AgentInv` is that of the part that runs, and the lemmas for `RealTextSend` and
`EncodeInject` are about all values of their parameters.

* `NoFutureLeaks`, `GivenUpRegistrationsExpire`: `RealInv`. Where a future is (`FuturesInv`)
  takes three facts the property lacks: a send not begun has no future, the submit in
  progress has its own accounted for, and once the factory hook has recorded a task while
  the future is held, that task is registered. With the last, a submit that returns late
  cannot hand over a future that nobody will drop.
* `AnswersAreOfTheirTasks`: with a prompt factory and nothing lost, `OwnOperation` says that
  the only operation not yet sent is that of the submit in progress, unless the path was
  given up, and `OwnAddress` that no two live requests share an address and none but its
  own is at the registered one. A registration can outlive its request; the proof
  shows that the address is not reused before the registration is dropped.
* `TextsGoOutOnce`: `OpenUnwritten`: while the text held is not marked as injected, it is in
  no task. `TasksCarryTheirMessage` adds `OneTask` (the only task queued is that of the send in
  progress), `KindFromCard` (`sendMsgType` says whether a card was sent) and
  `HeldForCurrent`: what the hook that will write holds is the message of that send, which
  for a text is known only while no card came before it.
* `VtablesStayAlive`: `QueueTold` and `VtablesTold`: set-ups run in the order they were
  scheduled in, so once cards are ready no set-up that allocates a vtable is left.
* `CloneStandsAlone`: each word ahead of the loop is still the captured one, and for a
  pointer into the task the distance modulo 2^64 cut to 32 bits is the true one
  (`DeltaInside`).
* `AgentTypesKept`: the types are conjuncts of these invariants.

`AgentDataProofs` is about the parts that compute one result from one input. It assumes
`KeysAssumption` (finitely many keys, which are numbers) and `WireAssumption`, both of
`MCAgent`: the radix is at least 2, the summary lists at least six fields, what is written in
32 bits fits in a varint that is read, and so do the stamps, and no string, the nested
message included, is 2^32 bytes long. 128, 10, 64 and 2^32 meet it. The invariant is
`DataInv`; its two parts, `FindInv` and `WireInv`, say of the input what it is and of the
result the property, and the work is in the one step that computes the result.

Every computation is a recursive function of the number of turns of a loop. Two lemmas stand
in for induction: `NatByInduction`, for a set of numbers (from the least number outside it,
`WFMin`), and `Recursion` with `SameRecursion`, that a function with given steps exists and is
the one the definition chooses.

* `SearchIsExact` (`FindsExactlyMapped`): the nodes on the way to a key are those that no
  earlier key separates from it (`Path`). In a subtree where the search is, its root is on
  the path, and going down takes just the root away; so the turns needed are as many as
  the path has nodes, which is `Depth`.
* `ReportedErrorsAreReal` (`ErrorsAreReal`): a field that begins at a given byte ends at one
  place (`FieldIsTaken`), and a turn takes it if there is one (`TakenIsField`). Hence the
  places where n fields can end are none or one, and `Agrees` is the invariant of the loop:
  after n turns the offset is that place, and after an error the bytes are no message.
* `VariantsReadBack` (`ReadsBack`): digits written at a place are read as their number
  (`DigitsReadBack`, by induction over the number of digits), so `readProtoVarint` reads
  what `pbVarint` and `pbVarint64` wrote (`VarintReads`), and a turn over a written field lists
  it (`WriteReads`). `Laid` says where each field of a message begins; `Listing`, the
  invariant of the loop, that the first n are listed (`EncodedIsListed`). What is left is
  that the fields of the four schemas can be written, that of the nested message among them.

`DownloadProofs` and `MediaProofs` assume what `MCMedia` states: a file has a chunk, a
reader polls, bounds are numbers, kinds and types are the code's, the caller's tasks are
not the user's.

* `FilesWithoutHoles`, `ReadersGetOneFile`, `SavedFilesStay`: `DownInv`. That a file has no
  hole needs `NothingMissing`: an entry that may still grow ends with the chunk before the
  one at hand. It is what a deletion could break, and does not, because a new entry
  takes over from the first chunk after it. `ResultsAreSaved` ties what a reader got to its
  entry, and the step property `SavedOnce` follows from the same invariant.
* `ChunksOnceInOrder`: `ForwardedInOrder`, for each download apart, over what Go has and
  what is on its way; chunks of other downloads in between do not matter.
* `OnlyUploadsAreSent`: `IdsNamed` (a buffer names an upload of the program, of its kind) and
  `AnnouncedOnce` (all places a send can be name finished uploads, no two of them the same).
  `RoomLeft` counts requests as uploads to come, which gives the bound in `TypeOK`.
* `VideoInfoSentOnce`: what `videoInfoMap` still holds has not gone out (`VideoInfoFresh`).
* `KeysGoOutOnce`, `FreedOnlyWhenOvertaken`: `QueuedOnce` (an upload is in one queue once, or
  in a payload), `SendsTold` and `RunTold` (the task looked for is of the kind asked for,
  also halfway through the hooks), and `PatchTold` (what the encoder's code is at the
  moment it runs). A send that is started while a task is being encoded makes
  `taskIdGlobal` another than that task for good, which is the exception the theorem states.
* `MediaTypesKept`: the types are conjuncts of these invariants.

`GatewayProofs` assumes `GatewayAssumption`: the user, peers and groups are different, and
the bounds are numbers. Frames, their sizes and connections are arbitrary.

* `OwnIdLearned` (`SelfIdFromTraffic`): `OwnIdInv` says that all the places an id can be
  (the variable, events waiting in a goroutine, events sent) hold ids at all
  (`Carries(Ids)`), and that they hold the user's alone if the frames seen so far show no
  other (`Shows({Self}) => Carries({Self})`). One lemma, with the set of ids as a
  parameter, does the steps of both; the one that needs care is `FrameSeen`, which may end
  `Shows` but cannot begin it.
* `FramesInOrder` (`FrameInOrder`): `OrderInv` adds that each goroutine's list is in order
  and lies behind everything of its frame that was already sent (`InOrder`, `Behind`).
* `AnswersGoForward` (`RepliesNeverGoBack`): `ConnInv` says that the package variable is
  the newest connection or nil, and that a reader holds one that was opened. A connection
  is opened once, so what comes later in `opened` is newer.
* `TypeCorrect`: from the types in these invariants and those of the requests
  (`AskTypes`).

`LifecycleProofs` assumes nothing: callers and starts may be infinitely many.

* `CallsAreSafe` (`NoCallIntoUnloaded`): `LockInv` adds the types of the lock
  (`LockTypes`) and that a process that is off has no call (`OffIsIdle`); a caller inside
  excludes an unloading goroutine and the other way round, whatever `Load` and `SetScript`
  do meanwhile.
* `TypeCorrect`: `TypeOK` is inductive.

## 7. Only model-checked

* All liveness properties (`EveryRequestEnds`, `ClassicSlotFreed`, `NotBusyForever`,
  `SetupSettles`, `EveryReaderEnds`, `AnnouncedIsSent`, `NewestIsRead`, `SignalExits`,
  `GoneIsNoticed`): fairness and ENABLED are beyond the prover.

Every other property of a passing run is a theorem.

## 8. Not modelled

* *Worker restart after a panic* (`worker.go:36`): the only panics found are inside the Frida
  binding, whose behaviour is not in the source.
* *Gadget mode and the reuse of a process id* in `Lifecycle`; *task ids across runs*, about
  which no promise holds (section 5).
* *Results of HTTP media requests* (`pendingResultMap`) and files sent in parts
  (`uploadappattach`): the handler refuses the former, nothing starts the latter.
* *Two overlapping downloads of one URL* in `Download`: their chunks would be appended to one
  entry, which is found by the URL alone (`msg.go:25`), and the file would be none. `Download`
  has one sequence of chunks per URL; `DownloadTrigger` has the two downloads.
* *How a frame's bytes are taken apart*, nicknames, mentions and the fields of an event:
  parsing without interaction. `Gateway` takes the messages of a frame as given.
* *Garbage collection of buffers a native call may still read* (`script.js:648`, 1334): when
  it runs is not visible in the source. *The layout of `std::string`* and the ring of
  encoder summaries in the real text path.
* *Message builders and parsers, encryption, audio and file formats, logging,
  configuration, generated protobuf code*: conversions and I/O with no interaction.
* *Observer tools* (`tools`): they print memory for a person to read. *Other scripts* in
  `frida`, `idapro` and `diaphora`: earlier copies of the agent and analysis aids that the
  program does not load; `cclogs/微信4.1.13偏移迁移手册.md:14` calls them legacy. `frida/file.js`
  is modelled as the one with state and hooks of its own kind.
