--------------------------- MODULE PrototypeMedia ---------------------------
(***************************************************************************)
(* The media prototype, src/frida/file.js: the script from which the       *)
(* upload and media parts of the agent were taken.  An upload is started   *)
(* through WeChat's own entry point with one id buffer per kind, its       *)
(* completion is put in a queue per kind and announced, and the caller     *)
(* then starts a send task whose payload the script replaces, taking the   *)
(* head of the queue.  While such a task is encoded three instructions of  *)
(* WeChat's encoder are overwritten with NOPs, for every task that passes. *)
(*                                                                         *)
(* WeChat serialises its tasks one at a time (Req2Buf on its network       *)
(* thread); the caller's exports run between any two of the hooks.         *)
(* Payload bytes, hexdumps, senders and the md5 and aes strings are left   *)
(* out: nothing branches on them.                                          *)
(***************************************************************************)
EXTENDS Naturals, Sequences, FiniteSets

CONSTANTS Uploads,      \* the uploads of a run, the caller's and the user's
          BotTasks,     \* ids the caller gives to its send tasks
          UserTasks,    \* ids of the user's own media sends
          Peers,        \* conversations
          None          \* no upload, no task, no peer

MediaKinds == {"img", "video"}
Tasks == BotTasks \cup UserTasks

VARIABLES
    triggerX0,      \* StartTask's arguments were captured
    uploadGlobalX0, \* the uploader's object was captured
    mediaId,        \* imageIdAddr and videoIdAddr: the upload each names
    uploadQueue,    \* imageUploadQueue and videoUploadQueue
    taskIdGlobal,   \* the task the hooks look for, None for 0
    sendMsgType,    \* which message object req2buf will insert
    patched,        \* per kind: the three instructions are NOPs
    waiting,        \* tasks WeChat has accepted and not yet serialised
    run,            \* the task being serialised
    upload,         \* what became of each upload
    announced,      \* upload_*_finish messages the caller has not acted on
    sendOf,         \* the upload each of the caller's sends is for
    payloadOf,      \* the upload whose keys went into each task's payload
    dangling        \* tasks that left with the script's object in place

agentVars == <<triggerX0, uploadGlobalX0, mediaId, uploadQueue, taskIdGlobal,
               sendMsgType, patched>>
vars == <<agentVars, waiting, run, upload, announced, sendOf, payloadOf,
          dangling>>

Idle == [task |-> None, kind |-> None, inserted |-> FALSE, at |-> "idle"]
NoUpload == [stage |-> "none", kind |-> "img", to |-> None, bot |-> FALSE]

Init ==
    /\ triggerX0 = FALSE
    /\ uploadGlobalX0 = FALSE
    /\ mediaId = [k \in MediaKinds |-> None]
    /\ uploadQueue = [k \in MediaKinds |-> << >>]
    /\ taskIdGlobal = None
    /\ sendMsgType = None
    /\ patched = [k \in MediaKinds |-> FALSE]
    /\ waiting = {}
    /\ run = Idle
    /\ upload = [u \in Uploads |-> NoUpload]
    /\ announced = << >>
    /\ sendOf = [t \in BotTasks |-> None]
    /\ payloadOf = [t \in Tasks |-> None]
    /\ dangling = {}

-----------------------------------------------------------------------------
(* Uploads *)

\* The id buffer of the kind is overwritten whatever it named before; with no
\* uploader captured the native call throws and nothing is started.
TriggerUpload(buffer, k, u, p) ==
    /\ upload[u].stage = "none"
    /\ mediaId' = [mediaId EXCEPT ![buffer] = u]
    /\ upload' = [upload EXCEPT ![u] =
                    [stage |-> IF uploadGlobalX0 THEN "asked" ELSE "threw",
                     kind |-> k, to |-> p, bot |-> TRUE]]
    /\ UNCHANGED <<triggerX0, uploadGlobalX0, uploadQueue, taskIdGlobal,
                   sendMsgType, patched, waiting, run, announced, sendOf,
                   payloadOf, dangling>>

TriggerUploadImg(u, p) == TriggerUpload("img", "img", u, p)
TriggerUploadVideo(u, p) == TriggerUpload("video", "video", u, p)

\* The user uploads a file: the first upload gives the script the uploader.
AttachUploadMedia(k, u, p) ==
    /\ upload[u].stage = "none"
    /\ upload' = [upload EXCEPT ![u] =
                    [stage |-> "asked", kind |-> k, to |-> p, bot |-> FALSE]]
    /\ uploadGlobalX0' = TRUE
    /\ UNCHANGED <<triggerX0, mediaId, uploadQueue, taskIdGlobal, sendMsgType,
                   patched, waiting, run, announced, sendOf, payloadOf,
                   dangling>>

Named(u) == \E k \in MediaKinds : mediaId[k] = u

\* WeChat asks for the upload's callbacks: the script answers with its own
\* for the uploads its buffers name.
AttachGetCallbackFromWrapper(u) ==
    /\ upload[u].stage = "asked"
    /\ upload' = [upload EXCEPT ![u].stage =
                    IF Named(u) THEN "wrapped" ELSE "bare"]
    /\ UNCHANGED <<agentVars, waiting, run, announced, sendOf, payloadOf,
                   dangling>>

PushImageUploadInfo(u) ==
    uploadQueue' = [uploadQueue EXCEPT !["img"] = Append(@, u)]
PushVideoUploadInfo(u) ==
    uploadQueue' = [uploadQueue EXCEPT !["video"] = Append(@, u)]

\* The upload has ended, with all its keys or with one of them empty.  The
\* completion is dropped unless a buffer still names the upload; a video is
\* told from an image by its video id.
PatchCdnOnComplete(u, keys) ==
    /\ upload[u].stage \in {"wrapped", "bare"}
    /\ upload' = [upload EXCEPT ![u].stage = IF keys THEN "done" ELSE "failed"]
    /\ IF Named(u) /\ keys
       THEN /\ IF upload[u].kind = "video"
               THEN PushVideoUploadInfo(u)
               ELSE PushImageUploadInfo(u)
            /\ announced' = Append(announced, u)
       ELSE UNCHANGED <<uploadQueue, announced>>
    /\ UNCHANGED <<triggerX0, uploadGlobalX0, mediaId, taskIdGlobal,
                   sendMsgType, patched, waiting, run, sendOf, payloadOf,
                   dangling>>

-----------------------------------------------------------------------------
(* Sends *)

\* The user sends a picture or a video; the first task any part of WeChat
\* starts gives the script StartTask's arguments.
AttachSendTextProto(t) ==
    /\ payloadOf[t] = None /\ t \notin waiting /\ run.task # t
    /\ t \in UserTasks
    /\ waiting' = waiting \cup {t}
    /\ triggerX0' = TRUE
    /\ UNCHANGED <<uploadGlobalX0, mediaId, uploadQueue, taskIdGlobal,
                   sendMsgType, patched, run, upload, announced, sendOf,
                   payloadOf, dangling>>

\* The caller sends the upload announced first.  The task becomes the one the
\* hooks look for before anything can fail: an uncaptured payload buffer
\* throws, and StartTask itself may ("fail").
TriggerSend(k, t) ==
    /\ sendOf[t] = None
    /\ announced # << >>
    /\ upload[Head(announced)].kind = k
    /\ sendOf' = [sendOf EXCEPT ![t] = Head(announced)]
    /\ announced' = Tail(announced)
    /\ taskIdGlobal' = t
    /\ IF triggerX0
       THEN /\ sendMsgType' = k
            /\ waiting' \in {waiting, waiting \cup {t}}
       ELSE UNCHANGED <<sendMsgType, waiting>>
    /\ UNCHANGED <<triggerX0, uploadGlobalX0, mediaId, uploadQueue, patched,
                   run, upload, payloadOf, dangling>>

TriggerSendImgMessage(t) == TriggerSend("img", t)
TriggerSendVideoMessage(t) == TriggerSend("video", t)

\* The user's own tasks bring their message object; a task of the caller has
\* one only if the hook still looks for it.
UserKind(t) == IF t \in UserTasks THEN MediaKinds ELSE {None}

\* req2buf is entered with a task: the script's object goes into the slot of
\* the task it looks for.  Without an object there is nothing to encode.
Req2bufEnter(t) ==
    /\ run = Idle
    /\ t \in waiting
    /\ waiting' = waiting \ {t}
    /\ \E own \in UserKind(t) :
         LET kind == IF t = taskIdGlobal THEN sendMsgType ELSE own
         IN  run' = [task |-> t, kind |-> kind, inserted |-> t = taskIdGlobal,
                     at |-> IF kind = None THEN "exit" ELSE "callback"]
    /\ UNCHANGED <<agentVars, upload, announced, sendOf, payloadOf, dangling>>

PatchNeverRestored(k) ==
    /\ run.at = "callback" /\ run.kind = k
    /\ patched' = [patched EXCEPT ![k] = @ \/ run.task = taskIdGlobal]
    /\ run' = [run EXCEPT !.at = "encode"]
    /\ UNCHANGED <<triggerX0, uploadGlobalX0, mediaId, uploadQueue,
                   taskIdGlobal, sendMsgType, waiting, upload, announced,
                   sendOf, payloadOf, dangling>>

\* The encoder's entry: NOPs for the task looked for, the original
\* instructions for every other.
PatchProtoBuf(k) ==
    /\ run.at = "callback" /\ run.kind = k
    /\ patched' = [patched EXCEPT ![k] = run.task = taskIdGlobal]
    /\ run' = [run EXCEPT !.at = "encode"]
    /\ UNCHANGED <<triggerX0, uploadGlobalX0, mediaId, uploadQueue,
                   taskIdGlobal, sendMsgType, waiting, upload, announced,
                   sendOf, payloadOf, dangling>>


PatchImgProtoBuf == PatchProtoBuf("img")
PatchVideoProtoBuf == PatchProtoBuf("video")

KeepUploadInfo(k) == uploadQueue[k]
GetImageUploadInfo(k) == Tail(uploadQueue[k])
GetVideoUploadInfo(k) == Tail(uploadQueue[k])

Rest(k) == IF k = "img" THEN GetImageUploadInfo(k) ELSE GetVideoUploadInfo(k)

\* The encoder's output: the payload of the task looked for is replaced by
\* one with the keys and the target of the queue's head.
AttachProtoOf(k) ==
    /\ run.at = "encode" /\ run.kind = k
    /\ run' = [run EXCEPT !.at = "exit"]
    /\ IF run.task = taskIdGlobal /\ uploadQueue[k] # << >>
       THEN /\ payloadOf' = [payloadOf EXCEPT ![run.task] =
                                Head(uploadQueue[k])]
            /\ uploadQueue' = [uploadQueue EXCEPT ![k] = Rest(k)]
       ELSE UNCHANGED <<payloadOf, uploadQueue>>
    /\ UNCHANGED <<triggerX0, uploadGlobalX0, mediaId, taskIdGlobal,
                   sendMsgType, patched, waiting, upload, announced, sendOf,
                   dangling>>

AttachProto == AttachProtoOf("img")
AttachVideoProto == AttachProtoOf("video")

\* req2buf is left: the script takes its object out of the slot, for the task
\* it looks for.
Req2bufExit ==
    /\ run.at = "exit"
    /\ IF run.task = taskIdGlobal
       THEN /\ taskIdGlobal' = None
            /\ UNCHANGED dangling
       ELSE /\ dangling' = IF run.inserted THEN dangling \cup {run.task}
                                           ELSE dangling
            /\ UNCHANGED taskIdGlobal
    /\ run' = Idle
    /\ UNCHANGED <<triggerX0, uploadGlobalX0, mediaId, uploadQueue,
                   sendMsgType, patched, waiting, upload, announced, sendOf,
                   payloadOf>>

Caller ==
    \/ \E u \in Uploads, p \in Peers :
         TriggerUploadImg(u, p) \/ TriggerUploadVideo(u, p)
    \/ \E t \in BotTasks :
         TriggerSendImgMessage(t) \/ TriggerSendVideoMessage(t)

User ==
    \/ \E k \in MediaKinds, u \in Uploads, p \in Peers : AttachUploadMedia(k, u, p)
    \/ \E t \in UserTasks : AttachSendTextProto(t)

WeChat ==
    \/ \E u \in Uploads : AttachGetCallbackFromWrapper(u)
    \/ \E u \in Uploads, keys \in BOOLEAN : PatchCdnOnComplete(u, keys)
    \/ \E t \in Tasks : Req2bufEnter(t)
    \/ PatchImgProtoBuf
    \/ PatchVideoProtoBuf
    \/ AttachProto
    \/ AttachVideoProto
    \/ Req2bufExit

Next == Caller \/ User \/ WeChat

Spec == Init /\ [][Next]_vars

-----------------------------------------------------------------------------
(* Properties *)

\* Every variable keeps its type, and each buffer names an upload of its own
\* kind (imageIdAddr and videoIdAddr, file.js:147-165).
TypeOK ==
    /\ triggerX0 \in BOOLEAN /\ uploadGlobalX0 \in BOOLEAN
    /\ mediaId \in [MediaKinds -> Uploads \cup {None}]
    /\ uploadQueue \in [MediaKinds -> Seq(Uploads)]
    /\ taskIdGlobal \in BotTasks \cup {None}
    /\ sendMsgType \in MediaKinds \cup {None}
    /\ patched \in [MediaKinds -> BOOLEAN]
    /\ waiting \subseteq Tasks
    /\ run \in [task : Tasks \cup {None}, kind : MediaKinds \cup {None},
                inserted : BOOLEAN,
                at : {"idle", "callback", "encode", "exit"}]
    /\ upload \in [Uploads ->
         [stage : {"none", "asked", "threw", "wrapped", "bare", "done",
                   "failed"},
          kind : MediaKinds, to : Peers \cup {None}, bot : BOOLEAN]]
    /\ announced \in Seq(Uploads)
    /\ sendOf \in [BotTasks -> Uploads \cup {None}]
    /\ payloadOf \in [Tasks -> Uploads \cup {None}]
    /\ dangling \subseteq BotTasks
    /\ \A k \in MediaKinds : mediaId[k] # None => upload[mediaId[k]].kind = k

\* The keys of an upload go into one payload, of the upload's own kind, and
\* of a task of the caller: a second send never repeats the first one's file
\* (attachProto and attachVideoProto, file.js:660-912).
KeysUsedOnce ==
    /\ \A s, t \in Tasks :
         payloadOf[s] # None /\ payloadOf[s] = payloadOf[t] => s = t
    /\ \A t \in Tasks : payloadOf[t] # None =>
         /\ t \in BotTasks
         /\ upload[payloadOf[t]].kind = upload[sendOf[t]].kind
         /\ upload[payloadOf[t]].bot

\* Past the encoder's entry the deleting instruction is in place for a task of
\* the user, and overwritten for a task with the script's object: the encoder
\* frees that object only if the caller has started another send since it was
\* inserted, and then the task has no payload of the script
\* (patchImgProtoBuf and patchVideoProtoBuf, file.js:373-468).
DeletesOnlyTheUsers ==
    run.at = "exit" /\ run.kind # None =>
        /\ run.task \in UserTasks => ~patched[run.kind]
        /\ run.inserted => patched[run.kind] \/ run.task # taskIdGlobal
        /\ payloadOf[run.task] # None => patched[run.kind]
=============================================================================
