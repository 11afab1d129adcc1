----------------------------- MODULE MediaUpload -----------------------------
(***************************************************************************)
(* Sending a picture, a video or a voice message: the program first has    *)
(* WeChat upload the file (onebot/worker.go, triggerUpload* in             *)
(* onebot/script.js), a hook recognises the end of the upload              *)
(* (patchCdnOnComplete), and the dispatcher of main.go queues a second     *)
(* message that sends what was uploaded.                                   *)
(*                                                                         *)
(* The agent keeps one buffer per kind for the id of "the" upload, so the  *)
(* module is about several uploads under way at once: the program's, of    *)
(* the same kind and to the same chat, and those the user starts by hand.  *)
(*                                                                         *)
(* An export call does not return before its reply was read, and replies   *)
(* come through the callback of main.go that handles the announcements,    *)
(* one after the other (external: frida-go).  While that callback waits    *)
(* for room in msgChan it reads no reply.                                  *)
(*                                                                         *)
(* In this version nothing calls the functions that attach these hooks;    *)
(* the module describes them as attached.  Only WebSocket clients may send *)
(* media (websocket.go:125) and they wait for no result.                   *)
(***************************************************************************)
EXTENDS Naturals, Sequences, FiniteSets, SequencesExt

CONSTANTS
  Kinds,        \* subset of {"image", "video", "voice"}
  Targets,      \* chats
  MaxUploads,   \* bound: uploads ever started
  QueueSize     \* capacity of msgChan

VARIABLES
  queue,      \* msgChan
  uploads,    \* all uploads WeChat was asked for, in order; an id is a place here
  context,    \* uploadGlobalX0 has been captured
  idAddr,     \* imageIdAddr, videoIdAddr, voiceIdAddr: the id of the last upload of a kind
  voiceInfo,  \* voiceDurationGlobal, voiceSilkDataLenGlobal: whose they are
  videoInfo,  \* videoInfoMap: target -> the video whose length and size it holds
  toGo,       \* announcements of the script that main.go has not handled yet
  sent,       \* messages sent after an upload
  worker,     \* "idle", "calling" an export, or the call is "answered" by the script
  ahead       \* announcements in toGo that are before that answer

callVars == <<worker, ahead>>
vars == <<queue, uploads, context, idAddr, voiceInfo, videoInfo, toGo, sent, callVars>>

Ids == 0 .. MaxUploads    \* 0 is no upload

Upload == [kind : Kinds, target : Targets, own : BOOLEAN,
           state : {"running", "wrapped", "bare", "done", "failed", "refused"}]

\* A request to upload names no upload yet (up = 0); info is the upload whose
\* length and size go with the message.
Message == [type : {"upload", "send"}, kind : Kinds, target : Targets, up : Ids, info : Ids]
Announcement == {m \in Message : m.type = "send"}

TypeOK ==
  /\ queue \in Seq(Message) /\ Len(queue) <= QueueSize
  /\ uploads \in Seq(Upload) /\ Len(uploads) <= MaxUploads
  /\ context \in BOOLEAN
  /\ idAddr \in [Kinds -> Ids]
  /\ voiceInfo \in Ids
  /\ videoInfo \in [Targets -> Ids]
  /\ toGo \in Seq(Announcement)
  /\ sent \in Seq(Announcement)
  /\ worker \in {"idle", "calling", "answered"} /\ ahead \in 0 .. Len(toGo)

\* setupSendImgMessageDynamic: one buffer for the id of each kind.
Init ==
  /\ queue = <<>> /\ toGo = <<>> /\ sent = <<>>
  /\ uploads = <<>>
  /\ context = FALSE
  /\ idAddr = [k \in Kinds |-> 0]
  /\ voiceInfo = 0
  /\ videoInfo = [t \in Targets |-> 0]
  /\ worker = "idle" /\ ahead = 0

-----------------------------------------------------------------------------
(* The clients and the user *)

Asked == {i \in DOMAIN queue : queue[i].type = "upload"}

\* bound: uploads started and asked for
Room == Len(uploads) + Cardinality(Asked) < MaxUploads

\* Queued even if there is no room.
RequestUnbounded(kind, target) ==
  /\ Room
  /\ queue' = Append(queue, [type |-> "upload", kind |-> kind, target |-> target, up |-> 0, info |-> 0])
  /\ UNCHANGED <<uploads, context, idAddr, voiceInfo, videoInfo, toGo, sent, callVars>>

\* SendWS: one message per media segment, without a result channel.
Request(kind, target) ==
  /\ Room /\ Len(queue) < QueueSize
  /\ queue' = Append(queue, [type |-> "upload", kind |-> kind, target |-> target, up |-> 0, info |-> 0])
  /\ UNCHANGED <<uploads, context, idAddr, voiceInfo, videoInfo, toGo, sent, callVars>>

\* attachUploadMedia: any upload shows the hook the object that uploads need.
\* The user's own uploads have ids of WeChat's making.
UserUploads(kind, target) ==
  /\ Room
  /\ uploads' = Append(uploads, [kind |-> kind, target |-> target, own |-> FALSE, state |-> "running"])
  /\ context' = TRUE
  /\ UNCHANGED <<queue, idAddr, voiceInfo, videoInfo, toGo, sent, callVars>>

-----------------------------------------------------------------------------
(* The worker *)

\* The id is in its buffer before WeChat is asked, and stays there when WeChat
\* refuses.
FillUploadX1AndStart(kind, target) ==
  LET new == Len(uploads) + 1
  IN  /\ idAddr' = [idAddr EXCEPT ![kind] = new]
      /\ \E state \in {"running", "refused"} :
           uploads' = Append(uploads, [kind |-> kind, target |-> target, own |-> TRUE, state |-> state])

\* A voice message also leaves its duration and its length in the agent.
TriggerUploadVoice(target) ==
  /\ voiceInfo' = Len(uploads) + 1
  /\ FillUploadX1AndStart("voice", target)

StartUpload(kind, target) ==
  IF kind = "voice" THEN TriggerUploadVoice(target)
  ELSE FillUploadX1AndStart(kind, target) /\ UNCHANGED voiceInfo

\* The next message; in each case of SendWechatMsg an export is called.
WorkerTakes(type) ==
  /\ worker = "idle" /\ queue # <<>> /\ Head(queue).type = type
  /\ queue' = Tail(queue)
  /\ worker' = "calling"

\* SendWechatMsg, cases "image", "video" and "voice".  A video's length and
\* size are stored for its target before the upload starts, also when it
\* cannot start.
WorkerUploads ==
  /\ WorkerTakes("upload")
  /\ LET m == Head(queue)
     IN  /\ videoInfo' = IF m.kind = "video"
                         THEN [videoInfo EXCEPT ![m.target] = IF context THEN Len(uploads) + 1 ELSE 0]
                         ELSE videoInfo
         /\ IF context
            THEN StartUpload(m.kind, m.target)
            ELSE UNCHANGED <<uploads, idAddr, voiceInfo>>
  /\ UNCHANGED <<context, toGo, ahead, sent>>

\* The video's length and size are read but left in the map.
WorkerSendsKeeping ==
  /\ WorkerTakes("send")
  /\ LET m == Head(queue)
     IN  sent' = Append(sent, IF m.kind = "video" THEN [m EXCEPT !.info = videoInfo[m.target]] ELSE m)
  /\ UNCHANGED <<uploads, context, idAddr, voiceInfo, videoInfo, toGo, ahead>>

\* SendWechatMsg, cases "send_image", "send_video" and "send_voice".  What
\* becomes of the task that is started is the matter of SendPipeline.
WorkerSends ==
  /\ WorkerTakes("send")
  /\ LET m == Head(queue)
     IN  IF m.kind = "video"
         THEN /\ sent' = Append(sent, [m EXCEPT !.info = videoInfo[m.target]])
              /\ videoInfo' = [videoInfo EXCEPT ![m.target] = 0]
         ELSE sent' = Append(sent, m) /\ UNCHANGED videoInfo
  /\ UNCHANGED <<uploads, context, idAddr, voiceInfo, toGo, ahead>>

\* The export has run; the script posts its answer behind all it announced.
ExportReturns ==
  /\ worker = "calling"
  /\ worker' = "answered" /\ ahead' = Len(toGo)
  /\ UNCHANGED <<queue, uploads, context, idAddr, voiceInfo, videoInfo, toGo, sent>>

-----------------------------------------------------------------------------
(* WeChat carries out an upload and ends it *)

Named(u) == \E k \in Kinds : idAddr[k] = u

\* attachGetCallbackFromWrapper: WeChat asks for the callbacks of an upload,
\* the agent gives its own for those its buffers name.
GetCallback(u) ==
  /\ uploads[u].state = "running"
  /\ uploads' = [uploads EXCEPT ![u].state = IF Named(u) THEN "wrapped" ELSE "bare"]
  /\ UNCHANGED <<queue, context, idAddr, voiceInfo, videoInfo, toGo, sent, callVars>>

\* Compared by the kind of the upload only.
OnCompleteAnyId(u, keys) ==
  /\ uploads[u].state \in {"wrapped", "bare"}
  /\ uploads' = [uploads EXCEPT ![u].state = IF keys THEN "done" ELSE "failed"]
  /\ LET kind == uploads[u].kind
         m    == [type |-> "send", kind |-> kind, target |-> uploads[u].target, up |-> u,
                  info |-> IF kind = "voice" THEN voiceInfo ELSE 0]
     IN  toGo' = IF keys /\ idAddr[kind] # 0 THEN Append(toGo, m) ELSE toGo
  /\ UNCHANGED <<queue, context, idAddr, voiceInfo, videoInfo, sent, callVars>>

\* patchCdnOnComplete: the end of an upload is announced if its id is in one of
\* the buffers and WeChat has keys for it; the buffer says of which kind it is.
OnComplete(u, keys) ==
  /\ uploads[u].state \in {"wrapped", "bare"}
  /\ uploads' = [uploads EXCEPT ![u].state = IF keys THEN "done" ELSE "failed"]
  /\ toGo' = toGo \o
       SetToSeq({[type |-> "send", kind |-> kind, target |-> uploads[u].target, up |-> u,
                  info |-> IF kind = "voice" THEN voiceInfo ELSE 0] :
                 kind \in {k \in Kinds : keys /\ idAddr[k] = u}})
  /\ UNCHANGED <<queue, context, idAddr, voiceInfo, videoInfo, sent, callVars>>

-----------------------------------------------------------------------------
(* The callback of main.go takes what the script posted, in its order *)

AnswerIsNext == worker = "answered" /\ ahead = 0

\* Given up if msgChan is full.
DispatchDropping ==
  /\ toGo # <<>> /\ ~AnswerIsNext
  /\ queue' = IF Len(queue) < QueueSize THEN Append(queue, Head(toGo)) ELSE queue
  /\ toGo' = Tail(toGo)
  /\ ahead' = IF worker = "answered" THEN ahead - 1 ELSE 0
  /\ UNCHANGED <<uploads, context, idAddr, voiceInfo, videoInfo, sent, worker>>

\* An announcement; the callback waits while msgChan is full.
Dispatch ==
  /\ toGo # <<>> /\ ~AnswerIsNext
  /\ Len(queue) < QueueSize
  /\ queue' = Append(queue, Head(toGo))
  /\ toGo' = Tail(toGo)
  /\ ahead' = IF worker = "answered" THEN ahead - 1 ELSE 0
  /\ UNCHANGED <<uploads, context, idAddr, voiceInfo, videoInfo, sent, worker>>

\* The answer of the export: the worker's call returns.  The answer of the
\* server, for which it waits up to 15 s, is the matter of SendPipeline.
DispatchAnswer ==
  /\ AnswerIsNext
  /\ worker' = "idle"
  /\ UNCHANGED <<queue, uploads, context, idAddr, voiceInfo, videoInfo, toGo, sent, ahead>>

Callback == Dispatch \/ DispatchAnswer

Complete == \E u \in DOMAIN uploads :
              GetCallback(u) \/ \E keys \in BOOLEAN : OnComplete(u, keys)

Worker == WorkerUploads \/ WorkerSends

Next ==
  \/ \E k \in Kinds, t \in Targets : Request(k, t) \/ UserUploads(k, t)
  \/ Worker
  \/ ExportReturns
  \/ Complete
  \/ Callback

\* The worker and the callback go on as long as they can, an export that was
\* called runs to its end, and WeChat ends every upload.
Spec ==
  /\ Init /\ [][Next]_vars
  /\ WF_vars(Worker) /\ WF_vars(ExportReturns) /\ WF_vars(Complete) /\ WF_vars(Callback)

-----------------------------------------------------------------------------
(* Properties *)

\* In the order in which WeChat will have got them.
Announced == sent \o queue \o toGo

\* Whatever is announced, queued or sent is an upload the program asked for,
\* of its kind and for its chat, and none of them twice: the user's own
\* uploads, and those that failed, are never sent (script.js:1984).
SentIsUploaded ==
  LET sends == {i \in DOMAIN Announced : Announced[i].type = "send"}
  IN  /\ \A i \in sends :
           LET m == Announced[i]
           IN  /\ uploads[m.up].own /\ uploads[m.up].state = "done"
               /\ m.kind = uploads[m.up].kind /\ m.target = uploads[m.up].target
      /\ \A i, j \in sends : Announced[i].up = Announced[j].up => i = j

\* The length and size of a video go out at most once, and to the chat of the
\* video they were measured from (worker.go:139, 170).
VideoInfoUsedOnce ==
  \A i, j \in DOMAIN sent :
    /\ sent[i].kind = "video" /\ sent[i].info # 0 =>
         /\ uploads[sent[i].info].kind = "video" /\ uploads[sent[i].info].target = sent[i].target
    /\ sent[i].kind = "video" /\ sent[j].kind = "video" /\ sent[i].info = sent[j].info /\ sent[i].info # 0 =>
         i = j

\* The worker waits for an answer that is behind an announcement, and the
\* callback waits with that announcement for the worker to make room: both wait
\* for ever (worker.go:25, main.go:296).
Jammed == worker = "answered" /\ ahead > 0 /\ Len(queue) = QueueSize

\* What was announced is sent, with a queue that fills up too, unless worker
\* and callback wait for each other: no announcement is lost between the hook,
\* the callback and the worker, and nothing else stops it (main.go:296).
AnnouncedIsSent ==
  \A u \in 1 .. MaxUploads :
    (\E i \in DOMAIN toGo : toGo[i].up = u) ~> (\E i \in DOMAIN sent : sent[i].up = u) \/ Jammed
=============================================================================
