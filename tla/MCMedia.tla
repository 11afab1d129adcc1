------------------------------- MODULE MCMedia -------------------------------
(***************************************************************************)
(* Media in both directions, checked side by side: a behaviour is one of   *)
(* the part chosen at the start, since the parts share no state.           *)
(*                                                                         *)
(*   download   a file is put together in Go while readers wait for it     *)
(*   trigger    the agent starts downloads and forwards their chunks       *)
(*   upload     files are uploaded by the agent and then sent              *)
(*   prototype  the prototype agent the media code was taken from          *)
(*                                                                         *)
(* A variable of a part that is not running is Unused.                     *)
(***************************************************************************)
EXTENDS Naturals, Sequences

CONSTANTS
  Unused,
  Readers, N, Attempts, Gaps, Faults,                   \* of Download
  HooksAttached, Files, AskedTypes, Chunks, Sizes, MaxChunk, MaxDownloads,  \* of DownloadTrigger
  Kinds, Targets, MaxUploads, QueueSize,                \* of MediaUpload
  Uploads, BotTasks, UserTasks, Peers, None             \* of PrototypeMedia

ASSUME FlagAssumption == {Gaps, Faults, HooksAttached} \subseteq BOOLEAN

\* A file has a chunk, and a reader polls at least once.
ASSUME DownloadAssumption == N \in Nat \ {0} /\ Attempts \in Nat \ {0}

ASSUME TriggerAssumption ==
  /\ AskedTypes \subseteq 1 .. 5
  /\ Chunks \in Nat /\ Sizes \subseteq Nat /\ MaxChunk \in Nat /\ MaxDownloads \in Nat

ASSUME UploadAssumption ==
  Kinds \subseteq {"image", "video", "voice"} /\ MaxUploads \in Nat /\ QueueSize \in Nat

\* The caller's tasks and the user's have different ids.
ASSUME PrototypeAssumption ==
  /\ BotTasks \cap UserTasks = {}
  /\ None \notin Uploads \cup BotTasks \cup UserTasks \cup {"img", "video"}

VARIABLES
  part,
  store, media, filePath, age, handled, hpc, hEntry, loaded, rpc, rEntry, tries, result, cpc,
  request, downloads, received,
  queue, uploads, idAddr, voiceInfo, videoInfo, sent, worker, ahead,
  triggerX0, uploadGlobalX0, mediaId, uploadQueue, taskIdGlobal, sendMsgType, patched,
  waiting, run, upload, announced, sendOf, payloadOf, dangling,
  context, toGo   \* of the trigger or of the upload

downloadVars == <<store, media, filePath, age, handled, hpc, hEntry, loaded, rpc, rEntry, tries,
  result, cpc>>
triggerVars == <<request, downloads, received>>
uploadVars == <<queue, uploads, idAddr, voiceInfo, videoInfo, sent, worker, ahead>>
prototypeVars == <<triggerX0, uploadGlobalX0, mediaId, uploadQueue, taskIdGlobal, sendMsgType,
  patched, waiting, run, upload, announced, sendOf, payloadOf, dangling>>
sharedVars == <<context, toGo>>
uploadState == <<uploadVars, sharedVars>>
vars == <<part, downloadVars, triggerVars, uploadVars, prototypeVars, sharedVars>>

Down    == INSTANCE Download
Trigger == INSTANCE DownloadTrigger
Upload  == INSTANCE MediaUpload
Proto   == INSTANCE PrototypeMedia

-----------------------------------------------------------------------------
NoDown ==
  /\ store = Unused /\ media = Unused /\ filePath = Unused /\ age = Unused
  /\ handled = Unused /\ hpc = Unused /\ hEntry = Unused /\ loaded = Unused
  /\ rpc = Unused /\ rEntry = Unused /\ tries = Unused /\ result = Unused
  /\ cpc = Unused

NoTrigger ==
  /\ request = Unused /\ downloads = Unused /\ received = Unused

NoUpload ==
  /\ queue = Unused /\ uploads = Unused /\ idAddr = Unused /\ voiceInfo = Unused
  /\ videoInfo = Unused /\ sent = Unused /\ worker = Unused /\ ahead = Unused

NoProto ==
  /\ triggerX0 = Unused /\ uploadGlobalX0 = Unused /\ mediaId = Unused /\ uploadQueue = Unused
  /\ taskIdGlobal = Unused /\ sendMsgType = Unused /\ patched = Unused /\ waiting = Unused
  /\ run = Unused /\ upload = Unused /\ announced = Unused /\ sendOf = Unused
  /\ payloadOf = Unused /\ dangling = Unused

NoShared == context = Unused /\ toGo = Unused

Init ==
  \/ part = "download" /\ Down!Init /\ NoTrigger /\ NoUpload /\ NoProto /\ NoShared
  \/ part = "trigger" /\ Trigger!Init /\ NoDown /\ NoUpload /\ NoProto
  \/ part = "upload" /\ Upload!Init /\ NoDown /\ NoTrigger /\ NoProto
  \/ part = "prototype" /\ Proto!Init /\ NoDown /\ NoTrigger /\ NoUpload /\ NoShared

NextDownload  == part = "download" /\ Down!Next
                 /\ UNCHANGED <<part, triggerVars, uploadVars, prototypeVars, sharedVars>>
NextTrigger   == part = "trigger" /\ Trigger!Next
                 /\ UNCHANGED <<part, downloadVars, uploadVars, prototypeVars>>
NextUpload    == part = "upload" /\ Upload!Next
                 /\ UNCHANGED <<part, downloadVars, triggerVars, prototypeVars>>
NextPrototype == part = "prototype" /\ Proto!Next
                 /\ UNCHANGED <<part, downloadVars, triggerVars, uploadVars, sharedVars>>

Next == NextDownload \/ NextTrigger \/ NextUpload \/ NextPrototype

\* The fairness of Download and of MediaUpload.
Spec ==
  /\ Init /\ [][Next]_vars
  /\ \A r \in Readers : WF_downloadVars(part = "download" /\ Down!Reader(r))
  /\ WF_uploadState(part = "upload" /\ Upload!Worker)
  /\ WF_uploadState(part = "upload" /\ Upload!ExportReturns)
  /\ WF_uploadState(part = "upload" /\ Upload!Complete)
  /\ WF_uploadState(part = "upload" /\ Upload!Callback)

-----------------------------------------------------------------------------
(* The properties of the parts; their comments are in the modules. *)

\* The variables of the part that runs keep their types.
TypeOK ==
  CASE part = "download"  -> Down!TypeOK
    [] part = "trigger"   -> Trigger!TypeOK
    [] part = "upload"    -> Upload!TypeOK
    [] part = "prototype" -> Proto!TypeOK

\* Nothing collected, saved or handed on has a hole or a repetition in it.
NoHoles == part = "download" => Down!NoHoles

\* All who find the same entry get the same file.
ReadersAgree == part = "download" => Down!ReadersAgree

\* An entry that was saved collects nothing more.
SavedOnce == [][part = "download" => Down!KeepsSaved]_downloadVars

\* No reader waits for ever.
EveryReaderEnds == <>(part = "download" => \A r \in Readers : rpc[r] = "done")

\* Go gets every chunk that is not too large once and in order.
EveryChunkOnceInOrder == part = "trigger" => Trigger!EveryChunkOnceInOrder

\* What is sent is an upload the program asked for, and is sent once.
SentIsUploaded == part = "upload" => Upload!SentIsUploaded

\* The length and size of a video go out once, to the chat of that video.
VideoInfoUsedOnce == part = "upload" => Upload!VideoInfoUsedOnce

\* What was announced is sent unless worker and callback wait for each other.
AnnouncedIsSent ==
  \A u \in 1 .. MaxUploads :
    (part = "upload" /\ \E i \in DOMAIN toGo : toGo[i].up = u)
      ~> (part = "upload" /\ ((\E i \in DOMAIN sent : sent[i].up = u) \/ Upload!Jammed))

\* The keys of an upload go into one payload, of its kind.
KeysUsedOnce == part = "prototype" => Proto!KeysUsedOnce

\* WeChat's encoder frees the user's message objects, and the script's only if
\* another send was started meanwhile.
DeletesOnlyTheUsers == part = "prototype" => Proto!DeletesOnlyTheUsers
=============================================================================
