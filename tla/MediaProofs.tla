---------------------------- MODULE MediaProofs ----------------------------
(***************************************************************************)
(* Proofs about outgoing media, for any number of uploads, chats and       *)
(* tasks: the uploads of the agent (module MediaUpload), and those of the  *)
(* prototype (module PrototypeMedia).  With DownloadProofs they also give  *)
(* the types of all parts of MCMedia.                                      *)
(***************************************************************************)
EXTENDS DownloadProofs, FunctionTheorems, FiniteSetTheorems

-----------------------------------------------------------------------------
(* The inductive invariant of MediaUpload *)

\* An id buffer names an upload of the program, of its own kind.
IdsNamed ==
  \A k \in Kinds : idAddr[k] # 0 =>
    /\ idAddr[k] \in DOMAIN uploads
    /\ uploads[idAddr[k]].own /\ uploads[idAddr[k]].kind = k

\* Requests count as uploads to come.
RoomLeft == Len(uploads) + Cardinality(Upload!Asked) <= MaxUploads

Sends(s) == {i \in DOMAIN s : s[i].type = "send"}

\* A message about a finished upload of the program, if us are the uploads.
Finished(us, m) ==
  /\ m.up \in DOMAIN us /\ us[m.up].own /\ us[m.up].state = "done"
  /\ m.kind = us[m.up].kind /\ m.target = us[m.up].target

AllFinished(us, s) == \A i \in Sends(s) : Finished(us, s[i])

\* No upload is named twice in s, or both in s and in t.
Once(s) == \A i, j \in Sends(s) : s[i].up = s[j].up => i = j
Apart(s, t) == \A i \in Sends(s), j \in Sends(t) : s[i].up # t[j].up

\* No upload is named twice in the three of them.
OnceEach(s, q, t) ==
  Once(s) /\ Once(q) /\ Once(t) /\ Apart(s, q) /\ Apart(s, t) /\ Apart(q, t)

AnnouncedOnce ==
  /\ AllFinished(uploads, sent) /\ AllFinished(uploads, queue) /\ AllFinished(uploads, toGo)
  /\ OnceEach(sent, queue, toGo)

\* What the map still holds is of a video for that chat and has not gone out;
\* nothing has gone out of an upload yet to be started.
VideoInfoFresh ==
  /\ \A t \in Targets : videoInfo[t] # 0 =>
       /\ videoInfo[t] \in DOMAIN uploads
       /\ uploads[videoInfo[t]].kind = "video" /\ uploads[videoInfo[t]].target = t
       /\ \A i \in DOMAIN sent : sent[i].kind = "video" => sent[i].info # videoInfo[t]
  /\ \A i \in DOMAIN sent : sent[i].kind = "video" /\ sent[i].info # 0 =>
       sent[i].info \in DOMAIN uploads

\* Part of the types: the answer of a call is somewhere between the announcements.
CallTold == worker \in {"idle", "calling", "answered"} /\ ahead \in 0 .. Len(toGo)

UploadInv ==
  /\ Upload!TypeOK /\ IdsNamed /\ RoomLeft /\ AnnouncedOnce
  /\ VideoInfoFresh /\ Upload!VideoInfoUsedOnce

-----------------------------------------------------------------------------
(* The inductive invariant of PrototypeMedia *)

\* A buffer and a queue name uploads of the caller, of their own kind, and a
\* queue and the payloads together name an upload once.
Mine(ups, k, u) == ups[u].kind = k /\ ups[u].bot /\ ups[u].stage # "none"

QueuedOnce ==
  \A k \in Proto!MediaKinds :
    /\ mediaId[k] # None => Mine(upload, k, mediaId[k])
    /\ \A i \in DOMAIN uploadQueue[k] :
         LET u == uploadQueue[k][i]
         IN  /\ Mine(upload, k, u) /\ upload[u].stage = "done"
             /\ \A t \in Proto!Tasks : payloadOf[t] # u
    /\ \A i, j \in DOMAIN uploadQueue[k] : uploadQueue[k][i] = uploadQueue[k][j] => i = j

\* While it is the task looked for, a task gets what its own send asked for.
LookedFor(t) == t \in BotTasks /\ sendOf[t] # None

\* A payload is final: its upload has ended, and its task is on its way out.
PayloadsFinal ==
  \A t \in Proto!Tasks : payloadOf[t] # None =>
    /\ upload[payloadOf[t]].stage = "done"
    /\ LookedFor(t) /\ t \notin waiting
    /\ run.task = t => run.at = "exit"

SendsTold ==
  /\ taskIdGlobal # None => LookedFor(taskIdGlobal)
  /\ \A t \in BotTasks : sendOf[t] # None => upload[sendOf[t]].stage = "done"
  /\ \A t \in waiting \cap BotTasks :
       LookedFor(t) /\ (t = taskIdGlobal => sendMsgType = upload[sendOf[t]].kind)

AnnouncedDone == \A i \in DOMAIN announced : upload[announced[i]].stage = "done"

RunTold ==
  /\ run.at = "idle" => run = Proto!Idle
  /\ run.at # "idle" => run.task \in Proto!Tasks
  /\ run.task \notin waiting
  /\ run.at \in {"callback", "encode"} => run.kind # None
  /\ run.task \in BotTasks => LookedFor(run.task)
  /\ run.inserted => run.task \in BotTasks
  /\ run.task \in BotTasks /\ run.kind # None /\ run.task = taskIdGlobal =>
       run.kind = upload[sendOf[run.task]].kind

\* What the encoder will do with the object at hand.
PatchTold ==
  run.at = "encode" =>
    /\ run.task \in UserTasks => ~patched[run.kind]
    /\ run.task = taskIdGlobal => patched[run.kind]

ProtoInv ==
  /\ Proto!TypeOK /\ QueuedOnce /\ PayloadsFinal /\ SendsTold /\ AnnouncedDone /\ RunTold /\ PatchTold
  /\ Proto!KeysUsedOnce /\ Proto!DeletesOnlyTheUsers

-----------------------------------------------------------------------------
(* Facts about sequences of messages *)

Names(s, u) == \E i \in Sends(s) : s[i].up = u

LEMMA ApartMeans ==
  ASSUME NEW s, NEW t
  PROVE  Apart(s, t) <=> \A u : ~(Names(s, u) /\ Names(t, u))
  BY DEF Apart, Names

LEMMA SendsOfAppend ==
  ASSUME NEW T, NEW us, NEW s \in Seq(T), NEW m \in T
  PROVE  /\ \A u : Names(Append(s, m), u) <=> Names(s, u) \/ (m.type = "send" /\ m.up = u)
         /\ Once(s) /\ (m.type = "send" => ~Names(s, m.up)) => Once(Append(s, m))
         /\ AllFinished(us, s) /\ (m.type = "send" => Finished(us, m)) => AllFinished(us, Append(s, m))
<1>0. PICK t, n : t = Append(s, m) /\ n = Len(s) + 1
  OBVIOUS
<1>1. /\ n \in DOMAIN t /\ t[n] = m
      /\ \A i \in DOMAIN s : i \in DOMAIN t /\ t[i] = s[i] /\ i # n
      /\ \A i \in DOMAIN t : i # n => i \in DOMAIN s
  BY <1>0, AppendFacts
<1>2. Sends(t) = Sends(s) \cup {i \in {n} : m.type = "send"}
  BY <1>1 DEF Sends
<1>3. \A i \in Sends(s) : t[i] = s[i] /\ i # n
  BY <1>1 DEF Sends
<1>4. \A u : Names(t, u) <=> Names(s, u) \/ (m.type = "send" /\ m.up = u)
  BY <1>1, <1>2, <1>3 DEF Names
<1>5. Once(s) /\ (m.type = "send" => ~Names(s, m.up)) => Once(t)
  BY <1>1, <1>2, <1>3 DEF Once, Names
<1>6. AllFinished(us, s) /\ (m.type = "send" => Finished(us, m)) => AllFinished(us, t)
  BY <1>1, <1>2, <1>3 DEF AllFinished
<1> QED BY <1>0, <1>4, <1>5, <1>6

LEMMA SendsOfTail ==
  ASSUME NEW T, NEW us, NEW s \in Seq(T), s # <<>>
  PROVE  /\ \A u : Names(Tail(s), u) => Names(s, u)
         /\ Once(s) => Once(Tail(s))
         /\ AllFinished(us, s) => AllFinished(us, Tail(s))
         /\ Head(s).type = "send" => /\ Names(s, Head(s).up)
                                     /\ Once(s) => ~Names(Tail(s), Head(s).up)
                                     /\ AllFinished(us, s) => Finished(us, Head(s))
<1>0. PICK t : t = Tail(s)
  OBVIOUS
<1>1. /\ 1 \in DOMAIN s /\ Head(s) = s[1]
      /\ \A i \in DOMAIN t : i \in Nat /\ i + 1 \in DOMAIN s /\ t[i] = s[i + 1] /\ i + 1 # 1
  BY <1>0, HeadTailProperties
<1>2. \A i \in Sends(t) : i \in Nat /\ i + 1 \in Sends(s) /\ t[i] = s[i + 1] /\ i + 1 # 1
  BY <1>1 DEF Sends
<1>3. \A u : Names(t, u) => Names(s, u)
  BY <1>2 DEF Names
<1>4. Once(s) => Once(t)
  BY <1>2 DEF Once
<1>5. AllFinished(us, s) => AllFinished(us, t)
  BY <1>2 DEF AllFinished
<1>6. Head(s).type = "send" => 1 \in Sends(s)
  BY <1>1 DEF Sends
<1>7. Head(s).type = "send" => /\ Names(s, Head(s).up)
                               /\ Once(s) => ~Names(t, Head(s).up)
                               /\ AllFinished(us, s) => Finished(us, Head(s))
  BY <1>1, <1>2, <1>6 DEF Names, Once, AllFinished
<1> QED BY <1>0, <1>3, <1>4, <1>5, <1>7

LEMMA SendsOfConcat ==
  ASSUME NEW T, NEW us, NEW s \in Seq(T), NEW t \in Seq(T)
  PROVE  /\ \A u : Names(s \o t, u) => Names(s, u) \/ Names(t, u)
         /\ Once(s) /\ Once(t) /\ Apart(s, t) => Once(s \o t)
         /\ AllFinished(us, s) /\ AllFinished(us, t) => AllFinished(us, s \o t)
<1>0. PICK c, n : c = s \o t /\ n = Len(s)
  OBVIOUS
<1>1. /\ n \in Nat
      /\ \A i \in DOMAIN c : /\ i \in Nat
                             /\ \/ i <= n /\ i \in DOMAIN s /\ c[i] = s[i]
                                \/ i > n /\ i - n \in DOMAIN t /\ c[i] = t[i - n]
  BY <1>0, ConcatProperties
<1>2. \A i \in Sends(c) : /\ i \in Nat
                          /\ \/ i \in Sends(s) /\ c[i] = s[i]
                             \/ i - n \in Sends(t) /\ c[i] = t[i - n]
  BY <1>1 DEF Sends
<1>3. \A u : Names(c, u) => Names(s, u) \/ Names(t, u)
  BY <1>2 DEF Names
<1>4. Once(s) /\ Once(t) /\ Apart(s, t) => Once(c)
  <2> SUFFICES ASSUME Once(s), Once(t), Apart(s, t),
                      NEW i \in Sends(c), NEW j \in Sends(c), c[i].up = c[j].up
               PROVE  i = j
    BY DEF Once
  <2>1. CASE i \in Sends(s) /\ c[i] = s[i] /\ j \in Sends(s) /\ c[j] = s[j]
    BY <2>1 DEF Once
  <2>2. CASE i - n \in Sends(t) /\ c[i] = t[i - n] /\ j - n \in Sends(t) /\ c[j] = t[j - n]
    <3>1. i - n = j - n
      BY <2>2 DEF Once
    <3> QED BY <1>1, <1>2, <3>1
  <2>3. CASE i \in Sends(s) /\ c[i] = s[i] /\ j - n \in Sends(t) /\ c[j] = t[j - n]
    BY <2>3 DEF Apart
  <2>4. CASE i - n \in Sends(t) /\ c[i] = t[i - n] /\ j \in Sends(s) /\ c[j] = s[j]
    BY <2>4 DEF Apart
  <2> QED BY <1>2, <2>1, <2>2, <2>3, <2>4
<1>5. AllFinished(us, s) /\ AllFinished(us, t) => AllFinished(us, c)
  BY <1>2 DEF AllFinished
<1> QED BY <1>0, <1>3, <1>4, <1>5

LEMMA DispatchOnce ==
  ASSUME NEW T, NEW s \in Seq(T), NEW q \in Seq(T), NEW t \in Seq(T), t # <<>>, OnceEach(s, q, t)
  PROVE  OnceEach(s, Append(q, Head(t)), Tail(t))
<1>1. Head(t) \in T
  OBVIOUS
<1>2. /\ Head(t).type = "send" => Names(t, Head(t).up) /\ ~Names(Tail(t), Head(t).up)
      /\ Once(Tail(t)) /\ \A u : Names(Tail(t), u) => Names(t, u)
  BY SendsOfTail DEF OnceEach
<1>3. /\ Once(Append(q, Head(t)))
      /\ \A u : Names(Append(q, Head(t)), u) => Names(q, u) \/ (Head(t).type = "send" /\ Head(t).up = u)
  BY <1>1, <1>2, SendsOfAppend, ApartMeans DEF OnceEach
<1> QED BY <1>2, <1>3, ApartMeans DEF OnceEach

LEMMA SendOnce ==
  ASSUME NEW T, NEW s \in Seq(T), NEW q \in Seq(T), NEW t \in Seq(T), q # <<>>, OnceEach(s, q, t),
         Head(q).type = "send", NEW m \in T, m.up = Head(q).up
  PROVE  OnceEach(Append(s, m), Tail(q), t)
<1>2. /\ Names(q, m.up) /\ ~Names(Tail(q), m.up)
      /\ Once(Tail(q)) /\ \A u : Names(Tail(q), u) => Names(q, u)
  BY SendsOfTail DEF OnceEach
<1>3. /\ Once(Append(s, m))
      /\ \A u : Names(Append(s, m), u) => Names(s, u) \/ m.up = u
  BY <1>2, SendsOfAppend, ApartMeans DEF OnceEach
<1> QED BY <1>2, <1>3, ApartMeans DEF OnceEach

LEMMA DropOnce ==
  ASSUME NEW T, NEW s \in Seq(T), NEW q \in Seq(T), NEW t \in Seq(T), q # <<>>, OnceEach(s, q, t)
  PROVE  OnceEach(s, Tail(q), t)
<1>1. Once(Tail(q)) /\ \A u : Names(Tail(q), u) => Names(q, u)
  BY SendsOfTail DEF OnceEach
<1> QED BY <1>1, ApartMeans DEF OnceEach

LEMMA RequestOnce ==
  ASSUME NEW T, NEW s \in Seq(T), NEW q \in Seq(T), NEW t \in Seq(T), OnceEach(s, q, t),
         NEW m \in T, m.type # "send"
  PROVE  OnceEach(s, Append(q, m), t)
<1>1. Once(Append(q, m)) /\ \A u : Names(Append(q, m), u) => Names(q, u)
  BY SendsOfAppend DEF OnceEach
<1> QED BY <1>1, ApartMeans DEF OnceEach

LEMMA AnnounceOnce ==
  ASSUME NEW T, NEW s \in Seq(T), NEW q \in Seq(T), NEW t \in Seq(T), OnceEach(s, q, t),
         NEW m \in T, ~Names(s, m.up), ~Names(q, m.up), ~Names(t, m.up)
  PROVE  OnceEach(s, q, Append(t, m))
<1>1. /\ Once(Append(t, m))
      /\ \A u : Names(Append(t, m), u) => Names(t, u) \/ m.up = u
  BY SendsOfAppend DEF OnceEach
<1> QED BY <1>1, ApartMeans DEF OnceEach

-----------------------------------------------------------------------------
(* The requests in the queue *)

AskedIn(q) == {i \in DOMAIN q : q[i].type = "upload"}

LEMMA AskedFinite ==
  ASSUME NEW T, NEW q \in Seq(T)
  PROVE  IsFiniteSet(AskedIn(q)) /\ Cardinality(AskedIn(q)) \in Nat
<1>1. AskedIn(q) \subseteq 1 .. Len(q) /\ Len(q) \in Nat
  BY DEF AskedIn
<1>2. IsFiniteSet(1 .. Len(q))
  BY <1>1, FS_Interval
<1> QED BY <1>1, <1>2, FS_Subset, FS_CardinalityType

LEMMA AskedOfAppend ==
  ASSUME NEW T, NEW q \in Seq(T), NEW m \in T
  PROVE  Cardinality(AskedIn(Append(q, m))) =
           IF m.type = "upload" THEN Cardinality(AskedIn(q)) + 1 ELSE Cardinality(AskedIn(q))
<1>0. PICK t, n : t = Append(q, m) /\ n = Len(q) + 1
  OBVIOUS
<1>1. /\ n \in DOMAIN t /\ t[n] = m
      /\ \A i \in DOMAIN q : i \in DOMAIN t /\ t[i] = q[i] /\ i # n
      /\ \A i \in DOMAIN t : i # n => i \in DOMAIN q
  BY <1>0, AppendFacts
<1>2. AskedIn(t) = (IF m.type = "upload" THEN AskedIn(q) \cup {n} ELSE AskedIn(q)) /\ n \notin AskedIn(q)
  BY <1>1 DEF AskedIn
<1> QED BY <1>0, <1>2, AskedFinite, FS_AddElement

LEMMA AskedOfTail ==
  ASSUME NEW T, NEW q \in Seq(T), q # <<>>
  PROVE  Cardinality(AskedIn(Tail(q))) <=
           IF Head(q).type = "upload" THEN Cardinality(AskedIn(q)) - 1 ELSE Cardinality(AskedIn(q))
<1>0. PICK t, A, f : /\ t = Tail(q) /\ A = AskedIn(q) \ {1}
                     /\ f = [i \in A |-> i - 1]
  OBVIOUS
<1>1. /\ DOMAIN q = 1 .. Len(q) /\ DOMAIN t = 1 .. Len(q) - 1 /\ Len(q) \in Nat \ {0} /\ q[1] = Head(q)
      /\ \A i \in DOMAIN t : t[i] = q[i + 1]
  BY <1>0, HeadTailProperties
<1>2. \A i \in A : i - 1 \in AskedIn(t)
  BY <1>0, <1>1 DEF AskedIn
<1>3. \A i \in AskedIn(t) : i + 1 \in A /\ i = (i + 1) - 1
  BY <1>0, <1>1 DEF AskedIn
<1>4. f \in Surjection(A, AskedIn(t))
  <2>1. f \in [A -> AskedIn(t)]
    BY <1>0, <1>2
  <2>2. \A j \in AskedIn(t) : \E i \in A : f[i] = j
    BY <1>0, <1>3
  <2> QED BY <2>1, <2>2, Fun_IsSurj
<1>5. /\ IsFiniteSet(A)
      /\ Cardinality(A) = IF Head(q).type = "upload" THEN Cardinality(AskedIn(q)) - 1 ELSE Cardinality(AskedIn(q))
  <2>1. 1 \in AskedIn(q) <=> Head(q).type = "upload"
    BY <1>1 DEF AskedIn
  <2> QED BY <1>0, <2>1, AskedFinite, FS_RemoveElement
<1>6. Cardinality(AskedIn(t)) <= Cardinality(A)
  BY <1>4, <1>5, FS_Surjection
<1> QED BY <1>0, <1>5, <1>6

-----------------------------------------------------------------------------
(* SetToSeq of at most one element, as OnComplete uses it *)

LEMMA SameCardinality == \A S : Upload!Cardinality(S) = Cardinality(S)
  BY DEF Upload!Cardinality, Cardinality

LEMMA SeqOfSet ==
  ASSUME NEW S, NEW f \in [1 .. Cardinality(S) -> S], Upload!IsInjective(f)
  PROVE  Upload!SetToSeq(S) \in [1 .. Cardinality(S) -> S]
<1> DEFINE F == [1 .. Upload!Cardinality(S) -> S]
<1>1. f \in F
  BY SameCardinality
<1>2. (CHOOSE g \in F : Upload!IsInjective(g)) \in F
  <2> HIDE DEF F
  <2> QED BY <1>1, Zenon
<1>3. Upload!SetToSeq(S) = CHOOSE g \in F : Upload!IsInjective(g)
  BY DEF Upload!SetToSeq
<1> QED BY <1>2, <1>3, SameCardinality

LEMMA SeqOfNone == Upload!SetToSeq({}) = <<>>
<1>1. Cardinality({}) = 0
  BY FS_EmptySet
<1>2. \A f \in [1 .. 0 -> {}] : f = <<>>
  OBVIOUS
<1>3. <<>> \in [1 .. Cardinality({}) -> {}] /\ Upload!IsInjective(<<>>)
  BY <1>1 DEF Upload!IsInjective
<1> QED BY <1>1, <1>2, <1>3, SeqOfSet

LEMMA SeqOfOne == ASSUME NEW x PROVE Upload!SetToSeq({x}) = <<x>>
<1>1. Cardinality({x}) = 1
  BY FS_Singleton
<1>2. \A f \in [1 .. 1 -> {x}] : f = <<x>>
  OBVIOUS
<1>3. <<x>> \in [1 .. Cardinality({x}) -> {x}] /\ Upload!IsInjective(<<x>>)
  BY <1>1 DEF Upload!IsInjective
<1> QED BY <1>1, <1>2, <1>3, SeqOfSet

-----------------------------------------------------------------------------
(* The steps of MediaUpload *)

LEMMA UploadInit == Upload!Init => UploadInv
<1> SUFFICES ASSUME Upload!Init PROVE UploadInv
  OBVIOUS
<1>1. /\ queue = <<>> /\ toGo = <<>> /\ sent = <<>> /\ uploads = <<>>
      /\ idAddr = [k \in Kinds |-> 0] /\ voiceInfo = 0 /\ videoInfo = [t \in Targets |-> 0]
      /\ worker = "idle" /\ ahead = 0
  BY DEF Upload!Init
<1>2. Upload!TypeOK
  <2>1. context \in BOOLEAN
    BY DEF Upload!Init
  <2>2. 0 \in Upload!Ids /\ 0 <= QueueSize /\ 0 <= MaxUploads
    BY UploadAssumption DEF Upload!Ids
  <2>3. \A T : <<>> \in Seq(T) /\ Len(<<>>) = 0
    OBVIOUS
  <2>4. idAddr \in [Kinds -> Upload!Ids] /\ videoInfo \in [Targets -> Upload!Ids] /\ voiceInfo \in Upload!Ids
    BY <1>1, <2>2
  <2>5. CallTold
    BY <1>1 DEF CallTold
  <2> QED BY <1>1, <2>1, <2>2, <2>3, <2>4, <2>5, Zenon DEF Upload!TypeOK, CallTold
<1>3. RoomLeft
  <2>1. Upload!Asked = {}
    BY <1>1 DEF Upload!Asked
  <2> QED BY <1>1, <2>1, FS_EmptySet, UploadAssumption DEF RoomLeft
<1>4. IdsNamed /\ AnnouncedOnce /\ VideoInfoFresh /\ Upload!VideoInfoUsedOnce
  BY <1>1 DEF IdsNamed, AnnouncedOnce, AllFinished, OnceEach, Once, Apart, Sends, VideoInfoFresh,
              Upload!VideoInfoUsedOnce
<1> QED BY <1>2, <1>3, <1>4 DEF UploadInv

LEMMA UploadFacts ==
  ASSUME UploadInv
  PROVE  /\ queue \in Seq(Upload!Message) /\ Len(queue) \in Nat /\ Len(queue) <= QueueSize
         /\ toGo \in Seq(Upload!Announcement) /\ sent \in Seq(Upload!Announcement)
         /\ toGo \in Seq(Upload!Message) /\ sent \in Seq(Upload!Message)
         /\ \A m \in Upload!Announcement : m \in Upload!Message /\ m.type = "send"
         /\ uploads \in Seq(Upload!Upload) /\ Len(uploads) \in Nat /\ DOMAIN uploads = 1 .. Len(uploads)
         /\ Len(uploads) <= MaxUploads
<1>1. /\ queue \in Seq(Upload!Message) /\ Len(queue) <= QueueSize
      /\ toGo \in Seq(Upload!Announcement) /\ sent \in Seq(Upload!Announcement)
      /\ uploads \in Seq(Upload!Upload) /\ Len(uploads) <= MaxUploads
  BY DEF UploadInv, Upload!TypeOK
<1>2. \A m \in Upload!Announcement : m \in Upload!Message /\ m.type = "send"
  BY DEF Upload!Announcement
<1>3. \A s \in Seq(Upload!Announcement) : s \in Seq(Upload!Message)
  BY <1>2
<1>4. Len(queue) \in Nat /\ Len(uploads) \in Nat /\ DOMAIN uploads = 1 .. Len(uploads)
  BY <1>1
<1> QED BY <1>1, <1>2, <1>3, <1>4

LEMMA CallFacts == ASSUME UploadInv PROVE CallTold /\ Len(toGo) \in Nat
<1>1. CallTold
  BY Zenon DEF UploadInv, Upload!TypeOK, CallTold
<1> QED BY <1>1, UploadFacts

LEMMA CallKept ==
  ASSUME UploadInv, UNCHANGED <<worker, ahead, toGo>>
  PROVE  CallTold'
  BY CallFacts DEF CallTold

\* What us says of its uploads, vs says too.
Grown(us, vs) ==
  \A i \in DOMAIN us :
    /\ i \in DOMAIN vs
    /\ vs[i].own = us[i].own /\ vs[i].kind = us[i].kind /\ vs[i].target = us[i].target
    /\ us[i].state = "done" => vs[i].state = "done"

LEMMA KeptWhenGrown ==
  ASSUME UploadInv, Grown(uploads, uploads')
  PROVE  /\ UNCHANGED idAddr => IdsNamed'
         /\ UNCHANGED <<videoInfo, sent>> => VideoInfoFresh'
         /\ UNCHANGED sent => Upload!VideoInfoUsedOnce'
         /\ \A s : AllFinished(uploads, s) => AllFinished(uploads', s)
<1>i. IdsNamed /\ VideoInfoFresh /\ Upload!VideoInfoUsedOnce
  BY DEF UploadInv
<1>1. UNCHANGED idAddr => IdsNamed'
  BY <1>i DEF IdsNamed, Grown
<1>2. UNCHANGED <<videoInfo, sent>> => VideoInfoFresh'
  BY <1>i DEF VideoInfoFresh, Grown
<1>3. UNCHANGED sent => Upload!VideoInfoUsedOnce'
  BY <1>i DEF VideoInfoFresh, Upload!VideoInfoUsedOnce, Grown
<1>4. \A s : AllFinished(uploads, s) => AllFinished(uploads', s)
  BY DEF AllFinished, Finished, Grown
<1> QED BY <1>1, <1>2, <1>3, <1>4

LEMMA NoUploadYet == 0 \in Upload!Ids
  BY UploadAssumption DEF Upload!Ids

LEMMA RequestStep ==
  ASSUME UploadInv, NEW k \in Kinds, NEW t \in Targets, Upload!Request(k, t)
  PROVE  UploadInv'
<1>1. PICK m : m = [type |-> "upload", kind |-> k, target |-> t, up |-> 0, info |-> 0]
  OBVIOUS
<1>2. m \in Upload!Message /\ m.type = "upload" /\ m.type # "send"
  BY <1>1, NoUploadYet DEF Upload!Message
<1>3. /\ queue' = Append(queue, m) /\ Len(queue) < QueueSize
      /\ UNCHANGED <<uploads, idAddr, voiceInfo, videoInfo, toGo, sent, worker, ahead>>
  BY <1>1 DEF Upload!Request, Upload!callVars
<1>4. queue' \in Seq(Upload!Message) /\ Len(queue') <= QueueSize
  BY <1>2, <1>3, UploadFacts, UploadAssumption
<1>5. Upload!TypeOK'
  <2>1. CallTold'
    BY <1>3, CallKept
  <2> QED BY <1>3, <1>4, <2>1, Zenon DEF Upload!TypeOK, UploadInv, Upload!Request, CallTold
<1>6. RoomLeft'
  <2>1. Upload!Asked = AskedIn(queue) /\ Upload!Asked' = AskedIn(queue')
    BY DEF Upload!Asked, AskedIn
  <2>2. Len(uploads) + Cardinality(AskedIn(queue)) < MaxUploads
    BY <2>1, SameCardinality DEF Upload!Request, Upload!Room
  <2>3. Cardinality(AskedIn(queue')) = Cardinality(AskedIn(queue)) + 1
    BY <1>2, <1>3, UploadFacts, AskedOfAppend
  <2>4. Len(uploads) \in Nat /\ Cardinality(AskedIn(queue)) \in Nat /\ MaxUploads \in Nat
    BY UploadFacts, AskedFinite, UploadAssumption
  <2>5. Len(uploads') = Len(uploads)
    BY <1>3
  <2> QED BY <2>1, <2>2, <2>3, <2>4, <2>5 DEF RoomLeft
<1>7. AnnouncedOnce'
  <2>1. AllFinished(uploads, sent) /\ AllFinished(uploads, queue) /\ AllFinished(uploads, toGo)
        /\ OnceEach(sent, queue, toGo)
    BY DEF UploadInv, AnnouncedOnce
  <2>2. AllFinished(uploads, queue')
    BY <1>2, <1>3, <2>1, UploadFacts, SendsOfAppend
  <2>3. OnceEach(sent, queue', toGo)
    BY <1>2, <1>3, <2>1, UploadFacts, RequestOnce
  <2> QED BY <1>3, <2>1, <2>2, <2>3 DEF AnnouncedOnce
<1>8. Grown(uploads, uploads')
  BY <1>3 DEF Grown
<1> QED BY <1>3, <1>5, <1>6, <1>7, <1>8, KeptWhenGrown DEF UploadInv

\* An upload that starts.
LEMMA NewUpload ==
  ASSUME UploadInv, NEW new \in Upload!Upload, uploads' = Append(uploads, new),
         Len(uploads) < MaxUploads
  PROVE  /\ uploads' \in Seq(Upload!Upload) /\ Len(uploads') = Len(uploads) + 1
         /\ Len(uploads') <= MaxUploads
         /\ Grown(uploads, uploads')
         /\ Len(uploads) + 1 \in DOMAIN uploads' /\ uploads'[Len(uploads) + 1] = new
         /\ Len(uploads) + 1 \in Upload!Ids /\ Len(uploads) + 1 # 0
         /\ Len(uploads) + 1 \notin DOMAIN uploads
<1>1. uploads \in Seq(Upload!Upload) /\ Len(uploads) \in Nat /\ DOMAIN uploads = 1 .. Len(uploads)
  BY UploadFacts
<1>2. /\ uploads' \in Seq(Upload!Upload)
      /\ DOMAIN uploads' = 1 .. Len(uploads) + 1 /\ uploads'[Len(uploads) + 1] = new
      /\ \A i \in DOMAIN uploads : uploads'[i] = uploads[i]
  BY <1>1, AppendFacts
<1>3. Len(uploads') = Len(uploads) + 1
  BY <1>1
<1>4. \A i \in DOMAIN uploads : i \in DOMAIN uploads'
  BY <1>1, <1>2
<1>5. Grown(uploads, uploads')
  BY <1>2, <1>4 DEF Grown
<1>6. /\ Len(uploads) + 1 \in DOMAIN uploads' /\ Len(uploads') <= MaxUploads
      /\ Len(uploads) + 1 \in Upload!Ids /\ Len(uploads) + 1 # 0
      /\ Len(uploads) + 1 \notin DOMAIN uploads
  BY <1>1, <1>2, <1>3, UploadAssumption DEF Upload!Ids
<1> QED BY <1>2, <1>3, <1>5, <1>6

LEMMA UserUploadsStep ==
  ASSUME UploadInv, NEW k \in Kinds, NEW t \in Targets, Upload!UserUploads(k, t)
  PROVE  UploadInv'
<1>1. PICK new : new = [kind |-> k, target |-> t, own |-> FALSE, state |-> "running"]
  OBVIOUS
<1>2. new \in Upload!Upload
  BY <1>1 DEF Upload!Upload
<1>3. /\ uploads' = Append(uploads, new)
      /\ UNCHANGED <<queue, idAddr, voiceInfo, videoInfo, toGo, sent, worker, ahead>>
  BY <1>1 DEF Upload!UserUploads, Upload!callVars
<1>4. Len(uploads) + Cardinality(Upload!Asked) < MaxUploads /\ Cardinality(Upload!Asked) \in Nat
  <2>1. Upload!Asked = AskedIn(queue)
    BY DEF Upload!Asked, AskedIn
  <2> QED BY <2>1, UploadFacts, AskedFinite, SameCardinality DEF Upload!UserUploads, Upload!Room
<1>5. Len(uploads) < MaxUploads
  BY <1>4, UploadFacts, UploadAssumption
<1>6. /\ uploads' \in Seq(Upload!Upload) /\ Len(uploads') = Len(uploads) + 1
      /\ Len(uploads') <= MaxUploads /\ Grown(uploads, uploads')
  BY <1>2, <1>3, <1>5, NewUpload
<1>7. Upload!TypeOK'
  <2>1. context' \in BOOLEAN
    BY DEF Upload!UserUploads
  <2>2. CallTold'
    BY <1>3, CallKept
  <2> QED BY <1>3, <1>6, <2>1, <2>2, Zenon DEF Upload!TypeOK, UploadInv, CallTold
<1>8. RoomLeft'
  <2>1. Upload!Asked' = Upload!Asked
    BY <1>3 DEF Upload!Asked
  <2>2. Len(uploads) \in Nat /\ MaxUploads \in Nat
    BY UploadFacts, UploadAssumption
  <2>3. Len(uploads') = Len(uploads) + 1
    BY <1>6
  <2> QED BY <1>4, <2>1, <2>2, <2>3 DEF RoomLeft
<1>9. AnnouncedOnce'
  BY <1>3, <1>6, KeptWhenGrown DEF UploadInv, AnnouncedOnce
<1> QED BY <1>3, <1>6, <1>7, <1>8, <1>9, KeptWhenGrown DEF UploadInv

\* An upload that goes on or ends.
LEMMA ChangedUpload ==
  ASSUME UploadInv, NEW u \in DOMAIN uploads, uploads[u].state # "done",
         NEW state \in {"wrapped", "bare", "done", "failed"},
         uploads' = [uploads EXCEPT ![u].state = state]
  PROVE  /\ uploads' \in Seq(Upload!Upload) /\ Len(uploads') = Len(uploads)
         /\ Grown(uploads, uploads') /\ u \in DOMAIN uploads'
         /\ uploads'[u].state = state /\ uploads'[u].own = uploads[u].own
         /\ uploads'[u].kind = uploads[u].kind /\ uploads'[u].target = uploads[u].target
<1>1. /\ uploads \in Seq(Upload!Upload) /\ Len(uploads) \in Nat /\ DOMAIN uploads = 1 .. Len(uploads)
      /\ uploads[u] \in Upload!Upload
  BY UploadFacts
<1>2. PICK new : new = [uploads[u] EXCEPT !.state = state]
  OBVIOUS
<1>3. /\ new \in Upload!Upload /\ new.state = state /\ new.own = uploads[u].own
      /\ new.kind = uploads[u].kind /\ new.target = uploads[u].target
  BY <1>1, <1>2 DEF Upload!Upload
<1>4. uploads' = [uploads EXCEPT ![u] = new]
  BY <1>2
<1>5. /\ uploads' \in Seq(Upload!Upload) /\ Len(uploads') = Len(uploads)
      /\ \A j \in 1 .. Len(uploads) : uploads'[j] = IF j = u THEN new ELSE uploads[j]
  BY <1>1, <1>3, <1>4, ExceptSeq
<1>6. DOMAIN uploads' = DOMAIN uploads
  BY <1>1, <1>5
<1>7. Grown(uploads, uploads')
  BY <1>1, <1>3, <1>5, <1>6 DEF Grown
<1> QED BY <1>1, <1>3, <1>5, <1>6, <1>7

LEMMA GetCallbackStep ==
  ASSUME UploadInv, NEW u \in DOMAIN uploads, Upload!GetCallback(u)
  PROVE  UploadInv'
<1>1. PICK state : state = IF Upload!Named(u) THEN "wrapped" ELSE "bare"
  OBVIOUS
<1>2. /\ state \in {"wrapped", "bare", "done", "failed"} /\ uploads[u].state # "done"
      /\ uploads' = [uploads EXCEPT ![u].state = state]
      /\ UNCHANGED <<queue, idAddr, voiceInfo, videoInfo, toGo, sent, worker, ahead>>
  BY <1>1 DEF Upload!GetCallback, Upload!callVars
<1>3. /\ uploads' \in Seq(Upload!Upload) /\ Len(uploads') = Len(uploads)
      /\ Grown(uploads, uploads')
  BY <1>2, ChangedUpload
<1>4. Upload!TypeOK'
  <2>1. CallTold'
    BY <1>2, CallKept
  <2> QED BY <1>2, <1>3, <2>1, Zenon DEF Upload!TypeOK, UploadInv, Upload!GetCallback, CallTold
<1>5. RoomLeft'
  BY <1>2, <1>3 DEF UploadInv, RoomLeft, Upload!Asked
<1>6. AnnouncedOnce'
  BY <1>2, <1>3, KeptWhenGrown DEF UploadInv, AnnouncedOnce
<1> QED BY <1>2, <1>3, <1>4, <1>5, <1>6, KeptWhenGrown DEF UploadInv

LEMMA DispatchStep == ASSUME UploadInv, Upload!Dispatch PROVE UploadInv'
<1>1. PICK m : m = Head(toGo)
  OBVIOUS
<1>2. /\ toGo # <<>> /\ Len(queue) < QueueSize
      /\ queue' = Append(queue, m) /\ toGo' = Tail(toGo)
      /\ UNCHANGED <<uploads, idAddr, voiceInfo, videoInfo, sent>>
  BY <1>1 DEF Upload!Dispatch
<1>3. m \in Upload!Message /\ m.type = "send" /\ m.type # "upload"
  <2>1. m \in Upload!Announcement
    BY <1>1, <1>2, UploadFacts
  <2> QED BY <2>1, UploadFacts
<1>4. queue' \in Seq(Upload!Message) /\ Len(queue') <= QueueSize /\ toGo' \in Seq(Upload!Announcement)
  BY <1>2, <1>3, UploadFacts, UploadAssumption, HeadTailProperties
<1>5. Upload!TypeOK'
  <2>1. /\ worker' = worker /\ ~(worker = "answered" /\ ahead = 0)
        /\ ahead' = IF worker = "answered" THEN ahead - 1 ELSE 0
    BY DEF Upload!Dispatch, Upload!AnswerIsNext
  <2>2. Len(toGo') = Len(toGo) - 1 /\ Len(toGo') \in Nat
    BY <1>2, UploadFacts
  <2>3. CallTold'
    BY <2>1, <2>2, CallFacts DEF CallTold
  <2> QED BY <1>2, <1>4, <2>3, Zenon DEF Upload!TypeOK, UploadInv, Upload!Dispatch, CallTold
<1>6. RoomLeft'
  <2>1. Upload!Asked = AskedIn(queue) /\ Upload!Asked' = AskedIn(queue')
    BY DEF Upload!Asked, AskedIn
  <2>2. Cardinality(AskedIn(queue')) = Cardinality(AskedIn(queue))
    BY <1>2, <1>3, UploadFacts, AskedOfAppend
  <2> QED BY <1>2, <2>1, <2>2 DEF RoomLeft, UploadInv
<1>7. AnnouncedOnce'
  <2>1. AllFinished(uploads, sent) /\ AllFinished(uploads, queue) /\ AllFinished(uploads, toGo)
        /\ OnceEach(sent, queue, toGo)
    BY DEF UploadInv, AnnouncedOnce
  <2>2. Finished(uploads, m) /\ AllFinished(uploads, toGo')
    BY <1>1, <1>2, <1>3, <2>1, UploadFacts, SendsOfTail
  <2>3. AllFinished(uploads, queue')
    BY <1>2, <1>3, <2>1, <2>2, UploadFacts, SendsOfAppend
  <2>4. OnceEach(sent, queue', toGo')
    BY <1>1, <1>2, <2>1, UploadFacts, DispatchOnce
  <2> QED BY <1>2, <2>1, <2>2, <2>3, <2>4 DEF AnnouncedOnce
<1>8. Grown(uploads, uploads')
  BY <1>2 DEF Grown
<1> QED BY <1>2, <1>5, <1>6, <1>7, <1>8, KeptWhenGrown DEF UploadInv

\* At most one buffer holds the id of an upload: the one of its kind.
LEMMA NamedByItsKind ==
  ASSUME UploadInv, NEW u \in DOMAIN uploads, NEW k \in Kinds, idAddr[k] = u
  PROVE  uploads[u].own /\ k = uploads[u].kind
<1>1. u # 0
  BY UploadFacts
<1> QED BY <1>1 DEF UploadInv, IdsNamed

LEMMA OnCompleteStep ==
  ASSUME UploadInv, NEW u \in DOMAIN uploads, NEW keys \in BOOLEAN, Upload!OnComplete(u, keys)
  PROVE  UploadInv'
<1>1. PICK state : state = IF keys THEN "done" ELSE "failed"
  OBVIOUS
<1>2. /\ state \in {"wrapped", "bare", "done", "failed"} /\ uploads[u].state # "done"
      /\ uploads' = [uploads EXCEPT ![u].state = state]
      /\ UNCHANGED <<queue, idAddr, voiceInfo, videoInfo, sent, worker, ahead>>
  BY <1>1 DEF Upload!OnComplete, Upload!callVars
<1>3. /\ uploads' \in Seq(Upload!Upload) /\ Len(uploads') = Len(uploads)
      /\ Grown(uploads, uploads') /\ u \in DOMAIN uploads'
      /\ uploads'[u].state = state /\ uploads'[u].own = uploads[u].own
      /\ uploads'[u].kind = uploads[u].kind /\ uploads'[u].target = uploads[u].target
  BY <1>2, ChangedUpload
<1>4. PICK m : m = [type |-> "send", kind |-> uploads[u].kind, target |-> uploads[u].target, up |-> u,
                    info |-> IF uploads[u].kind = "voice" THEN voiceInfo ELSE 0]
  OBVIOUS
<1>5. \/ toGo' = toGo
      \/ toGo' = Append(toGo, m) /\ uploads[u].own /\ state = "done"
  <2> DEFINE named == {k \in Kinds : keys /\ idAddr[k] = u}
             ms == {[type |-> "send", kind |-> k, target |-> uploads[u].target, up |-> u,
                     info |-> IF k = "voice" THEN voiceInfo ELSE 0] : k \in named}
  <2>1. toGo' = toGo \o Upload!SetToSeq(ms)
    BY DEF Upload!OnComplete
  <2>2. \A k \in named : uploads[u].own /\ k = uploads[u].kind /\ keys
    BY NamedByItsKind
  <2>3. CASE named = {}
    <3>1. ms = {}
      BY <2>3
    <3>2. toGo' = toGo \o <<>>
      BY <2>1, <3>1, SeqOfNone
    <3> QED BY <3>2, UploadFacts, ConcatEmptySeq
  <2>4. CASE named # {}
    <3>1. named = {uploads[u].kind} /\ uploads[u].own /\ keys
      BY <2>2, <2>4
    <3>2. ms = {m}
      BY <3>1, <1>4
    <3>3. toGo' = toGo \o <<m>>
      BY <2>1, <3>2, SeqOfOne
    <3>4. toGo \o <<m>> = Append(toGo, m)
      <4> HIDE DEF ms, named
      <4> QED BY UploadFacts
    <3> QED BY <1>1, <3>1, <3>3, <3>4
  <2> QED BY <2>3, <2>4
<1>6. m \in Upload!Announcement /\ m \in Upload!Message /\ m.type = "send" /\ m.up = u
  <2>1. uploads[u] \in Upload!Upload
    BY UploadFacts
  <2>2. uploads[u].kind \in Kinds /\ uploads[u].target \in Targets
    BY <2>1 DEF Upload!Upload
  <2>3. u \in Upload!Ids /\ voiceInfo \in Upload!Ids
    <3>1. voiceInfo \in Upload!Ids
      BY DEF UploadInv, Upload!TypeOK
    <3> QED BY <3>1, UploadFacts, UploadAssumption DEF Upload!Ids
  <2> QED BY <1>4, <2>2, <2>3, NoUploadYet DEF Upload!Announcement, Upload!Message
<1>7. Upload!TypeOK'
  <2>1. toGo' \in Seq(Upload!Announcement)
    <3>1. toGo' = toGo \/ toGo' = Append(toGo, m)
      BY <1>5
    <3>2. toGo \in Seq(Upload!Announcement) /\ m \in Upload!Announcement
      BY <1>6, UploadFacts
    <3>3. Append(toGo, m) \in Seq(Upload!Announcement)
      BY <3>2, AppendFacts, Zenon
    <3> QED BY <3>1, <3>2, <3>3
  <2>2. Len(toGo') \in Nat /\ Len(toGo) <= Len(toGo')
    BY <1>5, UploadFacts, CallFacts
  <2>3. CallTold'
    BY <1>2, <2>2, CallFacts DEF CallTold
  <2> QED BY <1>2, <1>3, <2>1, <2>3, Zenon DEF Upload!TypeOK, UploadInv, Upload!OnComplete, CallTold
<1>8. RoomLeft'
  BY <1>2, <1>3 DEF UploadInv, RoomLeft, Upload!Asked
<1>9. AnnouncedOnce'
  <2>1. AllFinished(uploads, sent) /\ AllFinished(uploads, queue) /\ AllFinished(uploads, toGo)
        /\ OnceEach(sent, queue, toGo)
    BY DEF UploadInv, AnnouncedOnce
  <2>2. AllFinished(uploads', sent) /\ AllFinished(uploads', queue) /\ AllFinished(uploads', toGo)
    BY <1>3, <2>1, KeptWhenGrown
  <2>3. CASE toGo' = toGo
    BY <1>2, <2>1, <2>2, <2>3 DEF AnnouncedOnce
  <2>4. CASE toGo' = Append(toGo, m) /\ uploads[u].own /\ state = "done"
    <3>1. Finished(uploads', m)
      BY <1>3, <1>4, <2>4 DEF Finished
    <3>2. AllFinished(uploads', toGo')
      BY <1>6, <2>2, <2>4, <3>1, UploadFacts, SendsOfAppend
    <3>3. ~Names(sent, u) /\ ~Names(queue, u) /\ ~Names(toGo, u)
      BY <1>2, <2>1 DEF Names, AllFinished, Finished
    <3>4. OnceEach(sent, queue, toGo')
      BY <1>6, <2>1, <2>4, <3>3, UploadFacts, AnnounceOnce
    <3> QED BY <1>2, <2>2, <3>2, <3>4 DEF AnnouncedOnce
  <2> QED BY <1>5, <2>3, <2>4
<1> QED BY <1>2, <1>3, <1>7, <1>8, <1>9, KeptWhenGrown DEF UploadInv

LEMMA WorkerUploadsStep == ASSUME UploadInv, Upload!WorkerUploads PROVE UploadInv'
<1>1. PICK m, n : m = Head(queue) /\ n = Len(uploads) + 1
  OBVIOUS
<1>2. /\ queue # <<>> /\ m.type = "upload" /\ queue' = Tail(queue)
      /\ UNCHANGED <<toGo, sent, ahead>> /\ worker' = "calling"
      /\ videoInfo' = IF m.kind = "video"
                      THEN [videoInfo EXCEPT ![m.target] = IF context THEN n ELSE 0]
                      ELSE videoInfo
  BY <1>1 DEF Upload!WorkerUploads, Upload!WorkerTakes
<1>c. CallTold'
  BY <1>2, CallFacts DEF CallTold
<1>3. m \in Upload!Message /\ m.kind \in Kinds /\ m.target \in Targets
  <2>1. m \in Upload!Message
    BY <1>1, <1>2, UploadFacts
  <2> QED BY <2>1 DEF Upload!Message
<1>t. /\ idAddr \in [Kinds -> Upload!Ids] /\ videoInfo \in [Targets -> Upload!Ids]
      /\ voiceInfo \in Upload!Ids
  BY DEF UploadInv, Upload!TypeOK
<1>4. /\ Cardinality(Upload!Asked) \in Nat /\ Cardinality(Upload!Asked') \in Nat
      /\ Cardinality(Upload!Asked') <= Cardinality(Upload!Asked) - 1
  <2>1. Upload!Asked = AskedIn(queue) /\ Upload!Asked' = AskedIn(queue')
    BY DEF Upload!Asked, AskedIn
  <2>2. queue' \in Seq(Upload!Message)
    BY <1>2, UploadFacts
  <2> QED BY <1>1, <1>2, <2>1, <2>2, UploadFacts, AskedFinite, AskedOfTail
<1>5. Len(uploads) + Cardinality(Upload!Asked) <= MaxUploads
  BY DEF UploadInv, RoomLeft
<1>6. Len(uploads) < MaxUploads
  BY <1>4, <1>5, UploadFacts, UploadAssumption
<1>7. queue' \in Seq(Upload!Message) /\ Len(queue') <= QueueSize
  BY <1>2, UploadFacts, UploadAssumption, HeadTailProperties
<1>8. AllFinished(uploads, queue') /\ OnceEach(sent, queue', toGo)
  BY <1>2, UploadFacts, SendsOfTail, DropOnce DEF UploadInv, AnnouncedOnce
<1>9. context' \in BOOLEAN
  BY DEF UploadInv, Upload!TypeOK, Upload!WorkerUploads
<1>10. CASE ~context
  <2>1. UNCHANGED <<uploads, idAddr, voiceInfo>>
    BY <1>10 DEF Upload!WorkerUploads
  <2>2. \A t \in Targets : videoInfo'[t] = videoInfo[t] \/ videoInfo'[t] = 0
    BY <1>2, <1>3, <1>t, <1>10
  <2>3. videoInfo' \in [Targets -> Upload!Ids]
    BY <1>2, <1>t, <1>10, NoUploadYet
  <2>4. Upload!TypeOK'
    BY <1>2, <1>7, <1>9, <1>c, <2>1, <2>3, Zenon DEF UploadInv, Upload!TypeOK, CallTold
  <2>5. RoomLeft'
    <3>1. Len(uploads) \in Nat /\ MaxUploads \in Nat
      BY UploadFacts, UploadAssumption
    <3> QED BY <1>4, <1>5, <2>1, <3>1 DEF RoomLeft
  <2>6. VideoInfoFresh'
    BY <1>2, <2>1, <2>2 DEF UploadInv, VideoInfoFresh
  <2>7. AnnouncedOnce'
    BY <1>2, <1>8, <2>1 DEF UploadInv, AnnouncedOnce
  <2>8. Grown(uploads, uploads')
    BY <2>1 DEF Grown
  <2> QED BY <1>2, <2>1, <2>4, <2>5, <2>6, <2>7, <2>8, KeptWhenGrown DEF UploadInv
<1>11. CASE context
  <2>1. PICK state \in {"running", "refused"} :
          uploads' = Append(uploads, [kind |-> m.kind, target |-> m.target, own |-> TRUE, state |-> state])
    <3>1. Upload!StartUpload(m.kind, m.target)
      BY <1>1, <1>11 DEF Upload!WorkerUploads
    <3> QED BY <1>1, <3>1 DEF Upload!StartUpload, Upload!TriggerUploadVoice, Upload!FillUploadX1AndStart
  <2>2. /\ idAddr' = [idAddr EXCEPT ![m.kind] = n]
        /\ voiceInfo' = n \/ voiceInfo' = voiceInfo
    <3>1. Upload!StartUpload(m.kind, m.target)
      BY <1>1, <1>11 DEF Upload!WorkerUploads
    <3> QED BY <1>1, <3>1 DEF Upload!StartUpload, Upload!TriggerUploadVoice, Upload!FillUploadX1AndStart
  <2>3. PICK new : new = [kind |-> m.kind, target |-> m.target, own |-> TRUE, state |-> state]
    OBVIOUS
  <2>4. /\ new \in Upload!Upload
        /\ new.own /\ new.kind = m.kind /\ new.target = m.target
    BY <1>3, <2>1, <2>3 DEF Upload!Upload
  <2>5. /\ uploads' \in Seq(Upload!Upload) /\ Len(uploads') = n
        /\ Len(uploads') <= MaxUploads /\ Grown(uploads, uploads')
        /\ n \in DOMAIN uploads' /\ uploads'[n] = new
        /\ n \in Upload!Ids /\ n # 0 /\ n \notin DOMAIN uploads
    BY <1>1, <1>6, <2>1, <2>3, <2>4, NewUpload
  <2>6. \A k \in Kinds : idAddr'[k] = IF k = m.kind THEN n ELSE idAddr[k]
    BY <1>3, <1>t, <2>2
  <2>7. \A t \in Targets : \/ videoInfo'[t] = videoInfo[t]
                           \/ t = m.target /\ m.kind = "video" /\ videoInfo'[t] = n
    BY <1>2, <1>3, <1>t, <1>11
  <2>8. Upload!TypeOK'
    <3>1. idAddr' \in [Kinds -> Upload!Ids] /\ voiceInfo' \in Upload!Ids
      BY <1>3, <1>t, <2>2, <2>5
    <3>2. videoInfo' \in [Targets -> Upload!Ids]
      BY <1>2, <1>3, <1>t, <1>11, <2>5
    <3> QED BY <1>2, <1>7, <1>9, <1>c, <2>5, <3>1, <3>2, Zenon DEF UploadInv, Upload!TypeOK, CallTold
  <2>9. RoomLeft'
    BY <1>1, <1>4, <1>5, <2>5, UploadFacts, UploadAssumption DEF RoomLeft
  <2>10. IdsNamed'
    <3>1. \A k \in Kinds : idAddr[k] # 0 =>
            idAddr[k] \in DOMAIN uploads /\ uploads[idAddr[k]].own /\ uploads[idAddr[k]].kind = k
      BY DEF UploadInv, IdsNamed
    <3>2. \A k \in Kinds : idAddr[k] # 0 =>
            idAddr[k] \in DOMAIN uploads' /\ uploads'[idAddr[k]].own /\ uploads'[idAddr[k]].kind = k
      BY <2>5, <3>1 DEF Grown
    <3> QED BY <2>4, <2>5, <2>6, <3>2 DEF IdsNamed
  <2>11. VideoInfoFresh'
    <3>1. \A i \in DOMAIN sent : sent[i].kind = "video" => sent[i].info # n
      BY <2>5 DEF UploadInv, VideoInfoFresh
    <3>2. ASSUME NEW t \in Targets, videoInfo'[t] # 0
          PROVE  /\ videoInfo'[t] \in DOMAIN uploads'
                 /\ uploads'[videoInfo'[t]].kind = "video" /\ uploads'[videoInfo'[t]].target = t
                 /\ \A i \in DOMAIN sent : sent[i].kind = "video" => sent[i].info # videoInfo'[t]
      <4>1. CASE videoInfo'[t] = videoInfo[t]
        BY <2>5, <3>2, <4>1 DEF UploadInv, VideoInfoFresh, Grown
      <4>2. CASE t = m.target /\ m.kind = "video" /\ videoInfo'[t] = n
        BY <2>4, <2>5, <3>1, <4>2
      <4> QED BY <2>7, <4>1, <4>2
    <3>3. \A i \in DOMAIN sent : sent[i].kind = "video" /\ sent[i].info # 0 =>
            sent[i].info \in DOMAIN uploads'
      BY <2>5 DEF UploadInv, VideoInfoFresh, Grown
    <3> QED BY <1>2, <3>2, <3>3 DEF VideoInfoFresh
  <2>12. AnnouncedOnce'
    BY <1>2, <1>8, <2>5, KeptWhenGrown DEF UploadInv, AnnouncedOnce
  <2> QED BY <1>2, <2>5, <2>8, <2>9, <2>10, <2>11, <2>12, KeptWhenGrown DEF UploadInv
<1> QED BY <1>10, <1>11

LEMMA WorkerSendsStep == ASSUME UploadInv, Upload!WorkerSends PROVE UploadInv'
<1>1. PICK h, v : h = Head(queue) /\ v = videoInfo[h.target]
  OBVIOUS
<1>2. PICK m : m = IF h.kind = "video" THEN [h EXCEPT !.info = v] ELSE h
  OBVIOUS
<1>3. /\ queue # <<>> /\ h.type = "send" /\ queue' = Tail(queue)
      /\ UNCHANGED <<uploads, context, idAddr, voiceInfo, toGo, ahead>> /\ worker' = "calling"
      /\ sent' = Append(sent, m)
      /\ videoInfo' = IF h.kind = "video" THEN [videoInfo EXCEPT ![h.target] = 0] ELSE videoInfo
  BY <1>1, <1>2 DEF Upload!WorkerSends, Upload!WorkerTakes
<1>t. videoInfo \in [Targets -> Upload!Ids]
  BY DEF UploadInv, Upload!TypeOK
<1>4. h \in Upload!Message /\ h.target \in Targets /\ v \in Upload!Ids
  <2>1. h \in Upload!Message
    BY <1>1, <1>3, UploadFacts
  <2>2. h.target \in Targets
    BY <2>1 DEF Upload!Message
  <2> QED BY <1>1, <1>t, <2>1, <2>2
<1>5. /\ m \in Upload!Announcement /\ m \in Upload!Message
      /\ m.type = "send" /\ m.up = h.up /\ m.kind = h.kind /\ m.target = h.target
      /\ m.kind = "video" => m.info = v
  BY <1>2, <1>3, <1>4 DEF Upload!Announcement, Upload!Message
<1>6. queue' \in Seq(Upload!Message) /\ Len(queue') <= QueueSize /\ sent' \in Seq(Upload!Announcement)
  BY <1>3, <1>5, UploadFacts, UploadAssumption, HeadTailProperties
<1>7. videoInfo' \in [Targets -> Upload!Ids]
  BY <1>3, <1>4, <1>t, NoUploadYet
<1>8. Upload!TypeOK'
  <2>1. CallTold'
    BY <1>3, CallFacts DEF CallTold
  <2> QED BY <1>3, <1>6, <1>7, <2>1, Zenon DEF UploadInv, Upload!TypeOK, CallTold
<1>9. RoomLeft'
  <2>1. Upload!Asked = AskedIn(queue) /\ Upload!Asked' = AskedIn(queue')
    BY DEF Upload!Asked, AskedIn
  <2>2. Cardinality(AskedIn(queue')) <= Cardinality(AskedIn(queue))
    BY <1>1, <1>3, UploadFacts, AskedOfTail, AskedFinite
  <2>3. Cardinality(AskedIn(queue')) \in Nat /\ Cardinality(AskedIn(queue)) \in Nat
    BY <1>6, UploadFacts, AskedFinite
  <2>4. Len(uploads') = Len(uploads) /\ Len(uploads) \in Nat /\ MaxUploads \in Nat
    BY <1>3, UploadFacts, UploadAssumption
  <2>5. RoomLeft
    BY DEF UploadInv
  <2> QED BY <2>1, <2>2, <2>3, <2>4, <2>5 DEF RoomLeft
<1>10. AnnouncedOnce'
  <2>1. AllFinished(uploads, sent) /\ AllFinished(uploads, queue) /\ AllFinished(uploads, toGo)
        /\ OnceEach(sent, queue, toGo)
    BY DEF UploadInv, AnnouncedOnce
  <2>2. Finished(uploads, h) /\ AllFinished(uploads, queue')
    BY <1>1, <1>3, <2>1, UploadFacts, SendsOfTail
  <2>3. Finished(uploads, m)
    BY <1>5, <2>2 DEF Finished
  <2>4. AllFinished(uploads, sent')
    BY <1>3, <1>5, <2>1, <2>3, UploadFacts, SendsOfAppend
  <2>5. OnceEach(sent', queue', toGo)
    BY <1>1, <1>3, <1>5, <2>1, UploadFacts, SendOnce
  <2> QED BY <1>3, <2>1, <2>2, <2>4, <2>5 DEF AnnouncedOnce
<1>11. PICK n : n = Len(sent) + 1
  OBVIOUS
<1>12. /\ n \in DOMAIN sent' /\ sent'[n] = m
       /\ \A i \in DOMAIN sent : i \in DOMAIN sent' /\ sent'[i] = sent[i] /\ i # n
       /\ \A i \in DOMAIN sent' : i # n => i \in DOMAIN sent
  BY <1>3, <1>5, <1>11, UploadFacts, AppendFacts
<1>13. \A t \in Targets : videoInfo'[t] = IF h.kind = "video" /\ t = h.target THEN 0 ELSE videoInfo[t]
  BY <1>3, <1>t
<1>14. m.kind = "video" /\ m.info # 0 =>
         /\ m.info \in DOMAIN uploads
         /\ uploads[m.info].kind = "video" /\ uploads[m.info].target = m.target
         /\ \A i \in DOMAIN sent : sent[i].kind = "video" => sent[i].info # m.info
  BY <1>1, <1>4, <1>5 DEF UploadInv, VideoInfoFresh
<1>15. VideoInfoFresh'
  <2>1. ASSUME NEW t \in Targets, videoInfo'[t] # 0
        PROVE  /\ videoInfo'[t] \in DOMAIN uploads
               /\ uploads[videoInfo'[t]].kind = "video" /\ uploads[videoInfo'[t]].target = t
               /\ \A i \in DOMAIN sent' : sent'[i].kind = "video" => sent'[i].info # videoInfo'[t]
    <3>1. videoInfo'[t] = videoInfo[t] /\ ~(h.kind = "video" /\ t = h.target)
      BY <1>13, <2>1
    <3>2. /\ videoInfo[t] \in DOMAIN uploads
          /\ uploads[videoInfo[t]].kind = "video" /\ uploads[videoInfo[t]].target = t
          /\ \A i \in DOMAIN sent : sent[i].kind = "video" => sent[i].info # videoInfo[t]
      BY <2>1, <3>1 DEF UploadInv, VideoInfoFresh
    <3>3. m.kind = "video" => m.info # videoInfo[t]
      BY <1>5, <1>14, <2>1, <3>1, <3>2
    <3> QED BY <1>12, <3>1, <3>2, <3>3
  <2>2. \A i \in DOMAIN sent' : sent'[i].kind = "video" /\ sent'[i].info # 0 =>
          sent'[i].info \in DOMAIN uploads
    BY <1>12, <1>14 DEF UploadInv, VideoInfoFresh
  <2> QED BY <1>3, <2>1, <2>2 DEF VideoInfoFresh
<1>16. Upload!VideoInfoUsedOnce'
  BY <1>3, <1>12, <1>14 DEF UploadInv, Upload!VideoInfoUsedOnce
<1>17. IdsNamed'
  BY <1>3 DEF UploadInv, IdsNamed
<1> QED BY <1>8, <1>9, <1>10, <1>15, <1>16, <1>17 DEF UploadInv

\* The call of an export, and its answer, change nothing else.
LEMMA UploadUntouched ==
  ASSUME UploadInv, CallTold', UNCHANGED <<queue, uploads, idAddr, voiceInfo, videoInfo, sent, context, toGo>>
  PROVE  UploadInv'
<1>1. Upload!TypeOK'
  BY Zenon DEF UploadInv, Upload!TypeOK, CallTold
<1>2. Upload!Asked' = Upload!Asked
  BY DEF Upload!Asked
<1> QED BY <1>1, <1>2 DEF UploadInv, IdsNamed, RoomLeft, AnnouncedOnce, VideoInfoFresh,
                          Upload!VideoInfoUsedOnce

LEMMA CallStep ==
  ASSUME UploadInv, Upload!ExportReturns \/ Upload!DispatchAnswer
  PROVE  UploadInv'
<1>1. UNCHANGED <<queue, uploads, idAddr, voiceInfo, videoInfo, sent, context, toGo>>
  BY DEF Upload!ExportReturns, Upload!DispatchAnswer
<1>2. CallTold'
  BY CallFacts DEF Upload!ExportReturns, Upload!DispatchAnswer, CallTold
<1> QED BY <1>1, <1>2, UploadUntouched

LEMMA UploadStep == ASSUME UploadInv, Upload!Next PROVE UploadInv'
<1>1. ASSUME NEW k \in Kinds, NEW t \in Targets, Upload!Request(k, t) \/ Upload!UserUploads(k, t)
      PROVE  UploadInv'
  BY <1>1, RequestStep, UserUploadsStep
<1>2. CASE Upload!Worker
  BY <1>2, WorkerUploadsStep, WorkerSendsStep DEF Upload!Worker
<1>3. CASE Upload!Complete
  BY <1>3, GetCallbackStep, OnCompleteStep DEF Upload!Complete
<1>4. CASE Upload!Callback
  BY <1>4, DispatchStep, CallStep DEF Upload!Callback
<1>5. CASE Upload!ExportReturns
  BY <1>5, CallStep
<1> QED BY <1>1, <1>2, <1>3, <1>4, <1>5 DEF Upload!Next

LEMMA UploadStutter == ASSUME UploadInv, UNCHANGED uploadState PROVE UploadInv'
<1>1. UNCHANGED <<queue, uploads, idAddr, voiceInfo, videoInfo, sent, context, toGo, worker, ahead>>
  BY DEF uploadState, uploadVars, sharedVars
<1> QED BY <1>1, CallKept, UploadUntouched

\* SentIsUploaded speaks of the three sequences as one.
LEMMA InvMeansSentIsUploaded == ASSUME UploadInv PROVE Upload!SentIsUploaded
<1>1. PICK s, q, t : s = sent /\ q = queue /\ t = toGo
  OBVIOUS
<1>2. s \in Seq(Upload!Message) /\ q \in Seq(Upload!Message) /\ t \in Seq(Upload!Message)
  BY <1>1, UploadFacts
<1>3. /\ AllFinished(uploads, s) /\ AllFinished(uploads, q) /\ AllFinished(uploads, t)
      /\ OnceEach(s, q, t)
  BY <1>1 DEF UploadInv, AnnouncedOnce
<1>4. s \o q \in Seq(Upload!Message)
  BY <1>2, ConcatProperties
<1>5. /\ \A u : Names(s \o q, u) => Names(s, u) \/ Names(q, u)
      /\ Once(s \o q) /\ AllFinished(uploads, s \o q)
  BY <1>2, <1>3, SendsOfConcat DEF OnceEach
<1>6. Apart(s \o q, t)
  BY <1>3, <1>5, ApartMeans DEF OnceEach
<1>7. Once((s \o q) \o t) /\ AllFinished(uploads, (s \o q) \o t)
  BY <1>2, <1>3, <1>4, <1>5, <1>6, SendsOfConcat DEF OnceEach
<1>8. Upload!Announced = (s \o q) \o t
  BY <1>1, <1>2 DEF Upload!Announced
<1>9. Once(Upload!Announced) /\ AllFinished(uploads, Upload!Announced)
  BY <1>7, <1>8
<1> QED BY <1>9 DEF Upload!SentIsUploaded, Once, AllFinished, Finished, Sends

-----------------------------------------------------------------------------
(* The steps of PrototypeMedia *)

LEMMA NoneIsNone ==
  /\ None \notin Uploads /\ None \notin Proto!Tasks /\ None \notin Proto!MediaKinds
  /\ None \notin BotTasks /\ None \notin UserTasks
  /\ \A t \in BotTasks : t \notin UserTasks /\ t \in Proto!Tasks
  /\ \A t \in UserTasks : t \in Proto!Tasks
  /\ \A t \in Proto!Tasks : t \in BotTasks \/ t \in UserTasks
  BY PrototypeAssumption DEF Proto!Tasks, Proto!MediaKinds

LEMMA ProtoTypes ==
  ASSUME ProtoInv
  PROVE  /\ mediaId \in [Proto!MediaKinds -> Uploads \cup {None}]
         /\ uploadQueue \in [Proto!MediaKinds -> Seq(Uploads)]
         /\ taskIdGlobal \in BotTasks \cup {None}
         /\ sendMsgType \in Proto!MediaKinds \cup {None}
         /\ waiting \subseteq Proto!Tasks
         /\ run.task \in Proto!Tasks \cup {None} /\ run.kind \in Proto!MediaKinds \cup {None}
         /\ run.at \in {"idle", "callback", "encode", "exit"}
         /\ DOMAIN upload = Uploads /\ \A u \in Uploads : upload[u].kind \in Proto!MediaKinds
         /\ announced \in Seq(Uploads)
         /\ sendOf \in [BotTasks -> Uploads \cup {None}]
         /\ payloadOf \in [Proto!Tasks -> Uploads \cup {None}]
         /\ dangling \subseteq BotTasks
<1>1. Proto!TypeOK
  BY DEF ProtoInv
<1>2. run.task \in Proto!Tasks \cup {None} /\ run.kind \in Proto!MediaKinds \cup {None}
      /\ run.at \in {"idle", "callback", "encode", "exit"}
  BY <1>1 DEF Proto!TypeOK
<1>3. DOMAIN upload = Uploads /\ \A u \in Uploads : upload[u].kind \in Proto!MediaKinds
  BY <1>1 DEF Proto!TypeOK
<1> QED BY <1>1, <1>2, <1>3, Zenon DEF Proto!TypeOK

LEMMA ProtoInit == Proto!Init => ProtoInv
<1> SUFFICES ASSUME Proto!Init PROVE ProtoInv
  OBVIOUS
<1>1. /\ mediaId = [k \in Proto!MediaKinds |-> None] /\ uploadQueue = [k \in Proto!MediaKinds |-> <<>>]
      /\ taskIdGlobal = None /\ sendMsgType = None /\ waiting = {} /\ run = Proto!Idle
      /\ upload = [u \in Uploads |-> Proto!NoUpload] /\ announced = <<>>
      /\ sendOf = [t \in BotTasks |-> None] /\ payloadOf = [t \in Proto!Tasks |-> None]
      /\ dangling = {}
  BY DEF Proto!Init
<1>2. run.at = "idle" /\ run.task = None /\ run.inserted = FALSE
  BY <1>1 DEF Proto!Idle
<1>3. Proto!TypeOK
  <2>1. /\ triggerX0 \in BOOLEAN /\ uploadGlobalX0 \in BOOLEAN
        /\ patched \in [Proto!MediaKinds -> BOOLEAN]
    BY DEF Proto!Init
  <2>2. run \in [task : Proto!Tasks \cup {None}, kind : Proto!MediaKinds \cup {None},
                 inserted : BOOLEAN, at : {"idle", "callback", "encode", "exit"}]
    BY <1>1 DEF Proto!Idle
  <2>3. upload \in [Uploads -> [stage : {"none", "asked", "threw", "wrapped", "bare", "done", "failed"},
                                kind : Proto!MediaKinds, to : Peers \cup {None}, bot : BOOLEAN]]
    BY <1>1 DEF Proto!NoUpload, Proto!MediaKinds
  <2>4. /\ mediaId \in [Proto!MediaKinds -> Uploads \cup {None}]
        /\ uploadQueue \in [Proto!MediaKinds -> Seq(Uploads)]
        /\ announced \in Seq(Uploads)
        /\ sendOf \in [BotTasks -> Uploads \cup {None}]
        /\ payloadOf \in [Proto!Tasks -> Uploads \cup {None}]
    BY <1>1
  <2>5. \A k \in Proto!MediaKinds : mediaId[k] = None
    BY <1>1
  <2>6. taskIdGlobal \in BotTasks \cup {None} /\ sendMsgType \in Proto!MediaKinds \cup {None}
        /\ waiting \subseteq Proto!Tasks /\ dangling \subseteq BotTasks
    BY <1>1
  <2> QED BY <2>1, <2>2, <2>3, <2>4, <2>5, <2>6, Zenon DEF Proto!TypeOK
<1>4. QueuedOnce /\ PayloadsFinal /\ SendsTold /\ AnnouncedDone
  BY <1>1 DEF QueuedOnce, PayloadsFinal, SendsTold, AnnouncedDone
<1>5. RunTold /\ PatchTold
  BY <1>1, <1>2, NoneIsNone DEF RunTold, PatchTold
<1>6. Proto!KeysUsedOnce /\ Proto!DeletesOnlyTheUsers
  BY <1>1, <1>2 DEF Proto!KeysUsedOnce, Proto!DeletesOnlyTheUsers
<1> QED BY <1>3, <1>4, <1>5, <1>6 DEF ProtoInv

\* The uploads that were started keep their kind and whose they are, and those
\* that are done stay done.
UploadsKept ==
  \A u \in Uploads :
    /\ upload[u].stage # "none" =>
         /\ upload'[u].stage # "none"
         /\ upload'[u].kind = upload[u].kind /\ upload'[u].bot = upload[u].bot
    /\ upload[u].stage = "done" => upload'[u].stage = "done"

taskVars == <<taskIdGlobal, sendMsgType, patched, waiting, run, sendOf, payloadOf, dangling>>

\* A step of an upload does not disturb the tasks.
LEMMA TasksKept ==
  ASSUME ProtoInv, UploadsKept, UNCHANGED taskVars
  PROVE  /\ PayloadsFinal' /\ SendsTold' /\ RunTold' /\ PatchTold'
         /\ Proto!KeysUsedOnce' /\ Proto!DeletesOnlyTheUsers'
<1>1. UNCHANGED <<taskIdGlobal, sendMsgType, patched, waiting, run, sendOf, payloadOf>>
  BY DEF taskVars
<1>2. \A u \in Uploads : upload[u].stage = "done" =>
        upload'[u].stage = "done" /\ upload'[u].kind = upload[u].kind /\ upload'[u].bot = upload[u].bot
  BY DEF UploadsKept
<1>3. \A t \in Proto!Tasks : payloadOf[t] # None => payloadOf[t] \in Uploads
  BY ProtoTypes
<1>4. \A t \in BotTasks : sendOf[t] # None => sendOf[t] \in Uploads /\ upload[sendOf[t]].stage = "done"
  BY ProtoTypes DEF ProtoInv, SendsTold
<1>5. PayloadsFinal'
  BY <1>1, <1>2, <1>3 DEF ProtoInv, PayloadsFinal, LookedFor
<1>6. SendsTold'
  BY <1>1, <1>2, <1>4 DEF ProtoInv, SendsTold, LookedFor
<1>7. RunTold'
  <2>1. run.task \in BotTasks => sendOf[run.task] # None
    BY DEF ProtoInv, RunTold, LookedFor
  <2> QED BY <1>1, <1>2, <1>4, <2>1 DEF ProtoInv, RunTold, LookedFor
<1>8. PatchTold' /\ Proto!DeletesOnlyTheUsers'
  BY <1>1 DEF ProtoInv, PatchTold, Proto!DeletesOnlyTheUsers
<1>9. Proto!KeysUsedOnce'
  <2>1. \A t \in Proto!Tasks : payloadOf[t] # None =>
          upload[payloadOf[t]].stage = "done" /\ t \in BotTasks /\ sendOf[t] # None
    BY DEF ProtoInv, PayloadsFinal, LookedFor
  <2> QED BY <1>1, <1>2, <1>3, <1>4, <2>1 DEF ProtoInv, Proto!KeysUsedOnce
<1> QED BY <1>5, <1>6, <1>7, <1>8, <1>9

\* The queues, and what was announced, when neither changes.
LEMMA QueuesKept ==
  ASSUME ProtoInv, UploadsKept, UNCHANGED <<uploadQueue, announced, payloadOf>>,
         \A k \in Proto!MediaKinds : mediaId'[k] # None => mediaId'[k] \in Uploads /\ Mine(upload', k, mediaId'[k])
  PROVE  QueuedOnce' /\ AnnouncedDone'
<1>1. \A k \in Proto!MediaKinds : \A i \in DOMAIN uploadQueue[k] : uploadQueue[k][i] \in Uploads
  BY ProtoTypes
<1>2. \A i \in DOMAIN announced : announced[i] \in Uploads
  BY ProtoTypes
<1>3. \A k : \A u \in Uploads : Mine(upload, k, u) => Mine(upload', k, u)
  BY DEF Mine, UploadsKept
<1>5. QueuedOnce'
  BY <1>1, <1>3 DEF ProtoInv, QueuedOnce, UploadsKept
<1>4. AnnouncedDone'
  BY <1>2 DEF ProtoInv, AnnouncedDone, UploadsKept
<1> QED BY <1>4, <1>5

ProtoUploads ==
  [Uploads -> [stage : {"none", "asked", "threw", "wrapped", "bare", "done", "failed"},
               kind : Proto!MediaKinds, to : Peers \cup {None}, bot : BOOLEAN]]

\* An upload that starts.
LEMMA StartedUpload ==
  ASSUME ProtoInv, NEW u \in Uploads, upload[u].stage = "none", NEW stage \in {"asked", "threw"},
         NEW k \in Proto!MediaKinds, NEW p \in Peers, NEW bot \in BOOLEAN,
         upload' = [upload EXCEPT ![u] = [stage |-> stage, kind |-> k, to |-> p, bot |-> bot]]
  PROVE  /\ upload' \in ProtoUploads /\ UploadsKept
         /\ upload'[u].kind = k /\ upload'[u].bot = bot /\ upload'[u].stage # "none"
<1>1. upload \in ProtoUploads
  BY DEF ProtoInv, Proto!TypeOK, ProtoUploads
<1>2. PICK new : new = [stage |-> stage, kind |-> k, to |-> p, bot |-> bot]
  OBVIOUS
<1>3. \A v \in Uploads : upload'[v] = IF v = u THEN new ELSE upload[v]
  BY <1>1, <1>2 DEF ProtoUploads
<1>4. new.kind = k /\ new.bot = bot /\ new.stage # "none"
  BY <1>2
<1>5. upload' \in ProtoUploads
  BY <1>1 DEF ProtoUploads
<1>6. UploadsKept
  BY <1>3 DEF UploadsKept
<1> QED BY <1>3, <1>4, <1>5, <1>6

\* An upload that goes on or ends.
LEMMA ContinuedUpload ==
  ASSUME ProtoInv, NEW u \in Uploads, upload[u].stage \notin {"none", "done"},
         NEW stage \in {"wrapped", "bare", "done", "failed"},
         upload' = [upload EXCEPT ![u].stage = stage]
  PROVE  /\ upload' \in ProtoUploads /\ UploadsKept
         /\ upload'[u].stage = stage /\ upload'[u].kind = upload[u].kind
<1>1. upload \in ProtoUploads
  BY DEF ProtoInv, Proto!TypeOK, ProtoUploads
<1>2. PICK new : new = [upload[u] EXCEPT !.stage = stage]
  OBVIOUS
<1>3. upload' = [upload EXCEPT ![u] = new]
  BY <1>2
<1>4. \A v \in Uploads : upload'[v] = IF v = u THEN new ELSE upload[v]
  BY <1>1, <1>3 DEF ProtoUploads
<1>5. new.stage = stage /\ new.kind = upload[u].kind /\ new.bot = upload[u].bot
  BY <1>1, <1>2 DEF ProtoUploads
<1>6. upload' \in ProtoUploads
  <2>1. upload[u] \in [stage : {"none", "asked", "threw", "wrapped", "bare", "done", "failed"},
                       kind : Proto!MediaKinds, to : Peers \cup {None}, bot : BOOLEAN]
    BY <1>1 DEF ProtoUploads
  <2>2. new \in [stage : {"none", "asked", "threw", "wrapped", "bare", "done", "failed"},
                 kind : Proto!MediaKinds, to : Peers \cup {None}, bot : BOOLEAN]
    BY <1>2, <2>1
  <2> QED BY <1>1, <1>3, <2>2 DEF ProtoUploads
<1>7. UploadsKept
  BY <1>4, <1>5 DEF UploadsKept
<1> QED BY <1>4, <1>5, <1>6, <1>7

\* The types, when those of the uploads and the queues are known.
LEMMA UploadStepTypes ==
  ASSUME ProtoInv, UNCHANGED taskVars, UNCHANGED triggerX0, uploadGlobalX0' \in BOOLEAN,
         upload' \in ProtoUploads, mediaId' \in [Proto!MediaKinds -> Uploads \cup {None}],
         uploadQueue' \in [Proto!MediaKinds -> Seq(Uploads)], announced' \in Seq(Uploads),
         QueuedOnce'
  PROVE  Proto!TypeOK'
<1>1. UNCHANGED <<triggerX0, taskIdGlobal, sendMsgType, patched, waiting, run, sendOf, payloadOf, dangling>>
  BY DEF taskVars
<1>2. \A k \in Proto!MediaKinds : mediaId'[k] # None => upload'[mediaId'[k]].kind = k
  BY DEF QueuedOnce, Mine
<1> QED BY <1>1, <1>2, Zenon DEF ProtoInv, Proto!TypeOK, ProtoUploads

LEMMA TriggerUploadStep ==
  ASSUME ProtoInv, NEW k \in Proto!MediaKinds, NEW u \in Uploads, NEW p \in Peers,
         Proto!TriggerUpload(k, k, u, p)
  PROVE  ProtoInv'
<1>1. PICK stage \in {"asked", "threw"} :
        upload' = [upload EXCEPT ![u] = [stage |-> stage, kind |-> k, to |-> p, bot |-> TRUE]]
  BY DEF Proto!TriggerUpload
<1>2. /\ upload[u].stage = "none" /\ mediaId' = [mediaId EXCEPT ![k] = u]
      /\ UNCHANGED <<triggerX0, uploadGlobalX0, uploadQueue, announced>> /\ UNCHANGED taskVars
  BY DEF Proto!TriggerUpload, taskVars
<1>3. /\ upload' \in ProtoUploads /\ UploadsKept
      /\ upload'[u].kind = k /\ upload'[u].bot = TRUE /\ upload'[u].stage # "none"
  BY <1>1, <1>2, StartedUpload
<1>4. /\ mediaId' \in [Proto!MediaKinds -> Uploads \cup {None}]
      /\ \A l \in Proto!MediaKinds : mediaId'[l] = IF l = k THEN u ELSE mediaId[l]
  BY <1>2, ProtoTypes
<1>5. \A l \in Proto!MediaKinds : mediaId'[l] # None => mediaId'[l] \in Uploads /\ Mine(upload', l, mediaId'[l])
  <2>1. \A l \in Proto!MediaKinds : mediaId[l] # None => mediaId[l] \in Uploads /\ Mine(upload, l, mediaId[l])
    BY ProtoTypes DEF ProtoInv, QueuedOnce
  <2>2. \A l \in Proto!MediaKinds : mediaId[l] # None => mediaId[l] \in Uploads /\ Mine(upload', l, mediaId[l])
    BY <1>3, <2>1 DEF Mine, UploadsKept
  <2>3. Mine(upload', k, u)
    BY <1>3 DEF Mine
  <2> QED BY <1>4, <2>2, <2>3
<1>6. QueuedOnce' /\ AnnouncedDone'
  BY <1>2, <1>3, <1>5, QueuesKept DEF taskVars
<1>7. Proto!TypeOK'
  <2>1. uploadGlobalX0' \in BOOLEAN
    BY <1>2 DEF ProtoInv, Proto!TypeOK
  <2>2. uploadQueue' \in [Proto!MediaKinds -> Seq(Uploads)] /\ announced' \in Seq(Uploads)
    BY <1>2, ProtoTypes
  <2> QED BY <1>2, <1>3, <1>4, <1>6, <2>1, <2>2, UploadStepTypes
<1> QED BY <1>2, <1>3, <1>6, <1>7, TasksKept DEF ProtoInv

LEMMA AttachUploadMediaStep ==
  ASSUME ProtoInv, NEW k \in Proto!MediaKinds, NEW u \in Uploads, NEW p \in Peers,
         Proto!AttachUploadMedia(k, u, p)
  PROVE  ProtoInv'
<1>1. /\ upload' = [upload EXCEPT ![u] = [stage |-> "asked", kind |-> k, to |-> p, bot |-> FALSE]]
      /\ upload[u].stage = "none"
      /\ UNCHANGED <<triggerX0, mediaId, uploadQueue, announced>> /\ UNCHANGED taskVars
  BY DEF Proto!AttachUploadMedia, taskVars
<1>2. upload' \in ProtoUploads /\ UploadsKept
  BY <1>1, StartedUpload
<1>3. \A l \in Proto!MediaKinds : mediaId'[l] # None => mediaId'[l] \in Uploads /\ Mine(upload', l, mediaId'[l])
  <2>1. \A l \in Proto!MediaKinds : mediaId[l] # None => mediaId[l] \in Uploads /\ Mine(upload, l, mediaId[l])
    BY ProtoTypes DEF ProtoInv, QueuedOnce
  <2> QED BY <1>1, <1>2, <2>1 DEF Mine, UploadsKept
<1>4. QueuedOnce' /\ AnnouncedDone'
  BY <1>1, <1>2, <1>3, QueuesKept DEF taskVars
<1>5. Proto!TypeOK'
  <2>1. uploadGlobalX0' \in BOOLEAN
    BY DEF Proto!AttachUploadMedia
  <2>2. /\ uploadQueue' \in [Proto!MediaKinds -> Seq(Uploads)] /\ announced' \in Seq(Uploads)
        /\ mediaId' \in [Proto!MediaKinds -> Uploads \cup {None}]
    BY <1>1, ProtoTypes
  <2> QED BY <1>1, <1>2, <1>4, <2>1, <2>2, UploadStepTypes
<1> QED BY <1>1, <1>2, <1>4, <1>5, TasksKept DEF ProtoInv

LEMMA AttachGetCallbackFromWrapperStep ==
  ASSUME ProtoInv, NEW u \in Uploads, Proto!AttachGetCallbackFromWrapper(u)
  PROVE  ProtoInv'
<1>1. PICK stage \in {"wrapped", "bare"} : upload' = [upload EXCEPT ![u].stage = stage]
  BY DEF Proto!AttachGetCallbackFromWrapper
<1>2. /\ upload[u].stage \notin {"none", "done"}
      /\ UNCHANGED <<triggerX0, uploadGlobalX0, mediaId, uploadQueue, announced>> /\ UNCHANGED taskVars
  BY DEF Proto!AttachGetCallbackFromWrapper, taskVars, Proto!agentVars
<1>3. upload' \in ProtoUploads /\ UploadsKept
  BY <1>1, <1>2, ContinuedUpload
<1>4. \A l \in Proto!MediaKinds : mediaId'[l] # None => mediaId'[l] \in Uploads /\ Mine(upload', l, mediaId'[l])
  <2>1. \A l \in Proto!MediaKinds : mediaId[l] # None => mediaId[l] \in Uploads /\ Mine(upload, l, mediaId[l])
    BY ProtoTypes DEF ProtoInv, QueuedOnce
  <2> QED BY <1>2, <1>3, <2>1 DEF Mine, UploadsKept
<1>5. QueuedOnce' /\ AnnouncedDone'
  BY <1>2, <1>3, <1>4, QueuesKept DEF taskVars
<1>6. Proto!TypeOK'
  <2>1. uploadGlobalX0' \in BOOLEAN
    BY <1>2 DEF ProtoInv, Proto!TypeOK
  <2>2. /\ uploadQueue' \in [Proto!MediaKinds -> Seq(Uploads)] /\ announced' \in Seq(Uploads)
        /\ mediaId' \in [Proto!MediaKinds -> Uploads \cup {None}]
    BY <1>2, ProtoTypes
  <2> QED BY <1>2, <1>3, <1>5, <2>1, <2>2, UploadStepTypes
<1> QED BY <1>2, <1>3, <1>5, <1>6, TasksKept DEF ProtoInv

LEMMA PatchCdnOnCompleteStep ==
  ASSUME ProtoInv, NEW u \in Uploads, NEW keys \in BOOLEAN, Proto!PatchCdnOnComplete(u, keys)
  PROVE  ProtoInv'
<1>1. PICK stage : stage = IF keys THEN "done" ELSE "failed"
  OBVIOUS
<1>2. /\ stage \in {"wrapped", "bare", "done", "failed"}
      /\ upload' = [upload EXCEPT ![u].stage = stage]
      /\ upload[u].stage \notin {"none", "done"}
      /\ UNCHANGED <<triggerX0, uploadGlobalX0, mediaId>> /\ UNCHANGED taskVars
  BY <1>1 DEF Proto!PatchCdnOnComplete, taskVars
<1>3. /\ upload' \in ProtoUploads /\ UploadsKept
      /\ upload'[u].stage = stage /\ upload'[u].kind = upload[u].kind
  BY <1>2, ContinuedUpload
<1>4. \A l \in Proto!MediaKinds : mediaId'[l] # None => mediaId'[l] \in Uploads /\ Mine(upload', l, mediaId'[l])
  <2>1. \A l \in Proto!MediaKinds : mediaId[l] # None => mediaId[l] \in Uploads /\ Mine(upload, l, mediaId[l])
    BY ProtoTypes DEF ProtoInv, QueuedOnce
  <2> QED BY <1>2, <1>3, <2>1 DEF Mine, UploadsKept
<1>5. uploadGlobalX0' \in BOOLEAN /\ mediaId' \in [Proto!MediaKinds -> Uploads \cup {None}]
  <2>1. uploadGlobalX0' \in BOOLEAN
    BY <1>2 DEF ProtoInv, Proto!TypeOK
  <2> QED BY <1>2, <2>1, ProtoTypes
<1>6. CASE UNCHANGED <<uploadQueue, announced>>
  <2>1. QueuedOnce' /\ AnnouncedDone'
    BY <1>2, <1>3, <1>4, <1>6, QueuesKept DEF taskVars
  <2>2. uploadQueue' \in [Proto!MediaKinds -> Seq(Uploads)] /\ announced' \in Seq(Uploads)
    BY <1>6, ProtoTypes
  <2>3. Proto!TypeOK'
    BY <1>2, <1>3, <1>5, <2>1, <2>2, UploadStepTypes
  <2> QED BY <1>2, <1>3, <2>1, <2>3, TasksKept DEF ProtoInv
<1>7. CASE Proto!Named(u) /\ keys
  <2>1. Mine(upload, upload[u].kind, u)
    <3>1. PICK l \in Proto!MediaKinds : mediaId[l] = u
      BY <1>7 DEF Proto!Named
    <3>2. Mine(upload, l, u)
      BY <3>1, NoneIsNone DEF ProtoInv, QueuedOnce
    <3> QED BY <3>2 DEF Mine
  <2>2. PICK k \in Proto!MediaKinds : /\ k = upload[u].kind
                                 /\ uploadQueue' = [uploadQueue EXCEPT ![k] = Append(@, u)]
    BY <1>7, ProtoTypes DEF Proto!PatchCdnOnComplete, Proto!PushVideoUploadInfo,
                            Proto!PushImageUploadInfo, Proto!MediaKinds
  <2>3. announced' = Append(announced, u) /\ stage = "done"
    BY <1>1, <1>7 DEF Proto!PatchCdnOnComplete
  <2>4. /\ uploadQueue' \in [Proto!MediaKinds -> Seq(Uploads)]
        /\ \A l \in Proto!MediaKinds : uploadQueue'[l] = IF l = k THEN Append(uploadQueue[k], u) ELSE uploadQueue[l]
    BY <2>2, ProtoTypes
  <2>5. /\ announced' \in Seq(Uploads)
        /\ AnnouncedDone'
    <3>1. announced \in Seq(Uploads) /\ \A i \in DOMAIN announced : announced[i] \in Uploads
      BY ProtoTypes
    <3>2. /\ announced' \in Seq(Uploads) /\ DOMAIN announced' = 1 .. Len(announced) + 1
          /\ DOMAIN announced = 1 .. Len(announced) /\ Len(announced) \in Nat
          /\ announced'[Len(announced) + 1] = u
          /\ \A i \in DOMAIN announced : announced'[i] = announced[i]
      BY <2>3, <3>1, AppendFacts
    <3>3. \A i \in DOMAIN announced : upload'[announced[i]].stage = "done"
      BY <1>3, <3>1 DEF ProtoInv, AnnouncedDone, UploadsKept
    <3>4. \A i \in DOMAIN announced' : i \in DOMAIN announced \/ i = Len(announced) + 1
      BY <3>2
    <3> QED BY <1>3, <2>3, <3>2, <3>3, <3>4 DEF AnnouncedDone
  <2>6. ASSUME NEW l \in Proto!MediaKinds
        PROVE  /\ \A i \in DOMAIN uploadQueue[l] :
                    /\ uploadQueue[l][i] # u /\ Mine(upload', l, uploadQueue[l][i])
                    /\ upload'[uploadQueue[l][i]].stage = "done"
                    /\ \A t \in Proto!Tasks : payloadOf[t] # uploadQueue[l][i]
               /\ \A i, j \in DOMAIN uploadQueue[l] : uploadQueue[l][i] = uploadQueue[l][j] => i = j
    <3>1. \A i \in DOMAIN uploadQueue[l] : uploadQueue[l][i] \in Uploads
      BY ProtoTypes
    <3>2. /\ \A i \in DOMAIN uploadQueue[l] :
               /\ Mine(upload, l, uploadQueue[l][i]) /\ upload[uploadQueue[l][i]].stage = "done"
               /\ \A t \in Proto!Tasks : payloadOf[t] # uploadQueue[l][i]
          /\ \A i, j \in DOMAIN uploadQueue[l] : uploadQueue[l][i] = uploadQueue[l][j] => i = j
      BY DEF ProtoInv, QueuedOnce
    <3> QED BY <1>2, <1>3, <3>1, <3>2 DEF Mine, UploadsKept
  <2>7. \A t \in Proto!Tasks : payloadOf[t] # u
    BY <1>2, NoneIsNone DEF ProtoInv, PayloadsFinal
  <2>8. Mine(upload', k, u) /\ upload'[u].stage = "done"
    BY <1>3, <2>1, <2>2, <2>3 DEF Mine, UploadsKept
  <2>9. ASSUME NEW l \in Proto!MediaKinds
        PROVE  /\ \A i \in DOMAIN uploadQueue'[l] :
                    /\ Mine(upload', l, uploadQueue'[l][i]) /\ upload'[uploadQueue'[l][i]].stage = "done"
                    /\ \A t \in Proto!Tasks : payloadOf[t] # uploadQueue'[l][i]
               /\ \A i, j \in DOMAIN uploadQueue'[l] : uploadQueue'[l][i] = uploadQueue'[l][j] => i = j
    <3>1. CASE l # k
      BY <2>4, <2>6, <3>1
    <3>2. CASE l = k
      <4>1. PICK s, n : s = uploadQueue[k] /\ n = Len(s) + 1
        OBVIOUS
      <4>2. s \in Seq(Uploads) /\ uploadQueue'[l] = Append(s, u)
        BY <2>4, <3>2, <4>1, ProtoTypes
      <4>3. /\ \A i \in DOMAIN s : uploadQueue'[l][i] = s[i] /\ i # n
            /\ uploadQueue'[l][n] = u
            /\ \A i \in DOMAIN uploadQueue'[l] : i \in DOMAIN s \/ i = n
        BY <4>1, <4>2, AppendFacts
      <4> QED BY <2>6, <2>7, <2>8, <3>2, <4>1, <4>3
    <3> QED BY <3>1, <3>2
  <2>10. QueuedOnce'
    BY <1>2, <1>4, <2>9 DEF QueuedOnce, taskVars
  <2>11. Proto!TypeOK'
    BY <1>2, <1>3, <1>5, <2>4, <2>5, <2>10, UploadStepTypes
  <2> QED BY <1>2, <1>3, <2>5, <2>10, <2>11, TasksKept DEF ProtoInv
<1> QED BY <1>6, <1>7 DEF Proto!PatchCdnOnComplete

LEMMA AttachSendTextProtoStep ==
  ASSUME ProtoInv, NEW t \in UserTasks, Proto!AttachSendTextProto(t)
  PROVE  ProtoInv'
<1>1. /\ payloadOf[t] = None /\ run.task # t /\ waiting' = waiting \cup {t}
      /\ UNCHANGED <<mediaId, uploadQueue, taskIdGlobal, sendMsgType, run, upload, announced, sendOf,
                     payloadOf, dangling>>
      /\ UNCHANGED <<uploadGlobalX0, patched>>
  BY DEF Proto!AttachSendTextProto
<1>2. Proto!TypeOK'
  <2>1. triggerX0' \in BOOLEAN
    BY DEF Proto!AttachSendTextProto
  <2>2. waiting' \subseteq Proto!Tasks
    BY <1>1, ProtoTypes, NoneIsNone
  <2> QED BY <1>1, <2>1, <2>2, Zenon DEF ProtoInv, Proto!TypeOK
<1>3. QueuedOnce' /\ AnnouncedDone'
  BY <1>1 DEF ProtoInv, QueuedOnce, AnnouncedDone
<1>4. PayloadsFinal'
  BY <1>1 DEF ProtoInv, PayloadsFinal, LookedFor
<1>5. SendsTold'
  <2>1. \A s \in waiting' \cap BotTasks : s \in waiting \cap BotTasks
    BY <1>1, NoneIsNone
  <2> QED BY <1>1, <2>1 DEF ProtoInv, SendsTold, LookedFor
<1>6. RunTold' /\ PatchTold'
  BY <1>1 DEF ProtoInv, RunTold, LookedFor, PatchTold
<1>7. Proto!KeysUsedOnce' /\ Proto!DeletesOnlyTheUsers'
  BY <1>1 DEF ProtoInv, Proto!KeysUsedOnce, Proto!DeletesOnlyTheUsers
<1> QED BY <1>2, <1>3, <1>4, <1>5, <1>6, <1>7 DEF ProtoInv

LEMMA TriggerSendStep ==
  ASSUME ProtoInv, NEW k \in Proto!MediaKinds, NEW t \in BotTasks, Proto!TriggerSend(k, t)
  PROVE  ProtoInv'
<1>1. PICK u : u = Head(announced)
  OBVIOUS
<1>2. /\ sendOf[t] = None /\ announced # <<>> /\ upload[u].kind = k
      /\ sendOf' = [sendOf EXCEPT ![t] = u] /\ announced' = Tail(announced)
      /\ taskIdGlobal' = t
      /\ \/ sendMsgType' = k /\ waiting' \in {waiting, waiting \cup {t}}
         \/ sendMsgType' = sendMsgType /\ waiting' = waiting
      /\ UNCHANGED <<mediaId, uploadQueue, run, upload, payloadOf, dangling>>
      /\ UNCHANGED <<triggerX0, uploadGlobalX0, patched>>
  BY <1>1 DEF Proto!TriggerSend
<1>3. /\ announced \in Seq(Uploads) /\ u \in Uploads /\ announced' \in Seq(Uploads)
      /\ upload[u].stage = "done" /\ AnnouncedDone'
  <2>1. announced \in Seq(Uploads)
    BY ProtoTypes
  <2>2. /\ 1 \in DOMAIN announced /\ announced[1] = u /\ u \in Uploads
        /\ announced' \in Seq(Uploads)
        /\ \A i \in DOMAIN announced' : i + 1 \in DOMAIN announced /\ announced'[i] = announced[i + 1]
    BY <1>1, <1>2, <2>1, HeadTailProperties
  <2> QED BY <1>2, <2>1, <2>2 DEF ProtoInv, AnnouncedDone
<1>4. /\ sendOf' \in [BotTasks -> Uploads \cup {None}]
      /\ sendOf'[t] = u /\ \A s \in BotTasks : s # t => sendOf'[s] = sendOf[s]
  BY <1>2, <1>3, ProtoTypes
<1>5. u # None /\ t # None /\ t \in Proto!Tasks
  BY <1>3, NoneIsNone
<1>6. t \notin waiting /\ run.task # t
  BY <1>2 DEF ProtoInv, SendsTold, RunTold, LookedFor
<1>7. payloadOf[t] = None
  BY <1>2, <1>5 DEF ProtoInv, PayloadsFinal, LookedFor
<1>8. \A s \in BotTasks : LookedFor(s) => LookedFor(s)'
  BY <1>4, <1>5 DEF LookedFor
<1>9. waiting' = waiting \/ (waiting' = waiting \cup {t} /\ sendMsgType' = k)
  BY <1>2
<1>10. Proto!TypeOK'
  <2>1. sendMsgType' \in Proto!MediaKinds \cup {None} /\ waiting' \subseteq Proto!Tasks
        /\ taskIdGlobal' \in BotTasks \cup {None}
    BY <1>2, <1>5, ProtoTypes
  <2> QED BY <1>2, <1>3, <1>4, <2>1, Zenon DEF ProtoInv, Proto!TypeOK
<1>11. QueuedOnce'
  BY <1>2 DEF ProtoInv, QueuedOnce
<1>12. PayloadsFinal'
  <2>1. \A s \in Proto!Tasks : payloadOf[s] # None => s # t /\ LookedFor(s)'
    BY <1>7, <1>8 DEF ProtoInv, PayloadsFinal, LookedFor
  <2> QED BY <1>2, <1>9, <2>1 DEF ProtoInv, PayloadsFinal
<1>13. SendsTold'
  <2>1. LookedFor(t)'
    BY <1>4, <1>5 DEF LookedFor
  <2>2. \A s \in BotTasks : sendOf'[s] # None => upload[sendOf'[s]].stage = "done"
    BY <1>3, <1>4 DEF ProtoInv, SendsTold
  <2>3. ASSUME NEW s \in waiting' \cap BotTasks
        PROVE  LookedFor(s)' /\ (s = t => sendMsgType' = upload[sendOf'[s]].kind)
    <3>1. CASE s = t
      BY <1>2, <1>4, <1>6, <1>9, <2>1, <3>1
    <3>2. CASE s # t
      BY <1>8, <1>9, <3>2 DEF ProtoInv, SendsTold
    <3> QED BY <3>1, <3>2
  <2> QED BY <1>2, <2>1, <2>2, <2>3 DEF SendsTold
<1>14. RunTold' /\ PatchTold'
  <2>1. run.task \in BotTasks => LookedFor(run.task)'
    BY <1>2, <1>8 DEF ProtoInv, RunTold, LookedFor
  <2>2. run.task \notin waiting' /\ run.task # taskIdGlobal'
    BY <1>2, <1>6, <1>9 DEF ProtoInv, RunTold
  <2>3. RunTold'
    BY <1>2, <2>1, <2>2 DEF ProtoInv, RunTold, LookedFor
  <2> QED BY <1>2, <2>2, <2>3 DEF ProtoInv, PatchTold
<1>15. Proto!KeysUsedOnce' /\ Proto!DeletesOnlyTheUsers'
  <2>1. \A s \in Proto!Tasks : payloadOf[s] # None => s # t /\ s \in BotTasks
    BY <1>7 DEF ProtoInv, PayloadsFinal, LookedFor
  <2>2. \A s \in Proto!Tasks : payloadOf[s] # None => sendOf'[s] = sendOf[s]
    BY <1>4, <2>1
  <2>3. Proto!KeysUsedOnce'
    BY <1>2, <2>2 DEF ProtoInv, Proto!KeysUsedOnce
  <2>4. run.task # taskIdGlobal'
    BY <1>2, <1>6, <1>9 DEF ProtoInv, RunTold
  <2> QED BY <1>2, <2>3, <2>4 DEF ProtoInv, Proto!DeletesOnlyTheUsers
<1> QED BY <1>3, <1>10, <1>11, <1>12, <1>13, <1>14, <1>15 DEF ProtoInv

RunType == [task : Proto!Tasks \cup {None}, kind : Proto!MediaKinds \cup {None}, inserted : BOOLEAN,
            at : {"idle", "callback", "encode", "exit"}]

LEMMA Req2bufEnterStep ==
  ASSUME ProtoInv, NEW t \in Proto!Tasks, Proto!Req2bufEnter(t)
  PROVE  ProtoInv'
<1>1. PICK own, kind :
        /\ own \in Proto!UserKind(t)
        /\ kind = IF t = taskIdGlobal THEN sendMsgType ELSE own
        /\ run' = [task |-> t, kind |-> kind, inserted |-> t = taskIdGlobal,
                   at |-> IF kind = None THEN "exit" ELSE "callback"]
  BY DEF Proto!Req2bufEnter
<1>2. /\ t \in waiting /\ waiting' = waiting \ {t}
      /\ UNCHANGED <<mediaId, uploadQueue, taskIdGlobal, sendMsgType, upload, announced, sendOf,
                     payloadOf, dangling>>
      /\ UNCHANGED <<triggerX0, uploadGlobalX0, patched>>
  BY DEF Proto!Req2bufEnter, Proto!agentVars
<1>3. own \in Proto!MediaKinds \cup {None} /\ kind \in Proto!MediaKinds \cup {None}
  BY <1>1, ProtoTypes DEF Proto!UserKind
<1>4. run'.task = t /\ run'.kind = kind /\ run'.at = IF kind = None THEN "exit" ELSE "callback"
  BY <1>1
<1>5. run'.inserted => t = taskIdGlobal
  BY <1>1
<1>6. run' \in RunType
  BY <1>1, <1>3 DEF RunType
<1>7. t # None /\ payloadOf[t] = None /\ t \notin waiting'
  BY <1>2, NoneIsNone DEF ProtoInv, PayloadsFinal
<1>8. t \in BotTasks => LookedFor(t) /\ (t = taskIdGlobal => sendMsgType = upload[sendOf[t]].kind)
  BY <1>2 DEF ProtoInv, SendsTold
<1>9. Proto!TypeOK'
  <2>1. waiting' \subseteq Proto!Tasks
    BY <1>2, ProtoTypes
  <2> QED BY <1>2, <1>6, <2>1, Zenon DEF ProtoInv, Proto!TypeOK, RunType
<1>10. QueuedOnce' /\ AnnouncedDone'
  BY <1>2 DEF ProtoInv, QueuedOnce, AnnouncedDone
<1>11. PayloadsFinal'
  BY <1>2, <1>4, <1>7 DEF ProtoInv, PayloadsFinal, LookedFor
<1>12. SendsTold'
  BY <1>2 DEF ProtoInv, SendsTold, LookedFor
<1>13. RunTold'
  <2>1. run'.at # "idle" /\ run'.at # "encode" /\ (run'.at = "callback" => kind # None)
    BY <1>4
  <2>2. run'.inserted => run'.task \in BotTasks
    BY <1>4, <1>5, <1>7, ProtoTypes
  <2>3. run'.task \in BotTasks /\ run'.task = taskIdGlobal => run'.kind = upload[sendOf[run'.task]].kind
    BY <1>1, <1>4, <1>8
  <2>4. run'.task \in BotTasks => LookedFor(run'.task)
    BY <1>4, <1>8
  <2> QED BY <1>2, <1>4, <1>7, <2>1, <2>2, <2>3, <2>4 DEF RunTold, LookedFor
<1>14. PatchTold' /\ Proto!DeletesOnlyTheUsers'
  BY <1>4 DEF PatchTold, Proto!DeletesOnlyTheUsers
<1>15. Proto!KeysUsedOnce'
  BY <1>2 DEF ProtoInv, Proto!KeysUsedOnce
<1> QED BY <1>9, <1>10, <1>11, <1>12, <1>13, <1>14, <1>15 DEF ProtoInv

\* The run goes on to another of the hooks.
LEMMA RunGoesOn ==
  ASSUME ProtoInv, NEW at \in {"encode", "exit"}, run.at # "idle", run' = [run EXCEPT !.at = at]
  PROVE  /\ run' \in RunType /\ run'.at = at
         /\ run'.task = run.task /\ run'.kind = run.kind /\ run'.inserted = run.inserted
<1>1. run \in RunType
  BY DEF ProtoInv, Proto!TypeOK, RunType
<1> QED BY <1>1 DEF RunType

LEMMA PatchProtoBufStep ==
  ASSUME ProtoInv, NEW k \in Proto!MediaKinds, Proto!PatchProtoBuf(k)
  PROVE  ProtoInv'
<1>1. /\ run.at = "callback" /\ run.kind = k
      /\ run' = [run EXCEPT !.at = "encode"]
      /\ UNCHANGED <<mediaId, uploadQueue, taskIdGlobal, sendMsgType, waiting, upload, announced,
                     sendOf, payloadOf, dangling>>
      /\ UNCHANGED <<triggerX0, uploadGlobalX0>>
  BY DEF Proto!PatchProtoBuf
<1>2. /\ run' \in RunType /\ run'.at = "encode"
      /\ run'.task = run.task /\ run'.kind = k /\ run'.inserted = run.inserted
  BY <1>1, RunGoesOn
<1>3. /\ patched' \in [Proto!MediaKinds -> BOOLEAN]
      /\ patched'[k] <=> run.task = taskIdGlobal
  BY DEF ProtoInv, Proto!TypeOK, Proto!PatchProtoBuf
<1>4. run.task \in UserTasks => run.task # taskIdGlobal
  BY ProtoTypes, NoneIsNone
<1>5. Proto!TypeOK'
  BY <1>1, <1>2, <1>3, Zenon DEF ProtoInv, Proto!TypeOK, RunType
<1>6. QueuedOnce' /\ AnnouncedDone'
  BY <1>1 DEF ProtoInv, QueuedOnce, AnnouncedDone
<1>7. PayloadsFinal' /\ SendsTold'
  BY <1>1, <1>2 DEF ProtoInv, PayloadsFinal, SendsTold, LookedFor
<1>8. RunTold'
  <2>1. run.task \in Proto!Tasks /\ k # None
    BY <1>1, NoneIsNone DEF ProtoInv, RunTold
  <2> QED BY <1>1, <1>2, <2>1 DEF ProtoInv, RunTold, LookedFor
<1>9. PatchTold'
  BY <1>1, <1>2, <1>3, <1>4 DEF PatchTold
<1>10. Proto!KeysUsedOnce' /\ Proto!DeletesOnlyTheUsers'
  BY <1>1, <1>2 DEF ProtoInv, Proto!KeysUsedOnce, Proto!DeletesOnlyTheUsers
<1> QED BY <1>5, <1>6, <1>7, <1>8, <1>9, <1>10 DEF ProtoInv

LEMMA AttachProtoOfStep ==
  ASSUME ProtoInv, NEW k \in Proto!MediaKinds, Proto!AttachProtoOf(k)
  PROVE  ProtoInv'
<1>1. /\ run.at = "encode" /\ run.kind = k
      /\ run' = [run EXCEPT !.at = "exit"]
      /\ UNCHANGED <<mediaId, taskIdGlobal, sendMsgType, waiting, upload, announced, sendOf, dangling>>
      /\ UNCHANGED <<triggerX0, uploadGlobalX0, patched>>
  BY DEF Proto!AttachProtoOf
<1>2. /\ run' \in RunType /\ run'.at = "exit"
      /\ run'.task = run.task /\ run'.kind = k /\ run'.inserted = run.inserted
  BY <1>1, RunGoesOn
<1>3. run.task \in Proto!Tasks /\ k # None /\ run.task \notin waiting /\ payloadOf[run.task] = None
  BY <1>1, NoneIsNone DEF ProtoInv, RunTold, PayloadsFinal
<1>4. PatchTold' /\ AnnouncedDone' /\ SendsTold'
  BY <1>1, <1>2 DEF ProtoInv, PatchTold, AnnouncedDone, SendsTold, LookedFor
<1>5. RunTold'
  BY <1>1, <1>2, <1>3 DEF ProtoInv, RunTold, LookedFor
<1>6. run.task \in UserTasks => ~patched[k]
  BY <1>1 DEF ProtoInv, PatchTold
<1>7. CASE UNCHANGED <<payloadOf, uploadQueue>>
  <2>1. Proto!TypeOK'
    BY <1>1, <1>2, <1>7, Zenon DEF ProtoInv, Proto!TypeOK, RunType
  <2>2. QueuedOnce'
    BY <1>1, <1>7 DEF ProtoInv, QueuedOnce
  <2>3. PayloadsFinal'
    BY <1>1, <1>2, <1>7 DEF ProtoInv, PayloadsFinal, LookedFor
  <2>4. Proto!KeysUsedOnce'
    BY <1>1, <1>7 DEF ProtoInv, Proto!KeysUsedOnce
  <2>5. Proto!DeletesOnlyTheUsers'
    <3>1. run.task = taskIdGlobal => patched[k]
      BY <1>1 DEF ProtoInv, PatchTold
    <3>2. payloadOf'[run.task] = None
      BY <1>3, <1>7
    <3> QED BY <1>1, <1>2, <1>6, <3>1, <3>2 DEF Proto!DeletesOnlyTheUsers
  <2> QED BY <1>4, <1>5, <2>1, <2>2, <2>3, <2>4, <2>5 DEF ProtoInv
<1>8. CASE run.task = taskIdGlobal /\ uploadQueue[k] # <<>>
  <2>1. PICK s, u, r : s = uploadQueue[k] /\ u = Head(s) /\ r = run.task
    OBVIOUS
  <2>2. /\ payloadOf' = [payloadOf EXCEPT ![r] = u]
        /\ uploadQueue' = [uploadQueue EXCEPT ![k] = Tail(s)]
    BY <1>8, <2>1 DEF Proto!AttachProtoOf, Proto!Rest, Proto!GetImageUploadInfo, Proto!GetVideoUploadInfo
  <2>3. s \in Seq(Uploads) /\ s # <<>>
    BY <1>8, <2>1, ProtoTypes
  <2>4. /\ Tail(s) \in Seq(Uploads) /\ 1 \in DOMAIN s /\ s[1] = u /\ u \in Uploads
        /\ \A i \in DOMAIN Tail(s) :
             i \in Nat /\ i + 1 \in DOMAIN s /\ Tail(s)[i] = s[i + 1] /\ i + 1 # 1
    BY <2>1, <2>3, HeadTailProperties
  <2>5. /\ payloadOf' \in [Proto!Tasks -> Uploads \cup {None}]
        /\ \A t \in Proto!Tasks : payloadOf'[t] = IF t = r THEN u ELSE payloadOf[t]
    BY <1>3, <2>1, <2>2, <2>4, ProtoTypes
  <2>6. /\ uploadQueue' \in [Proto!MediaKinds -> Seq(Uploads)]
        /\ \A l \in Proto!MediaKinds : uploadQueue'[l] = IF l = k THEN Tail(s) ELSE uploadQueue[l]
    BY <2>2, <2>4, ProtoTypes
  <2>7. /\ Mine(upload, k, u) /\ upload[u].stage = "done" /\ \A t \in Proto!Tasks : payloadOf[t] # u
    BY <2>1, <2>4 DEF ProtoInv, QueuedOnce
  <2>8. r \in BotTasks /\ LookedFor(r) /\ upload[sendOf[r]].kind = k /\ patched[k]
    <3>1. r \in BotTasks
      BY <1>3, <1>8, <2>1, ProtoTypes, NoneIsNone
    <3>2. LookedFor(r) /\ upload[sendOf[r]].kind = k
      BY <1>1, <1>3, <1>8, <2>1, <3>1 DEF ProtoInv, RunTold
    <3>3. patched[k]
      BY <1>1, <1>8 DEF ProtoInv, PatchTold
    <3> QED BY <3>1, <3>2, <3>3
  <2>9. Proto!TypeOK'
    BY <1>1, <1>2, <2>5, <2>6, Zenon DEF ProtoInv, Proto!TypeOK, RunType
  <2>10. QueuedOnce'
    <3>1. ASSUME NEW l \in Proto!MediaKinds, NEW i \in DOMAIN uploadQueue'[l]
          PROVE  /\ Mine(upload, l, uploadQueue'[l][i]) /\ upload[uploadQueue'[l][i]].stage = "done"
                 /\ \A t \in Proto!Tasks : payloadOf[t] # uploadQueue'[l][i]
                 /\ uploadQueue'[l][i] # u
      <4>1. CASE l = k
        <5>1. /\ i \in DOMAIN Tail(s) /\ uploadQueue'[l][i] = s[i + 1]
              /\ i + 1 \in DOMAIN s /\ i + 1 # 1
          BY <2>4, <2>6, <4>1
        <5>2. /\ Mine(upload, k, s[i + 1]) /\ upload[s[i + 1]].stage = "done"
              /\ \A t \in Proto!Tasks : payloadOf[t] # s[i + 1]
          BY <2>1, <5>1 DEF ProtoInv, QueuedOnce
        <5>3. s[i + 1] # s[1]
          BY <2>1, <2>4, <5>1 DEF ProtoInv, QueuedOnce
        <5> QED BY <2>4, <4>1, <5>1, <5>2, <5>3
      <4>2. CASE l # k
        <5>1. /\ Mine(upload, l, uploadQueue'[l][i]) /\ upload[uploadQueue'[l][i]].stage = "done"
              /\ \A t \in Proto!Tasks : payloadOf[t] # uploadQueue'[l][i]
          BY <2>6, <4>2 DEF ProtoInv, QueuedOnce
        <5> QED BY <2>7, <4>2, <5>1 DEF Mine
      <4> QED BY <4>1, <4>2
    <3>2. ASSUME NEW l \in Proto!MediaKinds, NEW i \in DOMAIN uploadQueue'[l], NEW j \in DOMAIN uploadQueue'[l],
                 uploadQueue'[l][i] = uploadQueue'[l][j]
          PROVE  i = j
      <4>1. CASE l = k
        <5>1. /\ i \in DOMAIN Tail(s) /\ j \in DOMAIN Tail(s) /\ s[i + 1] = s[j + 1]
              /\ i + 1 \in DOMAIN s /\ j + 1 \in DOMAIN s /\ i \in Nat /\ j \in Nat
          BY <2>4, <2>6, <3>2, <4>1
        <5>2. i + 1 = j + 1
          BY <2>1, <5>1 DEF ProtoInv, QueuedOnce
        <5> QED BY <5>1, <5>2
      <4>2. CASE l # k
        BY <2>6, <3>2, <4>2 DEF ProtoInv, QueuedOnce
      <4> QED BY <4>1, <4>2
    <3>3. \A l \in Proto!MediaKinds : mediaId[l] # None => Mine(upload, l, mediaId[l])
      BY DEF ProtoInv, QueuedOnce
    <3>4. \A l \in Proto!MediaKinds : \A i \in DOMAIN uploadQueue'[l] : \A t \in Proto!Tasks :
            payloadOf'[t] # uploadQueue'[l][i]
      BY <2>5, <3>1
    <3> QED BY <1>1, <3>1, <3>2, <3>3, <3>4 DEF QueuedOnce
  <2>11. PayloadsFinal'
    <3>1. LookedFor(r)' /\ \A t : LookedFor(t) => LookedFor(t)'
      BY <1>1, <2>8 DEF LookedFor
    <3> QED BY <1>1, <1>2, <1>3, <2>1, <2>5, <2>7, <3>1 DEF ProtoInv, PayloadsFinal
  <2>12. Proto!KeysUsedOnce'
    <3>1. \A t \in Proto!Tasks : payloadOf'[t] # None =>
            /\ t \in BotTasks /\ upload[payloadOf'[t]].kind = upload[sendOf[t]].kind
            /\ upload[payloadOf'[t]].bot
      BY <2>5, <2>7, <2>8 DEF ProtoInv, Proto!KeysUsedOnce, Mine
    <3>2. \A t1, t2 \in Proto!Tasks : payloadOf'[t1] # None /\ payloadOf'[t1] = payloadOf'[t2] => t1 = t2
      BY <2>5, <2>7 DEF ProtoInv, Proto!KeysUsedOnce
    <3> QED BY <1>1, <3>1, <3>2 DEF Proto!KeysUsedOnce
  <2>13. Proto!DeletesOnlyTheUsers'
    BY <1>1, <1>2, <1>6, <2>1, <2>8 DEF Proto!DeletesOnlyTheUsers
  <2> QED BY <1>4, <1>5, <2>9, <2>10, <2>11, <2>12, <2>13 DEF ProtoInv
<1> QED BY <1>7, <1>8 DEF Proto!AttachProtoOf

LEMMA Req2bufExitStep == ASSUME ProtoInv, Proto!Req2bufExit PROVE ProtoInv'
<1>1. /\ run.at = "exit" /\ run' = Proto!Idle
      /\ UNCHANGED <<mediaId, uploadQueue, sendMsgType, waiting, upload, announced, sendOf, payloadOf>>
      /\ UNCHANGED <<triggerX0, uploadGlobalX0, patched>>
      /\ taskIdGlobal' = None \/ taskIdGlobal' = taskIdGlobal
  BY DEF Proto!Req2bufExit
<1>2. run'.task = None /\ run'.kind = None /\ run'.at = "idle" /\ run'.inserted = FALSE /\ run' \in RunType
  BY <1>1 DEF Proto!Idle, RunType
<1>3. dangling' \subseteq BotTasks
  BY ProtoTypes DEF Proto!Req2bufExit, ProtoInv, RunTold
<1>4. Proto!TypeOK'
  <2>1. taskIdGlobal' \in BotTasks \cup {None}
    BY <1>1, ProtoTypes
  <2> QED BY <1>1, <1>2, <1>3, <2>1, Zenon DEF ProtoInv, Proto!TypeOK, RunType
<1>5. QueuedOnce' /\ AnnouncedDone'
  BY <1>1 DEF ProtoInv, QueuedOnce, AnnouncedDone
<1>6. PayloadsFinal'
  BY <1>1, <1>2, NoneIsNone DEF ProtoInv, PayloadsFinal, LookedFor
<1>7. SendsTold'
  BY <1>1, NoneIsNone DEF ProtoInv, SendsTold, LookedFor
<1>8. RunTold'
  BY <1>1, <1>2, ProtoTypes, NoneIsNone DEF RunTold
<1>9. PatchTold' /\ Proto!DeletesOnlyTheUsers'
  BY <1>2 DEF PatchTold, Proto!DeletesOnlyTheUsers
<1>10. Proto!KeysUsedOnce'
  BY <1>1 DEF ProtoInv, Proto!KeysUsedOnce
<1> QED BY <1>4, <1>5, <1>6, <1>7, <1>8, <1>9, <1>10 DEF ProtoInv

LEMMA ProtoStep == ASSUME ProtoInv, Proto!Next PROVE ProtoInv'
<1>1. "img" \in Proto!MediaKinds /\ "video" \in Proto!MediaKinds
  BY DEF Proto!MediaKinds
<1>2. CASE Proto!Caller
  BY <1>1, <1>2, TriggerUploadStep, TriggerSendStep
     DEF Proto!Caller, Proto!TriggerUploadImg, Proto!TriggerUploadVideo,
         Proto!TriggerSendImgMessage, Proto!TriggerSendVideoMessage
<1>3. CASE Proto!User
  BY <1>3, AttachUploadMediaStep, AttachSendTextProtoStep DEF Proto!User
<1>4. CASE Proto!WeChat
  BY <1>1, <1>4, AttachGetCallbackFromWrapperStep, PatchCdnOnCompleteStep, Req2bufEnterStep,
     PatchProtoBufStep, AttachProtoOfStep, Req2bufExitStep
     DEF Proto!WeChat, Proto!PatchImgProtoBuf, Proto!PatchVideoProtoBuf,
         Proto!AttachProto, Proto!AttachVideoProto
<1> QED BY <1>2, <1>3, <1>4 DEF Proto!Next

LEMMA ProtoStutter == ASSUME ProtoInv, UNCHANGED prototypeVars PROVE ProtoInv'
<1>1. UNCHANGED <<triggerX0, uploadGlobalX0, mediaId, uploadQueue, taskIdGlobal, sendMsgType, patched,
                  waiting, run, upload, announced, sendOf, payloadOf, dangling>>
  BY DEF prototypeVars
<1>2. Proto!TypeOK'
  BY <1>1, Zenon DEF ProtoInv, Proto!TypeOK
<1>3. QueuedOnce' /\ PayloadsFinal' /\ SendsTold' /\ AnnouncedDone' /\ RunTold' /\ PatchTold'
  BY <1>1 DEF ProtoInv, QueuedOnce, PayloadsFinal, SendsTold, AnnouncedDone, RunTold, PatchTold, LookedFor
<1>4. Proto!KeysUsedOnce' /\ Proto!DeletesOnlyTheUsers'
  BY <1>1 DEF ProtoInv, Proto!KeysUsedOnce, Proto!DeletesOnlyTheUsers
<1> QED BY <1>2, <1>3, <1>4 DEF ProtoInv

-----------------------------------------------------------------------------
(* The union *)

MediaInv ==
  /\ part \in {"download", "trigger", "upload", "prototype"}
  /\ part = "upload" => UploadInv
  /\ part = "prototype" => ProtoInv

LEMMA MediaInit == Init => MediaInv
  BY UploadInit, ProtoInit DEF Init, MediaInv

LEMMA MediaStep == MediaInv /\ [Next]_vars => MediaInv'
<1> SUFFICES ASSUME MediaInv, [Next]_vars PROVE MediaInv'
  OBVIOUS
<1>1. CASE NextDownload \/ NextTrigger
  BY <1>1 DEF NextDownload, NextTrigger, MediaInv
<1>2. CASE NextUpload
  BY <1>2, UploadStep DEF NextUpload, MediaInv
<1>3. CASE NextPrototype
  BY <1>3, ProtoStep DEF NextPrototype, MediaInv
<1>4. CASE UNCHANGED vars
  <2>1. UNCHANGED part /\ UNCHANGED uploadState /\ UNCHANGED prototypeVars
    BY <1>4 DEF vars, uploadState
  <2> QED BY <2>1, UploadStutter, ProtoStutter DEF MediaInv
<1> QED BY <1>1, <1>2, <1>3, <1>4 DEF Next

\* The inductive invariants of both parts hold in every state.
THEOREM MediaInvariant == Spec => []MediaInv
  BY MediaInit, MediaStep, PTL DEF Spec

\* The variables of the part that runs keep their types, whatever the number of
\* readers, chunks, downloads, uploads and tasks (Download, DownloadTrigger,
\* MediaUpload, PrototypeMedia).
THEOREM MediaTypesKept == Spec => []TypeOK
<1>1. MediaInv =>
        /\ part \in {"download", "trigger", "upload", "prototype"}
        /\ part = "upload" => Upload!TypeOK
        /\ part = "prototype" => Proto!TypeOK
  BY Zenon DEF MediaInv, UploadInv, ProtoInv
<1>2. DownloadsInv =>
        (part = "download" => Down!TypeOK) /\ (part = "trigger" => Trigger!TypeOK)
  BY Zenon DEF DownloadsInv, DownInv, TriggerInv
<1>3. MediaInv /\ DownloadsInv => TypeOK
  BY <1>1, <1>2, Zenon DEF TypeOK
<1> QED BY <1>3, MediaInvariant, DownloadsInvariant, PTL

\* Whatever is announced, queued or sent is an upload the program asked for,
\* of its kind and for its chat, and none of them twice (script.js:1984).
THEOREM OnlyUploadsAreSent == Spec => []SentIsUploaded
<1>1. MediaInv => SentIsUploaded
  BY InvMeansSentIsUploaded DEF MediaInv, SentIsUploaded
<1> QED BY <1>1, MediaInvariant, PTL

\* The length and size of a video go out once, and to the chat of the video
\* they were measured from (worker.go:139, 170).
THEOREM VideoInfoSentOnce == Spec => []VideoInfoUsedOnce
<1>1. MediaInv => VideoInfoUsedOnce
  BY DEF MediaInv, UploadInv, VideoInfoUsedOnce
<1> QED BY <1>1, MediaInvariant, PTL

\* The keys of an upload go into one payload, of its kind, of a task of the
\* caller (file.js:660-912).
THEOREM KeysGoOutOnce == Spec => []KeysUsedOnce
<1>1. MediaInv => KeysUsedOnce
  BY DEF MediaInv, ProtoInv, KeysUsedOnce
<1> QED BY <1>1, MediaInvariant, PTL

\* Past its entry WeChat's encoder frees the message objects of the user's
\* tasks, and the script's only if another send was started since the object
\* was inserted; such a task has no payload of the script (file.js:373-468).
THEOREM FreedOnlyWhenOvertaken == Spec => []DeletesOnlyTheUsers
<1>1. MediaInv => DeletesOnlyTheUsers
  BY DEF MediaInv, ProtoInv, DeletesOnlyTheUsers
<1> QED BY <1>1, MediaInvariant, PTL
=============================================================================
