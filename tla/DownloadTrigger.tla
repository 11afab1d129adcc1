-------------------------- MODULE DownloadTrigger --------------------------
(***************************************************************************)
(* The agent's half of media downloads (onebot/script.js): a hook on       *)
(* WeChat's startDownloadMedia, hooks that copy each chunk WeChat receives *)
(* to Go (attachMediaDownloadHooks, sendDownloadChunks), and the export    *)
(* that starts a download of the program's own (triggerDownload).  What Go *)
(* does with the chunks is module Download.                                *)
(*                                                                         *)
(* HooksAttached is FALSE for the script of this version, which never      *)
(* calls attachMediaDownloadHooks; TRUE describes the functions as written.*)
(***************************************************************************)
EXTENDS Naturals, Sequences

CONSTANTS
  HooksAttached,
  Files,          \* CDN addresses
  AskedTypes,     \* types the program asks for
  Chunks,         \* chunks of a file
  Sizes,          \* sizes of a chunk
  MaxChunk,       \* the largest that is forwarded: 10 MB
  MaxDownloads    \* bound: downloads ever started

HdImage == 1  Image == 2  ThumbImage == 3  Video == 4  File == 5
FileTypes == {HdImage, Image, ThumbImage, Video, File}

\* What WeChat itself asks for, with the end of the file id.
UserRequests == {<<"_1", ThumbImage>>, <<"_1", HdImage>>, <<"_31", ThumbImage>>, <<"", File>>}

VARIABLES
  context,     \* downloadGlobalX0 has been captured
  request,     \* downloadFileX1 and its strings: the last request of the program
  downloads,   \* all downloads WeChat was asked for, in order
  toGo,        \* messages of the script that main.go has not handled yet
  received     \* what Go was given, per file

vars == <<context, request, downloads, toGo, received>>

\* A download: asked is the type it was asked for with, type what WeChat
\* fetches, next the chunks it has got so far, lost those not forwarded.
Download == [file : Files, own : BOOLEAN, suffix : {"_1", "_31", ""},
             asked : FileTypes, type : FileTypes, next : 0 .. Chunks, lost : SUBSET (1 .. Chunks)]
Chunk == [of : 1 .. MaxDownloads, n : 1 .. Chunks]

NoRequest == <<>>

TypeOK ==
  /\ context \in BOOLEAN
  /\ request \in {NoRequest} \cup (Files \X FileTypes)
  /\ downloads \in Seq(Download) /\ Len(downloads) <= MaxDownloads
  /\ toGo \in Seq(Chunk)
  /\ received \in [Files -> Seq(Chunk)]

Init ==
  /\ context = FALSE
  /\ request = NoRequest
  /\ downloads = <<>> /\ toGo = <<>>
  /\ received = [f \in Files |-> <<>>]

-----------------------------------------------------------------------------
(* Starting a download *)

\* The hook on startDownloadMedia asks for the whole picture or video where
\* WeChat would fetch its thumbnail.
FetchedType(suffix, type) ==
  CASE HooksAttached /\ type = ThumbImage /\ suffix = "_1"  -> Image
    [] HooksAttached /\ type = ThumbImage /\ suffix = "_31" -> Video
    [] OTHER -> type

Start(file, own, suffix, type) ==
  /\ Len(downloads) < MaxDownloads
  /\ downloads' = Append(downloads, [file |-> file, own |-> own, suffix |-> suffix, asked |-> type,
                                     type |-> FetchedType(suffix, type), next |-> 0, lost |-> {}])

\* WeChat downloads something for its user, and the hook sees the object that
\* downloads need.
WeChatDownloads(file, suffix, type) ==
  /\ Start(file, FALSE, suffix, type)
  /\ context' = (context \/ HooksAttached)
  /\ UNCHANGED <<request, toGo, received>>

\* triggerDownload fills the one request buffer and calls startDownloadMedia,
\* through its hook; the file id it makes up ends in _1.  Without a captured
\* object it returns "fail" and nothing changes.
TriggerDownload(file, type) ==
  /\ context
  /\ request' = <<file, type>>
  /\ Start(file, TRUE, "_1", type)
  /\ UNCHANGED <<context, toGo, received>>

-----------------------------------------------------------------------------
(* Chunks *)

\* sendDownloadChunks: an empty chunk and one of more than 10 MB are dropped.
SendDownloadChunks(size) == size > 0 /\ size <= MaxChunk

\* The hook hears the chunk at both addresses.
ChunkArrivesTwice(d, size) ==
  LET heard == HooksAttached /\ SendDownloadChunks(size)
      next  == downloads[d].next + 1
  IN  /\ downloads[d].next < Chunks
      /\ downloads' = [downloads EXCEPT ![d].next = next, ![d].lost = IF heard THEN @ ELSE @ \cup {next}]
      /\ toGo' = IF heard THEN toGo \o <<[of |-> d, n |-> next], [of |-> d, n |-> next]>> ELSE toGo
      /\ UNCHANGED <<context, request, received>>

\* WeChat gets the next chunk of a download, on a network thread: the hook of
\* its type (downloadFileAddr, downloadImagAddr, downloadVideoAddr) sees it.
ChunkArrives(d, size) ==
  LET heard == HooksAttached /\ SendDownloadChunks(size)
      next  == downloads[d].next + 1
  IN  /\ downloads[d].next < Chunks
      /\ downloads' = [downloads EXCEPT ![d].next = next, ![d].lost = IF heard THEN @ ELSE @ \cup {next}]
      /\ toGo' = IF heard THEN Append(toGo, [of |-> d, n |-> next]) ELSE toGo
      /\ UNCHANGED <<context, request, received>>

\* main.go hands a chunk to Download, which keeps it under its CDN address.
GoReceives ==
  /\ toGo # <<>>
  /\ LET file == downloads[Head(toGo).of].file
     IN  received' = [received EXCEPT ![file] = Append(@, Head(toGo))]
  /\ toGo' = Tail(toGo)
  /\ UNCHANGED <<context, request, downloads>>

Next ==
  \/ \E f \in Files, r \in UserRequests : WeChatDownloads(f, r[1], r[2])
  \/ \E f \in Files, t \in AskedTypes : TriggerDownload(f, t)
  \/ \E d \in DOMAIN downloads, size \in Sizes : ChunkArrives(d, size)
  \/ GoReceives

Spec == Init /\ [][Next]_vars

-----------------------------------------------------------------------------
(* Properties *)

\* All that was forwarded and may be about download d, in order.
Forwarded(d) == received[downloads[d].file] \o toGo

\* Several downloads overlap, of one file too, and still Go gets every chunk of
\* each of them once and in order; only those of a size that is dropped are
\* missing (script.js:347).
EveryChunkOnceInOrder ==
  \A d \in DOMAIN downloads :
    LET got == Forwarded(d)
        own == {i \in DOMAIN got : got[i].of = d}
    IN  /\ \A i, j \in own : i < j => got[i].n < got[j].n
        /\ {got[i].n : i \in own} = (1 .. downloads[d].next) \ downloads[d].lost
=============================================================================
