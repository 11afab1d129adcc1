------------------------------ MODULE Download ------------------------------
(***************************************************************************)
(* How a media file that WeChat downloads is put together again in Go      *)
(* (onebot/msg.go, worker.go): the agent sends the file in chunks, the     *)
(* message dispatcher appends them to the entry userID2FileMsgMap has for  *)
(* the file's URL, goroutines that forward messages with that URL poll the *)
(* entry until it looks complete, and an hourly job removes old entries.   *)
(*                                                                         *)
(* One URL is modelled; entries for different URLs share nothing.  Each    *)
(* critical section of the entry's mutex is one step, and so is each       *)
(* operation of the sync.Map outside it: what matters is what happens      *)
(* between them.                                                           *)
(***************************************************************************)
EXTENDS Naturals, Sequences

CONSTANTS
  Readers,   \* goroutines in getDownloadPath for this URL
  N,         \* chunks of the file
  Attempts,  \* polls before a reader gives up
  Gaps,      \* TRUE: 2 s or more may pass between two chunks
  Faults     \* TRUE: decryption or saving may fail, the hourly job runs

VARIABLES
  store,                         \* the entry the map holds for the URL, 0 if none
  media, filePath, age,          \* of each entry; filePath: the chunks saved
  handled, hpc, hEntry, loaded,  \* the dispatcher: chunks taken, current entry
  rpc, rEntry, tries, result,    \* the readers; result: the chunks handed on
  cpc                            \* the hourly job

entryVars  == <<store, media, filePath, age>>
chunkVars  == <<handled, hpc, hEntry, loaded>>
readerVars == <<rpc, rEntry, tries, result>>
vars == <<entryVars, chunkVars, readerVars, cpc>>

-----------------------------------------------------------------------------
ChunkNumbers == 1 .. N
\* An entry is named after the chunk that created it.
Entries == ChunkNumbers

\* Time since LastAppendTime: never set (it reads as 1970), under 2 s, over
\* 2 s, over 10 000 s, over a day.
Ages == {"unset", "fresh", "old", "stale", "expired"}
Aged(a) == CASE a = "fresh" -> "old" [] a = "old" -> "stale" [] a = "stale" -> "expired"

NoFile == <<>>
Failed == <<0>>

\* Every variable keeps its type; a reader never exceeds its attempts
\* (worker.go:499).
TypeOK ==
  /\ store \in Entries \cup {0}
  /\ media \in [Entries -> Seq(ChunkNumbers)]
  /\ filePath \in [Entries -> Seq(ChunkNumbers)]
  /\ age \in [Entries -> Ages]
  /\ handled \in 0 .. N
  /\ hpc \in {"idle", "stored"}
  /\ hEntry \in Entries
  /\ loaded \in BOOLEAN
  /\ rpc \in [Readers -> {"load", "inspect", "sleep", "delete", "done"}]
  /\ rEntry \in [Readers -> Entries]
  /\ tries \in [Readers -> 0 .. Attempts]
  /\ result \in [Readers -> Seq(ChunkNumbers) \cup {Failed}]
  /\ cpc \in {"idle", "delete"}

Init ==
  /\ store = 0
  /\ media = [e \in Entries |-> NoFile]
  /\ filePath = [e \in Entries |-> NoFile]
  /\ age = [e \in Entries |-> "unset"]
  /\ handled = 0 /\ hpc = "idle" /\ hEntry = 1 /\ loaded = FALSE
  /\ rpc = [r \in Readers |-> "load"]
  /\ rEntry = [r \in Readers |-> 1]
  /\ tries = [r \in Readers |-> 0]
  /\ result = [r \in Readers |-> NoFile]
  /\ cpc = "idle"

-----------------------------------------------------------------------------
(* The dispatcher: Download, one chunk after the other *)

\* LoadOrStore.  A new entry is in the map with its chunk, but with no time.
LoadOrStore ==
  /\ hpc = "idle" /\ handled < N
  /\ handled' = handled + 1
  /\ hpc' = "stored"
  /\ loaded' = (store # 0)
  /\ IF store # 0
     THEN /\ hEntry' = store
          /\ UNCHANGED <<store, media>>
     ELSE /\ hEntry' = handled + 1
          /\ store' = handled + 1
          /\ media' = [media EXCEPT ![handled + 1] = <<handled + 1>>]
  /\ UNCHANGED <<filePath, age, readerVars, cpc>>

\* Without the return after the first chunk, it would be appended again.
AppendChunkTwice ==
  /\ hpc = "stored"
  /\ hpc' = "idle"
  /\ IF filePath[hEntry] # NoFile
     THEN UNCHANGED <<media, age>>
     ELSE /\ media' = [media EXCEPT ![hEntry] = Append(@, handled)]
          /\ age' = [age EXCEPT ![hEntry] = "fresh"]
  /\ UNCHANGED <<store, filePath, handled, hEntry, loaded, readerVars, cpc>>

\* Nor may a saved entry collect more chunks.
AppendChunkSaved ==
  /\ hpc = "stored"
  /\ hpc' = "idle"
  /\ media' = [media EXCEPT ![hEntry] = IF loaded THEN Append(@, handled) ELSE @]
  /\ age' = [age EXCEPT ![hEntry] = "fresh"]
  /\ UNCHANGED <<store, filePath, handled, hEntry, loaded, readerVars, cpc>>

\* The rest of Download, under the entry's lock.
AppendChunk ==
  /\ hpc = "stored"
  /\ hpc' = "idle"
  /\ \/ /\ ~loaded
        /\ age' = [age EXCEPT ![hEntry] = "fresh"]
        /\ UNCHANGED media
     \/ /\ loaded /\ filePath[hEntry] # NoFile
        /\ UNCHANGED <<media, age>>
     \/ /\ loaded /\ filePath[hEntry] = NoFile
        /\ media' = [media EXCEPT ![hEntry] =
                       IF age[hEntry] \in {"stale", "expired", "unset"} THEN <<handled>>
                       ELSE Append(@, handled)]
        /\ age' = [age EXCEPT ![hEntry] = "fresh"]
  /\ UNCHANGED <<store, filePath, handled, hEntry, loaded, readerVars, cpc>>

-----------------------------------------------------------------------------
(* The readers: getDownloadPath *)

Finish(r, what) ==
  /\ rpc' = [rpc EXCEPT ![r] = "done"]
  /\ result' = [result EXCEPT ![r] = what]

\* The entry is looked up in the map without any lock.
Load(r) ==
  /\ rpc[r] = "load"
  /\ IF store # 0
     THEN /\ rpc' = [rpc EXCEPT ![r] = "inspect"]
          /\ rEntry' = [rEntry EXCEPT ![r] = store]
     ELSE /\ rpc' = [rpc EXCEPT ![r] = "sleep"]
          /\ UNCHANGED rEntry
  /\ UNCHANGED <<tries, result, entryVars, chunkVars, cpc>>

StillArriving(r) == age[rEntry[r]] = "fresh" /\ tries[r] < Attempts - 1

\* Under the lock: the path another reader found, or wait for more chunks, or
\* decrypt and save what there is.
InspectUncached(r) ==
  /\ rpc[r] = "inspect"
  /\ LET e == rEntry[r]
     IN  \/ /\ StillArriving(r)
            /\ rpc' = [rpc EXCEPT ![r] = "sleep"]
            /\ UNCHANGED <<result, media, filePath>>
         \/ /\ ~StillArriving(r) /\ media[e] # NoFile
            /\ Finish(r, media[e])
            /\ UNCHANGED <<media, filePath>>
  /\ UNCHANGED <<store, age, rEntry, tries, chunkVars, cpc>>

Inspect(r) ==
  /\ rpc[r] = "inspect"
  /\ LET e == rEntry[r]
         new == filePath[e] = NoFile
         wait == StillArriving(r) \/ media[e] = NoFile
     IN  \/ /\ ~new
            /\ Finish(r, filePath[e])
            /\ UNCHANGED <<media, filePath>>
         \/ /\ new /\ wait
            /\ rpc' = [rpc EXCEPT ![r] = "sleep"]
            /\ UNCHANGED <<result, media, filePath>>
         \/ /\ new /\ ~wait
            /\ Finish(r, media[e])
            /\ filePath' = [filePath EXCEPT ![e] = media[e]]
            /\ media' = [media EXCEPT ![e] = NoFile]
         \/ /\ new /\ ~wait /\ Faults     \* no AES key, or no file
            /\ \E pc \in {"done", "delete"} : rpc' = [rpc EXCEPT ![r] = pc]
            /\ result' = [result EXCEPT ![r] = Failed]
            /\ UNCHANGED <<media, filePath>>
  /\ UNCHANGED <<store, age, rEntry, tries, chunkVars, cpc>>

\* After a failure, with the lock released: whatever the map has by now goes.
DeleteFailed(r) ==
  /\ rpc[r] = "delete"
  /\ rpc' = [rpc EXCEPT ![r] = "done"]
  /\ store' = 0
  /\ UNCHANGED <<media, filePath, age, rEntry, tries, result, chunkVars, cpc>>

\* A loop that does not count its rounds.
WakeUncounted(r) ==
  /\ rpc[r] = "sleep"
  /\ rpc' = [rpc EXCEPT ![r] = "load"]
  /\ UNCHANGED <<result, tries, rEntry, entryVars, chunkVars, cpc>>

\* Two seconds later: the next attempt, or none left.
Wake(r) ==
  /\ rpc[r] = "sleep"
  /\ tries' = [tries EXCEPT ![r] = @ + 1]
  /\ IF tries[r] + 1 < Attempts
     THEN rpc' = [rpc EXCEPT ![r] = "load"] /\ UNCHANGED result
     ELSE Finish(r, Failed)
  /\ UNCHANGED <<rEntry, entryVars, chunkVars, cpc>>

-----------------------------------------------------------------------------
(* Time, and the hourly cleanExpiredDownloads *)

\* An entry gets older.  The first 2 s pass between two chunks only if Gaps;
\* hours pass only when nothing is under way, readers being done in a minute.
Quiet ==
  /\ hpc = "idle" /\ cpc = "idle"
  /\ \A r \in Readers : rpc[r] = "done" \/ (rpc[r] = "load" /\ tries[r] = 0)

Age(e) ==
  /\ age[e] \in {"fresh", "old", "stale"}
  /\ IF age[e] = "fresh" THEN Gaps \/ (handled = N /\ hpc = "idle") ELSE Quiet
  /\ age' = [age EXCEPT ![e] = Aged(@)]
  /\ UNCHANGED <<store, media, filePath, chunkVars, readerVars, cpc>>

\* More than a day old, and so is a time not set yet.
Expired(e) == age[e] \in {"unset", "expired"}

FindExpired ==
  /\ Faults /\ cpc = "idle" /\ store # 0
  /\ Expired(store)
  /\ cpc' = "delete"
  /\ UNCHANGED <<entryVars, chunkVars, readerVars>>

DeleteExpired ==
  /\ cpc = "delete"
  /\ cpc' = "idle"
  /\ store' = 0
  /\ UNCHANGED <<media, filePath, age, chunkVars, readerVars>>

-----------------------------------------------------------------------------
Chunk == LoadOrStore \/ AppendChunk
Reader(r) == Load(r) \/ Inspect(r) \/ DeleteFailed(r) \/ Wake(r)
Cleaner == FindExpired \/ DeleteExpired

Next ==
  \/ Chunk
  \/ \E r \in Readers : Reader(r)
  \/ \E e \in Entries : Age(e)
  \/ Cleaner

Spec == Init /\ [][Next]_vars

\* Readers are goroutines and sleep 2 s; chunks, time and clean-up owe nothing.
FairSpec == Spec /\ \A r \in Readers : WF_vars(Reader(r))

-----------------------------------------------------------------------------
(* Properties *)

Consecutive(s) == \A i \in 1 .. Len(s) - 1 : s[i + 1] = s[i] + 1

\* Whatever deletions, resets and failures come between, what is collected,
\* saved or handed on never has a hole or a repetition inside it: at worst its
\* beginning or its end is missing (msg.go:37-56).
NoHoles ==
  /\ \A e \in Entries : Consecutive(media[e]) /\ Consecutive(filePath[e])
  /\ \A r \in Readers : Consecutive(result[r])

\* All messages that find the same entry get the same file, even if chunks come
\* in after the first of them took it (worker.go:505, msg.go:49).
ReadersAgree ==
  \A r, s \in Readers :
    (/\ rpc[r] = "done" /\ rpc[s] = "done" /\ rEntry[r] = rEntry[s]
     /\ {result[r], result[s]} \cap {NoFile, Failed} = {})
    => result[r] = result[s]

\* The bytes go to one place: an entry that was saved collects nothing more,
\* and never becomes another file (msg.go:49, worker.go:550).
KeepsSaved ==
  \A e \in Entries :
    filePath[e] # NoFile => filePath'[e] = filePath[e] /\ media'[e] = media[e]

SavedOnce == [][KeepsSaved]_vars

\* No message is held back for ever by a download that stops (worker.go:499).
EveryReaderEnds == \A r \in Readers : <>(rpc[r] = "done")

\* worker.go:522: when an entry is decrypted, all of the file has arrived.
DecryptedWhenComplete ==
  [][\A e \in Entries : filePath[e] = NoFile /\ filePath'[e] # NoFile => handled = N]_vars
=============================================================================
