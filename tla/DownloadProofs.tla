--------------------------- MODULE DownloadProofs ---------------------------
(***************************************************************************)
(* Proofs about media downloads, for any number of readers, chunks, files  *)
(* and downloads: what Go collects, saves and hands on (module Download),  *)
(* and what the agent forwards to it (module DownloadTrigger).             *)
(***************************************************************************)
EXTENDS MCMedia, SequenceTheorems, TLAPS

-----------------------------------------------------------------------------
(* The inductive invariant of Download *)

\* A chunk not yet handled has no entry.
FutureEntriesEmpty ==
  \A e \in Down!Entries : e > handled => media[e] = <<>> /\ filePath[e] = <<>>

\* The entry at hand is the map's, if the map has one.
CurrentEntry ==
  /\ store <= handled
  /\ hpc = "stored" => hEntry <= handled /\ (store # 0 => store = hEntry)

EndsWith(e, n) == media[e] # <<>> /\ media[e][Len(media[e])] = n

\* What may still grow ends with the chunk handled last, until AppendChunk has
\* run with the one before.
NothingMissing ==
  /\ hpc = "idle" /\ store # 0 /\ filePath[store] = <<>> => EndsWith(store, handled)
  /\ hpc = "stored" /\ filePath[hEntry] = <<>> =>
       /\ ~loaded => EndsWith(hEntry, handled)
       /\ loaded => EndsWith(hEntry, handled - 1)

\* A reader's result is final, and it is what its entry saved.
HasSaved(r) == result[r] \notin {<<>>, Down!Failed}

ResultsAreSaved ==
  \A r \in Readers :
    /\ HasSaved(r) => result[r] = filePath[rEntry[r]]
    /\ rpc[r] \notin {"done", "delete"} => result[r] = <<>> /\ tries[r] < Attempts

DownInv ==
  /\ Down!TypeOK /\ FutureEntriesEmpty /\ CurrentEntry /\ NothingMissing
  /\ ResultsAreSaved /\ Down!NoHoles

-----------------------------------------------------------------------------
(* The inductive invariant of DownloadTrigger *)

\* All chunks on their way or received are of downloads that were started.
KnownDownloads ==
  /\ \A i \in DOMAIN toGo : toGo[i].of \in DOMAIN downloads
  /\ \A f \in Files : \A i \in DOMAIN received[f] : received[f][i].of \in DOMAIN downloads

\* In s, the chunks of d are those of S, once and in order.
InOrder(s, d, S) ==
  /\ \A i, j \in DOMAIN s : s[i].of = d /\ s[j].of = d /\ i < j => s[i].n < s[j].n
  /\ \A i \in DOMAIN s : s[i].of = d => s[i].n \in S
  /\ \A n \in S : \E i \in DOMAIN s : s[i].of = d /\ s[i].n = n

ForwardedInOrder ==
  \A d \in DOMAIN downloads :
    /\ downloads[d].lost \subseteq 1 .. downloads[d].next
    /\ InOrder(Trigger!Forwarded(d), d, (1 .. downloads[d].next) \ downloads[d].lost)

TriggerInv == Trigger!TypeOK /\ KnownDownloads /\ ForwardedInOrder

-----------------------------------------------------------------------------
(* Facts about the operators *)

LEMMA NothingHasNoHole == Down!Consecutive(<<>>) /\ Down!Consecutive(Down!Failed)
  BY DEF Down!Consecutive, Down!Failed

LEMMA OneChunkConsecutive == \A n : Down!Consecutive(<<n>>)
  BY DEF Down!Consecutive

\* A sequence without holes that ends with n - 1 may take n.
LEMMA AppendConsecutive ==
  ASSUME NEW s \in Seq(Nat), NEW n \in Nat, s # <<>>, s[Len(s)] = n - 1, Down!Consecutive(s)
  PROVE  Down!Consecutive(Append(s, n))
<1>1. /\ Len(Append(s, n)) = Len(s) + 1 /\ Len(s) \in Nat \ {0}
      /\ \A i \in 1 .. Len(s) : Append(s, n)[i] = s[i] /\ s[i] \in Nat
      /\ Append(s, n)[Len(s) + 1] = n
  OBVIOUS
<1>2. ASSUME NEW i \in 1 .. Len(Append(s, n)) - 1 PROVE Append(s, n)[i + 1] = Append(s, n)[i] + 1
  <2>1. CASE i = Len(s)
    BY <1>1, <2>1
  <2>2. CASE i # Len(s)
    <3>1. i \in 1 .. Len(s) - 1 /\ i \in 1 .. Len(s) /\ i + 1 \in 1 .. Len(s)
      BY <1>1, <2>2
    <3> QED BY <1>1, <3>1 DEF Down!Consecutive
  <2> QED BY <2>1, <2>2
<1> QED BY <1>2 DEF Down!Consecutive

-----------------------------------------------------------------------------
(* Download: the initial states and the steps *)

LEMMA DownInit == Down!Init => DownInv
<1> SUFFICES ASSUME Down!Init PROVE DownInv
  OBVIOUS
<1> USE DownloadAssumption
<1>0. loaded \in BOOLEAN
  BY DEF Down!Init
<1>1. Down!TypeOK
  BY <1>0 DEF Down!Init, Down!TypeOK, Down!Entries, Down!ChunkNumbers, Down!Ages, Down!NoFile
<1>2. FutureEntriesEmpty /\ CurrentEntry /\ NothingMissing /\ ResultsAreSaved
  BY DEF Down!Init, FutureEntriesEmpty, CurrentEntry, NothingMissing, ResultsAreSaved, HasSaved, Down!NoFile
<1>3. Down!NoHoles
  BY NothingHasNoHole DEF Down!Init, Down!NoHoles, Down!NoFile
<1> QED BY <1>1, <1>2, <1>3 DEF DownInv

LEMMA LoadOrStoreStep == ASSUME DownInv, Down!LoadOrStore PROVE DownInv'
<1> USE DEF Down!Entries, Down!ChunkNumbers
<1>i. Down!TypeOK /\ FutureEntriesEmpty /\ CurrentEntry /\ NothingMissing /\ ResultsAreSaved /\ Down!NoHoles
  BY DEF DownInv
<1>s. /\ hpc = "idle" /\ handled < N /\ handled' = handled + 1 /\ hpc' = "stored"
      /\ UNCHANGED <<filePath, age, rpc, rEntry, tries, result, cpc>>
  BY DEF Down!LoadOrStore, Down!readerVars
<1>t. handled \in 0 .. N - 1 /\ handled + 1 \in Down!Entries /\ store \in Down!Entries \cup {0}
  BY <1>i, <1>s, DownloadAssumption DEF Down!TypeOK
<1>b. loaded' \in BOOLEAN /\ (loaded' <=> store # 0)
  BY DEF Down!LoadOrStore
<1>1. CASE store # 0
  <2>s. hEntry' = store /\ store' = store /\ media' = media
    BY <1>1 DEF Down!LoadOrStore
  <2>1. Down!TypeOK'
    BY <1>i, <1>s, <1>t, <1>b, <2>s, <1>1, DownloadAssumption DEF Down!TypeOK
  <2>2. FutureEntriesEmpty' /\ CurrentEntry'
    BY <1>i, <1>s, <1>t, <2>s, <1>1, DownloadAssumption DEF FutureEntriesEmpty, CurrentEntry
  <2>3. NothingMissing'
    BY <1>i, <1>s, <1>t, <1>b, <2>s, <1>1 DEF NothingMissing, EndsWith
  <2>4. ResultsAreSaved' /\ Down!NoHoles'
    BY <1>i, <1>s, <2>s DEF ResultsAreSaved, HasSaved, Down!NoHoles
  <2> QED BY <2>1, <2>2, <2>3, <2>4 DEF DownInv
<1>2. CASE store = 0
  <2> PICK n : n = handled + 1
    OBVIOUS
  <2>s. hEntry' = n /\ store' = n /\ media' = [media EXCEPT ![n] = <<n>>]
    BY <1>2 DEF Down!LoadOrStore
  <2>0. n \in Down!Entries /\ media[n] = <<>> /\ filePath[n] = <<>> /\ <<n>> \in Seq(Down!ChunkNumbers)
    BY <1>i, <1>t DEF FutureEntriesEmpty, Down!TypeOK
  <2>m. /\ media' \in [Down!Entries -> Seq(Down!ChunkNumbers)]
        /\ \A e \in Down!Entries : media'[e] = IF e = n THEN <<n>> ELSE media[e]
    <3>1. media \in [Down!Entries -> Seq(Down!ChunkNumbers)]
      BY <1>i DEF Down!TypeOK
    <3> HIDE DEF Down!Entries, Down!ChunkNumbers
    <3> QED BY <2>s, <2>0, <3>1
  <2>1. Down!TypeOK'
    <3>1. store' \in Down!Entries \cup {0} /\ hEntry' \in Down!Entries
      BY <2>s, <2>0
    <3>2. handled' \in 0 .. N
      BY <1>s, <1>t, DownloadAssumption
    <3> QED BY <1>i, <1>s, <1>b, <2>m, <3>1, <3>2 DEF Down!TypeOK
  <2>2. FutureEntriesEmpty' /\ CurrentEntry'
    BY <1>i, <1>s, <1>t, <2>s, <2>m, DownloadAssumption DEF FutureEntriesEmpty, CurrentEntry
  <2>3. NothingMissing'
    BY <1>i, <1>s, <1>t, <1>b, <1>2, <2>s, <2>0, <2>m DEF NothingMissing, EndsWith
  <2>4. ResultsAreSaved'
    BY <1>i, <1>s DEF ResultsAreSaved, HasSaved
  <2>5. Down!NoHoles'
    BY <1>i, <1>s, <2>m, OneChunkConsecutive DEF Down!NoHoles
  <2> QED BY <2>1, <2>2, <2>3, <2>4, <2>5 DEF DownInv
<1> QED BY <1>1, <1>2

LEMMA AppendChunkStep == ASSUME DownInv, Down!AppendChunk PROVE DownInv'
<1> USE DEF Down!Entries, Down!ChunkNumbers
<1>i. Down!TypeOK /\ FutureEntriesEmpty /\ CurrentEntry /\ NothingMissing /\ ResultsAreSaved /\ Down!NoHoles
  BY DEF DownInv
<1>s. /\ hpc = "stored" /\ hpc' = "idle"
      /\ UNCHANGED <<store, filePath, handled, hEntry, loaded, rpc, rEntry, tries, result, cpc>>
      /\ age' = age \/ age' = [age EXCEPT ![hEntry] = "fresh"]
  BY DEF Down!AppendChunk, Down!readerVars
<1>t. hEntry \in Down!Entries /\ hEntry <= handled /\ handled \in Down!ChunkNumbers /\ loaded \in BOOLEAN
  BY <1>i, <1>s DEF Down!TypeOK, CurrentEntry
<1>a. age' \in [Down!Entries -> Down!Ages]
  BY <1>i, <1>s, <1>t DEF Down!TypeOK, Down!Ages
<1>r. CurrentEntry' /\ ResultsAreSaved'
  BY <1>i, <1>s DEF ResultsAreSaved, CurrentEntry, HasSaved
<1>1. CASE ~loaded \/ filePath[hEntry] # <<>>
  <2>s. media' = media
    BY <1>1 DEF Down!AppendChunk, Down!NoFile
  <2>1. Down!TypeOK'
    BY <1>i, <1>s, <1>t, <1>a, <2>s DEF Down!TypeOK
  <2>2. FutureEntriesEmpty' /\ Down!NoHoles'
    BY <1>i, <1>s, <2>s DEF FutureEntriesEmpty, Down!NoHoles
  <2>3. NothingMissing'
    BY <1>i, <1>s, <1>t, <2>s, <1>1 DEF NothingMissing, EndsWith, CurrentEntry
  <2> QED BY <1>r, <2>1, <2>2, <2>3 DEF DownInv
<1>2. CASE loaded /\ filePath[hEntry] = <<>>
  <2> PICK c : c = IF age[hEntry] \in {"stale", "expired", "unset"} THEN <<handled>>
                   ELSE Append(media[hEntry], handled)
    OBVIOUS
  <2>s. media' = [media EXCEPT ![hEntry] = c]
    BY <1>2 DEF Down!AppendChunk, Down!NoFile
  <2>e. EndsWith(hEntry, handled - 1) /\ media[hEntry] \in Seq(Down!ChunkNumbers)
        /\ Down!Consecutive(media[hEntry])
    BY <1>i, <1>s, <1>t, <1>2 DEF NothingMissing, Down!TypeOK, Down!NoHoles
  <2>c. c \in Seq(Down!ChunkNumbers) /\ c # <<>> /\ c[Len(c)] = handled /\ Down!Consecutive(c)
    <3>1. CASE age[hEntry] \in {"stale", "expired", "unset"}
      BY <1>t, <3>1, OneChunkConsecutive
    <3>2. CASE age[hEntry] \notin {"stale", "expired", "unset"}
      <4>1. media[hEntry] \in Seq(Nat) /\ handled \in Nat
        BY <2>e, <1>t, SeqMonotonic, DownloadAssumption
      <4>2. Down!Consecutive(c)
        BY <2>e, <3>2, <4>1, AppendConsecutive DEF EndsWith
      <4> QED BY <2>e, <1>t, <3>2, <4>2
    <3> QED BY <3>1, <3>2
  <2>m. /\ media' \in [Down!Entries -> Seq(Down!ChunkNumbers)]
        /\ \A e \in Down!Entries : media'[e] = IF e = hEntry THEN c ELSE media[e]
    BY <1>i, <1>t, <2>s, <2>c DEF Down!TypeOK
  <2>1. Down!TypeOK'
    BY <1>i, <1>s, <1>t, <1>a, <2>m DEF Down!TypeOK
  <2>2. FutureEntriesEmpty'
    <3> SUFFICES ASSUME NEW e \in Down!Entries, e > handled
                 PROVE  media'[e] = <<>> /\ filePath'[e] = <<>>
      BY <1>s DEF FutureEntriesEmpty
    <3>1. e # hEntry
      BY <1>t, DownloadAssumption
    <3> QED BY <1>i, <1>s, <2>m, <3>1 DEF FutureEntriesEmpty
  <2>4. Down!NoHoles'
    BY <1>i, <1>s, <2>m, <2>c DEF Down!NoHoles
  <2>3. NothingMissing'
    BY <1>i, <1>s, <1>t, <2>m, <2>c DEF NothingMissing, EndsWith, CurrentEntry
  <2> QED BY <1>r, <2>1, <2>2, <2>3, <2>4 DEF DownInv
<1> QED BY <1>1, <1>2

\* What the steps of the readers, of time and of the hourly job leave alone.
LEMMA ElsewhereStep ==
  ASSUME DownInv, UNCHANGED <<media, filePath, handled, hpc, hEntry, loaded>>,
         store' = store \/ store' = 0, age' \in [Down!Entries -> Down!Ages]
  PROVE  /\ FutureEntriesEmpty' /\ CurrentEntry' /\ NothingMissing'
         /\ Down!TypeOK' <=> /\ rpc' \in [Readers -> {"load", "inspect", "sleep", "delete", "done"}]
                             /\ rEntry' \in [Readers -> Down!Entries]
                             /\ tries' \in [Readers -> 0 .. Attempts]
                             /\ result' \in [Readers -> Seq(Down!ChunkNumbers) \cup {Down!Failed}]
                             /\ cpc' \in {"idle", "delete"}
<1>i. Down!TypeOK /\ FutureEntriesEmpty /\ CurrentEntry /\ NothingMissing
  BY DEF DownInv
<1>t. handled \in Nat /\ store' \in Down!Entries \cup {0} /\ store' <= handled
  BY <1>i, DownloadAssumption DEF Down!TypeOK, CurrentEntry
<1>1. FutureEntriesEmpty'
  BY <1>i DEF FutureEntriesEmpty
<1>2. CurrentEntry'
  BY <1>i, <1>t DEF CurrentEntry
<1>3. NothingMissing'
  BY <1>i DEF NothingMissing, EndsWith
<1>4. Down!TypeOK' <=> /\ rpc' \in [Readers -> {"load", "inspect", "sleep", "delete", "done"}]
                       /\ rEntry' \in [Readers -> Down!Entries]
                       /\ tries' \in [Readers -> 0 .. Attempts]
                       /\ result' \in [Readers -> Seq(Down!ChunkNumbers) \cup {Down!Failed}]
                       /\ cpc' \in {"idle", "delete"}
  BY <1>i, <1>t DEF Down!TypeOK
<1> QED BY <1>1, <1>2, <1>3, <1>4

LEMMA LoadStep == ASSUME DownInv, NEW r \in Readers, Down!Load(r) PROVE DownInv'
<1>i. Down!TypeOK /\ ResultsAreSaved /\ Down!NoHoles
  BY DEF DownInv
<1>s. /\ UNCHANGED <<store, media, filePath, age, handled, hpc, hEntry, loaded, tries, result, cpc>>
      /\ rpc[r] = "load"
      /\ \/ store # 0 /\ rpc' = [rpc EXCEPT ![r] = "inspect"] /\ rEntry' = [rEntry EXCEPT ![r] = store]
         \/ rpc' = [rpc EXCEPT ![r] = "sleep"] /\ rEntry' = rEntry
  BY DEF Down!Load, Down!entryVars, Down!chunkVars
<1>1. Down!TypeOK' /\ FutureEntriesEmpty' /\ CurrentEntry' /\ NothingMissing'
  BY <1>i, <1>s, ElsewhereStep DEF Down!TypeOK
<1>2. ResultsAreSaved'
  BY <1>i, <1>s DEF ResultsAreSaved, HasSaved, Down!TypeOK
<1>3. Down!NoHoles'
  BY <1>i, <1>s DEF Down!NoHoles
<1> QED BY <1>1, <1>2, <1>3 DEF DownInv

LEMMA DeleteFailedStep == ASSUME DownInv, NEW r \in Readers, Down!DeleteFailed(r) PROVE DownInv'
<1>i. Down!TypeOK /\ ResultsAreSaved /\ Down!NoHoles
  BY DEF DownInv
<1>s. /\ UNCHANGED <<media, filePath, age, handled, hpc, hEntry, loaded, rEntry, tries, result, cpc>>
      /\ store' = 0 /\ rpc' = [rpc EXCEPT ![r] = "done"]
  BY DEF Down!DeleteFailed, Down!chunkVars
<1>1. Down!TypeOK' /\ FutureEntriesEmpty' /\ CurrentEntry' /\ NothingMissing'
  BY <1>i, <1>s, ElsewhereStep DEF Down!TypeOK
<1>2. ResultsAreSaved'
  BY <1>i, <1>s DEF ResultsAreSaved, HasSaved, Down!TypeOK
<1>3. Down!NoHoles'
  BY <1>i, <1>s DEF Down!NoHoles
<1> QED BY <1>1, <1>2, <1>3 DEF DownInv

LEMMA WakeStep == ASSUME DownInv, NEW r \in Readers, Down!Wake(r) PROVE DownInv'
<1>i. Down!TypeOK /\ ResultsAreSaved /\ Down!NoHoles
  BY DEF DownInv
<1>s. /\ UNCHANGED <<store, media, filePath, age, handled, hpc, hEntry, loaded, rEntry, cpc>>
      /\ rpc[r] = "sleep" /\ tries' = [tries EXCEPT ![r] = @ + 1]
      /\ \/ tries[r] + 1 < Attempts /\ rpc' = [rpc EXCEPT ![r] = "load"] /\ result' = result
         \/ rpc' = [rpc EXCEPT ![r] = "done"] /\ result' = [result EXCEPT ![r] = Down!Failed]
  BY DEF Down!Wake, Down!Finish, Down!entryVars, Down!chunkVars
<1>t. tries[r] \in 0 .. Attempts - 1
  <2>1. tries[r] \in 0 .. Attempts
    BY <1>i DEF Down!TypeOK
  <2>2. tries[r] < Attempts
    BY <1>i, <1>s DEF ResultsAreSaved
  <2> QED BY <2>1, <2>2, DownloadAssumption
<1>0. tries' \in [Readers -> 0 .. Attempts]
  BY <1>i, <1>s, <1>t, DownloadAssumption DEF Down!TypeOK
<1>1. Down!TypeOK' /\ FutureEntriesEmpty' /\ CurrentEntry' /\ NothingMissing'
  BY <1>0, <1>i, <1>s, ElsewhereStep DEF Down!TypeOK
<1>2. ResultsAreSaved'
  BY <1>i, <1>s DEF ResultsAreSaved, HasSaved, Down!TypeOK
<1>3. Down!NoHoles'
  BY <1>i, <1>s, NothingHasNoHole DEF Down!NoHoles, Down!TypeOK
<1> QED BY <1>1, <1>2, <1>3 DEF DownInv

\* Either nothing is saved, or the reader saves what the entry has.
LEMMA InspectStep == ASSUME DownInv, NEW r \in Readers, Down!Inspect(r) PROVE DownInv'
<1>i. /\ Down!TypeOK /\ FutureEntriesEmpty /\ CurrentEntry /\ NothingMissing
      /\ ResultsAreSaved /\ Down!NoHoles
  BY DEF DownInv
<1> PICK e : e = rEntry[r]
  OBVIOUS
<1>s. /\ UNCHANGED <<store, age, handled, hpc, hEntry, loaded, rEntry, tries, cpc>>
      /\ rpc[r] = "inspect" /\ e \in Down!Entries
  BY <1>i DEF Down!Inspect, Down!chunkVars, Down!TypeOK
<1>0. result[r] = <<>> /\ tries[r] < Attempts
  BY <1>i, <1>s DEF ResultsAreSaved
<1>1. CASE /\ UNCHANGED <<media, filePath>>
           /\ \/ /\ filePath[e] # <<>> /\ rpc' = [rpc EXCEPT ![r] = "done"]
                 /\ result' = [result EXCEPT ![r] = filePath[e]]
              \/ rpc' = [rpc EXCEPT ![r] = "sleep"] /\ result' = result
              \/ /\ \E pc \in {"done", "delete"} : rpc' = [rpc EXCEPT ![r] = pc]
                 /\ result' = [result EXCEPT ![r] = Down!Failed]
  <2>1. Down!TypeOK' /\ FutureEntriesEmpty' /\ CurrentEntry' /\ NothingMissing'
    BY <1>1, <1>i, <1>s, ElsewhereStep DEF Down!TypeOK
  <2>r. \A q \in Readers : q # r => rpc'[q] = rpc[q] /\ result'[q] = result[q]
    BY <1>1, <1>i DEF Down!TypeOK
  <2>o. \/ rpc'[r] = "done" /\ result'[r] = filePath[e]
        \/ rpc'[r] = "sleep" /\ result'[r] = <<>>
        \/ rpc'[r] \in {"done", "delete"} /\ result'[r] = Down!Failed
    BY <1>0, <1>1, <1>i DEF Down!TypeOK
  <2>2. ResultsAreSaved'
    BY <1>0, <1>1, <1>i, <1>s, <2>r, <2>o DEF ResultsAreSaved, HasSaved
  <2>3. Down!NoHoles'
    BY <1>1, <1>i, <1>s, NothingHasNoHole DEF Down!NoHoles, Down!TypeOK
  <2> QED BY <2>1, <2>2, <2>3 DEF DownInv
<1>2. CASE /\ filePath[e] = <<>> /\ media[e] # <<>>
           /\ rpc' = [rpc EXCEPT ![r] = "done"] /\ result' = [result EXCEPT ![r] = media[e]]
           /\ filePath' = [filePath EXCEPT ![e] = media[e]] /\ media' = [media EXCEPT ![e] = <<>>]
  <2>0. media[e] \in Seq(Down!ChunkNumbers) /\ <<>> \in Seq(Down!ChunkNumbers)
    BY <1>i, <1>s DEF Down!TypeOK
  <2>m. \A d \in Down!Entries : /\ media'[d] = IF d = e THEN <<>> ELSE media[d]
                                /\ filePath'[d] = IF d = e THEN media[e] ELSE filePath[d]
    BY <1>2, <1>i, <1>s DEF Down!TypeOK
  <2>r. \A q \in Readers : /\ result'[q] = IF q = r THEN media[e] ELSE result[q]
                           /\ rpc'[q] = IF q = r THEN "done" ELSE rpc[q]
    BY <1>2, <1>i DEF Down!TypeOK
  <2>1. Down!TypeOK'
    BY <1>2, <1>i, <1>s, <2>0 DEF Down!TypeOK
  <2>2. FutureEntriesEmpty' /\ CurrentEntry'
    BY <1>2, <1>i, <1>s, <2>m DEF FutureEntriesEmpty, CurrentEntry
  <2>3. NothingMissing'
    BY <1>2, <1>i, <1>s, <2>m DEF NothingMissing, EndsWith, Down!TypeOK
  <2>4. ResultsAreSaved'
    BY <1>2, <1>i, <1>s, <2>m, <2>r DEF ResultsAreSaved, HasSaved, Down!TypeOK
  <2>5. Down!NoHoles'
    BY <1>i, <1>s, <2>m, <2>r, NothingHasNoHole DEF Down!NoHoles
  <2> QED BY <2>1, <2>2, <2>3, <2>4, <2>5 DEF DownInv
<1> QED BY <1>1, <1>2 DEF Down!Inspect, Down!Finish, Down!NoFile

\* Time and the hourly job touch the readers no more than the dispatcher does.
LEMMA TimeStep ==
  ASSUME DownInv, Down!Cleaner \/ \E e \in Down!Entries : Down!Age(e)
  PROVE  DownInv'
<1>i. Down!TypeOK /\ ResultsAreSaved /\ Down!NoHoles
  BY DEF DownInv
<1>s. /\ UNCHANGED <<media, filePath, handled, hpc, hEntry, loaded, rpc, rEntry, tries, result>>
      /\ store' = store \/ store' = 0
  BY DEF Down!Cleaner, Down!FindExpired, Down!DeleteExpired, Down!Age,
         Down!entryVars, Down!chunkVars, Down!readerVars
<1>a. age' \in [Down!Entries -> Down!Ages] /\ cpc' \in {"idle", "delete"}
  BY <1>i DEF Down!Cleaner, Down!FindExpired, Down!DeleteExpired, Down!Age, Down!Aged, Down!Ages,
         Down!entryVars, Down!TypeOK
<1>1. Down!TypeOK' /\ FutureEntriesEmpty' /\ CurrentEntry' /\ NothingMissing'
  BY <1>i, <1>s, <1>a, ElsewhereStep DEF Down!TypeOK
<1>2. ResultsAreSaved' /\ Down!NoHoles'
  BY <1>i, <1>s DEF ResultsAreSaved, HasSaved, Down!NoHoles
<1> QED BY <1>1, <1>2 DEF DownInv

LEMMA DownStep == ASSUME DownInv, Down!Next PROVE DownInv'
<1>1. CASE Down!Chunk
  BY <1>1, LoadOrStoreStep, AppendChunkStep DEF Down!Chunk
<1>2. CASE \E r \in Readers : Down!Reader(r)
  BY <1>2, LoadStep, InspectStep, DeleteFailedStep, WakeStep DEF Down!Reader
<1>3. CASE Down!Cleaner \/ \E e \in Down!Entries : Down!Age(e)
  BY <1>3, TimeStep
<1> QED BY <1>1, <1>2, <1>3 DEF Down!Next

\* A new entry is the only one a step may give bytes to that is not the
\* dispatcher's or a reader's, and it was empty.
LEMMA KeepsSavedStep == ASSUME DownInv, Down!Next PROVE Down!KeepsSaved
<1> SUFFICES ASSUME NEW e \in Down!Entries, filePath[e] # <<>>
             PROVE  filePath'[e] = filePath[e] /\ media'[e] = media[e]
  BY DEF Down!KeepsSaved, Down!NoFile
<1>i. Down!TypeOK /\ FutureEntriesEmpty
  BY DEF DownInv
<1>0. handled \in Nat /\ e \in Nat /\ e <= handled
  BY <1>i, DownloadAssumption DEF Down!TypeOK, FutureEntriesEmpty, Down!Entries, Down!ChunkNumbers
<1>1. CASE Down!LoadOrStore
  BY <1>i, <1>0, <1>1 DEF Down!LoadOrStore, Down!TypeOK
<1>2. CASE Down!AppendChunk
  BY <1>i, <1>2 DEF Down!AppendChunk, Down!TypeOK, Down!NoFile
<1>3. ASSUME NEW r \in Readers, Down!Reader(r)
      PROVE  filePath'[e] = filePath[e] /\ media'[e] = media[e]
  <2>1. CASE Down!Inspect(r)
    BY <1>i, <2>1 DEF Down!Inspect, Down!TypeOK, Down!NoFile
  <2> QED BY <1>3, <2>1 DEF Down!Reader, Down!Load, Down!DeleteFailed, Down!Wake, Down!entryVars
<1>4. CASE Down!Cleaner \/ \E d \in Down!Entries : Down!Age(d)
  BY <1>4 DEF Down!Cleaner, Down!FindExpired, Down!DeleteExpired, Down!Age, Down!entryVars
<1> QED BY <1>1, <1>2, <1>3, <1>4 DEF Down!Next, Down!Chunk

-----------------------------------------------------------------------------
(* DownloadTrigger: facts about sequences of chunks *)

LEMMA InOrderAppend ==
  ASSUME NEW T, NEW s \in Seq(T), NEW c \in T, NEW d, NEW S, InOrder(s, d, S), c.of = d,
         \A n \in S : n < c.n
  PROVE  InOrder(Append(s, c), d, S \cup {c.n})
<1> PICK t : t = Append(s, c)
  OBVIOUS
<1>1. /\ DOMAIN s = 1 .. Len(s) /\ DOMAIN t = 1 .. Len(s) + 1 /\ Len(s) \in Nat
      /\ \A i \in DOMAIN s : t[i] = s[i] /\ i \in DOMAIN t /\ i # Len(s) + 1
      /\ t[Len(s) + 1] = c /\ Len(s) + 1 \in DOMAIN t
      /\ \A i \in DOMAIN t : i = Len(s) + 1 \/ i \in DOMAIN s
  OBVIOUS
<1>2. ASSUME NEW i \in DOMAIN t, NEW j \in DOMAIN t, t[i].of = d, t[j].of = d, i < j
      PROVE  t[i].n < t[j].n
  <2>1. i \in DOMAIN s
    BY <1>1, <1>2
  <2> QED BY <1>1, <1>2, <2>1 DEF InOrder
<1>3. \A i \in DOMAIN t : t[i].of = d => t[i].n \in S \cup {c.n}
  BY <1>1 DEF InOrder
<1>4. ASSUME NEW n \in S \cup {c.n} PROVE \E i \in DOMAIN t : t[i].of = d /\ t[i].n = n
  BY <1>1 DEF InOrder
<1> QED BY <1>2, <1>3, <1>4 DEF InOrder

LEMMA InOrderOther ==
  ASSUME NEW T, NEW s \in Seq(T), NEW c \in T, NEW d, NEW S, InOrder(s, d, S), c.of # d
  PROVE  InOrder(Append(s, c), d, S)
<1> PICK t : t = Append(s, c)
  OBVIOUS
<1>1. /\ DOMAIN s = 1 .. Len(s) /\ DOMAIN t = 1 .. Len(s) + 1 /\ Len(s) \in Nat
      /\ \A i \in DOMAIN s : t[i] = s[i] /\ i \in DOMAIN t
      /\ t[Len(s) + 1] = c
      /\ \A i \in DOMAIN t : i = Len(s) + 1 \/ i \in DOMAIN s
  OBVIOUS
<1> QED BY <1>1 DEF InOrder

\* Taking a chunk of another download out of the middle changes nothing.
LEMMA InOrderDrop ==
  ASSUME NEW T, NEW r \in Seq(T), NEW q \in Seq(T), q # <<>>, NEW d, NEW S,
         InOrder(r \o q, d, S), Head(q).of # d
  PROVE  InOrder(r \o Tail(q), d, S)
<1> PICK s, t : s = r \o q /\ t = r \o Tail(q)
  OBVIOUS
<1> PICK l : l = Len(r)
  OBVIOUS
<1>1. /\ l \in Nat /\ Len(q) \in Nat \ {0} /\ DOMAIN s = 1 .. l + Len(q)
      /\ DOMAIN t = 1 .. l + Len(q) - 1 /\ s[l + 1] = Head(q)
      /\ \A i \in DOMAIN t : t[i] = IF i <= l THEN s[i] ELSE s[i + 1]
  <2>1. /\ Tail(q) \in Seq(T) /\ Len(Tail(q)) = Len(q) - 1 /\ Len(q) \in Nat \ {0}
        /\ \A i \in 1 .. Len(Tail(q)) : Tail(q)[i] = q[i + 1]
    BY HeadTailProperties
  <2>2. /\ s \in Seq(T) /\ Len(s) = l + Len(q)
        /\ \A i \in 1 .. l + Len(q) : s[i] = IF i <= l THEN r[i] ELSE q[i - l]
    BY ConcatProperties
  <2>3. /\ t \in Seq(T) /\ Len(t) = l + Len(Tail(q))
        /\ \A i \in 1 .. l + Len(Tail(q)) : t[i] = IF i <= l THEN r[i] ELSE Tail(q)[i - l]
    BY <2>1, ConcatProperties
  <2>4. l \in Nat /\ s[l + 1] = q[1]
    BY <2>1, <2>2
  <2>5. ASSUME NEW i \in 1 .. l + Len(q) - 1 PROVE t[i] = IF i <= l THEN s[i] ELSE s[i + 1]
    <3>1. CASE i <= l
      BY <2>1, <2>2, <2>3, <2>4, <3>1
    <3>2. CASE i > l
      <4>1. /\ i - l \in 1 .. Len(Tail(q)) /\ i + 1 \in 1 .. l + Len(q) /\ ~(i <= l) /\ ~(i + 1 <= l)
            /\ (i - l) + 1 = (i + 1) - l /\ i \in 1 .. l + Len(Tail(q))
        BY <2>1, <2>4, <3>2
      <4>2. t[i] = Tail(q)[i - l] /\ s[i + 1] = q[(i + 1) - l]
        BY <2>2, <2>3, <4>1
      <4> QED BY <2>1, <4>1, <4>2
    <3> QED BY <2>4, <3>1, <3>2
  <2>6. DOMAIN s = 1 .. l + Len(q) /\ s[l + 1] = Head(q)
    BY <2>2, <2>4
  <2>7. DOMAIN t = 1 .. l + Len(q) - 1
    <3>1. l + Len(Tail(q)) = l + Len(q) - 1
      BY <2>1, <2>4
    <3> QED BY <2>3, <3>1
  <2> QED BY <2>1, <2>4, <2>5, <2>6, <2>7, Zenon
<1>2. ASSUME NEW i \in DOMAIN t, NEW j \in DOMAIN t, t[i].of = d, t[j].of = d, i < j
      PROVE  t[i].n < t[j].n
  <2> PICK x, y : x = (IF i <= l THEN i ELSE i + 1) /\ y = (IF j <= l THEN j ELSE j + 1)
    OBVIOUS
  <2>1. x \in DOMAIN s /\ y \in DOMAIN s /\ x < y
    <3>1. i \in 1 .. l + Len(q) - 1 /\ j \in 1 .. l + Len(q) - 1 /\ i < j
      BY <1>1, <1>2
    <3>2. x \in 1 .. l + Len(q) /\ y \in 1 .. l + Len(q) /\ x < y
      <4>1. l \in Nat /\ Len(q) \in Nat \ {0}
        BY <1>1
      <4> QED BY <3>1, <4>1
    <3> QED BY <1>1, <3>2
  <2>2. t[i] = s[x] /\ t[j] = s[y]
    BY <1>1
  <2>3. s[x].of = d /\ s[y].of = d
    BY <1>2, <2>2
  <2>4. s[x].n < s[y].n
    BY <2>1, <2>3 DEF InOrder
  <2> QED BY <2>2, <2>4
<1>3. ASSUME NEW i \in DOMAIN t, t[i].of = d PROVE t[i].n \in S
  <2> PICK x : x = (IF i <= l THEN i ELSE i + 1)
    OBVIOUS
  <2>1. x \in DOMAIN s /\ t[i] = s[x]
    <3>1. l \in Nat /\ Len(q) \in Nat \ {0} /\ i \in 1 .. l + Len(q) - 1
      BY <1>1, Zenon
    <3>2. x \in 1 .. l + Len(q)
      BY <3>1
    <3>3. t[i] = s[x]
      BY <1>1, Zenon
    <3> QED BY <1>1, <3>2, <3>3, Zenon
  <2> QED BY <1>3, <2>1 DEF InOrder
<1>4. ASSUME NEW n \in S PROVE \E i \in DOMAIN t : t[i].of = d /\ t[i].n = n
  <2>1. PICK x \in DOMAIN s : s[x].of = d /\ s[x].n = n
    BY DEF InOrder
  <2>2. x # l + 1
    BY <1>1, <2>1
  <2> PICK i : i = (IF x <= l THEN x ELSE x - 1)
    OBVIOUS
  <2>3. l \in Nat /\ Len(q) \in Nat \ {0} /\ x \in 1 .. l + Len(q)
    BY <1>1, <2>1, Zenon
  <2>4. i \in 1 .. l + Len(q) - 1 /\ x = IF i <= l THEN i ELSE i + 1
    BY <2>2, <2>3
  <2>5. i \in DOMAIN t /\ t[i] = s[x]
    <3>1. i \in DOMAIN t /\ t[i] = IF i <= l THEN s[i] ELSE s[i + 1]
      BY <1>1, <2>4, Zenon
    <3> QED BY <2>4, <3>1, Zenon
  <2> QED BY <2>1, <2>5, Zenon
<1> QED BY <1>2, <1>3, <1>4 DEF InOrder

LEMMA ConcatAppend ==
  ASSUME NEW T, NEW r \in Seq(T), NEW q \in Seq(T), NEW c \in T
  PROVE  r \o Append(q, c) = Append(r \o q, c)
<1>1. r \o Append(q, c) \in Seq(T) /\ Append(r \o q, c) \in Seq(T)
  OBVIOUS
<1>2. Len(r \o Append(q, c)) = Len(Append(r \o q, c))
  OBVIOUS
<1>3. \A i \in 1 .. Len(r \o Append(q, c)) : (r \o Append(q, c))[i] = Append(r \o q, c)[i]
  OBVIOUS
<1> QED BY <1>1, <1>2, <1>3, SeqEqual

\* Handing on the head leaves what is handed on and what is to go as it was.
LEMMA ConcatHead ==
  ASSUME NEW T, NEW r \in Seq(T), NEW q \in Seq(T), q # <<>>
  PROVE  Append(r, Head(q)) \o Tail(q) = r \o q
<1>1. q \in Seq(T) /\ Head(q) \in T /\ Tail(q) \in Seq(T)
  BY HeadTailProperties
<1>2. Append(r, Head(q)) \o Tail(q) \in Seq(T) /\ r \o q \in Seq(T)
  BY <1>1
<1>3. Len(Append(r, Head(q)) \o Tail(q)) = Len(r \o q)
  BY <1>1
<1>4. \A i \in 1 .. Len(r \o q) : (Append(r, Head(q)) \o Tail(q))[i] = (r \o q)[i]
  BY <1>1
<1> QED BY <1>2, <1>3, <1>4, SeqEqual

-----------------------------------------------------------------------------
(* DownloadTrigger: the initial states and the steps *)

LEMMA TriggerInit == Trigger!Init => TriggerInv
<1> SUFFICES ASSUME Trigger!Init PROVE TriggerInv
  OBVIOUS
<1>1. Trigger!TypeOK
  <2>1. context \in BOOLEAN
    BY DEF Trigger!Init
  <2>2. downloads = <<>> /\ toGo = <<>> /\ request = <<>> /\ received = [f \in Files |-> <<>>]
    BY DEF Trigger!Init, Trigger!NoRequest
  <2>3. downloads \in Seq(Trigger!Download) /\ Len(downloads) <= MaxDownloads
    BY <2>2, TriggerAssumption
  <2> QED BY <2>1, <2>2, <2>3 DEF Trigger!TypeOK, Trigger!NoRequest
<1>2. KnownDownloads
  BY DEF Trigger!Init, KnownDownloads
<1>3. ForwardedInOrder
  BY DEF Trigger!Init, ForwardedInOrder
<1> QED BY <1>1, <1>2, <1>3 DEF TriggerInv

\* The types of the sequences the next lemmas are about.
LEMMA TriggerTypes ==
  ASSUME TriggerInv
  PROVE  /\ downloads \in Seq(Trigger!Download) /\ toGo \in Seq(Trigger!Chunk)
         /\ received \in [Files -> Seq(Trigger!Chunk)]
         /\ \A d \in DOMAIN downloads :
              /\ d \in 1 .. MaxDownloads
              /\ downloads[d] \in Trigger!Download /\ downloads[d].file \in Files
              /\ Trigger!Forwarded(d) \in Seq(Trigger!Chunk)
         /\ \A c \in Trigger!Chunk : c.of \in Nat /\ c.n \in Nat
<1>1. /\ downloads \in Seq(Trigger!Download) /\ toGo \in Seq(Trigger!Chunk)
      /\ received \in [Files -> Seq(Trigger!Chunk)] /\ Len(downloads) <= MaxDownloads
  BY DEF TriggerInv, Trigger!TypeOK
<1>2. \A d \in DOMAIN downloads :
        /\ d \in 1 .. MaxDownloads
        /\ downloads[d] \in Trigger!Download /\ downloads[d].file \in Files
  <2> SUFFICES ASSUME NEW d \in DOMAIN downloads
               PROVE  /\ d \in 1 .. MaxDownloads
                      /\ downloads[d] \in Trigger!Download /\ downloads[d].file \in Files
    OBVIOUS
  <2>1. d \in 1 .. MaxDownloads
    BY <1>1, TriggerAssumption
  <2>2. downloads[d] \in Trigger!Download
    BY <1>1
  <2>3. downloads[d].file \in Files
    BY <2>2 DEF Trigger!Download
  <2> QED BY <2>1, <2>2, <2>3
<1>3. \A d \in DOMAIN downloads : Trigger!Forwarded(d) \in Seq(Trigger!Chunk)
  BY <1>1, <1>2 DEF Trigger!Forwarded
<1>4. \A c \in Trigger!Chunk : c.of \in Nat /\ c.n \in Nat
  BY TriggerAssumption DEF Trigger!Chunk
<1> QED BY <1>1, <1>2, <1>3, <1>4

LEMMA KnownInForwarded ==
  ASSUME TriggerInv, NEW f \in Files, NEW i \in DOMAIN (received[f] \o toGo)
  PROVE  (received[f] \o toGo)[i].of \in DOMAIN downloads
<1>1. received[f] \in Seq(Trigger!Chunk) /\ toGo \in Seq(Trigger!Chunk)
  BY TriggerTypes
<1>2. \/ i \in DOMAIN received[f] /\ (received[f] \o toGo)[i] = received[f][i]
      \/ i - Len(received[f]) \in DOMAIN toGo /\ (received[f] \o toGo)[i] = toGo[i - Len(received[f])]
  BY <1>1
<1> QED BY <1>2 DEF TriggerInv, KnownDownloads

LEMMA AppendFacts ==
  ASSUME NEW S, NEW s \in Seq(S), NEW x \in S
  PROVE  /\ Len(s) \in Nat /\ DOMAIN s = 1 .. Len(s)
         /\ Append(s, x) \in Seq(S) /\ DOMAIN Append(s, x) = 1 .. Len(s) + 1
         /\ Append(s, x)[Len(s) + 1] = x /\ \A i \in DOMAIN s : Append(s, x)[i] = s[i]
  OBVIOUS

\* A new download has nothing forwarded yet.
LEMMA NewDownload ==
  ASSUME TriggerInv, NEW new \in Trigger!Download, new.next = 0, new.lost = {},
         Len(downloads) < MaxDownloads, downloads' = Append(downloads, new),
         UNCHANGED <<toGo, received>>
  PROVE  KnownDownloads' /\ ForwardedInOrder' /\ downloads' \in Seq(Trigger!Download)
         /\ Len(downloads') <= MaxDownloads
<1> PICK l, file : l = Len(downloads) /\ file = new.file
  OBVIOUS
<1>1. file \in Files
  BY DEF Trigger!Download
<1>2. downloads \in Seq(Trigger!Download)
  BY TriggerTypes
<1>3. /\ l \in Nat /\ DOMAIN downloads = 1 .. l /\ DOMAIN downloads' = 1 .. l + 1
      /\ downloads' \in Seq(Trigger!Download) /\ Len(downloads') = l + 1
      /\ downloads'[l + 1] = new /\ \A d \in DOMAIN downloads : downloads'[d] = downloads[d]
  BY <1>2, AppendFacts
<1>5. KnownDownloads'
  BY <1>3 DEF TriggerInv, KnownDownloads
<1>6. ASSUME NEW d \in DOMAIN downloads'
      PROVE  /\ downloads'[d].lost \subseteq 1 .. downloads'[d].next
             /\ InOrder(Trigger!Forwarded(d)', d, (1 .. downloads'[d].next) \ downloads'[d].lost)
  <2>1. CASE d = l + 1
    <3> PICK s : s = received[file] \o toGo
      OBVIOUS
    <3>1. Trigger!Forwarded(d)' = s
      BY <1>1, <1>3, <2>1 DEF Trigger!Forwarded
    <3>2. \A i \in DOMAIN s : s[i].of # d
      <4> SUFFICES ASSUME NEW i \in DOMAIN s PROVE s[i].of # d
        OBVIOUS
      <4>1. s[i].of \in 1 .. l
        BY <1>1, <1>3, KnownInForwarded
      <4> QED BY <1>3, <2>1, <4>1
    <3>3. (1 .. downloads'[d].next) \ downloads'[d].lost = {}
      BY <1>1, <1>3, <2>1
    <3> QED BY <1>1, <1>3, <2>1, <3>1, <3>2, <3>3 DEF InOrder
  <2>2. CASE d \in DOMAIN downloads
    <3>1. downloads'[d] = downloads[d] /\ Trigger!Forwarded(d)' = Trigger!Forwarded(d)
      BY <1>3, <2>2 DEF Trigger!Forwarded
    <3> QED BY <2>2, <3>1 DEF TriggerInv, ForwardedInOrder
  <2>3. d = l + 1 \/ d \in DOMAIN downloads
    BY <1>3
  <2> QED BY <2>1, <2>2, <2>3
<1>7. ForwardedInOrder'
  BY <1>6 DEF ForwardedInOrder
<1> QED BY <1>3, <1>5, <1>7, TriggerAssumption

\* The next chunk is later than all that were forwarded.
LEMMA ChunkArrivesStep ==
  ASSUME TriggerInv, NEW d \in DOMAIN downloads, NEW size, Trigger!ChunkArrives(d, size)
  PROVE  TriggerInv'
<1>m. PICK n : n = downloads[d].next + 1
  OBVIOUS
<1>e. PICK c : c = [of |-> d, n |-> n]
  OBVIOUS
<1>t. /\ downloads \in Seq(Trigger!Download) /\ toGo \in Seq(Trigger!Chunk)
      /\ received \in [Files -> Seq(Trigger!Chunk)]
      /\ d \in 1 .. MaxDownloads /\ downloads[d] \in Trigger!Download
  BY TriggerTypes
<1>n. n \in 1 .. Chunks /\ n - 1 = downloads[d].next
  <2>1. downloads[d].next \in 0 .. Chunks
    BY <1>t DEF Trigger!Download
  <2>2. downloads[d].next < Chunks
    BY DEF Trigger!ChunkArrives
  <2> QED BY <1>m, <2>1, <2>2, TriggerAssumption
<1>c. c \in Trigger!Chunk /\ c.n = n /\ c.of = d
  BY <1>e, <1>t, <1>n DEF Trigger!Chunk
<1>g. toGo \in Seq(Trigger!Chunk) /\ c \in Trigger!Chunk
  BY <1>t, <1>c
<1>s. \E lost :
        /\ downloads' = [downloads EXCEPT ![d].next = n, ![d].lost = lost]
        /\ \/ lost = downloads[d].lost /\ toGo' = Append(toGo, c)
           \/ lost = downloads[d].lost \cup {n} /\ toGo' = toGo
  <2> PICK heard : heard = (HooksAttached /\ Trigger!SendDownloadChunks(size))
    OBVIOUS
  <2> QED BY <1>m, <1>e DEF Trigger!ChunkArrives
<1>u. UNCHANGED <<request, received, context>>
  BY DEF Trigger!ChunkArrives
<1>p. PICK lost : /\ downloads' = [downloads EXCEPT ![d].next = n, ![d].lost = lost]
                  /\ \/ lost = downloads[d].lost /\ toGo' = Append(toGo, c)
                     \/ lost = downloads[d].lost \cup {n} /\ toGo' = toGo
  BY <1>s
<1>l. downloads[d].lost \subseteq 1 .. n - 1
  BY <1>n DEF TriggerInv, ForwardedInOrder
<1>1. /\ downloads' \in Seq(Trigger!Download) /\ Len(downloads') = Len(downloads)
      /\ DOMAIN downloads' = DOMAIN downloads
      /\ downloads'[d].file = downloads[d].file /\ downloads'[d].next = n /\ downloads'[d].lost = lost
      /\ \A e \in DOMAIN downloads : e # d => downloads'[e] = downloads[e]
  <2>0. PICK new : new = [downloads[d] EXCEPT !.next = n, !.lost = lost]
    OBVIOUS
  <2>1. lost \subseteq 1 .. Chunks /\ n \in 0 .. Chunks
    BY <1>p, <1>n, <1>l, TriggerAssumption
  <2>2. new \in Trigger!Download /\ new.file = downloads[d].file /\ new.next = n /\ new.lost = lost
    BY <1>t, <2>0, <2>1 DEF Trigger!Download
  <2>3. downloads' = [downloads EXCEPT ![d] = new]
    BY <1>p, <1>t, <2>0
  <2>4. d \in 1 .. Len(downloads) /\ DOMAIN downloads = 1 .. Len(downloads)
    BY <1>t
  <2>5. /\ downloads' \in Seq(Trigger!Download) /\ Len(downloads') = Len(downloads)
        /\ \A e \in 1 .. Len(downloads) : downloads'[e] = IF e = d THEN new ELSE downloads[e]
    BY <1>t, <2>2, <2>3, <2>4, ExceptSeq
  <2> QED BY <2>2, <2>4, <2>5
<1>2. toGo' \in Seq(Trigger!Chunk)
  <2>1. Append(toGo, c) \in Seq(Trigger!Chunk)
    BY <1>t, <1>c, AppendFacts
  <2> QED BY <1>t, <1>p, <2>1
<1>3. Trigger!TypeOK'
  BY <1>u, <1>1, <1>2 DEF TriggerInv, Trigger!TypeOK
<1>4. KnownDownloads'
  <2>1. \A i \in DOMAIN toGo' : toGo'[i] = c \/ (i \in DOMAIN toGo /\ toGo'[i] = toGo[i])
    <3>1. CASE toGo' = Append(toGo, c)
      BY <1>g, <3>1, AppendFacts
    <3> QED BY <1>p, <3>1
  <2> QED BY <1>1, <1>u, <1>c, <2>1 DEF TriggerInv, KnownDownloads
<1>5. ASSUME NEW e \in DOMAIN downloads
      PROVE  /\ downloads'[e].lost \subseteq 1 .. downloads'[e].next
             /\ InOrder(Trigger!Forwarded(e)', e, (1 .. downloads'[e].next) \ downloads'[e].lost)
  <2>s. PICK s : s = Trigger!Forwarded(e)
    OBVIOUS
  <2>S. PICK S : S = (1 .. downloads[e].next) \ downloads[e].lost
    OBVIOUS
  <2>1. s \in Seq(Trigger!Chunk) /\ InOrder(s, e, S) /\ downloads[e].file \in Files
        /\ downloads[e].lost \subseteq 1 .. downloads[e].next
    BY <2>s, <2>S, TriggerTypes DEF TriggerInv, ForwardedInOrder
  <2>2. downloads'[e].file = downloads[e].file
    BY <1>1
  <2>3. CASE toGo' = Append(toGo, c) /\ lost = downloads[d].lost
    <3>1. Trigger!Forwarded(e)' = Append(s, c)
      <4>0. PICK r : r = received[downloads[e].file]
        OBVIOUS
      <4>1. r \in Seq(Trigger!Chunk)
        BY <1>t, <2>1, <4>0
      <4>2. s = r \o toGo
        BY <2>s, <4>0 DEF Trigger!Forwarded
      <4>3. Trigger!Forwarded(e)' = r \o Append(toGo, c)
        BY <1>u, <2>2, <2>3, <4>0 DEF Trigger!Forwarded
      <4>4. r \o Append(toGo, c) = Append(r \o toGo, c)
        BY <1>g, <4>1, ConcatAppend
      <4> QED BY <4>2, <4>3, <4>4
    <3>2. CASE e = d
      <4>1. S \cup {n} = (1 .. n) \ lost
        BY <1>n, <1>l, <2>S, <2>3, <3>2
      <4>2. \A m \in S : m < c.n
        BY <1>n, <1>c, <2>S, <3>2
      <4>3. InOrder(Append(s, c), e, S \cup {n})
        BY <1>c, <2>1, <3>2, <4>2, InOrderAppend
      <4>4. downloads'[e].next = n /\ downloads'[e].lost = lost /\ lost \subseteq 1 .. n
        BY <1>1, <1>l, <1>n, <2>3, <3>2
      <4> QED BY <3>1, <4>1, <4>3, <4>4
    <3>3. CASE e # d
      <4>1. InOrder(Append(s, c), e, S)
        BY <1>c, <2>1, <3>3, InOrderOther
      <4> QED BY <1>1, <2>S, <2>1, <3>1, <3>3, <4>1
    <3> QED BY <3>2, <3>3
  <2>4. CASE toGo' = toGo /\ lost = downloads[d].lost \cup {n}
    <3>1. Trigger!Forwarded(e)' = s
      BY <1>u, <2>s, <2>2, <2>4 DEF Trigger!Forwarded
    <3>2. CASE e = d
      <4>1. S = (1 .. n) \ lost /\ lost \subseteq 1 .. n
        BY <1>n, <1>l, <2>S, <2>4, <3>2
      <4>2. downloads'[e].next = n /\ downloads'[e].lost = lost
        BY <1>1, <3>2
      <4> QED BY <2>1, <3>1, <4>1, <4>2
    <3>3. CASE e # d
      BY <1>1, <2>S, <2>1, <3>1, <3>3
    <3> QED BY <3>2, <3>3
  <2> QED BY <1>p, <2>3, <2>4
<1>6. ForwardedInOrder'
  BY <1>1, <1>5 DEF ForwardedInOrder
<1> QED BY <1>3, <1>4, <1>6 DEF TriggerInv

\* The chunk handed on stays where it was in the sequence of its file, and is
\* of no download of another file.
LEMMA GoReceivesStep == ASSUME TriggerInv, Trigger!GoReceives PROVE TriggerInv'
<1>1. PICK h, d, f : h = Head(toGo) /\ d = h.of /\ f = downloads[d].file
  OBVIOUS
<1>t. /\ toGo \in Seq(Trigger!Chunk) /\ toGo # <<>>
      /\ received \in [Files -> Seq(Trigger!Chunk)]
      /\ \A e \in DOMAIN downloads : downloads[e].file \in Files
  BY TriggerTypes DEF Trigger!GoReceives
<1>h. /\ h \in Trigger!Chunk /\ h = toGo[1] /\ 1 \in DOMAIN toGo
      /\ Tail(toGo) \in Seq(Trigger!Chunk) /\ DOMAIN Tail(toGo) = 1 .. Len(toGo) - 1
      /\ DOMAIN toGo = 1 .. Len(toGo) /\ Len(toGo) \in Nat
      /\ \A i \in DOMAIN Tail(toGo) : i + 1 \in DOMAIN toGo /\ Tail(toGo)[i] = toGo[i + 1]
  BY <1>1, <1>t, HeadTailProperties
<1>f. d \in DOMAIN downloads /\ f \in Files
  BY <1>1, <1>t, <1>h DEF TriggerInv, KnownDownloads
<1>s. /\ received' = [received EXCEPT ![f] = Append(received[f], h)] /\ toGo' = Tail(toGo)
      /\ UNCHANGED <<context, request, downloads>>
  BY <1>1 DEF Trigger!GoReceives
<1>a. received[f] \in Seq(Trigger!Chunk)
  BY <1>t, <1>f
<1>b. /\ Append(received[f], h) \in Seq(Trigger!Chunk)
      /\ \A i \in DOMAIN Append(received[f], h) :
           \/ Append(received[f], h)[i] = h
           \/ i \in DOMAIN received[f] /\ Append(received[f], h)[i] = received[f][i]
  BY <1>a, <1>h
<1>r. /\ received' \in [Files -> Seq(Trigger!Chunk)]
      /\ \A g \in Files : received'[g] = IF g = f THEN Append(received[f], h) ELSE received[g]
  BY <1>t, <1>b, <1>f, <1>s
<1>2. Trigger!TypeOK'
  BY <1>h, <1>r, <1>s DEF TriggerInv, Trigger!TypeOK
<1>3. KnownDownloads'
  <2>1. \A i \in DOMAIN toGo' : toGo'[i].of \in DOMAIN downloads'
    BY <1>h, <1>s DEF TriggerInv, KnownDownloads
  <2>2. ASSUME NEW g \in Files, NEW i \in DOMAIN received'[g]
        PROVE  received'[g][i].of \in DOMAIN downloads'
    <3>1. CASE g = f
      <4>1. received'[g] = Append(received[f], h) /\ h.of \in DOMAIN downloads
        BY <1>1, <1>f, <1>r, <3>1
      <4>2. \A k \in DOMAIN received[f] : received[f][k].of \in DOMAIN downloads
        BY <1>f, Zenon DEF TriggerInv, KnownDownloads
      <4>3. received'[g][i] = h \/ \E k \in DOMAIN received[f] : received'[g][i] = received[f][k]
        BY <1>b, <4>1, Zenon
      <4> QED BY <1>s, <4>1, <4>2, <4>3, Zenon
    <3>2. CASE g # f
      BY <1>r, <1>s, <3>2 DEF TriggerInv, KnownDownloads
    <3> QED BY <3>1, <3>2
  <2> QED BY <2>1, <2>2 DEF KnownDownloads
<1>4. ASSUME NEW e \in DOMAIN downloads, NEW S, InOrder(Trigger!Forwarded(e), e, S)
      PROVE  InOrder(Trigger!Forwarded(e)', e, S)
  <2>1. CASE downloads[e].file = f
    <3>1. Trigger!Forwarded(e)' = Append(received[f], h) \o Tail(toGo)
      BY <1>f, <1>r, <1>s, <2>1 DEF Trigger!Forwarded
    <3>2. Append(received[f], h) \o Tail(toGo) = received[f] \o toGo
      BY <1>1, <1>a, <1>t, ConcatHead
    <3> QED BY <1>4, <2>1, <3>1, <3>2 DEF Trigger!Forwarded
  <2>2. CASE downloads[e].file # f
    <3>0. PICK r : r = received[downloads[e].file]
      OBVIOUS
    <3>1. r \in Seq(Trigger!Chunk) /\ downloads[e].file \in Files
      BY <1>t, <3>0
    <3>2. Trigger!Forwarded(e)' = r \o Tail(toGo) /\ Trigger!Forwarded(e) = r \o toGo
      BY <1>r, <1>s, <2>2, <3>0, <3>1 DEF Trigger!Forwarded
    <3>3. h.of # e
      BY <1>1, <2>2
    <3> QED BY <1>1, <1>4, <1>t, <3>1, <3>2, <3>3, InOrderDrop
  <2> QED BY <2>1, <2>2
<1>5. ForwardedInOrder'
  BY <1>4, <1>s DEF TriggerInv, ForwardedInOrder
<1> QED BY <1>2, <1>3, <1>5 DEF TriggerInv

LEMMA NoChunkYet == 0 \in 0 .. Chunks
  BY TriggerAssumption

LEMMA StartStep ==
  ASSUME TriggerInv, NEW file \in Files, NEW own \in BOOLEAN, NEW suffix \in {"_1", "_31", ""},
         NEW type \in Trigger!FileTypes, Trigger!Start(file, own, suffix, type),
         UNCHANGED <<toGo, received>>
  PROVE  KnownDownloads' /\ ForwardedInOrder' /\ downloads' \in Seq(Trigger!Download)
         /\ Len(downloads') <= MaxDownloads
<1>1. PICK new : new = [file |-> file, own |-> own, suffix |-> suffix, asked |-> type,
                        type |-> Trigger!FetchedType(suffix, type), next |-> 0, lost |-> {}]
  OBVIOUS
<1>2. Trigger!FetchedType(suffix, type) \in Trigger!FileTypes
  BY Zenon DEF Trigger!FetchedType, Trigger!FileTypes, Trigger!Image, Trigger!Video
<1>3. new \in Trigger!Download
  BY <1>1, <1>2, NoChunkYet DEF Trigger!Download
<1>4. new.next = 0 /\ new.lost = {}
  BY <1>1
<1>5. Len(downloads) < MaxDownloads /\ downloads' = Append(downloads, new)
  BY <1>1 DEF Trigger!Start
<1> QED BY <1>3, <1>4, <1>5, NewDownload

LEMMA TriggerStep == ASSUME TriggerInv, Trigger!Next PROVE TriggerInv'
<1>1. ASSUME NEW f \in Files, NEW r \in Trigger!UserRequests, Trigger!WeChatDownloads(f, r[1], r[2])
      PROVE  TriggerInv'
  <2>1. r[1] \in {"_1", "_31", ""} /\ r[2] \in Trigger!FileTypes
    <3>1. PICK u, t : r = <<u, t>> /\ u \in {"_1", "_31", ""} /\ t \in {3, 1, 5}
      BY DEF Trigger!UserRequests, Trigger!ThumbImage, Trigger!HdImage, Trigger!File
    <3>2. t \in Trigger!FileTypes
      BY <3>1 DEF Trigger!FileTypes, Trigger!ThumbImage, Trigger!HdImage,
                  Trigger!Image, Trigger!Video, Trigger!File
    <3> QED BY <3>1, <3>2
  <2>2. Trigger!Start(f, FALSE, r[1], r[2]) /\ UNCHANGED <<request, toGo, received>>
    BY <1>1 DEF Trigger!WeChatDownloads
  <2>3. context' \in BOOLEAN
    BY <1>1 DEF Trigger!WeChatDownloads
  <2>4. KnownDownloads' /\ ForwardedInOrder' /\ downloads' \in Seq(Trigger!Download)
        /\ Len(downloads') <= MaxDownloads
    BY <2>1, <2>2, StartStep
  <2>5. Trigger!TypeOK'
    BY <2>2, <2>3, <2>4 DEF TriggerInv, Trigger!TypeOK
  <2> QED BY <2>4, <2>5 DEF TriggerInv
<1>2. ASSUME NEW f \in Files, NEW t \in AskedTypes, Trigger!TriggerDownload(f, t)
      PROVE  TriggerInv'
  <2>1. t \in Trigger!FileTypes
    <3>1. t \in 1 .. 5
      BY TriggerAssumption
    <3> QED BY <3>1
        DEF Trigger!FileTypes, Trigger!HdImage, Trigger!Image, Trigger!ThumbImage, Trigger!Video, Trigger!File
  <2>2. /\ Trigger!Start(f, TRUE, "_1", t) /\ UNCHANGED <<context, toGo, received>>
        /\ request' = <<f, t>>
    BY <1>2 DEF Trigger!TriggerDownload
  <2>4. KnownDownloads' /\ ForwardedInOrder' /\ downloads' \in Seq(Trigger!Download)
        /\ Len(downloads') <= MaxDownloads
    BY <2>1, <2>2, StartStep
  <2>5. Trigger!TypeOK'
    BY <2>1, <2>2, <2>4 DEF TriggerInv, Trigger!TypeOK
  <2> QED BY <2>4, <2>5 DEF TriggerInv
<1>3. ASSUME NEW d \in DOMAIN downloads, NEW size \in Sizes, Trigger!ChunkArrives(d, size)
      PROVE  TriggerInv'
  BY <1>3, ChunkArrivesStep
<1> QED BY <1>1, <1>2, <1>3, GoReceivesStep DEF Trigger!Next

\* The invariant says what the property of DownloadTrigger says.
LEMMA InOrderMeans == ASSUME TriggerInv PROVE Trigger!EveryChunkOnceInOrder
<1>1. ASSUME NEW d \in DOMAIN downloads, NEW s, s = Trigger!Forwarded(d),
             NEW own, own = {i \in DOMAIN s : s[i].of = d}
      PROVE  /\ \A i, j \in own : i < j => s[i].n < s[j].n
             /\ {s[i].n : i \in own} = (1 .. downloads[d].next) \ downloads[d].lost
  <2>1. PICK S : S = (1 .. downloads[d].next) \ downloads[d].lost
    OBVIOUS
  <2>2. InOrder(s, d, S)
    BY <1>1, <2>1 DEF TriggerInv, ForwardedInOrder
  <2> QED BY <1>1, <2>1, <2>2 DEF InOrder
<1> QED BY <1>1 DEF Trigger!EveryChunkOnceInOrder

-----------------------------------------------------------------------------
(* The theorems *)

DownloadsInv == (part = "download" => DownInv) /\ (part = "trigger" => TriggerInv)

LEMMA DownloadsInit == Init => DownloadsInv
  BY DownInit, TriggerInit DEF Init, DownloadsInv

LEMMA DownloadsStep == DownloadsInv /\ [Next]_vars => DownloadsInv'
<1> SUFFICES ASSUME DownloadsInv, [Next]_vars PROVE DownloadsInv'
  OBVIOUS
<1>1. CASE NextDownload
  BY <1>1, DownStep DEF NextDownload, DownloadsInv
<1>2. CASE NextTrigger
  BY <1>2, TriggerStep DEF NextTrigger, DownloadsInv
<1>3. CASE NextUpload \/ NextPrototype
  BY <1>3 DEF NextUpload, NextPrototype, DownloadsInv
<1>4. CASE UNCHANGED vars
  <2>1. UNCHANGED <<part, store, media, filePath, age, handled, hpc, hEntry, loaded, rpc, rEntry,
                    tries, result, cpc, request, downloads, received, context, toGo>>
    BY <1>4 DEF vars, downloadVars, triggerVars, sharedVars
  <2>2. DownInv => DownInv'
    BY <2>1 DEF DownInv, Down!TypeOK, FutureEntriesEmpty, CurrentEntry, NothingMissing, EndsWith,
                ResultsAreSaved, HasSaved, Down!NoHoles
  <2>3. TriggerInv => TriggerInv'
    <3>1. Trigger!TypeOK => Trigger!TypeOK'
      BY <2>1, Zenon DEF Trigger!TypeOK
    <3>2. KnownDownloads /\ ForwardedInOrder => (KnownDownloads /\ ForwardedInOrder)'
      <4>1. \A d : Trigger!Forwarded(d)' = Trigger!Forwarded(d)
        BY <2>1 DEF Trigger!Forwarded
      <4>2. KnownDownloads => KnownDownloads'
        BY <2>1 DEF KnownDownloads
      <4>3. ForwardedInOrder => ForwardedInOrder'
        BY <2>1, <4>1 DEF ForwardedInOrder
      <4> QED BY <4>2, <4>3
    <3> QED BY <3>1, <3>2 DEF TriggerInv
  <2> QED BY <2>1, <2>2, <2>3 DEF DownloadsInv
<1> QED BY <1>1, <1>2, <1>3, <1>4 DEF Next

\* The inductive invariants of both parts hold in every state.
THEOREM DownloadsInvariant == Spec => []DownloadsInv
  BY DownloadsInit, DownloadsStep, PTL DEF Spec

\* Whatever deletions, failures and pauses come in between, no file in Go has a
\* hole or a repetition in it (msg.go:37-56, worker.go:499-560).
THEOREM FilesWithoutHoles == Spec => []NoHoles
<1>1. DownloadsInv => NoHoles
  BY DEF DownloadsInv, DownInv, NoHoles
<1> QED BY <1>1, DownloadsInvariant, PTL

\* All who find the same entry get the same file (worker.go:505).
THEOREM ReadersGetOneFile == Spec => []ReadersAgree
<1>1. DownloadsInv => ReadersAgree
  <2> SUFFICES ASSUME DownInv PROVE Down!ReadersAgree
    BY DEF DownloadsInv, ReadersAgree
  <2> QED BY DEF DownInv, ResultsAreSaved, HasSaved, Down!ReadersAgree, Down!NoFile
<1> QED BY <1>1, DownloadsInvariant, PTL

\* An entry that was saved collects nothing more and stays the file it is
\* (msg.go:49, worker.go:550).
THEOREM SavedFilesStay == Spec => SavedOnce
<1>1. DownloadsInv /\ [Next]_vars => [part = "download" => Down!KeepsSaved]_downloadVars
  <2> SUFFICES ASSUME DownloadsInv, [Next]_vars, part = "download", ~UNCHANGED downloadVars
               PROVE  Down!KeepsSaved
    OBVIOUS
  <2>1. Down!Next
    BY DEF Next, NextDownload, NextTrigger, NextUpload, NextPrototype, vars
  <2> QED BY <2>1, KeepsSavedStep DEF DownloadsInv
<1> QED BY <1>1, DownloadsInvariant, PTL DEF Spec, SavedOnce

\* However downloads overlap, Go gets each chunk that may be forwarded once,
\* and the chunks of a download in order (script.js:347).
THEOREM ChunksOnceInOrder == Spec => []EveryChunkOnceInOrder
<1>1. DownloadsInv => EveryChunkOnceInOrder
  BY InOrderMeans DEF DownloadsInv, EveryChunkOnceInOrder
<1> QED BY <1>1, DownloadsInvariant, PTL
=============================================================================
