---------------------------- MODULE NativeMemory ----------------------------
(***************************************************************************)
(* What the agent does to WeChat's memory with its own arithmetic          *)
(* (onebot/script.js): the clone of a captured task, whose inner pointers  *)
(* are moved to the copy (triggerClassicCloneSend), and the search of      *)
(* WeChat's task map, a std::map read node by node                         *)
(* (findTextRequestInTaskMap).                                             *)
(*                                                                         *)
(* Addresses are counted modulo Wide (2^64) and the difference of two of   *)
(* them is read as a signed number modulo Narrow (2^32).  The captured     *)
(* task is Words words of WordSize bytes.                                  *)
(***************************************************************************)
EXTENDS Naturals, FiniteSets, Functions

CONSTANTS
  Wide, Narrow,    \* 2^64 and 2^32 in the code
  WordSize, Words, \* 8 and 52 in the code
  Orig, Copy,      \* addresses of the captured task and of its clone
  Keys,            \* ids of tasks
  MaxSteps         \* nodes visited before the search gives up: 256

Length == WordSize * Words

VARIABLES
  orig,   \* the words of the captured task
  buf,    \* the words of the clone
  off,    \* the word the loop is at
  map,    \* WeChat's map: its keys in the order of their insertion
  found   \* the key the search was asked for, with its answer

vars == <<orig, buf, off, map, found>>

Init ==
  /\ orig \in [0 .. Words - 1 -> 0 .. Wide - 1]
  /\ buf = orig
  /\ off = 0
  /\ map \in {s \in UNION {[1 .. k -> Keys] : k \in 0 .. Cardinality(Keys)} : IsInjective(s)}
  /\ found = {}

-----------------------------------------------------------------------------
(* vPtr.sub(origPtr).toInt32(), when it is not negative *)
Delta(word) == ((word + Wide - Orig) % Wide) % Narrow

\* The first byte taken for a pointer out of the task.
PointsInsideLate(word) == Delta(word) \in 1 .. Length - 1

PointsInside(word) == Delta(word) \in 0 .. Length - 1

\* One turn of the loop over the words.
Relocate ==
  /\ off < Words
  /\ buf' = IF PointsInside(buf[off]) THEN [buf EXCEPT ![off] = Copy + Delta(buf[off])] ELSE buf
  /\ off' = off + 1
  /\ UNCHANGED <<orig, map, found>>

-----------------------------------------------------------------------------
(* A binary search tree over the keys S: its root is the key that came first, *)
(* whatever rotations brought it there. *)
Place(k) == CHOOSE i \in DOMAIN map : map[i] = k

Root(S) == CHOOSE k \in S : \A j \in S : Place(k) <= Place(j)

\* Turned the wrong way.
DescendMirrored(S, key) == {k \in S : IF Root(S) < key THEN k < Root(S) ELSE k > Root(S)}

\* The right or the left subtree, the one where key can be.
Descend(S, key) == {k \in S : IF Root(S) < key THEN k > Root(S) ELSE k < Root(S)}

\* The loop looks at the roots of ever smaller subtrees, MaxSteps at most.
FindTextRequest(key) ==
  LET at[n \in 0 .. MaxSteps] == IF n = 0 THEN Range(map) ELSE Descend(at[n - 1], key)
  IN  \E n \in 0 .. MaxSteps - 1 : at[n] # {} /\ Root(at[n]) = key

Find(key) ==
  /\ off = Words
  /\ found = {}
  /\ found' = {<<key, FindTextRequest(key)>>}
  /\ UNCHANGED <<orig, buf, off, map>>

Next == Relocate \/ \E key \in Keys : Find(key)

Spec == Init /\ [][Next]_vars

-----------------------------------------------------------------------------
(* Properties *)

Inside(word) == word \in Orig .. Orig + Length - 1

\* After the loop every word of the clone that pointed into the captured task
\* points at the same place of the clone: no pointer of the clone leads into
\* the original, not to its first byte and not to its last (script.js:1399).
NothingLeadsBack ==
  \A i \in 0 .. off - 1 :
    Inside(orig[i]) => buf[i] = Copy + (orig[i] - Orig)

\* The depth at which key is, or would be, in the tree.
Depth(key) ==
  Cardinality({k \in Range(map) :
    \A j \in Range(map) :
      (j \in key .. k \/ j \in k .. key) => Place(k) <= Place(j)})

\* The search finds a task exactly if it is in the map, however the tree is
\* balanced, as long as it is not deeper than the search goes (script.js:984).
FindsExactlyMapped ==
  \A f \in found : f[2] = (f[1] \in Range(map) /\ Depth(f[1]) <= MaxSteps)
=============================================================================
