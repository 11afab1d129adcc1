--------------------------- MODULE AgentDataProofs ---------------------------
(***************************************************************************)
(* Proofs about the computations of the agent's script: the search of      *)
(* WeChat's task map (NativeMemory), what summarizeProtoShape says of any  *)
(* bytes, and that what buildTextProtoVariant writes reads back            *)
(* (ProtoWire).  Each is a loop, written as a recursive function of the    *)
(* number of turns; the first lemmas give induction over that number and   *)
(* the existence of such functions.                                        *)
(***************************************************************************)
EXTENDS AgentProofs, FiniteSetTheorems, WellFoundedInduction

-----------------------------------------------------------------------------
(* Induction *)

\* A set of naturals that is not empty has a least.
LEMMA LeastNat ==
  ASSUME NEW T \in SUBSET Nat, T # {}
  PROVE  \E n \in T : \A k \in T : n <= k
<1> DEFINE R == OpToRel(<, Nat)
<1>1. IsWellFoundedOn(R, Nat)
  BY NatLessThanWellFounded
<1>2. \E x \in T : \A y \in T : ~ (<<y, x>> \in R)
  <2> HIDE DEF R
  <2> QED BY <1>1, WFMin
<1>3. \A x, y \in Nat : x < y => <<x, y>> \in R
  BY DEF OpToRel
<1>4. \E x \in T : \A y \in T : ~ (y < x)
  <2> HIDE DEF R
  <2> QED BY <1>2, <1>3, Zenon
<1> QED BY <1>4

\* A set of naturals with 0 and with every successor of an element is Nat.
LEMMA NatByInduction ==
  ASSUME NEW P, 0 \in P, \A n \in Nat : n \in P => n + 1 \in P
  PROVE  \A n \in Nat : n \in P
<1> SUFFICES ASSUME Nat \ P # {} PROVE FALSE
  OBVIOUS
<1>1. PICK n \in Nat \ P : \A k \in Nat \ P : n <= k
  BY LeastNat
<1>2. n - 1 \in Nat /\ n - 1 + 1 = n /\ ~(n <= n - 1)
  BY <1>1
<1> QED BY <1>1, <1>2

\* A function can be defined by its value at 0 and its steps.
Steps(X) == [Nat -> [X -> X]]

Computes(f, X, first, step) ==
  /\ f \in [Nat -> X]
  /\ f[0] = first
  /\ \A n \in Nat : f[n + 1] = step[n][f[n]]

\* There is a function with a given value at 0 and given steps.
LEMMA Recursion ==
  ASSUME NEW X, NEW first \in X, NEW step \in Steps(X)
  PROVE  \E f : Computes(f, X, first, step)
<1> USE DEF Steps
<1> DEFINE G(k) == {g \in [0 .. k -> X] :
                      g[0] = first /\ \A i \in 0 .. k - 1 : g[i + 1] = step[i][g[i]]}
           P == {k \in Nat : G(k) # {}}
<1>1. \A k \in Nat : k \in P
  <2>1. 0 \in P
    <3>1. [i \in 0 .. 0 |-> first] \in G(0)
      OBVIOUS
    <3> QED BY <3>1
  <2>2. ASSUME NEW k \in Nat, k \in P PROVE k + 1 \in P
    <3>1. PICK g : g \in G(k)
      BY <2>2
    <3> DEFINE h == [i \in 0 .. k + 1 |-> IF i <= k THEN g[i] ELSE step[k][g[k]]]
    <3>2. h \in [0 .. k + 1 -> X] /\ h[0] = first
      BY <3>1
    <3>3. ASSUME NEW i \in 0 .. (k + 1) - 1 PROVE h[i + 1] = step[i][h[i]]
      <4>1. i \in 0 .. k /\ h[i] = g[i] /\ i + 1 \in 0 .. k + 1
        OBVIOUS
      <4>2. CASE i = k
        BY <4>1, <4>2
      <4>3. CASE i # k
        <5>1. i \in 0 .. k - 1 /\ i + 1 <= k
          BY <4>1, <4>3
        <5>2. h[i + 1] = g[i + 1]
          BY <4>1, <5>1
        <5> QED BY <3>1, <4>1, <5>1, <5>2
      <4> QED BY <4>2, <4>3
    <3>4. h \in G(k + 1)
      <4> HIDE DEF h
      <4> QED BY <3>2, <3>3, Zenon
    <3>5. G(k + 1) # {}
      <4> HIDE DEF G, h
      <4> QED BY <3>4
    <3>6. k + 1 \in Nat
      OBVIOUS
    <3> HIDE DEF G, h
    <3> QED BY <3>5, <3>6
  <2> HIDE DEF P
  <2> QED BY <2>1, <2>2, NatByInduction
<1>2. \A k \in Nat : \E g : g \in G(k)
  BY <1>1
<1> HIDE DEF P
\* They agree where both are defined.
<1>3. ASSUME NEW k \in Nat, NEW m \in Nat, NEW g \in G(k), NEW h \in G(m)
      PROVE  \A i \in Nat : i <= k /\ i <= m => g[i] = h[i]
  <2> DEFINE Q == {i \in Nat : i <= k /\ i <= m => g[i] = h[i]}
  <2>1. 0 \in Q
    OBVIOUS
  <2>2. ASSUME NEW i \in Nat, i \in Q PROVE i + 1 \in Q
    <3> SUFFICES ASSUME i + 1 <= k, i + 1 <= m PROVE g[i + 1] = h[i + 1]
      OBVIOUS
    <3>1. i \in 0 .. k - 1 /\ i \in 0 .. m - 1 /\ g[i] = h[i]
      BY <2>2
    <3> QED BY <3>1
  <2> HIDE DEF Q
  <2>3. \A i \in Nat : i \in Q
    BY <2>1, <2>2, NatByInduction
  <2> QED BY <2>3 DEF Q
<1> DEFINE c == [k \in Nat |-> CHOOSE g : g \in G(k)]
           f == [k \in Nat |-> c[k][k]]
<1>4. \A k \in Nat : c[k] \in G(k)
  <2> HIDE DEF G
  <2> QED BY <1>2
<1> HIDE DEF c
<1>5. f \in [Nat -> X] /\ f[0] = first
  BY <1>4
<1>6. ASSUME NEW n \in Nat PROVE f[n + 1] = step[n][f[n]]
  <2>1. n + 1 \in Nat /\ n <= n + 1 /\ n <= n /\ n \in 0 .. (n + 1) - 1
    OBVIOUS
  <2>2. c[n + 1][n] = c[n][n]
    <3> HIDE DEF G
    <3> QED BY <1>3, <1>4, <2>1
  <2>3. c[n + 1][n + 1] = step[n][c[n + 1][n]]
    BY <1>4, <2>1
  <2> QED BY <2>1, <2>2, <2>3
<1> HIDE DEF f
<1> QED BY <1>5, <1>6 DEF Computes

\* A function up to a bound that starts and steps the same way is the same.
Follows(s, bound, X, first, step) ==
  /\ s[0] = first
  /\ \A n \in Nat : n < bound /\ s[n] \in X => s[n + 1] = step[n][s[n]]

\* Whatever follows the same steps up to a bound agrees with it up to there.
LEMMA SameRecursion ==
  ASSUME NEW X, NEW first \in X, NEW step \in Steps(X), NEW f, Computes(f, X, first, step),
         NEW bound \in Nat, NEW s, Follows(s, bound, X, first, step)
  PROVE  \A n \in Nat : n <= bound => s[n] = f[n]
<1> USE DEF Follows
<1> DEFINE P == {n \in Nat : n <= bound => s[n] = f[n]}
<1>1. 0 \in P
  BY DEF Computes
<1>2. ASSUME NEW n \in Nat, n \in P PROVE n + 1 \in P
  <2> SUFFICES ASSUME n + 1 <= bound PROVE s[n + 1] = f[n + 1]
    OBVIOUS
  <2>1. n < bound /\ s[n] = f[n]
    BY <1>2
  <2>2. f[n] \in X /\ f[n + 1] = step[n][f[n]]
    BY DEF Computes
  <2> QED BY <2>1, <2>2
<1>3. \A n \in Nat : n \in P
  <2> HIDE DEF P
  <2> QED BY <1>1, <1>2, NatByInduction
<1> QED BY <1>3

-----------------------------------------------------------------------------
(* The search of the task map *)

\* No task is in WeChat's map twice.
MapOK ==
  /\ \E n \in Nat : map \in [1 .. n -> Keys]
  /\ \A i, k \in DOMAIN map : map[i] = map[k] => i = k

Mapped == Memory!Range(map)

\* The keys of the map are finitely many numbers.
LEMMA MappedFacts ==
  ASSUME MapOK
  PROVE  Mapped \subseteq Keys /\ Keys \subseteq Nat /\ IsFiniteSet(Mapped)
<1>1. Mapped \subseteq Keys
  BY DEF MapOK, Mapped, Memory!Range
<1> QED BY <1>1, KeysAssumption, FS_Subset

\* Place finds the one place of a key of the map.
LEMMA PlaceFacts ==
  ASSUME MapOK, NEW k \in Mapped
  PROVE  Memory!Place(k) \in DOMAIN map /\ map[Memory!Place(k)] = k /\ Memory!Place(k) \in Nat
<1>1. \E i \in DOMAIN map : map[i] = k
  BY DEF Mapped, Memory!Range
<1>2. Memory!Place(k) \in DOMAIN map /\ map[Memory!Place(k)] = k
  BY <1>1, Zenon DEF Memory!Place
<1>3. \A i \in DOMAIN map : i \in Nat
  BY DEF MapOK
<1> QED BY <1>2, <1>3

\* The root came before every other key of its tree.
LEMMA RootFacts ==
  ASSUME MapOK, NEW S \in SUBSET Mapped, S # {}
  PROVE  /\ Memory!Root(S) \in S
         /\ \A j \in S : Memory!Place(Memory!Root(S)) <= Memory!Place(j)
         /\ \A j \in S : Memory!Place(j) = Memory!Place(Memory!Root(S)) => j = Memory!Root(S)
<1> DEFINE Places == {i \in DOMAIN map : map[i] \in S}
<1>1. \A j \in S : Memory!Place(j) \in Places /\ map[Memory!Place(j)] = j
  BY PlaceFacts
<1>2. Places \in SUBSET Nat /\ Places # {}
  BY <1>1 DEF MapOK
<1>3. PICK i \in Places : \A n \in Places : i <= n
  <2> HIDE DEF Places
  <2> QED BY <1>2, LeastNat
<1>4. map[i] \in S /\ Memory!Place(map[i]) = i
  <2>1. map[i] \in S
    OBVIOUS
  <2> QED BY <1>1, <2>1 DEF MapOK
<1>5. \E k \in S : \A j \in S : Memory!Place(k) <= Memory!Place(j)
  <2> HIDE DEF Places
  <2> QED BY <1>1, <1>3, <1>4
<1>6. Memory!Root(S) \in S /\ \A j \in S : Memory!Place(Memory!Root(S)) <= Memory!Place(j)
  BY <1>5, Zenon DEF Memory!Root
<1> QED BY <1>1, <1>6

\* The keys of S that are roots on the way to key.
Path(S, key) ==
  {k \in S : \A j \in S : (j \in key .. k \/ j \in k .. key) => Memory!Place(k) <= Memory!Place(j)}

\* The search for the key at the root visits nothing else.
LEMMA PathEnds ==
  ASSUME MapOK, NEW S \in SUBSET Mapped, S # {}, Memory!Root(S) \in Keys
  PROVE  Path(S, Memory!Root(S)) = {Memory!Root(S)}
<1> DEFINE r == Memory!Root(S)
<1>1. r \in S /\ r \in Nat /\ S \subseteq Nat
  BY RootFacts, MappedFacts
<1>2. r \in Path(S, r)
  BY RootFacts DEF Path
<1>3. ASSUME NEW k \in Path(S, r) PROVE k = r
  <2>1. k \in S /\ k \in Nat
    BY <1>1 DEF Path
  <2>2. r \in r .. k \/ r \in k .. r
    <3> HIDE DEF r
    <3> QED BY <1>1, <2>1
  <2>3. Memory!Place(k) <= Memory!Place(r)
    BY <1>1, <2>2 DEF Path
  <2>4. Memory!Place(r) <= Memory!Place(k)
    BY <2>1, RootFacts
  <2>5. Memory!Place(k) \in Nat /\ Memory!Place(r) \in Nat
    BY <1>1, <2>1, PlaceFacts
  <2>6. Memory!Place(k) = Memory!Place(r)
    <3> HIDE DEF r
    <3> QED BY <2>3, <2>4, <2>5
  <2> QED BY <2>1, <2>6, RootFacts
<1> QED BY <1>2, <1>3

\* A turn that does not find key leaves one root of its path behind.
LEMMA PathShrinks ==
  ASSUME MapOK, NEW S \in SUBSET Mapped, NEW key \in S, Memory!Root(S) # key
  PROVE  /\ key \in Memory!Descend(S, key)
         /\ Path(S, key) = Path(Memory!Descend(S, key), key) \cup {Memory!Root(S)}
         /\ Memory!Root(S) \notin Memory!Descend(S, key)
<1> DEFINE r == Memory!Root(S)
           T == Memory!Descend(S, key)
<1>1. r \in S /\ S \subseteq Nat /\ r \in Nat /\ key \in Nat
  BY RootFacts, MappedFacts
<1>2. T = {k \in S : IF r < key THEN k > r ELSE k < r}
  BY DEF Memory!Descend
<1> HIDE DEF T
<1>3. \A j \in S : Memory!Place(r) <= Memory!Place(j)
  BY RootFacts
<1>4. \A j \in S : Memory!Place(j) = Memory!Place(r) => j = r
  BY RootFacts
<1>5. \A j \in S : Memory!Place(j) \in Nat
  BY PlaceFacts
<1>6. r # key
  OBVIOUS
<1> HIDE DEF r
<1>7. key \in T /\ r \notin T /\ T \subseteq S
  BY <1>1, <1>2, <1>6
<1>8. r \in Path(S, key)
  BY <1>1, <1>3 DEF Path
<1>9. ASSUME NEW k \in Path(S, key), k # r PROVE k \in Path(T, key)
  <2>1. k \in S /\ k \in Nat
    BY <1>1 DEF Path
  <2>2. ~(r \in key .. k \/ r \in k .. key)
    BY <1>1, <1>3, <1>4, <1>5, <1>9, <2>1 DEF Path
  <2>3. k \in T
    BY <1>1, <1>2, <1>6, <1>9, <2>1, <2>2
  <2> QED BY <1>7, <2>3 DEF Path
<1>10. ASSUME NEW k \in Path(T, key) PROVE k \in Path(S, key)
  <2>1. k \in T /\ k \in S /\ k \in Nat
    BY <1>1, <1>7 DEF Path
  <2>2. ASSUME NEW j \in S, j \in key .. k \/ j \in k .. key PROVE j \in T
    BY <1>1, <1>2, <1>7, <2>1, <2>2
  <2> QED BY <2>1, <2>2 DEF Path
<1>11. Path(S, key) = Path(T, key) \cup {r}
  BY <1>8, <1>9, <1>10
<1> QED BY <1>7, <1>11 DEF r, T

\* The subtrees that findTextRequestInTaskMap goes through.
LEMMA SearchTurns ==
  ASSUME MapOK, NEW key
  PROVE  \E at \in [Nat -> SUBSET Mapped] :
           /\ at[0] = Mapped
           /\ \A n \in Nat : at[n + 1] = Memory!Descend(at[n], key)
           /\ Memory!FindTextRequest(key)
                <=> \E n \in 0 .. MaxSteps - 1 : at[n] # {} /\ Memory!Root(at[n]) = key
<1> DEFINE Eq(f) == f = [n \in 0 .. MaxSteps |-> IF n = 0 THEN Memory!Range(map)
                                                 ELSE Memory!Descend(f[n - 1], key)]
           s == CHOOSE f : Eq(f)
<1>1. PICK at \in [Nat -> SUBSET Mapped] :
        /\ at[0] = Mapped
        /\ \A n \in Nat : at[n + 1] = Memory!Descend(at[n], key)
  <2> DEFINE X == SUBSET Mapped
             step == [n \in Nat |-> [S \in X |-> Memory!Descend(S, key)]]
  <2>1. step \in Steps(X) /\ Mapped \in X
    BY DEF Memory!Descend, Steps
  <2>2. PICK at : Computes(at, X, Mapped, step)
    <3> HIDE DEF step, X
    <3> QED BY <2>1, Recursion
  <2> QED BY <2>2 DEF Computes
<1>2. MaxSteps \in Nat
  BY MemoryAssumption
<1>3. Eq([n \in 0 .. MaxSteps |-> at[n]])
  <2> DEFINE g == [n \in 0 .. MaxSteps |-> at[n]]
  <2>1. ASSUME NEW n \in 0 .. MaxSteps
        PROVE  at[n] = IF n = 0 THEN Memory!Range(map) ELSE Memory!Descend(g[n - 1], key)
    <3>1. CASE n = 0
      BY <1>1, <3>1 DEF Mapped
    <3>2. CASE n # 0
      <4>1. n - 1 \in 0 .. MaxSteps /\ n - 1 \in Nat /\ n - 1 + 1 = n
        BY <1>2, <3>2
      <4>2. g[n - 1] = at[n - 1]
        BY <4>1
      <4>3. at[n] = Memory!Descend(at[n - 1], key)
        BY <1>1, <4>1
      <4> HIDE DEF g
      <4> QED BY <3>2, <4>2, <4>3
    <3> QED BY <3>1, <3>2
  <2> QED BY <2>1
<1>4. Eq(s)
  <2> HIDE DEF Eq
  <2> QED BY <1>3, Zenon
<1> DEFINE t == [n \in 0 .. MaxSteps |-> IF n = 0 THEN Memory!Range(map)
                                         ELSE Memory!Descend(s[n - 1], key)]
<1> HIDE DEF s
<1>4a. s = t
  BY <1>4, Zenon
<1>5. s[0] = Mapped /\ \A n \in Nat : n + 1 <= MaxSteps => s[n + 1] = Memory!Descend(s[n], key)
  <2>1. t[0] = Mapped
    BY <1>2 DEF Mapped
  <2>2. ASSUME NEW n \in Nat, n + 1 <= MaxSteps PROVE s[n + 1] = Memory!Descend(s[n], key)
    <3>1. n + 1 \in 0 .. MaxSteps /\ n + 1 # 0 /\ n + 1 - 1 = n
      BY <1>2, <2>2
    <3>2. t[n + 1] = Memory!Descend(s[n + 1 - 1], key)
      BY <3>1
    <3> HIDE DEF t
    <3> QED BY <1>4a, <3>1, <3>2
  <2> HIDE DEF t
  <2> QED BY <1>4a, <2>1, <2>2
<1>6. \A n \in Nat : n <= MaxSteps => s[n] = at[n]
  <2> DEFINE P == {n \in Nat : n <= MaxSteps => s[n] = at[n]}
  <2>1. 0 \in P
    BY <1>1, <1>5
  <2>2. ASSUME NEW n \in Nat, n \in P PROVE n + 1 \in P
    BY <1>1, <1>2, <1>5, <2>2
  <2> HIDE DEF P
  <2>3. \A n \in Nat : n \in P
    BY <2>1, <2>2, NatByInduction
  <2> QED BY <2>3 DEF P
<1>7. Memory!FindTextRequest(key)
        <=> \E n \in 0 .. MaxSteps - 1 : s[n] # {} /\ Memory!Root(s[n]) = key
  BY Zenon DEF s, Memory!FindTextRequest
<1>8. \A n \in 0 .. MaxSteps - 1 : s[n] = at[n]
  BY <1>2, <1>6
<1> QED BY <1>1, <1>7, <1>8

\* A search visits finitely many nodes, and at least one if the key is there.
LEMMA PathFinite ==
  ASSUME MapOK, NEW S \in SUBSET Mapped, NEW key
  PROVE  /\ IsFiniteSet(Path(S, key)) /\ Cardinality(Path(S, key)) \in Nat
         /\ key \in S => Cardinality(Path(S, key)) # 0
<1>1. Path(S, key) \in SUBSET Mapped
  BY DEF Path
<1>2. IsFiniteSet(Path(S, key))
  BY <1>1, MappedFacts, FS_Subset
<1>3. ASSUME key \in S PROVE Path(S, key) # {}
  <2>1. PICK k : k = Memory!Root(S)
    OBVIOUS
  <2>2. k \in S /\ \A j \in S : Memory!Place(k) <= Memory!Place(j)
    BY <1>3, <2>1, RootFacts
  <2> QED BY <2>2 DEF Path
<1> QED BY <1>2, <1>3, FS_CardinalityType, FS_EmptySet

\* NativeMemory counts as the theorems on finite sets do.
LEMMA SameCount == \A S : Memory!Cardinality(S) = Cardinality(S)
BY DEF Memory!Cardinality, Cardinality

\* Depth counts the nodes on the path.
LEMMA DepthOfPath == ASSUME NEW key PROVE Memory!Depth(key) = Cardinality(Path(Mapped, key))
<1> DEFINE D == {k \in Memory!Range(map) :
                   \A j \in Memory!Range(map) :
                     (j \in key .. k \/ j \in k .. key) => Memory!Place(k) <= Memory!Place(j)}
<1>1. Memory!Depth(key) = Memory!Cardinality(D)
  BY DEF Memory!Depth
<1>2. D = Path(Mapped, key)
  BY DEF Path, Mapped
<1> QED BY <1>1, <1>2, SameCount, Zenon

\* The search finds a key of the map, and it takes as many turns as the key is
\* deep in the tree.
LEMMA SearchFinds ==
  ASSUME MapOK, NEW key \in Keys
  PROVE  Memory!FindTextRequest(key) <=> key \in Mapped /\ Memory!Depth(key) <= MaxSteps
<1>1. PICK at \in [Nat -> SUBSET Mapped] :
        /\ at[0] = Mapped
        /\ \A n \in Nat : at[n + 1] = Memory!Descend(at[n], key)
        /\ Memory!FindTextRequest(key)
             <=> \E n \in 0 .. MaxSteps - 1 : at[n] # {} /\ Memory!Root(at[n]) = key
  BY SearchTurns
<1>2. \A n \in Nat : at[n] \in SUBSET Mapped
  OBVIOUS
<1>3. MaxSteps \in Nat
  BY MemoryAssumption
<1>4. CASE key \notin Mapped
  <2>1. ASSUME NEW n \in 0 .. MaxSteps - 1, at[n] # {} PROVE Memory!Root(at[n]) # key
    <3>1. at[n] \in SUBSET Mapped
      BY <1>2
    <3>2. Memory!Root(at[n]) \in at[n]
      BY <2>1, <3>1, RootFacts
    <3> QED BY <1>4, <3>1, <3>2
  <2> QED BY <1>1, <1>4, <2>1
<1>5. CASE key \in Mapped
  <2> DEFINE size(n) == Cardinality(Path(at[n], key))
             d == Cardinality(Path(Mapped, key))
             Ahead(n) == key \in at[n] /\ size(n) + n = d
             Met(n) == \E m \in 0 .. n - 1 : key \in at[m] /\ Memory!Root(at[m]) = key /\ d = m + 1
             P == {n \in Nat : Ahead(n) \/ Met(n)}
  <2>1. \A n \in Nat : size(n) \in Nat /\ (key \in at[n] => size(n) # 0)
    BY <1>2, PathFinite
  <2>2. ASSUME NEW n \in Nat, key \in at[n], Memory!Root(at[n]) = key PROVE size(n) = 1
    BY <1>2, <2>2, PathEnds, FS_Singleton
  <2>3. ASSUME NEW n \in Nat, key \in at[n], Memory!Root(at[n]) # key
        PROVE  key \in at[n + 1] /\ size(n) = size(n + 1) + 1
    <3>1. at[n] \in SUBSET Mapped /\ at[n + 1] \in SUBSET Mapped
      BY <1>2
    <3>2. /\ key \in at[n + 1]
          /\ Path(at[n], key) = Path(at[n + 1], key) \cup {Memory!Root(at[n])}
          /\ Memory!Root(at[n]) \notin at[n + 1]
      BY <1>1, <2>3, <3>1, PathShrinks
    <3>3. Memory!Root(at[n]) \notin Path(at[n + 1], key)
      BY <3>2 DEF Path
    <3>4. IsFiniteSet(Path(at[n + 1], key))
      BY <3>1, PathFinite
    <3> QED BY <3>2, <3>3, <3>4, FS_AddElement
  <2>4. d \in Nat /\ size(0) = d
    BY <1>1, <2>1
  <2>5. 0 \in P
    <3> HIDE DEF size, d
    <3> QED BY <1>1, <1>5, <2>1, <2>4
  <2>6. ASSUME NEW n \in Nat, n \in P PROVE n + 1 \in P
    <3> HIDE DEF size, d
    <3>1. CASE Met(n)
      <4>1. \A m \in 0 .. n - 1 : m \in 0 .. (n + 1) - 1
        OBVIOUS
      <4>2. Met(n + 1)
        BY <3>1, <4>1, Zenon
      <4> QED BY <4>2
    <3>2. CASE Ahead(n) /\ Memory!Root(at[n]) = key
      <4>1. d = n + 1 /\ n \in 0 .. (n + 1) - 1
        BY <2>1, <2>2, <3>2
      <4>2. Met(n + 1)
        BY <3>2, <4>1, Zenon
      <4> QED BY <4>2
    <3>3. CASE Ahead(n) /\ Memory!Root(at[n]) # key
      <4>1. Ahead(n + 1)
        BY <2>1, <2>3, <2>4, <3>3
      <4> QED BY <4>1
    <3> QED BY <2>6, <3>1, <3>2, <3>3
  <2>7. \A n \in Nat : n \in P
    <3> HIDE DEF P
    <3> QED BY <2>5, <2>6, NatByInduction
  <2>8. \A n \in Nat : Ahead(n) \/ Met(n)
    BY <2>7
  <2> HIDE DEF P, size, d
  <2>9. ASSUME NEW n \in 0 .. MaxSteps - 1, at[n] # {}, Memory!Root(at[n]) = key PROVE d <= MaxSteps
    <3>1. n \in Nat /\ key \in at[n]
      <4>1. at[n] \in SUBSET Mapped
        BY <1>2
      <4> QED BY <2>9, <4>1, RootFacts
    <3>2. CASE Ahead(n)
      BY <1>3, <2>2, <2>4, <2>9, <3>1, <3>2
    <3>3. CASE Met(n)
      BY <1>3, <2>4, <3>1, <3>3
    <3> QED BY <2>8, <3>1, <3>2, <3>3
  <2>10. ASSUME d <= MaxSteps
         PROVE  \E n \in 0 .. MaxSteps - 1 : at[n] # {} /\ Memory!Root(at[n]) = key
    <3>1. ~Ahead(MaxSteps)
      BY <1>3, <2>1, <2>4, <2>10
    <3>2. Met(MaxSteps)
      BY <1>3, <2>8, <3>1
    <3> QED BY <3>2
  <2>11. d = Memory!Depth(key)
    BY DepthOfPath DEF d
  <2> QED BY <1>1, <1>5, <2>9, <2>10, <2>11
<1> QED BY <1>4, <1>5

FindInv == MapOK /\ Memory!FindsExactlyMapped

\* FindInv holds initially, ...
LEMMA FindInit == ASSUME Memory!Init PROVE FindInv
<1>1. PICK n \in 0 .. Memory!Cardinality(Keys) : map \in [1 .. n -> Keys]
  BY Zenon DEF Memory!Init
<1>2. /\ \A i, k \in DOMAIN map : map[i] = map[k] => i = k
      /\ found = {}
  BY DEF Memory!Init, Memory!IsInjective
<1>3. n \in Nat
  BY KeysAssumption, FS_CardinalityType, SameCount
<1> QED BY <1>1, <1>2, <1>3 DEF FindInv, MapOK, Memory!FindsExactlyMapped

\* ... is kept by steps of the other parts ...
LEMMA FindStutter == ASSUME FindInv, UNCHANGED <<map, found>> PROVE FindInv'
<1>1. \A k : Memory!Depth(k)' = Memory!Depth(k)
  BY DEF Memory!Depth, Memory!Place, Memory!Range
<1>2. Memory!Range(map)' = Memory!Range(map)
  BY DEF Memory!Range
<1> QED BY <1>1, <1>2, Zenon DEF FindInv, MapOK, Memory!FindsExactlyMapped

\* ... and by those of this one.
LEMMA FindStep == ASSUME FindInv, Memory!Next PROVE FindInv'
<1>1. CASE Memory!Relocate
  BY <1>1, FindStutter DEF Memory!Relocate
<1>2. ASSUME NEW key \in Keys, Memory!Find(key) PROVE FindInv'
  <2>1. UNCHANGED map /\ found' = {<<key, Memory!FindTextRequest(key)>>}
    BY <1>2 DEF Memory!Find
  <2>2. MapOK /\ MapOK'
    BY <2>1 DEF FindInv, MapOK
  <2>3. Memory!FindTextRequest(key) = (key \in Mapped /\ Memory!Depth(key) <= MaxSteps)
    <3>1. Memory!FindTextRequest(key) \in BOOLEAN
      BY DEF Memory!FindTextRequest
    <3> QED BY <2>2, <3>1, SearchFinds
  <2>4. Mapped' = Mapped /\ Memory!Range(map)' = Mapped /\ Memory!Depth(key)' = Memory!Depth(key)
    BY <2>1 DEF Mapped, Memory!Depth, Memory!Place, Memory!Range
  <2>5. Memory!FindsExactlyMapped'
    <3> SUFFICES ASSUME NEW f \in found'
                 PROVE  f[2] = (f[1] \in Memory!Range(map)' /\ Memory!Depth(f[1])' <= MaxSteps)
      BY DEF Memory!FindsExactlyMapped
    <3>1. f[1] = key /\ f[2] = Memory!FindTextRequest(key)
      BY <2>1
    <3> QED BY <2>3, <2>4, <3>1
  <2> QED BY <2>2, <2>5 DEF FindInv
<1> QED BY <1>1, <1>2 DEF Memory!Next

-----------------------------------------------------------------------------
(* Numbers in base Radix *)

\* The numbers the assumptions are about.
LEMMA WireNumbers ==
  /\ Radix \in Nat /\ 2 <= Radix /\ VarintBytes \in Nat /\ MaxFields \in Nat /\ 6 <= MaxFields
  /\ Word \in Nat /\ 314 < Word /\ Bytes \subseteq Nat /\ MaxBytes \in Nat
BY WireAssumption

\* The value of the digits of b between i and j, the lowest first.
LEMMA NumberFacts ==
  ASSUME NEW b \in Seq(Nat), NEW j \in Nat, j <= Len(b)
  PROVE  /\ \A i \in 0 .. j : Wire!Number(b, i, j) \in Nat
         /\ Wire!Number(b, j, j) = 0
         /\ \A i \in 0 .. j - 1 :
              Wire!Number(b, i, j) = (b[i + 1] % Radix) + Radix * Wire!Number(b, i + 1, j)
<1> DEFINE Eq(f) == f = [k \in 0 .. j |-> IF k = 0 THEN 0
                                         ELSE (b[j + 1 - k] % Radix) + Radix * f[k - 1]]
           s == CHOOSE f : Eq(f)
           X == Nat
           zero == 0
           step == [n \in Nat |-> [x \in X |-> IF n < j THEN (b[j - n] % Radix) + Radix * x ELSE 0]]
<1>1. /\ \A n \in Nat : n < j => b[j - n] \in Nat /\ b[j - n] % Radix \in Nat
      /\ \A n \in Nat : Radix * n \in Nat
  BY WireNumbers
<1>2. step \in Steps(X) /\ zero \in X
  <2>1. ASSUME NEW n \in Nat, NEW x \in Nat
        PROVE  (IF n < j THEN (b[j - n] % Radix) + Radix * x ELSE 0) \in Nat
    <3>1. \A c, d \in Nat : c + d \in Nat
      OBVIOUS
    <3> QED BY <1>1, <3>1
  <2> QED BY <2>1 DEF Steps
<1>3. \A n, x \in Nat : n < j => step[n][x] = (b[j - n] % Radix) + Radix * x
  OBVIOUS
<1> HIDE DEF step
<1>4. PICK f : Computes(f, X, zero, step)
  <2> HIDE DEF X, zero
  <2> QED BY <1>2, Recursion
<1>5. \A n \in Nat : n < j => f[n + 1] = (b[j - n] % Radix) + Radix * f[n]
  BY <1>3, <1>4 DEF Computes
<1>6. Eq([k \in 0 .. j |-> f[k]])
  <2> DEFINE g == [k \in 0 .. j |-> f[k]]
  <2>1. ASSUME NEW k \in 0 .. j
        PROVE  f[k] = IF k = 0 THEN 0 ELSE (b[j + 1 - k] % Radix) + Radix * g[k - 1]
    <3>1. CASE k = 0
      BY <1>4, <3>1 DEF Computes
    <3>2. CASE k # 0
      <4>1. /\ k - 1 \in Nat /\ k - 1 < j /\ k - 1 \in 0 .. j /\ k - 1 + 1 = k
            /\ j + 1 - k = j - (k - 1)
        BY <3>2
      <4>2. g[k - 1] = f[k - 1]
        BY <4>1
      <4> HIDE DEF g
      <4> QED BY <1>5, <3>2, <4>1, <4>2
    <3> QED BY <3>1, <3>2
  <2> QED BY <2>1
<1>7. Eq(s)
  <2> HIDE DEF Eq
  <2> QED BY <1>6, Zenon
<1> DEFINE t == [k \in 0 .. j |-> IF k = 0 THEN 0 ELSE (b[j + 1 - k] % Radix) + Radix * s[k - 1]]
<1> HIDE DEF s
<1>8. s = t
  BY <1>7, Zenon
<1>9. s[0] = 0 /\ \A n \in Nat : n < j => s[n + 1] = (b[j - n] % Radix) + Radix * s[n]
  <2>1. t[0] = 0
    OBVIOUS
  <2>2. ASSUME NEW n \in Nat, n < j PROVE t[n + 1] = (b[j - n] % Radix) + Radix * s[n]
    <3>1. n + 1 \in 0 .. j /\ n + 1 # 0 /\ n + 1 - 1 = n /\ j + 1 - (n + 1) = j - n
      BY <2>2
    <3>2. t[n + 1] = (b[j + 1 - (n + 1)] % Radix) + Radix * s[n + 1 - 1]
      BY <3>1
    <3> HIDE DEF t
    <3> QED BY <3>1, <3>2
  <2> HIDE DEF t
  <2> QED BY <1>8, <2>1, <2>2
<1>10. \A n \in Nat : n <= j => s[n] = f[n]
  <2>1. Follows(s, j, X, zero, step)
    BY <1>3, <1>9 DEF Follows
  <2> HIDE DEF X, zero
  <2> QED BY <1>2, <1>4, <2>1, SameRecursion
<1>11. \A i : Wire!Number(b, i, j) = s[j - i]
  BY Zenon DEF s, Wire!Number
<1>12. \A n \in Nat : f[n] \in Nat
  BY <1>4 DEF Computes
<1>13. ASSUME NEW i \in 0 .. j PROVE Wire!Number(b, i, j) \in Nat
  <2>1. j - i \in Nat /\ j - i <= j
    OBVIOUS
  <2> QED BY <1>10, <1>11, <1>12, <2>1
<1>14. Wire!Number(b, j, j) = 0
  <2>1. j - j = 0
    OBVIOUS
  <2> QED BY <1>9, <1>11, <2>1
<1>15. ASSUME NEW i \in 0 .. j - 1
       PROVE  Wire!Number(b, i, j) = (b[i + 1] % Radix) + Radix * Wire!Number(b, i + 1, j)
  <2>1. /\ j - (i + 1) \in Nat /\ j - (i + 1) < j /\ j - (i + 1) + 1 = j - i
        /\ j - (j - (i + 1)) = i + 1
    OBVIOUS
  <2>2. s[j - i] = (b[i + 1] % Radix) + Radix * s[j - (i + 1)]
    BY <1>9, <2>1
  <2> QED BY <1>11, <2>2
<1> QED BY <1>13, <1>14, <1>15

\* readProtoVarint reads the varint at i, if there is one; it is the only one.
LEMMA ReadFacts ==
  ASSUME NEW b \in Seq(Nat), NEW i \in Nat
  PROVE  /\ \/ Wire!ReadProtoVarint(b, i) = Wire!None
            \/ \E j \in Nat :
                 /\ Wire!IsVarint(b, i, j)
                 /\ Wire!ReadProtoVarint(b, i) = [value |-> Wire!Number(b, i, j), next |-> j]
         /\ \A j \in Nat : Wire!IsVarint(b, i, j) =>
              Wire!ReadProtoVarint(b, i) = [value |-> Wire!Number(b, i, j), next |-> j]
<1> DEFINE ends == {n \in i .. i + VarintBytes - 1 : n < Len(b) /\ b[n + 1] < Radix}
           last == CHOOSE n \in ends : \A k \in ends : n <= k
<1>1. Len(b) \in Nat /\ \A k \in 1 .. Len(b) : b[k] \in Nat
  OBVIOUS
<1>2. ends \in SUBSET Nat
  BY WireNumbers
<1>3. Wire!ReadProtoVarint(b, i) = IF ends = {} THEN Wire!None
                                   ELSE [value |-> Wire!Number(b, i, last + 1), next |-> last + 1]
  BY DEF Wire!ReadProtoVarint
<1>4. ASSUME ends # {} PROVE last \in ends /\ \A k \in ends : last <= k
  <2> HIDE DEF ends
  <2>1. \E n \in ends : \A k \in ends : n <= k
    BY <1>2, <1>4, LeastNat
  <2> QED BY <2>1, Zenon
<1> HIDE DEF last
<1>5. ASSUME ends # {} PROVE Wire!IsVarint(b, i, last + 1) /\ last + 1 \in Nat
  <2>1. /\ last \in Nat /\ i <= last /\ last <= i + VarintBytes - 1 /\ last < Len(b)
        /\ b[last + 1] < Radix
    BY <1>4, <1>5, WireNumbers
  <2>2. i < last + 1 /\ last + 1 <= Len(b) /\ (last + 1) - i <= VarintBytes
    BY <1>1, <2>1, WireNumbers
  <2>3. ASSUME NEW k \in i + 1 .. last + 1 PROVE (b[k] < Radix) = (k = last + 1)
    <3>1. CASE k = last + 1
      BY <2>1, <3>1
    <3>2. CASE k # last + 1
      <4>1. /\ k - 1 \in i .. i + VarintBytes - 1 /\ k - 1 < Len(b) /\ k - 1 + 1 = k
            /\ ~(last <= k - 1)
        BY <1>1, <2>1, <2>3, <3>2, WireNumbers
      <4>2. ~(b[k] < Radix)
        BY <1>4, <1>5, <4>1
      <4> QED BY <3>2, <4>2
    <3> QED BY <3>1, <3>2
  <2> QED BY <2>1, <2>2, <2>3 DEF Wire!IsVarint
<1>6. ASSUME NEW j \in Nat, Wire!IsVarint(b, i, j) PROVE ends # {} /\ last + 1 = j
  <2>1. /\ i < j /\ j <= Len(b) /\ j - i <= VarintBytes
        /\ \A k \in i + 1 .. j : (b[k] < Radix) = (k = j)
    BY <1>6 DEF Wire!IsVarint
  <2>2. j - 1 \in i .. i + VarintBytes - 1 /\ j - 1 < Len(b) /\ j - 1 + 1 = j /\ j \in i + 1 .. j
    BY <1>1, <2>1, WireNumbers
  <2>3. j - 1 \in ends
    BY <2>1, <2>2
  <2>4. last \in ends /\ last <= j - 1
    BY <1>4, <2>3
  <2>5. last \in Nat /\ i <= last /\ b[last + 1] < Radix
    BY <2>4
  <2>6. last + 1 \in i + 1 .. j
    BY <2>4, <2>5
  <2> QED BY <2>1, <2>3, <2>5, <2>6
<1> HIDE DEF ends
<1> QED BY <1>3, <1>5, <1>6

-----------------------------------------------------------------------------
(* A turn of summarizeProtoShape, at place i of b *)

KeyAt(b, i)   == Wire!ReadProtoVarint(b, i)
FieldAt(b, i) == KeyAt(b, i).value \div 8
WireAt(b, i)  == KeyAt(b, i).value % 8
ArgAt(b, i)   == Wire!ReadProtoVarint(b, KeyAt(b, i).next)
EndAt(b, i)   == CASE WireAt(b, i) = 0 -> ArgAt(b, i).next
                   [] WireAt(b, i) = 1 -> KeyAt(b, i).next + 8
                   [] WireAt(b, i) = 2 -> ArgAt(b, i).next + ArgAt(b, i).value
                   [] WireAt(b, i) = 5 -> KeyAt(b, i).next + 4
                   [] OTHER -> 0
BadAt(b, i) ==
  \/ KeyAt(b, i) = Wire!None \/ KeyAt(b, i).value = 0 \/ WireAt(b, i) \notin {0, 1, 2, 5}
  \/ WireAt(b, i) \in {0, 2} /\ (ArgAt(b, i) = Wire!None \/ EndAt(b, i) > Len(b))
EntryAt(b, i) ==
  Wire!Listed(FieldAt(b, i), WireAt(b, i), IF WireAt(b, i) = 2 THEN ArgAt(b, i).value ELSE 0,
              IF WireAt(b, i) = 2 /\ FieldAt(b, i) = 2
              THEN SubSeq(b, ArgAt(b, i).next + 1, EndAt(b, i)) ELSE <<>>)

Entries == [field : Nat, wire : 0 .. 9, size : Nat, nested : Seq(Nat)]

\* What the summary lists is of its type.
LEMMA ListedType ==
  ASSUME NEW f \in Nat, NEW w \in 0 .. 9, NEW n \in Nat, NEW b \in Seq(Nat)
  PROVE  Wire!Listed(f, w, n, b) \in Entries
BY DEF Wire!Listed, Entries

\* The empty string is a string.
LEMMA EmptyIsSeq == <<>> \in Seq(Nat) /\ Len(<<>>) = 0
OBVIOUS

\* A turn of the loop, in terms of what is read at its offset.
LEMMA TurnIs ==
  ASSUME NEW b, NEW at
  PROVE  Wire!Turn(b, at) =
           IF at.failed \/ at.offset >= Len(b) THEN at
           ELSE IF BadAt(b, at.offset)
           THEN [at EXCEPT !.fields = Append(@, Wire!Error), !.failed = TRUE]
           ELSE [offset |-> EndAt(b, at.offset),
                 fields |-> at.fields \o (IF EndAt(b, at.offset) > Len(b)
                                          THEN <<EntryAt(b, at.offset), Wire!Error>>
                                          ELSE <<EntryAt(b, at.offset)>>),
                 failed |-> EndAt(b, at.offset) > Len(b)]
BY Zenon DEF Wire!Turn, KeyAt, FieldAt, WireAt, ArgAt, EndAt, BadAt, EntryAt

\* A key at i: its wire type and its field.
LEMMA KeyFacts ==
  ASSUME NEW b \in Seq(Nat), NEW i \in Nat, KeyAt(b, i) # Wire!None
  PROVE  \E k \in Nat : /\ Wire!IsVarint(b, i, k) /\ i < k /\ k <= Len(b)
                        /\ KeyAt(b, i).next = k
                        /\ KeyAt(b, i).value = Wire!Number(b, i, k)
                        /\ KeyAt(b, i).value \in Nat
                        /\ WireAt(b, i) \in 0 .. 7 /\ FieldAt(b, i) \in Nat
<1>1. PICK k \in Nat : /\ Wire!IsVarint(b, i, k)
                       /\ KeyAt(b, i) = [value |-> Wire!Number(b, i, k), next |-> k]
  BY ReadFacts DEF KeyAt
<1>2. i < k /\ k <= Len(b)
  BY <1>1 DEF Wire!IsVarint
<1>3. Wire!Number(b, i, k) \in Nat
  <2>1. i \in 0 .. k
    BY <1>2
  <2> QED BY <1>2, <2>1, NumberFacts
<1>4. KeyAt(b, i).next = k /\ KeyAt(b, i).value = Wire!Number(b, i, k)
  BY <1>1
<1>5. \A v \in Nat : v % 8 \in 0 .. 7 /\ v \div 8 \in Nat
  OBVIOUS
<1> QED BY <1>1, <1>2, <1>3, <1>4, <1>5 DEF WireAt, FieldAt

\* The varint behind a key: where it ends, and what it is.
LEMMA ArgFacts ==
  ASSUME NEW b \in Seq(Nat), NEW i \in Nat, KeyAt(b, i).next \in Nat, ArgAt(b, i) # Wire!None
  PROVE  \E l \in Nat : /\ Wire!IsVarint(b, KeyAt(b, i).next, l)
                        /\ KeyAt(b, i).next < l /\ l <= Len(b)
                        /\ ArgAt(b, i).next = l
                        /\ ArgAt(b, i).value = Wire!Number(b, KeyAt(b, i).next, l)
                        /\ ArgAt(b, i).value \in Nat
<1> PICK k \in Nat : k = KeyAt(b, i).next
  OBVIOUS
<1>1. PICK l \in Nat : /\ Wire!IsVarint(b, k, l)
                       /\ ArgAt(b, i) = [value |-> Wire!Number(b, k, l), next |-> l]
  BY ReadFacts DEF ArgAt
<1>2. k < l /\ l <= Len(b)
  BY <1>1 DEF Wire!IsVarint
<1>3. Wire!Number(b, k, l) \in Nat
  <2>1. k \in 0 .. l
    BY <1>2
  <2> QED BY <1>2, <2>1, NumberFacts
<1> QED BY <1>1, <1>2, <1>3

\* A field that ends within b is what the turn takes it for.
LEMMA FieldIsTaken ==
  ASSUME NEW b \in Seq(Nat), NEW i \in Nat, NEW j \in Nat, j <= Len(b), Wire!IsField(b, i, j)
  PROVE  ~BadAt(b, i) /\ EndAt(b, i) = j
<1>1. PICK k \in i + 1 .. j :
        /\ Wire!IsVarint(b, i, k) /\ Wire!Number(b, i, k) # 0
        /\ \/ Wire!Number(b, i, k) % 8 = 0 /\ Wire!IsVarint(b, k, j)
           \/ Wire!Number(b, i, k) % 8 = 1 /\ j = k + 8
           \/ Wire!Number(b, i, k) % 8 = 5 /\ j = k + 4
           \/ /\ Wire!Number(b, i, k) % 8 = 2
              /\ \E l \in k + 1 .. j : Wire!IsVarint(b, k, l) /\ j = l + Wire!Number(b, k, l)
  BY DEF Wire!IsField
<1>2. k \in Nat /\ i < k
  OBVIOUS
<1>3. KeyAt(b, i) = [value |-> Wire!Number(b, i, k), next |-> k]
  BY <1>1, <1>2, ReadFacts DEF KeyAt
<1>4. KeyAt(b, i).value = Wire!Number(b, i, k) /\ KeyAt(b, i).next = k /\ KeyAt(b, i) # Wire!None
  <2>1. KeyAt(b, i).value = Wire!Number(b, i, k) /\ KeyAt(b, i).next = k
    BY <1>3
  <2> QED BY <1>2, <2>1 DEF Wire!None
<1>5. \A l \in Nat : Wire!IsVarint(b, k, l) =>
        /\ ArgAt(b, i).next = l /\ ArgAt(b, i).value = Wire!Number(b, k, l)
        /\ ArgAt(b, i) # Wire!None
  <2> SUFFICES ASSUME NEW l \in Nat, Wire!IsVarint(b, k, l)
               PROVE  /\ ArgAt(b, i).next = l /\ ArgAt(b, i).value = Wire!Number(b, k, l)
                      /\ ArgAt(b, i) # Wire!None
    OBVIOUS
  <2>1. ArgAt(b, i) = [value |-> Wire!Number(b, k, l), next |-> l]
    BY <1>2, <1>4, ReadFacts DEF ArgAt
  <2>2. k < l
    BY DEF Wire!IsVarint
  <2>3. ArgAt(b, i).next = l /\ ArgAt(b, i).value = Wire!Number(b, k, l)
    BY <2>1
  <2> QED BY <1>2, <2>2, <2>3 DEF Wire!None
<1>6. WireAt(b, i) = Wire!Number(b, i, k) % 8
  BY <1>4 DEF WireAt
<1>7. CASE WireAt(b, i) = 0
  <2>1. Wire!IsVarint(b, k, j)
    BY <1>1, <1>6, <1>7
  <2>2. ArgAt(b, i).next = j /\ ArgAt(b, i) # Wire!None
    BY <1>5, <2>1
  <2> QED BY <1>1, <1>4, <1>7, <2>2 DEF BadAt, EndAt
<1>8. CASE WireAt(b, i) = 1
  BY <1>1, <1>4, <1>6, <1>8 DEF BadAt, EndAt
<1>9. CASE WireAt(b, i) = 5
  BY <1>1, <1>4, <1>6, <1>9 DEF BadAt, EndAt
<1>10. CASE WireAt(b, i) = 2
  <2>1. PICK l \in k + 1 .. j : Wire!IsVarint(b, k, l) /\ j = l + Wire!Number(b, k, l)
    BY <1>1, <1>6, <1>10
  <2>2. l \in Nat
    BY <1>2
  <2>3. /\ ArgAt(b, i).next = l /\ ArgAt(b, i).value = Wire!Number(b, k, l)
        /\ ArgAt(b, i) # Wire!None
    BY <1>5, <2>1, <2>2
  <2> QED BY <1>1, <1>4, <1>10, <2>1, <2>3 DEF BadAt, EndAt
<1> QED BY <1>1, <1>6, <1>7, <1>8, <1>9, <1>10

\* What the turn takes for a field is one, if it ends within b.
LEMMA TakenIsField ==
  ASSUME NEW b \in Seq(Nat), NEW i \in Nat, ~BadAt(b, i)
  PROVE  /\ EndAt(b, i) \in Nat /\ i < EndAt(b, i)
         /\ EndAt(b, i) <= Len(b) => Wire!IsField(b, i, EndAt(b, i))
         /\ EntryAt(b, i) \in Entries /\ EntryAt(b, i).wire \in 0 .. 7
<1>1. /\ KeyAt(b, i) # Wire!None /\ KeyAt(b, i).value # 0 /\ WireAt(b, i) \in {0, 1, 2, 5}
      /\ WireAt(b, i) \in {0, 2} => ArgAt(b, i) # Wire!None /\ ~(EndAt(b, i) > Len(b))
  BY DEF BadAt
<1>2. PICK k \in Nat : /\ Wire!IsVarint(b, i, k) /\ i < k /\ k <= Len(b)
                       /\ KeyAt(b, i).next = k
                       /\ KeyAt(b, i).value = Wire!Number(b, i, k)
                       /\ KeyAt(b, i).value \in Nat
                       /\ WireAt(b, i) \in 0 .. 7 /\ FieldAt(b, i) \in Nat
  BY <1>1, KeyFacts
<1>3. WireAt(b, i) = Wire!Number(b, i, k) % 8 /\ Wire!Number(b, i, k) # 0
  BY <1>1, <1>2 DEF WireAt
<1>4. Len(b) \in Nat
  OBVIOUS
<1>5. ASSUME WireAt(b, i) \in {1, 5}
      PROVE  /\ EndAt(b, i) \in Nat /\ i < EndAt(b, i)
             /\ EndAt(b, i) <= Len(b) => Wire!IsField(b, i, EndAt(b, i))
             /\ EntryAt(b, i) = Wire!Listed(FieldAt(b, i), WireAt(b, i), 0, <<>>)
  <2>1. EndAt(b, i) = IF WireAt(b, i) = 1 THEN k + 8 ELSE k + 4
    BY <1>2, <1>5 DEF EndAt
  <2>2. EndAt(b, i) \in Nat /\ k \in i + 1 .. EndAt(b, i) /\ i < EndAt(b, i)
    BY <1>2, <2>1
  <2>3. Wire!IsField(b, i, EndAt(b, i))
    BY <1>2, <1>3, <1>5, <2>1, <2>2 DEF Wire!IsField
  <2>4. EntryAt(b, i) = Wire!Listed(FieldAt(b, i), WireAt(b, i), 0, <<>>)
    BY <1>5 DEF EntryAt
  <2> QED BY <2>2, <2>3, <2>4
<1>6. ASSUME WireAt(b, i) \in {0, 2}
      PROVE  \E l \in Nat :
               /\ Wire!IsVarint(b, k, l) /\ k < l /\ l <= Len(b)
               /\ ArgAt(b, i).next = l
               /\ ArgAt(b, i).value = Wire!Number(b, k, l) /\ ArgAt(b, i).value \in Nat
  <2>1. KeyAt(b, i).next \in Nat /\ ArgAt(b, i) # Wire!None
    BY <1>1, <1>2, <1>6
  <2> QED BY <1>2, <2>1, ArgFacts
<1>7. CASE WireAt(b, i) \in {1, 5}
  <2>1. EntryAt(b, i) \in Entries /\ EntryAt(b, i).wire = WireAt(b, i)
    <3> DEFINE w == WireAt(b, i)
    <3>1. w \in 0 .. 9 /\ EntryAt(b, i) = Wire!Listed(FieldAt(b, i), w, 0, <<>>)
      BY <1>2, <1>5, <1>7
    <3> HIDE DEF w
    <3>2. EntryAt(b, i) \in Entries /\ EntryAt(b, i).wire = w
      <4>1. EntryAt(b, i) \in Entries
        BY <1>2, <3>1, ListedType, EmptyIsSeq
      <4>2. EntryAt(b, i).wire = w
        BY <3>1 DEF Wire!Listed
      <4> QED BY <4>1, <4>2
    <3> QED BY <3>2 DEF w
  <2> QED BY <1>2, <1>5, <1>7, <2>1
<1>8. CASE WireAt(b, i) = 0
  <2>1. PICK l \in Nat : Wire!IsVarint(b, k, l) /\ k < l /\ l <= Len(b) /\ ArgAt(b, i).next = l
    BY <1>6, <1>8
  <2>2. EndAt(b, i) = l
    BY <1>8, <2>1 DEF EndAt
  <2>3. k \in i + 1 .. l /\ i < l
    BY <1>2, <2>1
  <2>4. Wire!IsField(b, i, l)
    BY <1>2, <1>3, <1>8, <2>1, <2>3 DEF Wire!IsField
  <2>5. EntryAt(b, i) = Wire!Listed(FieldAt(b, i), WireAt(b, i), 0, <<>>)
    BY <1>8 DEF EntryAt
  <2>6. EntryAt(b, i) \in Entries /\ EntryAt(b, i).wire = WireAt(b, i)
    <3> DEFINE w == WireAt(b, i)
    <3>1. w \in 0 .. 9 /\ EntryAt(b, i) = Wire!Listed(FieldAt(b, i), w, 0, <<>>)
      BY <1>2, <2>5
    <3> HIDE DEF w
    <3>2. EntryAt(b, i) \in Entries /\ EntryAt(b, i).wire = w
      <4>1. EntryAt(b, i) \in Entries
        BY <1>2, <3>1, ListedType, EmptyIsSeq
      <4>2. EntryAt(b, i).wire = w
        BY <3>1 DEF Wire!Listed
      <4> QED BY <4>1, <4>2
    <3> QED BY <3>2 DEF w
  <2> QED BY <1>2, <2>1, <2>2, <2>3, <2>4, <2>6
<1>9. CASE WireAt(b, i) = 2
  <2>1. PICK l \in Nat :
          /\ Wire!IsVarint(b, k, l) /\ k < l /\ l <= Len(b)
          /\ ArgAt(b, i).next = l
          /\ ArgAt(b, i).value = Wire!Number(b, k, l) /\ ArgAt(b, i).value \in Nat
    BY <1>6, <1>9
  <2>2. EndAt(b, i) = l + Wire!Number(b, k, l) /\ Wire!Number(b, k, l) \in Nat
    BY <1>9, <2>1 DEF EndAt
  <2>3. EndAt(b, i) \in Nat /\ EndAt(b, i) <= Len(b)
    BY <1>1, <1>4, <1>9, <2>2
  <2>4. k \in i + 1 .. EndAt(b, i) /\ l \in k + 1 .. EndAt(b, i) /\ i < EndAt(b, i)
    BY <1>2, <2>1, <2>2
  <2>5. Wire!IsField(b, i, EndAt(b, i))
    BY <1>2, <1>3, <1>9, <2>1, <2>2, <2>4 DEF Wire!IsField
  <2>6. SubSeq(b, l + 1, EndAt(b, i)) \in Seq(Nat)
    <3>1. l + 1 \in 1 .. Len(b) + 1 /\ EndAt(b, i) \in (l + 1) - 1 .. Len(b)
      BY <2>1, <2>3, <2>4
    <3> QED BY <3>1, SubSeqProperties
  <2>7. EntryAt(b, i) = Wire!Listed(FieldAt(b, i), WireAt(b, i), ArgAt(b, i).value,
                                    IF FieldAt(b, i) = 2 THEN SubSeq(b, l + 1, EndAt(b, i)) ELSE <<>>)
    BY <1>9, <2>1 DEF EntryAt
  <2>8. EntryAt(b, i) \in Entries /\ EntryAt(b, i).wire = WireAt(b, i)
    <3> DEFINE bytes == IF FieldAt(b, i) = 2 THEN SubSeq(b, l + 1, EndAt(b, i)) ELSE <<>>
           w     == WireAt(b, i)
    <3>1. bytes \in Seq(Nat) /\ ArgAt(b, i).value \in Nat
      BY <2>1, <2>6, EmptyIsSeq
    <3>2. w \in 0 .. 9 /\ EntryAt(b, i) = Wire!Listed(FieldAt(b, i), w, ArgAt(b, i).value, bytes)
      BY <1>2, <2>7
    <3> HIDE DEF bytes, w
    <3>3. EntryAt(b, i) \in Entries /\ EntryAt(b, i).wire = w
      <4>1. EntryAt(b, i) \in Entries
        BY <1>2, <3>1, <3>2, ListedType
      <4>2. EntryAt(b, i).wire = w
        BY <3>2 DEF Wire!Listed
      <4> QED BY <4>1, <4>2
    <3> QED BY <3>3 DEF w
  <2> QED BY <1>2, <2>3, <2>4, <2>5, <2>8
<1> QED BY <1>1, <1>7, <1>8, <1>9

\* Where the loop of summarizeProtoShape can be.
States == [offset : Nat, fields : Seq(Entries), failed : BOOLEAN]

\* The ways a turn can go.
Goes(b, at, new) ==
  \/ (at.failed \/ at.offset >= Len(b)) /\ new = at
  \/ /\ ~at.failed /\ at.offset < Len(b) /\ BadAt(b, at.offset)
     /\ new = [offset |-> at.offset, fields |-> Append(at.fields, Wire!Error), failed |-> TRUE]
  \/ /\ ~at.failed /\ at.offset < Len(b) /\ ~BadAt(b, at.offset) /\ EndAt(b, at.offset) <= Len(b)
     /\ new = [offset |-> EndAt(b, at.offset), failed |-> FALSE,
               fields |-> at.fields \o <<EntryAt(b, at.offset)>>]
  \/ /\ ~at.failed /\ at.offset < Len(b) /\ ~BadAt(b, at.offset) /\ ~(EndAt(b, at.offset) <= Len(b))
     /\ new = [offset |-> EndAt(b, at.offset), failed |-> TRUE,
               fields |-> at.fields \o <<EntryAt(b, at.offset), Wire!Error>>]

\* The error entry is of the type of an entry.
LEMMA ErrorType == Wire!Error \in Entries /\ Wire!Error.wire = 9 /\ Wire!Error.nested = <<>>
<1>1. Wire!Error \in Entries
  <2> DEFINE w == 9
             zero == 0
  <2>1. w \in 0 .. 9 /\ zero \in Nat
    OBVIOUS
  <2> HIDE DEF w, zero
  <2>2. Wire!Listed(zero, w, zero, <<>>) \in Entries
    BY <2>1, ListedType, EmptyIsSeq
  <2> QED BY <2>2 DEF Wire!Error, w, zero
<1> QED BY <1>1 DEF Wire!Error, Wire!Listed

\* A turn goes on behind the field it read, stops, or fails.
LEMMA TurnGoes ==
  ASSUME NEW b \in Seq(Nat), NEW at \in States
  PROVE  Goes(b, at, Wire!Turn(b, at)) /\ Wire!Turn(b, at) \in States
<1> DEFINE i == at.offset
           new == Wire!Turn(b, at)
<1>1. /\ i \in Nat /\ at.fields \in Seq(Entries) /\ at.failed \in BOOLEAN /\ Len(b) \in Nat
      /\ at = [offset |-> at.offset, fields |-> at.fields, failed |-> at.failed]
  BY DEF States
<1>2. CASE at.failed \/ i >= Len(b)
  <2>1. new = at
    BY <1>2, TurnIs
  <2> QED BY <1>2, <2>1 DEF Goes
<1>3. CASE ~(at.failed \/ i >= Len(b)) /\ BadAt(b, i)
  <2>1. new = [at EXCEPT !.fields = Append(@, Wire!Error), !.failed = TRUE]
    BY <1>3, TurnIs
  <2>2. new = [offset |-> i, fields |-> Append(at.fields, Wire!Error), failed |-> TRUE]
    BY <1>1, <2>1
  <2>3. Append(at.fields, Wire!Error) \in Seq(Entries)
    BY <1>1, ErrorType
  <2>4. new \in States
    BY <1>1, <2>2, <2>3 DEF States
  <2>5. ~at.failed /\ at.offset < Len(b)
    BY <1>1, <1>3
  <2> HIDE DEF new
  <2> QED BY <1>3, <2>2, <2>4, <2>5, Zenon DEF Goes, new
<1>4. CASE ~(at.failed \/ i >= Len(b)) /\ ~BadAt(b, i)
  <2>1. new = [offset |-> EndAt(b, i),
               fields |-> at.fields \o (IF EndAt(b, i) > Len(b) THEN <<EntryAt(b, i), Wire!Error>>
                                        ELSE <<EntryAt(b, i)>>),
               failed |-> EndAt(b, i) > Len(b)]
    BY <1>4, TurnIs
  <2>2. EndAt(b, i) \in Nat /\ EntryAt(b, i) \in Entries
    BY <1>1, <1>4, TakenIsField
  <2>3. ~at.failed /\ at.offset < Len(b)
    BY <1>1, <1>4
  <2>4. CASE EndAt(b, i) <= Len(b)
    <3>1. (EndAt(b, i) > Len(b)) = FALSE
      BY <1>1, <2>2, <2>4
    <3>2. new = [offset |-> EndAt(b, i), failed |-> FALSE, fields |-> at.fields \o <<EntryAt(b, i)>>]
      BY <2>1, <3>1
    <3>3. at.fields \o <<EntryAt(b, i)>> \in Seq(Entries)
      BY <1>1, <2>2
    <3>4. new \in States
      BY <2>2, <3>2, <3>3 DEF States
    <3> HIDE DEF new
    <3> QED BY <1>4, <2>3, <2>4, <3>2, <3>4, Zenon DEF Goes, new
  <2>5. CASE ~(EndAt(b, i) <= Len(b))
    <3>1. EndAt(b, i) > Len(b)
      BY <1>1, <2>2, <2>5
    <3>2. new = [offset |-> EndAt(b, i), failed |-> TRUE,
                 fields |-> at.fields \o <<EntryAt(b, i), Wire!Error>>]
      BY <2>1, <3>1
    <3>3. at.fields \o <<EntryAt(b, i), Wire!Error>> \in Seq(Entries)
      BY <1>1, <2>2, ErrorType
    <3>4. new \in States
      BY <2>2, <3>2, <3>3 DEF States
    <3> HIDE DEF new
    <3> QED BY <1>4, <2>3, <2>5, <3>2, <3>4, Zenon DEF Goes, new
  <2> QED BY <2>4, <2>5
<1> QED BY <1>2, <1>3, <1>4

\* The states of the loop, one after the other.
LEMMA WalkTurns ==
  ASSUME NEW b \in Seq(Nat)
  PROVE  \E at : /\ at[0] = Wire!Start
                 /\ \A n \in Nat : n < MaxFields => at[n + 1] = Wire!Turn(b, at[n])
                 /\ Wire!Walk(b) = at[MaxFields].fields
<1> DEFINE Eq(f) == f = [n \in 0 .. MaxFields |-> IF n = 0 THEN Wire!Start ELSE Wire!Turn(b, f[n - 1])]
           s == CHOOSE f : Eq(f)
           X == States
           zero == Wire!Start
           step == [n \in Nat |-> [x \in X |-> Wire!Turn(b, x)]]
<1>1. zero \in X
  <2>1. <<>> \in Seq(Entries)
    OBVIOUS
  <2> QED BY <2>1 DEF Wire!Start, States
<1>2. step \in Steps(X)
  <2>1. \A x \in X : Wire!Turn(b, x) \in X
    BY TurnGoes
  <2> HIDE DEF X
  <2> QED BY <2>1 DEF Steps
<1>3. \A n \in Nat : \A x \in X : step[n][x] = Wire!Turn(b, x)
  OBVIOUS
<1> HIDE DEF step
<1>4. PICK f : Computes(f, X, zero, step)
  <2> HIDE DEF X, zero
  <2> QED BY <1>1, <1>2, Recursion
<1>5. f[0] = zero /\ \A n \in Nat : f[n + 1] = Wire!Turn(b, f[n])
  <2> HIDE DEF X, zero
  <2> QED BY <1>3, <1>4 DEF Computes
<1>6. Eq([n \in 0 .. MaxFields |-> f[n]])
  <2> DEFINE g == [n \in 0 .. MaxFields |-> f[n]]
  <2>1. ASSUME NEW n \in 0 .. MaxFields
        PROVE  f[n] = IF n = 0 THEN Wire!Start ELSE Wire!Turn(b, g[n - 1])
    <3>1. CASE n = 0
      BY <1>5, <3>1
    <3>2. CASE n # 0
      <4>1. n - 1 \in Nat /\ n - 1 \in 0 .. MaxFields /\ n - 1 + 1 = n
        BY <3>2, WireNumbers
      <4>2. g[n - 1] = f[n - 1]
        BY <4>1
      <4> HIDE DEF g
      <4> QED BY <1>5, <3>2, <4>1, <4>2
    <3> QED BY <3>1, <3>2
  <2> QED BY <2>1
<1>7. Eq(s)
  <2> HIDE DEF Eq
  <2> QED BY <1>6, Zenon
<1> DEFINE t == [n \in 0 .. MaxFields |-> IF n = 0 THEN Wire!Start ELSE Wire!Turn(b, s[n - 1])]
<1> HIDE DEF s
<1>8. s = t
  BY <1>7, Zenon
<1>9. s[0] = Wire!Start /\ \A n \in Nat : n < MaxFields => s[n + 1] = Wire!Turn(b, s[n])
  <2>1. t[0] = Wire!Start
    BY WireNumbers
  <2>2. ASSUME NEW n \in Nat, n < MaxFields PROVE t[n + 1] = Wire!Turn(b, s[n])
    <3>1. n + 1 \in 0 .. MaxFields /\ n + 1 # 0 /\ n + 1 - 1 = n
      BY <2>2, WireNumbers
    <3>2. t[n + 1] = Wire!Turn(b, s[n + 1 - 1])
      BY <3>1
    <3> HIDE DEF t
    <3> QED BY <3>1, <3>2
  <2> HIDE DEF t
  <2> QED BY <1>8, <2>1, <2>2
<1>10. Wire!Walk(b) = s[MaxFields].fields
  BY Zenon DEF s, Wire!Walk
<1> QED BY <1>9, <1>10

\* The cuts of b into fields, by their number.
After(b, S) == UNION {{j \in i + 1 .. Len(b) : Wire!IsField(b, i, j)} : i \in S}

\* IsMessage's cuts, taken one after the other without their bound.
LEMMA MessageCuts ==
  ASSUME NEW b \in Seq(Nat)
  PROVE  \E cuts : /\ cuts[0] = {0}
                   /\ \A n \in Nat : n < Len(b) => cuts[n + 1] = After(b, cuts[n])
                   /\ Wire!IsMessage(b) = \E n \in 0 .. Len(b) : Len(b) \in cuts[n]
<1> DEFINE Eq(f) == f = [n \in 0 .. Len(b) |-> IF n = 0 THEN {0}
              ELSE UNION {{j \in i + 1 .. Len(b) : Wire!IsField(b, i, j)} : i \in f[n - 1]}]
           s == CHOOSE f : Eq(f)
           X == SUBSET Nat
           zero == {0}
           step == [n \in Nat |-> [S \in X |-> After(b, S)]]
<1>1. zero \in X
  OBVIOUS
<1>2. step \in Steps(X)
  <2>1. ASSUME NEW S \in SUBSET Nat PROVE After(b, S) \in SUBSET Nat
    BY DEF After
  <2> QED BY <2>1 DEF Steps
<1>3. \A n \in Nat : \A S \in X : step[n][S] = After(b, S)
  OBVIOUS
<1> HIDE DEF step
<1>4. PICK f : Computes(f, X, zero, step)
  <2> HIDE DEF X, zero
  <2> QED BY <1>1, <1>2, Recursion
<1>5. f[0] = zero /\ \A n \in Nat : f[n + 1] = After(b, f[n])
  <2> HIDE DEF X, zero
  <2> QED BY <1>3, <1>4 DEF Computes
<1>6. Eq([n \in 0 .. Len(b) |-> f[n]])
  <2> DEFINE g == [n \in 0 .. Len(b) |-> f[n]]
  <2>1. ASSUME NEW n \in 0 .. Len(b)
        PROVE  f[n] = IF n = 0 THEN {0} ELSE After(b, g[n - 1])
    <3>1. CASE n = 0
      BY <1>5, <3>1
    <3>2. CASE n # 0
      <4>1. n - 1 \in Nat /\ n - 1 \in 0 .. Len(b) /\ n - 1 + 1 = n
        BY <3>2
      <4>2. g[n - 1] = f[n - 1]
        BY <4>1
      <4> HIDE DEF g
      <4> QED BY <1>5, <3>2, <4>1, <4>2
    <3> QED BY <3>1, <3>2
  <2>2. g = [n \in 0 .. Len(b) |-> IF n = 0 THEN {0} ELSE After(b, g[n - 1])]
    BY <2>1
  <2> HIDE DEF g
  <2>3. Eq(g)
    BY <2>2, Zenon DEF After
  <2> QED BY <2>3 DEF g
<1>7. Eq(s)
  <2> HIDE DEF Eq
  <2> QED BY <1>6, Zenon
<1> DEFINE t == [n \in 0 .. Len(b) |-> IF n = 0 THEN {0} ELSE After(b, s[n - 1])]
<1> HIDE DEF s
<1>8. s = t
  BY <1>7, Zenon DEF After
<1>9. s[0] = {0} /\ \A n \in Nat : n < Len(b) => s[n + 1] = After(b, s[n])
  <2>1. t[0] = {0}
    OBVIOUS
  <2>2. ASSUME NEW n \in Nat, n < Len(b) PROVE t[n + 1] = After(b, s[n])
    <3>1. n + 1 \in 0 .. Len(b) /\ n + 1 # 0 /\ n + 1 - 1 = n
      BY <2>2
    <3>2. t[n + 1] = After(b, s[n + 1 - 1])
      BY <3>1
    <3> HIDE DEF t
    <3> QED BY <3>1, <3>2
  <2> HIDE DEF t
  <2> QED BY <1>8, <2>1, <2>2
<1>10. Wire!IsMessage(b) = \E n \in 0 .. Len(b) : Len(b) \in s[n]
  BY Zenon DEF s, Wire!IsMessage
<1> QED BY <1>9, <1>10

\* One field at most begins at i and ends within b.
LEMMA AfterOne ==
  ASSUME NEW b \in Seq(Nat), NEW i \in Nat
  PROVE  /\ ~BadAt(b, i) /\ EndAt(b, i) <= Len(b) => After(b, {i}) = {EndAt(b, i)}
         /\ BadAt(b, i) \/ ~(EndAt(b, i) <= Len(b)) => After(b, {i}) = {}
<1>1. \A j : j \in After(b, {i}) <=> j \in i + 1 .. Len(b) /\ Wire!IsField(b, i, j)
  BY DEF After
<1>2. Len(b) \in Nat
  OBVIOUS
<1>3. \A j : j \in After(b, {i}) => ~BadAt(b, i) /\ EndAt(b, i) = j /\ j <= Len(b)
  <2> SUFFICES ASSUME NEW j \in i + 1 .. Len(b), Wire!IsField(b, i, j)
               PROVE  ~BadAt(b, i) /\ EndAt(b, i) = j /\ j <= Len(b)
    BY <1>1
  <2>1. j \in Nat /\ j <= Len(b)
    BY <1>2
  <2> QED BY <2>1, FieldIsTaken
<1>4. ASSUME ~BadAt(b, i), EndAt(b, i) <= Len(b) PROVE EndAt(b, i) \in After(b, {i})
  <2>1. EndAt(b, i) \in Nat /\ i < EndAt(b, i) /\ Wire!IsField(b, i, EndAt(b, i))
    BY <1>4, TakenIsField
  <2>2. EndAt(b, i) \in i + 1 .. Len(b)
    BY <1>2, <1>4, <2>1
  <2> QED BY <1>1, <2>1, <2>2
<1>5. ~BadAt(b, i) /\ EndAt(b, i) <= Len(b) => After(b, {i}) = {EndAt(b, i)}
  BY <1>3, <1>4
<1>6. BadAt(b, i) \/ ~(EndAt(b, i) <= Len(b)) => After(b, {i}) = {}
  BY <1>3
<1> QED BY <1>5, <1>6

\* The loop and the cuts, up to the field that is listed last.
Agrees(b, at, cuts, n) ==
  LET k == Len(at.fields)
  IN  /\ ~at.failed =>
           /\ at.offset <= Len(b) /\ k <= at.offset /\ cuts[k] = {at.offset}
           /\ \A m \in Nat : m < k => Len(b) \notin cuts[m]
           /\ \A i \in 1 .. k : at.fields[i].wire \in 0 .. 7
           /\ at.offset < Len(b) => k = n
      /\ at.failed => k > 0 /\ at.fields[k] = Wire!Error /\ ~Wire!IsMessage(b)

Cuts(b, cuts) ==
  /\ cuts[0] = {0}
  /\ \A n \in Nat : n < Len(b) => cuts[n + 1] = After(b, cuts[n])
  /\ Wire!IsMessage(b) = \E n \in 0 .. Len(b) : Len(b) \in cuts[n]

\* Once a cut ends nowhere, there are no further ones.
LEMMA NoFurtherCut ==
  ASSUME NEW b \in Seq(Nat), NEW cuts, Cuts(b, cuts), NEW k \in Nat, k < Len(b),
         After(b, cuts[k]) = {}, \A m \in Nat : m <= k => Len(b) \notin cuts[m]
  PROVE  ~Wire!IsMessage(b)
<1> DEFINE P == {m \in Nat : k + 1 + m <= Len(b) => cuts[k + 1 + m] = {}}
<1>1. 0 \in P
  <2>1. k + 1 + 0 = k + 1
    OBVIOUS
  <2> QED BY <2>1 DEF Cuts
<1>2. ASSUME NEW m \in Nat, m \in P PROVE m + 1 \in P
  <2> SUFFICES ASSUME k + 1 + (m + 1) <= Len(b) PROVE cuts[k + 1 + (m + 1)] = {}
    OBVIOUS
  <2>1. /\ k + 1 + m \in Nat /\ k + 1 + m < Len(b) /\ k + 1 + m <= Len(b)
        /\ (k + 1 + m) + 1 = k + 1 + (m + 1)
    OBVIOUS
  <2>2. cuts[k + 1 + m] = {}
    BY <1>2, <2>1
  <2>3. cuts[(k + 1 + m) + 1] = After(b, {})
    BY <2>1, <2>2 DEF Cuts
  <2> QED BY <2>1, <2>3 DEF After
<1>3. \A m \in Nat : m \in P
  <2> HIDE DEF P
  <2> QED BY <1>1, <1>2, NatByInduction
<1>4. ASSUME NEW n \in 0 .. Len(b) PROVE Len(b) \notin cuts[n]
  <2>1. CASE n <= k
    BY <2>1
  <2>2. CASE ~(n <= k)
    <3>1. n - (k + 1) \in Nat /\ k + 1 + (n - (k + 1)) = n /\ n <= Len(b)
      BY <2>2
    <3>2. cuts[n] = {}
      BY <1>3, <3>1
    <3> QED BY <3>2
  <2> QED BY <2>1, <2>2
<1> QED BY <1>4 DEF Cuts

\* The loop agrees with the cuts before its first turn, ...
LEMMA AgreesStart ==
  ASSUME NEW b \in Seq(Nat), NEW cuts, Cuts(b, cuts)
  PROVE  Wire!Start \in States /\ Agrees(b, Wire!Start, cuts, 0)
<1>1. /\ Wire!Start.offset = 0 /\ Wire!Start.fields = <<>> /\ Wire!Start.failed = FALSE
      /\ Len(<<>>) = 0
  BY DEF Wire!Start
<1>2. <<>> \in Seq(Entries)
  OBVIOUS
<1>3. Wire!Start \in States
  BY <1>2 DEF Wire!Start, States
<1>4. cuts[0] = {0} /\ 0 <= Len(b)
  BY DEF Cuts
<1> QED BY <1>1, <1>3, <1>4 DEF Agrees

\* ... and after every turn.
LEMMA AgreesTurn ==
  ASSUME NEW b \in Seq(Nat), NEW cuts, Cuts(b, cuts), NEW n \in Nat,
         NEW at \in States, Agrees(b, at, cuts, n)
  PROVE  Agrees(b, Wire!Turn(b, at), cuts, n + 1)
<1> DEFINE i == at.offset
           k == Len(at.fields)
<1> PICK new : new = Wire!Turn(b, at)
  OBVIOUS
<1>1. i \in Nat /\ at.fields \in Seq(Entries) /\ k \in Nat /\ Len(b) \in Nat /\ at.failed \in BOOLEAN
  BY DEF States
<1>2. Goes(b, at, new)
  BY TurnGoes
<1>3. ASSUME ~at.failed
      PROVE  /\ i <= Len(b) /\ k <= i /\ cuts[k] = {i}
             /\ \A m \in Nat : m < k => Len(b) \notin cuts[m]
             /\ \A m \in 1 .. k : at.fields[m].wire \in 0 .. 7
             /\ i < Len(b) => k = n
  BY <1>3 DEF Agrees
\* No cut ends at the end of b up to here.
<1>4. ASSUME ~at.failed, i < Len(b), After(b, {i}) = {} PROVE ~Wire!IsMessage(b)
  <2>1. k < Len(b) /\ cuts[k] = {i} /\ i # Len(b)
    BY <1>1, <1>3, <1>4
  <2>2. \A m \in Nat : m <= k => Len(b) \notin cuts[m]
    <3>1. \A m \in Nat : m <= k => m < k \/ m = k
      BY <1>1
    <3> QED BY <1>3, <1>4, <2>1, <3>1
  <2> HIDE DEF k
  <2> QED BY <1>1, <1>4, <2>1, <2>2, NoFurtherCut
<1>5. CASE (at.failed \/ i >= Len(b)) /\ new = at
  <2>1. at.failed \/ ~(i < Len(b))
    BY <1>1, <1>5
  <2>2. Agrees(b, at, cuts, n + 1)
    <3> HIDE DEF i
    <3> QED BY <2>1, Zenon DEF Agrees, i
  <2> QED BY <1>5, <2>2
<1>6. CASE /\ ~at.failed /\ i < Len(b) /\ BadAt(b, i)
           /\ new = [offset |-> i, fields |-> Append(at.fields, Wire!Error), failed |-> TRUE]
  <2>1. ~Wire!IsMessage(b)
    BY <1>1, <1>4, <1>6, AfterOne
  <2>2. new.failed = TRUE /\ new.fields = Append(at.fields, Wire!Error)
    BY <1>6
  <2>3. Len(new.fields) = k + 1 /\ new.fields[k + 1] = Wire!Error /\ k + 1 > 0
    BY <1>1, <2>2, ErrorType
  <2> QED BY <2>1, <2>2, <2>3, Zenon DEF Agrees
<1>7. CASE /\ ~at.failed /\ i < Len(b) /\ ~BadAt(b, i) /\ EndAt(b, i) <= Len(b)
           /\ new = [offset |-> EndAt(b, i), failed |-> FALSE,
                     fields |-> at.fields \o <<EntryAt(b, i)>>]
  <2>1. After(b, {i}) = {EndAt(b, i)}
    BY <1>1, <1>7, AfterOne
  <2>2. /\ EndAt(b, i) \in Nat /\ i < EndAt(b, i)
        /\ EntryAt(b, i) \in Entries /\ EntryAt(b, i).wire \in 0 .. 7
    BY <1>1, <1>7, TakenIsField
  <2>3. /\ new.offset = EndAt(b, i) /\ new.failed = FALSE
        /\ new.fields = at.fields \o <<EntryAt(b, i)>>
    BY <1>7
  <2>4. /\ Len(new.fields) = k + 1 /\ new.fields[k + 1] = EntryAt(b, i)
        /\ \A m \in 1 .. k : new.fields[m] = at.fields[m]
    BY <1>1, <2>2, <2>3
  <2>5. /\ i <= Len(b) /\ k <= i /\ cuts[k] = {i} /\ k = n
        /\ \A m \in Nat : m < k => Len(b) \notin cuts[m]
        /\ \A m \in 1 .. k : at.fields[m].wire \in 0 .. 7
    BY <1>3, <1>7
  <2>6. cuts[k + 1] = {EndAt(b, i)}
    <3>1. k < Len(b)
      BY <1>1, <1>7, <2>5
    <3>2. cuts[k + 1] = After(b, cuts[k])
      BY <1>1, <3>1 DEF Cuts
    <3> QED BY <2>1, <2>5, <3>2
  <2>7. ASSUME NEW m \in Nat, m < k + 1 PROVE Len(b) \notin cuts[m]
    <3>1. m < k \/ m = k
      BY <1>1, <2>7
    <3>2. Len(b) \notin {i}
      BY <1>1, <1>7
    <3> QED BY <2>5, <3>1, <3>2
  <2>8. ASSUME NEW m \in 1 .. k + 1 PROVE new.fields[m].wire \in 0 .. 7
    <3>1. m \in 1 .. k \/ m = k + 1
      BY <1>1
    <3> QED BY <2>2, <2>4, <2>5, <3>1
  <2>9. k + 1 <= EndAt(b, i) /\ k + 1 = n + 1
    BY <1>1, <2>2, <2>5
  <2>10. k + 1 = Len(new.fields)
    BY <2>4
  <2> HIDE DEF k
  <2> QED BY <1>7, <2>3, <2>6, <2>7, <2>8, <2>9, <2>10, Zenon DEF Agrees
<1>8. CASE /\ ~at.failed /\ i < Len(b) /\ ~BadAt(b, i) /\ ~(EndAt(b, i) <= Len(b))
           /\ new = [offset |-> EndAt(b, i), failed |-> TRUE,
                     fields |-> at.fields \o <<EntryAt(b, i), Wire!Error>>]
  <2>1. ~Wire!IsMessage(b)
    BY <1>1, <1>4, <1>8, AfterOne
  <2>2. new.failed = TRUE /\ new.fields = at.fields \o <<EntryAt(b, i), Wire!Error>>
    BY <1>8
  <2>3. EntryAt(b, i) \in Entries
    BY <1>1, <1>8, TakenIsField
  <2>4. Len(new.fields) = k + 2 /\ new.fields[k + 2] = Wire!Error /\ k + 2 > 0
    BY <1>1, <2>2, <2>3, ErrorType
  <2> QED BY <2>1, <2>2, <2>4, Zenon DEF Agrees
<1>9. Agrees(b, new, cuts, n + 1)
  BY <1>2, <1>5, <1>6, <1>7, <1>8, Zenon DEF Goes
<1> QED BY <1>9

\* What the loop over any bytes ends with.
LEMMA WalkErrors ==
  ASSUME NEW b \in Seq(Nat)
  PROVE  /\ Wire!Walk(b) \in Seq(Entries)
         /\ \/ /\ Len(Wire!Walk(b)) > 0 /\ Wire!Walk(b)[Len(Wire!Walk(b))] = Wire!Error
               /\ ~Wire!IsMessage(b)
            \/ /\ \A i \in 1 .. Len(Wire!Walk(b)) : Wire!Walk(b)[i].wire \in 0 .. 7
               /\ Len(Wire!Walk(b)) < MaxFields => Wire!IsMessage(b)
<1>1. PICK cuts : Cuts(b, cuts)
  BY MessageCuts DEF Cuts
<1>2. PICK at : /\ at[0] = Wire!Start
                /\ \A n \in Nat : n < MaxFields => at[n + 1] = Wire!Turn(b, at[n])
                /\ Wire!Walk(b) = at[MaxFields].fields
  BY WalkTurns
<1> DEFINE P == {n \in Nat : n <= MaxFields => at[n] \in States /\ Agrees(b, at[n], cuts, n)}
<1>3. 0 \in P
  BY <1>1, <1>2, AgreesStart
<1>4. ASSUME NEW n \in Nat, n \in P PROVE n + 1 \in P
  <2> SUFFICES ASSUME n + 1 <= MaxFields
               PROVE  at[n + 1] \in States /\ Agrees(b, at[n + 1], cuts, n + 1)
    OBVIOUS
  <2>1. n < MaxFields /\ n <= MaxFields
    BY WireNumbers
  <2>2. at[n] \in States /\ Agrees(b, at[n], cuts, n) /\ at[n + 1] = Wire!Turn(b, at[n])
    BY <1>2, <1>4, <2>1
  <2> QED BY <1>1, <2>2, TurnGoes, AgreesTurn
<1>5. \A n \in Nat : n \in P
  <2> HIDE DEF P
  <2> QED BY <1>3, <1>4, NatByInduction
<1> PICK e : e = at[MaxFields]
  OBVIOUS
<1> DEFINE k == Len(e.fields)
<1>6. e \in States /\ Agrees(b, e, cuts, MaxFields)
  BY <1>5, WireNumbers
<1>7. /\ e.offset \in Nat /\ e.fields \in Seq(Entries) /\ k \in Nat /\ Len(b) \in Nat
      /\ Wire!Walk(b) = e.fields
  BY <1>2, <1>6 DEF States
<1>8. CASE e.failed
  <2>1. k > 0 /\ e.fields[k] = Wire!Error /\ ~Wire!IsMessage(b)
    BY <1>6, <1>8 DEF Agrees
  <2> QED BY <1>7, <2>1
<1>9. CASE ~e.failed
  <2>1. /\ e.offset <= Len(b) /\ k <= e.offset /\ cuts[k] = {e.offset}
        /\ \A i \in 1 .. k : e.fields[i].wire \in 0 .. 7
        /\ e.offset < Len(b) => k = MaxFields
    BY <1>6, <1>9 DEF Agrees
  <2>2. ASSUME k < MaxFields PROVE Wire!IsMessage(b)
    <3>1. e.offset = Len(b) /\ k \in 0 .. Len(b)
      BY <1>7, <2>1, <2>2, WireNumbers
    <3>2. Len(b) \in cuts[k]
      BY <2>1, <3>1
    <3> QED BY <1>1, <3>1, <3>2 DEF Cuts
  <2> QED BY <1>7, <2>1, <2>2
<1> QED BY <1>8, <1>9

\* summarizeProtoShape lists what its loop lists, with the nested messages walked.
LEMMA ShapeFacts ==
  ASSUME NEW b \in Seq(Nat)
  PROVE  /\ Len(Wire!Shape(b)) = Len(Wire!Walk(b)) /\ DOMAIN Wire!Shape(b) = 1 .. Len(Wire!Walk(b))
         /\ Len(Wire!Walk(b)) \in Nat
         /\ \A i \in 1 .. Len(Wire!Walk(b)) :
              /\ Wire!Walk(b)[i] \in Entries
              /\ Wire!Shape(b)[i].field = Wire!Walk(b)[i].field
              /\ Wire!Shape(b)[i].wire = Wire!Walk(b)[i].wire
              /\ Wire!Shape(b)[i].size = Wire!Walk(b)[i].size
              /\ Wire!Shape(b)[i].nested = Wire!Walk(Wire!Walk(b)[i].nested)
              /\ Wire!Walk(b)[i] = Wire!Error /\ Wire!Walk(<<>>) = <<>> => Wire!Shape(b)[i] = Wire!Error
<1> PICK top : top = Wire!Walk(b)
  OBVIOUS
<1>1. top \in Seq(Entries) /\ DOMAIN top = 1 .. Len(top) /\ Len(top) \in Nat
  BY WalkErrors
<1>2. Wire!Shape(b) = [i \in DOMAIN top |-> [top[i] EXCEPT !.nested = Wire!Walk(@)]]
  BY Zenon DEF Wire!Shape
<1>3. \A i \in 1 .. Len(top) : Wire!Shape(b)[i] = [top[i] EXCEPT !.nested = Wire!Walk(top[i].nested)]
  BY <1>1, <1>2
<1>4. Len(Wire!Shape(b)) = Len(top) /\ DOMAIN Wire!Shape(b) = 1 .. Len(top)
  BY <1>1, <1>2
<1>5. ASSUME NEW i \in 1 .. Len(top)
      PROVE  /\ top[i] \in Entries
             /\ Wire!Shape(b)[i].field = top[i].field
             /\ Wire!Shape(b)[i].wire = top[i].wire
             /\ Wire!Shape(b)[i].size = top[i].size
             /\ Wire!Shape(b)[i].nested = Wire!Walk(top[i].nested)
             /\ top[i] = Wire!Error /\ Wire!Walk(<<>>) = <<>> => Wire!Shape(b)[i] = Wire!Error
  <2>1. top[i] \in Entries
    BY <1>1
  <2>2. /\ top[i] = [field |-> top[i].field, wire |-> top[i].wire, size |-> top[i].size,
                     nested |-> top[i].nested]
        /\ Wire!Shape(b)[i] = [top[i] EXCEPT !.nested = Wire!Walk(top[i].nested)]
    BY <1>3, <2>1 DEF Entries
  <2>3. Wire!Shape(b)[i] = [field |-> top[i].field, wire |-> top[i].wire, size |-> top[i].size,
                            nested |-> Wire!Walk(top[i].nested)]
    <3> PICK r, w : r = top[i] /\ w = Wire!Walk(top[i].nested)
      OBVIOUS
    <3> QED BY <2>2
  <2>4. ASSUME top[i] = Wire!Error, Wire!Walk(<<>>) = <<>> PROVE Wire!Shape(b)[i] = Wire!Error
    <3>1. top[i].nested = <<>>
      BY <2>4, ErrorType
    <3> QED BY <2>2, <2>3, <2>4, <3>1
  <2> QED BY <2>1, <2>3, <2>4
<1> QED BY <1>1, <1>4, <1>5

\* There is nothing to list of no bytes.
LEMMA WalkEmpty == Wire!Walk(<<>>) = <<>>
<1>1. <<>> \in Seq(Nat) /\ Len(<<>>) = 0
  BY EmptyIsSeq
<1>2. PICK at : /\ at[0] = Wire!Start
                /\ \A n \in Nat : n < MaxFields => at[n + 1] = Wire!Turn(<<>>, at[n])
                /\ Wire!Walk(<<>>) = at[MaxFields].fields
  BY <1>1, WalkTurns
<1> DEFINE P == {n \in Nat : n <= MaxFields => at[n] = Wire!Start}
<1>3. 0 \in P
  BY <1>2
<1>4. ASSUME NEW n \in Nat, n \in P PROVE n + 1 \in P
  <2> SUFFICES ASSUME n + 1 <= MaxFields PROVE at[n + 1] = Wire!Start
    OBVIOUS
  <2>1. n < MaxFields /\ n <= MaxFields
    BY WireNumbers
  <2>2. at[n + 1] = Wire!Turn(<<>>, Wire!Start)
    BY <1>2, <1>4, <2>1
  <2>3. Wire!Start.offset = 0
    BY DEF Wire!Start
  <2>4. Wire!Start.offset >= Len(<<>>)
    BY <1>1, <2>3
  <2> QED BY <2>2, <2>4, TurnIs
<1>5. \A n \in Nat : n \in P
  <2> HIDE DEF P
  <2> QED BY <1>3, <1>4, NatByInduction
<1>6. at[MaxFields] = Wire!Start
  BY <1>5, WireNumbers
<1> QED BY <1>2, <1>6 DEF Wire!Start

\* The summary of any bytes, as ErrorsAreReal states it.
LEMMA ShapeErrors ==
  ASSUME NEW b \in Seq(Nat), Wire!Shape(b) # <<>>
  PROVE  LET bad == Wire!Shape(b)[Len(Wire!Shape(b))] = Wire!Error
         IN  /\ bad => ~Wire!IsMessage(b)
             /\ ~bad /\ Len(Wire!Shape(b)) < MaxFields => Wire!IsMessage(b)
<1> PICK k, top, shape : k = Len(top) /\ top = Wire!Walk(b) /\ shape = Wire!Shape(b)
  OBVIOUS
<1>1. /\ Len(shape) = k /\ DOMAIN shape = 1 .. k /\ k \in Nat
      /\ \A i \in 1 .. k :
           /\ shape[i].wire = top[i].wire
           /\ top[i] = Wire!Error => shape[i] = Wire!Error
  BY ShapeFacts, WalkEmpty
<1>2. k # 0
  <2> SUFFICES ASSUME k = 0 PROVE shape = <<>>
    OBVIOUS
  <2>1. shape = [i \in 1 .. 0 |-> [top[i] EXCEPT !.nested = Wire!Walk(@)]]
    <3>1. DOMAIN top = 1 .. 0
      <4>1. top \in Seq(Entries)
        BY WalkErrors
      <4> QED BY <4>1
    <3>2. shape = [i \in DOMAIN top |-> [top[i] EXCEPT !.nested = Wire!Walk(@)]]
      BY Zenon DEF Wire!Shape
    <3> QED BY <3>1, <3>2, Zenon
  <2> QED BY <2>1
<1>3. k \in 1 .. k
  BY <1>1, <1>2
<1>4. CASE top[k] = Wire!Error /\ ~Wire!IsMessage(b)
  <2>1. shape[k] = Wire!Error
    BY <1>1, <1>3, <1>4
  <2> QED BY <1>1, <1>4, <2>1
<1>5. CASE (\A i \in 1 .. k : top[i].wire \in 0 .. 7) /\ (k < MaxFields => Wire!IsMessage(b))
  <2>1. shape[k].wire \in 0 .. 7
    BY <1>1, <1>3, <1>5
  <2>2. shape[k] # Wire!Error
    BY <2>1, ErrorType
  <2> QED BY <1>1, <1>5, <2>2
<1> QED BY <1>4, <1>5, WalkErrors, Zenon

-----------------------------------------------------------------------------
(* The digits of a number *)

\* The quotient and the remainder by d are unique.
LEMMA DivMod ==
  ASSUME NEW v \in Nat, NEW d \in Nat, d > 0
  PROVE  /\ v \div d \in Nat /\ v % d \in 0 .. d - 1 /\ v = d * (v \div d) + (v % d)
OBVIOUS

\* Products keep order.
LEMMA Times ==
  ASSUME NEW d \in Nat, NEW q \in Nat, NEW p \in Nat
  PROVE  /\ d * q \in Nat
         /\ q <= p => d * q <= d * p
         /\ d > 0 /\ q < p => d * q + d <= d * p
<1>1. d * q \in Nat /\ d * p \in Nat
  OBVIOUS
<1>2. ASSUME q <= p PROVE d * q <= d * p
  <2>1. PICK n \in Nat : p = q + n
    <3>1. p - q \in Nat /\ p = q + (p - q)
      BY <1>2
    <3> QED BY <3>1
  <2>2. d * p = d * q + d * n /\ d * n \in Nat
    BY <2>1
  <2> QED BY <1>1, <2>2
<1>3. ASSUME q < p PROVE d * q + d <= d * p
  <2>1. PICK n \in Nat : p = q + 1 + n
    <3>1. p - (q + 1) \in Nat /\ p = q + 1 + (p - (q + 1))
      BY <1>3
    <3> QED BY <3>1
  <2>2. d * p = d * q + d + d * n /\ d * n \in Nat
    BY <2>1
  <2> QED BY <1>1, <2>2
<1> QED BY <1>1, <1>2, <1>3

\* A quotient and a remainder are what a sum of the two gives back.
LEMMA Remainder ==
  ASSUME NEW d \in Nat, d > 0, NEW q \in Nat, NEW r \in 0 .. d - 1
  PROVE  (d * q + r) \div d = q /\ (d * q + r) % d = r
<1> PICK v \in Nat : v = d * q + r
  <2>1. d * q + r \in Nat
    BY Times
  <2> QED BY <2>1
<1> PICK a, b : a = v \div d /\ b = v % d
  OBVIOUS
<1>1. a \in Nat /\ b \in 0 .. d - 1 /\ v = d * a + b
  BY DivMod
<1>2. d * a \in Nat /\ d * q \in Nat /\ d * a + b = d * q + r
  BY <1>1, Times
<1>3. ~(a < q)
  <2> SUFFICES ASSUME a < q PROVE FALSE
    OBVIOUS
  <2>1. d * a + d <= d * q
    BY <1>1, Times
  <2> QED BY <1>1, <1>2, <2>1
<1>4. ~(q < a)
  <2> SUFFICES ASSUME q < a PROVE FALSE
    OBVIOUS
  <2>1. d * q + d <= d * a
    BY <1>1, Times
  <2> QED BY <1>1, <1>2, <2>1
<1>5. a = q
  BY <1>1, <1>3, <1>4
<1>6. b = r
  BY <1>1, <1>2, <1>5
<1> QED BY <1>5, <1>6

\* The remainder of a number below the divisor, or of that plus the divisor.
LEMMA SmallRemainder ==
  ASSUME NEW d \in Nat, NEW r \in Nat, r < d
  PROVE  r % d = r /\ r \div d = 0 /\ (d + r) % d = r
<1>1. d > 0 /\ r \in 0 .. d - 1 /\ d * 0 + r = r /\ d * 1 + r = d + r
  OBVIOUS
<1>2. (d * 0 + r) \div d = 0 /\ (d * 0 + r) % d = r /\ (d * 1 + r) % d = r
  BY <1>1, Remainder
<1> QED BY <1>1, <1>2

\* The powers of Radix.
LEMMA PowerFacts ==
  /\ Wire!Power[0] = 1
  /\ \A k \in Nat : Wire!Power[k] \in Nat /\ Wire!Power[k + 1] = Radix * Wire!Power[k]
<1> DEFINE Eq(f) == f = [k \in Nat |-> IF k = 0 THEN 1 ELSE Radix * f[k - 1]]
           s == CHOOSE f : Eq(f)
           X == Nat
           one == 1
           step == [n \in Nat |-> [x \in X |-> Radix * x]]
<1>1. step \in Steps(X) /\ one \in X
  BY WireNumbers DEF Steps
<1>2. \A n, x \in Nat : step[n][x] = Radix * x
  OBVIOUS
<1> HIDE DEF step
<1>3. PICK f : Computes(f, X, one, step)
  <2> HIDE DEF X, one
  <2> QED BY <1>1, Recursion
<1>4. f[0] = 1 /\ f \in [Nat -> Nat] /\ \A n \in Nat : f[n + 1] = Radix * f[n]
  BY <1>2, <1>3 DEF Computes
<1>5. Eq(f)
  <2>1. ASSUME NEW k \in Nat PROVE f[k] = IF k = 0 THEN 1 ELSE Radix * f[k - 1]
    <3>1. k = 0 \/ (k - 1 \in Nat /\ k - 1 + 1 = k)
      OBVIOUS
    <3> QED BY <1>4, <3>1
  <2> QED BY <1>4, <2>1
<1>6. Eq(s)
  <2> HIDE DEF Eq
  <2> QED BY <1>5, Zenon
<1> DEFINE t == [k \in Nat |-> IF k = 0 THEN 1 ELSE Radix * s[k - 1]]
<1> HIDE DEF s
<1>7. s = t
  BY <1>6, Zenon
<1>8. s[0] = 1 /\ \A n \in Nat : s[n + 1] = Radix * s[n]
  <2>1. t[0] = 1
    OBVIOUS
  <2>2. ASSUME NEW n \in Nat PROVE t[n + 1] = Radix * s[n]
    <3>1. n + 1 \in Nat /\ n + 1 # 0 /\ n + 1 - 1 = n
      OBVIOUS
    <3>2. t[n + 1] = Radix * s[n + 1 - 1]
      BY <3>1
    <3> HIDE DEF t
    <3> QED BY <3>1, <3>2
  <2> HIDE DEF t
  <2> QED BY <1>7, <2>1, <2>2
<1>9. Wire!Power = s
  BY Zenon DEF s, Wire!Power
<1> DEFINE P == {k \in Nat : s[k] \in Nat}
<1>10. 0 \in P
  BY <1>8
<1>11. \A k \in Nat : k \in P => k + 1 \in P
  BY <1>8, WireNumbers
<1>12. \A k \in Nat : k \in P
  <2> HIDE DEF P
  <2> QED BY <1>10, <1>11, NatByInduction
<1> QED BY <1>8, <1>9, <1>12

\* The digits of v, given those of the quotient.
Digit(v, rest) == IF v < Radix THEN <<v>> ELSE <<Radix + (v % Radix)>> \o rest

\* A number written in front of a sequence of bytes gives one.
LEMMA DigitType ==
  ASSUME NEW v \in Nat, NEW rest \in Seq(Nat)
  PROVE  Digit(v, rest) \in Seq(Nat)
<1>1. v % Radix \in Nat
  BY WireNumbers
<1>2. <<v>> \in Seq(Nat) /\ <<Radix + (v % Radix)>> \in Seq(Nat)
  BY <1>1, WireNumbers
<1> QED BY <1>2 DEF Digit

\* A number without its last digit is smaller.
LEMMA Quotient ==
  ASSUME NEW v \in Nat
  PROVE  /\ v \div Radix \in Nat
         /\ ~(v < Radix) => v \div Radix < v
<1>1. v \div Radix \in Nat /\ v % Radix \in 0 .. Radix - 1 /\ v = Radix * (v \div Radix) + (v % Radix)
  BY WireNumbers, DivMod
<1> PICK q, r : q = v \div Radix /\ r = v % Radix
  OBVIOUS
<1>2. ASSUME ~(v < Radix), ~(q < v) PROVE FALSE
  <2>1. q \in Nat /\ r \in Nat /\ v = Radix * q + r
    BY <1>1, WireNumbers
  <2>2. v <= q /\ q > 0
    BY <1>2, <2>1, WireNumbers
  <2>3. q * 2 <= q * Radix
    BY <2>1, WireNumbers, Times
  <2>4. q * Radix = Radix * q /\ q * 2 = q + q
    BY <2>1, WireNumbers
  <2> QED BY <2>1, <2>2, <2>3, <2>4, WireNumbers
<1> QED BY <1>1, <1>2

\* Digits64 is defined on every number by its recursive equation.
LEMMA DigitsFacts ==
  \A v \in Nat : /\ Wire!Digits64[v] \in Seq(Nat)
                 /\ Wire!Digits64[v] = Digit(v, Wire!Digits64[v \div Radix])
<1> DEFINE Eq(f) == f = [v \in Nat |-> IF v < Radix THEN <<v>>
                                       ELSE <<Radix + (v % Radix)>> \o f[v \div Radix]]
           s == CHOOSE f : Eq(f)
           X == [Nat -> Seq(Nat)]
           none == [v \in Nat |-> <<>>]
           step == [n \in Nat |-> [g \in X |-> [v \in Nat |-> Digit(v, g[v \div Radix])]]]
<1>1. none \in X
  BY EmptyIsSeq
<1>2. step \in Steps(X)
  <2>1. ASSUME NEW g \in X PROVE [v \in Nat |-> Digit(v, g[v \div Radix])] \in X
    BY Quotient, DigitType
  <2> HIDE DEF X
  <2> QED BY <2>1 DEF Steps
<1>3. \A n \in Nat : \A g \in X : step[n][g] = [v \in Nat |-> Digit(v, g[v \div Radix])]
  <2> HIDE DEF X
  <2> QED OBVIOUS
<1> HIDE DEF step
<1>4. PICK d : Computes(d, X, none, step)
  <2> HIDE DEF X, none
  <2> QED BY <1>1, <1>2, Recursion
\* d[n] has the digits of the numbers below n.
<1>5. ASSUME NEW n \in Nat
      PROVE  /\ d[n] \in X
             /\ d[n + 1] = [v \in Nat |-> Digit(v, d[n][v \div Radix])]
  <2> HIDE DEF X, none
  <2> QED BY <1>3, <1>4 DEF Computes
<1> DEFINE P == {n \in Nat : \A v, m \in Nat : v < n /\ n <= m => d[m][v] = d[n][v]}
<1>6. 0 \in P
  OBVIOUS
<1>7. ASSUME NEW n \in Nat, n \in P PROVE n + 1 \in P
  <2> SUFFICES ASSUME NEW v \in Nat, NEW m \in Nat, v < n + 1, n + 1 <= m
               PROVE  d[m][v] = d[n + 1][v]
    OBVIOUS
  <2>1. m - 1 \in Nat /\ m - 1 + 1 = m /\ n <= m - 1
    OBVIOUS
  <2>2. d[m][v] = Digit(v, d[m - 1][v \div Radix]) /\ d[n + 1][v] = Digit(v, d[n][v \div Radix])
    <3>1. d[m] = [w \in Nat |-> Digit(w, d[m - 1][w \div Radix])]
      BY <1>5, <2>1
    <3>2. d[n + 1] = [w \in Nat |-> Digit(w, d[n][w \div Radix])]
      BY <1>5
    <3> QED BY <3>1, <3>2
  <2>3. CASE v < Radix
    BY <2>2, <2>3 DEF Digit
  <2>4. CASE ~(v < Radix)
    <3>1. v \div Radix \in Nat /\ v \div Radix < n
      BY <2>4, Quotient
    <3>2. d[m - 1][v \div Radix] = d[n][v \div Radix]
      BY <1>7, <2>1, <3>1
    <3> QED BY <2>2, <3>2
  <2> QED BY <2>3, <2>4
<1>8. \A n \in Nat : n \in P
  <2> HIDE DEF P
  <2> QED BY <1>6, <1>7, NatByInduction
<1> DEFINE e == [v \in Nat |-> d[v + 1][v]]
<1>9. e \in [Nat -> Seq(Nat)]
  <2>1. ASSUME NEW v \in Nat PROVE d[v + 1][v] \in Seq(Nat)
    <3>1. d[v + 1] \in X
      <4>1. v + 1 \in Nat
        OBVIOUS
      <4> HIDE DEF X
      <4> QED BY <1>5, <4>1
    <3> QED BY <3>1
  <2> QED BY <2>1
<1>10. ASSUME NEW v \in Nat PROVE e[v] = Digit(v, e[v \div Radix])
  <2>1. e[v] = Digit(v, d[v][v \div Radix])
    BY <1>5
  <2>2. CASE v < Radix
    BY <2>1, <2>2 DEF Digit
  <2>3. CASE ~(v < Radix)
    <3>1. /\ v \div Radix \in Nat /\ v \div Radix + 1 \in Nat
          /\ v \div Radix < v \div Radix + 1 /\ v \div Radix + 1 <= v
      BY <2>3, Quotient
    <3>2. e[v \div Radix] = d[v \div Radix + 1][v \div Radix]
      BY <3>1
    <3>3. d[v][v \div Radix] = d[v \div Radix + 1][v \div Radix]
      BY <1>8, <3>1
    <3> QED BY <2>1, <3>2, <3>3
  <2> QED BY <2>2, <2>3
<1> HIDE DEF e
<1>11. Eq(e)
  <2>1. \A v \in Nat :
          e[v] = IF v < Radix THEN <<v>> ELSE <<Radix + (v % Radix)>> \o e[v \div Radix]
    BY <1>10 DEF Digit
  <2> QED BY <1>9, <2>1
<1>12. Eq(s)
  <2> HIDE DEF Eq
  <2> QED BY <1>11, Zenon
<1> DEFINE t == [v \in Nat |->
                    IF v < Radix THEN <<v>> ELSE <<Radix + (v % Radix)>> \o s[v \div Radix]]
<1> HIDE DEF s
<1>13. s = t
  BY <1>12, Zenon
<1>14. ASSUME NEW v \in Nat PROVE s[v] = Digit(v, s[v \div Radix])
  <2>1. t[v] = Digit(v, s[v \div Radix])
    BY DEF Digit
  <2> HIDE DEF t
  <2> QED BY <1>13, <2>1
<1>15. Wire!Digits64 = s
  BY Zenon DEF s, Wire!Digits64
\* They are sequences, for s is e below every bound.
<1> DEFINE Q == {n \in Nat : \A v \in Nat : v < n => s[v] = e[v]}
<1>16. 0 \in Q
  OBVIOUS
<1>17. ASSUME NEW n \in Nat, n \in Q PROVE n + 1 \in Q
  <2> SUFFICES ASSUME NEW v \in Nat, v < n + 1 PROVE s[v] = e[v]
    OBVIOUS
  <2>1. s[v] = Digit(v, s[v \div Radix]) /\ e[v] = Digit(v, e[v \div Radix])
    BY <1>10, <1>14
  <2>2. CASE v < Radix
    BY <2>1, <2>2 DEF Digit
  <2>3. CASE ~(v < Radix)
    <3>1. v \div Radix \in Nat /\ v \div Radix < n
      BY <2>3, Quotient
    <3>2. s[v \div Radix] = e[v \div Radix]
      BY <1>17, <3>1
    <3> QED BY <2>1, <3>2
  <2> QED BY <2>2, <2>3
<1>18. \A n \in Nat : n \in Q
  <2> HIDE DEF Q
  <2> QED BY <1>16, <1>17, NatByInduction
<1>19. \A v \in Nat : s[v] = e[v]
  <2> SUFFICES ASSUME NEW v \in Nat PROVE s[v] = e[v]
    OBVIOUS
  <2>1. v + 1 \in Nat /\ v < v + 1
    OBVIOUS
  <2> QED BY <1>18, <2>1
<1> QED BY <1>9, <1>14, <1>15, <1>19

-----------------------------------------------------------------------------
(* What is written reads back *)

\* The bytes d are those of b from place i.
IsAt(b, i, d) == i + Len(d) <= Len(b) /\ \A n \in 1 .. Len(d) : b[i + n] = d[n]

\* If two sequences are at i one behind the other, each is at its place.
LEMMA IsAtParts ==
  ASSUME NEW b \in Seq(Nat), NEW i \in Nat, NEW c \in Seq(Nat), NEW d \in Seq(Nat),
         IsAt(b, i, c \o d)
  PROVE  IsAt(b, i, c) /\ IsAt(b, i + Len(c), d)
<1>1. /\ Len(c \o d) = Len(c) + Len(d) /\ Len(c) \in Nat /\ Len(d) \in Nat /\ Len(b) \in Nat
      /\ \A n \in 1 .. Len(c) : (c \o d)[n] = c[n]
      /\ \A n \in 1 .. Len(d) : (c \o d)[Len(c) + n] = d[n]
  OBVIOUS
<1>2. /\ i + (Len(c) + Len(d)) <= Len(b)
      /\ \A n \in 1 .. Len(c) + Len(d) : b[i + n] = (c \o d)[n]
  BY <1>1 DEF IsAt
<1>3. ASSUME NEW n \in 1 .. Len(c) PROVE b[i + n] = c[n]
  <2>1. n \in 1 .. Len(c) + Len(d)
    BY <1>1
  <2> QED BY <1>1, <1>2, <2>1
<1>4. ASSUME NEW n \in 1 .. Len(d) PROVE b[(i + Len(c)) + n] = d[n]
  <2>1. Len(c) + n \in 1 .. Len(c) + Len(d) /\ i + (Len(c) + n) = (i + Len(c)) + n
    BY <1>1
  <2> QED BY <1>1, <1>2, <2>1
<1>5. i + Len(c) <= Len(b) /\ (i + Len(c)) + Len(d) <= Len(b)
  BY <1>1, <1>2
<1> QED BY <1>3, <1>4, <1>5 DEF IsAt

\* If a sequence is at i, what follows its first byte is at i + 1.
LEMMA IsAtRest ==
  ASSUME NEW b \in Seq(Nat), NEW i \in Nat, NEW x \in Nat, NEW rest \in Seq(Nat),
         IsAt(b, i, <<x>> \o rest)
  PROVE  IsAt(b, i + 1, rest)
<1>1. <<x>> \in Seq(Nat) /\ Len(<<x>>) = 1
  OBVIOUS
<1>2. IsAt(b, i + Len(<<x>>), rest)
  BY <1>1, IsAtParts
<1> QED BY <1>1, <1>2

\* A number below the k + 1st power has at most k + 1 digits, of which only the
\* last is below Radix, and they read as the number.
DigitsRead(v, k) ==
  LET d == Wire!Digits64[v]
  IN  /\ Len(d) >= 1 /\ Len(d) <= k + 1
      /\ \A n \in 1 .. Len(d) : (d[n] < Radix) = (n = Len(d))
      /\ \A b \in Seq(Nat) : \A i \in Nat : IsAt(b, i, d) => Wire!Number(b, i, i + Len(d)) = v

\* A number below Radix reads back, ...
LEMMA OneDigit ==
  ASSUME NEW v \in Nat, v < Radix, NEW k \in Nat
  PROVE  DigitsRead(v, k)
<1> PICK d : d = Wire!Digits64[v]
  OBVIOUS
<1>1. d = <<v>>
  BY DigitsFacts DEF Digit
<1>2. Len(d) = 1 /\ d[1] = v
  BY <1>1
<1>3. \A n \in 1 .. Len(d) : (d[n] < Radix) = (n = Len(d))
  BY <1>2
<1>4. ASSUME NEW b \in Seq(Nat), NEW i \in Nat, IsAt(b, i, d)
      PROVE  Wire!Number(b, i, i + Len(d)) = v
  <2>1. i + 1 <= Len(b) /\ b[i + 1] = v
    BY <1>2, <1>4 DEF IsAt
  <2>2. i + 1 \in Nat /\ i \in 0 .. (i + 1) - 1
    OBVIOUS
  <2>3. /\ Wire!Number(b, i, i + 1) = (b[i + 1] % Radix) + Radix * Wire!Number(b, i + 1, i + 1)
        /\ Wire!Number(b, i + 1, i + 1) = 0
    BY <2>1, <2>2, NumberFacts
  <2>4. v % Radix = v
    BY WireNumbers, SmallRemainder
  <2> QED BY <1>2, <2>1, <2>3, <2>4, WireNumbers
<1> QED BY <1>2, <1>3, <1>4 DEF DigitsRead

\* Places counted from the byte after i.
LEMMA NextPlace ==
  ASSUME NEW i \in Nat, NEW n \in Nat
  PROVE  (i + 1) + n = i + (n + 1) /\ i \in 0 .. (i + (n + 1)) - 1 /\ i + 1 \in Nat
OBVIOUS

\* ... one of more digits does if what its first digit leaves does, ...
LEMMA MoreDigits ==
  ASSUME NEW v \in Nat, ~(v < Radix), NEW k \in Nat, DigitsRead(v \div Radix, k)
  PROVE  DigitsRead(v, k + 1)
<1> PICK q, r : q = v \div Radix /\ r = v % Radix
  OBVIOUS
<1>1. q \in Nat /\ r \in Nat /\ r < Radix /\ v = Radix * q + r /\ r \in 0 .. Radix - 1
  <2>1. v \div Radix \in Nat /\ v % Radix \in 0 .. Radix - 1
        /\ v = Radix * (v \div Radix) + (v % Radix)
    BY WireNumbers, DivMod
  <2> QED BY <2>1, WireNumbers
<1> PICK rest, d : rest = Wire!Digits64[q] /\ d = Wire!Digits64[v]
  OBVIOUS
<1>2. d = <<Radix + r>> \o rest /\ rest \in Seq(Nat) /\ d \in Seq(Nat)
  BY <1>1, DigitsFacts DEF Digit
<1>3. /\ Len(rest) >= 1 /\ Len(rest) <= k + 1
      /\ \A n \in 1 .. Len(rest) : (rest[n] < Radix) = (n = Len(rest))
      /\ \A b \in Seq(Nat) : \A i \in Nat :
           IsAt(b, i, rest) => Wire!Number(b, i, i + Len(rest)) = q
  BY DEF DigitsRead
<1>4. /\ Len(d) = Len(rest) + 1 /\ d[1] = Radix + r /\ Len(rest) \in Nat
      /\ \A n \in 1 .. Len(rest) : d[n + 1] = rest[n]
  <2> PICK x \in Nat : x = Radix + r
    BY <1>1, WireNumbers
  <2>1. d = <<x>> \o rest
    BY <1>2
  <2> QED BY <1>2, <2>1
<1> PICK n \in Nat : n = Len(rest)
  BY <1>4
<1>5. ASSUME NEW m \in 1 .. Len(d) PROVE (d[m] < Radix) = (m = Len(d))
  <2>1. CASE m = 1
    <3>1. ~(Radix + r < Radix)
      BY <1>1, WireNumbers
    <3>2. 1 # n + 1
      BY <1>3
    <3> QED BY <1>4, <2>1, <3>1, <3>2
  <2>2. CASE m # 1
    <3>1. m - 1 \in 1 .. Len(rest) /\ m - 1 + 1 = m
      BY <1>4, <2>2
    <3>2. d[m] = rest[m - 1] /\ (rest[m - 1] < Radix) = (m - 1 = Len(rest))
      BY <1>3, <1>4, <3>1
    <3> QED BY <1>4, <3>2
  <2> QED BY <2>1, <2>2
<1>6. ASSUME NEW b \in Seq(Nat), NEW i \in Nat, IsAt(b, i, d)
      PROVE  Wire!Number(b, i, i + Len(d)) = v
  <2> PICK j \in Nat : j = i + Len(d)
    BY <1>4
  <2>1. j <= Len(b) /\ b[i + 1] = Radix + r
    BY <1>4, <1>6 DEF IsAt
  <2>2. IsAt(b, i + 1, rest)
    <3>1. Radix + r \in Nat
      BY <1>1, WireNumbers
    <3>2. IsAt(b, i, <<Radix + r>> \o rest)
      BY <1>2, <1>6
    <3> QED BY <1>2, <3>1, <3>2, IsAtRest
  <2>3. (i + 1) + Len(rest) = j /\ i \in 0 .. j - 1 /\ i + 1 \in Nat
    <3>1. Len(d) = n + 1 /\ Len(rest) = n
      BY <1>4
    <3>2. j = i + (n + 1)
      BY <3>1
    <3>3. (i + 1) + n = j /\ i \in 0 .. j - 1 /\ i + 1 \in Nat
      BY <3>2, NextPlace
    <3> QED BY <3>1, <3>3
  <2>4. Wire!Number(b, i + 1, j) = q
    <3>1. Wire!Number(b, i + 1, (i + 1) + Len(rest)) = q
      BY <1>3, <2>2, <2>3
    <3> QED BY <2>3, <3>1
  <2>5. Wire!Number(b, i, j) = (b[i + 1] % Radix) + Radix * Wire!Number(b, i + 1, j)
    BY <2>1, <2>3, NumberFacts
  <2>6. (Radix + r) % Radix = r
    BY <1>1, WireNumbers, SmallRemainder
  <2>7. Wire!Number(b, i, j) = r + Radix * q
    BY <2>1, <2>4, <2>5, <2>6
  <2>8. Radix * q \in Nat
    BY <1>1, WireNumbers
  <2> QED BY <1>1, <2>7, <2>8
<1>7. Len(d) >= 1 /\ Len(d) <= (k + 1) + 1
  BY <1>3, <1>4
<1> QED BY <1>5, <1>6, <1>7 DEF DigitsRead

\* ... hence every number does.
LEMMA DigitsReadBack ==
  ASSUME NEW k \in Nat, NEW v \in Nat, v < Wire!Power[k + 1]
  PROVE  DigitsRead(v, k)
<1> DEFINE P == {n \in Nat : \A w \in Nat : w < Wire!Power[n + 1] => DigitsRead(w, n)}
<1>1. 0 \in P
  <2>1. Wire!Power[0 + 1] = Radix
    BY PowerFacts, WireNumbers
  <2> QED BY <2>1, OneDigit
<1>2. ASSUME NEW n \in Nat, n \in P PROVE n + 1 \in P
  <2> SUFFICES ASSUME NEW w \in Nat, w < Wire!Power[(n + 1) + 1] PROVE DigitsRead(w, n + 1)
    OBVIOUS
  <2>1. CASE w < Radix
    BY <2>1, OneDigit
  <2>2. CASE ~(w < Radix)
    <3> PICK q, p : q = w \div Radix /\ p = Wire!Power[n + 1]
      OBVIOUS
    <3>1. q \in Nat /\ p \in Nat /\ w < Radix * p
      BY PowerFacts, Quotient
    <3>2. w % Radix \in Nat /\ w = Radix * q + (w % Radix)
      BY WireNumbers, DivMod
    <3>3. q < p
      <4> SUFFICES ASSUME ~(q < p) PROVE FALSE
        OBVIOUS
      <4>1. Radix * p <= Radix * q /\ Radix * p \in Nat /\ Radix * q \in Nat
        BY <3>1, WireNumbers, Times
      <4> QED BY <3>1, <3>2, <4>1
    <3>4. DigitsRead(q, n)
      BY <1>2, <3>1, <3>3
    <3> QED BY <2>2, <3>4, MoreDigits
  <2> QED BY <2>1, <2>2
<1>3. \A n \in Nat : n \in P
  <2> HIDE DEF P
  <2> QED BY <1>1, <1>2, NatByInduction
<1> QED BY <1>3

\* The number v, written at place i of b, is the varint there.
AreDigits(d, v) == v < Wire!Power[VarintBytes] /\ d = Wire!Digits64[v]

\* readProtoVarint reads the number whose digits are at i.
LEMMA VarintReads ==
  ASSUME NEW b \in Seq(Nat), NEW i \in Nat, NEW v \in Nat, NEW d \in Seq(Nat),
         AreDigits(d, v), IsAt(b, i, d)
  PROVE  /\ Len(d) >= 1 /\ i + Len(d) <= Len(b)
         /\ Wire!ReadProtoVarint(b, i) = [value |-> v, next |-> i + Len(d)]
<1>1. VarintBytes - 1 \in Nat /\ VarintBytes - 1 + 1 = VarintBytes
  <2>1. VarintBytes # 0
    <3>1. Word <= Wire!Power[VarintBytes]
      BY WireAssumption
    <3>2. ~(Word <= Wire!Power[0])
      BY PowerFacts, WireNumbers
    <3> QED BY <3>1, <3>2
  <2> QED BY <2>1, WireNumbers
<1>2. DigitsRead(v, VarintBytes - 1)
  <2>1. v < Wire!Power[(VarintBytes - 1) + 1]
    BY <1>1 DEF AreDigits
  <2> QED BY <1>1, <2>1, DigitsReadBack
<1>3. d \in Seq(Nat) /\ Len(d) \in Nat
  OBVIOUS
<1>4. /\ Len(d) >= 1 /\ Len(d) <= VarintBytes
      /\ \A n \in 1 .. Len(d) : (d[n] < Radix) = (n = Len(d))
      /\ Wire!Number(b, i, i + Len(d)) = v
  <2>1. d = Wire!Digits64[v]
    BY DEF AreDigits
  <2> QED BY <1>1, <1>2, <2>1 DEF DigitsRead
<1>5. i + Len(d) <= Len(b) /\ \A n \in 1 .. Len(d) : b[i + n] = d[n]
  BY DEF IsAt
<1> PICK j \in Nat : j = i + Len(d)
  BY <1>3
<1>6. Wire!IsVarint(b, i, j)
  <2>1. i < j /\ j <= Len(b) /\ j - i <= VarintBytes
    BY <1>3, <1>4, <1>5, WireNumbers
  <2>2. ASSUME NEW m \in i + 1 .. j PROVE (b[m] < Radix) = (m = j)
    <3>1. m - i \in 1 .. Len(d) /\ i + (m - i) = m
      BY <1>3
    <3>2. b[m] = d[m - i] /\ (d[m - i] < Radix) = (m - i = Len(d))
      BY <1>4, <1>5, <3>1
    <3> QED BY <1>3, <3>2
  <2> QED BY <2>1, <2>2 DEF Wire!IsVarint
<1>7. Wire!ReadProtoVarint(b, i) = [value |-> Wire!Number(b, i, j), next |-> j]
  BY <1>6, ReadFacts
<1> QED BY <1>3, <1>4, <1>5, <1>7

\* The parts written one after the other, and the whole: part n + 1 begins at p[n].
Laid(parts, whole, p, k) ==
  /\ whole \in Seq(Nat) /\ p[0] = 0 /\ p[k] = Len(whole)
  /\ \A n \in 0 .. k - 1 : /\ p[n] \in Nat
                           /\ p[n + 1] = p[n] + Len(parts[n + 1])
                           /\ IsAt(whole, p[n], parts[n + 1])

\* What is in a sequence is in it with more behind.
LEMMA IsAtLonger ==
  ASSUME NEW b \in Seq(Nat), NEW c \in Seq(Nat), NEW i \in Nat, NEW d \in Seq(Nat), IsAt(b, i, d)
  PROVE  IsAt(b \o c, i, d)
<1>1. /\ Len(b \o c) = Len(b) + Len(c) /\ Len(b) \in Nat /\ Len(c) \in Nat /\ Len(d) \in Nat
      /\ \A n \in 1 .. Len(b) : (b \o c)[n] = b[n]
  OBVIOUS
<1>2. i + Len(d) <= Len(b) /\ \A n \in 1 .. Len(d) : b[i + n] = d[n]
  BY DEF IsAt
<1>3. ASSUME NEW n \in 1 .. Len(d) PROVE (b \o c)[i + n] = d[n]
  <2>1. i + n \in 1 .. Len(b)
    BY <1>1, <1>2
  <2> QED BY <1>1, <1>2, <2>1
<1>4. i + Len(d) <= Len(b \o c)
  BY <1>1, <1>2
<1> QED BY <1>3, <1>4 DEF IsAt

\* What is appended is at the end.
LEMMA IsAtEnd ==
  ASSUME NEW b \in Seq(Nat), NEW d \in Seq(Nat)
  PROVE  IsAt(b \o d, Len(b), d)
<1>1. /\ Len(b \o d) = Len(b) + Len(d) /\ Len(b) \in Nat /\ Len(d) \in Nat
      /\ \A n \in 1 .. Len(d) : (b \o d)[Len(b) + n] = d[n]
  OBVIOUS
<1> QED BY <1>1 DEF IsAt

\* FlattenSeq appends one part after the other, ...
LEMMA FlattenTurns ==
  ASSUME NEW k \in Nat, k >= 1, NEW parts \in [1 .. k -> Seq(Nat)]
  PROVE  \E g : /\ g[1] = parts[1]
                /\ \A n \in Nat : n >= 1 /\ n < k => g[n + 1] = g[n] \o parts[n + 1]
                /\ Wire!FlattenSeq(parts) = g[k]
<1> DEFINE Eq(f) == f = [n \in 1 .. k |-> IF n = 1 THEN parts[n] ELSE f[n - 1] \o parts[n]]
           s == CHOOSE f : Eq(f)
           X == Seq(Nat)
           none == parts[1]
           step == [n \in Nat |-> [x \in X |-> IF n + 2 <= k THEN x \o parts[n + 2] ELSE x]]
<1>1. step \in Steps(X) /\ none \in X
  <2>1. ASSUME NEW n \in Nat, NEW x \in Seq(Nat)
        PROVE  (IF n + 2 <= k THEN x \o parts[n + 2] ELSE x) \in Seq(Nat)
    <3>1. n + 2 <= k => parts[n + 2] \in Seq(Nat)
      OBVIOUS
    <3> QED BY <3>1
  <2>2. step \in Steps(X)
    <3> HIDE DEF X
    <3> QED BY <2>1 DEF Steps, X
  <2> QED BY <2>2
<1>2. \A n \in Nat : \A x \in X : n + 2 <= k => step[n][x] = x \o parts[n + 2]
  <2> HIDE DEF X
  <2> QED OBVIOUS
<1> HIDE DEF step
<1>3. PICK f : Computes(f, X, none, step)
  <2> HIDE DEF X, none
  <2> QED BY <1>1, Recursion
<1>4. f[0] = none /\ \A n \in Nat : f[n] \in X /\ f[n + 1] = step[n][f[n]]
  <2> HIDE DEF X, none
  <2> QED BY <1>3 DEF Computes
<1>5. Eq([n \in 1 .. k |-> f[n - 1]])
  <2> DEFINE g == [n \in 1 .. k |-> f[n - 1]]
  <2>1. ASSUME NEW n \in 1 .. k PROVE f[n - 1] = IF n = 1 THEN parts[n] ELSE g[n - 1] \o parts[n]
    <3>1. CASE n = 1
      <4>1. n - 1 = 0
        BY <3>1
      <4> QED BY <1>4, <3>1, <4>1
    <3>2. CASE n # 1
      <4>1. /\ n - 2 \in Nat /\ (n - 2) + 1 = n - 1 /\ (n - 2) + 2 = n /\ n <= k
            /\ n - 1 \in 1 .. k /\ (n - 1) - 1 = n - 2
        BY <3>2
      <4>2. f[n - 1] = step[n - 2][f[n - 2]] /\ f[n - 2] \in X
        BY <1>4, <4>1
      <4>3. f[n - 1] = f[n - 2] \o parts[n]
        <5> HIDE DEF X
        <5> QED BY <1>2, <4>1, <4>2
      <4>4. g[n - 1] = f[n - 2]
        BY <4>1
      <4> HIDE DEF g
      <4> QED BY <3>2, <4>3, <4>4
    <3> QED BY <3>1, <3>2
  <2> QED BY <2>1
<1>6. Eq(s)
  <2> HIDE DEF Eq
  <2> QED BY <1>5, Zenon
<1> DEFINE t == [n \in 1 .. k |-> IF n = 1 THEN parts[n] ELSE s[n - 1] \o parts[n]]
<1> HIDE DEF s
<1>7. s = t
  BY <1>6, Zenon
<1>8. s[1] = parts[1] /\ \A n \in Nat : n >= 1 /\ n < k => s[n + 1] = s[n] \o parts[n + 1]
  <2>1. t[1] = parts[1]
    OBVIOUS
  <2>2. ASSUME NEW n \in Nat, n >= 1, n < k PROVE t[n + 1] = s[n] \o parts[n + 1]
    <3>1. n + 1 \in 1 .. k /\ n + 1 # 1 /\ n + 1 - 1 = n
      BY <2>2
    <3>2. \A m \in 1 .. k : m # 1 => t[m] = s[m - 1] \o parts[m]
      OBVIOUS
    <3> PICK m \in 1 .. k : m = n + 1
      BY <3>1
    <3> HIDE DEF t
    <3>3. m # 1 /\ m - 1 = n
      BY <3>1
    <3>4. t[m] = s[m - 1] \o parts[m]
      BY <3>2, <3>3
    <3> QED BY <3>3, <3>4
  <2> HIDE DEF t
  <2> QED BY <1>7, <2>1, <2>2
<1>9. Wire!FlattenSeq(parts) = s[k]
  <2>1. Len(parts) = k /\ k # 0
    OBVIOUS
  <2> QED BY <2>1, Zenon DEF s, Wire!FlattenSeq
<1> QED BY <1>8, <1>9

\* ... so each part is in the whole at its place.
LEMMA FlattenLays ==
  ASSUME NEW k \in Nat, k >= 1, NEW parts \in [1 .. k -> Seq(Nat)]
  PROVE  \E p : Laid(parts, Wire!FlattenSeq(parts), p, k)
<1>1. PICK g : /\ g[1] = parts[1]
               /\ \A n \in Nat : n >= 1 /\ n < k => g[n + 1] = g[n] \o parts[n + 1]
               /\ Wire!FlattenSeq(parts) = g[k]
  BY FlattenTurns
<1> DEFINE p == [n \in 0 .. k |-> IF n = 0 THEN 0 ELSE Len(g[n])]
           P == {m \in Nat : m + 1 <= k => Laid(parts, g[m + 1], p, m + 1)}
<1>2. p[0] = 0 /\ \A n \in 1 .. k : p[n] = Len(g[n])
  OBVIOUS
<1>3. \A n \in 1 .. k : parts[n] \in Seq(Nat)
  OBVIOUS
<1> HIDE DEF p
<1>4. 0 \in P
  <2>1. parts[1] \in Seq(Nat) /\ p[1] = Len(parts[1]) /\ Len(parts[1]) \in Nat
    BY <1>1, <1>2
  <2>2. IsAt(parts[1], 0, parts[1])
    BY <2>1 DEF IsAt
  <2>3. \A n \in 0 .. 1 - 1 : n = 0
    OBVIOUS
  <2>4. Laid(parts, parts[1], p, 1)
    BY <1>2, <2>1, <2>2, <2>3 DEF Laid
  <2>5. g[0 + 1] = parts[1] /\ 0 + 1 = 1
    BY <1>1
  <2> QED BY <2>4, <2>5
<1>5. ASSUME NEW m \in Nat, m \in P PROVE m + 1 \in P
  <2> SUFFICES ASSUME (m + 1) + 1 <= k PROVE Laid(parts, g[(m + 1) + 1], p, (m + 1) + 1)
    OBVIOUS
  <2> PICK k1 \in Nat : k1 = m + 1
    OBVIOUS
  <2> PICK whole, piece : whole = g[k1] /\ piece = parts[k1 + 1]
    OBVIOUS
  <2>1. k1 >= 1 /\ k1 < k /\ k1 <= k /\ k1 + 1 \in 1 .. k /\ k1 \in 1 .. k
    OBVIOUS
  <2>2. Laid(parts, whole, p, k1)
    BY <1>5, <2>1
  <2>3. piece \in Seq(Nat) /\ g[k1 + 1] = whole \o piece
    BY <1>1, <1>3, <2>1
  <2>4. /\ whole \in Seq(Nat) /\ p[0] = 0 /\ p[k1] = Len(whole)
        /\ \A n \in 0 .. k1 - 1 : /\ p[n] \in Nat
                                  /\ p[n + 1] = p[n] + Len(parts[n + 1])
                                  /\ IsAt(whole, p[n], parts[n + 1])
    BY <2>2 DEF Laid
  <2>5. p[k1 + 1] = Len(whole \o piece)
    BY <1>2, <2>1, <2>3
  <2>6. whole \o piece \in Seq(Nat) /\ Len(whole \o piece) = Len(whole) + Len(piece) /\ Len(whole) \in Nat
    BY <2>3, <2>4
  <2>7. ASSUME NEW n \in 0 .. (k1 + 1) - 1
        PROVE  /\ p[n] \in Nat
               /\ p[n + 1] = p[n] + Len(parts[n + 1])
               /\ IsAt(whole \o piece, p[n], parts[n + 1])
    <3>1. CASE n = k1
      <4>1. IsAt(whole \o piece, Len(whole), piece)
        BY <2>3, <2>4, IsAtEnd
      <4> QED BY <2>4, <2>5, <2>6, <3>1, <4>1
    <3>2. CASE n # k1
      <4>1. n \in 0 .. k1 - 1 /\ n + 1 \in 1 .. k
        BY <2>1, <3>2
      <4>2. parts[n + 1] \in Seq(Nat)
        BY <1>3, <4>1
      <4>3. p[n] \in Nat /\ p[n + 1] = p[n] + Len(parts[n + 1]) /\ IsAt(whole, p[n], parts[n + 1])
        BY <2>4, <4>1
      <4>4. IsAt(whole \o piece, p[n], parts[n + 1])
        BY <2>3, <2>4, <4>2, <4>3, IsAtLonger
      <4> QED BY <4>3, <4>4
    <3> QED BY <3>1, <3>2
  <2>8. Laid(parts, whole \o piece, p, k1 + 1)
    BY <2>4, <2>5, <2>6, <2>7 DEF Laid
  <2> QED BY <2>3, <2>8
<1>6. \A m \in Nat : m \in P
  <2> HIDE DEF P
  <2> QED BY <1>4, <1>5, NatByInduction
<1>7. k - 1 \in Nat /\ (k - 1) + 1 = k
  OBVIOUS
<1>8. Laid(parts, g[k], p, k)
  <2>1. k - 1 \in P
    <3> HIDE DEF P
    <3> QED BY <1>6, <1>7
  <2> QED BY <1>7, <2>1
<1> QED BY <1>1, <1>8

\* A field that can be written: a string, or a number.
FieldOK(f) ==
  /\ f.field \in 1 .. 39
  /\ \/ f.wire = 2 /\ f.str \in Seq(Nat) /\ Len(f.str) < Word
     \/ f.wire = 0 /\ f.num \in Nat /\ f.num < Wire!Power[VarintBytes] /\ f.str = <<>>

\* What the summary should list of it.
EntryOf(f) ==
  Wire!Listed(f.field, f.wire, Len(f.str), IF f.wire = 2 /\ f.field = 2 THEN f.str ELSE <<>>)

\* A number of 32 bits is written as it is, and is not too long to be read.
LEMMA Varint32 ==
  ASSUME NEW v \in Nat, v < Word
  PROVE  Wire!PbVarint(v) = Wire!Digits64[v] /\ v < Wire!Power[VarintBytes]
<1>1. v % Word = v
  BY WireNumbers, SmallRemainder
<1>2. Wire!Power[VarintBytes] \in Nat /\ Word <= Wire!Power[VarintBytes]
  BY WireAssumption, PowerFacts
<1> QED BY <1>1, <1>2, WireNumbers DEF Wire!PbVarint

\* A tag is a number that gives field and wire type back.
LEMMA TagFacts ==
  ASSUME NEW n \in 1 .. 39, NEW w \in {0, 2}
  PROVE  \E key \in Nat : /\ Wire!PbTag(n, w) = Wire!Digits64[key]
                          /\ key < Wire!Power[VarintBytes] /\ key # 0
                          /\ key \div 8 = n /\ key % 8 = w
<1> PICK key \in Nat : key = n * 8 + w
  OBVIOUS
<1>1. key < Word
  BY WireNumbers
<1>2. key # 0 /\ key \div 8 = n /\ key % 8 = w
  OBVIOUS
<1>3. Wire!PbVarint(key) = Wire!Digits64[key] /\ key < Wire!Power[VarintBytes]
  BY <1>1, Varint32
<1>4. Wire!PbTag(n, w) = Wire!PbVarint(key)
  BY DEF Wire!PbTag
<1> QED BY <1>2, <1>3, <1>4

\* A field is written as bytes.
LEMMA WriteType ==
  ASSUME NEW f, FieldOK(f)
  PROVE  Wire!Write(f) \in Seq(Nat)
<1>1. f.wire \in {0, 2} /\ f.field \in 1 .. 39
  BY DEF FieldOK
<1>2. PICK key \in Nat : Wire!PbTag(f.field, f.wire) = Wire!Digits64[key]
  BY <1>1, TagFacts
<1>3. Wire!PbTag(f.field, f.wire) \in Seq(Nat)
  BY <1>2, DigitsFacts
<1>4. CASE f.wire = 2
  <2>1. f.str \in Seq(Nat) /\ Len(f.str) \in Nat /\ Len(f.str) < Word
    BY <1>4 DEF FieldOK
  <2>2. Wire!PbVarint(Len(f.str)) \in Seq(Nat)
    BY <2>1, Varint32, DigitsFacts
  <2>3. Wire!Write(f) = Wire!PbTag(f.field, f.wire) \o Wire!PbVarint(Len(f.str)) \o f.str
    BY <1>4 DEF Wire!Write, Wire!PbString
  <2> QED BY <1>3, <2>1, <2>2, <2>3
<1>5. CASE f.wire = 0
  <2>1. f.num \in Nat
    BY <1>5 DEF FieldOK
  <2>2. Wire!Write(f) = Wire!PbTag(f.field, f.wire) \o Wire!Digits64[f.num]
    BY <1>5 DEF Wire!Write, Wire!PbVarintField
  <2> QED BY <1>3, <2>1, <2>2, DigitsFacts
<1> QED BY <1>1, <1>4, <1>5

\* A field written at place i of b is the one a turn there finds.
LEMMA WriteReads ==
  ASSUME NEW b \in Seq(Nat), NEW i \in Nat, NEW f, FieldOK(f), IsAt(b, i, Wire!Write(f))
  PROVE  /\ ~BadAt(b, i) /\ EndAt(b, i) = i + Len(Wire!Write(f))
         /\ i < EndAt(b, i) /\ EndAt(b, i) <= Len(b)
         /\ EntryAt(b, i) = EntryOf(f)
<1>1. f.wire \in {0, 2} /\ f.field \in 1 .. 39
  BY DEF FieldOK
<1>2. PICK key \in Nat : /\ Wire!PbTag(f.field, f.wire) = Wire!Digits64[key]
                         /\ key < Wire!Power[VarintBytes] /\ key # 0
                         /\ key \div 8 = f.field /\ key % 8 = f.wire
  BY <1>1, TagFacts
<1>8. PICK tag \in Seq(Nat) : tag = Wire!Digits64[key]
  BY DigitsFacts
<1>3. tag \in Seq(Nat) /\ Len(tag) \in Nat /\ Len(b) \in Nat
  OBVIOUS
\* The key, once the tag is at i.
<1>4. ASSUME IsAt(b, i, tag)
      PROVE  /\ Len(tag) >= 1 /\ i + Len(tag) <= Len(b)
             /\ KeyAt(b, i).value = key /\ KeyAt(b, i).next = i + Len(tag)
             /\ KeyAt(b, i) # Wire!None
             /\ WireAt(b, i) = f.wire /\ FieldAt(b, i) = f.field
  <2>1. /\ Len(tag) >= 1 /\ i + Len(tag) <= Len(b)
        /\ KeyAt(b, i) = [value |-> key, next |-> i + Len(tag)]
    <3>1. AreDigits(tag, key)
      BY <1>2, <1>8 DEF AreDigits
    <3> QED BY <1>4, <3>1, VarintReads DEF KeyAt
  <2>2. KeyAt(b, i).value = key /\ KeyAt(b, i).next = i + Len(tag)
    BY <2>1
  <2>3. KeyAt(b, i) # Wire!None
    BY <1>2, <2>2 DEF Wire!None
  <2>4. WireAt(b, i) = f.wire /\ FieldAt(b, i) = f.field
    BY <1>2, <2>2 DEF WireAt, FieldAt
  <2> QED BY <2>1, <2>2, <2>3, <2>4
\* The number behind it.
<1>5. ASSUME IsAt(b, i, tag), NEW v \in Nat, NEW d \in Seq(Nat), AreDigits(d, v),
             IsAt(b, i + Len(tag), d)
      PROVE  /\ ArgAt(b, i).value = v /\ ArgAt(b, i) # Wire!None
             /\ ArgAt(b, i).next = (i + Len(tag)) + Len(d)
             /\ (i + Len(tag)) + Len(d) <= Len(b)
  <2>1. KeyAt(b, i).next = i + Len(tag) /\ i + Len(tag) \in Nat /\ Len(tag) >= 1
    BY <1>3, <1>4, <1>5
  <2>2. PICK k \in Nat : k = i + Len(tag)
    BY <2>1
  <2>3. IsAt(b, k, d) /\ KeyAt(b, i).next = k
    BY <1>5, <2>1, <2>2
  <2>4. /\ ArgAt(b, i) = [value |-> v, next |-> k + Len(d)]
        /\ Len(d) >= 1 /\ k + Len(d) <= Len(b)
    <3>1. /\ Wire!ReadProtoVarint(b, k) = [value |-> v, next |-> k + Len(d)]
          /\ Len(d) >= 1 /\ k + Len(d) <= Len(b)
      BY <1>5, <2>3, VarintReads
    <3> QED BY <2>3, <3>1 DEF ArgAt
  <2>5. ArgAt(b, i).value = v /\ ArgAt(b, i).next = k + Len(d)
    BY <2>4
  <2>6. k + Len(d) # 0
    BY <2>4
  <2>7. ArgAt(b, i) # Wire!None
    BY <2>5, <2>6 DEF Wire!None
  <2> QED BY <2>2, <2>4, <2>5, <2>7
<1>6. CASE f.wire = 2
  <2>1. PICK str \in Seq(Nat) : str = f.str /\ Len(str) < Word
    BY <1>6 DEF FieldOK
  <2>2. PICK n \in Nat : n = Len(str)
    OBVIOUS
  <2>3. PICK size \in Seq(Nat) : size = Wire!Digits64[n]
    BY DigitsFacts
  <2>4. Wire!PbVarint(n) = size /\ n < Wire!Power[VarintBytes]
    BY <2>1, <2>2, <2>3, Varint32
  <2>5. Wire!Write(f) = (tag \o size) \o str
    <3>1. Wire!Write(f) = Wire!PbTag(f.field, 2) \o Wire!PbVarint(n) \o str
      BY <1>6, <2>1, <2>2 DEF Wire!Write, Wire!PbString
    <3>2. Wire!PbTag(f.field, 2) = tag
      BY <1>2, <1>6, <1>8
    <3> QED BY <2>4, <3>1, <3>2
  <2>6. IsAt(b, i, tag \o size) /\ IsAt(b, i + Len(tag \o size), str)
    <3>1. tag \o size \in Seq(Nat) /\ IsAt(b, i, (tag \o size) \o str)
      BY <2>5
    <3> QED BY <3>1, IsAtParts
  <2>7. IsAt(b, i, tag) /\ IsAt(b, i + Len(tag), size)
    BY <2>6, IsAtParts
  <2>8. /\ ArgAt(b, i).value = n /\ ArgAt(b, i) # Wire!None
        /\ ArgAt(b, i).next = (i + Len(tag)) + Len(size)
    <3>1. AreDigits(size, n)
      BY <2>3, <2>4 DEF AreDigits
    <3> QED BY <1>5, <2>7, <3>1
  <2>9. /\ Len(tag \o size) = Len(tag) + Len(size) /\ Len(size) \in Nat
        /\ Len(Wire!Write(f)) = (Len(tag) + Len(size)) + n
    BY <2>2, <2>5
  <2>10. /\ KeyAt(b, i).value = key /\ KeyAt(b, i) # Wire!None /\ Len(tag) >= 1
         /\ WireAt(b, i) = 2 /\ FieldAt(b, i) = f.field
    BY <1>4, <1>6, <2>7
  <2>11. PICK at \in Nat : at = (i + Len(tag)) + Len(size)
    BY <1>3, <2>9
  <2>12. at + n <= Len(b) /\ \A m \in 1 .. n : b[at + m] = str[m]
    <3>1. i + Len(tag \o size) = at
      BY <1>3, <2>9, <2>11
    <3> QED BY <2>2, <2>6, <3>1 DEF IsAt
  <2>13. EndAt(b, i) = at + n
    BY <2>8, <2>10, <2>11 DEF EndAt
  <2>14. EndAt(b, i) = i + Len(Wire!Write(f)) /\ i < EndAt(b, i) /\ EndAt(b, i) <= Len(b)
    <3>1. at + n = i + ((Len(tag) + Len(size)) + n) /\ i < at + n
      BY <1>3, <2>9, <2>10, <2>11
    <3> QED BY <2>9, <2>12, <2>13, <3>1
  <2>15. ~BadAt(b, i)
    <3>1. ~(EndAt(b, i) > Len(b))
      BY <1>3, <2>12, <2>13
    <3> QED BY <1>2, <2>8, <2>10, <3>1 DEF BadAt
  <2>16. SubSeq(b, at + 1, at + n) = str
    <3>1. /\ at + 1 \in 1 .. Len(b) + 1 /\ at + n \in at .. Len(b)
      BY <1>3, <2>12
    <3>2. /\ SubSeq(b, at + 1, at + n) \in Seq(Nat)
          /\ Len(SubSeq(b, at + 1, at + n)) = n
          /\ \A m \in 1 .. n : SubSeq(b, at + 1, at + n)[m] = b[at + m]
      BY <3>1
    <3>3. PICK sub \in Seq(Nat) : sub = SubSeq(b, at + 1, at + n)
      BY <3>2
    <3>4. Len(sub) = Len(str) /\ \A m \in 1 .. Len(sub) : sub[m] = str[m]
      BY <2>2, <2>12, <3>2, <3>3
    <3>5. sub = str
      BY <3>4, SeqEqual
    <3> QED BY <3>3, <3>5
  <2>17. EntryAt(b, i) = EntryOf(f)
    <3>1. EntryAt(b, i) = Wire!Listed(f.field, 2, n, IF f.field = 2 THEN SubSeq(b, at + 1, at + n) ELSE <<>>)
      BY <2>8, <2>10, <2>11, <2>13 DEF EntryAt
    <3>2. EntryOf(f) = Wire!Listed(f.field, 2, n, IF f.field = 2 THEN str ELSE <<>>)
      BY <1>6, <2>1, <2>2 DEF EntryOf
    <3>3. CASE f.field = 2
      BY <2>16, <3>1, <3>2, <3>3
    <3>4. CASE f.field # 2
      BY <3>1, <3>2, <3>4
    <3> QED BY <3>3, <3>4
  <2> QED BY <2>14, <2>15, <2>17
<1>7. CASE f.wire = 0
  <2>1. PICK v \in Nat : v = f.num /\ v < Wire!Power[VarintBytes] /\ f.str = <<>>
    BY <1>7 DEF FieldOK
  <2>2. PICK digits \in Seq(Nat) : digits = Wire!Digits64[v]
    BY DigitsFacts
  <2>3. Wire!Write(f) = tag \o digits
    <3>1. Wire!Write(f) = Wire!PbTag(f.field, 0) \o Wire!Digits64[v]
      BY <1>7, <2>1 DEF Wire!Write, Wire!PbVarintField
    <3> QED BY <1>2, <1>7, <1>8, <2>2, <3>1
  <2>4. IsAt(b, i, tag) /\ IsAt(b, i + Len(tag), digits)
    <3>1. IsAt(b, i, tag \o digits)
      BY <2>3
    <3> QED BY <3>1, IsAtParts
  <2>5. /\ ArgAt(b, i) # Wire!None /\ ArgAt(b, i).next = (i + Len(tag)) + Len(digits)
        /\ (i + Len(tag)) + Len(digits) <= Len(b)
    <3>1. AreDigits(digits, v)
      BY <2>1, <2>2 DEF AreDigits
    <3> QED BY <1>5, <2>4, <3>1
  <2>6. /\ KeyAt(b, i).value = key /\ KeyAt(b, i) # Wire!None /\ Len(tag) >= 1
        /\ WireAt(b, i) = 0 /\ FieldAt(b, i) = f.field
    BY <1>4, <1>7, <2>4
  <2>7. Len(Wire!Write(f)) = Len(tag) + Len(digits) /\ Len(digits) \in Nat
    BY <2>3
  <2>8. EndAt(b, i) = (i + Len(tag)) + Len(digits)
    BY <2>5, <2>6 DEF EndAt
  <2>9. EndAt(b, i) = i + Len(Wire!Write(f)) /\ i < EndAt(b, i) /\ EndAt(b, i) <= Len(b)
    BY <1>3, <2>5, <2>6, <2>7, <2>8
  <2>10. ~BadAt(b, i)
    <3>1. ~(EndAt(b, i) > Len(b))
      BY <1>3, <2>5, <2>7, <2>8
    <3> QED BY <1>2, <2>5, <2>6, <3>1 DEF BadAt
  <2>11. EntryAt(b, i) = EntryOf(f)
    <3>1. EntryAt(b, i) = Wire!Listed(f.field, 0, 0, <<>>)
      BY <2>6 DEF EntryAt
    <3>2. EntryOf(f) = Wire!Listed(f.field, 0, 0, <<>>)
      BY <1>7, <2>1, EmptyIsSeq DEF EntryOf
    <3> QED BY <3>1, <3>2
  <2> QED BY <2>9, <2>10, <2>11
<1> QED BY <1>1, <1>6, <1>7

FieldsOK(F, k) == k \in Nat /\ k >= 1 /\ DOMAIN F = 1 .. k /\ \A n \in 1 .. k : FieldOK(F[n])

\* The fields written are in the message, one behind the other.
LEMMA EncodeLays ==
  ASSUME NEW F, NEW k, FieldsOK(F, k)
  PROVE  \E p : Laid([n \in 1 .. k |-> Wire!Write(F[n])], Wire!Encode(F), p, k)
<1> DEFINE parts == [n \in 1 .. k |-> Wire!Write(F[n])]
<1>1. k \in Nat /\ k >= 1 /\ DOMAIN F = 1 .. k
  BY DEF FieldsOK
<1>2. parts \in [1 .. k -> Seq(Nat)]
  BY WriteType DEF FieldsOK
<1>3. Wire!Encode(F) = Wire!FlattenSeq(parts)
  BY <1>1 DEF Wire!Encode
<1> HIDE DEF parts
<1>4. \E p : Laid(parts, Wire!FlattenSeq(parts), p, k)
  BY <1>1, <1>2, FlattenLays
<1> QED BY <1>3, <1>4 DEF parts

\* The loop, when it has listed the first n fields of F.
Listing(at, F, p, n) ==
  /\ at \in States /\ at.failed = FALSE /\ at.offset = p[n] /\ Len(at.fields) = n
  /\ \A m \in 1 .. n : at.fields[m] = EntryOf(F[m])

\* A turn over a written message lists its next field.
LEMMA ListingTurn ==
  ASSUME NEW F, NEW k, FieldsOK(F, k), NEW b, NEW p,
         Laid([n \in 1 .. k |-> Wire!Write(F[n])], b, p, k),
         NEW at, NEW n \in Nat, n < k, Listing(at, F, p, n)
  PROVE  Listing(Wire!Turn(b, at), F, p, n + 1)
<1> DEFINE piece == Wire!Write(F[n + 1])
<1>1. n \in 0 .. k - 1 /\ n + 1 \in 1 .. k /\ k \in Nat
  BY DEF FieldsOK
<1>2. [m \in 1 .. k |-> Wire!Write(F[m])][n + 1] = piece
  BY <1>1
<1>3. /\ b \in Seq(Nat) /\ p[n] \in Nat /\ p[n + 1] = p[n] + Len(piece)
      /\ IsAt(b, p[n], piece)
  <2> HIDE DEF piece
  <2> QED BY <1>1, <1>2, Zenon DEF Laid
<1>4. FieldOK(F[n + 1])
  BY <1>1 DEF FieldsOK
<1>5. /\ at \in States /\ at.failed = FALSE /\ at.offset = p[n] /\ Len(at.fields) = n
      /\ \A m \in 1 .. n : at.fields[m] = EntryOf(F[m])
  BY DEF Listing
<1>6. PICK i \in Nat : i = at.offset /\ i = p[n]
  BY <1>3, <1>5
<1>7. /\ ~BadAt(b, i) /\ EndAt(b, i) = p[n + 1] /\ i < EndAt(b, i) /\ EndAt(b, i) <= Len(b)
      /\ EntryAt(b, i) = EntryOf(F[n + 1])
  <2>1. PICK f : f = F[n + 1]
    OBVIOUS
  <2>2. FieldOK(f) /\ IsAt(b, i, Wire!Write(f)) /\ p[n + 1] = i + Len(Wire!Write(f))
    BY <1>3, <1>4, <1>6, <2>1
  <2>3. /\ ~BadAt(b, i) /\ EndAt(b, i) = i + Len(Wire!Write(f)) /\ i < EndAt(b, i)
        /\ EndAt(b, i) <= Len(b) /\ EntryAt(b, i) = EntryOf(f)
    BY <1>3, <2>2, WriteReads
  <2> QED BY <2>1, <2>2, <2>3
<1>8. PICK new : new = Wire!Turn(b, at)
  OBVIOUS
<1>9. Goes(b, at, new) /\ new \in States
  BY <1>3, <1>5, <1>8, TurnGoes
<1>10. at.offset < Len(b) /\ ~(at.offset >= Len(b))
  <2>1. EndAt(b, i) \in Nat /\ Len(b) \in Nat
    BY <1>3, <1>7, TakenIsField
  <2> QED BY <1>6, <1>7, <2>1
<1>11. new = [offset |-> p[n + 1], failed |-> FALSE, fields |-> at.fields \o <<EntryOf(F[n + 1])>>]
  BY <1>5, <1>6, <1>7, <1>9, <1>10, Zenon DEF Goes
<1>12. /\ new.offset = p[n + 1] /\ new.failed = FALSE
       /\ new.fields = at.fields \o <<EntryOf(F[n + 1])>>
  BY <1>11
<1>13. at.fields \in Seq(Entries) /\ EntryOf(F[n + 1]) \in Entries
  BY <1>3, <1>5, <1>6, <1>7, TakenIsField DEF States
<1>14. PICK old \in Seq(Entries), e \in Entries : old = at.fields /\ e = EntryOf(F[n + 1])
  BY <1>13
<1>15. /\ Len(old \o <<e>>) = n + 1 /\ (old \o <<e>>)[n + 1] = e
       /\ \A m \in 1 .. n : (old \o <<e>>)[m] = old[m]
  <2>1. Len(old) = n
    BY <1>5, <1>14
  <2> QED BY <2>1
<1>16. ASSUME NEW m \in 1 .. n + 1 PROVE new.fields[m] = EntryOf(F[m])
  <2>1. m \in 1 .. n \/ m = n + 1
    OBVIOUS
  <2>2. new.fields = old \o <<e>>
    BY <1>12, <1>14
  <2>3. CASE m \in 1 .. n
    BY <1>5, <1>14, <1>15, <2>2, <2>3
  <2>4. CASE m = n + 1
    BY <1>14, <1>15, <2>2, <2>4
  <2> QED BY <2>1, <2>3, <2>4
<1>17. Len(new.fields) = n + 1
  BY <1>12, <1>14, <1>15
<1>18. Listing(new, F, p, n + 1)
  BY <1>9, <1>12, <1>16, <1>17 DEF Listing
<1> QED BY <1>8, <1>18

\* What is written is listed, field by field.
LEMMA EncodedIsListed ==
  ASSUME NEW F, NEW k, FieldsOK(F, k), k <= MaxFields
  PROVE  /\ Wire!Encode(F) \in Seq(Nat) /\ Len(Wire!Walk(Wire!Encode(F))) = k
         /\ \A n \in 1 .. k : Wire!Walk(Wire!Encode(F))[n] = EntryOf(F[n])
<1>1. PICK b : b = Wire!Encode(F)
  OBVIOUS
<1>2. PICK p : Laid([n \in 1 .. k |-> Wire!Write(F[n])], b, p, k)
  BY <1>1, EncodeLays
<1>3. b \in Seq(Nat) /\ p[0] = 0 /\ p[k] = Len(b)
  BY <1>2, Zenon DEF Laid
<1>4. PICK at : /\ at[0] = Wire!Start
                /\ \A n \in Nat : n < MaxFields => at[n + 1] = Wire!Turn(b, at[n])
                /\ Wire!Walk(b) = at[MaxFields].fields
  BY <1>3, WalkTurns
<1>5. k \in Nat
  BY DEF FieldsOK
<1> DEFINE P == {n \in Nat : n <= k => Listing(at[n], F, p, n)}
           Q == {n \in Nat : k + n <= MaxFields => at[k + n] = at[k]}
<1>6. 0 \in P
  <2>1. Wire!Start \in States
    <3>1. <<>> \in Seq(Entries)
      OBVIOUS
    <3> QED BY <3>1 DEF Wire!Start, States
  <2>2. /\ Wire!Start.failed = FALSE /\ Wire!Start.offset = 0 /\ Wire!Start.fields = <<>>
        /\ Len(<<>>) = 0
    BY DEF Wire!Start
  <2> QED BY <1>3, <1>4, <2>1, <2>2 DEF Listing
<1>7. ASSUME NEW n \in Nat, n \in P PROVE n + 1 \in P
  <2> SUFFICES ASSUME n + 1 <= k PROVE Listing(at[n + 1], F, p, n + 1)
    OBVIOUS
  <2>1. n < k /\ n <= k /\ n < MaxFields
    BY <1>5, WireNumbers
  <2>2. Listing(at[n], F, p, n) /\ at[n + 1] = Wire!Turn(b, at[n])
    BY <1>4, <1>7, <2>1
  <2>3. Listing(Wire!Turn(b, at[n]), F, p, n + 1)
    <3> HIDE DEF P
    <3>1. PICK x : x = at[n]
      OBVIOUS
    <3>2. Listing(x, F, p, n)
      BY <2>2, <3>1
    <3>3. Listing(Wire!Turn(b, x), F, p, n + 1)
      BY <1>2, <2>1, <3>2, ListingTurn
    <3> QED BY <3>1, <3>3
  <2> QED BY <2>2, <2>3
<1>8. Listing(at[k], F, p, k)
  <2>1. \A n \in Nat : n \in P
    <3> HIDE DEF P
    <3> QED BY <1>6, <1>7, NatByInduction
  <2> QED BY <1>5, <2>1
<1>9. 0 \in Q
  BY <1>5
<1>10. ASSUME NEW n \in Nat, n \in Q PROVE n + 1 \in Q
  <2> SUFFICES ASSUME k + (n + 1) <= MaxFields PROVE at[k + (n + 1)] = at[k]
    OBVIOUS
  <2>1. k + n \in Nat /\ k + n < MaxFields /\ k + n <= MaxFields /\ k + (n + 1) = (k + n) + 1
    BY <1>5, WireNumbers
  <2>2. at[k + (n + 1)] = Wire!Turn(b, at[k])
    BY <1>4, <1>10, <2>1
  <2>3. at[k].offset >= Len(b)
    <3>1. at[k].offset = Len(b) /\ Len(b) \in Nat
      BY <1>3, <1>8 DEF Listing
    <3> QED BY <3>1
  <2> QED BY <2>2, <2>3, TurnIs
<1>11. at[MaxFields] = at[k]
  <2>1. \A n \in Nat : n \in Q
    <3> HIDE DEF Q
    <3> QED BY <1>9, <1>10, NatByInduction
  <2>2. MaxFields - k \in Nat /\ k + (MaxFields - k) = MaxFields
    BY <1>5, WireNumbers
  <2>3. MaxFields - k \in Q
    <3> HIDE DEF Q
    <3> QED BY <2>1, <2>2
  <2> QED BY <2>2, <2>3, WireNumbers
<1>12. Wire!Walk(b) = at[k].fields
  BY <1>4, <1>11
<1>13. Len(at[k].fields) = k /\ \A m \in 1 .. k : at[k].fields[m] = EntryOf(F[m])
  BY <1>8 DEF Listing
<1> QED BY <1>1, <1>3, <1>12, <1>13

\* Strings that fit are fields that can be written, ...
LEMMA StrFacts ==
  ASSUME NEW n \in 1 .. 39, NEW s \in Seq(Nat), Len(s) < Word
  PROVE  /\ FieldOK(Wire!Str(n, s)) /\ Wire!Str(n, s).field = n /\ Wire!Str(n, s).wire = 2
         /\ Wire!Str(n, s).str = s
<1>1. Wire!Str(n, s).field = n /\ Wire!Str(n, s).wire = 2 /\ Wire!Str(n, s).str = s
  BY DEF Wire!Str
<1> QED BY <1>1 DEF FieldOK

\* ... and so are numbers that fit.
LEMMA NumFacts ==
  ASSUME NEW n \in 1 .. 39, NEW v \in Nat, v < Wire!Power[VarintBytes]
  PROVE  FieldOK(Wire!Num(n, v)) /\ Wire!Num(n, v).field = n
<1>1. /\ Wire!Num(n, v).field = n /\ Wire!Num(n, v).wire = 0 /\ Wire!Num(n, v).num = v
      /\ Wire!Num(n, v).str = <<>>
  BY DEF Wire!Num
<1> QED BY <1>1 DEF FieldOK

\* Strings and stamps, as the messages hold them.
Text(s)  == s \in Seq(Nat) /\ Len(s) < Word
Stamp(v) == v \in Nat /\ v < Wire!Power[VarintBytes]

\* The texts and stamps given fit.
LEMMA GivenFacts ==
  /\ \A s \in Texts : Text(s)
  /\ \A v \in Stamps : Stamp(v)
  /\ Text(<<>>) /\ Stamp(1)
<1>1. Wire!Power[VarintBytes] \in Nat /\ Word <= Wire!Power[VarintBytes]
  BY PowerFacts, WireNumbers, WireAssumption
<1>2. \A s \in Texts : Text(s)
  BY WireAssumption DEF Text
<1>3. ASSUME NEW v \in Stamps PROVE Stamp(v)
  <2>1. v \in 0 .. Wire!Power[VarintBytes] - 1
    BY WireAssumption
  <2> QED BY <1>1, <2>1 DEF Stamp
<1>4. Text(<<>>)
  BY EmptyIsSeq, WireNumbers DEF Text
<1>5. Stamp(1)
  BY <1>1, WireNumbers DEF Stamp
<1> QED BY <1>2, <1>3, <1>4, <1>5

\* A field with such a text can be written, ...
LEMMA StrOK ==
  ASSUME NEW n \in 1 .. 39, NEW s, Text(s)
  PROVE  FieldOK(Wire!Str(n, s))
BY StrFacts DEF Text

\* ... and one with such a stamp.
LEMMA NumOK ==
  ASSUME NEW n \in 1 .. 39, NEW v, Stamp(v)
  PROVE  FieldOK(Wire!Num(n, v))
BY NumFacts DEF Stamp

\* Messages of two such fields, ...
LEMMA TwoFieldsOK ==
  ASSUME NEW a, NEW b, FieldOK(a), FieldOK(b)
  PROVE  FieldsOK(<<a, b>>, 2) /\ Len(<<a, b>>) = 2
<1>1. \A n \in 1 .. 2 : n = 1 \/ n = 2
  OBVIOUS
<1> QED BY <1>1 DEF FieldsOK

\* ... of five, ...
LEMMA FiveFieldsOK ==
  ASSUME NEW a, NEW b, NEW c, NEW d, NEW e,
         FieldOK(a), FieldOK(b), FieldOK(c), FieldOK(d), FieldOK(e)
  PROVE  FieldsOK(<<a, b, c, d, e>>, 5) /\ Len(<<a, b, c, d, e>>) = 5
<1>1. \A n \in 1 .. 5 : n = 1 \/ n = 2 \/ n = 3 \/ n = 4 \/ n = 5
  OBVIOUS
<1> QED BY <1>1 DEF FieldsOK

\* ... and of six.
LEMMA SixFieldsOK ==
  ASSUME NEW a, NEW b, NEW c, NEW d, NEW e, NEW f,
         FieldOK(a), FieldOK(b), FieldOK(c), FieldOK(d), FieldOK(e), FieldOK(f)
  PROVE  FieldsOK(<<a, b, c, d, e, f>>, 6) /\ Len(<<a, b, c, d, e, f>>) = 6
<1>1. \A n \in 1 .. 6 : n = 1 \/ n = 2 \/ n = 3 \/ n = 4 \/ n = 5 \/ n = 6
  OBVIOUS
<1> QED BY <1>1 DEF FieldsOK

\* The nested message of schema 4 has the fields 1 to 6.
LEMMA NestedFields ==
  ASSUME NEW r \in Texts, NEW c \in Texts, NEW x \in Texts, NEW t \in Stamps, NEW d \in Stamps
  PROVE  /\ FieldsOK(Wire!Nested(r, c, x, t, d), 6)
         /\ \A n \in 1 .. 6 : Wire!Nested(r, c, x, t, d)[n].field = n
<1> DEFINE F == Wire!Nested(r, c, x, t, d)
<1>1. Text(r) /\ Text(c) /\ Text(x) /\ Stamp(t) /\ Stamp(d) /\ Stamp(1)
  BY GivenFacts
<1>2. F = <<Wire!Str(1, r), Wire!Str(2, c), Wire!Num(3, 1), Wire!Num(4, t), Wire!Num(5, d),
            Wire!Str(6, x)>>
  BY DEF Wire!Nested
<1>3. /\ FieldOK(Wire!Str(1, r)) /\ FieldOK(Wire!Str(2, c)) /\ FieldOK(Wire!Num(3, 1))
      /\ FieldOK(Wire!Num(4, t)) /\ FieldOK(Wire!Num(5, d)) /\ FieldOK(Wire!Str(6, x))
  BY <1>1, StrOK, NumOK
<1>4. FieldsOK(F, 6)
  BY <1>2, <1>3, SixFieldsOK
<1>5. /\ Wire!Str(1, r).field = 1 /\ Wire!Str(2, c).field = 2 /\ Wire!Num(3, 1).field = 3
      /\ Wire!Num(4, t).field = 4 /\ Wire!Num(5, d).field = 5 /\ Wire!Str(6, x).field = 6
  BY DEF Wire!Str, Wire!Num
<1>6. F[1].field = 1 /\ F[2].field = 2 /\ F[3].field = 3 /\ F[4].field = 4 /\ F[5].field = 5 /\ F[6].field = 6
  BY <1>2, <1>5
<1>7. \A n \in 1 .. 6 : n = 1 \/ n = 2 \/ n = 3 \/ n = 4 \/ n = 5 \/ n = 6
  OBVIOUS
<1> QED BY <1>4, <1>6, <1>7

\* The fields of every schema.
LEMMA VariantFields ==
  ASSUME NEW n \in 2 .. 5, NEW r \in Texts, NEW c \in Texts, NEW x \in Texts,
         NEW t \in Stamps, NEW d \in Stamps
  PROVE  /\ \E k \in 1 .. 6 : /\ FieldsOK(Wire!Variant(n, r, c, x, t, d), k)
                              /\ Len(Wire!Variant(n, r, c, x, t, d)) = k
         /\ n = 4 => /\ Len(Wire!Variant(n, r, c, x, t, d)) = 2
                     /\ Wire!Variant(n, r, c, x, t, d)[2] = Wire!Str(2, Wire!Encode(Wire!Nested(r, c, x, t, d)))
<1> DEFINE F == Wire!Variant(n, r, c, x, t, d)
<1>1. Text(r) /\ Text(c) /\ Text(x) /\ Text(<<>>) /\ Stamp(t) /\ Stamp(d) /\ Stamp(1)
  BY GivenFacts
<1>2. /\ FieldOK(Wire!Str(1, c)) /\ FieldOK(Wire!Num(2, 1)) /\ FieldOK(Wire!Num(1, 1))
      /\ FieldOK(Wire!Str(37, r)) /\ FieldOK(Wire!Str(38, x)) /\ FieldOK(Wire!Str(39, <<>>))
      /\ FieldOK(Wire!Num(33, t)) /\ FieldOK(Wire!Num(34, d))
  BY <1>1, StrOK, NumOK
<1>3. CASE n = 2
  <2>1. F = <<Wire!Str(1, c), Wire!Num(2, 1), Wire!Str(37, r), Wire!Str(38, x), Wire!Str(39, <<>>)>>
    BY <1>3 DEF Wire!Variant
  <2>2. FieldsOK(F, 5) /\ Len(F) = 5
    <3> HIDE DEF F
    <3> QED BY <1>2, <2>1, FiveFieldsOK
  <2> QED BY <1>3, <2>2
<1>4. CASE n = 3
  <2>1. F = <<Wire!Str(1, c), Wire!Num(2, 1), Wire!Num(33, t), Wire!Num(34, d), Wire!Str(37, r)>>
    BY <1>4 DEF Wire!Variant
  <2>2. FieldsOK(F, 5) /\ Len(F) = 5
    <3> HIDE DEF F
    <3> QED BY <1>2, <2>1, FiveFieldsOK
  <2> QED BY <1>4, <2>2
<1>5. CASE n = 4
  <2>1. PICK e : e = Wire!Encode(Wire!Nested(r, c, x, t, d))
    OBVIOUS
  <2>2. F = <<Wire!Num(1, 1), Wire!Str(2, e)>>
    BY <1>5, <2>1 DEF Wire!Variant
  <2>3. Text(e)
    <3>1. e \in Seq(Nat)
      BY <2>1, NestedFields, EncodedIsListed, WireNumbers
    <3>2. Len(e) < Word
      BY <2>1, WireAssumption
    <3> QED BY <3>1, <3>2 DEF Text
  <2>4. FieldOK(Wire!Str(2, e))
    BY <2>3, StrOK
  <2>5. FieldsOK(F, 2) /\ Len(F) = 2
    <3> HIDE DEF F
    <3> QED BY <1>2, <2>2, <2>4, TwoFieldsOK
  <2>6. F[2] = Wire!Str(2, e)
    BY <2>2
  <2> HIDE DEF F
  <2> QED BY <2>1, <2>5, <2>6 DEF F
<1>6. CASE n = 5
  <2>1. F = <<Wire!Str(1, c), Wire!Num(2, 1), Wire!Str(37, r), Wire!Str(38, x),
              Wire!Num(33, t), Wire!Num(34, d)>>
    BY <1>6 DEF Wire!Variant
  <2>2. FieldsOK(F, 6) /\ Len(F) = 6
    <3> HIDE DEF F
    <3> QED BY <1>2, <2>1, SixFieldsOK
  <2> QED BY <1>6, <2>2
<1> QED BY <1>3, <1>4, <1>5, <1>6

\* A variant that was built is summarised field by field.
LEMMA VariantReads ==
  ASSUME NEW v \in Wire!Variants, NEW shape, shape = Wire!Shape(Wire!Encode(Wire!Fields(v)))
  PROVE  /\ Len(shape) = Len(Wire!Fields(v)) /\ DOMAIN shape = 1 .. Len(Wire!Fields(v))
         /\ \A i \in DOMAIN shape : Wire!ListedAs(Wire!Fields(v)[i], shape[i])
         /\ v.n = 4 => Len(shape[2].nested) = 6 /\ \A i \in 1 .. 6 : shape[2].nested[i].field = i
<1>1. PICK n \in 2 .. 5, r \in Texts, c \in Texts, x \in Texts, t \in Stamps, d \in Stamps :
        n = v.n /\ Wire!Fields(v) = Wire!Variant(n, r, c, x, t, d)
  <2>1. /\ v.n \in 2 .. 5 /\ v.receiver \in Texts /\ v.content \in Texts /\ v.xml \in Texts
        /\ v.ts \in Stamps /\ v.id \in Stamps
    BY DEF Wire!Variants
  <2>2. Wire!Fields(v) = Wire!Variant(v.n, v.receiver, v.content, v.xml, v.ts, v.id)
    BY DEF Wire!Fields
  <2> QED BY <2>1, <2>2
<1>2. PICK F : F = Wire!Fields(v)
  OBVIOUS
<1>3. PICK k \in 1 .. 6 : FieldsOK(F, k) /\ Len(F) = k
  BY <1>1, <1>2, VariantFields
<1>4. PICK b : b = Wire!Encode(F)
  OBVIOUS
<1>5. b \in Seq(Nat) /\ Len(Wire!Walk(b)) = k /\ \A m \in 1 .. k : Wire!Walk(b)[m] = EntryOf(F[m])
  <2>1. k <= MaxFields
    BY WireNumbers
  <2> QED BY <1>3, <1>4, <2>1, EncodedIsListed
<1>6. shape = Wire!Shape(b)
  BY <1>2, <1>4
<1>7. /\ Len(shape) = k /\ DOMAIN shape = 1 .. k
      /\ \A i \in 1 .. k :
           /\ shape[i].field = Wire!Walk(b)[i].field
           /\ shape[i].wire = Wire!Walk(b)[i].wire
           /\ shape[i].size = Wire!Walk(b)[i].size
           /\ shape[i].nested = Wire!Walk(Wire!Walk(b)[i].nested)
  BY <1>5, <1>6, ShapeFacts
<1>8. \A f : /\ EntryOf(f).field = f.field /\ EntryOf(f).wire = f.wire
             /\ EntryOf(f).size = Len(f.str)
             /\ f.wire = 2 /\ f.field = 2 => EntryOf(f).nested = f.str
  BY DEF EntryOf, Wire!Listed
<1>9. ASSUME NEW i \in 1 .. k PROVE Wire!ListedAs(F[i], shape[i])
  <2>1. Wire!Walk(b)[i] = EntryOf(F[i])
    BY <1>5
  <2>2. /\ Wire!Walk(b)[i].field = F[i].field
        /\ Wire!Walk(b)[i].wire = F[i].wire
        /\ Wire!Walk(b)[i].size = Len(F[i].str)
    BY <1>8, <2>1, Zenon
  <2>3. /\ shape[i].field = F[i].field
        /\ shape[i].wire = F[i].wire
        /\ shape[i].size = Len(F[i].str)
    BY <1>7, <2>2, Zenon
  <2> QED BY <2>3 DEF Wire!ListedAs
<1>10. ASSUME v.n = 4
       PROVE  Len(shape[2].nested) = 6 /\ \A i \in 1 .. 6 : shape[2].nested[i].field = i
  <2>1. PICK G, e : G = Wire!Nested(r, c, x, t, d) /\ e = Wire!Encode(G)
    OBVIOUS
  <2>2. Len(F) = 2 /\ F[2] = Wire!Str(2, e)
    BY <1>1, <1>2, <1>10, <2>1, VariantFields
  <2>3. F[2].wire = 2 /\ F[2].field = 2 /\ F[2].str = e
    BY <2>2 DEF Wire!Str
  <2>4. 2 \in 1 .. k
    BY <1>3, <2>2
  <2>5. shape[2].nested = Wire!Walk(e)
    <3>1. EntryOf(F[2]).nested = e
      BY <1>8, <2>3
    <3>2. Wire!Walk(b)[2].nested = e
      BY <1>5, <2>4, <3>1
    <3> QED BY <1>7, <2>4, <3>2
  <2>6. Len(Wire!Walk(e)) = 6 /\ \A m \in 1 .. 6 : Wire!Walk(e)[m] = EntryOf(G[m])
    <3>1. FieldsOK(G, 6)
      BY <2>1, NestedFields
    <3> QED BY <2>1, <3>1, EncodedIsListed, WireNumbers
  <2>7. \A m \in 1 .. 6 : G[m].field = m
    BY <2>1, NestedFields
  <2>8. ASSUME NEW i \in 1 .. 6 PROVE shape[2].nested[i].field = i
    BY <1>8, <2>5, <2>6, <2>7
  <2> QED BY <2>5, <2>6, <2>8
<1> QED BY <1>2, <1>3, <1>7, <1>9, <1>10

-----------------------------------------------------------------------------
(* The agent *)

WireInv == input \in Wire!Variants \cup Wire!Raw /\ Wire!ReadsBack /\ Wire!ErrorsAreReal

\* WireInv holds initially, ...
LEMMA WireStart == ASSUME Wire!Init PROVE WireInv
BY DEF Wire!Init, WireInv, Wire!ReadsBack, Wire!ErrorsAreReal

\* ... is kept by steps of the other parts ...
LEMMA WireStutter == ASSUME WireInv, UNCHANGED <<input, output>> PROVE WireInv'
BY DEF WireInv, Wire!ReadsBack, Wire!ErrorsAreReal

\* ... and by those of this one.
LEMMA WireStep == ASSUME WireInv, Wire!Next PROVE WireInv'
<1>1. CASE Wire!Build
  <2>1. /\ input' = input /\ input.kind = "variant"
        /\ output' = Wire!Shape(Wire!Encode(Wire!Fields(input)))
    BY <1>1 DEF Wire!Build
  <2>2. input \in Wire!Variants
    BY <2>1 DEF WireInv, Wire!Raw
  <2>3. /\ Len(output') = Len(Wire!Fields(input)) /\ DOMAIN output' = 1 .. Len(Wire!Fields(input))
        /\ \A i \in DOMAIN output' : Wire!ListedAs(Wire!Fields(input)[i], output'[i])
        /\ input.n = 4 => /\ Len(output'[2].nested) = 6
                          /\ \A i \in 1 .. 6 : output'[2].nested[i].field = i
    BY <2>1, <2>2, VariantReads
  <2>4. Wire!ReadsBack'
    BY <2>1, <2>3 DEF Wire!ReadsBack
  <2>5. Wire!ErrorsAreReal'
    BY <2>1 DEF Wire!ErrorsAreReal
  <2> QED BY <2>1, <2>2, <2>4, <2>5 DEF WireInv
<1>2. CASE Wire!Summarise
  <2>1. input' = input /\ input.kind = "raw" /\ output' = Wire!Shape(input.bytes)
    BY <1>2 DEF Wire!Summarise
  <2>2. input \in Wire!Raw
    BY <2>1 DEF WireInv, Wire!Variants
  <2>3. input.bytes \in Seq(Nat)
    <3>1. PICK k \in Nat : input.bytes \in [1 .. k -> Bytes]
      BY <2>2, WireNumbers DEF Wire!Raw
    <3>2. PICK b \in [1 .. k -> Nat] : b = input.bytes
      BY <3>1, WireNumbers
    <3> QED BY <3>2
  <2>4. Wire!ErrorsAreReal'
    <3> SUFFICES ASSUME output' # <<>>
                 PROVE  LET bad == output'[Len(output')] = Wire!Error
                        IN  /\ bad => ~Wire!IsMessage(input.bytes)
                            /\ ~bad /\ Len(output') < MaxFields => Wire!IsMessage(input.bytes)
      BY <2>1 DEF Wire!ErrorsAreReal
    <3> QED BY <2>1, <2>3, ShapeErrors
  <2>5. Wire!ReadsBack'
    BY <2>1 DEF Wire!ReadsBack
  <2> QED BY <2>1, <2>2, <2>4, <2>5 DEF WireInv
<1> QED BY <1>1, <1>2 DEF Wire!Next

DataInv == (part = "memory" => FindInv) /\ (part = "wire" => WireInv)

\* DataInv holds initially, ...
LEMMA DataInit == Init => DataInv
<1> SUFFICES ASSUME Init PROVE DataInv
  OBVIOUS
<1>1. CASE InitReal \/ InitEncode \/ InitSetup
  <2>1. part \notin {"memory", "wire"}
    BY <1>1 DEF InitReal, InitEncode, InitSetup
  <2> QED BY <2>1 DEF DataInv
<1>2. CASE InitWire
  <2>1. part = "wire" /\ Wire!Init
    BY <1>2, Zenon DEF InitWire
  <2> QED BY <2>1, WireStart DEF DataInv
<1>3. CASE InitMemory
  <2>1. part = "memory" /\ Memory!Init
    BY <1>3, Zenon DEF InitMemory
  <2> QED BY <2>1, FindInit DEF DataInv
<1> QED BY <1>1, <1>2, <1>3, Zenon DEF Init

\* ... each step keeps it, ...
LEMMA DataStep == DataInv /\ [Next]_vars => DataInv'
<1> SUFFICES ASSUME DataInv, [Next]_vars PROVE DataInv'
  OBVIOUS
<1>1. part' = part
  BY Zenon DEF vars, Next, NextReal, NextEncode, NextSetup, NextWire, NextMemory
<1>2. \/ UNCHANGED wireVars
      \/ part = "wire" /\ Wire!Next
  BY Zenon DEF vars, Next, NextReal, NextEncode, NextSetup, NextWire, NextMemory
<1>3. \/ UNCHANGED memoryVars
      \/ part = "memory" /\ Memory!Next
  BY Zenon DEF vars, Next, NextReal, NextEncode, NextSetup, NextWire, NextMemory
<1>4. CASE part = "wire"
  <2>1. WireInv'
    <3>1. CASE UNCHANGED wireVars
      BY <1>4, <3>1, WireStutter DEF DataInv, wireVars
    <3>2. CASE Wire!Next
      BY <1>4, <3>2, WireStep DEF DataInv
    <3> QED BY <1>2, <3>1, <3>2
  <2> QED BY <1>1, <1>4, <2>1 DEF DataInv
<1>5. CASE part = "memory"
  <2>1. FindInv'
    <3>1. CASE UNCHANGED memoryVars
      BY <1>5, <3>1, FindStutter DEF DataInv, memoryVars
    <3>2. CASE Memory!Next
      BY <1>5, <3>2, FindStep DEF DataInv
    <3> QED BY <1>3, <3>1, <3>2
  <2> QED BY <1>1, <1>5, <2>1 DEF DataInv
<1>6. CASE part \notin {"wire", "memory"}
  BY <1>1, <1>6 DEF DataInv
<1> QED BY <1>4, <1>5, <1>6

\* ... so it always holds.
LEMMA DataKept == Spec => []DataInv
<1>1. Init => DataInv
  BY DataInit
<1>2. DataInv /\ [Next]_vars => DataInv'
  BY DataStep
<1> QED BY <1>1, <1>2, PTL DEF Spec

\* findTextRequest finds a request exactly if WeChat's map holds its key and
\* the search is not cut short by its bound of steps (NativeMemory): for maps
\* of any size, built in any order, and any bound.
THEOREM SearchIsExact == Spec => []FindsExactlyMapped
<1>1. DataInv => FindsExactlyMapped
  BY DEF DataInv, FindInv, FindsExactlyMapped
<1> QED BY <1>1, DataKept, PTL

\* summarizeProtoShape reports an error only for bytes that are no message, and
\* misses one only behind the last field it lists: for bytes of any number and
\* value, any radix, and varints of any length.
THEOREM ReportedErrorsAreReal == Spec => []ErrorsAreReal
<1>1. DataInv => ErrorsAreReal
  BY DEF DataInv, WireInv, ErrorsAreReal
<1> QED BY <1>1, DataKept, PTL

\* What buildTextProtoVariant writes in any schema, readProtoVarint and
\* summarizeProtoShape read back field by field: for any strings and stamps a
\* varint can hold.
THEOREM VariantsReadBack == Spec => []ReadsBack
<1>1. DataInv => ReadsBack
  BY DEF DataInv, WireInv, ReadsBack
<1> QED BY <1>1, DataKept, PTL
=============================================================================
