---------------------------- MODULE AgentProofs ----------------------------
(***************************************************************************)
(* Proofs about the mechanisms of the agent, for any number of sends,      *)
(* tasks and attempts: what is written into which task (EncodeInject),     *)
(* texts through WeChat's own factory (RealTextSend), the set-up           *)
(* (HookSetup) and the cloning of a task (NativeMemory).                   *)
(*                                                                         *)
(* The lemmas about EncodeInject and RealTextSend are about all values of  *)
(* their parameters, since MCAgent has several instances of each.          *)
(***************************************************************************)
EXTENDS MCAgent, SequenceTheorems, TLAPS

-----------------------------------------------------------------------------
(* EncodeInject: a text goes into one task at most.  What has been written is *)
(* of a send that was begun, and a text that was written is no longer open. *)

KindsTold ==
  /\ textProto # 0 => kind[textProto] = "text"
  /\ fileProto # 0 => kind[fileProto] = "card"

WrittenBefore(n, m) ==
  /\ textProto <= cur /\ fileProto <= cur
  /\ \A t \in 1 .. (n + m) : payload[t] <= cur

OpenUnwritten(n, m) ==
  ~injected => \A t \in 1 .. (n + m) : payload[t] = textProto => textProto = 0

InjectInv(n, m, f, l) ==
  /\ Inject(n, m, f, l)!TypeOK /\ KindsTold /\ WrittenBefore(n, m) /\ OpenUnwritten(n, m)
  /\ Inject(n, m, f, l)!TextSentAtMostOnce

LEMMA InjectInit ==
  ASSUME NEW n \in Nat, NEW m \in Nat, NEW f, NEW l, Inject(n, m, f, l)!Init
  PROVE  InjectInv(n, m, f, l)
<1>1. /\ pc = "idle" /\ cur = 0 /\ kind = [s \in 1 .. n |-> "none"]
      /\ textProto = 0 /\ fileProto = 0 /\ sendMsgType = "" /\ taskIdGlobal = 0
      /\ stage = [t \in 1 .. (n + m) |-> "none"] /\ payload = [t \in 1 .. (n + m) |-> 0]
  BY DEF Inject!Init, Inject!Sends, Inject!Tasks
<1>2. window = FALSE /\ injected = FALSE
  BY DEF Inject!Init
<1>3. \A t \in 1 .. (n + m) : payload[t] = 0
  BY <1>1
<1>4. KindsTold /\ WrittenBefore(n, m) /\ OpenUnwritten(n, m)
  <2>1. textProto = 0 /\ fileProto = 0 /\ cur = 0
    BY <1>1
  <2> QED BY <1>3, <2>1 DEF KindsTold, WrittenBefore, OpenUnwritten
<1>5. Inject(n, m, f, l)!TextSentAtMostOnce
  BY <1>3 DEF Inject!TextSentAtMostOnce, Inject!Sends, Inject!Tasks
<1>6. Inject(n, m, f, l)!TypeOK
  <2>1. /\ pc \in {"idle", "calling", "queued", "waiting"} /\ cur \in 0 .. n
        /\ textProto \in (1 .. n) \cup {0} /\ fileProto \in (1 .. n) \cup {0}
        /\ sendMsgType \in {"", "mini_program"} /\ taskIdGlobal \in (1 .. n) \cup {0}
    <3>1. 0 \in 0 .. n /\ 0 \in (1 .. n) \cup {0}
      OBVIOUS
    <3> QED BY <1>1, <3>1, Zenon
  <2>2. kind \in [1 .. n -> {"none", "text", "card"}]
    BY <1>1
  <2>3. stage \in [1 .. (n + m) -> {"none", "queued", "encoded"}]
    BY <1>1, Zenon
  <2>4. payload \in [1 .. (n + m) -> (1 .. n) \cup {0}]
    <3>1. 0 \in (1 .. n) \cup {0}
      OBVIOUS
    <3> QED BY <1>1, <3>1, Zenon
  <2>5. window \in BOOLEAN /\ injected \in BOOLEAN /\ (window => textProto # 0)
    BY <1>2
  <2> QED BY <2>1, <2>2, <2>3, <2>4, <2>5, Zenon DEF Inject!TypeOK, Inject!Sends, Inject!Tasks
<1> QED BY <1>4, <1>5, <1>6 DEF InjectInv

LEMMA InjectTypes ==
  ASSUME NEW n \in Nat, NEW m \in Nat, NEW f, NEW l, Inject(n, m, f, l)!TypeOK
  PROVE  /\ pc \in {"idle", "calling", "queued", "waiting"} /\ cur \in 0 .. n /\ cur \in Nat
         /\ kind \in [1 .. n -> {"none", "text", "card"}]
         /\ textProto \in 0 .. n /\ fileProto \in 0 .. n /\ taskIdGlobal \in 0 .. n
         /\ stage \in [1 .. (n + m) -> {"none", "queued", "encoded"}]
         /\ payload \in [1 .. (n + m) -> 0 .. n]
         /\ (1 .. n) \cup {0} = 0 .. n
<1>1. (1 .. n) \cup {0} = 0 .. n
  OBVIOUS
<1>2. /\ pc \in {"idle", "calling", "queued", "waiting"} /\ cur \in 0 .. n
      /\ kind \in [1 .. n -> {"none", "text", "card"}]
      /\ textProto \in (1 .. n) \cup {0} /\ fileProto \in (1 .. n) \cup {0}
      /\ taskIdGlobal \in (1 .. n) \cup {0}
      /\ stage \in [1 .. (n + m) -> {"none", "queued", "encoded"}]
      /\ payload \in [1 .. (n + m) -> (1 .. n) \cup {0}]
  BY Zenon DEF Inject!TypeOK, Inject!Sends, Inject!Tasks
<1>3. payload \in [1 .. (n + m) -> 0 .. n]
  BY <1>1, <1>2
<1> QED BY <1>1, <1>2, <1>3

\* A step of the worker that begins a send of kind k.
LEMMA InjectNextSend ==
  ASSUME NEW n \in Nat, NEW m \in Nat, NEW f, NEW l, NEW k \in {"text", "card"},
         InjectInv(n, m, f, l), Inject(n, m, f, l)!NextSend(k), UNCHANGED <<stage, payload>>,
         \/ k = "text" /\ textProto' = cur' /\ fileProto' = fileProto
         \/ k = "card" /\ fileProto' = cur' /\ textProto' = textProto /\ injected' = injected
  PROVE  /\ KindsTold' /\ WrittenBefore(n, m)' /\ OpenUnwritten(n, m)'
         /\ Inject(n, m, f, l)!TextSentAtMostOnce'
         /\ pc' = "calling" /\ cur' \in 1 .. n /\ taskIdGlobal' \in 1 .. n
         /\ kind' \in [1 .. n -> {"none", "text", "card"}]
<1>1. /\ pc \in {"idle", "calling", "queued", "waiting"} /\ cur \in 0 .. n /\ cur \in Nat
      /\ kind \in [1 .. n -> {"none", "text", "card"}]
      /\ textProto \in 0 .. n /\ fileProto \in 0 .. n
      /\ payload \in [1 .. (n + m) -> 0 .. n]
  BY InjectTypes DEF InjectInv
<1>2. /\ cur < n /\ cur' = cur + 1 /\ kind' = [kind EXCEPT ![cur + 1] = k]
      /\ taskIdGlobal' = cur + 1 /\ pc' = "calling"
  BY DEF Inject!NextSend
<1>3. cur' \in 1 .. n /\ \A s \in 1 .. n : kind'[s] = IF s = cur' THEN k ELSE kind[s]
  BY <1>1, <1>2
<1>4. /\ textProto <= cur /\ fileProto <= cur /\ \A t \in 1 .. (n + m) : payload[t] <= cur
      /\ payload' = payload
  BY DEF InjectInv, WrittenBefore
<1>5. KindsTold'
  <2>1. /\ textProto # 0 => kind[textProto] = "text"
        /\ fileProto # 0 => kind[fileProto] = "card"
    BY Zenon DEF InjectInv, KindsTold
  <2>2. /\ textProto # 0 => textProto \in 1 .. n /\ textProto # cur'
        /\ fileProto # 0 => fileProto \in 1 .. n /\ fileProto # cur'
    BY <1>1, <1>2, <1>4
  <2>3. /\ textProto # 0 => kind'[textProto] = "text"
        /\ fileProto # 0 => kind'[fileProto] = "card"
    BY <1>3, <2>1, <2>2, Zenon
  <2>4. kind'[cur'] = k
    BY <1>3, Zenon
  <2> QED BY <2>3, <2>4, Zenon DEF KindsTold
<1>6. WrittenBefore(n, m)'
  BY <1>1, <1>2, <1>4 DEF WrittenBefore
<1>7. OpenUnwritten(n, m)'
  <2>1. CASE textProto' = cur'
    BY <2>1, <1>1, <1>2, <1>4 DEF OpenUnwritten
  <2>2. CASE textProto' = textProto /\ injected' = injected
    BY <2>2, <1>4, Zenon DEF InjectInv, OpenUnwritten
  <2> QED BY <2>1, <2>2
<1>8. Inject(n, m, f, l)!TextSentAtMostOnce'
  <2>1. \A s \in 1 .. n, t, u \in 1 .. (n + m) :
          kind[s] = "text" /\ payload[t] = s /\ payload[u] = s => t = u
    BY DEF InjectInv, Inject!TextSentAtMostOnce, Inject!Sends, Inject!Tasks
  <2>2. \A s \in 1 .. n, t \in 1 .. (n + m) : payload'[t] = s => payload[t] = s /\ kind'[s] = kind[s]
    BY <1>1, <1>2, <1>3, <1>4
  <2> QED BY <2>1, <2>2 DEF Inject!TextSentAtMostOnce, Inject!Sends, Inject!Tasks
<1> QED BY <1>1, <1>2, <1>3, <1>5, <1>6, <1>7, <1>8

\* WeChat serialises a task.
LEMMA InjectEncode ==
  ASSUME NEW n \in Nat, NEW m \in Nat, NEW f, NEW l, NEW t \in 1 .. (n + m),
         InjectInv(n, m, f, l), Inject(n, m, f, l)!Encode(t)
  PROVE  InjectInv(n, m, f, l)'
<1>1. /\ pc \in {"idle", "calling", "queued", "waiting"} /\ cur \in 0 .. n /\ cur \in Nat
      /\ kind \in [1 .. n -> {"none", "text", "card"}]
      /\ textProto \in 0 .. n /\ fileProto \in 0 .. n /\ taskIdGlobal \in 0 .. n
      /\ stage \in [1 .. (n + m) -> {"none", "queued", "encoded"}]
      /\ payload \in [1 .. (n + m) -> 0 .. n] /\ (1 .. n) \cup {0} = 0 .. n
  BY InjectTypes DEF InjectInv
<1>2. /\ stage' = [stage EXCEPT ![t] = "encoded"]
      /\ taskIdGlobal' \in {0, taskIdGlobal}
      /\ pc' = pc /\ cur' = cur /\ kind' = kind
      /\ textProto' = textProto /\ fileProto' = fileProto /\ sendMsgType' = sendMsgType
  BY DEF Inject!Encode, Inject!protoVars
<1>3. window' = window
  BY DEF Inject!Encode
<1>4. /\ textProto <= cur /\ fileProto <= cur
      /\ \A u \in 1 .. (n + m) : payload[u] <= cur
  BY DEF InjectInv, WrittenBefore
<1>5. \A s \in 1 .. n, u, v \in 1 .. (n + m) :
        kind[s] = "text" /\ payload[u] = s /\ payload[v] = s => u = v
  BY DEF InjectInv, Inject!TextSentAtMostOnce, Inject!Sends, Inject!Tasks
<1>6. window => textProto # 0
  BY Zenon DEF InjectInv, Inject!TypeOK
<1>7. window \in BOOLEAN /\ injected \in BOOLEAN
  BY Zenon DEF InjectInv, Inject!TypeOK
<1>8. PICK p \in {textProto, fileProto, 0} : payload' = [payload EXCEPT ![t] = p]
  BY Zenon DEF Inject!Encode, Inject!BlrX8Payload
<1>9. \/ window /\ ~injected /\ injected' /\ payload' = [payload EXCEPT ![t] = textProto]
      \/ injected' = injected /\ \E q \in {fileProto, 0} : payload' = [payload EXCEPT ![t] = q]
  <2>1. CASE Inject(n, m, f, l)!BlrX8Payload(t) # 0
    <3>1. injected' = injected
      BY <2>1, <1>7, Zenon DEF Inject!Encode
    <3>2. \E q \in {fileProto, 0} : payload' = [payload EXCEPT ![t] = q]
      BY <2>1, Zenon DEF Inject!Encode, Inject!BlrX8Payload
    <3> QED BY <3>1, <3>2
  <2>2. CASE Inject(n, m, f, l)!BlrX8Payload(t) = 0 /\ window /\ ~injected
    BY <2>2, Zenon DEF Inject!Encode, Inject!Hit
  <2>3. CASE Inject(n, m, f, l)!BlrX8Payload(t) = 0 /\ ~(window /\ ~injected)
    <3>1. injected' = injected
      BY <2>3, <1>7, Zenon DEF Inject!Encode, Inject!Hit
    <3>2. payload' = [payload EXCEPT ![t] = 0]
      BY <2>3, Zenon DEF Inject!Encode, Inject!Hit
    <3> QED BY <3>1, <3>2
  <2> QED BY <2>1, <2>2, <2>3
<1>10. \A u \in 1 .. (n + m) : payload'[u] = IF u = t THEN p ELSE payload[u]
  BY <1>1, <1>8
<1>11. KindsTold' /\ WrittenBefore(n, m)'
  BY <1>1, <1>2, <1>4, <1>8, <1>10 DEF InjectInv, KindsTold, WrittenBefore
<1>12. OpenUnwritten(n, m)' /\ Inject(n, m, f, l)!TextSentAtMostOnce'
  <2>1. CASE window /\ ~injected /\ injected' /\ payload' = [payload EXCEPT ![t] = textProto]
    <3>1. \A u \in 1 .. (n + m) : payload'[u] = IF u = t THEN textProto ELSE payload[u]
      BY <1>1, <2>1
    <3>2. \A u \in 1 .. (n + m) : payload[u] # textProto
      BY <2>1, <1>6 DEF InjectInv, OpenUnwritten
    <3>3. \A s \in 1 .. n, u, v \in 1 .. (n + m) :
            kind'[s] = "text" /\ payload'[u] = s /\ payload'[v] = s => u = v
      BY <3>1, <3>2, <1>5, <1>2
    <3> QED BY <3>3, <2>1 DEF OpenUnwritten, Inject!TextSentAtMostOnce, Inject!Sends, Inject!Tasks
  <2>2. ASSUME injected' = injected, NEW q \in {fileProto, 0}, payload' = [payload EXCEPT ![t] = q]
        PROVE  OpenUnwritten(n, m)' /\ Inject(n, m, f, l)!TextSentAtMostOnce'
    <3>1. \A u \in 1 .. (n + m) : payload'[u] = IF u = t THEN q ELSE payload[u]
      BY <1>1, <2>2
    <3>2. /\ textProto # 0 => kind[textProto] = "text"
          /\ fileProto # 0 => kind[fileProto] = "card"
      BY DEF InjectInv, KindsTold
    <3>3. \A s \in 1 .. n, u, v \in 1 .. (n + m) :
            kind'[s] = "text" /\ payload'[u] = s /\ payload'[v] = s => u = v
      BY <3>1, <3>2, <1>5, <1>2
    <3>4. q = textProto => textProto = 0
      BY <3>2
    <3>5. OpenUnwritten(n, m)'
      <4>1. SUFFICES ASSUME ~injected, NEW u \in 1 .. (n + m), payload'[u] = textProto
                     PROVE  textProto = 0
        BY <1>2, <2>2, Zenon DEF OpenUnwritten
      <4>2. CASE u = t
        BY <4>1, <4>2, <3>1, <3>4
      <4>3. CASE u # t
        BY <4>1, <4>3, <3>1, Zenon DEF InjectInv, OpenUnwritten
      <4> QED BY <4>2, <4>3
    <3> QED BY <3>3, <3>5 DEF Inject!TextSentAtMostOnce, Inject!Sends, Inject!Tasks
  <2> QED BY <2>1, <2>2, <1>9
<1>13. Inject(n, m, f, l)!TypeOK'
  <2>1. stage' \in [1 .. (n + m) -> {"none", "queued", "encoded"}]
    BY <1>1, <1>2
  <2>2. payload' \in [1 .. (n + m) -> (1 .. n) \cup {0}]
    BY <1>1, <1>8, <1>10
  <2>3. taskIdGlobal' \in (1 .. n) \cup {0}
    BY <1>1, <1>2
  <2>4. injected' \in BOOLEAN
    BY <1>7, <1>9, Zenon
  <2>5. sendMsgType \in {"", "mini_program"}
    BY Zenon DEF InjectInv, Inject!TypeOK
  <2> QED BY <2>1, <2>2, <2>3, <2>4, <2>5, <1>1, <1>2, <1>3, <1>6, <1>7, Zenon
          DEF Inject!TypeOK, Inject!Sends, Inject!Tasks
<1> QED BY <1>11, <1>12, <1>13 DEF InjectInv

\* Steps that begin no send and write nothing.
LEMMA InjectOther ==
  ASSUME NEW n \in Nat, NEW m \in Nat, NEW f, NEW l, InjectInv(n, m, f, l),
         UNCHANGED <<cur, kind, injected, textProto, fileProto, sendMsgType, taskIdGlobal, payload>>,
         window' \in {window, FALSE}, pc' \in {"idle", "calling", "queued", "waiting"},
         stage' \in [1 .. (n + m) -> {"none", "queued", "encoded"}]
  PROVE  InjectInv(n, m, f, l)'
<1>1. KindsTold' /\ WrittenBefore(n, m)' /\ OpenUnwritten(n, m)'
  BY DEF InjectInv, KindsTold, WrittenBefore, OpenUnwritten
<1>2. Inject(n, m, f, l)!TextSentAtMostOnce'
  BY DEF InjectInv, Inject!TextSentAtMostOnce
<1>3. window' \in BOOLEAN /\ (window' => window)
  <2>1. window \in BOOLEAN
    BY Zenon DEF InjectInv, Inject!TypeOK
  <2>2. CASE window' = window
    BY <2>1, <2>2, Zenon
  <2>3. CASE window' = FALSE
    BY <2>3, Zenon
  <2> QED BY <2>2, <2>3
<1>4. Inject(n, m, f, l)!TypeOK'
  BY <1>3, Zenon DEF InjectInv, Inject!TypeOK, Inject!Sends, Inject!Tasks
<1> QED BY <1>1, <1>2, <1>4, Zenon DEF InjectInv

LEMMA InjectStep ==
  ASSUME NEW n \in Nat, NEW m \in Nat, NEW f, NEW l, InjectInv(n, m, f, l), Inject(n, m, f, l)!Next
  PROVE  InjectInv(n, m, f, l)'
<1>1. /\ pc \in {"idle", "calling", "queued", "waiting"} /\ cur \in 0 .. n
      /\ stage \in [1 .. (n + m) -> {"none", "queued", "encoded"}]
  BY InjectTypes DEF InjectInv
<1>2. CASE Inject(n, m, f, l)!TriggerText
  <2>1. /\ Inject(n, m, f, l)!NextSend("text") /\ UNCHANGED <<stage, payload>>
        /\ textProto' = cur' /\ fileProto' = fileProto /\ sendMsgType' = sendMsgType
    BY <1>2 DEF Inject!TriggerText
  <2>2. window' = TRUE /\ injected' = FALSE
    BY <1>2 DEF Inject!TriggerText
  <2>3. /\ KindsTold' /\ WrittenBefore(n, m)' /\ OpenUnwritten(n, m)'
        /\ Inject(n, m, f, l)!TextSentAtMostOnce'
    BY <2>1, InjectNextSend, Zenon
  <2>4. /\ pc' = "calling" /\ cur' \in 1 .. n /\ taskIdGlobal' \in 1 .. n
        /\ kind' \in [1 .. n -> {"none", "text", "card"}]
    BY <2>1, InjectNextSend, Zenon
  <2>5. cur' \in 0 .. n /\ textProto' # 0
    BY <2>1, <2>4
  <2>6. Inject(n, m, f, l)!TypeOK'
    BY <2>1, <2>2, <2>4, <2>5, Zenon DEF InjectInv, Inject!TypeOK, Inject!Sends, Inject!Tasks
  <2> QED BY <2>3, <2>6, Zenon DEF InjectInv
<1>3. CASE Inject(n, m, f, l)!TriggerCard
  <2>1. /\ Inject(n, m, f, l)!NextSend("card") /\ UNCHANGED <<stage, payload>>
        /\ fileProto' = cur' /\ sendMsgType' = "mini_program" /\ textProto' = textProto
    BY <1>3 DEF Inject!TriggerCard
  <2>2. window' = window /\ injected' = injected
    BY <1>3 DEF Inject!TriggerCard
  <2>3. /\ KindsTold' /\ WrittenBefore(n, m)' /\ OpenUnwritten(n, m)'
        /\ Inject(n, m, f, l)!TextSentAtMostOnce'
    BY <2>1, <2>2, InjectNextSend, Zenon
  <2>4. /\ pc' = "calling" /\ cur' \in 1 .. n /\ taskIdGlobal' \in 1 .. n
        /\ kind' \in [1 .. n -> {"none", "text", "card"}]
    BY <2>1, <2>2, InjectNextSend, Zenon
  <2>5. cur' \in 0 .. n
    BY <2>4
  <2>6. Inject(n, m, f, l)!TypeOK'
    BY <2>1, <2>2, <2>4, <2>5, Zenon DEF InjectInv, Inject!TypeOK, Inject!Sends, Inject!Tasks
  <2> QED BY <2>3, <2>6, Zenon DEF InjectInv
<1>4. CASE Inject(n, m, f, l)!StartTask
  <2>1. stage' \in [1 .. (n + m) -> {"none", "queued", "encoded"}]
    BY <1>1, <1>4 DEF Inject!StartTask
  <2> QED BY <2>1, <1>4, InjectOther, Zenon DEF Inject!StartTask, Inject!protoVars
<1>5. CASE Inject(n, m, f, l)!StartTaskReturns \/ Inject(n, m, f, l)!StartTaskFaults
           \/ Inject(n, m, f, l)!Answered \/ Inject(n, m, f, l)!WindowCloses
  BY <1>1, <1>5, InjectOther, Zenon
     DEF Inject!StartTaskReturns, Inject!StartTaskFaults, Inject!Answered, Inject!WindowCloses,
         Inject!protoVars
<1>6. ASSUME NEW t \in 1 .. (n + m), Inject(n, m, f, l)!OwnTask(t)
      PROVE  InjectInv(n, m, f, l)'
  <2>1. stage' \in [1 .. (n + m) -> {"none", "queued", "encoded"}]
    BY <1>1, <1>6 DEF Inject!OwnTask
  <2> QED BY <2>1, <1>1, <1>6, InjectOther, Zenon DEF Inject!OwnTask, Inject!protoVars
<1>7. ASSUME NEW t \in 1 .. (n + m), Inject(n, m, f, l)!Encode(t)
      PROVE  InjectInv(n, m, f, l)'
  BY <1>7, InjectEncode
<1> QED BY <1>2, <1>3, <1>4, <1>5, <1>6, <1>7, Zenon DEF Inject!Next, Inject!Tasks

LEMMA InjectStutter ==
  ASSUME NEW n \in Nat, NEW m \in Nat, NEW f, NEW l, InjectInv(n, m, f, l),
         UNCHANGED <<encodeVars, callerVars>>
  PROVE  InjectInv(n, m, f, l)'
<1>1. /\ pc \in {"idle", "calling", "queued", "waiting"}
      /\ stage \in [1 .. (n + m) -> {"none", "queued", "encoded"}]
  BY InjectTypes DEF InjectInv
<1> QED BY <1>1, InjectOther, Zenon DEF encodeVars, callerVars

-----------------------------------------------------------------------------
(* EncodeInject when nothing goes wrong: the only task ever queued is that of *)
(* the send in progress, and what the hooks hold then is of that send.       *)

Open(n) == Inject(n, 0, FALSE, FALSE)!Hit

OneTask(n) ==
  /\ pc # "idle" => cur # 0
  /\ pc = "calling" => stage[cur] = "none"
  /\ pc \in {"queued", "waiting"} => stage[cur] # "none"
  /\ \A s \in 1 .. n : s > cur => stage[s] = "none"
  /\ \A s \in 1 .. n : stage[s] = "queued" => s = cur /\ pc # "idle"

AfterCard(n, s) == Inject(n, 0, FALSE, FALSE)!AfterCard(s)

\* The kind is only ever set by a card.
KindFromCard(n) ==
  sendMsgType = "mini_program" => \E c \in 1 .. n : c <= cur /\ kind[c] = "card"

HeldForCurrent(n) ==
  pc # "idle" /\ stage[cur] # "encoded" =>
    \/ kind[cur] = "card" /\ fileProto = cur /\ taskIdGlobal = cur /\ sendMsgType = "mini_program"
    \/ kind[cur] = "text" /\ Open(n) /\ textProto = cur /\ sendMsgType # "mini_program"
    \/ kind[cur] = "text" /\ AfterCard(n, cur)

TimelyInv(n) ==
  /\ InjectInv(n, 0, FALSE, FALSE) /\ OneTask(n) /\ KindFromCard(n) /\ HeldForCurrent(n)
  /\ Inject(n, 0, FALSE, FALSE)!OwnPayload

LEMMA TimelyInit ==
  ASSUME NEW n \in Nat, Inject(n, 0, FALSE, FALSE)!Init
  PROVE  TimelyInv(n)
<1>1. InjectInv(n, 0, FALSE, FALSE)
  BY InjectInit
<1>2. pc = "idle" /\ stage = [t \in 1 .. (n + 0) |-> "none"]
  BY Zenon DEF Inject!Init, Inject!Tasks
<1>3. \A s \in 1 .. n : stage[s] = "none"
  BY <1>2
<1>4. sendMsgType # "mini_program"
  BY Zenon DEF Inject!Init
<1> QED BY <1>1, <1>2, <1>3, <1>4
        DEF TimelyInv, OneTask, KindFromCard, HeldForCurrent, Inject!OwnPayload, Inject!Sends

\* A send that is beginning changes nothing behind it.
LEMMA TimelyBegins ==
  ASSUME NEW n \in Nat, TimelyInv(n), NEW k \in {"text", "card"},
         Inject(n, 0, FALSE, FALSE)!NextSend(k), UNCHANGED <<stage, payload>>
  PROVE  /\ OneTask(n)' /\ Inject(n, 0, FALSE, FALSE)!OwnPayload'
         /\ cur' \in 1 .. n /\ kind'[cur'] = k /\ taskIdGlobal' = cur'
         /\ \A c \in 1 .. n : c <= cur => c < cur' /\ c <= cur' /\ kind'[c] = kind[c]
<1>1. /\ pc \in {"idle", "calling", "queued", "waiting"} /\ cur \in 0 .. n
      /\ stage \in [1 .. n -> {"none", "queued", "encoded"}]
      /\ kind \in [1 .. n -> {"none", "text", "card"}]
  <2>1. n + 0 = n
    OBVIOUS
  <2> QED BY <2>1, InjectTypes DEF TimelyInv, InjectInv
<1>2. OneTask(n)
  BY DEF TimelyInv
<1>3. /\ pc = "idle" /\ cur < n /\ cur' = cur + 1 /\ taskIdGlobal' = cur' /\ pc' = "calling"
      /\ kind' = [kind EXCEPT ![cur + 1] = k]
  BY DEF Inject!NextSend
<1>4. /\ cur' \in 1 .. n /\ kind'[cur'] = k
      /\ \A c \in 1 .. n : c <= cur => c < cur' /\ c <= cur' /\ kind'[c] = kind[c]
  BY <1>1, <1>3
<1>5. \A s \in 1 .. n : stage[s] = "encoded" => s <= cur
  BY <1>1, <1>2 DEF OneTask
<1>6. OneTask(n)'
  <2>1. stage'[cur'] = "none" /\ cur' # 0
    BY <1>1, <1>2, <1>3 DEF OneTask
  <2> QED BY <1>1, <1>2, <1>3, <2>1 DEF OneTask
<1>7. Inject(n, 0, FALSE, FALSE)!OwnPayload'
  <2>1. SUFFICES ASSUME NEW s \in 1 .. n, stage[s] = "encoded",
                        kind'[s] = "text" => ~\E c \in 1 .. n : c < s /\ kind'[c] = "card"
                 PROVE  payload[s] = s
    BY DEF Inject!OwnPayload, Inject!AfterCard, Inject!Sends
  <2>2. \A c \in 1 .. n : c < s => kind'[c] = kind[c]
    BY <1>1, <1>4, <1>5, <2>1
  <2>3. kind'[s] = kind[s]
    BY <1>4, <1>5, <2>1
  <2> QED BY <2>1, <2>2, <2>3 DEF TimelyInv, Inject!OwnPayload, Inject!AfterCard, Inject!Sends
<1> QED BY <1>3, <1>4, <1>6, <1>7

LEMMA TimelyStep ==
  ASSUME NEW n \in Nat, TimelyInv(n), Inject(n, 0, FALSE, FALSE)!Next
  PROVE  TimelyInv(n)'
<1>1. InjectInv(n, 0, FALSE, FALSE)'
  BY InjectStep DEF TimelyInv
<1>2. /\ pc \in {"idle", "calling", "queued", "waiting"} /\ cur \in 0 .. n
      /\ stage \in [1 .. n -> {"none", "queued", "encoded"}]
      /\ payload \in [1 .. n -> 0 .. n]
  <2>1. n + 0 = n
    OBVIOUS
  <2> QED BY <2>1, InjectTypes DEF TimelyInv, InjectInv
<1>3. OneTask(n) /\ KindFromCard(n) /\ HeldForCurrent(n)
  BY DEF TimelyInv
<1>4. \A s \in 1 .. n :
        stage[s] = "encoded" /\ (kind[s] = "text" => ~AfterCard(n, s)) => payload[s] = s
  BY DEF TimelyInv, Inject!OwnPayload, Inject!Sends, AfterCard
<1>5. window \in BOOLEAN /\ injected \in BOOLEAN
  BY Zenon DEF TimelyInv, InjectInv, Inject!TypeOK
<1>7. CASE Inject(n, 0, FALSE, FALSE)!TriggerText
  <2>1. /\ Inject(n, 0, FALSE, FALSE)!NextSend("text") /\ UNCHANGED <<stage, payload>>
        /\ textProto' = cur' /\ sendMsgType' = sendMsgType
    BY <1>7 DEF Inject!TriggerText
  <2>2. Open(n)'
    BY <1>7, Zenon DEF Inject!TriggerText, Open, Inject!Hit
  <2>3. /\ OneTask(n)' /\ Inject(n, 0, FALSE, FALSE)!OwnPayload'
        /\ cur' \in 1 .. n /\ kind'[cur'] = "text"
        /\ \A c \in 1 .. n : c <= cur => c < cur' /\ c <= cur' /\ kind'[c] = kind[c]
    BY <2>1, TimelyBegins
  <2>4. KindFromCard(n)'
    BY <1>3, <2>1, <2>3 DEF KindFromCard
  <2>5. HeldForCurrent(n)'
    <3>1. CASE sendMsgType = "mini_program"
      <4>1. AfterCard(n, cur)'
        BY <1>3, <2>3, <3>1 DEF KindFromCard, AfterCard, Inject!AfterCard, Inject!Sends
      <4> QED BY <2>3, <4>1, Zenon DEF HeldForCurrent
    <3>2. CASE sendMsgType # "mini_program"
      BY <2>1, <2>2, <2>3, <3>2, Zenon DEF HeldForCurrent
    <3> QED BY <3>1, <3>2
  <2> QED BY <1>1, <2>3, <2>4, <2>5, Zenon DEF TimelyInv
<1>8. CASE Inject(n, 0, FALSE, FALSE)!TriggerCard
  <2>1. /\ Inject(n, 0, FALSE, FALSE)!NextSend("card") /\ UNCHANGED <<stage, payload>>
        /\ fileProto' = cur' /\ sendMsgType' = "mini_program"
    BY <1>8 DEF Inject!TriggerCard
  <2>2. /\ OneTask(n)' /\ Inject(n, 0, FALSE, FALSE)!OwnPayload'
        /\ cur' \in 1 .. n /\ kind'[cur'] = "card" /\ taskIdGlobal' = cur'
    BY <2>1, TimelyBegins
  <2>3. KindFromCard(n)'
    BY <2>2 DEF KindFromCard
  <2>4. HeldForCurrent(n)'
    BY <2>1, <2>2, Zenon DEF HeldForCurrent
  <2> QED BY <1>1, <2>2, <2>3, <2>4, Zenon DEF TimelyInv
<1>9. CASE Inject(n, 0, FALSE, FALSE)!StartTask
  <2>1. /\ pc = "calling" /\ pc' = "queued" /\ stage' = [stage EXCEPT ![cur] = "queued"]
        /\ UNCHANGED <<cur, kind, textProto, fileProto, sendMsgType, taskIdGlobal, payload>>
    BY <1>9 DEF Inject!StartTask, Inject!protoVars
  <2>2. Open(n)' <=> Open(n)
    BY <1>9, Zenon DEF Inject!StartTask, Open, Inject!Hit
  <2>3. cur \in 1 .. n
    BY <1>2, <1>3, <2>1 DEF OneTask
  <2>4. /\ stage[cur] = "none"
        /\ \A s \in 1 .. n : stage'[s] = IF s = cur THEN "queued" ELSE stage[s]
    BY <1>2, <1>3, <2>1, <2>3 DEF OneTask
  <2>5. OneTask(n)'
    BY <1>2, <1>3, <2>1, <2>3, <2>4 DEF OneTask
  <2>6. pc # "idle" /\ stage[cur] # "encoded" /\ pc' # "idle" /\ stage'[cur'] # "encoded"
    BY <2>1, <2>3, <2>4
  <2>7. HeldForCurrent(n)'
    BY <1>3, <2>1, <2>2, <2>6, Zenon DEF HeldForCurrent, AfterCard, Inject!AfterCard
  <2>8. Inject(n, 0, FALSE, FALSE)!OwnPayload'
    <3>1. \A s \in 1 .. n : stage'[s] = "encoded" => stage[s] = "encoded"
      BY <2>4
    <3> QED BY <1>4, <2>1, <3>1, Zenon DEF Inject!OwnPayload, Inject!Sends, AfterCard, Inject!AfterCard
  <2>9. KindFromCard(n)'
    BY <1>3, <2>1, Zenon DEF KindFromCard
  <2> QED BY <1>1, <2>5, <2>7, <2>8, <2>9, Zenon DEF TimelyInv
<1>10. ASSUME UNCHANGED <<cur, kind, textProto, fileProto, sendMsgType, taskIdGlobal, stage, payload>>,
              \/ pc = "queued" /\ pc' = "waiting" /\ (Open(n)' <=> Open(n))
              \/ pc = "waiting" /\ stage[cur] = "encoded" /\ pc' = "idle"
              \/ pc \in {"idle", "waiting"} /\ stage[cur] # "queued" /\ pc' = pc
       PROVE  TimelyInv(n)'
  <2>1. OneTask(n)'
    BY <1>2, <1>3, <1>10 DEF OneTask
  <2>2. pc = "waiting" => cur \in 1 .. n /\ stage[cur] \in {"queued", "encoded"}
    BY <1>2, <1>3 DEF OneTask
  <2>3. HeldForCurrent(n)'
    <3>1. CASE pc = "queued" /\ pc' = "waiting" /\ (Open(n)' <=> Open(n))
      BY <1>3, <1>10, <3>1, Zenon DEF HeldForCurrent, AfterCard, Inject!AfterCard
    <3>2. CASE pc = "waiting" /\ stage[cur] = "encoded" /\ pc' = "idle"
      BY <3>2, Zenon DEF HeldForCurrent
    <3>3. CASE pc \in {"idle", "waiting"} /\ stage[cur] # "queued" /\ pc' = pc
      <4>1. pc' = "idle" \/ stage'[cur'] = "encoded"
        BY <1>10, <2>2, <3>3
      <4> QED BY <4>1, Zenon DEF HeldForCurrent
    <3> QED BY <1>10, <3>1, <3>2, <3>3
  <2>4. KindFromCard(n)'
    BY <1>3, <1>10, Zenon DEF KindFromCard
  <2>5. Inject(n, 0, FALSE, FALSE)!OwnPayload'
    BY <1>4, <1>10, Zenon DEF Inject!OwnPayload, Inject!Sends, AfterCard, Inject!AfterCard
  <2> QED BY <1>1, <2>1, <2>3, <2>4, <2>5, Zenon DEF TimelyInv
<1>11. CASE Inject(n, 0, FALSE, FALSE)!StartTaskReturns
  <2>1. Open(n)' <=> Open(n)
    BY <1>11, Zenon DEF Inject!StartTaskReturns, Open, Inject!Hit
  <2>2. /\ UNCHANGED <<cur, kind, textProto, fileProto, sendMsgType, taskIdGlobal, stage, payload>>
        /\ pc = "queued" /\ pc' = "waiting"
    BY <1>11, Zenon DEF Inject!StartTaskReturns, Inject!protoVars
  <2> QED BY <2>1, <2>2, <1>10, Zenon
<1>12. CASE Inject(n, 0, FALSE, FALSE)!Answered
  <2>1. /\ UNCHANGED <<cur, kind, textProto, fileProto, sendMsgType, taskIdGlobal, stage, payload>>
        /\ pc = "waiting" /\ pc' = "idle" /\ stage[cur] \in {"encoded", "none"}
    BY <1>12 DEF Inject!Answered, Inject!protoVars
  <2>2. stage[cur] # "none"
    BY <2>1, <1>3 DEF OneTask
  <2> QED BY <2>1, <2>2, <1>10
<1>13. CASE Inject(n, 0, FALSE, FALSE)!WindowCloses
  <2>1. /\ UNCHANGED <<cur, kind, textProto, fileProto, sendMsgType, taskIdGlobal, stage, payload>>
        /\ pc \in {"idle", "waiting"} /\ stage[cur] # "queued" /\ pc' = pc
    BY <1>13 DEF Inject!WindowCloses, Inject!ScriptThreadFree, Inject!protoVars
  <2> QED BY <2>1, <1>10, Zenon
<1>14. ASSUME NEW t \in 1 .. n, Inject(n, 0, FALSE, FALSE)!Encode(t)
       PROVE  TimelyInv(n)'
  <2>1. /\ stage[t] = "queued" /\ stage' = [stage EXCEPT ![t] = "encoded"]
        /\ UNCHANGED <<pc, cur, kind, textProto, fileProto, sendMsgType>>
    BY <1>14 DEF Inject!Encode, Inject!protoVars
  <2>2. t = cur /\ pc # "idle" /\ stage[cur] # "encoded"
    BY <1>3, <2>1 DEF OneTask
  <2>3. cur # 0 /\ cur \in 1 .. n
    BY <2>2
  <2>4. PICK p : payload' = [payload EXCEPT ![t] = p]
    BY <1>14, Zenon DEF Inject!Encode
  <2>5. (kind[cur] = "text" => ~AfterCard(n, cur)) => payload' = [payload EXCEPT ![t] = cur]
    <3>1. CASE kind[cur] = "card" /\ fileProto = cur /\ taskIdGlobal = cur /\ sendMsgType = "mini_program"
      <4>1. Inject(n, 0, FALSE, FALSE)!BlrX8Payload(t) = cur
        BY <2>2, <3>1, Zenon DEF Inject!BlrX8Payload
      <4> QED BY <2>3, <4>1, <1>14, Zenon DEF Inject!Encode
    <3>2. CASE kind[cur] = "text" /\ Open(n) /\ textProto = cur /\ sendMsgType # "mini_program"
      <4>1. Inject(n, 0, FALSE, FALSE)!BlrX8Payload(t) = 0
        BY <3>2, Zenon DEF Inject!BlrX8Payload
      <4> QED BY <3>2, <4>1, <1>14, Zenon DEF Inject!Encode, Open
    <3>3. CASE kind[cur] = "text" /\ AfterCard(n, cur)
      BY <3>3
    <3> QED BY <1>3, <2>2, <3>1, <3>2, <3>3, Zenon DEF HeldForCurrent
  <2>6. \A s \in 1 .. n : stage'[s] = IF s = cur THEN "encoded" ELSE stage[s]
    BY <1>2, <2>1, <2>2
  <2>7. \A s \in 1 .. n : s # cur => payload'[s] = payload[s]
    BY <1>2, <2>2, <2>4
  <2>8. (kind[cur] = "text" => ~AfterCard(n, cur)) => payload'[cur] = cur
    BY <1>2, <2>2, <2>3, <2>5
  <2>9. OneTask(n)'
    BY <1>2, <1>3, <2>1, <2>2, <2>6 DEF OneTask
  <2>10. stage'[cur'] = "encoded"
    BY <2>1, <2>3, <2>6
  <2>11. HeldForCurrent(n)'
    BY <2>10, Zenon DEF HeldForCurrent
  <2>12. KindFromCard(n)'
    BY <1>3, <2>1, Zenon DEF KindFromCard
  <2>13. Inject(n, 0, FALSE, FALSE)!OwnPayload'
    <3>1. SUFFICES ASSUME NEW s \in 1 .. n, stage'[s] = "encoded",
                          kind[s] = "text" => ~AfterCard(n, s)
                   PROVE  payload'[s] = s
      BY <2>1, Zenon DEF Inject!OwnPayload, Inject!Sends, AfterCard, Inject!AfterCard
    <3>2. CASE s = cur
      BY <2>8, <3>1, <3>2
    <3>3. CASE s # cur
      BY <1>4, <2>6, <2>7, <3>1, <3>3
    <3> QED BY <3>2, <3>3
  <2> QED BY <1>1, <2>9, <2>11, <2>12, <2>13, Zenon DEF TimelyInv
<1>15. ASSUME NEW t \in 1 .. (n + 0), \/ Inject(n, 0, FALSE, FALSE)!OwnTask(t)
                                    \/ Inject(n, 0, FALSE, FALSE)!Encode(t)
       PROVE  TimelyInv(n)'
  <2>1. t \in 1 .. n /\ ~(t > n)
    OBVIOUS
  <2> QED BY <1>14, <1>15, <2>1, Zenon DEF Inject!OwnTask
<1> QED BY <1>7, <1>8, <1>9, <1>11, <1>12, <1>13, <1>15, Zenon
        DEF Inject!Next, Inject!StartTaskFaults, Inject!Tasks

LEMMA TimelyStutter ==
  ASSUME NEW n \in Nat, TimelyInv(n), UNCHANGED <<encodeVars, callerVars>>
  PROVE  TimelyInv(n)'
<1>1. InjectInv(n, 0, FALSE, FALSE)'
  BY InjectStutter DEF TimelyInv
<1>2. /\ UNCHANGED <<kind, window, injected, textProto, fileProto, sendMsgType, taskIdGlobal, payload>>
      /\ UNCHANGED <<pc, cur, stage>>
  BY Zenon DEF encodeVars, callerVars
<1>3. Open(n)' <=> Open(n)
  BY <1>2, Zenon DEF Open, Inject!Hit
<1>4. OneTask(n)' /\ KindFromCard(n)'
  BY <1>2, Zenon DEF TimelyInv, OneTask, KindFromCard
<1>5. HeldForCurrent(n)'
  BY <1>2, <1>3, Zenon DEF TimelyInv, HeldForCurrent, AfterCard, Inject!AfterCard
<1>6. Inject(n, 0, FALSE, FALSE)!OwnPayload'
  BY <1>2, Zenon DEF TimelyInv, Inject!OwnPayload, Inject!Sends, Inject!AfterCard
<1> QED BY <1>1, <1>4, <1>5, <1>6, Zenon DEF TimelyInv

-----------------------------------------------------------------------------
(* HookSetup: the set-ups that allocate a vtable run once and in their order, *)
(* so what is handed to WeChat points to the vtable that was allocated last.  *)

Has(q, name) == \E i \in 1 .. Len(q) : q[i] = name

InOrder(q) ==
  /\ \A i \in 1 .. Len(q) : q[i] = "receiver" => i = 1
  /\ \A i, j \in 1 .. Len(q) : q[i] = "miniProgram" /\ q[j] = "classic" => j < i

NothingYet ==
  base = "unknown" =>
    inits = 0 /\ queue = <<>> /\ receiver = "initializing" /\ attempts = 0 /\ ~miniReady

QueueTold ==
  /\ InOrder(queue)
  /\ Has(queue, "receiver") => receiver = "initializing" /\ attempts = 0
  /\ receiver = "waiting" => attempts < ReceiverAttempts

VtablesTold ==
  /\ classicReady => vtable # 0
  /\ miniReady => vtable # 0 /\ fileVtable = vtable /\ ~Has(queue, "classic")

SetupInv == Setup!TypeOK /\ NothingYet /\ QueueTold /\ VtablesTold /\ Setup!VtableLive

LEMMA InOrderConcat ==
  ASSUME NEW s \in Seq(Setup!Setups), NEW t \in Seq(Setup!Setups), InOrder(s), InOrder(t),
         ~Has(t, "receiver"), ~Has(s, "miniProgram") \/ ~Has(t, "classic")
  PROVE  s \o t \in Seq(Setup!Setups) /\ InOrder(s \o t)
<1>1. /\ s \o t \in Seq(Setup!Setups) /\ Len(s) \in Nat /\ Len(t) \in Nat
      /\ Len(s \o t) = Len(s) + Len(t)
      /\ \A i \in 1 .. Len(s) + Len(t) : (s \o t)[i] = IF i <= Len(s) THEN s[i] ELSE t[i - Len(s)]
  BY ConcatProperties, LenProperties
<1>2. \A i \in 1 .. Len(s) + Len(t) : (s \o t)[i] = "receiver" => i = 1
  BY <1>1 DEF InOrder, Has
<1>3. ASSUME NEW i \in 1 .. Len(s) + Len(t), NEW j \in 1 .. Len(s) + Len(t),
             (s \o t)[i] = "miniProgram", (s \o t)[j] = "classic"
      PROVE  j < i
  <2>1. CASE i <= Len(s) /\ j <= Len(s)
    BY <1>1, <1>3, <2>1 DEF InOrder
  <2>2. CASE i > Len(s) /\ j > Len(s)
    <3>1. /\ i - Len(s) \in 1 .. Len(t) /\ j - Len(s) \in 1 .. Len(t)
          /\ t[i - Len(s)] = "miniProgram" /\ t[j - Len(s)] = "classic"
      BY <1>1, <1>3, <2>2
    <3>2. j - Len(s) < i - Len(s)
      BY <3>1 DEF InOrder
    <3> QED BY <1>1, <3>2
  <2>3. CASE i <= Len(s) /\ j > Len(s)
    <3>1. Has(s, "miniProgram")
      BY <1>1, <1>3, <2>3 DEF Has
    <3>2. j - Len(s) \in 1 .. Len(t) /\ t[j - Len(s)] = "classic"
      BY <1>1, <1>3, <2>3
    <3> QED BY <3>1, <3>2 DEF Has
  <2>4. CASE i > Len(s) /\ j <= Len(s)
    BY <1>1, <2>4
  <2> QED BY <1>1, <2>1, <2>2, <2>3, <2>4
<1> QED BY <1>1, <1>2, <1>3 DEF InOrder

LEMMA ScheduleFacts == Setup!Schedule \in Seq(Setup!Setups) /\ InOrder(Setup!Schedule)
<1> DEFINE none == <<>>
           receivers == <<"receiver">>
           texts == <<"realText", "classic", "realX1">>
           cards == <<"miniProgram">>
<1>1. /\ receivers \in Seq(Setup!Setups) /\ InOrder(receivers) /\ ~Has(receivers, "miniProgram")
      /\ none \in Seq(Setup!Setups) /\ InOrder(none) /\ ~Has(none, "receiver") /\ ~Has(none, "classic")
  BY DEF Setup!Setups, InOrder, Has
<1>2. /\ texts \in Seq(Setup!Setups) /\ InOrder(texts) /\ ~Has(texts, "receiver")
      /\ cards \in Seq(Setup!Setups) /\ InOrder(cards) /\ ~Has(cards, "receiver")
      /\ ~Has(cards, "classic")
  BY DEF Setup!Setups, InOrder, Has
<1>3. Setup!Schedule =   (receivers \o (IF EnableUnsafeSend THEN texts ELSE none))
                      \o (IF EnableMiniProgramSend THEN cards ELSE none)
  BY DEF Setup!Schedule
<1> HIDE DEF none, receivers, texts, cards
<1>4. PICK first \in {texts, none} : first = IF EnableUnsafeSend THEN texts ELSE none
  OBVIOUS
<1>5. PICK last \in {cards, none} : last = IF EnableMiniProgramSend THEN cards ELSE none
  OBVIOUS
<1>6. receivers \o first \in Seq(Setup!Setups) /\ InOrder(receivers \o first)
  BY <1>1, <1>2, <1>4, InOrderConcat
<1>7. (receivers \o first) \o last \in Seq(Setup!Setups) /\ InOrder((receivers \o first) \o last)
  BY <1>1, <1>2, <1>5, <1>6, InOrderConcat
<1> QED BY <1>3, <1>4, <1>5, <1>7

\* What is left of an ordered queue.
LEMMA TakenFacts ==
  ASSUME NEW q \in Seq(Setup!Setups), q # <<>>, InOrder(q)
  PROVE  /\ Tail(q) \in Seq(Setup!Setups) /\ InOrder(Tail(q))
         /\ ~Has(Tail(q), "receiver")
         /\ \A name : Has(Tail(q), name) => Has(q, name)
         /\ Head(q) = "miniProgram" => ~Has(Tail(q), "classic")
         /\ \A name : Head(q) = name => Has(q, name)
<1>1. /\ Tail(q) \in Seq(Setup!Setups) /\ Len(q) \in Nat /\ Len(q) # 0
      /\ Len(Tail(q)) = Len(q) - 1 /\ Head(q) = q[1]
      /\ \A i \in 1 .. Len(Tail(q)) : Tail(q)[i] = q[i + 1]
  BY HeadTailProperties, EmptySeq
<1>2. \A i \in 1 .. Len(Tail(q)) : i + 1 \in 1 .. Len(q) /\ i + 1 # 1
  BY <1>1
<1>3. \A name : Has(Tail(q), name) => Has(q, name)
  BY <1>1, <1>2 DEF Has
<1>4. InOrder(Tail(q)) /\ ~Has(Tail(q), "receiver")
  BY <1>1, <1>2 DEF InOrder, Has
<1>5. Head(q) = "miniProgram" => ~Has(Tail(q), "classic")
  BY <1>1, <1>2 DEF InOrder, Has
<1>6. \A name : Head(q) = name => Has(q, name)
  BY <1>1 DEF Has
<1> QED BY <1>1, <1>3, <1>4, <1>5, <1>6

LEMMA SetupTypes ==
  ASSUME Setup!TypeOK
  PROVE  /\ base \in {"unknown", "found", "missing"} /\ inits \in 0 .. 1
         /\ queue \in Seq(Setup!Setups) /\ hooks \subseteq Setup!Hooks
         /\ receiver \in {"initializing", "waiting", "ready", "faulted"}
         /\ attempts \in 0 .. ReceiverAttempts
         /\ retries \in [{"classic", "miniProgram"} -> 0 .. SendFuncAttempts - 1]
         /\ vtable \in 0 .. 2 /\ textVtable \in 0 .. 2 /\ fileVtable \in 0 .. 2
         /\ template \in {"none", "newsync", "other", "bot"}
BY Zenon DEF Setup!TypeOK, Setup!Loops

LEMMA SetupInit == ASSUME Setup!Init PROVE SetupInv
<1>1. /\ scanned = {} /\ base = "unknown" /\ inits = 0 /\ queue = <<>> /\ hooks = {}
      /\ receiver = "initializing" /\ attempts = 0
      /\ retries = [l \in {"classic", "miniProgram"} |-> 0]
      /\ vtable = 0 /\ textVtable = 0 /\ fileVtable = 0
      /\ template = "none" /\ submitted = "none"
  BY DEF Setup!Init, Setup!Loops
<1>2. matched = FALSE /\ classicReady = FALSE /\ miniReady = FALSE /\ triggerX0 = FALSE
  BY DEF Setup!Init
<1>3. ReceiverAttempts \in Nat \ {0} /\ SendFuncAttempts \in Nat \ {0}
  BY SetupAssumption
<1>4. /\ inits \in 0 .. 1 /\ attempts \in 0 .. ReceiverAttempts
      /\ vtable \in 0 .. 2 /\ textVtable \in 0 .. 2 /\ fileVtable \in 0 .. 2
      /\ queue \in Seq(Setup!Setups)
  BY <1>1, <1>3
<1>5. retries \in [{"classic", "miniProgram"} -> 0 .. SendFuncAttempts - 1]
  BY <1>1, <1>3
<1>6. Setup!TypeOK
  BY <1>1, <1>2, <1>4, <1>5, Zenon DEF Setup!TypeOK, Setup!Loops
<1>7. NothingYet
  BY <1>1, <1>2, Zenon DEF NothingYet
<1>8. QueueTold
  <2>1. Len(queue) = 0
    BY <1>1
  <2>2. 1 .. Len(queue) = {}
    BY <2>1
  <2> QED BY <1>1, <2>2 DEF QueueTold, InOrder, Has
<1>9. VtablesTold /\ Setup!VtableLive
  BY <1>1, <1>2, Zenon DEF VtablesTold, Setup!VtableLive
<1> QED BY <1>6, <1>7, <1>8, <1>9 DEF SetupInv

\* A step that takes no set-up and leaves the vtables alone.
LEMMA SetupKept ==
  ASSUME SetupInv,
         UNCHANGED <<scanned, matched, base, inits, queue, receiver, attempts, classicReady,
                     miniReady, vtable, fileVtable>>,
         textVtable' \in 0 .. 2, hooks' \subseteq Setup!Hooks,
         retries' \in [{"classic", "miniProgram"} -> 0 .. SendFuncAttempts - 1],
         triggerX0' \in BOOLEAN, template' \in {"none", "newsync", "other", "bot"},
         submitted' = submitted \/ submitted' = "live"
  PROVE  SetupInv'
<1>1. submitted' \in {"none", "live", "freed"} /\ submitted' # "freed"
  BY Zenon DEF SetupInv, Setup!TypeOK, Setup!VtableLive
<1>2. Setup!TypeOK'
  BY <1>1, Zenon DEF SetupInv, Setup!TypeOK, Setup!Loops
<1>3. NothingYet' /\ QueueTold' /\ VtablesTold'
  BY Zenon DEF SetupInv, NothingYet, QueueTold, VtablesTold
<1> QED BY <1>1, <1>2, <1>3, Zenon DEF SetupInv, Setup!VtableLive

\* A step that takes the next set-up from the queue.
TakesSetup ==
  /\ queue # <<>> /\ queue' = Tail(queue)
  /\ UNCHANGED <<scanned, matched, base, inits, attempts, triggerX0, template, submitted>>
  /\ receiver' = receiver \/ (Head(queue) = "receiver" /\ receiver' = "waiting")

LEMMA SetupTaken ==
  ASSUME SetupInv, TakesSetup, hooks' \subseteq Setup!Hooks,
         retries' \in [{"classic", "miniProgram"} -> 0 .. SendFuncAttempts - 1],
         classicReady' \in BOOLEAN, miniReady' \in BOOLEAN,
         vtable' \in 0 .. 2, textVtable' \in 0 .. 2, fileVtable' \in 0 .. 2,
         VtablesTold'
  PROVE  SetupInv'
<1>1. /\ queue # <<>> /\ queue' = Tail(queue)
      /\ UNCHANGED <<scanned, matched, base, inits, attempts, triggerX0, template, submitted>>
      /\ receiver' = receiver \/ (Head(queue) = "receiver" /\ receiver' = "waiting")
  BY DEF TakesSetup
<1>2. /\ base \in {"unknown", "found", "missing"} /\ queue \in Seq(Setup!Setups)
      /\ receiver \in {"initializing", "waiting", "ready", "faulted"}
      /\ attempts \in 0 .. ReceiverAttempts
  BY SetupTypes DEF SetupInv
<1>3. QueueTold /\ InOrder(queue)
  BY DEF SetupInv, QueueTold
<1>4. /\ Tail(queue) \in Seq(Setup!Setups) /\ InOrder(Tail(queue))
      /\ ~Has(Tail(queue), "receiver")
      /\ Head(queue) = "receiver" => Has(queue, "receiver")
  BY <1>1, <1>2, <1>3, TakenFacts
<1>5. receiver' \in {"initializing", "waiting", "ready", "faulted"}
  BY <1>1, <1>2
<1>6. Setup!TypeOK'
  BY <1>1, <1>4, <1>5, Zenon DEF SetupInv, Setup!TypeOK, Setup!Loops
<1>7. NothingYet'
  <2>1. base' # "unknown"
    BY <1>1, Zenon DEF SetupInv, NothingYet
  <2> QED BY <2>1 DEF NothingYet
<1>8. QueueTold'
  <2>1. receiver' = "waiting" => attempts' < ReceiverAttempts
    <3>1. ReceiverAttempts \in Nat \ {0}
      BY SetupAssumption
    <3>2. Head(queue) = "receiver" => attempts = 0
      BY <1>3, <1>4 DEF QueueTold
    <3> QED BY <1>1, <1>3, <3>1, <3>2 DEF QueueTold
  <2> QED BY <1>1, <1>4, <2>1, Zenon DEF QueueTold
<1> QED BY <1>1, <1>6, <1>7, <1>8, Zenon DEF SetupInv, Setup!VtableLive

\* initAddresses, or a range scanned without it.
LEMMA SetupBoots ==
  ASSUME SetupInv, base = "unknown",
         UNCHANGED <<hooks, receiver, attempts, retries, classicReady, miniReady, vtable,
                     textVtable, fileVtable, triggerX0, template, submitted>>,
         scanned' \subseteq Ranges, matched' \in BOOLEAN,
         \/ Setup!InitAddresses
         \/ UNCHANGED <<inits, queue>> /\ base' \in {base, "missing"}
  PROVE  SetupInv'
<1>1. /\ inits = 0 /\ queue = <<>> /\ receiver = "initializing" /\ attempts = 0
  BY Zenon DEF SetupInv, NothingYet
<1>2. ~miniReady
  BY Zenon DEF SetupInv, NothingYet
<1>3. QueueTold /\ queue \in Seq(Setup!Setups)
  BY SetupTypes DEF SetupInv
<1>4. /\ base' \in {"unknown", "found", "missing"} /\ inits' \in 0 .. 1
      /\ queue' \in Seq(Setup!Setups) /\ InOrder(queue')
      /\ base' = "unknown" => inits' = 0 /\ queue' = <<>>
  <2>1. CASE Setup!InitAddresses
    BY <2>1, <1>1, ScheduleFacts DEF Setup!InitAddresses
  <2>2. CASE UNCHANGED <<inits, queue>> /\ base' \in {base, "missing"}
    BY <2>2, <1>1, <1>3 DEF QueueTold
  <2> QED BY <2>1, <2>2
<1>5. Setup!TypeOK'
  BY <1>4, Zenon DEF SetupInv, Setup!TypeOK, Setup!Loops
<1>6. NothingYet' /\ VtablesTold'
  BY <1>1, <1>2, <1>4, Zenon DEF SetupInv, NothingYet, VtablesTold
<1>7. QueueTold'
  <2>1. receiver' # "waiting" /\ receiver' = "initializing" /\ attempts' = 0
    BY <1>1
  <2> QED BY <1>4, <2>1, Zenon DEF QueueTold
<1> QED BY <1>5, <1>6, <1>7, Zenon DEF SetupInv, Setup!VtableLive

\* What AttachSendFunc leaves to be retried.
LEMMA AttachSendFuncFacts ==
  ASSUME Setup!TypeOK, NEW l \in {"classic", "miniProgram"}, NEW ok \in BOOLEAN,
         NEW k \in 0 .. SendFuncAttempts - 1, Setup!AttachSendFunc(l, k, ok)
  PROVE  retries' \in [{"classic", "miniProgram"} -> 0 .. SendFuncAttempts - 1]
<1>1. SendFuncAttempts \in Nat \ {0}
  BY SetupAssumption
<1>2. retries \in [{"classic", "miniProgram"} -> 0 .. SendFuncAttempts - 1]
  BY SetupTypes
<1>3. PICK r \in {0, k + 1} : retries' = [retries EXCEPT ![l] = r] /\ (k + 1 = SendFuncAttempts => r = 0)
  BY Zenon DEF Setup!AttachSendFunc
<1>4. r \in 0 .. SendFuncAttempts - 1
  BY <1>1, <1>3
<1> QED BY <1>2, <1>3, <1>4

LEMMA SetupClassicStep ==
  ASSUME SetupInv, NEW s \in BOOLEAN, NEW f \in BOOLEAN, NEW i \in BOOLEAN,
         Setup!SetupClassicTextSend(s, f, i)
  PROVE  SetupInv'
<1>1. /\ queue # <<>> /\ queue' = Tail(queue) /\ Head(queue) = "classic"
      /\ UNCHANGED <<scanned, matched, base, inits, attempts, triggerX0, template, submitted>>
      /\ receiver' = receiver
  BY Zenon DEF Setup!SetupClassicTextSend, Setup!NextSetup, Setup!bootVars, Setup!recvVars
<1>2. /\ queue \in Seq(Setup!Setups) /\ hooks \subseteq Setup!Hooks
      /\ vtable \in 0 .. 2 /\ textVtable \in 0 .. 2 /\ fileVtable \in 0 .. 2
      /\ retries \in [{"classic", "miniProgram"} -> 0 .. SendFuncAttempts - 1]
  BY SetupTypes DEF SetupInv
<1>3. /\ Has(queue, "classic") /\ \A name : Has(Tail(queue), name) => Has(queue, name)
  BY <1>1, <1>2, TakenFacts DEF SetupInv, QueueTold
<1>4. classicReady \in BOOLEAN /\ miniReady \in BOOLEAN
  BY Zenon DEF SetupInv, Setup!TypeOK
<1>5. TakesSetup
  BY <1>1, Zenon DEF TakesSetup
<1>6. CASE ~s
  <2>1. UNCHANGED <<hooks, retries, classicReady, miniReady, vtable, textVtable, fileVtable>>
    BY <1>6, Zenon DEF Setup!SetupClassicTextSend, Setup!readyVars, Setup!vtVars
  <2>2. VtablesTold'
    BY <1>1, <1>3, <2>1, Zenon DEF SetupInv, VtablesTold
  <2>3. /\ hooks' \subseteq Setup!Hooks
        /\ retries' \in [{"classic", "miniProgram"} -> 0 .. SendFuncAttempts - 1]
        /\ vtable' \in 0 .. 2 /\ textVtable' \in 0 .. 2 /\ fileVtable' \in 0 .. 2
    BY <1>2, <2>1
  <2>4. classicReady' \in BOOLEAN /\ miniReady' \in BOOLEAN
    BY <1>4, <2>1, Zenon
  <2> QED BY <1>5, <2>2, <2>3, <2>4, SetupTaken, Zenon
<1>7. CASE s
  <2>1. /\ vtable' = 1 /\ textVtable' = vtable' /\ fileVtable' = fileVtable
        /\ Setup!AttachSendFunc("classic", 0, f)
    BY <1>7, Zenon DEF Setup!SetupClassicTextSend, Setup!SetupRetOneStub, Setup!SetupSendTextMessage
  <2>2. classicReady' = TRUE /\ miniReady' = miniReady
    BY <1>7, Zenon DEF Setup!SetupClassicTextSend
  <2>3. hooks' \subseteq Setup!Hooks
    <3>1. \E h \in {{"sendFunc"}, {}}, e \in {{"encodeInject"}, {}} : hooks' = (hooks \cup h) \cup e
      BY <1>7, Zenon DEF Setup!SetupClassicTextSend, Setup!AttachEncodeInject
    <3> QED BY <1>2, <3>1 DEF Setup!Hooks
  <2>4. retries' \in [{"classic", "miniProgram"} -> 0 .. SendFuncAttempts - 1]
    <3>1. 0 \in 0 .. SendFuncAttempts - 1
      BY SetupAssumption
    <3> QED BY <2>1, <3>1, AttachSendFuncFacts, Zenon DEF SetupInv
  <2>5. ~miniReady
    BY <1>3, Zenon DEF SetupInv, VtablesTold
  <2>6. vtable' # 0 /\ vtable' \in 0 .. 2 /\ textVtable' \in 0 .. 2 /\ fileVtable' \in 0 .. 2
    BY <1>2, <2>1
  <2>7. VtablesTold'
    BY <2>2, <2>5, <2>6, Zenon DEF VtablesTold
  <2>8. classicReady' \in BOOLEAN /\ miniReady' \in BOOLEAN
    BY <1>4, <2>2, Zenon
  <2> QED BY <1>5, <2>3, <2>4, <2>6, <2>7, <2>8, SetupTaken, Zenon
<1> QED BY <1>6, <1>7

LEMMA SetupMiniProgramStep ==
  ASSUME SetupInv, NEW upTo \in {"stub", "blrX8", "req2buf", "end"}, NEW f \in BOOLEAN,
         Setup!SetupMiniProgramSend(upTo, f)
  PROVE  SetupInv'
<1>1. /\ queue # <<>> /\ queue' = Tail(queue) /\ Head(queue) = "miniProgram"
      /\ UNCHANGED <<scanned, matched, base, inits, attempts, triggerX0, template, submitted>>
      /\ receiver' = receiver
  BY Zenon DEF Setup!SetupMiniProgramSend, Setup!NextSetup, Setup!bootVars, Setup!recvVars
<1>2. /\ queue \in Seq(Setup!Setups) /\ hooks \subseteq Setup!Hooks
      /\ vtable \in 0 .. 2 /\ textVtable \in 0 .. 2 /\ fileVtable \in 0 .. 2
      /\ retries \in [{"classic", "miniProgram"} -> 0 .. SendFuncAttempts - 1]
  BY SetupTypes DEF SetupInv
<1>3. ~Has(queue', "classic")
  BY <1>1, <1>2, TakenFacts DEF SetupInv, QueueTold
<1>4. classicReady \in BOOLEAN /\ miniReady \in BOOLEAN
  BY Zenon DEF SetupInv, Setup!TypeOK
<1>5. TakesSetup
  BY <1>1, Zenon DEF TakesSetup
<1>6. CASE upTo = "stub"
  <2>1. UNCHANGED <<hooks, retries, classicReady, miniReady, vtable, textVtable, fileVtable>>
    BY <1>6, Zenon DEF Setup!SetupMiniProgramSend, Setup!readyVars, Setup!vtVars
  <2>2. VtablesTold'
    BY <1>3, <2>1, Zenon DEF SetupInv, VtablesTold
  <2>3. /\ hooks' \subseteq Setup!Hooks
        /\ retries' \in [{"classic", "miniProgram"} -> 0 .. SendFuncAttempts - 1]
        /\ vtable' \in 0 .. 2 /\ textVtable' \in 0 .. 2 /\ fileVtable' \in 0 .. 2
    BY <1>2, <2>1
  <2>4. classicReady' \in BOOLEAN /\ miniReady' \in BOOLEAN
    BY <1>4, <2>1, Zenon
  <2> QED BY <1>5, <2>2, <2>3, <2>4, SetupTaken, Zenon
<1>7. CASE upTo # "stub"
  <2>1. vtable' = 2 /\ fileVtable' = vtable' /\ textVtable' = textVtable
    BY <1>7, Zenon DEF Setup!SetupMiniProgramSend, Setup!SetupRetOneStub, Setup!SetupSendFileMessage
  <2>2. /\ hooks' \subseteq Setup!Hooks
        /\ retries' \in [{"classic", "miniProgram"} -> 0 .. SendFuncAttempts - 1]
    <3>1. CASE upTo = "blrX8"
      <4>1. hooks' = hooks /\ retries' = retries
        BY <1>7, <3>1, Zenon DEF Setup!SetupMiniProgramSend
      <4> QED BY <1>2, <4>1
    <3>2. CASE upTo # "blrX8"
      <4>1. \E g \in {{"sendFunc"}, {}}, e \in {{"req2buf"}, {}} :
              hooks' = ((hooks \cup {"blrX8"}) \cup g) \cup e
        BY <1>7, <3>2, Zenon DEF Setup!SetupMiniProgramSend
      <4>2. Setup!AttachSendFunc("miniProgram", 0, f)
        BY <1>7, <3>2, Zenon DEF Setup!SetupMiniProgramSend
      <4>3. 0 \in 0 .. SendFuncAttempts - 1
        BY SetupAssumption
      <4>4. retries' \in [{"classic", "miniProgram"} -> 0 .. SendFuncAttempts - 1]
        BY <4>2, <4>3, AttachSendFuncFacts, Zenon DEF SetupInv
      <4> QED BY <1>2, <4>1, <4>4 DEF Setup!Hooks
    <3> QED BY <3>1, <3>2
  <2>3. classicReady' = classicReady /\ miniReady' \in BOOLEAN
    <3>1. CASE upTo = "blrX8"
      BY <1>4, <1>7, <3>1, Zenon DEF Setup!SetupMiniProgramSend, Setup!readyVars
    <3>2. CASE upTo = "end"
      <4>1. miniReady' = TRUE /\ classicReady' = classicReady
        BY <1>7, <3>2 DEF Setup!SetupMiniProgramSend
      <4> QED BY <4>1
    <3>3. CASE upTo = "req2buf"
      <4>1. miniReady' = FALSE /\ classicReady' = classicReady
        BY <1>7, <3>3 DEF Setup!SetupMiniProgramSend
      <4> QED BY <4>1
    <3> QED BY <1>7, <3>1, <3>2, <3>3
  <2>4. vtable' # 0 /\ vtable' \in 0 .. 2 /\ textVtable' \in 0 .. 2 /\ fileVtable' \in 0 .. 2
    BY <1>2, <2>1
  <2>5. VtablesTold'
    BY <1>3, <2>1, <2>4, Zenon DEF VtablesTold
  <2>6. classicReady' \in BOOLEAN
    BY <1>4, <2>3, Zenon
  <2> QED BY <1>5, <2>2, <2>3, <2>4, <2>5, <2>6, SetupTaken, Zenon
<1> QED BY <1>6, <1>7

\* The other set-ups attach one hook at most.
LEMMA SetupHookStep ==
  ASSUME SetupInv,
         \/ Setup!SetupReceiverWithRetry
         \/ \E ok \in BOOLEAN : Setup!SetupRealText(ok) \/ Setup!SetupRealX1Capture(ok)
  PROVE  SetupInv'
<1>1. /\ TakesSetup /\ queue # <<>> /\ queue' = Tail(queue)
      /\ UNCHANGED <<retries, classicReady, miniReady, vtable, textVtable, fileVtable>>
  <2>1. CASE Setup!SetupReceiverWithRetry
    BY <2>1, Zenon DEF TakesSetup, Setup!SetupReceiverWithRetry, Setup!NextSetup, Setup!bootVars,
                       Setup!readyVars, Setup!vtVars
  <2>2. ASSUME NEW ok \in BOOLEAN, Setup!SetupRealText(ok) \/ Setup!SetupRealX1Capture(ok)
        PROVE  <1>1!:
    <3>1. /\ queue # <<>> /\ queue' = Tail(queue) /\ receiver' = receiver
          /\ UNCHANGED <<scanned, matched, base, inits, attempts, triggerX0, template, submitted>>
      BY <2>2, Zenon DEF Setup!SetupRealText, Setup!SetupRealX1Capture, Setup!NextSetup,
                         Setup!bootVars, Setup!recvVars
    <3>2. UNCHANGED <<retries, classicReady, miniReady, vtable, textVtable, fileVtable>>
      BY <2>2, Zenon DEF Setup!SetupRealText, Setup!SetupRealX1Capture, Setup!readyVars, Setup!vtVars
    <3> QED BY <3>1, <3>2, Zenon DEF TakesSetup
  <2> QED BY <2>1, <2>2
<1>2. /\ queue \in Seq(Setup!Setups) /\ hooks \subseteq Setup!Hooks
      /\ vtable \in 0 .. 2 /\ textVtable \in 0 .. 2 /\ fileVtable \in 0 .. 2
      /\ retries \in [{"classic", "miniProgram"} -> 0 .. SendFuncAttempts - 1]
  BY SetupTypes DEF SetupInv
<1>3. hooks' \subseteq Setup!Hooks
  <2>1. \E h \in {{"realText"}, {"realX1"}, {}} : hooks' = hooks \cup h \/ hooks' = hooks
    BY Zenon DEF Setup!SetupReceiverWithRetry, Setup!SetupRealText, Setup!SetupRealX1Capture
  <2> QED BY <1>2, <2>1 DEF Setup!Hooks
<1>4. classicReady \in BOOLEAN /\ miniReady \in BOOLEAN
  BY Zenon DEF SetupInv, Setup!TypeOK
<1>5. VtablesTold'
  <2>1. \A name : Has(Tail(queue), name) => Has(queue, name)
    BY <1>1, <1>2, TakenFacts DEF SetupInv, QueueTold
  <2> QED BY <1>1, <2>1, Zenon DEF SetupInv, VtablesTold
<1>6. /\ retries' \in [{"classic", "miniProgram"} -> 0 .. SendFuncAttempts - 1]
      /\ vtable' \in 0 .. 2 /\ textVtable' \in 0 .. 2 /\ fileVtable' \in 0 .. 2
  BY <1>1, <1>2
<1>7. classicReady' \in BOOLEAN /\ miniReady' \in BOOLEAN
  BY <1>1, <1>4, Zenon
<1> QED BY <1>1, <1>3, <1>5, <1>6, <1>7, SetupTaken, Zenon

LEMMA SetupReceiverAttempt ==
  ASSUME SetupInv, NEW ok \in BOOLEAN, Setup!ReceiverAttempt(ok)
  PROVE  SetupInv'
<1>1. /\ receiver = "waiting" /\ attempts' = attempts + 1
      /\ UNCHANGED <<scanned, matched, base, inits, queue, retries, triggerX0, template, submitted>>
      /\ UNCHANGED <<classicReady, miniReady, vtable, textVtable, fileVtable>>
  BY Zenon DEF Setup!ReceiverAttempt, Setup!bootVars, Setup!readyVars, Setup!vtVars
<1>2. /\ receiver' \in {"waiting", "ready", "faulted"}
      /\ receiver' = "waiting" => ~(attempts' >= ReceiverAttempts)
      /\ hooks' = hooks \cup {"response"} \/ hooks' = hooks
  BY DEF Setup!ReceiverAttempt
<1>3. attempts \in 0 .. ReceiverAttempts /\ hooks \subseteq Setup!Hooks /\ ReceiverAttempts \in Nat \ {0}
  BY SetupTypes, SetupAssumption DEF SetupInv
<1>4. attempts < ReceiverAttempts /\ ~Has(queue, "receiver") /\ InOrder(queue)
  BY <1>1 DEF SetupInv, QueueTold
<1>5. /\ attempts' \in 0 .. ReceiverAttempts /\ hooks' \subseteq Setup!Hooks
      /\ receiver' = "waiting" => attempts' < ReceiverAttempts
  <2>1. attempts' \in 0 .. ReceiverAttempts
    BY <1>1, <1>3, <1>4
  <2>2. receiver' = "waiting" => attempts' < ReceiverAttempts
    BY <1>2, <1>3, <2>1
  <2>3. hooks' \subseteq Setup!Hooks
    BY <1>2, <1>3 DEF Setup!Hooks
  <2> QED BY <2>1, <2>2, <2>3
<1>6. receiver' \in {"initializing", "waiting", "ready", "faulted"}
  BY <1>2
<1>7. Setup!TypeOK'
  BY <1>1, <1>5, <1>6, Zenon DEF SetupInv, Setup!TypeOK, Setup!Loops
<1>8. base' # "unknown"
  <2>1. receiver # "initializing"
    BY <1>1
  <2> QED BY <1>1, <2>1, Zenon DEF SetupInv, NothingYet
<1>9. NothingYet' /\ QueueTold' /\ VtablesTold'
  BY <1>1, <1>4, <1>5, <1>8, Zenon DEF SetupInv, NothingYet, QueueTold, VtablesTold
<1> QED BY <1>1, <1>7, <1>9, Zenon DEF SetupInv, Setup!VtableLive

\* Tasks of WeChat's and of the bot, and a retry: nothing is taken.
LEMMA SetupTaskStep ==
  ASSUME SetupInv,
         \/ \E l \in Setup!Loops, ok \in BOOLEAN : Setup!RetrySendFunc(l, ok)
         \/ \E cgi \in {"newsync", "other"} : Setup!WeChatStartTask(cgi)
         \/ Setup!SendClone \/ Setup!SendCard
  PROVE  SetupInv'
<1>1. /\ hooks \subseteq Setup!Hooks
      /\ vtable \in 0 .. 2 /\ textVtable \in 0 .. 2 /\ fileVtable \in 0 .. 2
      /\ retries \in [{"classic", "miniProgram"} -> 0 .. SendFuncAttempts - 1]
      /\ template \in {"none", "newsync", "other", "bot"}
  BY SetupTypes DEF SetupInv
<1>2. triggerX0 \in BOOLEAN
  BY Zenon DEF SetupInv, Setup!TypeOK
<1>3. \A cgi \in {"newsync", "other", "bot"} :
        Setup!CaptureTemplate(cgi) => template' \in {"none", "newsync", "other", "bot"}
  BY <1>1, Zenon DEF Setup!CaptureTemplate
<1>4. ASSUME NEW l \in Setup!Loops, NEW ok \in BOOLEAN, Setup!RetrySendFunc(l, ok)
      PROVE  SetupInv'
  <2>1. /\ UNCHANGED <<scanned, matched, base, inits, queue, receiver, attempts, classicReady,
                       miniReady, vtable, fileVtable>>
        /\ UNCHANGED <<textVtable, triggerX0, template, submitted>>
        /\ Setup!AttachSendFunc(l, retries[l], ok)
    BY <1>4, Zenon DEF Setup!RetrySendFunc, Setup!bootVars, Setup!recvVars, Setup!readyVars,
                       Setup!vtVars
  <2>2. l \in {"classic", "miniProgram"} /\ retries[l] \in 0 .. SendFuncAttempts - 1
    BY <1>1 DEF Setup!Loops
  <2>3. retries' \in [{"classic", "miniProgram"} -> 0 .. SendFuncAttempts - 1]
    BY <2>1, <2>2, AttachSendFuncFacts, Zenon DEF SetupInv
  <2>4. hooks' \subseteq Setup!Hooks
    <3>1. hooks' = hooks \cup {"sendFunc"} \/ hooks' = hooks
      BY <1>4, Zenon DEF Setup!RetrySendFunc
    <3> QED BY <1>1, <3>1 DEF Setup!Hooks
  <2>5. textVtable' \in 0 .. 2 /\ template' \in {"none", "newsync", "other", "bot"}
    BY <1>1, <2>1
  <2>6. triggerX0' \in BOOLEAN
    BY <1>2, <2>1, Zenon
  <2> QED BY <2>1, <2>3, <2>4, <2>5, <2>6, SetupKept, Zenon
<1>5. ASSUME UNCHANGED <<scanned, matched, base, inits, queue, receiver, attempts, classicReady,
                         miniReady, vtable, fileVtable>>,
             UNCHANGED <<hooks, retries>>, triggerX0' \in BOOLEAN, textVtable' \in 0 .. 2,
             template' \in {"none", "newsync", "other", "bot"},
             submitted' = submitted \/ submitted' = "live"
      PROVE  SetupInv'
  <2>1. /\ hooks' \subseteq Setup!Hooks
        /\ retries' \in [{"classic", "miniProgram"} -> 0 .. SendFuncAttempts - 1]
    BY <1>1, <1>5
  <2> QED BY <1>5, <2>1, SetupKept, Zenon
<1>6. ASSUME NEW cgi \in {"newsync", "other"}, Setup!WeChatStartTask(cgi)
      PROVE  SetupInv'
  <2>1. /\ UNCHANGED <<scanned, matched, base, inits, queue, receiver, attempts, classicReady,
                       miniReady, vtable, fileVtable>>
        /\ UNCHANGED <<hooks, retries>> /\ textVtable' = textVtable /\ submitted' = submitted
        /\ Setup!CaptureTemplate(cgi)
    BY <1>6, Zenon DEF Setup!WeChatStartTask, Setup!bootVars, Setup!recvVars, Setup!readyVars,
                       Setup!vtVars
  <2>2. triggerX0' \in BOOLEAN
    BY <1>6, <1>2, Zenon DEF Setup!WeChatStartTask
  <2>3. template' \in {"none", "newsync", "other", "bot"} /\ textVtable' \in 0 .. 2
    BY <1>1, <1>3, <2>1
  <2> QED BY <1>5, <2>1, <2>2, <2>3, Zenon
<1>7. CASE Setup!SendClone
  <2>1. /\ UNCHANGED <<scanned, matched, base, inits, queue, receiver, attempts, classicReady,
                       miniReady, vtable, fileVtable>>
        /\ UNCHANGED <<hooks, retries>> /\ textVtable' = vtable /\ triggerX0' = triggerX0
        /\ Setup!CaptureTemplate("bot") /\ Setup!Handed(textVtable')
    BY <1>7, Zenon DEF Setup!SendClone, Setup!bootVars, Setup!recvVars, Setup!readyVars
  <2>2. vtable # 0
    BY <1>7, Zenon DEF Setup!SendClone, SetupInv, VtablesTold
  <2>3. submitted' = "live"
    BY <2>1, <2>2, Zenon DEF Setup!Handed
  <2>4. template' \in {"none", "newsync", "other", "bot"} /\ textVtable' \in 0 .. 2
    BY <1>1, <1>3, <2>1
  <2>5. triggerX0' \in BOOLEAN
    BY <1>2, <2>1, Zenon
  <2> QED BY <1>5, <2>1, <2>3, <2>4, <2>5, Zenon
<1>8. CASE Setup!SendCard
  <2>1. /\ UNCHANGED <<scanned, matched, base, inits, queue, receiver, attempts, classicReady,
                       miniReady, vtable, fileVtable>>
        /\ UNCHANGED <<hooks, retries>> /\ textVtable' = textVtable /\ triggerX0' = triggerX0
        /\ Setup!CaptureTemplate("bot") /\ Setup!Handed(fileVtable)
    BY <1>8, Zenon DEF Setup!SendCard, Setup!bootVars, Setup!recvVars, Setup!readyVars, Setup!vtVars
  <2>2. miniReady
    BY <1>8 DEF Setup!SendCard, Setup!MiniProgramStatus
  <2>3. submitted' = "live"
    BY <2>1, <2>2, Zenon DEF Setup!Handed, SetupInv, VtablesTold
  <2>4. template' \in {"none", "newsync", "other", "bot"} /\ textVtable' \in 0 .. 2
    BY <1>1, <1>3, <2>1
  <2>5. triggerX0' \in BOOLEAN
    BY <1>2, <2>1, Zenon
  <2> QED BY <1>5, <2>1, <2>3, <2>4, <2>5, Zenon
<1> QED BY <1>4, <1>6, <1>7, <1>8, Zenon

LEMMA SetupBootStep ==
  ASSUME SetupInv,
         \/ Setup!LibraryListed
         \/ \E r \in Ranges, hit \in BOOLEAN : Setup!ScanRange(r, hit)
  PROVE  SetupInv'
<1>1. scanned \subseteq Ranges /\ matched \in BOOLEAN
  BY Zenon DEF SetupInv, Setup!TypeOK
<1>2. CASE Setup!LibraryListed
  <2>1. /\ base = "unknown" /\ Setup!InitAddresses /\ scanned' = scanned /\ matched' = matched
        /\ UNCHANGED <<hooks, receiver, attempts, retries, classicReady, miniReady, vtable,
                       textVtable, fileVtable, triggerX0, template, submitted>>
    BY <1>2, Zenon DEF Setup!LibraryListed, Setup!afterBoot, Setup!recvVars, Setup!readyVars,
                       Setup!vtVars
  <2>2. scanned' \subseteq Ranges /\ matched' \in BOOLEAN
    BY <1>1, <2>1, Zenon
  <2> QED BY <2>1, <2>2, SetupBoots, Zenon
<1>3. ASSUME NEW r \in Ranges, NEW hit \in BOOLEAN, Setup!ScanRange(r, hit)
      PROVE  SetupInv'
  <2>1. /\ base = "unknown"
        /\ UNCHANGED <<hooks, receiver, attempts, retries, classicReady, miniReady, vtable,
                       textVtable, fileVtable, triggerX0, template, submitted>>
    BY <1>3, Zenon DEF Setup!ScanRange, Setup!afterBoot, Setup!recvVars, Setup!readyVars,
                       Setup!vtVars
  <2>2. scanned' = scanned \cup {r}
    BY <1>3, Zenon DEF Setup!ScanRange
  <2>3. scanned' \subseteq Ranges
    BY <1>1, <2>2
  <2>4. matched' \in BOOLEAN
    BY <1>1, <1>3, Zenon DEF Setup!ScanRange
  <2>5. Setup!InitAddresses \/ (UNCHANGED <<inits, queue>> /\ base' \in {base, "missing"})
    BY <1>3, Zenon DEF Setup!ScanRange
  <2> QED BY <2>1, <2>3, <2>4, <2>5, SetupBoots, Zenon
<1> QED BY <1>2, <1>3

LEMMA SetupStep == ASSUME SetupInv, Setup!Next PROVE SetupInv'
<1>1. CASE Setup!RunSetup
  <2>1. \/ Setup!SetupReceiverWithRetry
        \/ \E ok \in BOOLEAN : Setup!SetupRealText(ok) \/ Setup!SetupRealX1Capture(ok)
        \/ \E s, f, i \in BOOLEAN : Setup!SetupClassicTextSend(s, f, i)
        \/ \E u \in {"stub", "blrX8", "req2buf", "end"}, f \in BOOLEAN : Setup!SetupMiniProgramSend(u, f)
    BY <1>1, Zenon DEF Setup!RunSetup
  <2> QED BY <2>1, SetupHookStep, SetupClassicStep, SetupMiniProgramStep, Zenon
<1>2. CASE Setup!Timer
  BY <1>2, SetupReceiverAttempt, SetupTaskStep, Zenon DEF Setup!Timer
<1> QED BY <1>1, <1>2, SetupBootStep, SetupTaskStep, Zenon DEF Setup!Next

LEMMA SetupStutter == ASSUME SetupInv, UNCHANGED setupState PROVE SetupInv'
<1>1. /\ UNCHANGED <<scanned, matched, base, inits, queue, receiver, attempts, classicReady,
                     miniReady, vtable, fileVtable>>
      /\ UNCHANGED <<textVtable, hooks, retries, triggerX0, template, submitted>>
  BY Zenon DEF setupState, setupVars
<1>2. textVtable \in 0 .. 2 /\ triggerX0 \in BOOLEAN /\ hooks \subseteq Setup!Hooks
  BY Zenon DEF SetupInv, Setup!TypeOK
<1>3. /\ retries \in [{"classic", "miniProgram"} -> 0 .. SendFuncAttempts - 1]
      /\ template \in {"none", "newsync", "other", "bot"}
  BY SetupTypes DEF SetupInv
<1> QED BY <1>1, <1>2, <1>3, SetupKept, Zenon

-----------------------------------------------------------------------------
(* NativeMemory: the loop that moves the pointers of a clone has done so for *)
(* every word it has passed, and has not touched the ones ahead.             *)

MemoryInv ==
  /\ orig \in [0 .. Words - 1 -> 0 .. Wide - 1]
  /\ buf \in [0 .. Words - 1 -> Nat]
  /\ off \in 0 .. Words
  /\ \A i \in 0 .. Words - 1 : i >= off => buf[i] = orig[i]
  /\ Memory!NothingLeadsBack

\* The distance computed modulo the address space and as a signed number is
\* the true one for a pointer into the task.
LEMMA DeltaInside ==
  ASSUME NEW w \in 0 .. Wide - 1, Memory!Inside(w)
  PROVE  Memory!Delta(w) = w - Orig /\ Memory!PointsInside(w)
<1> DEFINE d == w - Orig
<1>1. /\ Wide \in Nat \ {0} /\ Narrow \in Nat \ {0} /\ Orig \in Nat /\ WordSize \in Nat /\ Words \in Nat
      /\ Orig + WordSize * Words <= Wide /\ WordSize * Words <= Narrow
  BY MemoryAssumption
<1>2. PICK length \in Nat : length = WordSize * Words
  BY <1>1
<1>3. Orig + length <= Wide /\ length <= Narrow /\ Memory!Length = length
  BY <1>1, <1>2 DEF Memory!Length
<1>4. w >= Orig /\ w <= Orig + length - 1
  BY <1>1, <1>3 DEF Memory!Inside
<1>5. d \in 0 .. length - 1 /\ d \in 0 .. Wide - 1 /\ d \in 0 .. Narrow - 1
  BY <1>1, <1>3, <1>4
<1>6. w + Wide - Orig = Wide + d
  BY <1>1
<1> HIDE DEF d
<1>7. (Wide + d) % Wide = d
  BY <1>1, <1>5
<1>8. d % Narrow = d
  BY <1>1, <1>5
<1>9. Memory!Delta(w) = d
  BY <1>6, <1>7, <1>8 DEF Memory!Delta
<1>10. Memory!PointsInside(w)
  BY <1>3, <1>5, <1>9 DEF Memory!PointsInside
<1> QED BY <1>9, <1>10 DEF d

LEMMA MemoryInit == ASSUME Memory!Init PROVE MemoryInv
<1>1. orig \in [0 .. Words - 1 -> 0 .. Wide - 1] /\ buf = orig /\ off = 0
  BY DEF Memory!Init
<1>2. Words \in Nat /\ Wide \in Nat
  BY MemoryAssumption
<1>3. buf \in [0 .. Words - 1 -> Nat] /\ off \in 0 .. Words
  BY <1>1, <1>2
<1>4. Memory!NothingLeadsBack
  BY <1>1 DEF Memory!NothingLeadsBack
<1> QED BY <1>1, <1>3, <1>4 DEF MemoryInv

LEMMA MemoryStep == ASSUME MemoryInv, Memory!Next PROVE MemoryInv'
<1>1. /\ orig \in [0 .. Words - 1 -> 0 .. Wide - 1]
      /\ buf \in [0 .. Words - 1 -> Nat] /\ off \in 0 .. Words
      /\ \A i \in 0 .. Words - 1 : i >= off => buf[i] = orig[i]
  BY DEF MemoryInv
<1>2. \A i \in 0 .. off - 1 : Memory!Inside(orig[i]) => buf[i] = Copy + (orig[i] - Orig)
  BY DEF MemoryInv, Memory!NothingLeadsBack
<1>3. Words \in Nat /\ Wide \in Nat /\ Copy \in Nat
  BY MemoryAssumption
<1>4. CASE Memory!Relocate
  <2>1. /\ off < Words /\ off' = off + 1 /\ orig' = orig
        /\ buf' = IF Memory!PointsInside(buf[off])
                  THEN [buf EXCEPT ![off] = Copy + Memory!Delta(buf[off])] ELSE buf
    BY <1>4 DEF Memory!Relocate
  <2>2. off \in 0 .. Words - 1 /\ buf[off] = orig[off] /\ orig[off] \in 0 .. Wide - 1
    BY <1>1, <1>3, <2>1
  <2>3. Memory!Inside(orig[off]) => buf'[off] = Copy + (orig[off] - Orig)
    BY <1>1, <2>1, <2>2, DeltaInside
  <2>4. \A i \in 0 .. Words - 1 : i # off => buf'[i] = buf[i]
    BY <1>1, <2>1, <2>2
  <2>5. buf' \in [0 .. Words - 1 -> Nat]
    <3>1. Memory!PointsInside(buf[off]) => Memory!Delta(buf[off]) \in Nat
      BY DEF Memory!PointsInside
    <3>2. CASE Memory!PointsInside(buf[off])
      <4>1. Copy + Memory!Delta(buf[off]) \in Nat
        BY <1>3, <3>1, <3>2
      <4> QED BY <1>1, <2>1, <3>2, <4>1
    <3>3. CASE ~Memory!PointsInside(buf[off])
      BY <1>1, <2>1, <3>3
    <3> QED BY <3>2, <3>3
  <2>6. Memory!NothingLeadsBack'
    <3>1. \A i \in 0 .. off' - 1 : i = off \/ (i \in 0 .. off - 1 /\ i \in 0 .. Words - 1)
      BY <1>1, <1>3, <2>1, <2>2
    <3>2. \A i \in 0 .. off' - 1 : Memory!Inside(orig[i]) => buf'[i] = Copy + (orig[i] - Orig)
      BY <1>2, <2>3, <2>4, <3>1, Zenon
    <3> QED BY <2>1, <3>2 DEF Memory!NothingLeadsBack, Memory!Inside
  <2>7. off' \in 0 .. Words /\ \A i \in 0 .. Words - 1 : i >= off' => buf'[i] = orig'[i]
    BY <1>1, <1>3, <2>1, <2>4
  <2> QED BY <1>1, <2>1, <2>5, <2>6, <2>7 DEF MemoryInv
<1>5. ASSUME UNCHANGED <<orig, buf, off>> PROVE MemoryInv'
  BY <1>5 DEF MemoryInv, Memory!NothingLeadsBack, Memory!Inside
<1> QED BY <1>4, <1>5 DEF Memory!Next, Memory!Find

LEMMA MemoryStutter == ASSUME MemoryInv, UNCHANGED memoryVars PROVE MemoryInv'
BY DEF memoryVars, MemoryInv, Memory!NothingLeadsBack, Memory!Inside

-----------------------------------------------------------------------------
(* RealTextSend: where each future is.  The conjuncts beyond the property say *)
(* that a send not begun yet has no future, that the submit in progress has    *)
(* one, and that a task the hook recorded is registered.                       *)

Submitting == pc \in {"submitting", "submitted", "polling"}

Accounted(f) == f = pendingFuture \/ f \in toFree \/ freed[f] = 1

FuturesInv(n) ==
  /\ pendingFuture \notin toFree
  /\ \A f \in 1 .. n : freed[f] = 1 => f \notin toFree /\ f # pendingFuture
  /\ pendingFuture # 0 => Submitting \/ pendingTask # 0
  /\ \A f \in 1 .. n : f <= cur /\ stage[f] # "none" => Accounted(f)
  /\ \A f \in 1 .. n : f > cur => freed[f] = 0 /\ f \notin toFree /\ f # pendingFuture /\ stage[f] = "none"
  /\ pc # "idle" => cur # 0
  /\ pc = "submitting" => Accounted(cur)
  /\ Submitting /\ traceTask # 0 /\ pendingFuture # 0 => pendingTask # 0

\* A registration has a time stamp, or texts no longer come this way.
RegisteredTimed == pendingTask # 0 => pendingAt # "none" \/ classicReady

StatusTypes ==
  /\ status \in {"off", "unavailable", "ready", "faulted"}
  /\ warm \in BOOLEAN /\ classicReady \in BOOLEAN /\ provider \in BOOLEAN

TraceTypes(n, u) ==
  /\ traceActive \in BOOLEAN /\ traceTask \in (1 .. (n + u)) \cup {0}
  /\ traceRequest \in Addrs \cup {0}

PendingTypes(n, u) ==
  /\ pendingTask \in (1 .. (n + u)) \cup {0, n + u + 1}
  /\ pendingAt \in {"none", "fresh", "old"}
  /\ pendingRequest \in Addrs \cup {0}
  /\ pendingFuture \in (1 .. n) \cup {0}
  /\ toFree \in SUBSET (1 .. n) /\ freed \in [1 .. n -> 0 .. 1]

OperationTypes(n, u) ==
  /\ stage \in [1 .. (n + u) -> {"none", "queued", "built", "sent", "over"}]
  /\ addr \in [1 .. (n + u) -> Addrs \cup {0}]

CallerTypes(n, u) ==
  /\ pc \in {"idle", "submitting", "submitted", "polling", "waiting", "cancelling"}
  /\ cur \in 0 .. n /\ nativeTask \in (1 .. (n + u)) \cup {0}
  /\ verdict \in [1 .. n -> {"none", "ok", "failed", "never ran", "timeout"}]

RealInv(n, u, l, c, h) ==
  /\ StatusTypes /\ TraceTypes(n, u) /\ PendingTypes(n, u) /\ OperationTypes(n, u)
  /\ acks \in SUBSET Real(n, u, l, c, h)!Answers /\ CallerTypes(n, u)
  /\ FuturesInv(n) /\ RegisteredTimed

LEMMA RealInvImplies ==
  ASSUME NEW n \in Nat, NEW u \in Nat, NEW l, NEW c, NEW h, RealInv(n, u, l, c, h)
  PROVE  /\ Real(n, u, l, c, h)!TypeOK
         /\ Real(n, u, l, c, h)!FuturesAccountedFor
         /\ Real(n, u, l, c, h)!RegistrationExpires
<1>1. Real(n, u, l, c, h)!TypeOK
  BY Zenon DEF RealInv, StatusTypes, TraceTypes, PendingTypes, OperationTypes, CallerTypes,
               Real!TypeOK, Real!Sends, Real!Ops, Real!CloneTask
<1>2. Real(n, u, l, c, h)!FuturesAccountedFor
  BY Zenon DEF RealInv, FuturesInv, Submitting, Accounted, Real!FuturesAccountedFor, Real!Sends
<1>3. Real(n, u, l, c, h)!RegistrationExpires
  BY Zenon DEF RealInv, RegisteredTimed, Real!RegistrationExpires
<1> QED BY <1>1, <1>2, <1>3

LEMMA RealInit ==
  ASSUME NEW n \in Nat, NEW u \in Nat, NEW l, NEW c, NEW h, Real(n, u, l, c, h)!Init
  PROVE  RealInv(n, u, l, c, h)
<1>1. /\ status = "off" /\ traceTask = 0 /\ traceRequest = 0
      /\ pendingTask = 0 /\ pendingAt = "none" /\ pendingRequest = 0 /\ pendingFuture = 0
      /\ toFree = {} /\ freed = [s \in 1 .. n |-> 0]
      /\ stage = [o \in 1 .. (n + u) |-> "none"] /\ addr = [o \in 1 .. (n + u) |-> 0]
      /\ acks = {} /\ pc = "idle" /\ cur = 0 /\ nativeTask = 0
      /\ verdict = [s \in 1 .. n |-> "none"]
  BY Zenon DEF Real!Init, Real!Sends, Real!Ops
<1>2. warm = FALSE /\ classicReady = FALSE /\ traceActive = FALSE /\ provider = FALSE
  BY DEF Real!Init
<1>3. StatusTypes
  BY <1>1, <1>2, Zenon DEF StatusTypes
<1>4. TraceTypes(n, u)
  BY <1>1, <1>2, Zenon DEF TraceTypes
<1>5. PendingTypes(n, u)
  <2>1. freed \in [1 .. n -> 0 .. 1]
    BY <1>1
  <2> QED BY <1>1, <2>1, Zenon DEF PendingTypes
<1>6. OperationTypes(n, u)
  <2>1. 0 \in Addrs \cup {0}
    OBVIOUS
  <2> QED BY <1>1, <2>1, Zenon DEF OperationTypes
<1>7. CallerTypes(n, u)
  <2>1. 0 \in 0 .. n
    OBVIOUS
  <2> QED BY <1>1, <2>1, Zenon DEF CallerTypes
<1>8. FuturesInv(n)
  <2>1. \A f \in 1 .. n : freed[f] = 0 /\ f \notin toFree /\ f # 0 /\ stage[f] = "none"
    <3>1. \A f \in 1 .. n : f \in 1 .. (n + u) /\ f # 0
      OBVIOUS
    <3> QED BY <1>1, <3>1
  <2> QED BY <1>1, <2>1 DEF FuturesInv, Submitting, Accounted
<1>9. acks \in SUBSET Real(n, u, l, c, h)!Answers /\ RegisteredTimed
  BY <1>1 DEF RegisteredTimed
<1> QED BY <1>3, <1>4, <1>5, <1>6, <1>7, <1>8, <1>9, Zenon DEF RealInv

\* The types SMT is to see.
LEMMA RealTypes ==
  ASSUME NEW n \in Nat, NEW u \in Nat, NEW l, NEW c, NEW h, RealInv(n, u, l, c, h)
  PROVE  /\ pendingTask \in Nat /\ pendingFuture \in 0 .. n /\ toFree \in SUBSET (1 .. n)
         /\ freed \in [1 .. n -> 0 .. 1] /\ traceTask \in 0 .. n + u
         /\ stage \in [1 .. (n + u) -> {"none", "queued", "built", "sent", "over"}]
         /\ addr \in [1 .. (n + u) -> Addrs \cup {0}]
         /\ pc \in {"idle", "submitting", "submitted", "polling", "waiting", "cancelling"}
         /\ cur \in 0 .. n /\ \A f \in 1 .. n : f \in 1 .. (n + u)
         /\ verdict \in [1 .. n -> {"none", "ok", "failed", "never ran", "timeout"}]
<1>1. PendingTypes(n, u) /\ OperationTypes(n, u) /\ CallerTypes(n, u) /\ TraceTypes(n, u)
  BY Zenon DEF RealInv
<1>2. pendingTask \in Nat /\ pendingFuture \in 0 .. n
  BY <1>1 DEF PendingTypes
<1>3. toFree \in SUBSET (1 .. n) /\ freed \in [1 .. n -> 0 .. 1]
  BY <1>1, Zenon DEF PendingTypes
<1>4. traceTask \in 0 .. n + u
  <2>1. traceTask \in (1 .. (n + u)) \cup {0}
    BY <1>1, Zenon DEF TraceTypes
  <2> QED BY <2>1
<1>5. /\ stage \in [1 .. (n + u) -> {"none", "queued", "built", "sent", "over"}]
      /\ addr \in [1 .. (n + u) -> Addrs \cup {0}]
      /\ pc \in {"idle", "submitting", "submitted", "polling", "waiting", "cancelling"}
      /\ cur \in 0 .. n
      /\ verdict \in [1 .. n -> {"none", "ok", "failed", "never ran", "timeout"}]
  BY <1>1, Zenon DEF OperationTypes, CallerTypes
<1>6. \A f \in 1 .. n : f \in 1 .. (n + u)
  OBVIOUS
<1> QED BY <1>2, <1>3, <1>4, <1>5, <1>6, Zenon

\* What the caller does with its place when the registration is left alone or
\* dropped: it goes on to the next send, or stays, or comes back.
MovesOn ==
  \/ pc' = pc /\ cur' = cur
  \/ pc' = "idle" /\ (cur' = cur \/ (pc = "idle" /\ cur' = cur + 1))

\* The registration is dropped and its future scheduled for destruction.
LEMMA RealCleared ==
  ASSUME NEW n \in Nat, NEW u \in Nat, NEW l, NEW c, NEW h, RealInv(n, u, l, c, h),
         Real(n, u, l, c, h)!ClearPending, freed' = freed, MovesOn, cur' \in 0 .. n,
         \A f \in 1 .. n : stage'[f] = "none" <=> stage[f] = "none"
  PROVE  PendingTypes(n, u)' /\ FuturesInv(n)' /\ RegisteredTimed'
<1>1. /\ pendingTask' = 0 /\ pendingAt' = "none" /\ pendingRequest' = 0 /\ pendingFuture' = 0
      /\ toFree' = IF pendingFuture = 0 THEN toFree ELSE toFree \cup {pendingFuture}
  BY DEF Real!ClearPending, Real!ReleaseFuture
<1>2. /\ pendingFuture \in 0 .. n /\ toFree \in SUBSET (1 .. n) /\ freed \in [1 .. n -> 0 .. 1]
      /\ cur \in 0 .. n
      /\ pc \in {"idle", "submitting", "submitted", "polling", "waiting", "cancelling"}
  BY RealTypes, Zenon
<1>3. FuturesInv(n)
  BY DEF RealInv
<1>4. toFree' \in SUBSET (1 .. n) /\ 0 \notin toFree'
  BY <1>1, <1>2
<1>5. PendingTypes(n, u)'
  BY <1>1, <1>2, <1>4, Zenon DEF PendingTypes
<1>6. \A f \in 1 .. n : Accounted(f) => Accounted(f)'
  BY <1>1, <1>2 DEF Accounted
<1>7. \A f \in 1 .. n : freed[f] = 1 => f \notin toFree'
  BY <1>1, <1>2, <1>3 DEF FuturesInv
<1>8. \A f \in 1 .. n : f <= cur' /\ stage'[f] # "none" => Accounted(f)'
  BY <1>2, <1>3, <1>6 DEF FuturesInv, MovesOn
<1>9. \A f \in 1 .. n : f > cur' => freed[f] = 0 /\ f \notin toFree' /\ stage'[f] = "none"
  BY <1>1, <1>2, <1>3 DEF FuturesInv, MovesOn
<1>10. (pc' # "idle" => cur' # 0) /\ (pc' = "submitting" => Accounted(cur)' /\ cur' = cur)
  <2>1. pc' # "idle" => pc' = pc /\ cur' = cur
    BY DEF MovesOn
  <2>2. pc = "submitting" => cur \in 1 .. n /\ Accounted(cur)
    BY <1>2, <1>3 DEF FuturesInv
  <2> QED BY <1>3, <1>6, <2>1, <2>2 DEF FuturesInv, Accounted
<1>11. FuturesInv(n)'
  BY <1>1, <1>4, <1>7, <1>8, <1>9, <1>10 DEF FuturesInv, Accounted
<1> QED BY <1>1, <1>5, <1>11 DEF RegisteredTimed

\* The future of the registration stays where it is.
LEMMA RealFuturesKept ==
  ASSUME NEW n \in Nat, NEW u \in Nat, NEW l, NEW c, NEW h, RealInv(n, u, l, c, h),
         UNCHANGED <<pendingFuture, toFree, freed>>,
         pendingTask' # 0 \/ (pendingTask' = pendingTask /\ traceTask' \in {traceTask, 0}),
         MovesOn \/ (pc' \in {"submitted", "polling", "waiting", "cancelling"} /\ cur' = cur /\ pc # "idle"),
         Submitting => Submitting' \/ pendingTask' # 0 \/ pendingFuture = 0, cur' \in 0 .. n,
         \A f \in 1 .. n : \/ stage'[f] = "none" <=> stage[f] = "none"
                           \/ f = cur /\ pc = "submitting"
  PROVE  FuturesInv(n)'
<1>1. /\ pendingFuture \in 0 .. n /\ toFree \in SUBSET (1 .. n) /\ freed \in [1 .. n -> 0 .. 1]
      /\ cur \in 0 .. n
      /\ pc \in {"idle", "submitting", "submitted", "polling", "waiting", "cancelling"}
  BY RealTypes, Zenon
<1>2. FuturesInv(n)
  BY DEF RealInv
<1>3. \A f : Accounted(f)' <=> Accounted(f)
  BY DEF Accounted
<1>4. /\ pendingFuture' \notin toFree'
      /\ \A f \in 1 .. n : freed'[f] = 1 => f \notin toFree' /\ f # pendingFuture'
  BY <1>2 DEF FuturesInv
<1>5. pendingFuture' # 0 => Submitting' \/ pendingTask' # 0
  BY <1>2 DEF FuturesInv
<1>6. pc = "submitting" => cur \in 1 .. n /\ Accounted(cur)
  BY <1>1, <1>2 DEF FuturesInv
<1>7. cur' = cur \/ (pc = "idle" /\ cur' = cur + 1)
  BY DEF MovesOn
<1>8. \A f \in 1 .. n : f <= cur' /\ stage'[f] # "none" => Accounted(f)'
  BY <1>1, <1>2, <1>3, <1>6, <1>7 DEF FuturesInv
<1>9. \A f \in 1 .. n : f > cur' => freed'[f] = 0 /\ f \notin toFree' /\ f # pendingFuture' /\ stage'[f] = "none"
  BY <1>1, <1>2, <1>6, <1>7 DEF FuturesInv
<1>10. pc' # "idle" => cur' # 0
  BY <1>1, <1>2 DEF FuturesInv, MovesOn
<1>11. pc' = "submitting" => Accounted(cur)'
  <2>1. pc' = "submitting" => pc = "submitting" /\ cur' = cur
    BY DEF MovesOn
  <2> QED BY <1>3, <1>6, <2>1 DEF Accounted
<1>12. Submitting' /\ traceTask' # 0 /\ pendingFuture' # 0 => pendingTask' # 0
  <2>1. Submitting' => Submitting \/ pendingFuture = 0 \/ pendingTask # 0
    BY <1>2 DEF FuturesInv
  <2> QED BY <1>2, <2>1 DEF FuturesInv
<1> QED BY <1>4, <1>5, <1>8, <1>9, <1>10, <1>11, <1>12 DEF FuturesInv

LEMMA RealUnchanged ==
  ASSUME NEW n \in Nat, NEW u \in Nat, NEW l, NEW c, NEW h, RealInv(n, u, l, c, h),
         UNCHANGED <<traceActive, traceTask, traceRequest>>,
         UNCHANGED <<pendingTask, pendingAt, pendingRequest, pendingFuture, toFree, freed>>,
         UNCHANGED <<stage, addr, acks, pc, cur, nativeTask, verdict>>,
         StatusTypes', classicReady => classicReady'
  PROVE  RealInv(n, u, l, c, h)'
<1>1. TraceTypes(n, u)' /\ PendingTypes(n, u)' /\ OperationTypes(n, u)' /\ CallerTypes(n, u)'
  <2>1. TraceTypes(n, u)'
    BY Zenon DEF RealInv, TraceTypes
  <2>2. PendingTypes(n, u)'
    BY Zenon DEF RealInv, PendingTypes
  <2>3. OperationTypes(n, u)'
    BY Zenon DEF RealInv, OperationTypes
  <2>4. CallerTypes(n, u)'
    BY Zenon DEF RealInv, CallerTypes
  <2> QED BY <2>1, <2>2, <2>3, <2>4, Zenon
<1>2. acks' \in SUBSET Real(n, u, l, c, h)!Answers
  BY Zenon DEF RealInv
<1>3. FuturesInv(n)'
  BY Zenon DEF RealInv, FuturesInv, Submitting, Accounted
<1>4. RegisteredTimed'
  BY Zenon DEF RealInv, RegisteredTimed
<1> QED BY <1>1, <1>2, <1>3, <1>4, Zenon DEF RealInv

\* Steps that leave the registration alone or drop it.
LEMMA RealPlain ==
  ASSUME NEW n \in Nat, NEW u \in Nat, NEW l, NEW c, NEW h, RealInv(n, u, l, c, h),
         StatusTypes', TraceTypes(n, u)', OperationTypes(n, u)', CallerTypes(n, u)',
         acks' \in SUBSET Real(n, u, l, c, h)!Answers,
         classicReady' = classicReady, freed' = freed, MovesOn,
         \A f \in 1 .. n : stage'[f] = "none" <=> stage[f] = "none",
         \/ Real(n, u, l, c, h)!ClearPending
         \/ /\ UNCHANGED Real(n, u, l, c, h)!pendingVars /\ traceTask' \in {traceTask, 0}
            /\ Submitting => Submitting'
  PROVE  RealInv(n, u, l, c, h)'
<1>1. cur' \in 0 .. n
  BY Zenon DEF CallerTypes
<1>2. CASE Real(n, u, l, c, h)!ClearPending
  <2>1. PendingTypes(n, u)' /\ FuturesInv(n)' /\ RegisteredTimed'
    BY <1>1, <1>2, RealCleared, Zenon
  <2> QED BY <2>1, Zenon DEF RealInv
<1>3. CASE /\ UNCHANGED Real(n, u, l, c, h)!pendingVars /\ traceTask' \in {traceTask, 0}
           /\ Submitting => Submitting'
  <2>1. /\ UNCHANGED <<pendingTask, pendingAt, pendingRequest>>
        /\ UNCHANGED <<pendingFuture, toFree, freed>>
    BY <1>3, Zenon DEF Real!pendingVars
  <2>2. PendingTypes(n, u)' /\ RegisteredTimed'
    BY <2>1, Zenon DEF RealInv, PendingTypes, RegisteredTimed
  <2>3. FuturesInv(n)'
    BY <1>1, <1>3, <2>1, RealFuturesKept
  <2> QED BY <2>2, <2>3, Zenon DEF RealInv
<1> QED BY <1>2, <1>3

LEMMA VerdictTypes ==
  ASSUME NEW n \in Nat, NEW u \in Nat, CallerTypes(n, u), NEW s,
         NEW v \in {"none", "ok", "failed", "never ran", "timeout"},
         verdict' = [verdict EXCEPT ![s] = v]
  PROVE  verdict' \in [1 .. n -> {"none", "ok", "failed", "never ran", "timeout"}]
<1>1. verdict \in [1 .. n -> {"none", "ok", "failed", "never ran", "timeout"}]
  BY Zenon DEF CallerTypes
<1> QED BY <1>1

\* Set-up, time and the change to cloning.
LEMMA RealStatusStep ==
  ASSUME NEW n \in Nat, NEW u \in Nat, NEW l, NEW c, NEW h, RealInv(n, u, l, c, h),
         \/ Real(n, u, l, c, h)!SetupRealTextSend \/ Real(n, u, l, c, h)!WarmUp
         \/ Real(n, u, l, c, h)!ProviderChanges \/ Real(n, u, l, c, h)!BecomeClassic
  PROVE  RealInv(n, u, l, c, h)'
<1>1. /\ UNCHANGED <<traceActive, traceTask, traceRequest>>
      /\ UNCHANGED <<pendingTask, pendingAt, pendingRequest, pendingFuture, toFree, freed>>
      /\ UNCHANGED <<stage, addr, acks, pc, cur, nativeTask, verdict>>
  BY Zenon DEF Real!SetupRealTextSend, Real!WarmUp, Real!ProviderChanges, Real!BecomeClassic,
               Real!traceVars, Real!pendingVars, Real!wechatVars, Real!callerVars
<1>2. StatusTypes
  BY DEF RealInv
<1>3. StatusTypes' /\ (classicReady => classicReady')
  <2>1. CASE Real(n, u, l, c, h)!SetupRealTextSend
    BY <1>2, <2>1, Zenon DEF StatusTypes, Real!SetupRealTextSend, Real!wechatVars
  <2>2. CASE Real(n, u, l, c, h)!WarmUp
    BY <1>2, <2>2, Zenon DEF StatusTypes, Real!WarmUp, Real!wechatVars
  <2>3. CASE Real(n, u, l, c, h)!ProviderChanges
    BY <1>2, <2>3, Zenon DEF StatusTypes, Real!ProviderChanges
  <2>4. CASE Real(n, u, l, c, h)!BecomeClassic
    BY <1>2, <2>4, Zenon DEF StatusTypes, Real!BecomeClassic, Real!wechatVars
  <2> QED BY <2>1, <2>2, <2>3, <2>4
<1> QED BY <1>1, <1>3, RealUnchanged, Zenon

\* Steps that leave WeChat's operations alone and end a send, or drop its
\* registration.
LEMMA RealDropStep ==
  ASSUME NEW n \in Nat, NEW u \in Nat, NEW l, NEW c, NEW h, RealInv(n, u, l, c, h),
         \/ Real(n, u, l, c, h)!AskStatus \/ Real(n, u, l, c, h)!Refuse
         \/ Real(n, u, l, c, h)!ParseRejects \/ Real(n, u, l, c, h)!PayloadFaults
         \/ Real(n, u, l, c, h)!ManagerUnavailable \/ Real(n, u, l, c, h)!SubmitFaults
         \/ Real(n, u, l, c, h)!FactoryDeadline \/ Real(n, u, l, c, h)!Cancel
         \/ Real(n, u, l, c, h)!CancelClone
  PROVE  RealInv(n, u, l, c, h)'
<1>1. /\ stage' = stage /\ addr' = addr /\ acks' = acks /\ nativeTask' = nativeTask
      /\ provider' = provider /\ warm' = warm /\ classicReady' = classicReady /\ freed' = freed
      /\ traceTask' = traceTask /\ traceRequest' = traceRequest
  BY Zenon DEF Real!AskStatus, Real!Refuse, Real!ParseRejects, Real!PayloadFaults,
               Real!ManagerUnavailable, Real!SubmitFaults, Real!SubmitFails, Real!FactoryDeadline,
               Real!Cancel, Real!CancelClone, Real!traceVars, Real!wechatVars, Real!callerVars
<1>2. traceActive' = traceActive \/ traceActive' = FALSE
  BY Zenon DEF Real!AskStatus, Real!Refuse, Real!ParseRejects, Real!PayloadFaults,
               Real!ManagerUnavailable, Real!SubmitFaults, Real!SubmitFails, Real!FactoryDeadline,
               Real!Cancel, Real!CancelClone, Real!traceVars
<1>3. status' = status \/ status' \in {"ready", "faulted"}
  BY Zenon DEF Real!AskStatus, Real!Refuse, Real!ParseRejects, Real!PayloadFaults,
               Real!ManagerUnavailable, Real!SubmitFaults, Real!SubmitFails, Real!FactoryDeadline,
               Real!Cancel, Real!CancelClone
<1>4. /\ Real(n, u, l, c, h)!ClearPending \/ UNCHANGED Real(n, u, l, c, h)!pendingVars
      /\ Submitting => Real(n, u, l, c, h)!ClearPending \/ pc' = pc
  BY Zenon DEF Real!AskStatus, Real!Refuse, Real!ParseRejects, Real!PayloadFaults, Real!NextSend,
               Real!ManagerUnavailable, Real!SubmitFaults, Real!SubmitFails, Real!FactoryDeadline,
               Real!Cancel, Real!CancelPending, Real!CancelClone, Submitting
<1>5. /\ MovesOn /\ (cur' = cur \/ (cur < n /\ cur' = cur + 1))
      /\ \/ verdict' = verdict
         \/ \E s, v : v \in {"failed", "never ran"} /\ verdict' = [verdict EXCEPT ![s] = v]
  BY Zenon DEF MovesOn, Real!AskStatus, Real!Refuse, Real!ParseRejects, Real!PayloadFaults,
               Real!NextSend, Real!ManagerUnavailable, Real!SubmitFaults, Real!SubmitFails,
               Real!FactoryDeadline, Real!Cancel, Real!CancelClone, Real!Verdict, Real!callerVars
<1>6. StatusTypes'
  <2>1. status' \in {"off", "unavailable", "ready", "faulted"}
    BY <1>3, Zenon DEF RealInv, StatusTypes
  <2> QED BY <1>1, <2>1, Zenon DEF RealInv, StatusTypes
<1>7. TraceTypes(n, u)'
  <2>1. traceActive' \in BOOLEAN
    BY <1>2, Zenon DEF RealInv, TraceTypes
  <2> QED BY <1>1, <2>1, Zenon DEF RealInv, TraceTypes
<1>8. OperationTypes(n, u)' /\ acks' \in SUBSET Real(n, u, l, c, h)!Answers
  BY <1>1, Zenon DEF RealInv, OperationTypes
<1>9. CallerTypes(n, u)'
  <2>1. CallerTypes(n, u) /\ cur \in 0 .. n
    BY Zenon DEF RealInv, CallerTypes
  <2>2. cur' \in 0 .. n
    <3>1. cur' = cur \/ (cur < n /\ cur' = cur + 1)
      BY <1>5, Zenon
    <3>2. cur \in 0 .. n
      BY <2>1
    <3> QED BY <3>1, <3>2
  <2>3. pc' = pc \/ pc' = "idle"
    BY <1>5 DEF MovesOn
  <2>4. pc' \in {"idle", "submitting", "submitted", "polling", "waiting", "cancelling"}
    BY <2>1, <2>3, Zenon DEF CallerTypes
  <2>5. verdict' \in [1 .. n -> {"none", "ok", "failed", "never ran", "timeout"}]
    <3>1. CASE verdict' = verdict
      BY <2>1, <3>1, Zenon DEF CallerTypes
    <3>2. ASSUME NEW s, NEW v, v \in {"failed", "never ran"}, verdict' = [verdict EXCEPT ![s] = v]
          PROVE  verdict' \in [1 .. n -> {"none", "ok", "failed", "never ran", "timeout"}]
      BY <2>1, <3>2, VerdictTypes
    <3> QED BY <1>5, <3>1, <3>2
  <2> QED BY <1>1, <2>1, <2>2, <2>4, <2>5, Zenon DEF CallerTypes
<1>10. \/ Real(n, u, l, c, h)!ClearPending
       \/ /\ UNCHANGED Real(n, u, l, c, h)!pendingVars /\ traceTask' \in {traceTask, 0}
          /\ Submitting => Submitting'
  BY <1>1, <1>4, Zenon DEF Submitting
<1>11. \A f \in 1 .. n : stage'[f] = "none" <=> stage[f] = "none"
  BY <1>1
<1> QED BY <1>1, <1>5, <1>6, <1>7, <1>8, <1>9, <1>10, <1>11, RealPlain, Zenon

\* WeChat's operations before and after the factory.
LEMMA RealOperationStep ==
  ASSUME NEW n \in Nat, NEW u \in Nat, NEW l, NEW c, NEW h, RealInv(n, u, l, c, h),
         NEW o \in 1 .. (n + u),
         \/ Real(n, u, l, c, h)!UserSend(o)
         \/ \E a \in Addrs : Real(n, u, l, c, h)!RequestCtor(o, a)
         \/ Real(n, u, l, c, h)!FactoryFails(o)
         \/ Real(n, u, l, c, h)!Lose(o)
  PROVE  RealInv(n, u, l, c, h)'
<1>1. /\ UNCHANGED <<status, warm, classicReady, traceActive, acks>>
      /\ UNCHANGED <<pc, cur, nativeTask, verdict>>
      /\ freed' = freed /\ UNCHANGED Real(n, u, l, c, h)!pendingVars
      /\ provider' = provider
  BY Zenon DEF Real!UserSend, Real!RequestCtor, Real!FactoryFails, Real!Lose, Real!traceVars,
               Real!callerVars
<1>2. traceTask' = traceTask \/ traceTask' = 0
  BY Zenon DEF Real!UserSend, Real!RequestCtor, Real!FactoryFails, Real!Lose, Real!traceVars
<1>3. traceRequest' = traceRequest \/ traceRequest' \in Addrs
  BY Zenon DEF Real!UserSend, Real!RequestCtor, Real!FactoryFails, Real!Lose, Real!traceVars
<1>4. \E g \in {"queued", "built", "over"} : stage' = [stage EXCEPT ![o] = g]
  BY Zenon DEF Real!UserSend, Real!RequestCtor, Real!FactoryFails, Real!Lose
<1>5. addr' = addr \/ \E a \in Addrs \cup {0} : addr' = [addr EXCEPT ![o] = a]
  <2>1. 0 \in Addrs \cup {0} /\ \A a \in Addrs : a \in Addrs \cup {0}
    OBVIOUS
  <2> QED BY <2>1, Zenon DEF Real!UserSend, Real!RequestCtor, Real!FactoryFails, Real!Lose
<1>6. o > n \/ stage[o] # "none"
  BY DEF Real!UserSend, Real!RequestCtor, Real!FactoryFails, Real!Lose
<1>7. StatusTypes' /\ acks' \in SUBSET Real(n, u, l, c, h)!Answers /\ CallerTypes(n, u)'
  BY <1>1, Zenon DEF RealInv, StatusTypes, CallerTypes
<1>8. TraceTypes(n, u)'
  <2>1. traceRequest \in Addrs \cup {0} /\ traceTask \in (1 .. (n + u)) \cup {0}
    BY Zenon DEF RealInv, TraceTypes
  <2>2. traceRequest' \in Addrs \cup {0} /\ traceTask' \in (1 .. (n + u)) \cup {0}
    BY <1>2, <1>3, <2>1
  <2> QED BY <1>1, <2>2, Zenon DEF RealInv, TraceTypes
<1>9. /\ stage \in [1 .. (n + u) -> {"none", "queued", "built", "sent", "over"}]
      /\ addr \in [1 .. (n + u) -> Addrs \cup {0}]
      /\ \A f \in 1 .. n : f \in 1 .. (n + u)
  BY RealTypes, Zenon
<1>10. OperationTypes(n, u)'
  BY <1>4, <1>5, <1>9 DEF OperationTypes
<1>11. \A f \in 1 .. n : stage'[f] = "none" <=> stage[f] = "none"
  BY <1>4, <1>6, <1>9
<1>12. MovesOn /\ (Submitting => Submitting') /\ traceTask' \in {traceTask, 0}
  BY <1>1, <1>2, Zenon DEF MovesOn, Submitting
<1> QED BY <1>1, <1>7, <1>8, <1>10, <1>11, <1>12, RealPlain, Zenon

LEMMA RealResponseStep ==
  ASSUME NEW n \in Nat, NEW u \in Nat, NEW l, NEW c, NEW h, RealInv(n, u, l, c, h),
         NEW o \in 1 .. (n + u), NEW ok \in BOOLEAN, Real(n, u, l, c, h)!Response(o, ok)
  PROVE  RealInv(n, u, l, c, h)'
<1>1. /\ UNCHANGED <<status, warm, classicReady, traceActive, traceTask, traceRequest>>
      /\ UNCHANGED <<pc, cur, nativeTask, verdict>> /\ freed' = freed
      /\ provider' = provider
      /\ stage[o] = "sent"
      /\ stage' = [stage EXCEPT ![o] = "over"] /\ addr' = [addr EXCEPT ![o] = 0]
  BY Zenon DEF Real!Response, Real!traceVars, Real!callerVars
<1>2. /\ Real(n, u, l, c, h)!ClearPending \/ UNCHANGED Real(n, u, l, c, h)!pendingVars
      /\ \/ acks' = acks
         \/ /\ pendingTask # 0
            /\ acks' = acks \cup {[task |-> pendingTask, op |-> o, ok |-> ok]}
  BY Zenon DEF Real!Response
<1>3. StatusTypes' /\ CallerTypes(n, u)' /\ TraceTypes(n, u)'
  <2>1. StatusTypes'
    BY <1>1, Zenon DEF RealInv, StatusTypes
  <2>2. CallerTypes(n, u)'
    BY <1>1, Zenon DEF RealInv, CallerTypes
  <2>3. TraceTypes(n, u)'
    BY <1>1, Zenon DEF RealInv, TraceTypes
  <2> QED BY <2>1, <2>2, <2>3, Zenon
<1>4. acks' \in SUBSET Real(n, u, l, c, h)!Answers
  <2>1. acks \in SUBSET Real(n, u, l, c, h)!Answers
    BY Zenon DEF RealInv
  <2>2. ASSUME pendingTask # 0
        PROVE  [task |-> pendingTask, op |-> o, ok |-> ok] \in Real(n, u, l, c, h)!Answers
    <3>1. pendingTask \in (1 .. (n + u)) \cup {0, n + u + 1}
      BY Zenon DEF RealInv, PendingTypes
    <3>2. pendingTask \in (1 .. (n + u)) \cup {n + u + 1}
      BY <2>2, <3>1
    <3> QED BY <3>2 DEF Real!Answers, Real!Ops, Real!CloneTask
  <2> QED BY <1>2, <2>1, <2>2
<1>5. /\ stage \in [1 .. (n + u) -> {"none", "queued", "built", "sent", "over"}]
      /\ addr \in [1 .. (n + u) -> Addrs \cup {0}]
      /\ \A f \in 1 .. n : f \in 1 .. (n + u)
  BY RealTypes, Zenon
<1>6. OperationTypes(n, u)'
  BY <1>1, <1>5 DEF OperationTypes
<1>7. \A f \in 1 .. n : stage'[f] = "none" <=> stage[f] = "none"
  BY <1>1, <1>5
<1>8. MovesOn /\ (Submitting => Submitting') /\ traceTask' \in {traceTask, 0}
  BY <1>1, Zenon DEF MovesOn, Submitting
<1>9. Real(n, u, l, c, h)!ClearPending \/ UNCHANGED Real(n, u, l, c, h)!pendingVars
  BY <1>2
<1> QED BY <1>1, <1>3, <1>4, <1>6, <1>7, <1>8, <1>9, RealPlain, Zenon

LEMMA RealTakeAck ==
  ASSUME NEW n \in Nat, NEW u \in Nat, NEW l, NEW c, NEW h, RealInv(n, u, l, c, h),
         NEW a \in acks, Real(n, u, l, c, h)!TakeAck(a)
  PROVE  RealInv(n, u, l, c, h)'
<1>1. /\ UNCHANGED <<status, warm, classicReady, provider, traceActive, traceTask, traceRequest>>
      /\ UNCHANGED <<stage, addr, nativeTask>> /\ freed' = freed
      /\ UNCHANGED Real(n, u, l, c, h)!pendingVars
      /\ pc = "waiting" /\ pc' = "idle" /\ cur' = cur /\ acks' = acks \ {a}
  BY Zenon DEF Real!TakeAck, Real!traceVars, Real!wechatVars
<1>2. \E v \in {"ok", "failed"} : verdict' = [verdict EXCEPT ![cur] = v]
  BY Zenon DEF Real!TakeAck, Real!Verdict
<1>3. StatusTypes' /\ TraceTypes(n, u)' /\ OperationTypes(n, u)'
  BY <1>1, Zenon DEF RealInv, StatusTypes, TraceTypes, OperationTypes
<1>4. acks' \in SUBSET Real(n, u, l, c, h)!Answers
  <2>1. acks \in SUBSET Real(n, u, l, c, h)!Answers
    BY Zenon DEF RealInv
  <2> QED BY <1>1, <2>1
<1>5. CallerTypes(n, u)'
  <2>1. CallerTypes(n, u)
    BY DEF RealInv
  <2>2. verdict' \in [1 .. n -> {"none", "ok", "failed", "never ran", "timeout"}]
    BY <1>2, <2>1, VerdictTypes
  <2> QED BY <1>1, <2>1, <2>2, Zenon DEF CallerTypes
<1>6. MovesOn /\ ~Submitting /\ traceTask' \in {traceTask, 0}
  BY <1>1 DEF MovesOn, Submitting
<1>7. \A f \in 1 .. n : stage'[f] = "none" <=> stage[f] = "none"
  BY <1>1
<1> QED BY <1>1, <1>3, <1>4, <1>5, <1>6, <1>7, RealPlain, Zenon

\* The native submit and the wait for the factory and the answer.
LEMMA RealWaitStep ==
  ASSUME NEW n \in Nat, NEW u \in Nat, NEW l, NEW c, NEW h, RealInv(n, u, l, c, h),
         \/ Real(n, u, l, c, h)!SubmitQueues \/ Real(n, u, l, c, h)!SubmitReturns
         \/ Real(n, u, l, c, h)!FactorySeen \/ Real(n, u, l, c, h)!Timeout
  PROVE  RealInv(n, u, l, c, h)'
<1>1. /\ UNCHANGED <<status, warm, classicReady, provider, traceTask, traceRequest>>
      /\ UNCHANGED <<pendingTask, pendingAt, pendingRequest>>
      /\ UNCHANGED <<pendingFuture, toFree, freed>>
      /\ acks' = acks /\ addr' = addr /\ cur' = cur
  BY Zenon DEF Real!SubmitQueues, Real!SubmitReturns, Real!FactorySeen, Real!Timeout,
               Real!traceVars, Real!pendingVars, Real!wechatVars, Real!callerVars
<1>2. traceActive' = traceActive \/ traceActive' = FALSE
  BY Zenon DEF Real!SubmitQueues, Real!SubmitReturns, Real!FactorySeen, Real!Timeout, Real!traceVars
<1>3. \/ /\ pc = "submitting" /\ pc' = "submitted" /\ stage' = [stage EXCEPT ![cur] = "queued"]
         /\ nativeTask' = nativeTask /\ verdict' = verdict
      \/ /\ pc = "submitted" /\ pc' = "polling" /\ stage' = stage
         /\ nativeTask' = nativeTask /\ verdict' = verdict
      \/ /\ pc = "polling" /\ pc' = "waiting" /\ stage' = stage
         /\ traceTask # 0 /\ nativeTask' = traceTask /\ verdict' = verdict
      \/ /\ pc = "waiting" /\ pc' = "cancelling" /\ stage' = stage
         /\ nativeTask' = nativeTask /\ verdict' = [verdict EXCEPT ![cur] = "timeout"]
  BY Zenon DEF Real!SubmitQueues, Real!SubmitReturns, Real!FactorySeen, Real!Timeout,
               Real!wechatVars, Real!callerVars, Real!Verdict
<1>4. /\ pendingFuture \in 0 .. n /\ cur \in 0 .. n
      /\ stage \in [1 .. (n + u) -> {"none", "queued", "built", "sent", "over"}]
      /\ \A f \in 1 .. n : f \in 1 .. (n + u)
  BY RealTypes, Zenon
<1>5. StatusTypes' /\ PendingTypes(n, u)' /\ acks' \in SUBSET Real(n, u, l, c, h)!Answers
  BY <1>1, Zenon DEF RealInv, StatusTypes, PendingTypes
<1>6. TraceTypes(n, u)'
  <2>1. traceActive' \in BOOLEAN
    BY <1>2, Zenon DEF RealInv, TraceTypes
  <2> QED BY <1>1, <2>1, Zenon DEF RealInv, TraceTypes
<1>7. OperationTypes(n, u)'
  <2>1. stage' \in [1 .. (n + u) -> {"none", "queued", "built", "sent", "over"}]
    BY <1>3, <1>4
  <2> QED BY <1>1, <2>1, Zenon DEF RealInv, OperationTypes
<1>8. CallerTypes(n, u)'
  <2>1. CallerTypes(n, u)
    BY DEF RealInv
  <2>2. nativeTask' \in (1 .. (n + u)) \cup {0}
    BY <1>3, Zenon DEF RealInv, CallerTypes, TraceTypes
  <2>3. verdict' \in [1 .. n -> {"none", "ok", "failed", "never ran", "timeout"}]
    <3>1. CASE verdict' = verdict
      BY <2>1, <3>1, Zenon DEF CallerTypes
    <3>2. CASE verdict' = [verdict EXCEPT ![cur] = "timeout"]
      BY <2>1, <3>2, VerdictTypes
    <3> QED BY <1>3, <3>1, <3>2
  <2>4. pc' \in {"idle", "submitting", "submitted", "polling", "waiting", "cancelling"}
    BY <1>3
  <2> QED BY <1>1, <2>1, <2>2, <2>3, <2>4, Zenon DEF CallerTypes
<1>9. \A f \in 1 .. n : \/ stage'[f] = "none" <=> stage[f] = "none"
                        \/ f = cur /\ pc = "submitting"
  BY <1>3, <1>4
<1>10. Submitting => Submitting' \/ pendingTask' # 0 \/ pendingFuture = 0
  <2>1. Submitting => Submitting' \/ (pc = "polling" /\ traceTask # 0)
    BY <1>3 DEF Submitting
  <2>2. pc = "polling" /\ traceTask # 0 => pendingTask # 0 \/ pendingFuture = 0
    BY DEF RealInv, FuturesInv, Submitting
  <2> QED BY <1>1, <2>1, <2>2
<1>11. /\ pc' \in {"submitted", "polling", "waiting", "cancelling"} /\ pc # "idle"
  BY <1>3
<1>12. FuturesInv(n)'
  <2>1. cur' \in 0 .. n /\ pendingTask' = pendingTask /\ traceTask' \in {traceTask, 0}
    BY <1>1, <1>4
  <2>2. UNCHANGED <<pendingFuture, toFree, freed>> /\ cur' = cur
    BY <1>1
  <2> QED BY <2>1, <2>2, <1>9, <1>10, <1>11, RealFuturesKept
<1>13. RegisteredTimed'
  BY <1>1, Zenon DEF RealInv, RegisteredTimed
<1> QED BY <1>5, <1>6, <1>7, <1>8, <1>12, <1>13, Zenon DEF RealInv

\* A destructor runs.
LEMMA RealFree ==
  ASSUME NEW n \in Nat, NEW u \in Nat, NEW l, NEW c, NEW h, RealInv(n, u, l, c, h),
         NEW g \in 1 .. n, Real(n, u, l, c, h)!FreeFuture(g)
  PROVE  RealInv(n, u, l, c, h)'
<1>1. /\ UNCHANGED <<status, warm, classicReady, provider, traceActive, traceTask, traceRequest>>
      /\ UNCHANGED <<pendingTask, pendingAt, pendingRequest, pendingFuture>>
      /\ UNCHANGED <<stage, addr, acks, pc, cur, nativeTask, verdict>>
      /\ g \in toFree /\ toFree' = toFree \ {g} /\ freed' = [freed EXCEPT ![g] = freed[g] + 1]
  BY Zenon DEF Real!FreeFuture, Real!traceVars, Real!wechatVars, Real!callerVars
<1>2. toFree \in SUBSET (1 .. n) /\ freed \in [1 .. n -> 0 .. 1]
  BY RealTypes, Zenon
<1>3. FuturesInv(n)
  BY DEF RealInv
<1>4. freed[g] = 0 /\ \A f \in 1 .. n : freed'[f] = IF f = g THEN 1 ELSE freed[f]
  BY <1>1, <1>2, <1>3 DEF FuturesInv
<1>5. freed' \in [1 .. n -> 0 .. 1]
  <2>1. freed' = [freed EXCEPT ![g] = 1]
    BY <1>1, <1>4
  <2> QED BY <1>2, <2>1
<1>6. toFree' \in SUBSET (1 .. n)
  BY <1>1, <1>2
<1>7. PendingTypes(n, u)'
  BY <1>1, <1>5, <1>6, Zenon DEF RealInv, PendingTypes
<1>8. \A f \in 1 .. n : Accounted(f) => Accounted(f)'
  BY <1>1, <1>4 DEF Accounted
<1>9. FuturesInv(n)'
  <2>1. pendingFuture' = pendingFuture /\ pendingTask' = pendingTask /\ cur' = cur /\ pc' = pc
        /\ stage' = stage /\ traceTask' = traceTask
    BY <1>1
  <2>2. g \notin {pendingFuture} /\ ~(g > cur)
    BY <1>1, <1>3, <1>2 DEF FuturesInv
  <2>3. \A f \in 1 .. n : freed'[f] = 1 => f \notin toFree' /\ f # pendingFuture
    BY <1>1, <1>3, <1>4, <2>2 DEF FuturesInv
  <2>4. \A f \in 1 .. n : f > cur => freed'[f] = 0 /\ f \notin toFree' /\ f # pendingFuture /\ stage[f] = "none"
    BY <1>1, <1>3, <1>4, <2>2 DEF FuturesInv
  <2>5. pc = "submitting" => Accounted(cur)'
    <3>1. cur \in 0 .. n
      BY RealTypes
    <3>2. pc = "submitting" => cur \in 1 .. n /\ Accounted(cur)
      BY <1>3, <3>1 DEF FuturesInv
    <3> QED BY <1>8, <2>1, <3>2 DEF Accounted
  <2>6. pendingFuture \notin toFree'
    BY <1>1, <1>3 DEF FuturesInv
  <2> QED BY <1>3, <1>8, <2>1, <2>3, <2>4, <2>5, <2>6 DEF FuturesInv, Submitting
<1>10. StatusTypes' /\ TraceTypes(n, u)' /\ OperationTypes(n, u)' /\ CallerTypes(n, u)'
  <2>1. StatusTypes'
    BY <1>1, Zenon DEF RealInv, StatusTypes
  <2>2. TraceTypes(n, u)'
    BY <1>1, Zenon DEF RealInv, TraceTypes
  <2>3. OperationTypes(n, u)'
    BY <1>1, Zenon DEF RealInv, OperationTypes
  <2>4. CallerTypes(n, u)'
    BY <1>1, Zenon DEF RealInv, CallerTypes
  <2> QED BY <2>1, <2>2, <2>3, <2>4, Zenon
<1>11. acks' \in SUBSET Real(n, u, l, c, h)!Answers /\ RegisteredTimed'
  BY <1>1, Zenon DEF RealInv, RegisteredTimed
<1> QED BY <1>7, <1>9, <1>10, <1>11, Zenon DEF RealInv

\* The registration ages, or is replaced: by the task the factory returned,
\* or by a cloned text.
LEMMA RealRegisterStep ==
  ASSUME NEW n \in Nat, NEW u \in Nat, NEW l, NEW c, NEW h, RealInv(n, u, l, c, h),
         \/ Real(n, u, l, c, h)!Age \/ Real(n, u, l, c, h)!RegisterClone
         \/ \E o \in 1 .. (n + u) : Real(n, u, l, c, h)!FactoryLeave(o)
  PROVE  RealInv(n, u, l, c, h)'
<1>1. /\ UNCHANGED <<status, warm, classicReady, provider, traceActive, traceRequest>>
      /\ UNCHANGED <<pendingFuture, toFree, freed>>
      /\ UNCHANGED <<addr, acks, pc, cur, nativeTask, verdict>>
  BY Zenon DEF Real!Age, Real!RegisterClone, Real!FactoryLeave, Real!traceVars, Real!futureVars,
               Real!wechatVars, Real!callerVars
<1>2. \/ traceTask' = traceTask /\ pendingTask' = pendingTask
      \/ traceTask' = traceTask /\ pendingTask' = n + u + 1
      \/ \E o \in 1 .. (n + u) : traceTask' = o /\ pendingTask' = o
  BY Zenon DEF Real!Age, Real!RegisterClone, Real!FactoryLeave, Real!traceVars, Real!CloneTask
<1>3. stage' = stage \/ \E o \in 1 .. (n + u) : stage[o] = "built" /\ stage' = [stage EXCEPT ![o] = "sent"]
  BY Zenon DEF Real!Age, Real!RegisterClone, Real!FactoryLeave, Real!wechatVars
<1>4. /\ pendingAt' \in {pendingAt, "fresh", "old"} /\ pendingRequest' \in {pendingRequest, traceRequest}
      /\ (pendingTask' = pendingTask /\ pendingAt' = pendingAt) \/ pendingAt' # "none" \/ classicReady
  <2>1. CASE Real(n, u, l, c, h)!Age
    BY <2>1 DEF Real!Age
  <2>2. CASE Real(n, u, l, c, h)!RegisterClone
    BY <2>2, Zenon DEF Real!RegisterClone
  <2>3. ASSUME NEW o \in 1 .. (n + u), Real(n, u, l, c, h)!FactoryLeave(o)
        PROVE  <1>4!:
    BY <2>3 DEF Real!FactoryLeave
  <2> QED BY <2>1, <2>2, <2>3
<1>5. /\ pendingTask \in (1 .. (n + u)) \cup {0, n + u + 1} /\ traceTask \in (1 .. (n + u)) \cup {0}
      /\ pendingAt \in {"none", "fresh", "old"}
      /\ pendingRequest \in Addrs \cup {0} /\ traceRequest \in Addrs \cup {0}
  BY Zenon DEF RealInv, PendingTypes, TraceTypes
<1>6. /\ pendingTask' \in (1 .. (n + u)) \cup {0, n + u + 1}
      /\ traceTask' \in (1 .. (n + u)) \cup {0}
      /\ pendingTask' # 0 \/ (pendingTask' = pendingTask /\ traceTask' \in {traceTask, 0})
  BY <1>2, <1>5
<1>7. pendingAt' \in {"none", "fresh", "old"} /\ pendingRequest' \in Addrs \cup {0}
  BY <1>4, <1>5
<1>8. /\ stage \in [1 .. (n + u) -> {"none", "queued", "built", "sent", "over"}]
      /\ \A f \in 1 .. n : f \in 1 .. (n + u)
  BY RealTypes, Zenon
<1>9. stage' \in [1 .. (n + u) -> {"none", "queued", "built", "sent", "over"}]
  BY <1>3, <1>8
<1>10. \A f \in 1 .. n : stage'[f] = "none" <=> stage[f] = "none"
  BY <1>3, <1>8
<1>11. PendingTypes(n, u)' /\ TraceTypes(n, u)' /\ OperationTypes(n, u)'
  BY <1>1, <1>6, <1>7, <1>9, Zenon DEF RealInv, PendingTypes, TraceTypes, OperationTypes
<1>12. /\ StatusTypes' /\ CallerTypes(n, u)'
       /\ acks' \in SUBSET Real(n, u, l, c, h)!Answers
  BY <1>1, Zenon DEF RealInv, StatusTypes, CallerTypes
<1>13. FuturesInv(n)'
  <2>1. MovesOn /\ (Submitting => Submitting')
    BY <1>1, Zenon DEF MovesOn, Submitting
  <2>2. cur' \in 0 .. n
    BY <1>12, Zenon DEF CallerTypes
  <2>3. UNCHANGED <<pendingFuture, toFree, freed>>
    BY <1>1
  <2> QED BY <2>1, <2>2, <2>3, <1>6, <1>10, RealFuturesKept
<1>14. RegisteredTimed'
  BY <1>1, <1>4, Zenon DEF RealInv, RegisteredTimed
<1> QED BY <1>11, <1>12, <1>13, <1>14, Zenon DEF RealInv

\* A new send is handed to WeChat; an expired registration is dropped first.
LEMMA RealBeginSubmit ==
  ASSUME NEW n \in Nat, NEW u \in Nat, NEW l, NEW c, NEW h, RealInv(n, u, l, c, h),
         Real(n, u, l, c, h)!BeginSubmit
  PROVE  RealInv(n, u, l, c, h)'
<1>1. /\ UNCHANGED <<status, warm, classicReady, provider>>
      /\ UNCHANGED <<stage, addr, freed, acks, nativeTask, verdict>>
      /\ pc = "idle" /\ cur < n /\ cur' = cur + 1 /\ pc' = "submitting"
      /\ traceTask' = 0 /\ traceRequest' = 0
      /\ pendingTask' = 0 /\ pendingFuture' = cur'
  BY Zenon DEF Real!BeginSubmit, Real!NextSend, Real!wechatVars
<1>2. traceActive' = TRUE
  BY DEF Real!BeginSubmit
<1>3. /\ \/ pendingTask # 0 /\ toFree' = IF pendingFuture = 0 THEN toFree ELSE toFree \cup {pendingFuture}
         \/ pendingTask = 0 /\ toFree' = toFree
      /\ pendingAt' \in {pendingAt, "none"} /\ pendingRequest' \in {pendingRequest, 0}
  BY Zenon DEF Real!BeginSubmit
<1>4. /\ pendingFuture \in 0 .. n /\ toFree \in SUBSET (1 .. n) /\ freed \in [1 .. n -> 0 .. 1]
      /\ cur \in 0 .. n
  BY RealTypes, Zenon
<1>5. FuturesInv(n)
  BY DEF RealInv
<1>6. pendingTask = 0 => pendingFuture = 0
  BY <1>1, <1>5 DEF FuturesInv, Submitting
<1>7. toFree' = IF pendingFuture = 0 THEN toFree ELSE toFree \cup {pendingFuture}
  BY <1>3, <1>6
<1>8. toFree' \in SUBSET (1 .. n) /\ cur' \in 1 .. n /\ cur' \in 0 .. n /\ cur' \in (1 .. n) \cup {0}
  BY <1>1, <1>4, <1>7
<1>9. \A f \in 1 .. n : Accounted(f) => Accounted(f)'
  BY <1>1, <1>4, <1>7 DEF Accounted
<1>10. FuturesInv(n)'
  <2>1. pendingFuture' \notin toFree' /\ stage[cur'] = "none"
    BY <1>1, <1>4, <1>5, <1>7, <1>8 DEF FuturesInv
  <2>2. \A f \in 1 .. n : freed[f] = 1 => f \notin toFree' /\ f # cur'
    BY <1>1, <1>4, <1>5, <1>7, <1>8 DEF FuturesInv
  <2>3. \A f \in 1 .. n : f <= cur' /\ stage[f] # "none" => Accounted(f)'
    <3>1. \A f \in 1 .. n : f <= cur' => f <= cur \/ f = cur'
      BY <1>1, <1>4
    <3> QED BY <1>5, <1>9, <2>1, <3>1 DEF FuturesInv
  <2>4. \A f \in 1 .. n : f > cur' => freed[f] = 0 /\ f \notin toFree' /\ f # cur' /\ stage[f] = "none"
    BY <1>1, <1>4, <1>5, <1>7 DEF FuturesInv
  <2>5. Submitting' /\ cur' # 0 /\ Accounted(cur)'
    BY <1>1, <1>8 DEF Submitting, Accounted
  <2> QED BY <1>1, <2>1, <2>2, <2>3, <2>4, <2>5, Zenon DEF FuturesInv
<1>11. PendingTypes(n, u)'
  <2>1. PendingTypes(n, u)
    BY DEF RealInv
  <2>2. pendingAt' \in {"none", "fresh", "old"}
    BY <1>3, <2>1, Zenon DEF PendingTypes
  <2>3. pendingRequest' \in Addrs \cup {0}
    <3>1. pendingRequest \in Addrs \cup {0}
      BY <2>1 DEF PendingTypes
    <3> QED BY <1>3, <3>1
  <2> QED BY <1>1, <1>8, <2>1, <2>2, <2>3, Zenon DEF PendingTypes
<1>12. TraceTypes(n, u)'
  <2>1. traceRequest' \in Addrs \cup {0} /\ traceTask' \in (1 .. (n + u)) \cup {0}
    BY <1>1
  <2> QED BY <1>2, <2>1, Zenon DEF TraceTypes
<1>13. StatusTypes' /\ OperationTypes(n, u)' /\ CallerTypes(n, u)'
  BY <1>1, <1>8, Zenon DEF RealInv, StatusTypes, OperationTypes, CallerTypes
<1>14. acks' \in SUBSET Real(n, u, l, c, h)!Answers /\ RegisteredTimed'
  BY <1>1, Zenon DEF RealInv, RegisteredTimed
<1> QED BY <1>10, <1>11, <1>12, <1>13, <1>14, Zenon DEF RealInv

LEMMA RealStep ==
  ASSUME NEW n \in Nat, NEW u \in Nat, NEW l, NEW c, NEW h, RealInv(n, u, l, c, h),
         Real(n, u, l, c, h)!Next
  PROVE  RealInv(n, u, l, c, h)'
<1>1. CASE Real(n, u, l, c, h)!Trigger
  BY <1>1, RealDropStep, RealBeginSubmit, Zenon DEF Real!Trigger
<1>2. CASE Real(n, u, l, c, h)!Submit
  BY <1>2, RealDropStep, RealWaitStep, Zenon DEF Real!Submit
<1>3. CASE Real(n, u, l, c, h)!Poll
  BY <1>3, RealDropStep, RealWaitStep, Zenon DEF Real!Poll
<1>4. CASE Real(n, u, l, c, h)!Await
  BY <1>4, RealDropStep, RealWaitStep, RealTakeAck, Zenon DEF Real!Await
<1>5. CASE Real(n, u, l, c, h)!WeChat
  <2>1. CASE Real(n, u, l, c, h)!ProviderChanges
    BY <2>1, RealStatusStep, Zenon
  <2>2. ASSUME NEW o \in 1 .. (n + u),
               \/ Real(n, u, l, c, h)!UserSend(o) \/ Real(n, u, l, c, h)!FactoryLeave(o)
               \/ Real(n, u, l, c, h)!FactoryFails(o) \/ Real(n, u, l, c, h)!Lose(o)
        PROVE  RealInv(n, u, l, c, h)'
    BY <2>2, RealOperationStep, RealRegisterStep, Zenon
  <2>3. ASSUME NEW o \in 1 .. (n + u), NEW a \in Addrs, Real(n, u, l, c, h)!RequestCtor(o, a)
        PROVE  RealInv(n, u, l, c, h)'
    BY <2>3, RealOperationStep, Zenon
  <2>4. ASSUME NEW o \in 1 .. (n + u), NEW ok \in BOOLEAN, Real(n, u, l, c, h)!Response(o, ok)
        PROVE  RealInv(n, u, l, c, h)'
    BY <2>4, RealResponseStep, Zenon
  <2> QED BY <1>5, <2>1, <2>2, <2>3, <2>4, Zenon DEF Real!WeChat, Real!Ops
<1>6. CASE Real(n, u, l, c, h)!Classic
  BY <1>6, RealStatusStep, RealRegisterStep, RealDropStep, Zenon DEF Real!Classic
<1>7. ASSUME NEW g \in 1 .. n, Real(n, u, l, c, h)!FreeFuture(g)
      PROVE  RealInv(n, u, l, c, h)'
  BY <1>7, RealFree, Zenon
<1> QED BY <1>1, <1>2, <1>3, <1>4, <1>5, <1>6, <1>7, RealStatusStep, RealDropStep, RealRegisterStep,
           Zenon DEF Real!Next, Real!Sends

LEMMA RealStutter ==
  ASSUME NEW n \in Nat, NEW u \in Nat, NEW l, NEW c, NEW h, RealInv(n, u, l, c, h),
         UNCHANGED realState
  PROVE  RealInv(n, u, l, c, h)'
<1>1. /\ UNCHANGED <<traceActive, traceTask, traceRequest>>
      /\ UNCHANGED <<pendingTask, pendingAt, pendingRequest, pendingFuture, toFree, freed>>
      /\ UNCHANGED <<stage, addr, acks, pc, cur, nativeTask, verdict>>
      /\ UNCHANGED <<status, warm, provider, classicReady>>
  BY Zenon DEF realState, realVars, callerVars
<1>2. StatusTypes'
  BY <1>1, Zenon DEF RealInv, StatusTypes
<1> QED BY <1>1, <1>2, RealUnchanged, Zenon

-----------------------------------------------------------------------------
(* RealTextSend when nothing goes wrong: no message of the user's, a prompt   *)
(* factory, no lost cancel, no card hooks.  While the trace is active the only *)
(* operation before its factory's return is the caller's own, and no other     *)
(* request is at the registered address.                                      *)

\* The path was given up, maybe with an operation still under way.
GivenUp == status = "faulted" /\ pc = "idle" /\ pendingTask = 0

OwnOperation(n) ==
  /\ traceActive => Submitting
  /\ pc = "submitting" => stage[cur] = "none"
  /\ \A o \in 1 .. n : stage[o] \in {"queued", "built"} =>
       (o = cur /\ pc \in {"submitted", "polling"}) \/ GivenUp
  /\ Submitting /\ (traceTask # 0 \/ pendingTask # 0) => stage[cur] \in {"sent", "over"}

OwnAddress(n) ==
  /\ \A o \in 1 .. n : addr[o] # 0 => stage[o] \in {"built", "sent"}
  /\ \A o, p \in 1 .. n : addr[o] = addr[p] /\ addr[o] # 0 => o = p
  /\ traceActive /\ stage[cur] = "built" => traceRequest = addr[cur]
  /\ pendingTask # 0 /\ pendingRequest # 0 =>
       \A p \in 1 .. n : addr[p] = pendingRequest => p = pendingTask

QuietInv(n) ==
  /\ RealInv(n, 0, FALSE, FALSE, FALSE) /\ OwnOperation(n) /\ OwnAddress(n)
  /\ Real(n, 0, FALSE, FALSE, FALSE)!AnswerOfOwnTask

LEMMA QuietTypes ==
  ASSUME NEW n \in Nat, RealInv(n, 0, FALSE, FALSE, FALSE)
  PROVE  /\ stage \in [1 .. n -> {"none", "queued", "built", "sent", "over"}]
         /\ addr \in [1 .. n -> Addrs \cup {0}]
         /\ pc \in {"idle", "submitting", "submitted", "polling", "waiting", "cancelling"}
         /\ cur \in 0 .. n /\ (pc # "idle" => cur \in 1 .. n)
         /\ \A f \in 1 .. n : f > cur => stage[f] = "none"
<1>1. n + 0 = n
  OBVIOUS
<1>2. /\ stage \in [1 .. n -> {"none", "queued", "built", "sent", "over"}]
      /\ addr \in [1 .. n -> Addrs \cup {0}]
      /\ pc \in {"idle", "submitting", "submitted", "polling", "waiting", "cancelling"}
      /\ cur \in 0 .. n
  BY <1>1, RealTypes
<1>3. (pc # "idle" => cur # 0) /\ \A f \in 1 .. n : f > cur => stage[f] = "none"
  BY DEF RealInv, FuturesInv
<1> QED BY <1>2, <1>3

LEMMA QuietInit ==
  ASSUME NEW n \in Nat, Real(n, 0, FALSE, FALSE, FALSE)!Init
  PROVE  QuietInv(n)
<1>1. RealInv(n, 0, FALSE, FALSE, FALSE)
  BY RealInit
<1>2. /\ traceTask = 0 /\ pendingTask = 0 /\ acks = {} /\ pc = "idle"
      /\ stage = [o \in 1 .. (n + 0) |-> "none"] /\ addr = [o \in 1 .. (n + 0) |-> 0]
  BY Zenon DEF Real!Init, Real!Ops
<1>3. ~traceActive
  BY DEF Real!Init
<1>4. \A o \in 1 .. n : stage[o] = "none" /\ addr[o] = 0
  BY <1>2
<1>5. OwnOperation(n)
  BY <1>2, <1>3, <1>4 DEF OwnOperation, Submitting
<1>6. OwnAddress(n)
  BY <1>2, <1>3, <1>4 DEF OwnAddress
<1>7. Real(n, 0, FALSE, FALSE, FALSE)!AnswerOfOwnTask
  BY <1>2 DEF Real!AnswerOfOwnTask
<1> QED BY <1>1, <1>5, <1>6, <1>7 DEF QuietInv

\* WeChat's operations are left alone; the caller stays, comes back or goes on,
\* and what is registered stays or goes.
LEMMA QuietDrop ==
  ASSUME NEW n \in Nat, RealInv(n, 0, FALSE, FALSE, FALSE), OwnOperation(n), OwnAddress(n),
         UNCHANGED <<stage, addr, traceTask, traceRequest>>,
         traceActive' = traceActive \/ traceActive' = FALSE, MovesOn,
         pendingTask' = 0 \/ UNCHANGED <<pendingTask, pendingRequest>>,
         status' = status \/ status' = "faulted" \/ status = "off" \/ pc = "submitting",
         Submitting => \/ pc' = pc /\ cur' = cur
                       \/ traceActive' = FALSE /\ (GivenUp' \/ pc = "submitting" \/ stage[cur] = "over")
  PROVE  OwnOperation(n)' /\ OwnAddress(n)'
<1>1. /\ pc \in {"idle", "submitting", "submitted", "polling", "waiting", "cancelling"}
      /\ \A o \in 1 .. n : stage[o] \in {"none", "queued", "built", "sent", "over"}
  BY QuietTypes
<1>2. traceActive' => traceActive /\ pc' = pc /\ cur' = cur
  <2>1. traceActive' => traceActive
    OBVIOUS
  <2>2. traceActive => Submitting
    BY DEF OwnOperation
  <2> QED BY <2>1, <2>2
<1>3. Submitting' => Submitting /\ pc' = pc /\ cur' = cur
  BY DEF MovesOn, Submitting
<1>4. pendingTask' # 0 => pendingTask # 0 /\ UNCHANGED <<pendingTask, pendingRequest>>
  OBVIOUS
<1>5. ASSUME NEW o \in 1 .. n, stage[o] \in {"queued", "built"}
      PROVE  (o = cur' /\ pc' \in {"submitted", "polling"}) \/ GivenUp'
  <2>1. (o = cur /\ pc \in {"submitted", "polling"}) \/ GivenUp
    BY <1>5 DEF OwnOperation
  <2>2. CASE o = cur /\ pc \in {"submitted", "polling"}
    BY <1>5, <2>2 DEF Submitting
  <2>3. CASE GivenUp
    BY <2>3 DEF GivenUp, MovesOn
  <2> QED BY <2>1, <2>2, <2>3
<1>6. OwnOperation(n)'
  <2>1. traceActive' => Submitting'
    BY <1>2, Zenon DEF OwnOperation, Submitting
  <2>2. pc' = "submitting" => stage'[cur'] = "none"
    BY DEF OwnOperation, MovesOn
  <2>3. Submitting' /\ (traceTask' # 0 \/ pendingTask' # 0) => stage'[cur'] \in {"sent", "over"}
    BY <1>3, <1>4 DEF OwnOperation
  <2> QED BY <1>5, <2>1, <2>2, <2>3 DEF OwnOperation
<1>7. OwnAddress(n)'
  BY <1>2, <1>4 DEF OwnAddress
<1> QED BY <1>6, <1>7

\* The native submit and the wait.
LEMMA QuietWait ==
  ASSUME NEW n \in Nat, RealInv(n, 0, FALSE, FALSE, FALSE), OwnOperation(n), OwnAddress(n),
         UNCHANGED <<addr, traceTask, traceRequest, pendingTask, pendingRequest, cur>>,
         \/ /\ pc = "submitting" /\ pc' = "submitted" /\ stage' = [stage EXCEPT ![cur] = "queued"]
            /\ traceActive' = traceActive
         \/ pc = "submitted" /\ pc' = "polling" /\ stage' = stage /\ traceActive' = traceActive
         \/ pc = "polling" /\ pc' = "waiting" /\ stage' = stage /\ traceTask # 0 /\ traceActive' = FALSE
         \/ pc = "waiting" /\ pc' = "cancelling" /\ stage' = stage /\ traceActive' = traceActive
  PROVE  OwnOperation(n)' /\ OwnAddress(n)'
<1>1. /\ stage \in [1 .. n -> {"none", "queued", "built", "sent", "over"}]
      /\ pc # "idle" => cur \in 1 .. n
  BY QuietTypes
<1>2. CASE pc = "submitting" /\ pc' = "submitted" /\ stage' = [stage EXCEPT ![cur] = "queued"]
           /\ traceActive' = traceActive
  <2>1. /\ cur \in 1 .. n /\ stage[cur] = "none" /\ traceTask = 0 /\ pendingTask = 0
        /\ \A o \in 1 .. n : stage'[o] = IF o = cur THEN "queued" ELSE stage[o]
    BY <1>1, <1>2 DEF OwnOperation, Submitting
  <2>2. OwnOperation(n)'
    BY <1>2, <2>1 DEF OwnOperation, Submitting, GivenUp
  <2>3. OwnAddress(n)'
    BY <1>2, <2>1 DEF OwnAddress
  <2> QED BY <2>2, <2>3
<1>3. CASE pc = "submitted" /\ pc' = "polling" /\ stage' = stage /\ traceActive' = traceActive
  BY <1>3 DEF OwnOperation, OwnAddress, Submitting, GivenUp
<1>4. CASE pc = "polling" /\ pc' = "waiting" /\ stage' = stage /\ traceTask # 0 /\ traceActive' = FALSE
  BY <1>4 DEF OwnOperation, OwnAddress, Submitting, GivenUp
<1>5. CASE pc = "waiting" /\ pc' = "cancelling" /\ stage' = stage /\ traceActive' = traceActive
  BY <1>5 DEF OwnOperation, OwnAddress, Submitting, GivenUp
<1> QED BY <1>2, <1>3, <1>4, <1>5

LEMMA QuietBegin ==
  ASSUME NEW n \in Nat, RealInv(n, 0, FALSE, FALSE, FALSE), OwnOperation(n), OwnAddress(n),
         UNCHANGED <<stage, addr>>, status = "ready", pc = "idle", cur < n, cur' = cur + 1,
         pc' = "submitting", traceTask' = 0, pendingTask' = 0
  PROVE  OwnOperation(n)' /\ OwnAddress(n)'
<1>1. cur \in 0 .. n /\ \A f \in 1 .. n : f > cur => stage[f] = "none"
  BY QuietTypes
<1>2. stage[cur'] = "none"
  BY <1>1
<1>3. ~GivenUp
  BY DEF GivenUp
<1>4. \A o \in 1 .. n : stage[o] \notin {"queued", "built"}
  BY <1>3 DEF OwnOperation
<1>5. OwnOperation(n)'
  BY <1>2, <1>4 DEF OwnOperation, Submitting
<1>6. OwnAddress(n)'
  BY <1>2 DEF OwnAddress
<1> QED BY <1>5, <1>6

\* The request of the caller's operation is built.
LEMMA QuietRequest ==
  ASSUME NEW n \in Nat, RealInv(n, 0, FALSE, FALSE, FALSE), OwnOperation(n), OwnAddress(n),
         NEW o \in 1 .. n, NEW a \in Addrs, stage[o] = "queued",
         \A p \in 1 .. n : addr[p] # a,
         stage' = [stage EXCEPT ![o] = "built"], addr' = [addr EXCEPT ![o] = a],
         traceRequest' = IF traceActive THEN a ELSE traceRequest, traceActive' = traceActive,
         UNCHANGED <<pc, cur, status, traceTask, pendingTask, pendingRequest>>
  PROVE  OwnOperation(n)' /\ OwnAddress(n)'
<1>1. /\ stage \in [1 .. n -> {"none", "queued", "built", "sent", "over"}]
      /\ addr \in [1 .. n -> Addrs \cup {0}]
  BY QuietTypes
<1>2. /\ \A p \in 1 .. n : stage'[p] = IF p = o THEN "built" ELSE stage[p]
      /\ \A p \in 1 .. n : addr'[p] = IF p = o THEN a ELSE addr[p]
  BY <1>1
<1>3. pendingTask = 0
  <2>1. (o = cur /\ pc \in {"submitted", "polling"}) \/ GivenUp
    BY DEF OwnOperation
  <2> QED BY <2>1 DEF OwnOperation, GivenUp, Submitting
<1>4. traceActive => o = cur
  BY DEF OwnOperation, GivenUp, Submitting
<1>5. pc # "idle" => cur \in 1 .. n
  BY QuietTypes
<1>6. OwnOperation(n)'
  <2>1. traceActive' => Submitting'
    BY DEF OwnOperation, Submitting
  <2>2. pc' = "submitting" => stage'[cur'] = "none"
    BY <1>2, <1>5 DEF OwnOperation
  <2>3. \A p \in 1 .. n : stage'[p] \in {"queued", "built"} =>
          (p = cur' /\ pc' \in {"submitted", "polling"}) \/ GivenUp'
    BY <1>2 DEF OwnOperation, GivenUp
  <2>4. Submitting' /\ (traceTask' # 0 \/ pendingTask' # 0) => stage'[cur'] \in {"sent", "over"}
    BY <1>2, <1>5 DEF OwnOperation, Submitting
  <2> QED BY <2>1, <2>2, <2>3, <2>4 DEF OwnOperation
<1>7. OwnAddress(n)'
  <2>1. \A p \in 1 .. n : addr'[p] # 0 => stage'[p] \in {"built", "sent"}
    BY <1>2 DEF OwnAddress
  <2>2. \A p, q \in 1 .. n : addr'[p] = addr'[q] /\ addr'[p] # 0 => p = q
    BY <1>2 DEF OwnAddress
  <2>3. traceActive' /\ stage'[cur'] = "built" => traceRequest' = addr'[cur']
    BY <1>2, <1>4
  <2> QED BY <1>3, <2>1, <2>2, <2>3 DEF OwnAddress
<1> QED BY <1>6, <1>7

\* The factory returns the task of the caller's operation.
LEMMA QuietFactory ==
  ASSUME NEW n \in Nat, RealInv(n, 0, FALSE, FALSE, FALSE), OwnOperation(n), OwnAddress(n),
         NEW o \in 1 .. n, stage[o] = "built", stage' = [stage EXCEPT ![o] = "sent"],
         UNCHANGED <<addr, pc, cur, status, traceRequest>>, traceActive' = traceActive,
         \/ traceActive /\ traceTask' = o /\ pendingTask' = o /\ pendingRequest' = traceRequest
         \/ ~traceActive /\ UNCHANGED <<traceTask, pendingTask, pendingRequest>>
  PROVE  OwnOperation(n)' /\ OwnAddress(n)'
<1>1. /\ stage \in [1 .. n -> {"none", "queued", "built", "sent", "over"}]
      /\ addr \in [1 .. n -> Addrs \cup {0}] /\ (pc # "idle" => cur \in 1 .. n)
  BY QuietTypes
<1>2. \A p \in 1 .. n : stage'[p] = IF p = o THEN "sent" ELSE stage[p]
  BY <1>1
<1>3. (o = cur /\ pc \in {"submitted", "polling"}) \/ GivenUp
  BY DEF OwnOperation
<1>4. traceActive => o = cur
  BY DEF OwnOperation, GivenUp, Submitting
<1>5. OwnOperation(n)'
  <2>1. traceActive' => Submitting'
    BY DEF OwnOperation, Submitting
  <2>2. pc' = "submitting" => stage'[cur'] = "none"
    BY <1>1, <1>2 DEF OwnOperation
  <2>3. \A p \in 1 .. n : stage'[p] \in {"queued", "built"} =>
          (p = cur' /\ pc' \in {"submitted", "polling"}) \/ GivenUp'
    <3>1. CASE traceActive
      BY <1>2, <1>4, <3>1 DEF OwnOperation, GivenUp, Submitting
    <3>2. CASE ~traceActive
      BY <1>2, <3>2 DEF OwnOperation, GivenUp
    <3> QED BY <3>1, <3>2
  <2>4. Submitting' /\ (traceTask' # 0 \/ pendingTask' # 0) => stage'[cur'] \in {"sent", "over"}
    <3>1. Submitting => o = cur
      BY <1>3 DEF GivenUp, Submitting
    <3> QED BY <1>2, <3>1 DEF Submitting
  <2> QED BY <2>1, <2>2, <2>3, <2>4 DEF OwnOperation
<1>6. OwnAddress(n)'
  <2>1. \A p \in 1 .. n : addr'[p] # 0 => stage'[p] \in {"built", "sent"}
    BY <1>2 DEF OwnAddress
  <2>2. \A p, q \in 1 .. n : addr'[p] = addr'[q] /\ addr'[p] # 0 => p = q
    BY DEF OwnAddress
  <2>3. traceActive' /\ stage'[cur'] = "built" => traceRequest' = addr'[cur']
    BY <1>2, <1>4
  <2>4. pendingTask' # 0 /\ pendingRequest' # 0 =>
          \A p \in 1 .. n : addr'[p] = pendingRequest' => p = pendingTask'
    <3>1. CASE traceActive
      <4>1. traceRequest = addr[o]
        BY <1>4, <3>1 DEF OwnAddress
      <4> QED BY <2>2, <3>1, <4>1
    <3>2. CASE ~traceActive
      BY <3>2 DEF OwnAddress
    <3> QED BY <3>1, <3>2
  <2> QED BY <2>1, <2>2, <2>3, <2>4 DEF OwnAddress
<1> QED BY <1>5, <1>6

\* An operation ends: the factory fails, an answer comes or none.
LEMMA QuietOver ==
  ASSUME NEW n \in Nat, RealInv(n, 0, FALSE, FALSE, FALSE), OwnOperation(n), OwnAddress(n),
         NEW o \in 1 .. n, stage[o] \in {"built", "sent"},
         stage' = [stage EXCEPT ![o] = "over"], addr' = [addr EXCEPT ![o] = 0],
         UNCHANGED <<pc, cur, status, traceRequest>>, traceActive' = traceActive,
         traceTask' \in {traceTask, 0},
         pendingTask' = 0 \/ UNCHANGED <<pendingTask, pendingRequest>>
  PROVE  OwnOperation(n)' /\ OwnAddress(n)'
<1>1. /\ stage \in [1 .. n -> {"none", "queued", "built", "sent", "over"}]
      /\ addr \in [1 .. n -> Addrs \cup {0}] /\ (pc # "idle" => cur \in 1 .. n)
  BY QuietTypes
<1>2. /\ \A p \in 1 .. n : stage'[p] = IF p = o THEN "over" ELSE stage[p]
      /\ \A p \in 1 .. n : addr'[p] = IF p = o THEN 0 ELSE addr[p]
  BY <1>1
<1>3. OwnOperation(n)'
  <2>1. traceActive' => Submitting'
    BY DEF OwnOperation, Submitting
  <2>2. pc' = "submitting" => stage'[cur'] = "none"
    BY <1>1, <1>2 DEF OwnOperation
  <2>3. \A p \in 1 .. n : stage'[p] \in {"queued", "built"} =>
          (p = cur' /\ pc' \in {"submitted", "polling"}) \/ GivenUp'
    BY <1>2 DEF OwnOperation, GivenUp
  <2>4. Submitting' /\ (traceTask' # 0 \/ pendingTask' # 0) => stage'[cur'] \in {"sent", "over"}
    <3>1. Submitting => cur \in 1 .. n
      BY <1>1 DEF Submitting
    <3> QED BY <1>2, <3>1 DEF OwnOperation, Submitting
  <2> QED BY <2>1, <2>2, <2>3, <2>4 DEF OwnOperation
<1>4. OwnAddress(n)'
  <2>1. \A p \in 1 .. n : addr'[p] # 0 => stage'[p] \in {"built", "sent"}
    BY <1>2 DEF OwnAddress
  <2>2. \A p, q \in 1 .. n : addr'[p] = addr'[q] /\ addr'[p] # 0 => p = q
    BY <1>2 DEF OwnAddress
  <2>3. traceActive' /\ stage'[cur'] = "built" => traceRequest' = addr'[cur']
    <3>1. traceActive => cur \in 1 .. n
      BY <1>1 DEF OwnOperation, Submitting
    <3> QED BY <1>2, <3>1 DEF OwnAddress
  <2>4. pendingTask' # 0 /\ pendingRequest' # 0 =>
          \A p \in 1 .. n : addr'[p] = pendingRequest' => p = pendingTask'
    BY <1>2 DEF OwnAddress
  <2> QED BY <2>1, <2>2, <2>3, <2>4 DEF OwnAddress
<1> QED BY <1>3, <1>4

LEMMA QuietDropStep ==
  ASSUME NEW n \in Nat, QuietInv(n),
         \/ Real(n, 0, FALSE, FALSE, FALSE)!AskStatus \/ Real(n, 0, FALSE, FALSE, FALSE)!Refuse
         \/ Real(n, 0, FALSE, FALSE, FALSE)!ParseRejects \/ Real(n, 0, FALSE, FALSE, FALSE)!PayloadFaults
         \/ Real(n, 0, FALSE, FALSE, FALSE)!ManagerUnavailable
         \/ Real(n, 0, FALSE, FALSE, FALSE)!SubmitFaults
         \/ Real(n, 0, FALSE, FALSE, FALSE)!FactoryDeadline
         \/ Real(n, 0, FALSE, FALSE, FALSE)!Cancel \/ Real(n, 0, FALSE, FALSE, FALSE)!CancelClone
         \/ Real(n, 0, FALSE, FALSE, FALSE)!SetupRealTextSend \/ Real(n, 0, FALSE, FALSE, FALSE)!WarmUp
         \/ Real(n, 0, FALSE, FALSE, FALSE)!ProviderChanges
         \/ Real(n, 0, FALSE, FALSE, FALSE)!BecomeClassic \/ Real(n, 0, FALSE, FALSE, FALSE)!Age
         \/ \E g \in 1 .. n : Real(n, 0, FALSE, FALSE, FALSE)!FreeFuture(g)
         \/ \E a \in acks : Real(n, 0, FALSE, FALSE, FALSE)!TakeAck(a)
  PROVE  OwnOperation(n)' /\ OwnAddress(n)' /\ acks' \subseteq acks
<1> USE DEF Real!AskStatus, Real!Refuse, Real!ParseRejects, Real!PayloadFaults,
            Real!ManagerUnavailable, Real!SubmitFaults, Real!SubmitFails, Real!FactoryDeadline,
            Real!Cancel, Real!CancelClone, Real!SetupRealTextSend, Real!WarmUp,
            Real!ProviderChanges, Real!BecomeClassic, Real!Age, Real!FreeFuture, Real!TakeAck
<1>1. UNCHANGED <<stage, addr, traceTask, traceRequest>>
  BY Zenon DEF Real!traceVars, Real!wechatVars
<1>2. traceActive' = traceActive \/ traceActive' = FALSE
  BY Zenon DEF Real!traceVars
<1>3. MovesOn
  BY Zenon DEF MovesOn, Real!NextSend, Real!callerVars
<1>4. pendingTask' = 0 \/ UNCHANGED <<pendingTask, pendingRequest>>
  BY Zenon DEF Real!ClearPending, Real!CancelPending, Real!pendingVars
<1>5. status' = status \/ status' = "faulted" \/ status = "off" \/ pc = "submitting"
  BY Zenon
<1>6. Submitting => \/ pc' = pc /\ cur' = cur
                    \/ traceActive' = FALSE /\ (GivenUp' \/ pc = "submitting" \/ stage[cur] = "over")
  BY Zenon DEF Real!NextSend, Real!ClearPending, Real!callerVars, Submitting, GivenUp
<1>7. acks' = acks \/ \E a \in acks : acks' = acks \ {a}
  BY Zenon
<1>8. acks' \subseteq acks
  BY <1>7
<1>9. RealInv(n, 0, FALSE, FALSE, FALSE) /\ OwnOperation(n) /\ OwnAddress(n)
  BY DEF QuietInv
<1> QED BY <1>1, <1>2, <1>3, <1>4, <1>5, <1>6, <1>8, <1>9, QuietDrop, Zenon

LEMMA QuietWaitStep ==
  ASSUME NEW n \in Nat, QuietInv(n),
         \/ Real(n, 0, FALSE, FALSE, FALSE)!SubmitQueues \/ Real(n, 0, FALSE, FALSE, FALSE)!SubmitReturns
         \/ Real(n, 0, FALSE, FALSE, FALSE)!FactorySeen \/ Real(n, 0, FALSE, FALSE, FALSE)!Timeout
  PROVE  OwnOperation(n)' /\ OwnAddress(n)' /\ acks' = acks
<1>1. UNCHANGED <<addr, traceTask, traceRequest, pendingTask, pendingRequest, cur>> /\ acks' = acks
  BY Zenon DEF Real!SubmitQueues, Real!SubmitReturns, Real!FactorySeen, Real!Timeout,
               Real!traceVars, Real!pendingVars, Real!wechatVars, Real!callerVars
<1>2. \/ /\ pc = "submitting" /\ pc' = "submitted" /\ stage' = [stage EXCEPT ![cur] = "queued"]
         /\ traceActive' = traceActive
      \/ pc = "submitted" /\ pc' = "polling" /\ stage' = stage /\ traceActive' = traceActive
      \/ pc = "polling" /\ pc' = "waiting" /\ stage' = stage /\ traceTask # 0 /\ traceActive' = FALSE
      \/ pc = "waiting" /\ pc' = "cancelling" /\ stage' = stage /\ traceActive' = traceActive
  BY Zenon DEF Real!SubmitQueues, Real!SubmitReturns, Real!FactorySeen, Real!Timeout,
               Real!traceVars, Real!wechatVars
<1>3. RealInv(n, 0, FALSE, FALSE, FALSE) /\ OwnOperation(n) /\ OwnAddress(n)
  BY DEF QuietInv
<1> QED BY <1>1, <1>2, <1>3, QuietWait, Zenon

LEMMA QuietOperationStep ==
  ASSUME NEW n \in Nat, QuietInv(n), NEW o \in 1 .. n,
         \/ \E a \in Addrs : Real(n, 0, FALSE, FALSE, FALSE)!RequestCtor(o, a)
         \/ Real(n, 0, FALSE, FALSE, FALSE)!FactoryLeave(o)
         \/ Real(n, 0, FALSE, FALSE, FALSE)!FactoryFails(o)
         \/ Real(n, 0, FALSE, FALSE, FALSE)!Lose(o)
  PROVE  OwnOperation(n)' /\ OwnAddress(n)' /\ acks' = acks
<1>1. RealInv(n, 0, FALSE, FALSE, FALSE) /\ OwnOperation(n) /\ OwnAddress(n)
  BY DEF QuietInv
<1>2. ASSUME NEW a \in Addrs, Real(n, 0, FALSE, FALSE, FALSE)!RequestCtor(o, a)
      PROVE  OwnOperation(n)' /\ OwnAddress(n)' /\ acks' = acks
  <2>1. /\ stage[o] = "queued"
        /\ stage' = [stage EXCEPT ![o] = "built"] /\ addr' = [addr EXCEPT ![o] = a]
        /\ traceRequest' = (IF traceActive THEN a ELSE traceRequest) /\ traceActive' = traceActive
        /\ UNCHANGED <<pc, cur, status, traceTask, pendingTask, pendingRequest>> /\ acks' = acks
    BY <1>2, Zenon DEF Real!RequestCtor, Real!pendingVars, Real!callerVars
  <2>2. \A p \in 1 .. n : addr[p] # a
    <3>1. n + 0 = n
      OBVIOUS
    <3> QED BY <1>2, <3>1, Zenon DEF Real!RequestCtor, Real!Ops
  <2> QED BY <1>1, <2>1, <2>2, QuietRequest, Zenon
<1>3. CASE Real(n, 0, FALSE, FALSE, FALSE)!FactoryLeave(o)
  <2>1. /\ stage[o] = "built" /\ stage' = [stage EXCEPT ![o] = "sent"]
        /\ UNCHANGED <<addr, pc, cur, status, traceRequest>> /\ traceActive' = traceActive
        /\ acks' = acks
        /\ \/ traceActive /\ traceTask' = o /\ pendingTask' = o /\ pendingRequest' = traceRequest
           \/ ~traceActive /\ UNCHANGED <<traceTask, pendingTask, pendingRequest>>
    BY <1>3, Zenon DEF Real!FactoryLeave, Real!callerVars
  <2> QED BY <1>1, <2>1, QuietFactory, Zenon
<1>4. CASE Real(n, 0, FALSE, FALSE, FALSE)!FactoryFails(o) \/ Real(n, 0, FALSE, FALSE, FALSE)!Lose(o)
  <2>1. /\ stage[o] = "built" \/ stage[o] = "sent"
        /\ stage' = [stage EXCEPT ![o] = "over"] /\ addr' = [addr EXCEPT ![o] = 0]
        /\ UNCHANGED <<pc, cur, status, traceRequest>> /\ traceActive' = traceActive
        /\ acks' = acks /\ UNCHANGED <<pendingTask, pendingRequest>>
        /\ traceTask' = traceTask \/ traceTask' = 0
    BY <1>4, Zenon DEF Real!FactoryFails, Real!Lose, Real!traceVars, Real!pendingVars,
                       Real!callerVars
  <2>2. stage[o] \in {"built", "sent"} /\ traceTask' \in {traceTask, 0}
    BY <2>1
  <2> QED BY <1>1, <2>1, <2>2, QuietOver, Zenon
<1> QED BY <1>2, <1>3, <1>4

LEMMA QuietResponse ==
  ASSUME NEW n \in Nat, QuietInv(n), NEW o \in 1 .. n, NEW ok \in BOOLEAN,
         Real(n, 0, FALSE, FALSE, FALSE)!Response(o, ok)
  PROVE  /\ OwnOperation(n)' /\ OwnAddress(n)'
         /\ Real(n, 0, FALSE, FALSE, FALSE)!AnswerOfOwnTask'
<1>1. RealInv(n, 0, FALSE, FALSE, FALSE) /\ OwnOperation(n) /\ OwnAddress(n)
  BY DEF QuietInv
<1>2. /\ stage[o] = "sent"
      /\ stage' = [stage EXCEPT ![o] = "over"] /\ addr' = [addr EXCEPT ![o] = 0]
      /\ UNCHANGED <<pc, cur, status, traceRequest>> /\ traceActive' = traceActive
      /\ traceTask' = traceTask
      /\ pendingTask' = 0 \/ UNCHANGED <<pendingTask, pendingRequest>>
  BY Zenon DEF Real!Response, Real!ClearPending, Real!traceVars, Real!pendingVars, Real!callerVars
<1>3. \/ acks' = acks
      \/ /\ pendingTask # 0 /\ pendingRequest # 0 /\ pendingRequest = addr[o]
         /\ acks' = acks \cup {[task |-> pendingTask, op |-> o, ok |-> ok]}
  BY Zenon DEF Real!Response
<1>4. OwnOperation(n)' /\ OwnAddress(n)'
  <2>1. stage[o] \in {"built", "sent"} /\ traceTask' \in {traceTask, 0}
    BY <1>2
  <2> QED BY <1>1, <1>2, <2>1, QuietOver, Zenon
<1>5. \A a \in acks : a.task = a.op
  BY DEF QuietInv, Real!AnswerOfOwnTask
<1>6. \A a \in acks' : a.task = a.op
  <2>1. CASE acks' = acks
    BY <1>5, <2>1
  <2>2. CASE /\ pendingTask # 0 /\ pendingRequest # 0 /\ pendingRequest = addr[o]
             /\ acks' = acks \cup {[task |-> pendingTask, op |-> o, ok |-> ok]}
    <3>1. pendingTask = o
      BY <1>1, <2>2 DEF OwnAddress
    <3>2. \A a \in acks' : a \in acks \/ a = [task |-> o, op |-> o, ok |-> ok]
      BY <2>2, <3>1
    <3> QED BY <1>5, <3>2
  <2> QED BY <1>3, <2>1, <2>2
<1> QED BY <1>4, <1>6 DEF Real!AnswerOfOwnTask

LEMMA QuietStep ==
  ASSUME NEW n \in Nat, QuietInv(n), Real(n, 0, FALSE, FALSE, FALSE)!Next
  PROVE  QuietInv(n)'
<1>1. RealInv(n, 0, FALSE, FALSE, FALSE)'
  BY RealStep DEF QuietInv
<1>2. ASSUME OwnOperation(n)' /\ OwnAddress(n)', acks' \subseteq acks
      PROVE  QuietInv(n)'
  <2>1. Real(n, 0, FALSE, FALSE, FALSE)!AnswerOfOwnTask'
    BY <1>2 DEF QuietInv, Real!AnswerOfOwnTask
  <2> QED BY <1>1, <1>2, <2>1, Zenon DEF QuietInv
<1>3. ASSUME OwnOperation(n)' /\ OwnAddress(n)', acks' = acks
      PROVE  QuietInv(n)'
  BY <1>2, <1>3
<1>4. CASE Real(n, 0, FALSE, FALSE, FALSE)!BeginSubmit
  <2>1. /\ UNCHANGED <<stage, addr>> /\ status = "ready" /\ pc = "idle" /\ cur < n /\ cur' = cur + 1
        /\ pc' = "submitting" /\ traceTask' = 0 /\ pendingTask' = 0 /\ acks' = acks
    BY <1>4, Zenon DEF Real!BeginSubmit, Real!NextSend, Real!CanSubmit, Real!wechatVars
  <2>2. OwnOperation(n)' /\ OwnAddress(n)'
    BY <2>1, QuietBegin, Zenon DEF QuietInv
  <2> QED BY <1>3, <2>1, <2>2
<1>5. CASE Real(n, 0, FALSE, FALSE, FALSE)!Trigger
  BY <1>2, <1>4, <1>5, QuietDropStep, Zenon DEF Real!Trigger
<1>6. CASE Real(n, 0, FALSE, FALSE, FALSE)!Submit
  BY <1>2, <1>3, <1>6, QuietDropStep, QuietWaitStep, Zenon DEF Real!Submit
<1>7. CASE Real(n, 0, FALSE, FALSE, FALSE)!Poll
  BY <1>2, <1>3, <1>7, QuietDropStep, QuietWaitStep, Zenon DEF Real!Poll
<1>8. CASE Real(n, 0, FALSE, FALSE, FALSE)!Await
  BY <1>2, <1>3, <1>8, QuietDropStep, QuietWaitStep, Zenon DEF Real!Await
<1>9. CASE Real(n, 0, FALSE, FALSE, FALSE)!WeChat
  <2>1. /\ \A o : o \in Real(n, 0, FALSE, FALSE, FALSE)!Ops <=> o \in 1 .. n
        /\ \A o \in 1 .. n : ~(o > n)
    BY DEF Real!Ops
  <2>2. CASE Real(n, 0, FALSE, FALSE, FALSE)!ProviderChanges
    BY <1>2, <2>2, QuietDropStep, Zenon
  <2>3. ASSUME NEW o \in 1 .. n,
               \/ Real(n, 0, FALSE, FALSE, FALSE)!UserSend(o)
               \/ Real(n, 0, FALSE, FALSE, FALSE)!FactoryLeave(o)
               \/ Real(n, 0, FALSE, FALSE, FALSE)!FactoryFails(o)
               \/ Real(n, 0, FALSE, FALSE, FALSE)!Lose(o)
        PROVE  QuietInv(n)'
    BY <1>3, <2>1, <2>3, QuietOperationStep, Zenon DEF Real!UserSend
  <2>4. ASSUME NEW o \in 1 .. n, NEW a \in Addrs, Real(n, 0, FALSE, FALSE, FALSE)!RequestCtor(o, a)
        PROVE  QuietInv(n)'
    BY <1>3, <2>4, QuietOperationStep, Zenon
  <2>5. ASSUME NEW o \in 1 .. n, NEW ok \in BOOLEAN, Real(n, 0, FALSE, FALSE, FALSE)!Response(o, ok)
        PROVE  QuietInv(n)'
    BY <1>1, <2>5, QuietResponse, Zenon DEF QuietInv
  <2> QED BY <1>9, <2>1, <2>2, <2>3, <2>4, <2>5, Zenon DEF Real!WeChat
<1>10. CASE Real(n, 0, FALSE, FALSE, FALSE)!Classic
  BY <1>2, <1>10, QuietDropStep, Zenon DEF Real!Classic, Real!RegisterClone
<1>11. ASSUME NEW g \in 1 .. n, Real(n, 0, FALSE, FALSE, FALSE)!FreeFuture(g)
       PROVE  QuietInv(n)'
  BY <1>2, <1>11, QuietDropStep, Zenon
<1> QED BY <1>2, <1>5, <1>6, <1>7, <1>8, <1>9, <1>10, <1>11, QuietDropStep, Zenon
        DEF Real!Next, Real!Sends

LEMMA QuietStutter == ASSUME NEW n \in Nat, QuietInv(n), UNCHANGED realState PROVE QuietInv(n)'
<1>1. RealInv(n, 0, FALSE, FALSE, FALSE)'
  BY RealStutter DEF QuietInv
<1>2. /\ UNCHANGED <<stage, addr, traceTask, traceRequest, pendingTask, pendingRequest, pc, cur>>
      /\ UNCHANGED <<status, acks, traceActive>>
  BY Zenon DEF realState, realVars, callerVars
<1>3. OwnOperation(n)' /\ OwnAddress(n)'
  BY <1>2, Zenon DEF QuietInv, OwnOperation, OwnAddress, Submitting, GivenUp
<1>4. Real(n, 0, FALSE, FALSE, FALSE)!AnswerOfOwnTask'
  BY <1>2, Zenon DEF QuietInv, Real!AnswerOfOwnTask
<1> QED BY <1>1, <1>3, <1>4, Zenon DEF QuietInv

-----------------------------------------------------------------------------
(* All parts together.  Only the part chosen at the start moves; the others   *)
(* claim nothing, since their variables are Unused.                            *)

AgentInv ==
  /\ part = "late"   => RealInv(LateSends, 0, TRUE, TRUE, TRUE)
  /\ part = "user"   => RealInv(SharedSends, TypedSends, TRUE, TRUE, TRUE)
  /\ part = "prompt" => RealInv(PromptSends, 0, FALSE, TRUE, TRUE)
  /\ part = "quiet"  => QuietInv(QuietSends)
  /\ part = "encode" => InjectInv(InjectSends, OwnTasks, TRUE, TRUE)
  /\ part = "timely" => TimelyInv(TimelySends)
  /\ part = "setup"  => SetupInv
  /\ part = "memory" => MemoryInv

LEMMA SendsAreNumbers ==
  /\ LateSends \in Nat /\ SharedSends \in Nat /\ TypedSends \in Nat
  /\ PromptSends \in Nat /\ QuietSends \in Nat
  /\ InjectSends \in Nat /\ OwnTasks \in Nat /\ TimelySends \in Nat /\ 0 \in Nat
BY SendsAssumption

LEMMA AgentInit == Init => AgentInv
<1> SUFFICES ASSUME Init PROVE AgentInv
  OBVIOUS
<1>1. CASE InitReal
  <2>1. CASE part = "late" /\ Real(LateSends, 0, TRUE, TRUE, TRUE)!Init
    BY <2>1, SendsAreNumbers, RealInit DEF AgentInv
  <2>2. CASE part = "user" /\ Real(SharedSends, TypedSends, TRUE, TRUE, TRUE)!Init
    BY <2>2, SendsAreNumbers, RealInit DEF AgentInv
  <2>3. CASE part = "prompt" /\ Real(PromptSends, 0, FALSE, TRUE, TRUE)!Init
    BY <2>3, SendsAreNumbers, RealInit DEF AgentInv
  <2>4. CASE part = "quiet" /\ Real(QuietSends, 0, FALSE, FALSE, FALSE)!Init
    BY <2>4, SendsAreNumbers, QuietInit DEF AgentInv
  <2> QED BY <1>1, <2>1, <2>2, <2>3, <2>4, Zenon DEF InitReal
<1>2. CASE InitEncode
  <2>1. CASE part = "encode" /\ Inject(InjectSends, OwnTasks, TRUE, TRUE)!Init
    BY <2>1, SendsAreNumbers, InjectInit DEF AgentInv
  <2>2. CASE part = "timely" /\ Inject(TimelySends, 0, FALSE, FALSE)!Init
    BY <2>2, SendsAreNumbers, TimelyInit DEF AgentInv
  <2> QED BY <1>2, <2>1, <2>2, Zenon DEF InitEncode
<1>3. CASE InitSetup
  <2>1. part = "setup" /\ Setup!Init
    BY <1>3, Zenon DEF InitSetup
  <2> QED BY <2>1, SetupInit DEF AgentInv
<1>4. CASE InitWire
  <2>1. part = "wire"
    BY <1>4, Zenon DEF InitWire
  <2> QED BY <2>1 DEF AgentInv
<1>5. CASE InitMemory
  <2>1. part = "memory" /\ Memory!Init
    BY <1>5, Zenon DEF InitMemory
  <2> QED BY <2>1, MemoryInit DEF AgentInv
<1> QED BY <1>1, <1>2, <1>3, <1>4, <1>5, Zenon DEF Init

LEMMA AgentStep == AgentInv /\ [Next]_vars => AgentInv'
<1> SUFFICES ASSUME AgentInv, [Next]_vars PROVE AgentInv'
  OBVIOUS
<1>1. part' = part
  BY Zenon DEF vars, Next, NextReal, NextEncode, NextSetup, NextWire, NextMemory
\* Each part takes a step of its own or keeps its variables.
<1>2. \/ UNCHANGED realState
      \/ part = "late" /\ Real(LateSends, 0, TRUE, TRUE, TRUE)!Next
      \/ part = "user" /\ Real(SharedSends, TypedSends, TRUE, TRUE, TRUE)!Next
      \/ part = "prompt" /\ Real(PromptSends, 0, FALSE, TRUE, TRUE)!Next
      \/ part = "quiet" /\ Real(QuietSends, 0, FALSE, FALSE, FALSE)!Next
      \/ part \in {"encode", "timely", "setup"}
  BY Zenon DEF vars, realState, Next, NextReal, NextEncode, NextSetup, NextWire, NextMemory
<1>3. \/ UNCHANGED <<encodeVars, callerVars>>
      \/ part = "encode" /\ Inject(InjectSends, OwnTasks, TRUE, TRUE)!Next
      \/ part = "timely" /\ Inject(TimelySends, 0, FALSE, FALSE)!Next
      \/ part \in {"late", "user", "prompt", "quiet"}
  BY Zenon DEF vars, Next, NextReal, NextEncode, NextSetup, NextWire, NextMemory
<1>4. \/ UNCHANGED setupState
      \/ part = "setup" /\ Setup!Next
      \/ part \in {"late", "user", "prompt", "quiet"}
  BY Zenon DEF vars, setupState, Next, NextReal, NextEncode, NextSetup, NextWire, NextMemory
<1>5. \/ UNCHANGED memoryVars
      \/ part = "memory" /\ Memory!Next
  BY Zenon DEF vars, Next, NextReal, NextEncode, NextSetup, NextWire, NextMemory
<1>6. CASE part \in {"late", "user", "prompt"}
  <2>1. CASE part = "late"
    BY <1>1, <1>2, <2>1, SendsAreNumbers, RealStep, RealStutter DEF AgentInv
  <2>2. CASE part = "user"
    BY <1>1, <1>2, <2>2, SendsAreNumbers, RealStep, RealStutter DEF AgentInv
  <2>3. CASE part = "prompt"
    BY <1>1, <1>2, <2>3, SendsAreNumbers, RealStep, RealStutter DEF AgentInv
  <2> QED BY <1>6, <2>1, <2>2, <2>3
<1>7. CASE part = "quiet"
  BY <1>1, <1>2, <1>7, SendsAreNumbers, QuietStep, QuietStutter DEF AgentInv
<1>8. CASE part = "encode"
  BY <1>1, <1>3, <1>8, SendsAreNumbers, InjectStep, InjectStutter DEF AgentInv
<1>9. CASE part = "timely"
  BY <1>1, <1>3, <1>9, SendsAreNumbers, TimelyStep, TimelyStutter DEF AgentInv
<1>10. CASE part = "setup"
  BY <1>1, <1>4, <1>10, SetupStep, SetupStutter DEF AgentInv
<1>11. CASE part = "memory"
  BY <1>1, <1>5, <1>11, MemoryStep, MemoryStutter DEF AgentInv
<1>12. CASE part \notin {"late", "user", "prompt", "quiet", "encode", "timely", "setup", "memory"}
  BY <1>1, <1>12 DEF AgentInv
<1> QED BY <1>6, <1>7, <1>8, <1>9, <1>10, <1>11, <1>12

\* The inductive invariants of all parts hold in every state.
THEOREM AgentInvariant == Spec => []AgentInv
<1>1. Init => AgentInv
  BY AgentInit
<1>2. AgentInv /\ [Next]_vars => AgentInv'
  BY AgentStep
<1> QED BY <1>1, <1>2, PTL DEF Spec

-----------------------------------------------------------------------------
(* What the invariant says of each part. *)

\* The variables of the part that runs keep their types, whatever the number
\* of sends, of tasks, of attempts and of addresses: a future is of a send,
\* a registration of a task, an answer of a request that was made.
THEOREM AgentTypesKept == Spec => []TypeOK
<1>1. AgentInv => TypeOK
  <2> SUFFICES ASSUME AgentInv PROVE TypeOK
    OBVIOUS
  <2>1. part = "late" => Real(LateSends, 0, TRUE, TRUE, TRUE)!TypeOK
    BY SendsAreNumbers, RealInvImplies DEF AgentInv
  <2>2. part = "user" => Real(SharedSends, TypedSends, TRUE, TRUE, TRUE)!TypeOK
    BY SendsAreNumbers, RealInvImplies DEF AgentInv
  <2>3. part = "prompt" => Real(PromptSends, 0, FALSE, TRUE, TRUE)!TypeOK
    BY SendsAreNumbers, RealInvImplies DEF AgentInv
  <2>4. part = "quiet" => Real(QuietSends, 0, FALSE, FALSE, FALSE)!TypeOK
    BY SendsAreNumbers, RealInvImplies DEF AgentInv, QuietInv
  <2>5. part = "encode" => Inject(InjectSends, OwnTasks, TRUE, TRUE)!TypeOK
    BY DEF AgentInv, InjectInv
  <2>6. part = "timely" => Inject(TimelySends, 0, FALSE, FALSE)!TypeOK
    BY DEF AgentInv, TimelyInv, InjectInv
  <2>7. part = "setup" => Setup!TypeOK
    BY DEF AgentInv, SetupInv
  <2> QED BY <2>1, <2>2, <2>3, <2>4, <2>5, <2>6, <2>7 DEF TypeOK
<1> QED BY <1>1, AgentInvariant, PTL

\* The future of a submitted text is held, scheduled for its destructor or
\* destroyed, and only one of these (releasePendingRealTextFuture): for any
\* number of sends and of texts of the user's in between, however late the
\* factory is and whichever cancels get lost.
THEOREM NoFutureLeaks == Spec => []FuturesAccountedFor
<1>1. AgentInv => FuturesAccountedFor
  <2>1. part = "late" /\ AgentInv => Real(LateSends, 0, TRUE, TRUE, TRUE)!FuturesAccountedFor
    BY SendsAreNumbers, RealInvImplies DEF AgentInv
  <2>2. part = "user" /\ AgentInv => Real(SharedSends, TypedSends, TRUE, TRUE, TRUE)!FuturesAccountedFor
    BY SendsAreNumbers, RealInvImplies DEF AgentInv
  <2> QED BY <2>1, <2>2 DEF FuturesAccountedFor
<1> QED BY <1>1, AgentInvariant, PTL

\* A registration whose caller has gone carries the time stamp by which
\* getSendContextStatus drops it, or texts are cloned by now.
THEOREM GivenUpRegistrationsExpire == Spec => []RegistrationExpires
<1>1. AgentInv => RegistrationExpires
  <2>1. part = "late" /\ AgentInv => Real(LateSends, 0, TRUE, TRUE, TRUE)!RegistrationExpires
    BY SendsAreNumbers, RealInvImplies DEF AgentInv
  <2>2. part = "user" /\ AgentInv => Real(SharedSends, TypedSends, TRUE, TRUE, TRUE)!RegistrationExpires
    BY SendsAreNumbers, RealInvImplies DEF AgentInv
  <2> QED BY <2>1, <2>2 DEF RegistrationExpires
<1> QED BY <1>1, AgentInvariant, PTL

\* When the factory is prompt, no cancel is lost and the user types nothing,
\* the response the script hands on for a task is the one WeChat gave to the
\* request of that task.
THEOREM AnswersAreOfTheirTasks == Spec => []AnswerOfOwnTask
<1>1. AgentInv => AnswerOfOwnTask
  BY DEF AgentInv, QuietInv, AnswerOfOwnTask
<1> QED BY <1>1, AgentInvariant, PTL

\* However the encodings of the script's and of WeChat's tasks come in
\* between, and whichever submits fail, the hook writes a text into one task.
THEOREM TextsGoOutOnce == Spec => []TextSentAtMostOnce
<1>1. AgentInv => TextSentAtMostOnce
  BY DEF AgentInv, InjectInv, TextSentAtMostOnce
<1> QED BY <1>1, AgentInvariant, PTL

\* When each task is encoded while its caller waits for it, every card's task
\* carries that card, and every text's task that text as long as no card was
\* sent before; the write hook never sees a task the encoder hook took.  That
\* texts keep coming through after a card is TextsAreInjected, which the code
\* breaks (run card_then_text).
THEOREM TasksCarryTheirMessage == Spec => []OwnPayload
<1>1. AgentInv => OwnPayload
  BY DEF AgentInv, TimelyInv, OwnPayload
<1> QED BY <1>1, AgentInvariant, PTL

\* Whatever fails in the set-up and however often it is tried again, the
\* vtables the script hands to WeChat are the ones it keeps alive.
THEOREM VtablesStayAlive == Spec => []VtableLive
<1>1. AgentInv => VtableLive
  BY DEF AgentInv, SetupInv, VtableLive
<1> QED BY <1>1, AgentInvariant, PTL

\* For a captured task of any size at any address, the loop of
\* triggerClassicCloneSend that moves the pointers leaves none that leads into
\* the original, although it computes modulo 2^64 and cuts to 32 bits.
THEOREM CloneStandsAlone == Spec => []NothingLeadsBack
<1>1. AgentInv => NothingLeadsBack
  BY DEF AgentInv, MemoryInv, NothingLeadsBack
<1> QED BY <1>1, AgentInvariant, PTL
=============================================================================
