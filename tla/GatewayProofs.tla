---------------------------- MODULE GatewayProofs ----------------------------
(***************************************************************************)
(* For any peers, groups, clients and frames: as long as the user writes   *)
(* to nobody in private, the own id that goroutines learn without a lock   *)
(* is the user's; the messages of a frame arrive in their order; and       *)
(* although all readers share one connection variable, no answer goes to a *)
(* client older than the one that asked.                                   *)
(***************************************************************************)
EXTENDS Gateway, SequenceTheorems, TLAPS

Stages == {"none", "parse", "forward", "learn", "send", "write", "ended"}
Holding == {"learn", "send", "write"}

\* Events whose own id is in S, and a state that holds no other id.
Ev(S) == [frame : Frames, place : Nat, self : S, chat : Ids]
Work(S) == [Frames -> [stage : Stages, parsed : Nat, list : Seq(Ev(S))]]
Carries(S) == myWechatId \in S \cup {None} /\ events \in Seq(Ev(S)) /\ work \in Work(S)

\* Every message seen so far would be taken to come from, or to, one of S.
Shows(S) == \A f \in DOMAIN frames : \A i \in DOMAIN frames[f] : SelfOf(frames[f][i]) \in S

\* The goroutines of frames that were seen, and of no others, are at work:
\* one that parses has a message left, one that sends has an event.
Places ==
  /\ frames \in Seq(Seq(Messages)) /\ Len(frames) <= MaxFrames
  /\ \A f \in Frames :
       /\ work[f].stage = "none" => work[f].parsed = 0
       /\ work[f].stage = "parse" => f <= Len(frames) /\ work[f].parsed < Len(frames[f])
       /\ f > Len(frames) => work[f].stage = "none"
       /\ work[f].stage \in Holding => work[f].list # <<>>

\* The inductive invariant, for the two sets of ids that matter.
OwnIdInv == Places /\ Carries(Ids) /\ (Shows({Self}) => Carries({Self}))

-----------------------------------------------------------------------------
LEMMA OwnIdInit == Init => OwnIdInv
<1> SUFFICES ASSUME Init PROVE OwnIdInv
  OBVIOUS
<1>1. ASSUME NEW S PROVE Carries(S)
  <2>1. <<>> \in Seq(Ev(S))
    BY EmptySeq
  <2> QED BY <2>1 DEF Init, Carries, Work, Stages
<1>2. Places
  <2>1. <<>> \in Seq(Seq(Messages)) /\ Len(<<>>) = 0
    BY EmptySeq
  <2> QED BY <2>1, GatewayAssumption DEF Init, Places, Frames, Holding
<1> QED BY <1>1, <1>2 DEF OwnIdInv

\* A message of the frame that is parsed.
LEMMA NextMessage ==
  ASSUME Places, NEW f \in Frames, work[f].stage = "parse", work[f].parsed \in Nat
  PROVE  /\ f \in DOMAIN frames
         /\ work[f].parsed + 1 \in DOMAIN frames[f]
         /\ frames[f][work[f].parsed + 1] \in Messages
         /\ Len(frames[f]) \in Nat
<1>1. f \in 1 .. Len(frames)
  BY DEF Places, Frames
<1>2. frames[f] \in Seq(Messages)
  BY <1>1, ElementOfSeq DEF Places
<1>3. work[f].parsed + 1 \in 1 .. Len(frames[f])
  BY <1>2, LenProperties DEF Places
<1> QED BY <1>1, <1>2, <1>3, ElementOfSeq, LenProperties DEF Places

\* A step that moves one goroutine on with its list or with the rest of it.
LEMMA MovedOn ==
  ASSUME NEW S, work \in Work(S), NEW f \in Frames, NEW s \in Stages,
         \/ Stage(f, s)
         \/ work[f].list # <<>> /\ Done(f)
  PROVE  work' \in Work(S)
<1>1. CASE Stage(f, s)
  BY <1>1 DEF Stage, Work, Stages
<1>2. CASE work[f].list # <<>> /\ Done(f)
  <2>1. work[f].list \in Seq(Ev(S))
    BY DEF Work
  <2>2. Tail(work[f].list) \in Seq(Ev(S))
    BY <1>2, <2>1, HeadTailProperties
  <2>3. work' = [work EXCEPT ![f] = [stage |-> "forward", parsed |-> work[f].parsed,
                                     list |-> Tail(work[f].list)]]
    BY <1>2 DEF Done, Work
  <2> QED BY <2>2, <2>3 DEF Work, Stages
<1> QED BY <1>1, <1>2

LEMMA HeadTyped ==
  ASSUME NEW S, work \in Work(S), NEW f \in Frames, work[f].list # <<>>
  PROVE  Head(work[f].list) \in Ev(S)
BY HeadTailProperties DEF Work

\* The heart of it: a goroutine's step carries no id that was not seen or
\* carried before.
LEMMA CarriesStep ==
  ASSUME NEW S, S \subseteq Ids, Shows(S), Places, Carries(S),
         NEW f \in Frames, Goroutine(f)
  PROVE  Carries(S)'
<1>1. work[f].stage \in Holding => work[f].list # <<>>
  BY DEF Places
<1>2. ASSUME NEW usable \in BOOLEAN, Parse(f, usable) PROVE Carries(S)'
  <2> DEFINE i == work[f].parsed + 1
             m == frames[f][i]
             e == [frame |-> f, place |-> i, chat |-> ChatOf(m),
                   self |-> IF myWechatId = None THEN SelfOf(m) ELSE myWechatId]
             s == IF i = Len(frames[f]) THEN "forward" ELSE "parse"
  <2>1. work[f].parsed \in Nat /\ work[f].list \in Seq(Ev(S)) /\ work[f].stage = "parse"
    BY <1>2 DEF Parse, Carries, Work
  <2>2. f \in DOMAIN frames /\ i \in DOMAIN frames[f] /\ m \in Messages
    BY <2>1, NextMessage
  <2>3. SelfOf(m) \in S
    BY <2>2 DEF Shows
  <2>4. ChatOf(m) \in Ids
    BY <2>2 DEF ChatOf, Messages, Ids
  <2>5. e \in Ev(S)
    BY <2>1, <2>3, <2>4 DEF Ev, Carries
  <2>6. (IF usable THEN Append(work[f].list, e) ELSE work[f].list) \in Seq(Ev(S))
    BY <2>1, <2>5, AppendProperties
  <2>7. work' = [work EXCEPT ![f] = [stage |-> s, parsed |-> i,
                    list |-> IF usable THEN Append(work[f].list, e) ELSE work[f].list]]
    BY <1>2 DEF Parse, Carries, Work
  <2>8. s \in Stages /\ i \in Nat
    BY <2>1 DEF Stages
  <2> HIDE DEF i, m, e, s
  <2>9. work' \in Work(S)
    BY <2>6, <2>7, <2>8 DEF Work, Carries
  <2> QED BY <1>2, <2>9 DEF Parse, Carries
<1>3. CASE Forward(f)
  <2>1. work' \in Work(S)
    BY <1>3, MovedOn DEF Forward, Carries, Stages
  <2> QED BY <1>3, <2>1 DEF Forward, Carries
<1>4. CASE Learn(f)
  <2>1. work[f].list # <<>>
    BY <1>1, <1>4 DEF Learn, Holding
  <2>2. Head(work[f].list) \in Ev(S)
    BY <2>1, HeadTyped DEF Carries
  <2>3. work' \in Work(S)
    BY <1>4, MovedOn DEF Learn, Carries, Stages
  <2> QED BY <1>4, <2>2, <2>3 DEF Learn, Carries, Ev
<1>5. CASE Lose(f)
  <2>1. work' \in Work(S)
    BY <1>1, <1>5, MovedOn DEF Lose, Carries, Holding, Stages
  <2> QED BY <1>5, <2>1 DEF Lose, Carries
<1>6. CASE Post(f)
  <2>1. work[f].list # <<>> /\ Head(work[f].list) \in Ev(S)
    BY <1>1, <1>6, HeadTyped DEF Post, Carries, Holding
  <2>2. work' \in Work(S)
    BY <1>6, <2>1, MovedOn DEF Post, Carries, Stages
  <2>3. events' \in Seq(Ev(S))
    BY <1>6, <2>1, AppendProperties DEF Post, Carries
  <2> QED BY <1>6, <2>2, <2>3 DEF Post, Carries
<1>7. CASE BeginWrite(f)
  <2>1. work' \in Work(S)
    BY <1>1, <1>7, MovedOn DEF BeginWrite, Carries, Holding, Stages
  <2> QED BY <1>7, <2>1 DEF BeginWrite, Carries
<1>8. CASE EndWrite(f)
  <2>1. work[f].list # <<>> /\ Head(work[f].list) \in Ev(S)
    BY <1>1, <1>8, HeadTyped DEF EndWrite, Carries, Holding
  <2>2. work' \in Work(S)
    BY <1>8, <2>1, MovedOn DEF EndWrite, Carries, Stages
  <2>3. events' \in Seq(Ev(S))
    BY <1>8, <2>1, AppendProperties DEF EndWrite, Carries
  <2> QED BY <1>8, <2>2, <2>3 DEF EndWrite, Carries
<1> QED BY <1>2, <1>3, <1>4, <1>5, <1>6, <1>7, <1>8 DEF Goroutine
\* The rest of the bookkeeping: where each goroutine stands in its frame.
LEMMA PlacesStep ==
  ASSUME Places, Carries(Ids), NEW f \in Frames, Goroutine(f)
  PROVE  Places'
<1> DEFINE OK(g, w) ==
      /\ w.stage = "none" => w.parsed = 0
      /\ w.stage = "parse" => g <= Len(frames) /\ w.parsed < Len(frames[g])
      /\ g > Len(frames) => w.stage = "none"
      /\ w.stage \in Holding => w.list # <<>>
<1>1. work[f].stage # "none" /\ f <= Len(frames) /\ frames' = frames
  <2>1. work[f].stage # "none" /\ frames' = frames
    BY DEF Goroutine, Parse, Forward, Learn, Lose, Post, BeginWrite, EndWrite
  <2>2. Len(frames) \in Nat /\ f \in Nat
    BY LenProperties DEF Places, Frames
  <2> QED BY <2>1, <2>2 DEF Places
<1>2. /\ \A g \in Frames : g # f => work'[g] = work[g]
      /\ work'[f].stage \notin {"none", "parse"} \cup Holding => OK(f, work'[f])
  <2>1. Len(frames) \in Nat /\ f \in Nat
    BY LenProperties DEF Places, Frames
  <2>2. \A g \in Frames : g # f => work'[g] = work[g]
    BY DEF Goroutine, Parse, Forward, Learn, Lose, Post, BeginWrite, EndWrite, Stage, Done,
           Carries, Work
  <2> QED BY <1>1, <2>1, <2>2
<1>3. OK(f, work'[f])
  <2> USE DEF Holding
  <2>1. CASE \E usable \in BOOLEAN : Parse(f, usable)
    <3>1. PICK usable \in BOOLEAN : Parse(f, usable)
      BY <2>1
    <3>2. work[f].parsed \in Nat /\ work[f].stage = "parse"
      BY <3>1 DEF Parse, Carries, Work
    <3>3. work[f].parsed + 1 \in 1 .. Len(frames[f]) /\ Len(frames[f]) \in Nat
      BY <3>2, NextMessage, ElementOfSeq, LenProperties DEF Places
    <3>4. /\ work'[f].parsed = work[f].parsed + 1
          /\ work'[f].stage = IF work[f].parsed + 1 = Len(frames[f]) THEN "forward" ELSE "parse"
      BY <3>1 DEF Parse, Carries, Work
    <3> QED BY <1>1, <3>2, <3>3, <3>4, LenProperties DEF Places, Frames
  <2>2. CASE Forward(f)
    <3>1. \/ work'[f].stage \in {"ended", "forward"}
          \/ work'[f].stage \in {"learn", "send"} /\ work'[f].list # <<>>
      BY <2>2 DEF Forward, Stage, Done, Carries, Work
    <3> QED BY <1>1, <3>1, LenProperties DEF Places, Frames
  <2>3. CASE Learn(f)
    <3>1. work'[f].stage = "send" /\ work'[f].list = work[f].list /\ work[f].list # <<>>
      BY <2>3 DEF Learn, Stage, Carries, Work, Places
    <3> QED BY <1>1, <3>1, LenProperties DEF Places, Frames
  <2>4. CASE Lose(f) \/ Post(f) \/ EndWrite(f)
    <3>1. work'[f].stage = "forward"
      BY <2>4 DEF Lose, Post, EndWrite, Done, Carries, Work
    <3> QED BY <1>1, <3>1, LenProperties DEF Places, Frames
  <2>5. CASE BeginWrite(f)
    <3>1. \/ work'[f].stage = "forward"
          \/ work'[f].stage = "write" /\ work'[f].list = work[f].list /\ work[f].list # <<>>
      BY <2>5 DEF BeginWrite, Stage, Done, Carries, Work, Places
    <3> QED BY <1>1, <3>1, LenProperties DEF Places, Frames
  <2> QED BY <2>1, <2>2, <2>3, <2>4, <2>5 DEF Goroutine
<1>4. \A g \in Frames : OK(g, work'[g])
  BY <1>2, <1>3 DEF Places
<1> QED BY <1>1, <1>4 DEF Places

\* A new frame starts the goroutine of the next number.
LEMMA FrameSeenStep ==
  ASSUME OwnIdInv, NEW size \in Nat \ {0}, NEW frame \in [1 .. size -> Messages], FrameSeen(frame)
  PROVE  OwnIdInv'
<1> DEFINE n == Len(frames) + 1
<1>1. /\ frame \in Seq(Messages) /\ Len(frame) = size
      /\ frames \in Seq(Seq(Messages)) /\ Len(frames) \in Nat /\ MaxFrames \in Nat
  <2>1. frame \in Seq(Messages)
    BY SeqDef
  <2> QED BY <2>1, LenProperties, GatewayAssumption DEF OwnIdInv, Places
<1>2. /\ n \in Frames /\ frames' = Append(frames, frame)
      /\ work' = [work EXCEPT ![n].stage = "parse"]
      /\ UNCHANGED <<myWechatId, events>>
  BY <1>1 DEF FrameSeen, Frames
<1>3. /\ frames' \in Seq(Seq(Messages)) /\ Len(frames') = n
      /\ frames'[n] = frame
      /\ \A f \in 1 .. Len(frames) : frames'[f] = frames[f]
  BY <1>1, <1>2, AppendProperties
<1>4. ASSUME NEW S, Carries(S) PROVE Carries(S)'
  BY <1>2, <1>4 DEF Carries, Work, Stages
<1>5. Shows({Self})' => Shows({Self})
  <2>1. DOMAIN frames = 1 .. Len(frames) /\ DOMAIN frames' = 1 .. n
    BY <1>1, <1>3, LenProperties
  <2>2. \A f \in DOMAIN frames : f \in DOMAIN frames' /\ frames'[f] = frames[f]
    BY <1>1, <1>3, <2>1
  <2> QED BY <2>2 DEF Shows, SelfOf
<1>6. Places'
  <2>1. work[n].stage = "none" /\ work[n].parsed = 0
    BY <1>1, <1>2 DEF OwnIdInv, Places
  <2>2. work'[n].stage = "parse" /\ work'[n].parsed = 0 /\ \A f \in Frames : f # n => work'[f] = work[f]
    BY <1>2, <2>1 DEF OwnIdInv, Carries, Work
  <2>3. ASSUME NEW f \in Frames
        PROVE  /\ work'[f].stage = "none" => work'[f].parsed = 0
               /\ work'[f].stage = "parse" => f <= Len(frames') /\ work'[f].parsed < Len(frames'[f])
               /\ f > Len(frames') => work'[f].stage = "none"
               /\ work'[f].stage \in Holding => work'[f].list # <<>>
    <3>1. CASE f = n
      BY <1>1, <1>2, <1>3, <2>2, <3>1 DEF Holding
    <3>2. CASE f # n
      <4>1. f \in Nat /\ (f <= Len(frames) => frames'[f] = frames[f])
        BY <1>1, <1>3 DEF Frames
      <4>2. /\ work'[f] = work[f]
            /\ work[f].stage = "none" => work[f].parsed = 0
            /\ work[f].stage = "parse" => f <= Len(frames) /\ work[f].parsed < Len(frames[f])
            /\ f > Len(frames) => work[f].stage = "none"
            /\ work[f].stage \in Holding => work[f].list # <<>>
        BY <2>2, <3>2 DEF OwnIdInv, Places
      <4> QED BY <1>1, <1>3, <4>1, <4>2
    <3> QED BY <3>1, <3>2
  <2> QED BY <1>1, <1>2, <1>3, <2>3 DEF Places, Frames
<1> QED BY <1>4, <1>5, <1>6 DEF OwnIdInv
\* What the goroutines of frames do.
LEMMA GoroutineStep == ASSUME OwnIdInv, NEW f \in Frames, Goroutine(f) PROVE OwnIdInv'
<1>1. frames' = frames
  BY DEF Goroutine, Parse, Forward, Learn, Lose, Post, BeginWrite, EndWrite
<1>2. Shows(Ids)
  <2> SUFFICES ASSUME NEW g \in DOMAIN frames, NEW i \in DOMAIN frames[g]
               PROVE  SelfOf(frames[g][i]) \in Ids
    BY DEF Shows
  <2>1. frames[g] \in Seq(Messages)
    BY ElementOfSeq, LenProperties DEF OwnIdInv, Places
  <2>2. frames[g][i] \in Messages
    BY <2>1, ElementOfSeq, LenProperties
  <2> QED BY <2>2 DEF SelfOf, Messages, Ids
<1>3. Places' /\ Carries(Ids)'
  BY <1>2, PlacesStep, CarriesStep DEF OwnIdInv
<1>4. Shows({Self})' => Shows({Self})
  BY <1>1 DEF Shows, SelfOf
<1>5. Shows({Self}) => Carries({Self})'
  BY CarriesStep DEF OwnIdInv, Ids
<1> QED BY <1>3, <1>4, <1>5 DEF OwnIdInv

\* Clients and readers touch nothing of it.
LEMMA ElsewhereStep == ASSUME OwnIdInv, UNCHANGED frameVars PROVE OwnIdInv'
<1>1. /\ frames' = frames /\ work' = work
      /\ myWechatId' = myWechatId /\ events' = events
  BY DEF frameVars
<1> QED BY <1>1 DEF OwnIdInv, Places, Carries, Work, Shows, SelfOf, Holding

LEMMA OwnIdStep == OwnIdInv /\ [Next]_vars => OwnIdInv'
<1> SUFFICES ASSUME OwnIdInv, [Next]_vars PROVE OwnIdInv'
  OBVIOUS
<1>1. CASE \E size \in 1 .. MaxSize : \E frame \in [1 .. size -> Messages] : FrameSeen(frame)
  <2>1. PICK size \in 1 .. MaxSize : \E frame \in [1 .. size -> Messages] : FrameSeen(frame)
    BY <1>1
  <2>2. size \in Nat \ {0}
    BY GatewayAssumption
  <2> QED BY <2>1, <2>2, FrameSeenStep
<1>2. CASE \E f \in Frames : Goroutine(f)
  BY <1>2, GoroutineStep
<1>3. CASE UpgradeFails \/ \E c \in Clients : Connect(c) \/ Ask(c) \/ Leave(c)
  BY <1>3, ElsewhereStep DEF UpgradeFails, Connect, Ask, Leave
<1>4. CASE \E c \in Clients : Reader(c)
  BY <1>4, ElsewhereStep DEF Reader, NextRead, Read, Reply
<1>5. CASE UNCHANGED vars
  BY <1>5, ElsewhereStep DEF vars, frameVars
<1> QED BY <1>1, <1>2, <1>3, <1>4, <1>5 DEF Next

LEMMA OwnIdImplies == OwnIdInv => SelfIdFromTraffic
<1> SUFFICES ASSUME OwnIdInv, \A f \in DOMAIN frames : ~OwnPrivate(f)
             PROVE  /\ myWechatId \in {None, Self}
                    /\ \A i \in DOMAIN events : events[i].self = Self
  BY DEF SelfIdFromTraffic
<1>1. Shows({Self})
  <2> SUFFICES ASSUME NEW f \in DOMAIN frames, NEW i \in DOMAIN frames[f]
               PROVE  SelfOf(frames[f][i]) = Self
    BY DEF Shows
  <2>1. frames[f] \in Seq(Messages)
    BY ElementOfSeq, LenProperties DEF OwnIdInv, Places
  <2>2. frames[f][i] \in Messages
    BY <2>1, ElementOfSeq, LenProperties
  <2>3. ~(frames[f][i][1] = Self /\ frames[f][i][2] \in Peers)
    BY DEF OwnPrivate
  <2> QED BY <2>2, <2>3, GatewayAssumption DEF SelfOf, Messages
<1>2. Carries({Self})
  BY <1>1 DEF OwnIdInv
<1>3. \A i \in DOMAIN events : events[i] \in Ev({Self})
  BY <1>2, ElementOfSeq, LenProperties DEF Carries
<1> QED BY <1>2, <1>3 DEF Carries, Ev

\* For any peers, groups, clients and frames: an own id learned, or reported in
\* an event, is the user's while the user writes to nobody in private
\* (protobuf_handler.go:239-245, worker.go:382).
THEOREM OwnIdLearned == Spec => []SelfIdFromTraffic
BY OwnIdInit, OwnIdStep, OwnIdImplies, PTL DEF Spec
-----------------------------------------------------------------------------
\* The events a frame still holds are in the order of its messages and behind
\* all of its events that have been sent, and no event is ahead of the parser.
InOrder(f, p, L) ==
  /\ \A i, j \in 1 .. Len(L) : i < j => L[i].place < L[j].place
  /\ \A i \in 1 .. Len(L) : L[i].frame = f /\ L[i].place <= p
Behind(f, p, L, evs) ==
  \A k \in 1 .. Len(evs) : evs[k].frame = f =>
    /\ evs[k].place <= p
    /\ \A i \in 1 .. Len(L) : evs[k].place < L[i].place
OrderInv ==
  /\ Places /\ Carries(Ids)
  /\ \A f \in Frames : InOrder(f, work[f].parsed, work[f].list) /\ Behind(f, work[f].parsed, work[f].list, events)
  /\ FrameInOrder

\* The goroutine appends the event of the message it has parsed.
LEMMA OrderAppend ==
  ASSUME NEW f \in Frames, NEW p \in Nat, NEW q, NEW L \in Seq(Ev(Ids)), NEW K,
         NEW e \in Ev(Ids), NEW evs \in Seq(Ev(Ids)),
         InOrder(f, p, L), Behind(f, p, L, evs),
         e.frame = f, e.place = p + 1, q = p + 1,
         K = Append(L, e) \/ K = L
  PROVE  InOrder(f, q, K) /\ Behind(f, q, K, evs)
<1>1. /\ Len(L) \in Nat /\ Len(evs) \in Nat
      /\ \A i \in 1 .. Len(L) : L[i] \in Ev(Ids)
      /\ \A k \in 1 .. Len(evs) : evs[k] \in Ev(Ids)
  BY ElementOfSeq, LenProperties
<1>2. \A x \in Ev(Ids) : x.place \in Nat
  BY DEF Ev
<1>3. CASE K = L
  BY <1>1, <1>2, <1>3 DEF InOrder, Behind
<1>4. CASE K = Append(L, e)
  <2>1. /\ Len(K) = Len(L) + 1 /\ K[Len(L) + 1] = e
        /\ \A i \in 1 .. Len(L) : K[i] = L[i]
    BY <1>4, AppendProperties
  <2>2. ASSUME NEW i \in 1 .. Len(K)
        PROVE  \/ i \in 1 .. Len(L) /\ K[i] = L[i] /\ K[i].place <= p
               \/ i = Len(L) + 1 /\ K[i] = e
    BY <1>1, <2>1 DEF InOrder
  <2>3. InOrder(f, q, K)
    <3>1. \A i \in 1 .. Len(K) : K[i].frame = f /\ K[i].place <= q
      BY <1>1, <1>2, <2>2 DEF InOrder
    <3>2. ASSUME NEW i \in 1 .. Len(K), NEW j \in 1 .. Len(K), i < j
          PROVE  K[i].place < K[j].place
      <4>1. i \in 1 .. Len(L) /\ K[i] = L[i] /\ K[i].place \in Nat
        BY <1>1, <1>2, <2>1, <2>2, <3>2
      <4> QED BY <1>1, <1>2, <2>2, <3>2, <4>1 DEF InOrder
    <3> QED BY <3>1, <3>2 DEF InOrder
  <2>4. Behind(f, q, K, evs)
    BY <1>1, <1>2, <2>2 DEF Behind
  <2> QED BY <2>3, <2>4
<1> QED BY <1>3, <1>4

\* The head leaves the list, and may have been sent.
LEMMA OrderTail ==
  ASSUME NEW f \in Frames, NEW p \in Nat, NEW q, NEW L \in Seq(Ev(Ids)), NEW K,
         NEW evs \in Seq(Ev(Ids)), NEW evs2, L # <<>>,
         InOrder(f, p, L), Behind(f, p, L, evs),
         q = p, K = Tail(L),
         evs2 = evs \/ evs2 = Append(evs, Head(L))
  PROVE  InOrder(f, q, K) /\ Behind(f, q, K, evs2)
<1>1. /\ Len(L) \in Nat \ {0} /\ Len(evs) \in Nat
      /\ \A i \in 1 .. Len(L) : L[i] \in Ev(Ids)
      /\ \A k \in 1 .. Len(evs) : evs[k] \in Ev(Ids)
  BY ElementOfSeq, LenProperties, EmptySeq
<1>2. \A x \in Ev(Ids) : x.place \in Nat
  BY DEF Ev
<1>3. /\ Len(K) = Len(L) - 1
      /\ \A i \in 1 .. Len(K) : i + 1 \in 1 .. Len(L) /\ K[i] = L[i + 1]
      /\ Head(L) = L[1]
  BY <1>1, HeadTailProperties
<1>4. InOrder(f, q, K)
  BY <1>1, <1>2, <1>3 DEF InOrder
<1>5. CASE evs2 = evs
  BY <1>1, <1>2, <1>3, <1>4, <1>5 DEF Behind
<1>6. CASE evs2 = Append(evs, Head(L))
  <2>1. /\ Len(evs2) = Len(evs) + 1 /\ evs2[Len(evs) + 1] = L[1]
        /\ \A k \in 1 .. Len(evs) : evs2[k] = evs[k]
    BY <1>1, <1>3, <1>6, AppendProperties
  <2>2. ASSUME NEW k \in 1 .. Len(evs2), evs2[k].frame = f
        PROVE  /\ evs2[k].place <= q
               /\ \A i \in 1 .. Len(K) : evs2[k].place < K[i].place
    <3>1. CASE k \in 1 .. Len(evs)
      BY <1>1, <1>3, <2>1, <2>2, <3>1 DEF Behind
    <3>2. CASE k = Len(evs) + 1
      BY <1>1, <1>3, <2>1, <3>2 DEF InOrder
    <3> QED BY <1>1, <2>1, <3>1, <3>2
  <2> QED BY <1>4, <2>2 DEF Behind
<1> QED BY <1>5, <1>6

\* The other frames, and the order of what was sent, when one event is added.
LEMMA OrderSent ==
  ASSUME OrderInv, NEW f \in Frames, work[f].list # <<>>,
         NEW evs2, evs2 = Append(events, Head(work[f].list))
  PROVE  /\ \A g \in Frames : g # f => Behind(g, work[g].parsed, work[g].list, evs2)
         /\ \A i, j \in DOMAIN evs2 :
              i < j /\ evs2[i].frame = evs2[j].frame => evs2[i].place < evs2[j].place
<1>1. work[f].list \in Seq(Ev(Ids)) /\ events \in Seq(Ev(Ids))
  BY DEF OrderInv, Carries, Work
<1>2. /\ Len(work[f].list) \in Nat \ {0} /\ Head(work[f].list) = work[f].list[1]
      /\ Len(events) \in Nat /\ DOMAIN events = 1 .. Len(events)
      /\ Head(work[f].list) \in Ev(Ids)
  BY <1>1, HeadTailProperties, LenProperties, EmptySeq
<1>3. /\ Len(evs2) = Len(events) + 1 /\ evs2[Len(events) + 1] = work[f].list[1]
      /\ DOMAIN evs2 = 1 .. Len(events) + 1
      /\ \A k \in 1 .. Len(events) : evs2[k] = events[k]
  BY <1>1, <1>2, AppendProperties, LenProperties
<1>4. work[f].list[1].frame = f
  BY <1>2 DEF OrderInv, InOrder
<1>5. ASSUME NEW g \in Frames, g # f PROVE Behind(g, work[g].parsed, work[g].list, evs2)
  BY <1>2, <1>3, <1>4, <1>5 DEF OrderInv, Behind
<1>6. ASSUME NEW i \in DOMAIN evs2, NEW j \in DOMAIN evs2,
             i < j, evs2[i].frame = evs2[j].frame
      PROVE  evs2[i].place < evs2[j].place
  <2>1. CASE j \in 1 .. Len(events)
    BY <1>2, <1>3, <1>6, <2>1 DEF OrderInv, FrameInOrder
  <2>2. CASE j = Len(events) + 1
    <3>1. i \in 1 .. Len(events) /\ evs2[i] = events[i] /\ events[i].frame = f
      BY <1>2, <1>3, <1>4, <1>6, <2>2
    <3> QED BY <1>2, <1>3, <2>2, <3>1 DEF OrderInv, Behind
  <2> QED BY <1>2, <1>3, <2>1, <2>2
<1> QED BY <1>5, <1>6

\* A goroutine's step is one of four kinds.
LEMMA OrderKinds ==
  ASSUME OrderInv, NEW f \in Frames, Goroutine(f)
  PROVE  /\ \A g \in Frames : g # f => work'[g] = work[g]
         /\ \/ /\ work'[f].parsed = work[f].parsed /\ work'[f].list = work[f].list
               /\ events' = events
            \/ /\ \E e \in Ev(Ids) : /\ e.frame = f /\ e.place = work[f].parsed + 1
                                     /\ work'[f].list \in {work[f].list, Append(work[f].list, e)}
               /\ work'[f].parsed = work[f].parsed + 1
               /\ events' = events
            \/ /\ work[f].list # <<>>
               /\ work'[f].parsed = work[f].parsed /\ work'[f].list = Tail(work[f].list)
               /\ events' \in {events, Append(events, Head(work[f].list))}
<1> USE DEF OrderInv
<1>1. ASSUME NEW usable \in BOOLEAN, Parse(f, usable)
      PROVE  /\ \E e \in Ev(Ids) : /\ e.frame = f /\ e.place = work[f].parsed + 1
                                   /\ work'[f].list \in {work[f].list, Append(work[f].list, e)}
             /\ work'[f].parsed = work[f].parsed + 1
             /\ events' = events
             /\ \A g \in Frames : g # f => work'[g] = work[g]
  <2> DEFINE i == work[f].parsed + 1
             m == frames[f][i]
             e == [frame |-> f, place |-> i, chat |-> ChatOf(m),
                   self |-> IF myWechatId = None THEN SelfOf(m) ELSE myWechatId]
  <2>1. work[f].parsed \in Nat /\ work[f].stage = "parse"
    BY <1>1 DEF Parse, Carries, Work
  <2>2. m \in Messages
    BY <2>1, NextMessage
  <2>3. e \in Ev(Ids)
    BY <2>1, <2>2 DEF Ev, Carries, ChatOf, SelfOf, Messages, Ids
  <2>4. e.frame = f /\ e.place = i
    OBVIOUS
  <2>5. /\ work'[f].list \in {work[f].list, Append(work[f].list, e)}
        /\ work'[f].parsed = i /\ events' = events
        /\ \A g \in Frames : g # f => work'[g] = work[g]
    BY <1>1 DEF Parse, Carries, Work
  <2> HIDE DEF e
  <2> QED BY <2>3, <2>4, <2>5
<1>2. CASE Forward(f) /\ work[f].list # <<>>
  <2>1. Done(f) \/ \E s \in Stages : Stage(f, s)
    BY <1>2 DEF Forward, Stages
  <2>2. events' = events
    BY <1>2 DEF Forward
  <2>3. CASE Done(f)
    BY <1>2, <2>2, <2>3 DEF Done, Carries, Work
  <2>4. CASE \E s \in Stages : Stage(f, s)
    BY <2>2, <2>4 DEF Stage, Carries, Work
  <2> QED BY <2>1, <2>3, <2>4
<1>3. CASE Forward(f) /\ work[f].list = <<>>
  BY <1>3 DEF Forward, Stage, Carries, Work
<1>4. CASE Learn(f)
  BY <1>4 DEF Learn, Stage, Carries, Work
<1>5. CASE Lose(f)
  BY <1>5 DEF Lose, Done, Carries, Work, Places, Holding
<1>6. CASE Post(f)
  BY <1>6 DEF Post, Done, Carries, Work, Places, Holding
<1>7. CASE BeginWrite(f)
  <2>1. work[f].list # <<>> /\ events' = events
    BY <1>7 DEF BeginWrite, Places, Holding
  <2>2. CASE Done(f)
    BY <2>1, <2>2 DEF Done, Carries, Work
  <2>3. CASE Stage(f, "write")
    BY <2>1, <2>3 DEF Stage, Carries, Work
  <2> QED BY <1>7, <2>2, <2>3 DEF BeginWrite
<1>8. CASE EndWrite(f)
  BY <1>8 DEF EndWrite, Done, Carries, Work, Places, Holding
<1> QED BY <1>1, <1>2, <1>3, <1>4, <1>5, <1>6, <1>7, <1>8 DEF Goroutine

LEMMA OrderGoroutine ==
  ASSUME OrderInv, NEW f \in Frames, Goroutine(f)
  PROVE  /\ \A g \in Frames : /\ InOrder(g, work'[g].parsed, work'[g].list)
                              /\ Behind(g, work'[g].parsed, work'[g].list, events')
         /\ FrameInOrder'
<1> DEFINE p == work[f].parsed
           L == work[f].list
<1>1. /\ p \in Nat /\ L \in Seq(Ev(Ids)) /\ events \in Seq(Ev(Ids))
      /\ InOrder(f, p, L) /\ Behind(f, p, L, events)
  BY DEF OrderInv, Carries, Work
<1>2. \A g \in Frames : g # f => /\ work'[g] = work[g]
                                 /\ InOrder(g, work[g].parsed, work[g].list)
                                 /\ Behind(g, work[g].parsed, work[g].list, events)
  BY OrderKinds DEF OrderInv
<1>3. CASE work'[f].parsed = p /\ work'[f].list = L /\ events' = events
  BY <1>1, <1>2, <1>3 DEF OrderInv, FrameInOrder
<1>4. CASE /\ \E e \in Ev(Ids) : /\ e.frame = f /\ e.place = p + 1
                                 /\ work'[f].list \in {L, Append(L, e)}
           /\ work'[f].parsed = p + 1 /\ events' = events
  <2>1. InOrder(f, work'[f].parsed, work'[f].list) /\ Behind(f, work'[f].parsed, work'[f].list, events)
    <3>1. PICK e \in Ev(Ids) : /\ e.frame = f /\ e.place = p + 1
                               /\ work'[f].list = L \/ work'[f].list = Append(L, e)
      BY <1>4
    <3> DEFINE K == work'[f].list
               q == work'[f].parsed
    <3>2. (K = Append(L, e) \/ K = L) /\ q = p + 1
      BY <1>4, <3>1
    <3>3. e \in Ev(Ids) /\ e.frame = f /\ e.place = p + 1
      BY <3>1
    <3> HIDE DEF p, L, K, q
    <3>4. InOrder(f, q, K) /\ Behind(f, q, K, events)
      BY <1>1, <3>2, <3>3, OrderAppend
    <3> QED BY <3>4 DEF K, q
  <2> QED BY <1>2, <1>4, <2>1 DEF OrderInv, FrameInOrder
<1>5. CASE /\ L # <<>> /\ work'[f].parsed = p /\ work'[f].list = Tail(L)
           /\ events' \in {events, Append(events, Head(L))}
  <2>1. InOrder(f, work'[f].parsed, work'[f].list) /\ Behind(f, work'[f].parsed, work'[f].list, events')
    <3> HIDE DEF p, L
    <3> QED BY <1>1, <1>5, OrderTail
  <2>2. CASE events' = events
    BY <1>2, <2>1, <2>2 DEF OrderInv, FrameInOrder
  <2>3. CASE events' = Append(events, Head(L))
    <3>1. /\ \A g \in Frames : g # f => Behind(g, work[g].parsed, work[g].list, events')
          /\ \A i, j \in DOMAIN events' :
               i < j /\ events'[i].frame = events'[j].frame => events'[i].place < events'[j].place
      BY <1>5, <2>3, OrderSent
    <3> QED BY <1>2, <2>1, <3>1 DEF FrameInOrder
  <2> QED BY <1>5, <2>2, <2>3
<1> QED BY <1>3, <1>4, <1>5, OrderKinds

\* The messages of one frame are sent in their order and none of them twice,
\* for any number of frames handled at the same time
\* (protobuf_handler.go:26-36, main.go:246).
THEOREM FramesInOrder == Spec => []FrameInOrder
<1>1. Init => OrderInv
  <2> SUFFICES ASSUME Init PROVE OrderInv
    OBVIOUS
  <2>1. Places /\ Carries(Ids)
    BY OwnIdInit DEF OwnIdInv
  <2>2. events = <<>> /\ \A f \in Frames : work[f].list = <<>>
    BY DEF Init
  <2> QED BY <2>1, <2>2, EmptySeq DEF OrderInv, InOrder, Behind, FrameInOrder
<1>2. OwnIdInv /\ OrderInv /\ OwnIdInv' /\ [Next]_vars => OrderInv'
  <2> SUFFICES ASSUME OwnIdInv, OrderInv, OwnIdInv', [Next]_vars PROVE OrderInv'
    OBVIOUS
  <2>1. Places' /\ Carries(Ids)'
    BY DEF OwnIdInv
  <2>2. CASE \E f \in Frames : Goroutine(f)
    BY <2>1, <2>2, OrderGoroutine DEF OrderInv, InOrder, Behind
  <2>3. CASE events' = events /\ \A f \in Frames : /\ work'[f].list = work[f].list
                                                   /\ work'[f].parsed = work[f].parsed
    BY <2>1, <2>3 DEF OrderInv, InOrder, Behind, FrameInOrder
  <2>4. CASE \E size \in 1 .. MaxSize : \E frame \in [1 .. size -> Messages] : FrameSeen(frame)
    BY <2>3, <2>4 DEF FrameSeen, OrderInv, Carries, Work
  <2>5. CASE UNCHANGED frameVars
    BY <2>3, <2>5 DEF frameVars
  <2>6. CASE \/ UpgradeFails \/ \E c \in Clients : Connect(c) \/ Ask(c) \/ Leave(c)
             \/ \E c \in Clients : Reader(c)
             \/ UNCHANGED vars
    BY <2>5, <2>6 DEF UpgradeFails, Connect, Ask, Leave, Reader, NextRead, Read, Reply, vars, frameVars
  <2> QED BY <2>2, <2>4, <2>6 DEF Next
<1>3. OrderInv => FrameInOrder
  BY DEF OrderInv
<1> QED BY OwnIdInit, OwnIdStep, <1>1, <1>2, <1>3, PTL DEF Spec

-----------------------------------------------------------------------------
\* A connection is opened once, the variable holds the newest one or none, and
\* what a reader reads, or has answered, was opened.
Opened(c) == \E i \in DOMAIN opened : opened[i] = c
Readers == [Clients -> [stage : {"none", "next", "read", "reply", "ended"},
                        on : Clients \cup {None}]]
ConnInv ==
  /\ opened \in Seq(Clients) /\ reader \in Readers /\ conn \in Clients \cup {None}
  /\ \A i, j \in DOMAIN opened : opened[i] = opened[j] => i = j
  /\ \A i \in DOMAIN opened : reader[opened[i]].stage # "none"
  /\ conn # None => Len(opened) \in DOMAIN opened /\ opened[Len(opened)] = conn
  /\ \A c \in Clients : reader[c].stage \in {"read", "reply"} => Opened(reader[c].on)
  /\ \A r \in replies : Opened(r[1]) /\ ~Older(r[2], r[1])

\* A step of a reader or of the environment that opens nothing: the variable
\* keeps its connection or loses it, and replies are as before.
LEMMA ConnKept ==
  ASSUME ConnInv, opened' = opened, conn' \in {conn, None}, replies' = replies,
         reader' \in Readers,
         \A c \in Clients :
           /\ reader[c].stage # "none" => reader'[c].stage # "none"
           /\ reader'[c].stage \in {"read", "reply"} => Opened(reader'[c].on)
  PROVE  ConnInv'
<1>1. \A i \in DOMAIN opened : opened[i] \in Clients
  BY ElementOfSeq, LenProperties DEF ConnInv
<1> QED BY <1>1 DEF ConnInv, Opened, Older

LEMMA ConnectStep == ASSUME ConnInv, NEW c \in Clients, Connect(c) PROVE ConnInv'
<1> DEFINE n == Len(opened) + 1
<1>1. /\ opened' = Append(opened, c) /\ conn' = c /\ replies' = replies
      /\ reader' = [reader EXCEPT ![c].stage = "next"] /\ reader[c].stage = "none"
  BY DEF Connect
<1>2. /\ opened' \in Seq(Clients) /\ Len(opened) \in Nat
      /\ DOMAIN opened = 1 .. Len(opened) /\ DOMAIN opened' = 1 .. n /\ Len(opened') = n
      /\ opened'[n] = c /\ \A i \in DOMAIN opened : opened'[i] = opened[i]
      /\ \A i \in DOMAIN opened : opened[i] \in Clients
  BY <1>1, AppendProperties, LenProperties, ElementOfSeq DEF ConnInv
<1>3. \A i \in DOMAIN opened : opened[i] # c
  BY <1>1, <1>2 DEF ConnInv
<1>4. reader' \in Readers /\ reader'[c].stage = "next" /\ \A d \in Clients : d # c => reader'[d] = reader[d]
  BY <1>1 DEF ConnInv, Readers
<1>5. ASSUME NEW d, Opened(d) PROVE \E i \in DOMAIN opened' : opened'[i] = d
  BY <1>2, <1>5 DEF Opened
<1>6. \A i, j \in DOMAIN opened' : opened'[i] = opened'[j] => i = j
  BY <1>2, <1>3 DEF ConnInv
<1>7. \A i \in DOMAIN opened' : reader'[opened'[i]].stage # "none"
  BY <1>2, <1>3, <1>4 DEF ConnInv
<1>8. \A d \in Clients : reader'[d].stage \in {"read", "reply"} =>
                          \E i \in DOMAIN opened' : opened'[i] = reader'[d].on
  BY <1>2, <1>4 DEF ConnInv, Opened
<1>9. ASSUME NEW r \in replies
      PROVE  /\ \E i \in DOMAIN opened' : opened'[i] = r[1]
             /\ ~\E i, j \in DOMAIN opened' : i < j /\ opened'[i] = r[2] /\ opened'[j] = r[1]
  <2>1. Opened(r[1]) /\ ~Older(r[2], r[1])
    BY DEF ConnInv
  <2>2. ASSUME NEW i \in DOMAIN opened', NEW j \in DOMAIN opened',
               i < j, opened'[i] = r[2], opened'[j] = r[1]
        PROVE  FALSE
    <3>1. j # n
      BY <1>2, <1>3, <2>1, <2>2 DEF Opened
    <3> QED BY <1>2, <2>1, <2>2, <3>1 DEF Older
  <2> QED BY <1>5, <2>1, <2>2
<1> QED BY <1>1, <1>2, <1>4, <1>6, <1>7, <1>8, <1>9 DEF ConnInv, Opened, Older

LEMMA ReaderStep == ASSUME ConnInv, NEW c \in Clients, Reader(c) PROVE ConnInv'
<1>1. CASE NextRead(c)
  <2>1. reader' \in Readers /\ \A d \in Clients : d # c => reader'[d] = reader[d]
    BY <1>1 DEF NextRead, EndReader, ConnInv, Readers
  <2>2. reader'[c].stage \in {"read", "reply"} => conn # None /\ reader'[c].on = conn
    BY <1>1 DEF NextRead, EndReader, ConnInv, Readers
  <2>3. conn # None => Opened(conn)
    BY DEF ConnInv, Opened
  <2>4. reader'[c].stage # "none"
    BY <1>1 DEF NextRead, EndReader, ConnInv, Readers
  <2>5. opened' = opened /\ conn' = conn /\ replies' = replies
    BY <1>1 DEF NextRead
  <2> QED BY <2>1, <2>2, <2>3, <2>4, <2>5, ConnKept DEF ConnInv
<1>2. CASE Read(c)
  <2>1. reader' \in Readers /\ \A d \in Clients : d # c => reader'[d] = reader[d]
    BY <1>2 DEF Read, EndReader, ConnInv, Readers
  <2>2. /\ reader[c].stage = "read" /\ reader'[c].on = reader[c].on
        /\ reader'[c].stage # "none"
    BY <1>2 DEF Read, EndReader, ConnInv, Readers
  <2>3. opened' = opened /\ conn' = conn /\ replies' = replies
    BY <1>2 DEF Read
  <2> QED BY <2>1, <2>2, <2>3, ConnKept DEF ConnInv
<1>3. CASE Reply(c)
  <2>1. /\ reader' \in Readers /\ \A d \in Clients : d # c => reader'[d] = reader[d]
        /\ reader'[c].stage \in {"next", "ended"}
    BY <1>3 DEF Reply, EndReader, ConnInv, Readers
  <2>2. /\ opened' = opened /\ conn' = conn
        /\ reader[c].stage = "reply"
        /\ replies' = replies \/ (conn # None /\ replies' = replies \cup {<<reader[c].on, conn>>})
    BY <1>3, GatewayAssumption DEF Reply, EndReader
  <2>3. CASE replies' = replies
    BY <2>1, <2>2, <2>3, ConnKept DEF ConnInv
  <2>4. CASE conn # None /\ replies' = replies \cup {<<reader[c].on, conn>>}
    <3>1. Opened(reader[c].on)
      BY <2>2 DEF ConnInv
    <3>2. ~Older(conn, reader[c].on)
      <4> SUFFICES ASSUME NEW i \in DOMAIN opened, NEW j \in DOMAIN opened, i < j,
                          opened[i] = conn
                   PROVE  FALSE
        BY DEF Older
      <4>1. i = Len(opened)
        BY <2>4 DEF ConnInv
      <4> QED BY <4>1, LenProperties DEF ConnInv
    <3>3. \A r \in replies' : Opened(r[1]) /\ ~Older(r[2], r[1])
      BY <2>4, <3>1, <3>2 DEF ConnInv
    <3>4. /\ \A i \in DOMAIN opened : opened[i] \in Clients
          /\ \A i \in DOMAIN opened : reader'[opened[i]].stage # "none"
      BY <2>1, ElementOfSeq, LenProperties DEF ConnInv
    <3>5. \A d \in Clients : reader'[d].stage \in {"read", "reply"} => Opened(reader'[d].on)
      BY <2>1 DEF ConnInv
    <3> QED BY <2>1, <2>2, <3>3, <3>4, <3>5 DEF ConnInv, Opened, Older
  <2> QED BY <2>2, <2>3, <2>4
<1> QED BY <1>1, <1>2, <1>3 DEF Reader

LEMMA ConnInit == Init => ConnInv
<1>1. <<>> \in Seq(Clients) /\ DOMAIN <<>> = {}
  BY EmptySeq
<1> QED BY <1>1 DEF Init, ConnInv, Readers, Opened

LEMMA FramesApart ==
  ASSUME (\E size \in 1 .. MaxSize : \E frame \in [1 .. size -> Messages] : FrameSeen(frame))
         \/ (\E f \in Frames : Goroutine(f))
  PROVE  UNCHANGED wsVars
  BY DEF FrameSeen, Goroutine, Parse, Forward, Learn, Lose, Post, BeginWrite, EndWrite

LEMMA ConnStep == ConnInv /\ [Next]_vars => ConnInv'
<1> SUFFICES ASSUME ConnInv, [Next]_vars PROVE ConnInv'
  OBVIOUS
<1>1. CASE UNCHANGED <<conn, opened, reader, replies>>
  BY <1>1, ConnKept DEF ConnInv
<1>2. CASE UpgradeFails
  BY <1>2, ConnKept DEF UpgradeFails, ConnInv
<1>3. CASE \E c \in Clients : Connect(c)
  BY <1>3, ConnectStep
<1>4. CASE \E c \in Clients : Reader(c)
  BY <1>4, ReaderStep
<1>5. CASE UNCHANGED wsVars
  BY <1>1, <1>5 DEF wsVars
<1>6. CASE (\E c \in Clients : Ask(c) \/ Leave(c)) \/ UNCHANGED vars
  <2>1. UNCHANGED <<conn, opened, reader, replies>>
    BY <1>6 DEF Ask, Leave, vars, wsVars
  <2> QED BY <1>1, <2>1
<1> QED BY <1>2, <1>3, <1>4, <1>5, <1>6, FramesApart DEF Next

\* However clients come and go, and whoever reads whose requests, no answer
\* goes to a connection older than the one it was asked on
\* (websocket.go:32, 41, 57).
THEOREM AnswersGoForward == Spec => []RepliesNeverGoBack
<1>1. ConnInv => RepliesNeverGoBack
  BY DEF ConnInv, RepliesNeverGoBack
<1> QED BY ConnInit, ConnStep, <1>1, PTL DEF Spec

-----------------------------------------------------------------------------
\* What the two invariants leave open of TypeOK.
AskTypes ==
  /\ open \subseteq Clients
  /\ asked \in [Clients -> Nat] /\ asks \in 0 .. MaxAsks
  /\ replies \subseteq Clients \X Clients
  /\ writer \in [Clients -> Frames \cup {None}]

\* A reader answers somebody who was connected.
LEMMA AskReader == ASSUME ConnInv, AskTypes, NEW c \in Clients, Reader(c) PROVE AskTypes'
<1>1. CASE NextRead(c)
  BY <1>1 DEF NextRead, EndReader, AskTypes, frameVars
<1>2. CASE Read(c)
  <2>1. CASE reader[c].on \notin open
    BY <1>2, <2>1 DEF Read, EndReader, AskTypes, frameVars
  <2>2. CASE reader[c].on \in open
    <3>1. asked' \in [Clients -> Nat]
      BY <1>2, <2>2 DEF Read, AskTypes
    <3> QED BY <1>2, <2>2, <3>1 DEF Read, AskTypes, frameVars
  <2> QED BY <2>1, <2>2
<1>3. CASE Reply(c)
  <2>1. reader[c].on \in Clients
    <3>1. Opened(reader[c].on)
      BY <1>3 DEF Reply, ConnInv
    <3>2. \A i \in DOMAIN opened : opened[i] \in Clients
      BY ElementOfSeq, LenProperties DEF ConnInv
    <3> QED BY <3>1, <3>2 DEF Opened
  <2>2. open' \subseteq Clients
    BY <1>3 DEF Reply, EndReader, AskTypes
  <2>3. replies' \subseteq Clients \X Clients
    BY <1>3, <2>1 DEF Reply, EndReader, AskTypes
  <2> QED BY <1>3, <2>2, <2>3 DEF Reply, AskTypes, frameVars
<1> QED BY <1>1, <1>2, <1>3 DEF Reader

LEMMA AskStep == ConnInv /\ AskTypes /\ [Next]_vars => AskTypes'
<1> SUFFICES ASSUME ConnInv, AskTypes, [Next]_vars PROVE AskTypes'
  OBVIOUS
<1>1. ASSUME UNCHANGED wsVars, writer' = writer PROVE AskTypes'
  BY <1>1 DEF wsVars, AskTypes
<1>2. ASSUME NEW size \in 1 .. MaxSize, NEW frame \in [1 .. size -> Messages], FrameSeen(frame)
      PROVE  AskTypes'
  BY <1>1, <1>2 DEF FrameSeen
<1>3. ASSUME NEW f \in Frames, Goroutine(f) PROVE AskTypes'
  <2>1. CASE BeginWrite(f)
    <3>1. writer' \in [Clients -> Frames \cup {None}]
      BY <2>1 DEF BeginWrite, AskTypes
    <3> QED BY <2>1, <3>1 DEF BeginWrite, AskTypes, wsVars
  <2>2. CASE EndWrite(f)
    <3>1. writer' \in [Clients -> Frames \cup {None}]
      BY <2>2 DEF EndWrite, AskTypes
    <3> QED BY <2>2, <3>1 DEF EndWrite, AskTypes, wsVars
  <2>3. CASE \E usable \in BOOLEAN : Parse(f, usable)
    BY <1>1, <2>3 DEF Parse
  <2>4. CASE Forward(f) \/ Learn(f) \/ Lose(f) \/ Post(f)
    BY <1>1, <2>4 DEF Forward, Learn, Lose, Post
  <2> QED BY <1>3, <2>1, <2>2, <2>3, <2>4 DEF Goroutine
<1>4. CASE UpgradeFails
  BY <1>4 DEF UpgradeFails, AskTypes, frameVars
<1>5. ASSUME NEW c \in Clients, Connect(c) PROVE AskTypes'
  BY <1>5 DEF Connect, AskTypes, frameVars
<1>6. ASSUME NEW c \in Clients, Ask(c) PROVE AskTypes'
  <2>1. asked' \in [Clients -> Nat] /\ asks' \in 0 .. MaxAsks
    BY <1>6, GatewayAssumption DEF Ask, AskTypes
  <2> QED BY <1>6, <2>1 DEF Ask, AskTypes, frameVars
<1>7. ASSUME NEW c \in Clients, Leave(c) PROVE AskTypes'
  BY <1>7 DEF Leave, AskTypes, frameVars
<1>8. CASE UNCHANGED vars
  BY <1>8 DEF vars, wsVars, AskTypes
<1> QED BY <1>2, <1>3, <1>4, <1>5, <1>6, <1>7, <1>8, AskReader DEF Next

\* Every variable keeps its type, for any number of frames and connections: no
\* request is read twice, and nothing is read from a connection that never was.
THEOREM TypeCorrect == Spec => []TypeOK
<1>1. Init => AskTypes
  BY GatewayAssumption DEF Init, AskTypes
<1>2. OwnIdInv /\ ConnInv /\ AskTypes => TypeOK
  BY DEF OwnIdInv, Places, Carries, Work, Ev, Event, Stages, ConnInv, Readers, AskTypes, TypeOK
<1> QED BY OwnIdInit, OwnIdStep, ConnInit, ConnStep, AskStep, <1>1, <1>2, PTL DEF Spec
=============================================================================
