------------------------------- MODULE Gateway -------------------------------
(***************************************************************************)
(* From a frame the agent has seen to the event a OneBot client gets:      *)
(* main.go starts one goroutine per frame, which parses its messages       *)
(* (onebot/protobuf_handler.go), learns the user's own id from the first   *)
(* of them that comes by (worker.go, HandleMsg) and forwards them one by   *)
(* one, by HTTP or to the one WebSocket connection of a package variable   *)
(* (websocket.go), which the readers of all connections also answer on.    *)
(*                                                                         *)
(* A private message is from a peer to the user or the other way round;    *)
(* messages of a group come from the group, the user's own go to it.       *)
(* Nicknames, media and the fields of the event are left out.              *)
(***************************************************************************)
EXTENDS Naturals, Sequences, FiniteSets

CONSTANTS
  ConnType,           \* "http" or "websocket"
  Self, Peers, Groups,
  Clients,            \* WebSocket connections ever opened
  MaxFrames, MaxSize, \* bounds: frames, messages in a frame
  MaxAsks,            \* bound: requests of the clients
  None

ASSUME GatewayAssumption ==
  /\ ConnType \in {"http", "websocket"}
  /\ Self \notin Peers \cup Groups /\ Peers \cap Groups = {}
  /\ None \notin {Self} \cup Peers \cup Groups \cup Clients
  /\ MaxFrames \in Nat /\ MaxSize \in Nat /\ MaxAsks \in Nat

VARIABLES
  frames,      \* the frames seen so far, each a sequence of messages
  work,        \* the goroutine of each frame
  myWechatId,  \* the package variable, None for ""
  events,      \* what the client received, in order
  conn,        \* the package variable, None for nil
  open,        \* connections not closed
  opened,      \* the connections in the order they were opened
  reader,      \* handleWebSocket of each connection
  asked,       \* requests sent and not read yet
  asks,        \* how many requests were sent
  replies,     \* who asked, and who was answered
  writer       \* the goroutine inside a write on each connection

wsVars == <<conn, open, opened, reader, asked, asks, replies>>
vars == <<frames, work, myWechatId, events, wsVars, writer>>

Ids == {Self} \cup Peers \cup Groups
Messages == ((Peers \cup Groups) \X {Self}) \cup ({Self} \X (Peers \cup Groups))
Frames == 1 .. MaxFrames
Event == [frame : Frames, place : Nat, self : Ids, chat : Ids]

\* Every variable keeps its type.
TypeOK ==
  /\ frames \in Seq(Seq(Messages)) /\ Len(frames) <= MaxFrames
  /\ work \in [Frames -> [stage  : {"none", "parse", "forward", "learn", "send", "write", "ended"},
                          parsed : Nat,
                          list   : Seq(Event)]]
  /\ myWechatId \in Ids \cup {None}
  /\ events \in Seq(Event)
  /\ conn \in Clients \cup {None} /\ open \subseteq Clients
  /\ opened \in Seq(Clients)
  /\ reader \in [Clients -> [stage : {"none", "next", "read", "reply", "ended"},
                             on : Clients \cup {None}]]
  /\ asked \in [Clients -> Nat] /\ asks \in 0 .. MaxAsks
  /\ replies \subseteq Clients \X Clients
  /\ writer \in [Clients -> Frames \cup {None}]

Init ==
  /\ frames = <<>>
  /\ work = [f \in Frames |-> [stage |-> "none", parsed |-> 0, list |-> <<>>]]
  /\ myWechatId = None
  /\ events = <<>>
  /\ conn = None /\ open = {} /\ opened = <<>>
  /\ reader = [c \in Clients |-> [stage |-> "none", on |-> None]]
  /\ asked = [c \in Clients |-> 0] /\ asks = 0 /\ replies = {}
  /\ writer = [c \in Clients |-> None]

-----------------------------------------------------------------------------
(* Frames and their goroutines *)

\* The agent's message "protobuf_msg": a goroutine of its own for each frame.
FrameSeen(frame) ==
  LET f == Len(frames) + 1
  IN  /\ f <= MaxFrames
      /\ frames' = Append(frames, frame)
      /\ work' = [work EXCEPT ![f].stage = "parse"]
      /\ UNCHANGED <<myWechatId, events, wsVars, writer>>

SelfOfReceiver(m) == m[2]

\* Until it is known the own id is taken to be the receiver's, or the
\* sender's if the receiver is a group.
SelfOf(m) == IF m[2] \in Groups THEN m[1] ELSE m[2]

\* The chat an event is filed under.
ChatOf(m) == IF m[1] \notin Groups /\ myWechatId # None /\ m[1] = myWechatId
             THEN m[2] ELSE m[1]

\* buildWechatMessageJSON on the next message of the frame (the own id is read
\* twice there, here once); one without a required field is skipped.
Parse(f, usable) ==
  /\ work[f].stage = "parse"
  /\ LET i == work[f].parsed + 1
         m == frames[f][i]
         e == [frame |-> f, place |-> i, chat |-> ChatOf(m),
               self |-> IF myWechatId = None THEN SelfOf(m) ELSE myWechatId]
     IN  work' = [work EXCEPT ![f] =
           [stage  |-> IF i = Len(frames[f]) THEN "forward" ELSE "parse",
            parsed |-> i,
            list   |-> IF usable THEN Append(@.list, e) ELSE @.list]]
  /\ UNCHANGED <<frames, myWechatId, events, wsVars, writer>>

Stage(f, s) == work' = [work EXCEPT ![f].stage = s]

\* The event at the head is done with, whatever became of it.
Done(f) ==
  work' = [work EXCEPT ![f] = [stage |-> "forward", parsed |-> @.parsed, list |-> Tail(@.list)]]

\* After the pause between sends: is the own id known?  The next step acts on
\* the answer, other goroutines may come between.
Forward(f) ==
  /\ work[f].stage = "forward"
  /\ IF work[f].list = <<>> THEN Stage(f, "ended")
     ELSE IF ConnType = "websocket" /\ conn = None THEN Done(f)
     ELSE Stage(f, IF myWechatId = None THEN "learn" ELSE "send")
  /\ UNCHANGED <<frames, myWechatId, events, wsVars, writer>>

Learn(f) ==
  /\ work[f].stage = "learn"
  /\ myWechatId' = Head(work[f].list).self
  /\ Stage(f, "send")
  /\ UNCHANGED <<frames, events, wsVars, writer>>

Lose(f) ==
  /\ work[f].stage = "send"
  /\ Done(f)
  /\ UNCHANGED <<frames, myWechatId, events, wsVars, writer>>

\* SendHttpReq: one POST, never repeated.
PostRetrying(f) ==
  /\ ConnType = "http"
  /\ work[f].stage = "send"
  /\ events' = Append(events, Head(work[f].list))
  /\ Done(f) \/ Stage(f, "forward")
  /\ UNCHANGED <<frames, myWechatId, wsVars, writer>>
Post(f) ==
  /\ ConnType = "http"
  /\ work[f].stage = "send"
  /\ events' = Append(events, Head(work[f].list))
  /\ Done(f)
  /\ UNCHANGED <<frames, myWechatId, wsVars, writer>>

\* SendWebSocketMsg: a write on the connection of the package variable.  The
\* library panics on a second writer; the panic is recovered, the event lost.
BeginWrite(f) ==
  /\ ConnType = "websocket"
  /\ work[f].stage = "send"
  /\ IF conn \in open /\ writer[conn] = None
     THEN writer' = [writer EXCEPT ![conn] = f] /\ Stage(f, "write")
     ELSE UNCHANGED writer /\ Done(f)
  /\ UNCHANGED <<frames, myWechatId, events, wsVars>>

EndWrite(f) ==
  /\ work[f].stage = "write"
  /\ \E c \in Clients :
       /\ writer[c] = f
       /\ writer' = [writer EXCEPT ![c] = None]
       /\ \/ c \in open /\ events' = Append(events, Head(work[f].list))
          \/ UNCHANGED events
  /\ Done(f)
  /\ UNCHANGED <<frames, myWechatId, wsVars>>

-----------------------------------------------------------------------------
(* WebSocket clients and their readers *)

frameVars == <<frames, work, myWechatId, events, writer>>

\* handleWebSocket: the new connection replaces the one of the package
\* variable, under the eyes of the reader that uses it.
Connect(c) ==
  /\ reader[c].stage = "none"
  /\ conn' = c
  /\ open' = open \cup {c}
  /\ opened' = Append(opened, c)
  /\ reader' = [reader EXCEPT ![c].stage = "next"]
  /\ UNCHANGED <<frameVars, asked, asks, replies>>

\* Upgrade returns nil and an error, and both are assigned.
UpgradeFails ==
  /\ conn' = None
  /\ UNCHANGED <<frameVars, open, opened, reader, asked, asks, replies>>

\* A client asks for get_login_info.
Ask(c) ==
  /\ c \in open /\ asks < MaxAsks
  /\ asked' = [asked EXCEPT ![c] = @ + 1]
  /\ asks' = asks + 1
  /\ UNCHANGED <<frameVars, conn, open, opened, reader, replies>>

\* The client goes away.
Leave(c) ==
  /\ c \in open
  /\ open' = open \ {c}
  /\ UNCHANGED <<frameVars, conn, opened, reader, asked, asks, replies>>

\* The reader stops, by a break or a panic (nil, a write beside another), and
\* the connection it was started for is closed behind it.
EndReaderOpen(c) == reader' = [reader EXCEPT ![c].stage = "ended"] /\ UNCHANGED open
EndReader(c) ==
  /\ reader' = [reader EXCEPT ![c].stage = "ended"]
  /\ open' = open \ {c}

\* conn.ReadMessage: whatever the package variable holds by now is read.
NextRead(c) ==
  /\ reader[c].stage = "next"
  /\ IF conn = None
     THEN EndReader(c)
     ELSE reader' = [reader EXCEPT ![c] = [stage |-> "read", on |-> conn]] /\ UNCHANGED open
  /\ UNCHANGED <<frameVars, conn, opened, asked, asks, replies>>

Read(c) ==
  /\ reader[c].stage = "read"
  /\ IF reader[c].on \notin open
     THEN EndReader(c) /\ UNCHANGED asked
     ELSE /\ asked[reader[c].on] > 0
          /\ asked' = [asked EXCEPT ![reader[c].on] = @ - 1]
          /\ reader' = [reader EXCEPT ![c].stage = "reply"]
          /\ UNCHANGED open
  /\ UNCHANGED <<frameVars, conn, opened, asks, replies>>

\* The answer to the connection the reader was started for.
ReplyOnOwn(c) ==
  /\ reader[c].stage = "reply"
  /\ reader' = [reader EXCEPT ![c].stage = "next"]
  /\ replies' = replies \cup {<<reader[c].on, c>>}
  /\ UNCHANGED <<frameVars, conn, open, opened, asked, asks>>

\* The answer goes out on the package variable, whoever asked.  A failed write
\* is logged, and the reader goes on.
Reply(c) ==
  /\ reader[c].stage = "reply"
  /\ IF conn = None \/ (conn \in Clients /\ writer[conn] # None)
     THEN EndReader(c) /\ UNCHANGED replies
     ELSE /\ reader' = [reader EXCEPT ![c].stage = "next"]
          /\ replies' = IF conn \in open THEN replies \cup {<<reader[c].on, conn>>} ELSE replies
          /\ UNCHANGED open
  /\ UNCHANGED <<frameVars, conn, opened, asked, asks>>

Goroutine(f) ==
  \/ \E usable \in BOOLEAN : Parse(f, usable)
  \/ Forward(f) \/ Learn(f) \/ Lose(f) \/ Post(f) \/ BeginWrite(f) \/ EndWrite(f)

Reader(c) == NextRead(c) \/ Read(c) \/ Reply(c)

Next ==
  \/ \E size \in 1 .. MaxSize : \E frame \in [1 .. size -> Messages] : FrameSeen(frame)
  \/ \E f \in Frames : Goroutine(f)
  \/ ConnType = "websocket" /\ (UpgradeFails \/ \E c \in Clients : Connect(c) \/ Ask(c) \/ Leave(c))
  \/ \E c \in Clients : Reader(c)

\* Goroutines are scheduled.
Spec == Init /\ [][Next]_vars
             /\ \A f \in Frames : WF_vars(Goroutine(f))
             /\ \A c \in Clients : WF_vars(Reader(c))

-----------------------------------------------------------------------------
(* Properties *)

\* The messages of one frame reach the client at most once each and in their
\* order, whatever the goroutines of other frames do between them
\* (protobuf_handler.go:26-36).
FrameInOrder ==
  \A i, j \in DOMAIN events :
    i < j /\ events[i].frame = events[j].frame => events[i].place < events[j].place

OwnPrivate(f) == \E i \in DOMAIN frames[f] :
                   frames[f][i][1] = Self /\ frames[f][i][2] \in Peers

\* As long as the user writes to nobody in private, the own id that several
\* goroutines learn without a lock is the user's, and so is the one of every
\* event (protobuf_handler.go:239-245, worker.go:382).
SelfIdFromTraffic ==
  (\A f \in DOMAIN frames : ~OwnPrivate(f)) =>
    /\ myWechatId \in {None, Self}
    /\ \A i \in DOMAIN events : events[i].self = Self

Older(c, d) == \E i, j \in DOMAIN opened : i < j /\ opened[i] = c /\ opened[j] = d

\* Readers of several connections share the one variable they read and answer
\* on, and still no answer goes to a connection older than the one it was asked
\* on (websocket.go:32, 41, 57).
RepliesNeverGoBack == \A r \in replies : ~Older(r[2], r[1])

\* What the newest client asks is read, unless its connection ends or is
\* replaced: whatever older readers do on it, its own one is never lost
\* (websocket.go:37-46).
NewestIsRead ==
  \A c \in Clients : asked[c] > 0 /\ conn = c ~> (asked[c] = 0 \/ c \notin open \/ conn # c)

\* README.md:29-30: telling the own id right has fixed the user's own private
\* messages being filed under the wrong conversation.
OwnMessagesInTheirChats ==
  \A i \in DOMAIN events :
    LET m == frames[events[i].frame][events[i].place]
    IN  m[1] = Self /\ m[2] \in Peers => events[i].chat = m[2]
=============================================================================
