------------------------------ MODULE MCGateway ------------------------------
(***************************************************************************)
(* Gateway with both connection types, and Lifecycle, side by side; `kind` *)
(* is chosen at the start and only its part moves.  Gateway itself is the  *)
(* WebSocket, Http the other, Life the process around both.  A part that   *)
(* does not move stays as it begins, where the properties of all hold.     *)
(*                                                                         *)
(* Over HTTP there are frames and no clients; over the WebSocket one frame *)
(* of one message is enough beside the clients, for FrameInOrder and       *)
(* SelfIdFromTraffic do not depend on the way an event is sent.            *)
(***************************************************************************)
EXTENDS Gateway

CONSTANTS Callers, MaxRuns

VARIABLES
  kind,
  onebot, run, wechat, script, fridaScript, shuttingDown, monitoring, call, detach

lifeVars == <<onebot, run, wechat, script, fridaScript, shuttingDown, monitoring, call, detach>>

Http == INSTANCE Gateway WITH ConnType <- "http"
Life == INSTANCE Lifecycle

SmallTraffic == Len(frames') <= 1 /\ \A f \in DOMAIN frames' : Len(frames'[f]) = 1

InitEither == Init /\ Life!Init /\ kind \in {"http", "websocket", "lifecycle"}

NextGateway ==
  /\ \/ kind = "http" /\ Http!Next
     \/ kind = "websocket" /\ Next /\ SmallTraffic
  /\ UNCHANGED <<kind, lifeVars>>

NextLifecycle == kind = "lifecycle" /\ Life!Next /\ UNCHANGED <<kind, vars>>

NextEither == NextGateway \/ NextLifecycle

\* Of the fairness of Gateway only the readers' is needed; of Lifecycle's all.
SpecEither ==
  /\ InitEither /\ [][NextEither]_<<vars, kind, lifeVars>>
  /\ \A c \in Clients : WF_vars(kind = "websocket" /\ Reader(c))
  /\ WF_lifeVars(kind = "lifecycle" /\ Life!Detacher)
  /\ WF_lifeVars(kind = "lifecycle" /\ Life!Destroyed)
  /\ \A c \in Callers : /\ WF_lifeVars(kind = "lifecycle" /\ Life!EnterCall(c))
                        /\ WF_lifeVars(kind = "lifecycle" /\ Life!CallReturns(c))

-----------------------------------------------------------------------------
(* The properties of Lifecycle; their comments are there. *)

\* No export is called in a script OneBot unloads.
NoCallIntoUnloaded == Life!NoCallIntoUnloaded

\* A signal ends the process.
SignalExits == Life!SignalExits

\* WeChat's end does, too.
GoneIsNoticed == Life!GoneIsNoticed
=============================================================================
