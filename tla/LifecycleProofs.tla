--------------------------- MODULE LifecycleProofs ---------------------------
(***************************************************************************)
(* For any number of callers and runs: the types of Lifecycle, and that no *)
(* export call is under way in a script OneBot unloads.                    *)
(***************************************************************************)
EXTENDS MCGateway, TLAPS

\* Types the lock's argument needs, and no more.
LockTypes ==
  /\ call \in [Callers -> {"idle", "lock", "inside"}]
  /\ detach \in [Life!Goroutines -> {"none", "lock", "unload", "done"}]

\* A process that is gone has no call.
OffIsIdle == onebot = "off" => \A c \in Callers : call[c] = "idle"

\* The inductive invariant: while a reader is inside nobody unloads, and a
\* script that was destroyed under a call was so by WeChat's end, which lasts
\* as long as the process does.
LockInv == LockTypes /\ OffIsIdle /\ Life!NoCallIntoUnloaded

LEMMA LockInit == Life!Init => LockInv
  BY DEF Life!Init, LockInv, LockTypes, OffIsIdle, Life!NoCallIntoUnloaded, Life!Goroutines

\* main and WeChat.
LEMMA LockMain ==
  ASSUME LockInv, Life!Start \/ Life!Off \/ Life!Main \/ Life!Signal
  PROVE  LockInv'
<1>1. CASE Life!Start
  BY <1>1 DEF Life!Start, LockInv, LockTypes, OffIsIdle, Life!NoCallIntoUnloaded,
              Life!Writing
<1>2. CASE Life!Off
  BY <1>2 DEF Life!Off, LockInv, LockTypes, OffIsIdle, Life!NoCallIntoUnloaded,
              Life!Goroutines
<1>3. CASE Life!Attach
  BY <1>3 DEF Life!Attach, LockInv, LockTypes, OffIsIdle, Life!NoCallIntoUnloaded,
              Life!Writing
<1>4. CASE Life!Load
  BY <1>4 DEF Life!Load, LockInv, LockTypes, OffIsIdle, Life!NoCallIntoUnloaded,
              Life!Writing, Life!process
<1>5. CASE Life!SetScript
  BY <1>5 DEF Life!SetScript, LockInv, LockTypes, OffIsIdle, Life!NoCallIntoUnloaded,
              Life!Writing
<1>6. CASE Life!Signal
  BY <1>6 DEF Life!Signal, Life!WantDetach, LockInv, LockTypes, OffIsIdle,
              Life!NoCallIntoUnloaded, Life!Writing,
              Life!Goroutines
<1> QED BY <1>1, <1>2, <1>3, <1>4, <1>5, <1>6 DEF Life!Main

LEMMA LockWeChat ==
  ASSUME LockInv, Life!WeChatDies \/ Life!Destroyed \/ Life!WeChatOpens
  PROVE  LockInv'
<1>1. CASE Life!WeChatDies
  BY <1>1 DEF Life!WeChatDies, LockInv, LockTypes, OffIsIdle, Life!NoCallIntoUnloaded,
              Life!Writing, Life!process
<1>2. CASE Life!Destroyed
  BY <1>2 DEF Life!Destroyed, LockInv, LockTypes, OffIsIdle, Life!NoCallIntoUnloaded,
              Life!Writing, Life!process
<1>3. CASE Life!WeChatOpens
  BY <1>3 DEF Life!WeChatOpens, LockInv, LockTypes, OffIsIdle, Life!NoCallIntoUnloaded,
              Life!Writing, Life!process
<1> QED BY <1>1, <1>2, <1>3

\* The readers: a call begins only while nobody has or wants the write lock.
LEMMA LockCaller == ASSUME LockInv, NEW c \in Callers, Life!Caller(c) PROVE LockInv'
<1>1. CASE Life!WantCall(c)
  BY <1>1 DEF Life!WantCall, LockInv, LockTypes, OffIsIdle, Life!NoCallIntoUnloaded,
              Life!Writing, Life!process
<1>2. CASE Life!EnterCall(c)
  BY <1>2 DEF Life!EnterCall, LockInv, LockTypes, OffIsIdle, Life!NoCallIntoUnloaded,
              Life!Writing, Life!process
<1>3. CASE Life!CallReturns(c)
  BY <1>3 DEF Life!CallReturns, LockInv, LockTypes, OffIsIdle, Life!NoCallIntoUnloaded,
              Life!Writing, Life!process
<1>4. CASE Life!CallFails(c)
  BY <1>4 DEF Life!CallFails, LockInv, LockTypes, OffIsIdle, Life!NoCallIntoUnloaded,
              Life!Writing, Life!process
<1> QED BY <1>1, <1>2, <1>3, <1>4 DEF Life!Caller

\* The writers: nobody is inside when the lock is taken, nor until it is
\* released.
LEMMA LockDetacher == ASSUME LockInv, Life!Detacher PROVE LockInv'
<1>1. ASSUME NEW g \in Life!Goroutines, Life!Lock(g) PROVE LockInv'
  BY <1>1 DEF Life!Lock, LockInv, LockTypes, OffIsIdle, Life!NoCallIntoUnloaded,
              Life!Writing, Life!process
<1>2. ASSUME NEW g \in Life!Goroutines, Life!Unload(g) PROVE LockInv'
  <2>1. \A c \in Callers : call[c] # "inside"
    BY <1>2 DEF Life!Unload, LockInv, Life!NoCallIntoUnloaded, Life!Writing
  <2> QED BY <1>2, <2>1 DEF Life!Unload, LockInv, LockTypes, OffIsIdle,
                            Life!NoCallIntoUnloaded
<1>3. CASE Life!MonitorTick
  BY <1>3 DEF Life!MonitorTick, Life!WantDetach, LockInv, LockTypes, OffIsIdle,
              Life!NoCallIntoUnloaded, Life!Writing,
              Life!process, Life!Goroutines
<1>4. CASE Life!Exit \/ Life!SignalGivesUp
  BY <1>4, LockMain DEF Life!Exit, Life!SignalGivesUp
<1> QED BY <1>1, <1>2, <1>3, <1>4 DEF Life!Detacher

\* No export call is under way in a script that OneBot unloads or has unloaded:
\* fridaLifecycleMu does what it is for (worker.go:20, utils.go:654).
THEOREM CallsAreSafe == Life!Spec => []NoCallIntoUnloaded
<1>1. LockInv /\ [Life!Next]_(Life!vars) => LockInv'
  <2> SUFFICES ASSUME LockInv, [Life!Next]_(Life!vars) PROVE LockInv'
    OBVIOUS
  <2>1. CASE UNCHANGED Life!vars
    BY <2>1 DEF Life!vars, Life!process, LockInv, LockTypes, OffIsIdle,
                Life!NoCallIntoUnloaded, Life!Writing
  <2>2. CASE Life!Next
    BY <2>2, LockMain, LockWeChat, LockCaller, LockDetacher DEF Life!Next
  <2> QED BY <2>1, <2>2
<1>2. LockInv => NoCallIntoUnloaded
  BY DEF LockInv, NoCallIntoUnloaded
<1> QED BY LockInit, <1>1, <1>2, PTL DEF Life!Spec

-----------------------------------------------------------------------------
LEMMA TypeMain ==
  ASSUME Life!TypeOK, Life!Start \/ Life!Off \/ Life!Main \/ Life!Signal
  PROVE  Life!TypeOK'
<1>1. CASE Life!Start
  BY <1>1 DEF Life!Start, Life!TypeOK
<1>2. CASE Life!Off
  <2>1. /\ call' \in [Callers -> {"idle", "lock", "inside"}]
        /\ detach' \in [Life!Goroutines -> {"none", "lock", "unload", "done"}]
    BY <1>2 DEF Life!Off
  <2>2. /\ onebot' \in {"off", "attach", "load", "up"}
        /\ fridaScript' \in BOOLEAN /\ shuttingDown' \in BOOLEAN /\ monitoring' \in BOOLEAN
    BY <1>2 DEF Life!Off
  <2> QED BY <1>2, <2>1, <2>2 DEF Life!Off, Life!TypeOK
<1>3. CASE Life!Attach
  BY <1>3 DEF Life!Attach, Life!TypeOK
<1>4. CASE Life!Load
  BY <1>4 DEF Life!Load, Life!TypeOK, Life!process
<1>5. CASE Life!SetScript
  BY <1>5 DEF Life!SetScript, Life!TypeOK
<1>6. CASE Life!Signal
  <2>1. detach' \in [Life!Goroutines -> {"none", "lock", "unload", "done"}]
    BY <1>6 DEF Life!Signal, Life!WantDetach, Life!TypeOK, Life!Goroutines
  <2> QED BY <1>6, <2>1 DEF Life!Signal, Life!TypeOK
<1> QED BY <1>1, <1>2, <1>3, <1>4, <1>5, <1>6 DEF Life!Main

LEMMA TypeCaller == ASSUME Life!TypeOK, NEW c \in Callers, Life!Caller(c) PROVE Life!TypeOK'
<1>1. CASE Life!WantCall(c)
  BY <1>1 DEF Life!WantCall, Life!TypeOK, Life!process
<1>2. CASE Life!EnterCall(c)
  BY <1>2 DEF Life!EnterCall, Life!TypeOK, Life!process
<1>3. CASE Life!CallReturns(c)
  BY <1>3 DEF Life!CallReturns, Life!TypeOK, Life!process
<1>4. CASE Life!CallFails(c)
  BY <1>4 DEF Life!CallFails, Life!TypeOK, Life!process
<1> QED BY <1>1, <1>2, <1>3, <1>4 DEF Life!Caller

LEMMA TypeDetacher == ASSUME Life!TypeOK, Life!Detacher PROVE Life!TypeOK'
<1>1. ASSUME NEW g \in Life!Goroutines, Life!Lock(g) PROVE Life!TypeOK'
  BY <1>1 DEF Life!Lock, Life!TypeOK, Life!process
<1>2. ASSUME NEW g \in Life!Goroutines, Life!Unload(g) PROVE Life!TypeOK'
  <2>1. script' \in {"none", "loaded", "destroyed"}
    BY <1>2 DEF Life!Unload, Life!TypeOK
  <2> QED BY <1>2, <2>1 DEF Life!Unload, Life!TypeOK
<1>3. CASE Life!MonitorTick
  <2>1. detach' \in [Life!Goroutines -> {"none", "lock", "unload", "done"}]
    BY <1>3 DEF Life!MonitorTick, Life!WantDetach, Life!TypeOK, Life!Goroutines
  <2> QED BY <1>3, <2>1 DEF Life!MonitorTick, Life!TypeOK, Life!process
<1>4. CASE Life!Exit \/ Life!SignalGivesUp
  BY <1>4, TypeMain DEF Life!Exit, Life!SignalGivesUp
<1> QED BY <1>1, <1>2, <1>3, <1>4 DEF Life!Detacher

\* Process, lock and script stay within what the code can be in, for any number
\* of callers and starts.
THEOREM TypeCorrect == Life!Spec => []Life!TypeOK
<1>1. Life!Init => Life!TypeOK
  <2> SUFFICES ASSUME Life!Init PROVE Life!TypeOK
    OBVIOUS
  <2>1. /\ call \in [Callers -> {"idle", "lock", "inside"}]
        /\ detach \in [Life!Goroutines -> {"none", "lock", "unload", "done"}]
    BY DEF Life!Init
  <2>2. fridaScript \in BOOLEAN /\ shuttingDown \in BOOLEAN /\ monitoring \in BOOLEAN
    BY DEF Life!Init
  <2> QED BY <2>1, <2>2 DEF Life!Init, Life!TypeOK
<1>2. Life!TypeOK /\ [Life!Next]_(Life!vars) => Life!TypeOK'
  <2> SUFFICES ASSUME Life!TypeOK, [Life!Next]_(Life!vars) PROVE Life!TypeOK'
    OBVIOUS
  <2>1. CASE UNCHANGED Life!vars
    BY <2>1 DEF Life!vars, Life!process, Life!TypeOK
  <2>2. CASE Life!WeChatDies \/ Life!Destroyed \/ Life!WeChatOpens
    BY <2>2 DEF Life!WeChatDies, Life!Destroyed, Life!WeChatOpens, Life!TypeOK, Life!process
  <2>3. CASE Life!Next
    BY <2>2, <2>3, TypeMain, TypeCaller, TypeDetacher DEF Life!Next
  <2> QED BY <2>1, <2>3
<1> QED BY <1>1, <1>2, PTL DEF Life!Spec
=============================================================================
