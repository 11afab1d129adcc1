------------------------------ MODULE Lifecycle ------------------------------
(***************************************************************************)
(* OneBot attaches to WeChat, loads its script, works and ends: on a       *)
(* signal, when WeChat is gone, or killed; and it is started again.        *)
(* fridaLifecycleMu keeps export calls and the unloading apart (readers,   *)
(* and a waiting writer that stops new readers).                           *)
(*                                                                         *)
(* From onebot/main.go, onebot/utils.go (MonitorProcess, detachFrida) and  *)
(* onebot/worker.go (callFridaExport), with -type local.  Frida tells      *)
(* IsDestroyed some time after the process has died; a call that is then   *)
(* in progress may never return.  What the calls do is in SendPipeline.    *)
(***************************************************************************)
EXTENDS Naturals

CONSTANTS
  Callers,  \* the goroutines that call exports
  MaxRuns   \* bound: starts of OneBot

VARIABLES
  onebot,        \* what main does; "off" is no process
  run,           \* runs so far
  wechat,        \* "alive" or "gone"
  script,        \* the script in WeChat, as IsDestroyed tells
  fridaScript,   \* the package variable is set
  shuttingDown,
  monitoring,    \* MonitorProcess was started
  call,          \* callFridaExport in each goroutine
  detach         \* detachFrida in each of the goroutines that call it

process == <<onebot, fridaScript, shuttingDown, monitoring>>
vars == <<run, wechat, process, script, call, detach>>

Goroutines == {"signal", "monitor"}

\* The lock and the process state stay within what the code can be in.
TypeOK ==
  /\ onebot \in {"off", "attach", "load", "up"} /\ run \in Nat
  /\ wechat \in {"alive", "gone"} /\ script \in {"none", "loaded", "destroyed"}
  /\ fridaScript \in BOOLEAN /\ shuttingDown \in BOOLEAN /\ monitoring \in BOOLEAN
  /\ call \in [Callers -> {"idle", "lock", "inside"}]
  /\ detach \in [Goroutines -> {"none", "lock", "unload", "done"}]

Init ==
  /\ onebot = "off" /\ script = "none"
  /\ fridaScript = FALSE /\ shuttingDown = FALSE /\ monitoring = FALSE
  /\ call = [c \in Callers |-> "idle"]
  /\ detach = [g \in Goroutines |-> "none"]
  /\ run = 0 /\ wechat = "alive"

-----------------------------------------------------------------------------
(* main *)

Start ==
  /\ onebot = "off" /\ wechat = "alive" /\ run < MaxRuns
  /\ onebot' = "attach"
  /\ run' = run + 1
  /\ UNCHANGED <<wechat, fridaScript, shuttingDown, monitoring, script, call, detach>>

\* os.Exit, Fatal or a kill: Frida takes the script out of WeChat.
Off ==
  /\ onebot # "off"
  /\ onebot' = "off" /\ script' = "none"
  /\ fridaScript' = FALSE /\ shuttingDown' = FALSE /\ monitoring' = FALSE
  /\ call' = [c \in Callers |-> "idle"]
  /\ detach' = [g \in Goroutines |-> "none"]
  /\ UNCHANGED <<run, wechat>>

\* attachWechat: a signal that came first leaves OneBot without a script, and
\* unmonitored, until it exits.
Attach ==
  /\ onebot = "attach"
  /\ onebot' = IF shuttingDown THEN "up" ELSE "load"
  /\ UNCHANGED <<run, wechat, fridaScript, shuttingDown, monitoring, script, call, detach>>

\* script.Load, which fails (Fatal) once the session is detached.
Load ==
  /\ onebot = "load" /\ script = "none" /\ wechat = "alive"
  /\ \A g \in Goroutines : detach[g] # "done"
  /\ script' = "loaded"
  /\ UNCHANGED <<run, wechat, process, call, detach>>

Writing == \E g \in Goroutines : detach[g] = "unload"

SetScript ==
  /\ onebot = "load" /\ script # "none" /\ ~Writing
  /\ onebot' = "up" /\ fridaScript' = TRUE /\ monitoring' = TRUE
  /\ UNCHANGED <<run, wechat, shuttingDown, script, call, detach>>

-----------------------------------------------------------------------------
(* callFridaExport *)

WantCall(c) ==
  /\ onebot = "up" /\ call[c] = "idle"
  /\ call' = [call EXCEPT ![c] = "lock"]
  /\ UNCHANGED <<run, wechat, process, script, detach>>

\* RLock is granted while nobody has or wants the write lock.
EnterUnlocked(c) ==
  /\ call[c] = "lock"
  /\ call' = [call EXCEPT ![c] = IF fridaScript /\ script = "loaded" THEN "inside" ELSE "idle"]
  /\ UNCHANGED <<run, wechat, process, script, detach>>
EnterCall(c) ==
  /\ call[c] = "lock"
  /\ \A g \in Goroutines : detach[g] \notin {"lock", "unload"}
  /\ call' = [call EXCEPT ![c] = IF fridaScript /\ script = "loaded" THEN "inside" ELSE "idle"]
  /\ UNCHANGED <<run, wechat, process, script, detach>>

CallReturns(c) ==
  /\ call[c] = "inside" /\ script = "loaded" /\ wechat = "alive"
  /\ call' = [call EXCEPT ![c] = "idle"]
  /\ UNCHANGED <<run, wechat, process, script, detach>>

\* The process died under the call, and the binding gives it up.
CallFails(c) ==
  /\ call[c] = "inside" /\ wechat = "gone"
  /\ call' = [call EXCEPT ![c] = "idle"]
  /\ UNCHANGED <<run, wechat, process, script, detach>>

-----------------------------------------------------------------------------
(* Signals, the monitor and detachFrida *)

WantDetach(g) ==
  /\ detach[g] = "none"
  /\ detach' = [detach EXCEPT ![g] = "lock"]

Signal ==
  /\ onebot # "off"
  /\ WantDetach("signal")
  /\ shuttingDown' = TRUE
  /\ UNCHANGED <<run, wechat, onebot, fridaScript, monitoring, script, call>>

\* FindProcess never fails on a Unix system: the signal 0 decides.
MonitorWhileLoaded ==
  /\ monitoring /\ wechat = "gone" /\ script = "loaded"
  /\ WantDetach("monitor")
  /\ UNCHANGED <<run, wechat, process, script, call>>
MonitorTick ==
  /\ monitoring /\ wechat = "gone"
  /\ WantDetach("monitor")
  /\ UNCHANGED <<run, wechat, process, script, call>>

Lock(g) ==
  /\ detach[g] = "lock"
  /\ ~Writing /\ \A c \in Callers : call[c] # "inside"
  /\ detach' = [detach EXCEPT ![g] = "unload"]
  /\ UNCHANGED <<run, wechat, process, script, call>>

\* The script is unloaded, the session detached, the lock released.
Unload(g) ==
  /\ detach[g] = "unload"
  /\ detach' = [detach EXCEPT ![g] = "done"]
  /\ script' = IF script = "loaded" THEN "destroyed" ELSE script
  /\ fridaScript' = FALSE
  /\ UNCHANGED <<run, wechat, onebot, shuttingDown, monitoring, call>>

Exit == (\E g \in Goroutines : detach[g] = "done") /\ Off

\* The signal handler waits three seconds for detachFrida and no longer.
SignalGivesUpUnlocked == detach["signal"] = "unload" /\ Off
SignalGivesUp == detach["signal"] \in {"lock", "unload"} /\ Off

-----------------------------------------------------------------------------
(* WeChat *)

WeChatDies ==
  /\ wechat = "alive"
  /\ wechat' = "gone"
  /\ UNCHANGED <<run, process, script, call, detach>>

\* Frida learns of it.
Destroyed ==
  /\ wechat = "gone" /\ script = "loaded"
  /\ script' = "destroyed"
  /\ UNCHANGED <<run, wechat, process, call, detach>>

\* It is opened again once OneBot has gone.
WeChatOpens ==
  /\ wechat = "gone" /\ onebot = "off"
  /\ wechat' = "alive"
  /\ UNCHANGED <<run, process, script, call, detach>>

-----------------------------------------------------------------------------
Main == Attach \/ Load \/ SetScript
Detacher == \/ \E g \in Goroutines : Lock(g) \/ Unload(g)
            \/ MonitorTick \/ Exit \/ SignalGivesUp
Caller(c) == WantCall(c) \/ EnterCall(c) \/ CallReturns(c) \/ CallFails(c)

Next ==
  \/ Start \/ Off \/ Signal
  \/ Main \/ Detacher
  \/ \E c \in Callers : Caller(c)
  \/ WeChatDies \/ Destroyed \/ WeChatOpens

\* The goroutines run, calls into a living WeChat return, timers fire and Frida
\* reports a dead process.  Nothing says that a call under way when the process
\* dies returns: ExportsCall has no deadline (worker.go:25).
Spec ==
  /\ Init /\ [][Next]_vars
  /\ WF_vars(Detacher) /\ WF_vars(Destroyed)
  /\ \A c \in Callers : WF_vars(EnterCall(c)) /\ WF_vars(CallReturns(c))

-----------------------------------------------------------------------------
(* Properties *)

\* No export is called in a script that OneBot itself unloads or has unloaded,
\* whichever of the two detachers came, while loading or after
\* (worker.go:20, utils.go:654).
NoCallIntoUnloaded ==
  \A c \in Callers : call[c] = "inside" =>
    /\ fridaScript /\ ~Writing
    /\ script = "destroyed" => wechat = "gone"

\* A signal ends the process at any stage and in spite of a call that never
\* returns (main.go:55-65).
SignalExits == shuttingDown ~> onebot = "off"

\* When Frida has reported that WeChat is gone, and no call is stuck in it,
\* OneBot ends as well, with callers and a signal in any order before the
\* monitor's tick (utils.go:622-646).
GoneIsNoticed ==
  (monitoring /\ script = "destroyed" /\ \A c \in Callers : call[c] # "inside") ~> onebot = "off"
=============================================================================
