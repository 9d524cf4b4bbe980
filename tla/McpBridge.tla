------------------------------- MODULE McpBridge -------------------------------
(***************************************************************************)
(* The MCP bridge.  Every HTTP request has a thread of its own, which      *)
(* hands a tool call to Blender's main thread and waits with a timeout     *)
(* (bridge/main_thread.py).  The main thread runs one callback at a time:  *)
(* the pump or a button of the panel.  The settings live in memory and in  *)
(* a file, and environment variables override them for one process.        *)
(***************************************************************************)
EXTENDS Naturals, Sequences

CONSTANTS
  Requests,     \* the requests that clients send, each once
  Kind,         \* what each request asks for
  Envs,         \* the overrides a process may be started with
  MaxItems,     \* pump(max_items)
  MaxRestarts   \* bound: how often Blender is started again

None     == "none"
Keys     == {"enabled", "allow_gated"}
Defaults == [k \in Keys |-> FALSE]
Torn     == <<>>   \* the file after a process died while writing it: nothing can be read

\* "bad": do_POST or handle refuses the message; "other": any method but tools/call, or a
\* notification; "hidden": has_tool is false; "free" and "gated": by the risk of the tool.
Kinds == {"bad", "other", "hidden", "free", "gated"}

\* What is answered without a tool call.
AtOnce == [bad |-> "rejected", other |-> "served", hidden |-> "unknown"]

Partial == UNION {[K -> BOOLEAN] : K \in SUBSET Keys}

ASSUME BridgeAssumption ==
  /\ None \notin Requests
  /\ Kind \in [Requests -> Kinds]
  /\ Envs \subseteq Partial
  /\ MaxItems \in Nat \ {0}
  /\ MaxRestarts \in Nat

VARIABLES
  settings,    \* BridgeController.settings
  replaced,    \* BridgeSettings._env_replaced
  file,        \* mcp_bridge.json
  running,     \* BridgeServer._httpd is not None
  timer,       \* _tick is registered
  thread,      \* where the thread of each request is
  queue,       \* MainThreadExecutor._queue
  abandoned,   \* requests whose box says "abandoned"
  box,         \* what the pump left in the box of each call
  main,        \* what the main thread is doing
  reply,       \* what the client was told
  scene,       \* history: how far each call has got in changing the scene
  chosen,      \* history: what the user last chose in the panel
  restarts

config   == <<settings, replaced, file, chosen>>
server   == <<running, timer>>
calls    == <<thread, queue, abandoned, box, reply>>
vars     == <<settings, replaced, file, running, timer, thread, queue, abandoned, box,
              main, reply, scene, chosen, restarts>>

Idle == [at |-> "idle", call |-> None, ran |-> 0]

Results  == {"ok", "failed", "BRIDGE_ERROR"}
Replies  == {None, "rejected", "served", "unknown", "APPROVAL_REQUIRED", "TIMEOUT", "lost"} \cup Results

TypeOK ==
  /\ settings \in [Keys -> BOOLEAN] /\ chosen \in [Keys -> BOOLEAN]
  /\ replaced \in Partial
  /\ file \in [Keys -> BOOLEAN] \cup {Torn}
  /\ running \in BOOLEAN /\ timer \in BOOLEAN
  /\ thread \in [Requests -> {"idle", "routed", "admitted", "waiting", "expired", "ended"}]
  /\ queue \in Seq(Requests)
  /\ abandoned \subseteq Requests
  /\ box \in [Requests -> {None} \cup Results]
  /\ main \in [at : {"idle", "pump", "took", "checked", "runs"},
               call : Requests \cup {None}, ran : 0..MaxItems]
  /\ reply \in [Requests -> Replies]
  /\ scene \in [Requests -> {None, "begun", "done"}]
  /\ restarts \in 0..MaxRestarts

-----------------------------------------------------------------------------
(* Settings *)

Over(f, g) == [k \in DOMAIN f \cup DOMAIN g |-> IF k \in DOMAIN f THEN f[k] ELSE g[k]]

Stored(f) == Over(f, Defaults)

\* Mutant of ToDict: the overrides are written too.
ToDict_WithOverrides(s, rep) == s

\* What is written to the file: the overrides are taken out again.
ToDict(s, rep) == Over(rep, s)

Without(rep, key) == [k \in DOMAIN rep \ {key} |-> rep[k]]

\* update_settings: a deliberate change replaces the override and is saved.
Choose(key, value) ==
  /\ settings' = [settings EXCEPT ![key] = value]
  /\ replaced' = Without(replaced, key)
  /\ file' = ToDict(settings', replaced')
  /\ chosen' = [chosen EXCEPT ![key] = value]

-----------------------------------------------------------------------------
(* The threads of the HTTP server *)

Goes(r, to) == thread' = [thread EXCEPT ![r] = to]
Answers(r, a) == Goes(r, "ended") /\ reply' = [reply EXCEPT ![r] = a]

\* do_POST and McpProtocol.handle, up to call_tool.
Receive(r) ==
  /\ running
  /\ thread[r] = "idle"
  /\ IF Kind[r] \in DOMAIN AtOnce
     THEN Answers(r, AtOnce[Kind[r]])
     ELSE Goes(r, "routed") /\ UNCHANGED reply
  /\ UNCHANGED <<config, server, queue, abandoned, box, main, scene, restarts>>

\* The gate of call_tool reads the setting of the moment.
Gate(r) ==
  /\ thread[r] = "routed"
  /\ IF Kind[r] = "gated" /\ ~settings["allow_gated"]
     THEN Answers(r, "APPROVAL_REQUIRED")
     ELSE Goes(r, "admitted") /\ UNCHANGED reply
  /\ UNCHANGED <<config, server, queue, abandoned, box, main, scene, restarts>>

Submit(r) ==
  /\ thread[r] = "admitted"
  /\ Goes(r, "waiting")
  /\ queue' = Append(queue, r)
  /\ UNCHANGED <<config, server, abandoned, box, main, reply, scene, restarts>>

\* done.wait returned true.
Return(r) ==
  /\ thread[r] = "waiting"
  /\ box[r] # None
  /\ Answers(r, box[r])
  /\ UNCHANGED <<config, server, queue, abandoned, box, main, scene, restarts>>

\* Mutant of WaitTimesOut: done.wait() without a timeout.
WaitTimesOut_Never(r) == thread[r] = "waiting" /\ UNCHANGED vars

\* done.wait returned false; the box is not marked yet.
WaitTimesOut(r) ==
  /\ thread[r] = "waiting"
  /\ box[r] = None
  /\ Goes(r, "expired")
  /\ UNCHANGED <<config, server, queue, abandoned, box, main, reply, scene, restarts>>

\* Mutant of Abandon: TimeoutError is raised and the box not marked.
Abandon_Unmarked(r) ==
  /\ thread[r] = "expired"
  /\ Answers(r, "TIMEOUT")
  /\ UNCHANGED <<config, server, queue, abandoned, box, main, scene, restarts>>

Abandon(r) ==
  /\ thread[r] = "expired"
  /\ abandoned' = abandoned \cup {r}
  /\ Answers(r, "TIMEOUT")
  /\ UNCHANGED <<config, server, queue, box, main, scene, restarts>>

-----------------------------------------------------------------------------
(* The main thread: the pump *)

At(place, call, ran) == main' = [at |-> place, call |-> call, ran |-> ran]

Tick ==
  /\ timer
  /\ main.at = "idle"
  /\ At("pump", None, 0)
  /\ UNCHANGED <<config, server, calls, scene, restarts>>

\* Mutant of TakeCall: pump does not count its items.
TakeCall_NoLimit ==
  /\ main.at = "pump"
  /\ queue # <<>>
  /\ queue' = Tail(queue)
  /\ At("took", Head(queue), main.ran)
  /\ UNCHANGED <<config, server, thread, abandoned, box, reply, scene, restarts>>

\* Mutant of TakeCall: the call stays in the queue.
TakeCall_Peek ==
  /\ main.at = "pump"
  /\ main.ran < MaxItems
  /\ queue # <<>>
  /\ At("took", Head(queue), main.ran)
  /\ UNCHANGED <<config, server, calls, scene, restarts>>

TakeCall ==
  /\ main.at = "pump"
  /\ main.ran < MaxItems
  /\ queue # <<>>
  /\ queue' = Tail(queue)
  /\ At("took", Head(queue), main.ran)
  /\ UNCHANGED <<config, server, thread, abandoned, box, reply, scene, restarts>>

\* An abandoned call is dropped; done.set() wakes nobody then.
CheckAbandoned ==
  /\ main.at = "took"
  /\ IF main.call \in abandoned
     THEN At("pump", None, main.ran + 1)
     ELSE At("checked", main.call, main.ran)
  /\ UNCHANGED <<config, server, calls, scene, restarts>>

\* The thread may give up between the check and the call.
BeginCall ==
  /\ main.at = "checked"
  /\ At("runs", main.call, main.ran)
  /\ scene' = [scene EXCEPT ![main.call] = "begun"]
  /\ UNCHANGED <<config, server, calls, restarts>>

\* A tool succeeds or fails; fetching its picture may raise.
FinishCall ==
  /\ main.at = "runs"
  /\ \E a \in Results : box' = [box EXCEPT ![main.call] = a]
  /\ scene' = [scene EXCEPT ![main.call] = "done"]
  /\ At("pump", None, main.ran + 1)
  /\ UNCHANGED <<config, server, thread, queue, abandoned, reply, restarts>>

\* Mutant of EndTick: the callback returns nothing, which ends a timer.
EndTick_Once ==
  /\ main.at = "pump"
  /\ main.ran = MaxItems \/ queue = <<>>
  /\ main' = Idle
  /\ timer' = FALSE
  /\ UNCHANGED <<config, running, calls, scene, restarts>>

\* The timer goes on only while the server runs.
EndTick ==
  /\ main.at = "pump"
  /\ main.ran = MaxItems \/ queue = <<>>
  /\ main' = Idle
  /\ timer' = running
  /\ UNCHANGED <<config, running, calls, scene, restarts>>

-----------------------------------------------------------------------------
(* The main thread: the buttons of the panel, and the process *)

\* start() binds the port, or fails and leaves the timer alone.
Listen == running' = TRUE /\ timer' = TRUE
Silent == running' = FALSE /\ timer' = FALSE

StartBridge ==
  /\ main.at = "idle"
  /\ Choose("enabled", TRUE)
  /\ Listen \/ UNCHANGED server
  /\ UNCHANGED <<calls, main, scene, restarts>>

\* Mutant of StopBridge: the timer is left to find out by itself.
StopBridge_KeepsTimer ==
  /\ main.at = "idle"
  /\ Choose("enabled", FALSE)
  /\ running' = FALSE
  /\ UNCHANGED <<timer, calls, main, scene, restarts>>

\* The threads of calls in flight stay, and so does the queue.
StopBridge ==
  /\ main.at = "idle"
  /\ Choose("enabled", FALSE)
  /\ Silent
  /\ UNCHANGED <<calls, main, scene, restarts>>

SwitchGated ==
  /\ main.at = "idle"
  /\ Choose("allow_gated", ~settings["allow_gated"])
  /\ UNCHANGED <<server, calls, main, scene, restarts>>

\* load_settings and maybe_autostart in a new process, which finds file f.
Boot(env, f) ==
  /\ settings' = Over(env, Stored(f))
  /\ replaced' = [k \in DOMAIN env |-> Stored(f)[k]]
  /\ chosen' = IF f = Torn THEN Defaults ELSE chosen
  /\ \/ settings'["enabled"] /\ Listen /\ file' = ToDict(settings', replaced')
     \/ Silent /\ file' = f

\* Blender ends at any moment, even inside a tool or while the file is written, and
\* is started again.
Restart(env) ==
  /\ restarts < MaxRestarts
  /\ restarts' = restarts + 1
  /\ \/ Boot(env, file)
     \/ main.at = "idle" /\ Boot(env, Torn)
  /\ thread' = [r \in Requests |-> IF thread[r] = "idle" THEN "idle" ELSE "ended"]
  /\ reply' = [r \in Requests |->
                 IF thread[r] # "idle" /\ reply[r] = None THEN "lost" ELSE reply[r]]
  /\ queue' = <<>>
  /\ abandoned' = {}
  /\ box' = [r \in Requests |-> None]
  /\ main' = Idle
  /\ UNCHANGED scene

-----------------------------------------------------------------------------

Init ==
  /\ settings = Defaults /\ replaced = <<>> /\ file = Defaults /\ chosen = Defaults
  /\ running = FALSE /\ timer = FALSE
  /\ thread = [r \in Requests |-> "idle"]
  /\ queue = <<>> /\ abandoned = {}
  /\ box = [r \in Requests |-> None]
  /\ main = Idle
  /\ reply = [r \in Requests |-> None]
  /\ scene = [r \in Requests |-> None]
  /\ restarts = 0

ThreadStep(r) == Gate(r) \/ Submit(r) \/ Return(r) \/ WaitTimesOut(r) \/ Abandon(r)
PumpStep == TakeCall \/ CheckAbandoned \/ BeginCall \/ FinishCall \/ EndTick
Panel == StartBridge \/ StopBridge \/ SwitchGated

Next ==
  \/ \E r \in Requests : Receive(r) \/ ThreadStep(r)
  \/ Tick \/ PumpStep
  \/ Panel
  \/ \E env \in Envs : Restart(env)

Spec == Init /\ [][Next]_vars

\* The waits have timeouts, Blender fires its timers, and a tool returns.
Fairness ==
  /\ \A r \in Requests : WF_vars(ThreadStep(r))
  /\ WF_vars(Tick) /\ WF_vars(PumpStep)

FairSpec == Spec /\ Fairness

-----------------------------------------------------------------------------
(* Properties *)

InQueue(r) == \E i \in DOMAIN queue : queue[i] = r

\* A call whose client was told TIMEOUT while the call still waited in the queue never
\* runs, not even when the bridge is stopped and started again (main_thread.py:24-26, 39).
AbandonedNeverRuns ==
  \A r \in Requests : [](reply[r] = "TIMEOUT" /\ InQueue(r) => [](scene[r] = None))

\* No call begins while the bridge is stopped: a tick left over from before the stop
\* must not run what is still queued (control.py:66-72, 87-89).
NothingRunsStopped ==
  [][\A r \in Requests : scene[r] = None /\ scene'[r] = "begun" => running]_vars

\* Overrides of the environment are for one process: the file holds what the user last
\* chose in the panel, and so do the settings no override replaces (settings.py:6-7, 39-49).
ChoicesKept ==
  /\ file # Torn => file = chosen
  /\ \A k \in Keys \ DOMAIN replaced : settings[k] = chosen[k]

\* Every request is answered, whatever the main thread does: also when the bridge is
\* stopped with calls in its queue (main_thread.py:24).
EveryRequestAnswered ==
  \A r \in Requests : thread[r] # "idle" ~> reply[r] # None

\* A queued call is taken from the queue unless the bridge stops (control.py:87-89).
QueueMoves ==
  \A r \in Requests : InQueue(r) ~> ~InQueue(r) \/ ~running

\* The bridge keeps the promise of CallService, through timeouts, stops and restarts.
Service == INSTANCE CallService
ImplementsService == Service!Spec
=============================================================================
