---------------------------- MODULE McpBridgeProofs ----------------------------
(***************************************************************************)
(* McpBridge implements CallService, for any requests, kinds of tools,     *)
(* environments, restarts and size of a tick.                              *)
(***************************************************************************)
EXTENDS McpBridge, TLAPS

Untouched(r) == scene[r] = None /\ box[r] = None

\* The thread of r has put it in the queue and has no result yet.
Submitted(r) ==
  \/ thread[r] \in {"waiting", "expired"}
  \/ thread[r] = "ended" /\ reply[r] = "TIMEOUT"

ThreadInv(r) ==
  /\ thread[r] \in {"idle", "routed", "admitted"} => Untouched(r)
  /\ thread[r] # "ended" => reply[r] = None
  /\ thread[r] = "ended" => reply[r] # None
  /\ box[r] # None => scene[r] = "done"

QueueInv(q) ==
  /\ \A i, j \in DOMAIN q : q[i] = q[j] => i = j
  /\ \A i \in DOMAIN q : Submitted(q[i]) /\ Untouched(q[i]) /\ q[i] # main.call

MainInv ==
  /\ main.at \in {"idle", "pump"} <=> main.call = None
  /\ main.at # "idle" /\ main.at # "pump" => Submitted(main.call) /\ box[main.call] = None
  /\ main.at \in {"took", "checked"} => scene[main.call] = None
  /\ main.at = "runs" => scene[main.call] = "begun"
  /\ main.at \notin {"idle", "pump"} => main.ran < MaxItems

\* A call is in the queue, with the main thread, or neither; until the main thread begins
\* it, it has left no trace, and only the main thread leaves a result in its box.
HandoverInv ==
  /\ TypeOK
  /\ \A r \in Requests : ThreadInv(r)
  /\ QueueInv(queue)
  /\ MainInv

-----------------------------------------------------------------------------
(* Settings: only their types matter to the calls *)

LEMMA OverTyped ==
  ASSUME NEW f \in Partial, NEW g \in [Keys -> BOOLEAN]
  PROVE  Over(f, g) \in [Keys -> BOOLEAN]
<1>1. PICK K \in SUBSET Keys : f \in [K -> BOOLEAN]
  BY DEF Partial
<1>2. DOMAIN f \cup DOMAIN g = Keys
  BY <1>1
<1>3. \A k \in Keys : (IF k \in DOMAIN f THEN f[k] ELSE g[k]) \in BOOLEAN
  BY <1>1
<1> QED
  BY <1>2, <1>3 DEF Over

Config(s, rep, f, c) ==
  /\ s \in [Keys -> BOOLEAN] /\ c \in [Keys -> BOOLEAN]
  /\ rep \in Partial
  /\ f \in [Keys -> BOOLEAN] \cup {Torn}

LEMMA ChooseTyped ==
  ASSUME Config(settings, replaced, file, chosen),
         NEW key \in Keys, NEW value \in BOOLEAN, Choose(key, value)
  PROVE  Config(settings, replaced, file, chosen)'
<1>1. settings' \in [Keys -> BOOLEAN] /\ chosen' \in [Keys -> BOOLEAN]
  BY DEF Choose, Config
<1>2. replaced' \in Partial
  <2>1. PICK K \in SUBSET Keys : replaced \in [K -> BOOLEAN]
    BY DEF Config, Partial
  <2>2. Without(replaced, key) \in [K \ {key} -> BOOLEAN]
    BY <2>1 DEF Without
  <2> QED
    BY <2>2 DEF Choose, Partial
<1>3. file' \in [Keys -> BOOLEAN]
  BY <1>1, <1>2, OverTyped DEF Choose, ToDict
<1> QED
  BY <1>1, <1>2, <1>3 DEF Config

LEMMA TornTyped == Torn \in Partial
<1>1. Torn \in [{} -> BOOLEAN]
  BY DEF Torn
<1> QED
  BY <1>1 DEF Partial

LEMMA BootTyped ==
  ASSUME Config(settings, replaced, file, chosen),
         NEW env \in Envs, NEW f \in {file, Torn}, Boot(env, f)
  PROVE  Config(settings, replaced, file, chosen)'
<1>1. f \in Partial /\ env \in Partial
  <2>1. [Keys -> BOOLEAN] \subseteq Partial
    BY DEF Partial
  <2> QED
    BY <2>1, TornTyped, BridgeAssumption DEF Config
<1>2. Stored(f) \in [Keys -> BOOLEAN]
  BY <1>1, OverTyped DEF Stored, Defaults
<1>3. settings' \in [Keys -> BOOLEAN]
  BY <1>1, <1>2, OverTyped DEF Boot
<1>4. replaced' \in Partial
  <2>1. PICK K \in SUBSET Keys : env \in [K -> BOOLEAN]
    BY <1>1 DEF Partial
  <2>2. [k \in DOMAIN env |-> Stored(f)[k]] \in [K -> BOOLEAN]
    BY <1>2, <2>1
  <2> QED
    BY <2>2 DEF Boot, Partial
<1>5. chosen' \in [Keys -> BOOLEAN]
  BY DEF Boot, Defaults, Config
<1>6. file' \in [Keys -> BOOLEAN] \cup {Torn}
  BY <1>3, <1>4, OverTyped DEF Boot, ToDict, Config
<1> QED
  BY <1>3, <1>4, <1>5, <1>6 DEF Config

-----------------------------------------------------------------------------
(* The invariant *)

LEMMA HandoverInit == Init => HandoverInv
<1> SUFFICES ASSUME Init PROVE HandoverInv
  OBVIOUS
<1> USE BridgeAssumption DEF Init
<1>1. TypeOK
  <2>1. replaced \in Partial
    BY TornTyped DEF Torn
  <2>2. main \in [at : {"idle", "pump", "took", "checked", "runs"},
                 call : Requests \cup {None}, ran : 0..MaxItems]
    BY DEF Idle
  <2>3. Defaults \in [Keys -> BOOLEAN]
    BY DEF Defaults
  <2>4. /\ reply \in [Requests -> Replies] /\ box \in [Requests -> {None} \cup Results]
        /\ scene \in [Requests -> {None, "begun", "done"}]
    BY DEF Replies
  <2>5. queue \in Seq(Requests)
    OBVIOUS
  <2>6. restarts \in 0..MaxRestarts
    OBVIOUS
  <2> QED
    BY <2>1, <2>2, <2>3, <2>4, <2>5, <2>6 DEF TypeOK
<1>2. \A r \in Requests : ThreadInv(r)
  BY DEF ThreadInv, Untouched
<1>3. QueueInv(queue) /\ MainInv
  BY DEF QueueInv, MainInv, Idle, None
<1> QED
  BY <1>1, <1>2, <1>3 DEF HandoverInv

\* The panel and the settings do not touch the calls.
LEMMA PanelKeeps ==
  ASSUME HandoverInv, Panel
  PROVE  HandoverInv' /\ UNCHANGED <<reply, scene>>
<1>1. Config(settings, replaced, file, chosen)
  BY DEF HandoverInv, TypeOK, Config
<1>2. /\ UNCHANGED <<thread, queue, abandoned, box, main, reply, scene, restarts>>
      /\ running' \in BOOLEAN /\ timer' \in BOOLEAN
      /\ \E key \in Keys, value \in BOOLEAN : Choose(key, value)
  BY <1>1 DEF Panel, StartBridge, StopBridge, SwitchGated, calls, server, Listen, Silent,
              HandoverInv, TypeOK, Keys
<1>3. Config(settings, replaced, file, chosen)'
  BY <1>1, <1>2, ChooseTyped
<1>4. TypeOK'
  BY <1>2, <1>3 DEF HandoverInv, TypeOK, Config
<1>5. (\A r \in Requests : ThreadInv(r))' /\ QueueInv(queue)' /\ MainInv'
  BY <1>2 DEF HandoverInv, ThreadInv, Untouched, QueueInv, Submitted, MainInv
<1> QED
  BY <1>2, <1>4, <1>5 DEF HandoverInv

LEMMA RestartKeeps ==
  ASSUME HandoverInv, NEW env \in Envs, Restart(env)
  PROVE  HandoverInv' /\ Service!Vanish
<1>1. PICK f \in {file, Torn} : Boot(env, f)
  BY DEF Restart
<1>2. Config(settings, replaced, file, chosen)'
  BY <1>1, BootTyped DEF HandoverInv, TypeOK, Config
<1>3. TypeOK'
  <2>1. running' \in BOOLEAN /\ timer' \in BOOLEAN
    BY <1>1 DEF Boot, Listen, Silent
  <2>2. main' \in [at : {"idle", "pump", "took", "checked", "runs"},
                  call : Requests \cup {None}, ran : 0..MaxItems]
    BY BridgeAssumption DEF Restart, Idle
  <2>3. restarts' \in 0..MaxRestarts
    BY BridgeAssumption DEF Restart, HandoverInv, TypeOK
  <2>4. reply' \in [Requests -> Replies] /\ thread' \in [Requests -> {"idle", "routed", "admitted", "waiting", "expired", "ended"}]
    BY DEF Restart, HandoverInv, TypeOK, Replies
  <2> QED
    BY <1>2, <2>1, <2>2, <2>3, <2>4 DEF Restart, HandoverInv, TypeOK, Config
<1>4. ASSUME NEW r \in Requests PROVE ThreadInv(r)'
  BY DEF Restart, HandoverInv, TypeOK, ThreadInv, Untouched, Submitted, None
<1>5. QueueInv(queue)' /\ MainInv'
  BY DEF Restart, QueueInv, MainInv, Idle, None
<1>6. Service!Vanish
  <2> DEFINE W == {r \in Requests : thread[r] # "idle" /\ reply[r] = None}
  <2>1. W \in SUBSET {r \in Requests : reply[r] = "none"}
    BY DEF None
  <2>2. reply' = [r \in Requests |-> IF r \in W THEN "lost" ELSE reply[r]]
    BY DEF Restart
  <2> QED
    BY <2>1, <2>2 DEF Service!Vanish, Restart
<1> QED
  BY <1>3, <1>4, <1>5, <1>6 DEF HandoverInv

-----------------------------------------------------------------------------
(* The threads *)

\* What a thread does to its own request leaves the other threads, the queue and the main
\* thread as they are.
LEMMA ReceiveKeeps ==
  ASSUME HandoverInv, NEW r \in Requests, Receive(r)
  PROVE  HandoverInv' /\ (Service!Answer(r) \/ UNCHANGED <<reply, scene>>)
<1> USE DEF Receive, Goes, Answers, config, server
<1>1. \/ /\ AtOnce[Kind[r]] \in Service!Refusals
         /\ AtOnce[Kind[r]] \in Replies \ {None}
      \/ Kind[r] \notin DOMAIN AtOnce
  BY DEF AtOnce, Service!Refusals, Replies, None
<1>2. TypeOK'
  BY <1>1 DEF HandoverInv, TypeOK
<1>3. Untouched(r) /\ reply[r] = None
  BY DEF HandoverInv, ThreadInv
<1>4. ASSUME NEW x \in Requests PROVE ThreadInv(x)'
  BY <1>1, <1>3 DEF HandoverInv, TypeOK, ThreadInv, Untouched
<1>5. ~Submitted(r) /\ \A x \in Requests \ {r} : Submitted(x) => Submitted(x)'
  BY DEF HandoverInv, TypeOK, Submitted
<1>6. QueueInv(queue)' /\ MainInv'
  BY <1>5 DEF HandoverInv, TypeOK, QueueInv, MainInv, Untouched
<1>7. Service!Answer(r) \/ UNCHANGED <<reply, scene>>
  BY <1>1, <1>3 DEF Service!Answer, Service!Told, Service!Replies, Service!Refusals,
              Service!Results, Untouched, None
<1> QED
  BY <1>2, <1>4, <1>6, <1>7 DEF HandoverInv

LEMMA GateKeeps ==
  ASSUME HandoverInv, NEW r \in Requests, Gate(r)
  PROVE  HandoverInv' /\ (Service!Answer(r) \/ UNCHANGED <<reply, scene>>)
<1> USE DEF Gate, Goes, Answers, config, server
<1>2. TypeOK'
  BY DEF HandoverInv, TypeOK, Replies
<1>3. Untouched(r) /\ reply[r] = None
  BY DEF HandoverInv, ThreadInv
<1>4. ASSUME NEW x \in Requests PROVE ThreadInv(x)'
  BY <1>3 DEF HandoverInv, TypeOK, ThreadInv, Untouched, None
<1>5. ~Submitted(r) /\ \A x \in Requests \ {r} : Submitted(x) => Submitted(x)'
  BY DEF HandoverInv, TypeOK, Submitted
<1>6. QueueInv(queue)' /\ MainInv'
  BY <1>5 DEF HandoverInv, TypeOK, QueueInv, MainInv, Untouched
<1>7. Service!Answer(r) \/ UNCHANGED <<reply, scene>>
  BY <1>3 DEF Service!Answer, Service!Told, Service!Replies, Service!Refusals,
              Service!Results, Untouched, None
<1> QED
  BY <1>2, <1>4, <1>6, <1>7 DEF HandoverInv

LEMMA SubmitKeeps ==
  ASSUME HandoverInv, NEW r \in Requests, Submit(r)
  PROVE  HandoverInv' /\ UNCHANGED <<reply, scene>>
<1> USE DEF Submit, Goes, config, server
<1>1. queue \in Seq(Requests) /\ queue' \in Seq(Requests)
  BY DEF HandoverInv, TypeOK
<1>2. /\ DOMAIN queue' = DOMAIN queue \cup {Len(queue) + 1}
      /\ queue'[Len(queue) + 1] = r
      /\ \A i \in DOMAIN queue : queue'[i] = queue[i] /\ i # Len(queue) + 1
  BY <1>1
<1>3. TypeOK'
  BY <1>1 DEF HandoverInv, TypeOK
<1>4. Untouched(r) /\ reply[r] = None /\ ~Submitted(r)
  BY DEF HandoverInv, ThreadInv, Submitted
<1>5. ASSUME NEW x \in Requests PROVE ThreadInv(x)'
  BY <1>4 DEF HandoverInv, TypeOK, ThreadInv, Untouched
<1>6. \A x \in Requests : Submitted(x)' <=> Submitted(x) \/ x = r
  BY <1>4 DEF HandoverInv, TypeOK, Submitted
<1>7. (\A i \in DOMAIN queue : queue[i] # r) /\ main.call # r
  <2>1. main.call = r => main.at # "idle" /\ main.at # "pump"
    BY BridgeAssumption DEF HandoverInv, MainInv
  <2> QED
    BY <1>4, <2>1 DEF HandoverInv, QueueInv, MainInv
<1>8. QueueInv(queue)'
  BY <1>1, <1>2, <1>4, <1>6, <1>7 DEF HandoverInv, QueueInv, Untouched
<1>9. MainInv'
  BY <1>6 DEF HandoverInv, TypeOK, MainInv, Submitted
<1> QED
  BY <1>3, <1>5, <1>8, <1>9 DEF HandoverInv

LEMMA ReturnKeeps ==
  ASSUME HandoverInv, NEW r \in Requests, Return(r)
  PROVE  HandoverInv' /\ Service!Answer(r)
<1> USE DEF Return, Goes, Answers, config, server
<1>1. box[r] \in Results /\ scene[r] = "done" /\ reply[r] = None
  BY DEF HandoverInv, TypeOK, ThreadInv
<1>2. TypeOK'
  BY <1>1 DEF HandoverInv, TypeOK, Replies
<1>3. ASSUME NEW x \in Requests PROVE ThreadInv(x)'
  BY <1>1 DEF HandoverInv, TypeOK, ThreadInv, Untouched, Results, None
<1>4. (\A i \in DOMAIN queue : queue[i] # r) /\ (main.call = r => main.at \in {"idle", "pump"})
  BY <1>1 DEF HandoverInv, TypeOK, QueueInv, MainInv, Untouched
<1>5. \A x \in Requests \ {r} : Submitted(x) => Submitted(x)'
  BY DEF HandoverInv, TypeOK, Submitted
<1>6. QueueInv(queue)' /\ MainInv'
  BY <1>4, <1>5 DEF HandoverInv, TypeOK, QueueInv, MainInv, Untouched
<1>7. Service!Answer(r)
  BY <1>1 DEF Service!Answer, Service!Told, Service!Replies, Service!Refusals,
              Service!Results, Results, None
<1> QED
  BY <1>2, <1>3, <1>6, <1>7 DEF HandoverInv

LEMMA WaitTimesOutKeeps ==
  ASSUME HandoverInv, NEW r \in Requests, WaitTimesOut(r)
  PROVE  HandoverInv' /\ UNCHANGED <<reply, scene>>
<1> USE DEF WaitTimesOut, Goes, config, server
<1>1. TypeOK'
  BY DEF HandoverInv, TypeOK
<1>2. ASSUME NEW x \in Requests PROVE ThreadInv(x)'
  BY DEF HandoverInv, TypeOK, ThreadInv, Untouched
<1>3. \A x \in Requests : Submitted(x) => Submitted(x)'
  BY DEF HandoverInv, TypeOK, Submitted
<1>4. QueueInv(queue)' /\ MainInv'
  BY <1>3 DEF HandoverInv, TypeOK, QueueInv, MainInv, Untouched
<1> QED
  BY <1>1, <1>2, <1>4 DEF HandoverInv

LEMMA AbandonKeeps ==
  ASSUME HandoverInv, NEW r \in Requests, Abandon(r)
  PROVE  HandoverInv' /\ Service!Answer(r)
<1> USE DEF Abandon, Goes, Answers, config, server
<1>1. TypeOK'
  BY DEF HandoverInv, TypeOK, Replies
<1>2. ASSUME NEW x \in Requests PROVE ThreadInv(x)'
  BY DEF HandoverInv, TypeOK, ThreadInv, Untouched, None
<1>3. \A x \in Requests : Submitted(x) => Submitted(x)'
  BY DEF HandoverInv, TypeOK, Submitted
<1>4. QueueInv(queue)' /\ MainInv'
  BY <1>3 DEF HandoverInv, TypeOK, QueueInv, MainInv, Untouched
<1>5. Service!Answer(r)
  BY DEF HandoverInv, ThreadInv, Service!Answer, Service!Told, Service!Replies,
         Service!Refusals, Service!Results, Service!Unknowns, None
<1> QED
  BY <1>1, <1>2, <1>4, <1>5 DEF HandoverInv

-----------------------------------------------------------------------------
(* The main thread *)

LEMMA TickKeeps ==
  ASSUME HandoverInv, Tick \/ EndTick
  PROVE  HandoverInv' /\ UNCHANGED <<reply, scene>>
<1> USE DEF Tick, EndTick, At, Idle, config, server, calls
<1>1. main'.call = None /\ main'.at \in {"idle", "pump"} /\ main'.ran = 0
      /\ main' = [at |-> main'.at, call |-> None, ran |-> 0] /\ timer' \in BOOLEAN
  BY DEF HandoverInv, TypeOK
<1>2. UNCHANGED <<settings, replaced, file, chosen, running, thread, queue, abandoned, box, reply,
                  scene, restarts>>
  OBVIOUS
<1>3. TypeOK'
  BY <1>1, <1>2, BridgeAssumption DEF HandoverInv, TypeOK
<1>4. ASSUME NEW x \in Requests PROVE ThreadInv(x)'
  BY <1>2 DEF HandoverInv, ThreadInv, Untouched
<1>5. QueueInv(queue)' /\ MainInv'
  <2>1. \A i \in DOMAIN queue : queue[i] # None
    BY BridgeAssumption DEF HandoverInv, TypeOK
  <2> QED
    BY <1>1, <1>2, <2>1 DEF HandoverInv, QueueInv, MainInv, Submitted, Untouched
<1> QED
  BY <1>2, <1>3, <1>4, <1>5 DEF HandoverInv

LEMMA TakeCallKeeps ==
  ASSUME HandoverInv, TakeCall
  PROVE  HandoverInv' /\ UNCHANGED <<reply, scene>>
<1> USE DEF TakeCall, At, config, server
<1>1. /\ queue \in Seq(Requests) /\ queue # <<>> /\ queue' = Tail(queue)
      /\ Head(queue) = queue[1] /\ 1 \in DOMAIN queue
      /\ \A i \in DOMAIN Tail(queue) : i + 1 \in DOMAIN queue /\ Tail(queue)[i] = queue[i + 1]
                                      /\ i + 1 # 1 /\ i \in Nat
  BY DEF HandoverInv, TypeOK
<1>2. main' = [at |-> "took", call |-> queue[1], ran |-> main.ran] /\ queue[1] \in Requests
  BY <1>1
<1>3. UNCHANGED <<settings, replaced, file, chosen, running, timer, thread, abandoned, box, reply,
                  scene, restarts>>
  OBVIOUS
<1>4. TypeOK'
  BY <1>1, <1>2, <1>3 DEF HandoverInv, TypeOK
<1>5. ASSUME NEW x \in Requests PROVE ThreadInv(x)'
  BY <1>3 DEF HandoverInv, ThreadInv, Untouched
<1>6. QueueInv(queue)'
  <2>1. ASSUME NEW i \in DOMAIN queue', NEW j \in DOMAIN queue', queue'[i] = queue'[j]
        PROVE  i = j
    <3>1. i + 1 = j + 1
      BY <1>1, <2>1 DEF HandoverInv, QueueInv
    <3> QED
      BY <1>1, <3>1
  <2>2. ASSUME NEW i \in DOMAIN queue'
        PROVE  (Submitted(queue[i]) /\ Untouched(queue[i]) /\ queue[i] # main.call)'
    <3>1. i + 1 \in DOMAIN queue /\ queue'[i] = queue[i + 1] /\ queue[i + 1] # queue[1]
      BY <1>1 DEF HandoverInv, QueueInv
    <3> QED
      BY <1>2, <1>3, <3>1 DEF HandoverInv, QueueInv, Submitted, Untouched
  <2> QED
    BY <2>1, <2>2 DEF QueueInv
<1>7. MainInv'
  BY <1>1, <1>2, <1>3, BridgeAssumption DEF HandoverInv, TypeOK, QueueInv, MainInv, Submitted, Untouched
<1> QED
  BY <1>3, <1>4, <1>5, <1>6, <1>7 DEF HandoverInv

LEMMA CheckAbandonedKeeps ==
  ASSUME HandoverInv, CheckAbandoned
  PROVE  HandoverInv' /\ UNCHANGED <<reply, scene>>
<1> USE DEF CheckAbandoned, At, config, server, calls
<1>1. main.call \in Requests /\ main.ran \in 0..MaxItems
  BY DEF HandoverInv, TypeOK, MainInv
<1>2. UNCHANGED <<settings, replaced, file, chosen, running, timer, thread, queue, abandoned, box,
                  reply, scene, restarts>>
  OBVIOUS
<1>3. main.ran < MaxItems
  BY DEF HandoverInv, MainInv
<1>4. \/ main' = [at |-> "pump", call |-> None, ran |-> main.ran + 1]
      \/ main' = [at |-> "checked", call |-> main.call, ran |-> main.ran]
  OBVIOUS
<1>5. TypeOK'
  BY <1>1, <1>2, <1>3, <1>4, BridgeAssumption DEF HandoverInv, TypeOK
<1>6. ASSUME NEW x \in Requests PROVE ThreadInv(x)'
  BY <1>2 DEF HandoverInv, ThreadInv, Untouched
<1>7. QueueInv(queue)'
  <2>1. \A i \in DOMAIN queue : queue[i] # None
    BY BridgeAssumption DEF HandoverInv, TypeOK
  <2> QED
    BY <1>2, <1>4, <2>1 DEF HandoverInv, QueueInv, Submitted, Untouched
<1>8. MainInv'
  BY <1>1, <1>2, <1>4, BridgeAssumption DEF HandoverInv, MainInv, Submitted
<1> QED
  BY <1>2, <1>5, <1>6, <1>7, <1>8 DEF HandoverInv

LEMMA BeginCallKeeps ==
  ASSUME HandoverInv, BeginCall
  PROVE  HandoverInv' /\ main.call \in Requests /\ Service!Begin(main.call)
<1> USE DEF BeginCall, At, config, server, calls
<1>1. main.call \in Requests /\ scene[main.call] = None /\ Submitted(main.call)
      /\ box[main.call] = None
  BY DEF HandoverInv, TypeOK, MainInv
<1>2. main' = [at |-> "runs", call |-> main.call, ran |-> main.ran] /\ main.ran \in 0..MaxItems
  BY DEF HandoverInv, TypeOK
<1>3. TypeOK'
  BY <1>1, <1>2 DEF HandoverInv, TypeOK
<1>4. ASSUME NEW x \in Requests PROVE ThreadInv(x)'
  BY <1>1 DEF HandoverInv, TypeOK, ThreadInv, Untouched, Submitted
<1>5. QueueInv(queue)' /\ MainInv'
  BY <1>1, <1>2, BridgeAssumption DEF HandoverInv, TypeOK, QueueInv, MainInv, Submitted, Untouched
<1>6. Service!Begin(main.call)
  BY <1>1 DEF HandoverInv, ThreadInv, Submitted, Service!Begin, None
<1> QED
  BY <1>1, <1>3, <1>4, <1>5, <1>6 DEF HandoverInv

LEMMA FinishCallKeeps ==
  ASSUME HandoverInv, FinishCall
  PROVE  HandoverInv' /\ main.call \in Requests /\ Service!Finish(main.call)
<1> USE DEF FinishCall, At, config, server
<1>1. main.call \in Requests /\ scene[main.call] = "begun" /\ Submitted(main.call)
      /\ main.ran < MaxItems
  BY DEF HandoverInv, TypeOK, MainInv
<1>2. main' = [at |-> "pump", call |-> None, ran |-> main.ran + 1] /\ main.ran \in 0..MaxItems
  BY DEF HandoverInv, TypeOK
<1>3. TypeOK'
  BY <1>1, <1>2, BridgeAssumption DEF HandoverInv, TypeOK
<1>4. ASSUME NEW x \in Requests PROVE ThreadInv(x)'
  BY <1>1 DEF HandoverInv, TypeOK, ThreadInv, Untouched, Submitted
<1>5. QueueInv(queue)'
  <2>1. \A i \in DOMAIN queue : queue[i] # None /\ queue[i] # main.call
    BY BridgeAssumption DEF HandoverInv, TypeOK, QueueInv
  <2> QED
    BY <1>1, <1>2, <2>1 DEF HandoverInv, TypeOK, QueueInv, Submitted, Untouched
<1>6. MainInv'
  BY <1>2, BridgeAssumption DEF MainInv
<1>7. Service!Finish(main.call)
  BY <1>1 DEF Service!Finish
<1> QED
  BY <1>1, <1>3, <1>4, <1>5, <1>6, <1>7 DEF HandoverInv

-----------------------------------------------------------------------------
(* The theorems *)

LEMMA StepImplements ==
  ASSUME HandoverInv, [Next]_vars
  PROVE  HandoverInv' /\ [Service!Next]_<<reply, scene>>
<1> USE DEF Service!Next
<1>1. CASE \E r \in Requests : Receive(r) \/ ThreadStep(r)
  BY <1>1, ReceiveKeeps, GateKeeps, SubmitKeeps, ReturnKeeps, WaitTimesOutKeeps, AbandonKeeps
     DEF ThreadStep
<1>2. CASE Tick \/ PumpStep
  BY <1>2, TickKeeps, TakeCallKeeps, CheckAbandonedKeeps, BeginCallKeeps, FinishCallKeeps
     DEF PumpStep
<1>3. CASE Panel
  BY <1>3, PanelKeeps
<1>4. CASE \E env \in Envs : Restart(env)
  BY <1>4, RestartKeeps
<1>5. CASE UNCHANGED vars
  BY <1>5 DEF vars, HandoverInv, TypeOK, ThreadInv, QueueInv, MainInv, Submitted, Untouched
<1> QED
  BY <1>1, <1>2, <1>3, <1>4, <1>5 DEF Next

\* Every variable of the bridge keeps its type (main_thread.py, tool_host.py, control.py).
THEOREM BridgeTypeCorrect == Spec => []TypeOK
<1>1. HandoverInv => TypeOK
  BY DEF HandoverInv
<1> QED
  BY <1>1, HandoverInit, StepImplements, PTL DEF Spec

\* The bridge implements CallService: a call takes effect at most once, is reported only
\* after it ran, and never runs once refused (tool_host.py:109-143, main_thread.py:17-46).
THEOREM BridgeImplementsService == Spec => ImplementsService
<1>1. Init => Service!Init
  BY DEF Init, Service!Init, None
<1> QED
  BY <1>1, HandoverInit, StepImplements, PTL DEF Spec, ImplementsService, Service!Spec

-----------------------------------------------------------------------------
(* A call given up in the queue *)

\* A queued call whose thread has ended is marked: nothing else ends its thread.
MarkedInv == \A i \in DOMAIN queue : thread[queue[i]] = "ended" => queue[i] \in abandoned

LEMMA MarkedStep ==
  ASSUME HandoverInv, MarkedInv, [Next]_vars
  PROVE  MarkedInv'
<1>0. /\ queue \in Seq(Requests)
      /\ thread \in [Requests -> {"idle", "routed", "admitted", "waiting", "expired", "ended"}]
      /\ \A i \in DOMAIN queue : /\ queue[i] \in Requests /\ box[queue[i]] = None
                                /\ thread[queue[i]] \in {"waiting", "expired", "ended"}
  <2>1. /\ queue \in Seq(Requests)
        /\ thread \in [Requests -> {"idle", "routed", "admitted", "waiting", "expired", "ended"}]
    BY DEF HandoverInv, TypeOK
  <2>2. ASSUME NEW i \in DOMAIN queue
        PROVE  /\ queue[i] \in Requests /\ box[queue[i]] = None
               /\ thread[queue[i]] \in {"waiting", "expired", "ended"}
    BY <2>1 DEF HandoverInv, QueueInv, Submitted, Untouched
  <2> QED
    BY <2>1, <2>2
<1>1. ASSUME NEW r \in Requests, Receive(r) \/ ThreadStep(r) PROVE MarkedInv'
  <2>1. CASE Submit(r)
    <3>1. /\ DOMAIN queue' = DOMAIN queue \cup {Len(queue) + 1}
          /\ queue'[Len(queue) + 1] = r
          /\ \A i \in DOMAIN queue : queue'[i] = queue[i] /\ queue[i] # r
      BY <1>0, <2>1 DEF Submit
    <3> QED
      BY <1>0, <2>1, <3>1 DEF Submit, Goes, MarkedInv
  <2>2. CASE Receive(r) \/ Gate(r) \/ Return(r) \/ WaitTimesOut(r) \/ Abandon(r)
    BY <1>0, <2>2 DEF Receive, Gate, Return, WaitTimesOut, Abandon, Goes, Answers, MarkedInv
  <2> QED
    BY <1>1, <2>1, <2>2 DEF ThreadStep
<1>2. CASE TakeCall
  <2>1. \A i \in DOMAIN queue' : \E j \in DOMAIN queue : queue'[i] = queue[j]
    BY <1>0, <1>2 DEF TakeCall
  <2> QED
    BY <1>2, <2>1 DEF TakeCall, MarkedInv
<1>3. CASE Tick \/ CheckAbandoned \/ BeginCall \/ FinishCall \/ EndTick \/ Panel
  BY <1>3 DEF Tick, CheckAbandoned, BeginCall, FinishCall, EndTick, Panel, StartBridge, StopBridge,
              SwitchGated, calls, MarkedInv
<1>4. CASE \E env \in Envs : Restart(env)
  BY <1>4 DEF Restart, MarkedInv
<1>5. CASE UNCHANGED vars
  BY <1>5 DEF vars, MarkedInv
<1> QED
  BY <1>1, <1>2, <1>3, <1>4, <1>5 DEF Next, PumpStep

\* A call that was given up in the queue stays marked for as long as it can be taken.
GivenUp(r) ==
  /\ reply[r] = "TIMEOUT" /\ scene[r] = None
  /\ main.call = r => main.at = "took" /\ r \in abandoned
  /\ InQueue(r) => r \in abandoned

LEMMA GivenUpStep ==
  ASSUME HandoverInv, NEW r \in Requests, GivenUp(r), [Next]_vars
  PROVE  GivenUp(r)'
<1>0. thread[r] = "ended" /\ queue \in Seq(Requests) /\ reply \in [Requests -> Replies]
      /\ scene \in [Requests -> {None, "begun", "done"}] /\ None # r
  BY BridgeAssumption DEF HandoverInv, TypeOK, ThreadInv, GivenUp, None
<1>1. ASSUME NEW x \in Requests, Receive(x) \/ ThreadStep(x) PROVE GivenUp(r)'
  <2>1. x # r /\ reply'[r] = reply[r] /\ abandoned \subseteq abandoned' /\ UNCHANGED <<scene, main>>
    BY <1>0, <1>1 DEF Receive, ThreadStep, Gate, Submit, Return, WaitTimesOut, Abandon, Goes, Answers
  <2>2. InQueue(r)' => InQueue(r)
    BY <1>0, <1>1, <2>1 DEF Receive, ThreadStep, Gate, Submit, Return, WaitTimesOut, Abandon, InQueue
  <2> QED
    BY <2>1, <2>2 DEF GivenUp
<1>2. CASE TakeCall
  <2>1. InQueue(r)' => InQueue(r)
    BY <1>0, <1>2 DEF TakeCall, InQueue
  <2>2. main'.call = r => main'.at = "took" /\ InQueue(r)
    BY <1>0, <1>2 DEF TakeCall, At, InQueue
  <2> QED
    BY <1>2, <2>1, <2>2 DEF TakeCall, GivenUp
<1>3. CASE Tick \/ CheckAbandoned \/ EndTick
  BY <1>0, <1>3 DEF Tick, CheckAbandoned, EndTick, At, Idle, calls, GivenUp, InQueue
<1>4. CASE BeginCall \/ FinishCall
  BY <1>0, <1>4 DEF BeginCall, FinishCall, At, calls, GivenUp, InQueue
<1>5. CASE Panel
  BY <1>5 DEF Panel, StartBridge, StopBridge, SwitchGated, calls, GivenUp, InQueue
<1>6. CASE \E env \in Envs : Restart(env)
  BY <1>0, <1>6 DEF Restart, Idle, GivenUp, InQueue, None
<1>7. CASE UNCHANGED vars
  BY <1>7 DEF vars, GivenUp, InQueue
<1> QED
  BY <1>1, <1>2, <1>3, <1>4, <1>5, <1>6, <1>7 DEF Next, PumpStep

\* A call given up while it was queued never runs (main_thread.py:24-26, 39).
THEOREM GivenUpNeverRuns == Spec => AbandonedNeverRuns
<1> SUFFICES ASSUME NEW r \in Requests
             PROVE  Spec => [](reply[r] = "TIMEOUT" /\ InQueue(r) => [](scene[r] = None))
  BY DEF AbandonedNeverRuns
<1>1. HandoverInv /\ MarkedInv /\ reply[r] = "TIMEOUT" /\ InQueue(r) => GivenUp(r)
  BY DEF HandoverInv, TypeOK, ThreadInv, QueueInv, MarkedInv, Untouched, InQueue, GivenUp, None
<1>2. GivenUp(r) => scene[r] = None
  BY DEF GivenUp
<1>3. Init => MarkedInv
  BY DEF Init, MarkedInv
<1>4. HandoverInv /\ GivenUp(r) /\ [Next]_vars => GivenUp(r)'
  BY GivenUpStep
<1>5. HandoverInv /\ MarkedInv /\ [Next]_vars => HandoverInv' /\ MarkedInv'
  BY StepImplements, MarkedStep
<1> QED
  BY <1>1, <1>2, <1>3, <1>4, <1>5, HandoverInit, PTL DEF Spec

-----------------------------------------------------------------------------
(* The user's choices *)

\* What was replaced by the environment is what the user chose before.
ChoiceInv == ChoicesKept /\ \A k \in DOMAIN replaced : replaced[k] = chosen[k]

LEMMA ChooseKeeps ==
  ASSUME Config(settings, replaced, file, chosen), ChoiceInv,
         NEW key \in Keys, NEW value \in BOOLEAN, Choose(key, value)
  PROVE  ChoiceInv'
<1>1. /\ settings' = [settings EXCEPT ![key] = value] /\ chosen' = [chosen EXCEPT ![key] = value]
      /\ settings' \in [Keys -> BOOLEAN] /\ chosen' \in [Keys -> BOOLEAN]
  BY DEF Choose, Config
<1>2. DOMAIN replaced' = DOMAIN replaced \ {key} /\ \A k \in DOMAIN replaced' : replaced'[k] = replaced[k]
  BY DEF Choose, Without
<1>3. DOMAIN replaced \subseteq Keys
  BY DEF Config, Partial
<1>4. \A k \in DOMAIN replaced' : replaced'[k] = chosen'[k]
  BY <1>1, <1>2, <1>3 DEF ChoiceInv, Config
<1>5. \A k \in Keys \ DOMAIN replaced' : settings'[k] = chosen'[k]
  BY <1>1, <1>2 DEF ChoiceInv, ChoicesKept, Config
<1>6. file' = [k \in Keys |-> IF k \in DOMAIN replaced' THEN replaced'[k] ELSE settings'[k]]
  <2>1. DOMAIN replaced' \cup DOMAIN settings' = Keys
    BY <1>1, <1>2, <1>3
  <2> QED
    BY <2>1 DEF Choose, ToDict, Over
<1>7. file' = chosen'
  BY <1>1, <1>4, <1>5, <1>6
<1> QED
  BY <1>4, <1>5, <1>7 DEF ChoiceInv, ChoicesKept

LEMMA BootKeeps ==
  ASSUME Config(settings, replaced, file, chosen), ChoiceInv,
         NEW env \in Envs, NEW f \in {file, Torn}, Boot(env, f)
  PROVE  ChoiceInv'
<1> DEFINE stored == Stored(f)
<1>1. PICK K \in SUBSET Keys : env \in [K -> BOOLEAN]
  BY BridgeAssumption DEF Partial
<1>2. stored = chosen' /\ chosen' \in [Keys -> BOOLEAN]
  <2>1. CASE f = Torn
    <3>1. DOMAIN Torn = {}
      BY DEF Torn
    <3>2. stored = Defaults
      BY <2>1, <3>1 DEF Stored, Over, Defaults
    <3> QED
      BY <2>1, <3>2 DEF Boot, Defaults
  <2>2. CASE f # Torn
    <3>1. f = chosen /\ chosen \in [Keys -> BOOLEAN] /\ chosen' = chosen
      BY <2>2 DEF ChoiceInv, ChoicesKept, Boot, Config
    <3>2. stored = chosen
      BY <3>1 DEF Stored, Over, Defaults
    <3> QED
      BY <3>1, <3>2
  <2> QED
    BY <2>1, <2>2
<1> HIDE DEF stored
<1>3. settings' = [k \in Keys |-> IF k \in K THEN env[k] ELSE stored[k]]
  <2>1. DOMAIN env \cup DOMAIN stored = Keys /\ DOMAIN env = K
    BY <1>1, <1>2
  <2> QED
    BY <2>1 DEF Boot, Over, stored
<1>4. replaced' = [k \in K |-> stored[k]]
  BY <1>1 DEF Boot, stored
<1>5. ToDict(settings', replaced') = chosen'
  <2>1. DOMAIN replaced' \cup DOMAIN settings' = Keys /\ DOMAIN replaced' = K
    BY <1>1, <1>3, <1>4
  <2>2. ToDict(settings', replaced') = [k \in Keys |-> stored[k]]
    BY <1>3, <1>4, <2>1 DEF ToDict, Over
  <2> QED
    BY <1>2, <2>2
<1>6. file' # Torn => file' = chosen'
  <2>1. CASE file' = ToDict(settings', replaced')
    BY <1>5, <2>1
  <2>2. CASE file' = f
    BY <2>2 DEF ChoiceInv, ChoicesKept, Boot
  <2> QED
    BY <2>1, <2>2 DEF Boot
<1> QED
  BY <1>1, <1>2, <1>3, <1>4, <1>6 DEF ChoiceInv, ChoicesKept

LEMMA ChoiceStep == TypeOK /\ ChoiceInv /\ [Next]_vars => ChoiceInv'
<1> SUFFICES ASSUME TypeOK, ChoiceInv, [Next]_vars PROVE ChoiceInv'
  OBVIOUS
<1>0. Config(settings, replaced, file, chosen)
  BY DEF TypeOK, Config
<1>1. CASE Panel
  <2>1. "enabled" \in Keys /\ "allow_gated" \in Keys
    BY DEF Keys
  <2>2. CASE StartBridge
    BY <1>0, <2>1, <2>2, ChooseKeeps DEF StartBridge
  <2>3. CASE StopBridge
    BY <1>0, <2>1, <2>3, ChooseKeeps DEF StopBridge
  <2>4. CASE SwitchGated
    BY <1>0, <2>1, <2>4, ChooseKeeps DEF SwitchGated, TypeOK
  <2> QED
    BY <1>1, <2>2, <2>3, <2>4 DEF Panel
<1>2. CASE \E env \in Envs : Restart(env)
  BY <1>0, <1>2, BootKeeps DEF Restart
<1>3. CASE UNCHANGED config
  BY <1>3 DEF config, ChoiceInv, ChoicesKept
<1> QED
  BY <1>1, <1>2, <1>3
  DEF Next, ThreadStep, PumpStep, Receive, Gate, Submit, Return, WaitTimesOut, Abandon, Tick,
      TakeCall, CheckAbandoned, BeginCall, FinishCall, EndTick, vars, config

\* The file and the settings keep what the user chose, through overrides, torn files and
\* restarts (settings.py:39-49, 104).
THEOREM ChoicesAreKept == Spec => []ChoicesKept
<1>1. Init => ChoiceInv
  BY DEF Init, ChoiceInv, ChoicesKept, Defaults
<1>2. ChoiceInv => ChoicesKept
  BY DEF ChoiceInv
<1>3. HandoverInv => TypeOK
  BY DEF HandoverInv
<1> QED
  BY <1>1, <1>2, <1>3, HandoverInit, StepImplements, ChoiceStep, PTL DEF Spec

-----------------------------------------------------------------------------
(* A stopped bridge *)

\* The callback is registered, and the pump at work, only while the server runs.
ServerInv == (timer => running) /\ (main.at # "idle" => running)

LEMMA ServerStep ==
  TypeOK /\ ServerInv /\ [Next]_vars =>
    ServerInv' /\ \A r \in Requests : scene[r] = None /\ scene'[r] = "begun" => running
<1> SUFFICES ASSUME TypeOK, ServerInv, [Next]_vars
             PROVE  ServerInv' /\ \A r \in Requests : scene[r] = None /\ scene'[r] = "begun" => running
  OBVIOUS
<1> USE DEF ServerInv, At, None
<1>1. CASE \E r \in Requests : Receive(r) \/ ThreadStep(r)
  BY <1>1 DEF ThreadStep, Receive, Gate, Submit, Return, WaitTimesOut, Abandon, server
<1>2. CASE Tick \/ TakeCall \/ CheckAbandoned
  BY <1>2 DEF Tick, TakeCall, CheckAbandoned, server
<1>3. CASE BeginCall
  BY <1>3 DEF BeginCall, server
<1>8. CASE FinishCall
  <2>1. main.at = "runs" /\ UNCHANGED server /\ main'.at = "pump"
    BY <1>8 DEF FinishCall
  <2>2. running /\ running' = running /\ timer' = timer
    BY <2>1 DEF server
  <2> QED
    BY <2>1, <2>2
<1>4. CASE EndTick
  BY <1>4 DEF EndTick, Idle
<1>5. CASE Panel
  <2>1. main.at = "idle" /\ main' = main /\ scene' = scene
    BY <1>5 DEF Panel, StartBridge, StopBridge, SwitchGated
  <2>2. (running' /\ timer') \/ (~running' /\ ~timer') \/ (running' = running /\ timer' = timer)
    BY <1>5 DEF Panel, StartBridge, StopBridge, SwitchGated, Listen, Silent, server
  <2> QED
    BY <2>1, <2>2
<1>6. CASE \E env \in Envs : Restart(env)
  BY <1>6 DEF Restart, Boot, Listen, Silent, Idle
<1>7. CASE UNCHANGED vars
  BY <1>7 DEF vars
<1> QED
  BY <1>1, <1>2, <1>3, <1>4, <1>5, <1>6, <1>7, <1>8 DEF Next, PumpStep

\* Nothing of the queue is run after the bridge was stopped (control.py:66-72, 87-89).
THEOREM StoppedRunsNothing == Spec => NothingRunsStopped
<1>1. Init => ServerInv
  BY DEF Init, ServerInv, Idle
<1>2. HandoverInv => TypeOK
  BY DEF HandoverInv
<1>3. TypeOK /\ ServerInv /\ [Next]_vars =>
        [\A r \in Requests : scene[r] = None /\ scene'[r] = "begun" => running]_vars
  BY ServerStep
<1> QED
  BY <1>1, <1>2, <1>3, HandoverInit, StepImplements, ServerStep, PTL DEF Spec, NothingRunsStopped
=============================================================================
