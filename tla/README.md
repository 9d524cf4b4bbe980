# Formal model of Blender Copilot

Blender Copilot is a Blender add-on: the user writes what should happen in the
scene, a language model answers with tool calls, and the add-on executes them,
asking the user before anything risky.  This directory holds TLA+ models of its
core, the TLC configurations that check them, and theorems checked by TLAPS.

To check a run, give TLC its configuration and the module named in the table of
runs: `tlc -config Approval.cfg MCAgentRuntime.tla`, and so on.  `tlapm` on the
modules whose names end in `Proofs`, on `AgentRuntimeSafety`, `AgentRuntimeTurns`
and `AgentRuntimeConversation` checks the proofs.  `PROJECT.json` lists the runs, maps every
definition to its lines of source, and lists the hazards of the code with the
properties that watch them.

## The system

| Component | State it keeps | Operations | Interacts with |
|---|---|---|---|
| `agent/runtime.py` `AgentRuntime` | state machine, current turn, conversation, pending approval and plan, round and repair counters, cancel events | `submit_prompt`, `process_event`, `approve`, `reject`, `approve_plan`, `reject_plan`, `cancel_current_turn`, `clear_history`, `restore_session_memory`, `pump_prompt_queue` | all on Blender's main thread; called by operators and the timer; submits tasks to the worker |
| `agent/models.py`, `agent/memory.py` | the list of chat messages | append, validate, compact | owned by the runtime |
| `agent/worker.py` `AgentWorker` | task queue, its thread, stop event | take a task, stream, post events | posts to the event queue, checks the cancel event |
| `core/event_queue.py` | thread-safe queue | `put`, `drain_batch` | between worker and timer |
| `ui/timer_bridge.py` | last indices copied to the panel | `tick`: drain, handle, pump | calls the runtime, redraws |
| `ui/operators.py`, `ui/panel.py`, overlay | snapshots shown to the user | buttons | call the runtime, possibly with an old snapshot |
| `bridge/*` (MCP) | settings and their file, executor queue, call counter, HTTP server | call a tool from another program | HTTP threads hand calls to the main thread with a timeout |
| `adapter/task_ledger.py`, `adapter/mutators/undo_manager.py` | task baseline, count of pushed undo steps | begin, report, roll back, push, undo | shares Blender's undo stack with the user |
| `agent/plan_*.py`, `tools/propose_plan.py` | a plan's steps | validate, order, execute | called by the runtime |
| providers, `sse_parser.py`, `tool_call_accumulator.py` | partial reply | stream, assemble | run on the worker |
| `agent/history.py`, `timeline_models.py` | bounded list of items | append, evict | copied to panel properties |
| `tools/*`, `agent/dispatcher.py`, `adapter/*` with its mutators and readers | the Blender scene | 55 tools, each from its first check to its push of an undo step | the dispatcher opens a task in the ledger; a card asks for risky tools |
| numeric `core/*` | nothing | meshes, motion, lenses, sound | called by tools |

Hard behaviours: two threads (the worker and the main thread) and two sources
of callbacks on the main thread (the timer and the user); events of a turn that
arrive after it was cancelled; clicks on what is no longer there; a batch of
tool calls interrupted in the middle; exceptions in the middle of a handler; a
conversation that must keep a strict protocol through all of that; files opened
at any moment.  For the bridge: calls that time out while they run.

What makes each component correct:

* runtime: consent before risky tools; nothing executed twice or after
  cancellation; an active turn is always moved on by exactly one party; the
  conversation sent to the provider is well formed, and never blocks the next
  prompt; limits on rounds and repairs; every turn ends and the queue drains.
* worker and queue: events in order, never handled for the wrong turn.
* conversation: compaction and discard keep completed turns and the pairing of
  calls and answers.
* bridge: a call is answered once, what the client is told agrees with what
  happened, nothing gated runs without the gate.
* ledger and undo: rolling a task back undoes that task's steps and no others.
* tools: one call is one Ctrl+Z; no tool changes more of the data that objects share, or
  loses more objects without a card, than it is known to; the scene stays well formed.
* plans: steps run after what they depend on; a failed plan leaves nothing half
  undone that the report does not name.
* providers: what reaches the runtime is what the model sent, however it is cut
  into fragments; every request ends with one outcome; a cancel frees the worker.

## Modules

| Module | What it holds |
|---|---|
| `ChatConversation` | Messages, the tool-call protocol (`ValidSequence`), `FillFrom`, `Discard`, compaction: pure operators |
| `AgentRuntime` | The state machine of the runtime, worker, event queue, timer, prompt queue and user; properties |
| `MCAgentRuntime` | The replies of the model used in each run |
| `AgentRuntimeSafety` | Lemmas about the operators of `ChatConversation`; theorems about types and calls: `TypeOK`, `RunsOnce`, `ConsentForGated` |
| `AgentRuntimeTurns` | Theorems about the active turn: `NoRunAfterCancel`, `StreamingOwn`, `OneOwner`, `ProviderExclusive`, `NoIllegalTransition`, `LoopGuards` |
| `AgentRuntimeConversation` | Theorems about the conversation: `NextPromptStarts`, `CancelTakesBackTurn`, `CompletedHistoryKept`, `RequestsWellFormed`, `DecisionAnswerable` |
| `CallService` | What the bridge promises a client of a tool call: an abstract specification |
| `McpBridge` | HTTP threads, the executor and its queue, the pump on the main thread, timeouts, settings, stop and restart; implements `CallService` |
| `MCMcpBridge` | The requests and environments of the run `Bridge` |
| `McpBridgeProofs` | Theorems about the bridge, for any number of requests |
| `PlanContract` | What executing a plan promises: an abstract specification |
| `PlanExecution` | A plan from `propose_plan` to its summary: validation, order, gate, execution; implements `PlanContract` |
| `MCPlanExecution` | The plans of the run `PlanOrder` |
| `PlanExecutionProofs` | Theorems about plans of any length |
| `TaskLedger` | The ledger, the undo manager and Blender's undo stack, with any tools |
| `MCTaskLedger` | Scenes of one visible and one invisible part, for `Ledger` and `OwnSteps` |
| `SceneTools` | What each mutator and reader does to a scene: pure operators |
| `ToolCalls` | The calls: every registered tool, its risk, its arguments as far as they are told apart, the adapter's error codes |
| `SceneTasks` | Calls of the tools under the ledger: `TaskLedger` with the scenes of `SceneTools`; properties |
| `MCSceneTasks` | The two scenes the run `Tools` starts from |
| `SceneTasksProofs` | Theorems about the ledger, for any scenes and any limit on undo, and about all tools above it: `SceneSound`, `LossNeedsConsent`, `TaskRollsBack`, `OneStepEach`, `SharedDataKept` |
| `ReplyParser` | `SSEParser` and `ToolCallAccumulator`: pure operators on bytes, lines and fragments |
| `ProviderStream` | One request from the task queue to the posted events, over HTTP or the agy process; properties |
| `SoundReplies` | What a sound reply is and says, when its bytes are parsed in one piece: a reference definition for the streaming parser |
| `MCProviderStream` | The replies and payloads of `Streaming` and `BrokenReply` |
| `ProviderStreamProofs` | Theorems about streams of any replies, however they are cut: `OneOutcome`, `RepliesAsSent` |
| `SessionMemory` | What the agent remembers of old turns: extraction, summary and its parsing, pruning, compaction, save and open; properties |
| `SessionMemoryProofs` | Theorems about summaries of any number of turns: `SummaryTrue`, `FactsKept` |
| `MCSessionMemory` | The names of the run `Memory` and what the parser and the redaction make of them |

`AgentRuntime`, `McpBridge`, `PlanExecution`, `SceneTasks`, `ProviderStream` and
`SessionMemory` do not instantiate each other.  `AgentRuntime` sees a plan as one call that succeeds or
fails, a tool as one step that does, and a reply as deltas followed by one outcome:
the last is what `OneOutcome` and `RequestSettles` of `ProviderStream` justify.
`ChatConversation` says which messages a compaction leaves, `SessionMemory` what its summary tells.
`McpBridge` shares with the runtime only the main thread and the scene.
`SceneTasks` composes the tools and the ledger: it EXTENDS both, and each of its
steps is a step of `TaskLedger` with the outcome of one real tool.

### AgentRuntime

One main thread runs one callback at a time, so each operator and each handled
event is one action.  `phase` says where the main thread is.  A tick is split:
`BeginTick` drains, one action handles each event, `EndTick` pumps the prompt
queue; the worker can act between them, the user cannot.  A reply with tool
calls puts the main thread in the loop (`phase = "tools"`), one action per call.

| State | Code |
|---|---|
| `state`, `turn`, `turn_counter` | `AgentStateMachine.current_state`, `_current_turn_id`, `_turn_counter` |
| `conversation`, `active_start` | `conversation.messages`, `_active_conversation_start` |
| `tool_round`, `plan_repairs`, `plan_failed` | `_current_tool_round`, `_current_plan_repairs`, a failed plan in `_current_tool_results` |
| `pending_approval`, `pending_plan`, `consumed_tokens` | the same fields |
| `cancelled` | the cancel event of each turn |
| `prompt_queue`, `event_queue`, `task_queue` | the three queues |
| `worker` | what `_run_loop` is doing: idle, reading a stream, or holding an event between the check of the cancel event and `put` |
| `batch`, `calls` | locals of `tick` and `process_event` |
| `submitted`, `asked`, `ran`, `cards`, `approved`, `rejected` | history variables, for the properties only |

| Action | Code |
|---|---|
| `SubmitPrompt`, `EndTick` with `StartPrompt` | `submit_prompt`, `pump_prompt_queue`, `_start_prompt` with its exceptions |
| `CancelTurn`, `ClearHistory`, `LoadSession` | `cancel_current_turn`, `clear_history`, `restore_session_memory` |
| `Approve`, `Reject`, `ApprovePlan`, `RejectPlan` | the same methods, including the request that follows |
| `DropStaleEvent`, `HandleDelta`, `HandleError`, `IllegalTransition`, `HandleFinalReply`, `HandleToolReply` | `process_event` by kind of event |
| `RunCall`, `AskUser`, `RefusePlan`, `ReviewPlan`, `AutoApprovePlan`, `FinishLoop` | the loop over the calls of a reply |
| `WorkerTake`, `WorkerReceive`, `WorkerPost`, `WorkerAbandon` | `AgentWorker._run_loop` |

A message keeps its role, its turn and its tool calls.  A tool call is
identified by the number of its reply and its place in it, as `call_id` is
unique, and has one of five kinds, because that is all the runtime treats
differently: it runs at once, needs approval, or is a plan that runs at once,
needs review or is refused.  A tool succeeds or fails.  A request is sent with
the verdict of `ValidSequence` on the conversation it carries, which is what the
provider would say of it.

`Env` turns disturbances on: `compact` (old turns are summarised), `imageLost` (a
screenshot has left the cache, so the request cannot be built), `clear`, `load`,
`lateCancel` (Stop in the overlay clicked after the turn ended), `sidebar` (the
buttons of the sidebar, which name no card).

### McpBridge

Another program calls a tool over HTTP.  A thread of the server checks and gates
the request, puts the call into the executor's queue and waits with a timeout; a
timer of Blender runs queued calls on the main thread.

| State | Code |
|---|---|
| `settings`, `replaced`, `file` | `BridgeController.settings`, `BridgeSettings._env_replaced`, `mcp_bridge.json` |
| `running`, `timer` | the HTTP server exists; `_tick` is registered |
| `thread` | where the handler of each request is |
| `queue`, `abandoned`, `box` | `MainThreadExecutor._queue` and the box each call shares with its waiting thread |
| `main` | what the pump is doing with the call it took |
| `reply`, `scene`, `chosen` | history: what the client was told, whether the call took effect, what the user last chose |

| Action | Code |
|---|---|
| `Receive`, `Gate`, `Submit`, `Return`, `WaitTimesOut`, `Abandon` | the handler: route, gate, enqueue, and the two ways out of the wait; the timeout and the mark "abandoned" are two steps, and the pump can act between them |
| `Tick`, `TakeCall`, `CheckAbandoned`, `BeginCall`, `FinishCall`, `EndTick` | `_tick` and `pump`, step by step, as threads run between any two of them |
| `StartBridge`, `StopBridge`, `SwitchGated` | the panel and `BridgeController` |
| `Restart` | Blender dies, perhaps while it writes the settings (`file = Torn`), and starts in some environment |

Requests are told apart by kind: `free` and `gated` tools and `hidden` ones, which
the exposure policy does not offer.  Left out: the contents of messages, the call
counter (the dispatcher ignores the id), the choice of port and token, and an
add-on disabled and enabled again within one process.

`CallService` says what the client may conclude.  Being told `TIMEOUT`, or losing
the connection, leaves open whether the call takes effect: that is what the code
does, and why `CallService` lets a call begin after `TIMEOUT`.  Only a call that
was still queued when the client was told is sure not to run
(`AbandonedNeverRuns`).

### PlanExecution

`Propose` validates, `PlaceStep` and `EndSort` are Kahn's algorithm, then the plan is
shown (`ReviewPlan`, `Approve`, `Reject`) or approved by itself.
`StartExecution` validates and sorts the plan again, as the executor does, and `RunStep`
and `Summarise` execute it.

| State | Code |
|---|---|
| `plan`, `goal` | the steps in their present order; history: the plan as proposed |
| `waits`, `ready`, `order` | `in_degree`, `ready_queue`, `topological_order`; `waits` holds the steps whose number `in_degree` is |
| `card`, `consent` | the plan on the review; history: the user pressed Approve |
| `results`, `completed`, `has_failed`, `outcome` | the same names in `PlanExecutor`, and how the proposal ended |

A set of dependencies stands for the list: an id repeated in the list is counted
twice and taken back twice.  Tools are of the kinds the validator and the gate tell
apart: low risk, gated by their `risk_level`, gated only by their arguments, and
three that a plan may not use.  `PlansKeepContract` also explains branches that do not
occur here: the second validation cannot fail, and a step never meets an unmet
dependency unless a step has failed.  Not modelled: `execute_plan` with an approval hook (its
only callers are tests), `propose_plan.execute` (the runtime intercepts the call),
serialisation and visual expectations.

### TaskLedger and SceneTasks

| State | Code |
|---|---|
| `scene`, `past`, `future` | the scene; Blender's undo steps up to the present one, and those that a redo brings back |
| `window` | Blender has a window: without one neither `undo_push` nor `undo` works |
| `pushed` | `undo_manager._pushed` |
| `open`, `baseline`, `stepsAt` | `TaskLedger._baseline` (or none) and `_steps_at_baseline` |
| `told` | the answer of a report or rollback |
| `clean` | history: since the baseline only tool calls that recorded what they did |
| `calls`, `last`, `failed` (`SceneTasks`) | bound and history: the last call that changed something |

| Action | Code |
|---|---|
| `Dispatch` | `ToolDispatcher.execute`: `ensure_baseline`, the tool, `push_undo_step` |
| `ChatMessage`, `Report`, `RollbackNothing`, `RollbackSteps` | `TaskLedger.begin`, `report`, `rollback` with `rollback_steps` |
| `UserEdit`, `UserUndo`, `UserRedo`, `OpenFile` | the user in Blender |
| `Use` (`SceneTasks`) | a call of one of the registered tools: `Effect` of its arguments, then `Dispatch` |

A scene has objects with a kind, a parent, a pose, modifiers and roles in a rig;
data (a mesh, a light, a camera) that objects may share; materials; the active
camera; and settings.  A value is a counter of its changes, because the
properties ask whether something changed and never what it is.  A
call's arguments are an object, another object, an option, and `bad`: the first
group of arguments that is not valid.  This keeps the order of the checks,
which decides what has already been changed when one fails; values that a tool
sets one after the other are two groups, so that the first stay when a later one is bad.
Some tools take objects by names of their own (`ShotCamera`, `ShotTarget`, `AI_Sun`,
`AI_Neon`, `AI_Ground`), whoever made them.

### ReplyParser and ProviderStream

Bytes are whole characters or halves of one, characters are names.  `Decoded` is
the incremental UTF-8 decoder, `Extracted` cuts the text at the ends of lines it can be
sure of, `Processed` gathers `data:` lines into events; `FeedDelta` and
`Finalized` join the fragments of tool calls.  Each loop of the parser is a recursive function with a
step of its own (`DecodeByte`, `SplitChar`, `ProcessLine`), so that the proofs can cut it in two.

`SoundReplies` says without reads what a reply means: `Part` parses the first bytes of it at once
with a new parser, `Gathered` adds up what the first payloads say, `EndsAt` tells where the stream may end.
`RepliesAssumption` is the named assumption on the constant `Replies`, which TLC evaluates with `Streaming`.

| State | Code |
|---|---|
| `requests`, `tasks`, `cancelled`, `stopped` | submitted tasks, `_task_queue`, cancel events, `_stop_event` |
| `providers` | the provider objects made so far, with accumulator, last tool calls and the agy process |
| `worker`, `stream` | locals of `_run_loop` and of the generator it reads: which request, which provider, text so far; bytes to come, parser, payloads to handle |
| `events` | everything posted to the event queue |
| `served`, `broken`, `swapped` | history: the reply given, what was cut off, during which requests the provider was replaced |

| Action | Code |
|---|---|
| `Submit`, `Cancel`, `SwapProvider`, `Shutdown` | `submit_task`, the cancel event, `update_runtime_config`, `unregister`; main thread |
| `Take`, `Exit`, `GiveUp`, `Refuse`, `Fail`, `Complete` | `_run_loop` around the stream |
| `Connect`, `Read`, `EndOfStream`, `Payload`, `LastPayload`, `EndReply` | `stream_chat` of the HTTP providers and `__iter__` of the reply in `http_client.py` |
| `OpenCli`, `SendPrompt`, `CancelCli`, `StartTimesOut`, `Hear` | `AgyCliProvider.stream_chat` and `_spawn` |
| `CliSays`, `CliDies` | external: the agy process |

### SessionMemory

A turn is the sequence of its results, a result what `_extract_tool_message` tells
apart.  A memory keeps the names it lists; of the other sections, whether
they have a line, because the last heading before a line decides how it is parsed.
Two functions on names say what becomes of one: `Reread` is `memory.py:388`, which ends a name
at its first colon and strips quotes; `Redacted` is `sanitize_persisted_text`.

| State | Code |
|---|---|
| `summary`, `turns` | `conversation.messages`, as `partition_conversation_into_turns` divides it |
| `active` | a turn is in progress, and whether `_active_conversation_start` still fits |
| `payload` | the property `ai_sidebar_session_memory` of the scene in the .blend file |
| `absorbed`, and its copy in `payload` | history: the last verified change of each object in the turns behind a summary |

| Action | Code |
|---|---|
| `Ask` | `_start_prompt` with `_maybe_compact_context`: prune, then compact |
| `ToolResult`, `EndTurn`, `CancelTurn` | `process_event`, `_discard_active_turn_context` |
| `Save`, `Open` | `on_blend_save_pre` with `export_session_memory`, `on_blend_load_post` with `restore_session_memory` |
| `Clear` | `clear_history` |

## Runs

| Run | Module | Result | What it shows |
|---|---|---|---|
| `Approval` | `MCAgentRuntime` | passes | three prompts, queue of one, batches with a gated call in the middle, cancellation, late Stop: consent, single execution, one owner of the turn, provider used by one thread, answerable cards, next prompt starts, no illegal transition, cancel takes back exactly its turn, every turn ends, the queue drains |
| `Degraded` | `MCAgentRuntime` | passes | plans of every sort, a batch that can fail, lost images and compaction: well-formed requests, the limits on rounds and repairs |
| `Reopened` | `MCAgentRuntime` | passes | deltas, clear, load and compaction at any moment: nothing runs for an ended turn, streamed text belongs to its turn |
| `Bridge` | `MCMcpBridge` | passes | three requests, timeouts at any moment, stop, start, death and restart: the bridge implements `CallService`, an abandoned call never runs, nothing begins while stopped, the user's choices survive an override, every request is answered and the queue moves |
| `PlanOrder` | `MCPlanExecution` | passes | every way four steps can depend on each other and every defect of two steps: `PlanContract`, the order on the card is the order of execution, consent, every plan settles |
| `Ledger` | `MCTaskLedger` | passes | any tools, with the user's own edits, undo, redo and files between them: counter and undo stack agree while only recorded calls happen, and then a rollback restores the scene |
| `Tools` | `MCSceneTasks` | passes | any two calls of any tools that change something, then a rollback: the scene stays sound, no tool changes more of a shared mesh than its kind is known to, one call is one undo step, no object is lost without consent but those whose names a tool takes for its own, the rollback gives back the very scene |
| `Streaming` | `MCProviderStream` | passes | replies cut anywhere, malformed ones, cancels, a replaced provider, shutdown, broken connections, a dying process: what is posted is the reply, there is one outcome, a request settles and a cancel frees the worker |
| `Memory` | `MCSessionMemory` | passes | changes, deletions, failures and inspections with compactions, cancels, saves and opened files in any order, with names that the parser cuts and a save redacts: what a summary or a saved session says of an object agrees with its last verified change, unless another name is cut down to its name, and the deletion of an object whose name lasts is never forgotten |
| `LateCancel` | `MCAgentRuntime` | violated | `CompletedHistoryKept`: a late Stop removes the completed turn |
| `OwnSteps` | `MCTaskLedger` | violated | `OwnStepsOnly`: a rollback takes back the user's own steps made after the tool's and keeps as many of the tool's |
| `BrokenReply` | `MCProviderStream` | violated | `OnlyWholeReplies`: a connection that breaks or times out between chunks ends the reply as if it were whole |

Each violated run checks one property, quoted from the code or its documentation
in `PROJECT.json` under `findings`, with only the disturbance that matters
turned on; the passing runs leave out the disturbances named there.  In `Degraded`
a compaction happens only in the last turn: what follows when such a turn is
cancelled is in the list below.

More disagreements of these kinds are in the models and have no run of their own.

Of the runtime, each found with the property and the member of `Env` in brackets:

* A turn that compacted the conversation and is then cancelled leaves a tail that
  blocks every later prompt, as `_active_conversation_start` still counts the old
  messages (`NextPromptStarts`, `"compact"`).  This is why in `Degraded` a compaction
  happens only in the last turn.
* Calls of a batch after a `propose_plan` stay unanswered, so the next request is
  malformed (`RequestsWellFormed` with a reply of a plan and another call).
* The turn of a prompt that could not be sent is never cleared; its error event asks
  for ERROR to ERROR, which raises in the timer, and the queue waits for ever
  (`QueueDrains`, `NoIllegalTransition`, `"imageLost"`).
* A click in the sidebar answers whatever is pending when it is handled
  (`ConsentForGated`, `"sidebar"`): `ui/panel.py:44` sets no id and
  `ui/operators.py:150-155` takes the pending one, against `ARCHITECTURE.md:290`.
* Clearing the history while a card waits and then approving it sends a TOOL message
  that answers nothing (`RequestsWellFormed`, `"clear"`).
* Opening a file with a stored session drops the card and keeps the turn, so the
  queue waits (`QueueDrains`, `OneOwner`, `"load"`); it also sets the counters of rounds and
  repairs to zero in the middle of a turn (`LoopGuards`, `"load"`).

Of plans (`ConsentByArguments` in `PlanExecution`): the gate of a plan reads the static
risk of a tool (`agent/plan_review.py:99`), and the policy that of its arguments
(`agent/policy.py:99-101`), so `add_modifier` with BOOLEAN runs in a low-risk plan
without a card.

Of the tools and the ledger: a call that fails after it has changed something
pushes no step, so neither Ctrl+Z nor a rollback takes the change away
(`FailureUndoable` in `SceneTasks`; `create_primitive`, `transform_object`, `set_material`
and `set_environment` among others), against the first lines of
`undo_manager.py`.  `check_shot` is READ_ONLY and changes the samples of the render.
A rollback answers `rolled_back` when the snapshot is the old one, though
what no snapshot shows may have stayed.  Opening a file leaves the ledger with the
baseline of the old one.

Of the streams: a provider replaced while it streams loses the calls it assembled
(`agent/worker.py:171` reads them from the new one, against
`ARCHITECTURE.md:261`), which `RepliesAsSent` tolerates for requests in `swapped`.
The last event of a stream that ends without a blank line is dispatched by
`parser.close()` and then read for usage only (`agent/openai_provider.py:504-515`), so its
text is lost; the reply with CR line ends therefore closes with an empty payload.  An
`{"error": ...}` payload is ignored by both dialects.  A payload that is JSON and not an
object raises, and the worker posts the error also for a request that was
cancelled.

Of objects that share a mesh or have a name that a tool uses:

* `set_shading`, `unwrap_uv`, `set_material` and `assign_material` change the mesh of one object
  under all that use it, where the modelling tools copy it first
  (`modeling_mutator.py:83`); so does `set_environment` with a mesh called `AI_Ground`
  (`CopiesApart` in `SceneTasks`).  `SharedDataKept` therefore says, for every tool, that
  nothing but these fields changes.
* `camera_move` and `set_environment` are LOW and remove an object that has one of their names
  (`cinema_mutator.py:327-329`, `213-215`, `224-225`, `238-239`, `249-251`): a `ShotCamera` that is
  no camera, an `AI_Sun` that is no light, `AI_Neon` (for `AI_NeonA` and `AI_NeonB`) and
  `AI_Ground`, the user's own among them (`UsersObjectsKept` in `SceneTasks`).
  `LossNeedsConsent` lists them in `Taken` and says that there are no others.

Of the memory, against its own text "while preserving verified state"
(`agent/memory.py:572`); `tests/unit/test_context_compaction.py` looks at one compaction only:

* The lines of the verified scene state are not parsed again (`agent/memory.py:358`), so
  living objects are forgotten by the second compaction, or when a session is opened
  and saved.  This is why `FactsKept` asks for living objects only of the summary
  that took in their last change.
* The parser does not know the heading of the errors, so they are read as lines of the
  section before: a deletion of Cube that failed becomes a deleted object with
  the name `delete_object ('Cube')` (`Misfiled`), an error after the tasks a completed task.
* A name with a colon or a quote at its end is cut when it is parsed again
  (`agent/memory.py:388`): the deletion of `mixamorig:Hips` becomes that of `mixamorig`, so one
  deletion is forgotten and another made up; a save does the same to a name that looks like a
  credential (`agent/memory.py:594`, `616`).  `VerifiedStateKept` says that this does not happen and is violated.
  `SummaryTrue` is about the objects to whose name no other is cut down (`Unmistakable`), `FactsKept`
  about those whose name comes back whole (`Lasting`).
* Pruning turns the error of an old `capture_viewport` into "captured" and forgets
  a long error of another inspection (`PrunedResult`), and an old `inspect_scene` is remembered as of 0 objects.
* A cancelled turn takes the results of tools that ran with it, and a file without a
  session leaves the conversation of the file before in place, so the memory may
  disagree with the scene; `SummaryTrue` speaks of the turns that were absorbed.

**Bounds.**  `MaxPrompts` is 1 to 4: two turns are what it takes for events or
clicks of one turn to meet the next, the third fills the queue and lets a
compaction happen with two turns retained.  `MaxReplies` bounds the complete
replies of the model in all (2 to 4), `MaxDeltas` the deltas of a request,
`MaxQueue` is 1 so that the queue is full at the second waiting prompt, `MaxBatch` 1
or 2 so that a tick leaves events behind.  `MaxRounds` and `MaxRepairs` are the
limits of the code with small values; `Degraded` has three rounds so that the
repair limit is reached before the round limit.  After the last reply the
model can still answer with an error, so the bounds never leave a turn without
an outcome.  `CHECK_DEADLOCK FALSE` appears where the bound on prompts and
replies lets the system stop with nothing left to do, or a plan has ended.

`Bridge` has one free, one gated and one hidden request, so that two calls can be queued
while a third is refused; `MaxItems` is 1 so that a tick leaves a call behind;
one restart is enough for a setting to be written, torn and read; the three
environments override nothing, one setting or both.  `PlanOrder` has all 4096 graphs on four
steps without loops at a step, which hold every way Kahn's algorithm can stop early
or choose, two steps with every kind of tool, missing, repeated and
own names, an empty plan and one that is too long.

`Ledger` and `OwnSteps` keep three undo steps and count two: a task can fill the
stack, meet the user's steps and lose its oldest step to the limit.  `MaxSteps` is
2 because one tool, `render_shots`, records several.  `Tools` has six names and two calls: the
first scene has two objects that share a mesh, a camera and a material, the second
a character from the library and objects of the user's with names that tools take for their own:
linked copies of its part called `AI_Ground` and `ShotCamera`, a lamp `ShotTarget`, an empty `AI_Neon`.
Calls name only objects with one of the six names (the theorems let `Names` hold the others as well);
a rig or a prop needs up to five names.  With two calls every tool meets the scene that any tool leaves:
164,611 distinct states.  `UndoLimit` is Blender's 32, and `MaxPushed`
31, so that Blender drops no step, which `TaskUndone` and `OneStepRecorded` assume.

`Memory` retains one turn (the code: two) and has four prompts: a summary is parsed twice and still
followed by a turn, an object can be made, deleted and made again in turns absorbed
together or apart.  A turn has at most one result; several turns absorbed at once stand for several
results.  Three objects: one whose name lasts, one whose name a save redacts and the
parser cuts, and one that has the name that is left of the second; 2,255,804 distinct states.

`Streaming` has events of at most nine bytes (the code: a megabyte), reads of one or
five bytes so that cuts fall inside characters, between CR and LF and between events,
two requests so that what one leaves behind meets the next, and one replacement of the
provider.  The replies hold two calls in mixed fragments, an id in two parts,
a payload in two lines, a comment, the three line ends, and what is malformed:
broken JSON, a list instead of an object, a fragment without an id, half a character
at the end, an event that is too long.

**Fairness.**  `FairSpec` assumes that the timer and the worker go on.  Blender fires
a persistent timer for ever.  A request ends because the HTTP client has a
timeout; the CLI provider (`agent/agy_cli_provider.py`) has none after the prompt
is written, so a hung CLI is outside `FairSpec`.  The user owes nothing: the
liveness properties end in "or a card waits".

The bridge: a thread goes on, as its wait has a timeout; Blender fires the timer
while it is registered; a tool returns.  Nothing is assumed of the user, of
restarts or of clients.  Plans: validator, gate and executor are one program that
goes on; Approve and Reject are not assumed, so `PlanSettles` allows a card to wait.

Streams: `WF_vars(Run)`, the worker thread goes on.  A read of the socket returns or
times out, and the wait for agy polls every 0.1 seconds; a step that waits
for the process is not enabled until it speaks or dies, so nothing is assumed of it.
`RequestSettles` therefore excepts a request that waits for a silent agy, which
has no deadline after its greeting; `CancelFreesWorker` has no exception.

## Proofs

All theorems hold for every value of the constants that satisfies the named
assumptions of the component's modules.

`TypeCorrect` (`Spec => []TypeOK`).  `TypeOK` alone is not inductive: `FailTurn`
posts an error with the id of the turn, and `WorkerPost` posts what the worker
holds.  `TypeInv` adds that inside the loop over tool calls there is an active
turn, that a busy worker has a turn and that a worker about to post holds an
event.  The lemmas at the start of the module give the types of discard, fill
and compaction.

`EachCallRunsOnce` (`Spec => []RunsOnce`) has no further assumption: stale
buttons, late events, lost images and loaded files included.  `RunsOnce` says
nothing of where a call is before it runs, so it cannot be inductive.  The
strengthening `OnceInv` is custody: a call is held by the worker, or waits in the
event queue, or is in the batch the timer drained, or is left in the loop over its
reply, or is spent (executed, or shown on a card), in one of these only and once
there, and its reply is one the model has given.  Each action moves calls from
one place to the next or drops them.  Two more conjuncts make clicks safe: a
pending decision is about the call its card shows, which has not run, and no
two cards show the same call.

`GatedCallsHaveConsent` (`Spec => []ConsentForGated` if `"sidebar"` is not in
`Env`) adds `ConsentInv`: a gated call that ran is the one some approved card
showed, and no card is both approved and rejected, as the id of a card is new
when it is shown and its decision is taken away with the first answer.  The
assumption is needed: with `"sidebar"` TLC finds the property violated, see the
list above.

**The bridge.**  Its theorems hold for any set of requests of any kinds, any environments and any
limit on restarts.  `HandoverInv` is the custody of a call between two threads: a
call is in the queue once, or with the main thread, or neither; until the main
thread begins it, it has left no trace in the scene or in its box, and a box is
filled only after the call ran.  With it every step is a step of `CallService` or
a stutter.  `MarkedInv` adds that a queued call whose thread has ended is marked
"abandoned", and `GivenUp` that the mark stays for as long as the call can be taken.

**Plans.**  `PlanInv` says at each phase what is known: while sorting, that placed and ready
steps wait for nothing and the others for exactly the unplaced steps among their
dependencies (`SortInv`); after it, that the plan has the same steps and each step stands after those
it depends on (`Ordered`); when the sort stops early, the rest is a knot, a set
of steps that wait for each other, so no order exists and the refusal is right;
the second sort finds the steps in order and returns them unchanged, so the card
shows the order of execution; while running, that the results are a prefix of the plan and what failed or was
skipped explains `has_failed` (`RunInv`).  Nothing is assumed of the length of plans.

`ChoicesAreKept` rests on `ChoiceInv`: the value that `_env_replaced` keeps aside
for an overridden setting is the one the user chose, so the next save writes that.  `StoppedRunsNothing` rests on `ServerInv`: a registered timer or a
pump in progress means that the server runs.

**The active turn.**  `TextIsOwn` and `OnlyTheActiveTurnRuns` have no assumption on `Env`.
`TurnInv` says that ids grow, that no cancelled turn is or will be active, and that a
call keeps the id of its turn in the worker, the queues, the loop and on a card.

`OneOwnerAlways`, `ProviderNotShared` and `TransitionsAreLegal` assume `CalmEnv`: `compact`,
`imageLost` and `load` are not in `Env`.  The list above shows what each of
these does to a turn; `lateCancel`, `clear` and `sidebar` are allowed.  `OneOwner`
counts, over three queues of any length, the places where a turn can be.
The lemmas on `Places` say how appending, taking the head and splitting change such a
count.  `OneInv` adds what makes each hand-over exact: ids in the queues are
not above the counter (a new turn finds nothing of its own), the request of the active turn is the
last in line (so a worker that takes an older one does not drop it), and the state of
the machine tells whether a card waits.  `NoneAssumption` says that the
constant `None` is not a decision.

`LoopsAreGuarded` assumes `GuardEnv`: the history is not cleared and no file opened,
as both set counters of the active turn to zero.  Compactions, lost images and late
clicks are allowed.  `LoopGuards` looks at what ran and the code at its
counters, so `LimitInv` relates them: the calls that ran, are in the loop or wait on a
card came in at most `tool_round` replies (`Rounds`), and the failed plans that ran are
`plan_repairs`, and one more only while its failure is not yet counted (`Repairs`).
Turns that ended keep their bound, as nothing runs for them again.

**The conversation.**  `NextPromptCanStart` and `StopTakesBackTheTurn` assume `KeptEnv`: `compact`,
`clear` and `load` are not in `Env`, because each moves messages without moving
`active_start` with them (see the list above).  Lost images, late clicks and the
sidebar are allowed.  The invariant is `TailInv`: the messages before
`active_start` validate (`PrefixValid`), those of the active turn are exactly the ones
from there on (`OwnTail`), and every call belongs to the turn of its message.
`OpenCalls` is defined on positions rather than by recursion, so what
`ValidSequence` says of a longer conversation follows from what it says of the shorter
one without induction: appending a message opens or answers its own calls and no others.

`OnlyALateStopLosesHistory` proves what the run `LateCancel` refutes, with
that one disturbance left out: the late Stop is the only step that takes a completed
turn away.

`RequestsAreWellFormed` and `DecisionsAreAnswerable` assume `SteadyEnv`, that is `KeptEnv` and
`CalmEnv`: they need one owner of the turn, or a second one would ask
again in the middle of a batch.  `ShapeInv` says what the end of the conversation looks like
while the loop or a card works: the reply with its batch, the answers to the calls already
handled, and the rest of the batch open, in order (`OwnBatch`); the first of the rest is
the one on the card.  When neither works, the conversation validates (`Settled`).
`RequestsAreWellFormed` assumes also `PlansLast`, as the calls after a plan stay unanswered;
`CardsFresh` adds for `DecisionsAreAnswerable` that no decision was taken on a waiting card.

**The ledger.**  `Typed`, `Counter` and `Restores` hold for any scenes, any snapshot and any
limit on undo.  `TypeOK` bounds steps taken and to be redone together, because a redo must
not overflow the stack.  `IInv` adds to `CounterAgrees` that a clean task has a
window.  `TaskBegins` says what holds when a call finds a task open or opens one;
after that a call adds as many steps on top as it counts.

**The streams.**  `Outcome` (`Spec => []OneOutcome`): a request is in the queue, with the
worker or over (`OnePlace`), and the worker posts its outcome with the step that
lets it go (`Shape`), for any replies, sizes of a read and kinds of provider.

`AsSent` (`Spec => []RepliesAsSent`) holds for any replies, limits, sizes of a read and
numbers of requests and replacements.  What a reply says has to be assumed, as the
property compares with it: `RepliesAssumption` says that a sound reply is whole,
takes no read over the limit of the buffer and, wherever it ends, is complete and says its text and
calls; an unsound one is nowhere complete.  This is about the bytes parsed in one piece, by a
new parser, into an empty accumulator.  The theorem is that the code, which reads them
in pieces, with a decoder, a buffer and an event left over from each, and with what an earlier request left
behind, posts the same.

The work is in the parser.  Decoding, splitting and handling of lines are each cut in two
(`DecodedBoth`, `Continues`, `HeardBoth`): what a loop does with `a \o b` is what it does with
`b` where it stopped after `a`.  For lines this is false as it stands, because a CR at the end of `a` may
be half of a line end; `Waiting` holds it back and with it the lemma is true.  The three together
say that a read of `m` bytes after `n` takes `Part(reply, n)` to `Part(reply, n + m)`.

`RInv` says, at each place of the worker, how its state relates to the reply: while it reads,
stream, text and fragments are what `n` bytes in one piece and `k` payloads give, for some
`n` and `k` (`Followed`); when it has finished, text and calls are the reply's (`Finished`).
`RepliesAsSent` alone is not inductive: it says nothing of a stream that is half read, of calls
that wait in a provider, nor of an answer that waits in a pipe.  Hence `Provided` (the worker's provider is the
last one, or was replaced and the last has no calls), `Mailed` and `Asked` (the result of agy is
the last thing it says, only while the worker waits for it, and for the request that was
written), `Counted` (nothing was served to what still waits) and `AllSent`, the property with the
lost connections kept apart.

**The memory.**  `SummariesAreTrue` and `FactsAreKept` hold for any objects, any number of turns, results and
retained turns, and for whatever the parser and the redaction make of names (`Reread`, `Redacted`).
`SummaryTrue` is about the objects to whose name no other name is cut down, `FactsKept` about those
whose own name comes back whole; for others the code breaks both (`VerifiedStateKept`).  Both properties together are inductive (`MemoryInv`, with the types); the work is in
`MemoryTells`: of every object, the fold over the turns tells the kind of its last
change, while the history `After` finds that change by its position.  The library's
induction theorems cannot be used here, as they take an operator; `CountUp` is induction over a set of
numbers instead, from the well-foundedness of `<`, and `FoldExists` gives a function for a recursive definition.
`NoneAssumption` says that the constant `None` is not a memory.

**The tools.**  The five theorems about the 55 tools hold for any finite set of names, any number of
calls, valid or not, any scenes to begin with and any mixture of calls and rollbacks.
`ScenesAssumption` says what a Blender scene is: each item has its fields (`Formed`),
what it names is there and objects that share data are of one kind (`Referred`), and the
objects can be ranked with each above its children (`Ranked`).  TLC evaluates it on
the scenes of the run.  A rank says without
recursion that nothing hangs under itself: a tool that hangs objects gets a new rank
from the old one.  `WalkUp` and `AboveStep` relate it to `Above`, the walk up to the root
that the tools make and `SceneSound` asks about, at any depth.

`SceneStaysSound` (`SceneSound`): `TaskInv` says that the scene is sound and so is every
scene in the undo stack, which a rollback can bring back.  `Good` says what a
call does whatever its arguments: it ends in a sound scene, loses only the
objects and changes only the shared fields its tool may (`Keeps`, `Spares`), and records its result once, nothing when it
fails, or nothing when it changed only the samples of a render.  Each tool has a lemma
that says so, resting on those of its mutators: an object comes (`Gains`), goes, gets a
parent, changes in place (`Alike`).  `Film` is the same for `render_shots`, which records
a step for each shot.  `LossAsksFirst` (`LossNeedsConsent`) follows from what `Keeps` says of each tool.  It is about every
object, the user's too, and says which a call without a card may remove: a mesh that was merged, and
what `Taken` lists for `camera_move`, `set_environment` and `render_shots`.

`TaskUndone` (`TaskRollsBack`) and `OneStepRecorded` (`OneStepEach`) assume
`MaxPushed < UndoLimit`: Blender has dropped no step yet.  `Accounts` says that the undo stack
then holds the opened file and each step that was counted, that the last one shows the
scene and the one below the steps of the task shows its baseline, as long as no
call failed.  Without the assumption a task longer than Blender's limit cannot be taken back at all.

`SharedStaysAlone` (`SharedDataKept`) is about every tool: a mesh that two objects use before and after
a call keeps all its fields, but those that `Reached` lists: the surface for `set_shading` and `unwrap_uv`,
the material slot for `set_material` and `assign_material`, a mesh called `AI_Ground` for `set_environment` and
`render_shots`.  `Leaves` says so for a scene and its successor, and that no two objects share
what they did not share before (`scatter`, which makes them share, has a lemma of its own).  `Apart`
adds that who was alone with its data stays so, and with it composes along the mutators of a call:
`_unique_mesh` leaves its object alone with its data, and what is done to that
data disturbs no other object.

**Only model-checked.**  A listed theorem states each invariant of the passing runs and each of their action
properties, some under the named restrictions above.  `RepliesAssumption` is evaluated on the replies of
`Streaming`; that a text with its calls, encoded by a server, gives such bytes is outside the repository.
The runtime's conversation with compactions, cleared histories and opened files stays with
the runs `Degraded` and `Reopened`.  Liveness (`EveryRequestAnswered`, `QueueMoves`,
`TurnEnds`, `QueueDrains`, `PlanSettles`, `RequestSettles`, `CancelFreesWorker`) is proved
nowhere, as under fairness it needs `ENABLED`.

## Not modelled

Texts, layout, metrics, the UI history and its copy to the panel, the redaction of secrets other
than in names of a saved session, a damaged one, the verification after a tool, the numbers that go into
a mesh, a material or a sound, the files that are written, how a conversation is
mapped to the request of a provider, embeddings and vision probes, a restart of the
worker thread, a change of model inside the same agy provider, and the components marked
`not_modelled` in `PROJECT.json`.  The calculations of geometry, motion, cameras
and sound are over floating-point numbers and out of TLC's reach.

## Plan

1. `ChatConversation`, `AgentRuntime` and their proofs (done).
2. Safety of the gate for all parameters: `RunsOnce` and `ConsentForGated` (done).
3. `McpBridge` with the abstract `CallService` (done).
4. `PlanExecution` with the abstract `PlanContract` (done).
5. `TaskLedger` with the undo stack shared with the user, and the tools above it (done).
6. `ReplyParser` and `ProviderStream`: parsing, assembling, worker, agy process (done).
7. The active turn for all parameters: `OneOwner` and what follows from it (done).
8. `LoopGuards`, `DecisionAnswerable` and the conversation for all parameters (done).
9. `TurnLifecycle`: abstract turns and queue (start, wait for the user, end), which
   `AgentRuntime` implements.
10. `SessionMemory`: rolling memory and sessions, with proofs (done).
11. The tools for all parameters: sound scenes, consent, rollback, shared data (done).
12. `RepliesAsSent` for all replies: loops cut in two, `SoundReplies` (done).
13. The history's eviction against the incremental copy of the panel; the verdicts of the verifier.
