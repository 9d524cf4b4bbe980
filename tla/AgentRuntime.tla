----------------------------- MODULE AgentRuntime -----------------------------
(***************************************************************************)
(* The agent loop of the add-on: AgentRuntime (agent/runtime.py) on        *)
(* Blender's main thread, AgentWorker (agent/worker.py) on its own thread, *)
(* the thread-safe event queue between them, the timer that drains it      *)
(* (ui/timer_bridge.py), the prompt queue, and the user's operators.       *)
(*                                                                         *)
(* Blender's main thread runs one callback at a time, so everything the    *)
(* runtime does is atomic with respect to the user's operators, except     *)
(* that the events of one tick are handled one by one while the worker     *)
(* goes on.  `phase' says what the main thread is doing: "free" (between   *)
(* callbacks, the user may act), "tick" (handling the drained events) or   *)
(* "tools" (inside process_event, looping over the calls of a reply).      *)
(*                                                                         *)
(* Left out: texts, the UI history, metrics, notification events that      *)
(* process_event ignores, and what a tool does to the scene (a tool        *)
(* succeeds or fails).                                                     *)
(***************************************************************************)
EXTENDS ChatConversation

CONSTANTS
  Replies,        \* the replies of the model: sequences of call kinds
  MaxPrompts,     \* bound: prompts the user submits
  MaxReplies,     \* bound: complete replies of the model in all
  MaxDeltas,      \* bound: text deltas per request
  MaxQueue,       \* PromptQueue.maxsize
  MaxBatch,       \* TimerBridge.max_events_per_tick
  MaxRounds,      \* max_tool_rounds
  MaxRepairs,     \* max_plan_repairs
  Retained,       \* RETAINED_TURNS_COUNT
  ContinueOnFailure,  \* continue_on_tool_failure
  Env,            \* what else may happen, a subset of Disturbances
  None

\* compact: old turns exceed the size limit.  imageLost: a screenshot left the
\* cache.  clear: the user clears the history.  load: a .blend file with a
\* stored session is opened.  lateCancel: Stop is clicked in the viewport when
\* the turn has just ended and the button has not been redrawn yet.  sidebar:
\* the buttons of the sidebar panel are used too.
Disturbances == {"compact", "imageLost", "clear", "load", "lateCancel", "sidebar"}

ASSUME RepliesAssumption == Replies \subseteq Seq(Kinds)
ASSUME BoundsAssumption ==
  /\ MaxPrompts \in Nat /\ MaxReplies \in Nat /\ MaxDeltas \in Nat
  /\ MaxQueue \in Nat \ {0} /\ MaxBatch \in Nat \ {0}
  /\ MaxRounds \in Nat /\ MaxRepairs \in Nat /\ Retained \in Nat \ {0}
ASSUME FlagsAssumption == ContinueOnFailure \in BOOLEAN /\ Env \subseteq Disturbances

VARIABLES
  state,             \* AgentStateMachine.current_state
  turn,              \* _current_turn_id, 0 for None
  turn_counter,      \* _turn_counter
  conversation,      \* the Conversation
  active_start,      \* _active_conversation_start
  tool_round,        \* _current_tool_round
  plan_repairs,      \* _current_plan_repairs
  plan_failed,       \* _current_tool_results has a PLAN_EXECUTION_FAILED
  streaming,         \* turns whose deltas are in _streaming_text
  pending_approval,  \* PendingApproval or None
  pending_plan,      \* PlanReview awaiting the user, or None
  consumed_tokens,   \* _consumed_plan_tokens
  cancelled,         \* turns whose cancel_event is set
  prompt_queue,      \* prompts waiting behind the active turn
  event_queue,       \* ThreadSafeEventQueue
  task_queue,        \* AgentWorker._task_queue
  worker,            \* the worker thread
  phase, batch, calls,  \* main thread: where it is, drained events, calls left
  submitted,         \* history: prompts the user sent
  asked,             \* history: complete replies so far
  ran,               \* history: calls executed, in order, with the outcome
  cards,             \* history: call shown on the approval card with each id
  approved, rejected \* history: cards the user saw when approving or rejecting

lifecycle == <<state, turn, turn_counter>>
loop == <<tool_round, plan_repairs, plan_failed>>
gate == <<pending_approval, pending_plan, consumed_tokens>>
main == <<phase, batch, calls>>
history == <<ran, cards, approved, rejected>>
vars == <<lifecycle, conversation, active_start, loop, streaming, gate, cancelled,
          prompt_queue, event_queue, task_queue, worker, main, submitted, asked, history>>

States == {"IDLE", "PROCESSING", "PENDING_APPROVAL", "EXECUTING_TOOL", "ERROR"}
Ids == Nat \ {0}
Pending == [id : Ids, turn : Ids, call : Call]
ASSUME NoneAssumption == None \notin Pending
Event == [kind : {"delta", "response", "error"}, turn : Ids, calls : Seq(Call)]
Task == [turn : Ids, valid : BOOLEAN]
Run == [call : Call, ok : BOOLEAN]
Worker == [pc : {"idle", "busy", "post"}, turn : Nat, deltas : Nat, event : Event \cup {None}]

TypeOK ==
  /\ state \in States /\ turn \in Nat /\ turn_counter \in Nat
  /\ conversation \in Seq(Message)
  /\ active_start \in Nat \cup {NoStart}
  /\ tool_round \in Nat /\ plan_repairs \in Nat /\ plan_failed \in BOOLEAN
  /\ streaming \subseteq Ids
  /\ pending_approval \in Pending \cup {None}
  /\ pending_plan \in Pending \cup {None}
  /\ consumed_tokens \subseteq Ids
  /\ cancelled \subseteq Ids
  /\ prompt_queue \in Seq(Ids)
  /\ event_queue \in Seq(Event)
  /\ task_queue \in Seq(Task)
  /\ worker \in Worker
  /\ phase \in {"free", "tick", "tools"}
  /\ batch \in Seq(Event) /\ calls \in Seq(Call)
  /\ submitted \in Nat /\ asked \in Nat
  /\ ran \in Seq(Run) /\ cards \in Seq(Call)
  /\ approved \subseteq Ids /\ rejected \subseteq Ids

IdleWorker == [pc |-> "idle", turn |-> 0, deltas |-> 0, event |-> None]

Init ==
  /\ state = "IDLE" /\ turn = 0 /\ turn_counter = 0
  /\ conversation = <<>> /\ active_start = NoStart
  /\ tool_round = 0 /\ plan_repairs = 0 /\ plan_failed = FALSE
  /\ streaming = {}
  /\ pending_approval = None /\ pending_plan = None /\ consumed_tokens = {}
  /\ cancelled = {}
  /\ prompt_queue = <<>> /\ event_queue = <<>> /\ task_queue = <<>>
  /\ worker = IdleWorker
  /\ phase = "free" /\ batch = <<>> /\ calls = <<>>
  /\ submitted = 0 /\ asked = 0
  /\ ran = <<>> /\ cards = <<>> /\ approved = {} /\ rejected = {}

-----------------------------------------------------------------------------
(* Pieces shared by the handlers *)

\* Mutant of Allowed: a request that fails is not a legal end of a turn.
Allowed_NoFailure(from) ==
  CASE from = "IDLE" -> {"PROCESSING"}
    [] from = "PROCESSING" -> {"EXECUTING_TOOL", "PENDING_APPROVAL", "IDLE"}
    [] from = "PENDING_APPROVAL" -> {"EXECUTING_TOOL", "PROCESSING", "IDLE", "ERROR"}
    [] from = "EXECUTING_TOOL" -> {"PROCESSING", "ERROR"}
    [] OTHER -> {"IDLE"}

\* AgentStateMachine._ALLOWED_TRANSITIONS
Allowed(from) ==
  CASE from = "IDLE" -> {"PROCESSING"}
    [] from = "PROCESSING" -> {"EXECUTING_TOOL", "PENDING_APPROVAL", "IDLE", "ERROR"}
    [] from = "PENDING_APPROVAL" -> {"EXECUTING_TOOL", "PROCESSING", "IDLE", "ERROR"}
    [] from = "EXECUTING_TOOL" -> {"PROCESSING", "ERROR"}
    [] OTHER -> {"IDLE"}

Busy == state \in {"PROCESSING", "EXECUTING_TOOL", "PENDING_APPROVAL"}

DeltaEvent(t) == [kind |-> "delta", turn |-> t, calls |-> <<>>]
ReplyEvent(t, cs) == [kind |-> "response", turn |-> t, calls |-> cs]
ErrorEvent(t) == [kind |-> "error", turn |-> t, calls |-> <<>>]

\* Mutant of FailTurn: _current_turn_id is not reset.
FailTurn_KeepsTurn ==
  /\ state' = "ERROR" /\ turn' = turn
  /\ event_queue' = Append(event_queue, ErrorEvent(turn))
  /\ UNCHANGED task_queue

\* The turn ends in ERROR; its own AgentErrorEvent will arrive as a stale one.
FailTurn ==
  /\ state' = "ERROR" /\ turn' = 0
  /\ event_queue' = Append(event_queue, ErrorEvent(turn))
  /\ UNCHANGED task_queue

HasImage(msgs) == \E i \in DOMAIN msgs : msgs[i].role = "TOOL"

\* Mutant of SendRequest: the task is submitted twice.
SendRequest_Twice(conv) ==
  /\ state' = "PROCESSING" /\ turn' = turn
  /\ LET task == [turn |-> turn, valid |-> ValidSequence(conv)]
     IN  task_queue' = task_queue \o <<task, task>>
  /\ UNCHANGED event_queue

\* ContextBuilder.build on conv, then worker.submit_task; the build fails when
\* an image of the conversation is gone.
SendRequest(conv) ==
  \/ /\ state' = "PROCESSING" /\ turn' = turn
     /\ task_queue' = Append(task_queue, [turn |-> turn, valid |-> ValidSequence(conv)])
     /\ UNCHANGED event_queue
  \/ "imageLost" \in Env /\ HasImage(conv) /\ FailTurn

\* Mutant of Validates: the conversation is not checked before a new prompt.
Validates_Unchecked == TRUE

\* The check of _start_prompt before it records the prompt.
Validates == ValidSequence(conversation)

\* _start_prompt.  It raises when the conversation is broken and nothing can be
\* discarded, and when the compacted conversation does not validate; the first
\* leaves the runtime as it was, the second leaves the new turn half started.
StartPrompt ==
  LET kept == IF Validates THEN conversation ELSE Discard(conversation, active_start)
      t == turn_counter + 1
      asking == Append(kept, UserMsg(t))
      Begin(msgs) ==
        /\ turn' = t /\ turn_counter' = t
        /\ conversation' = msgs /\ active_start' = Len(kept)
        /\ tool_round' = 0 /\ plan_repairs' = 0 /\ plan_failed' = FALSE
        /\ streaming' = {}
      Compacts(k) == "compact" \in Env /\ StartsRetained(asking, Retained, k)
      Send(msgs) ==
        /\ Begin(msgs)
        /\ \/ /\ state' = "PROCESSING"
              /\ task_queue' = Append(task_queue, [turn |-> t, valid |-> ValidSequence(msgs)])
              /\ UNCHANGED event_queue
           \/ /\ "imageLost" \in Env /\ HasImage(msgs)
              /\ state' = "ERROR"
              /\ event_queue' = Append(event_queue, ErrorEvent(t))
              /\ UNCHANGED task_queue
  IN  /\ \/ /\ ~Validates /\ active_start = NoStart
            /\ state' = "IDLE"
            /\ UNCHANGED <<turn, turn_counter, conversation, active_start, loop, streaming,
                           event_queue, task_queue>>
         \/ /\ Validates \/ active_start # NoStart
            /\ \/ Send(asking)
               \/ \E k \in ClusterStarts(asking) :
                    /\ Compacts(k)
                    /\ \/ ValidSequence(CompactFrom(asking, k)) /\ Send(CompactFrom(asking, k))
                       \/ /\ ~ValidSequence(asking)
                          /\ Begin(asking)
                          /\ state' = "IDLE"
                          /\ UNCHANGED <<event_queue, task_queue>>
      /\ UNCHANGED <<gate, cancelled, worker, asked, history>>

-----------------------------------------------------------------------------
(* The user, between two callbacks of the main thread *)

\* submit_prompt: queue behind an active turn (a full queue refuses), or start.
SubmitPrompt ==
  /\ phase = "free" /\ submitted < MaxPrompts
  /\ submitted' = submitted + 1
  /\ UNCHANGED main
  /\ IF turn # 0 \/ Busy
       THEN /\ prompt_queue' = IF Len(prompt_queue) < MaxQueue
                                 THEN Append(prompt_queue, submitted + 1) ELSE prompt_queue
            /\ UNCHANGED <<lifecycle, conversation, active_start, loop, streaming, gate,
                           cancelled, event_queue, task_queue, worker, asked, history>>
       ELSE StartPrompt /\ UNCHANGED prompt_queue

\* Mutant of CancelTurn: the pending decision survives.
CancelTurn_KeepsPending ==
  /\ phase = "free"
  /\ turn = 0 => "lateCancel" \in Env
  /\ plan_repairs' = 0
  /\ conversation' = Discard(conversation, active_start) /\ active_start' = NoStart
  /\ cancelled' = cancelled \cup ({turn} \ {0})
  /\ turn' = 0
  /\ state' = IF turn # 0 THEN "IDLE" ELSE state
  /\ UNCHANGED <<turn_counter, tool_round, plan_failed, streaming, gate,
                 prompt_queue, event_queue, task_queue, worker, main, submitted, asked, history>>

\* Mutant of CancelTurn: the start of the turn is forgotten before the discard.
CancelTurn_ForgetsStart ==
  /\ phase = "free"
  /\ turn = 0 => "lateCancel" \in Env
  /\ pending_approval' = None /\ pending_plan' = None /\ plan_repairs' = 0
  /\ active_start' = NoStart
  /\ cancelled' = cancelled \cup ({turn} \ {0})
  /\ turn' = 0
  /\ state' = IF turn # 0 THEN "IDLE" ELSE state
  /\ UNCHANGED <<conversation, turn_counter, tool_round, plan_failed, streaming, consumed_tokens,
                 prompt_queue, event_queue, task_queue, worker, main, submitted, asked, history>>

\* cancel_current_turn
CancelTurn ==
  /\ phase = "free"
  /\ turn = 0 => "lateCancel" \in Env
  /\ pending_approval' = None /\ pending_plan' = None /\ plan_repairs' = 0
  /\ conversation' = Discard(conversation, active_start) /\ active_start' = NoStart
  /\ cancelled' = cancelled \cup ({turn} \ {0})
  /\ turn' = 0
  /\ state' = IF turn # 0 THEN "IDLE" ELSE state
  /\ UNCHANGED <<turn_counter, tool_round, plan_failed, streaming, consumed_tokens,
                 prompt_queue, event_queue, task_queue, worker, main, submitted, asked, history>>

\* clear_history
ClearHistory ==
  /\ phase = "free" /\ "clear" \in Env
  /\ conversation' = <<>> /\ plan_repairs' = 0 /\ prompt_queue' = <<>>
  /\ UNCHANGED <<lifecycle, active_start, tool_round, plan_failed, streaming, gate, cancelled,
                 event_queue, task_queue, worker, main, submitted, asked, history>>

\* on_blend_load_post, restore_session_memory
LoadSession ==
  /\ phase = "free" /\ "load" \in Env
  /\ conversation' = <<SystemMsg>> \o SummaryMsgs /\ active_start' = NoStart
  /\ pending_approval' = None /\ pending_plan' = None
  /\ tool_round' = 0 /\ plan_repairs' = 0 /\ plan_failed' = FALSE /\ streaming' = {}
  /\ UNCHANGED <<lifecycle, consumed_tokens, cancelled, prompt_queue, event_queue, task_queue,
                 worker, main, submitted, asked, history>>

\* The user sees card `seen' and clicks; the operator answers decision `id'.  The
\* card in the viewport passes its own id, the sidebar buttons pass none and the
\* operator takes the id of whatever is pending when the click is handled.
Reaches(seen, id) ==
  \/ id = seen
  \/ "sidebar" \in Env /\ \E p \in {pending_approval, pending_plan} \ {None} : p.id = id

\* Mutant of Answers: the id of the card is not compared.
Answers_AnyId(id, pending) ==
  /\ phase = "free"
  /\ state = "PENDING_APPROVAL"
  /\ pending # None
  /\ pending.turn = turn
  /\ turn \notin cancelled

\* The runtime accepts an answer, possibly to an old card, only for the pending
\* decision of the active turn.
Answers(id, pending) ==
  /\ phase = "free"
  /\ state = "PENDING_APPROVAL"
  /\ pending # None
  /\ pending.id = id
  /\ pending.turn = turn
  /\ turn \notin cancelled

\* The decision is answered with a TOOL message, the calls after it are filled
\* in, and the model is asked again.
FillAndContinue(conv) ==
  \E i \in 0..Len(conv) :
    /\ IsLastAsk(conv, i)
    /\ conversation' = FillFrom(conv, i)
    /\ SendRequest(conversation')

\* approve
Approve(id, seen) ==
  /\ Answers(id, pending_approval)
  /\ pending_approval' = None
  /\ approved' = approved \cup {seen}
  /\ \E ok \in BOOLEAN :
       LET answered == Append(conversation, ToolMsg(pending_approval.call))
       IN  /\ ran' = Append(ran, [call |-> pending_approval.call, ok |-> ok])
           /\ IF ~ok /\ ~ContinueOnFailure
                THEN conversation' = answered /\ FailTurn
                ELSE FillAndContinue(answered)
  /\ UNCHANGED <<turn_counter, active_start, loop, streaming, pending_plan, consumed_tokens,
                 cancelled, prompt_queue, worker, main, submitted, asked, cards, rejected>>

\* reject
Reject(id, seen) ==
  /\ Answers(id, pending_approval)
  /\ pending_approval' = None
  /\ rejected' = rejected \cup {seen}
  /\ FillAndContinue(Append(conversation, ToolMsg(pending_approval.call)))
  /\ UNCHANGED <<turn_counter, active_start, loop, streaming, pending_plan, consumed_tokens,
                 cancelled, prompt_queue, worker, main, submitted, asked, ran, cards, approved>>

\* _execute_approved_plan and the rest of approve_plan: the plan runs once and
\* is answered; calls after propose_plan stay unanswered.
ExecutePlan(id, call) ==
  /\ consumed_tokens' = consumed_tokens \cup {id}
  /\ \E ok \in BOOLEAN :
       /\ ran' = Append(ran, [call |-> call, ok |-> ok])
       /\ plan_failed' = (plan_failed \/ ~ok)

\* approve_plan
ApprovePlan(id, seen) ==
  /\ Answers(id, pending_plan)
  /\ id \notin consumed_tokens
  /\ pending_plan' = None
  /\ approved' = approved \cup {seen}
  /\ ExecutePlan(id, pending_plan.call)
  /\ conversation' = Append(conversation, ToolMsg(pending_plan.call))
  /\ SendRequest(conversation')
  /\ UNCHANGED <<turn_counter, active_start, tool_round, plan_repairs, streaming,
                 pending_approval, cancelled, prompt_queue, worker, main, submitted, asked,
                 cards, rejected>>

\* reject_plan
RejectPlan(id, seen) ==
  /\ Answers(id, pending_plan)
  /\ id \notin consumed_tokens
  /\ pending_plan' = None
  /\ consumed_tokens' = consumed_tokens \cup {id}
  /\ rejected' = rejected \cup {seen}
  /\ conversation' = Append(conversation, ToolMsg(pending_plan.call))
  /\ SendRequest(conversation')
  /\ UNCHANGED <<turn_counter, active_start, loop, streaming, pending_approval, cancelled,
                 prompt_queue, worker, main, submitted, asked, ran, cards, approved>>

-----------------------------------------------------------------------------
(* TimerBridge.tick: drain, handle every event, start a queued prompt *)

\* Mutant of CanPump: the queue waits for IDLE, which ERROR never becomes.
CanPump_IdleOnly == turn = 0 /\ state = "IDLE" /\ prompt_queue # <<>>

CanPump == turn = 0 /\ ~Busy /\ prompt_queue # <<>>

\* Mutant of BeginTick: the drained events stay in the queue.
BeginTick_Peek ==
  /\ phase = "free"
  /\ event_queue # <<>> \/ CanPump
  /\ \E n \in 0..Len(event_queue) :
       /\ n <= MaxBatch
       /\ event_queue # <<>> => n > 0
       /\ batch' = SubSeq(event_queue, 1, n)
  /\ phase' = "tick"
  /\ UNCHANGED <<lifecycle, conversation, active_start, loop, streaming, gate, cancelled,
                 prompt_queue, event_queue, task_queue, worker, calls, submitted, asked, history>>

\* drain_batch: the oldest events, as many as the limits allow.  A tick with
\* nothing to do changes nothing and is left out.
BeginTick ==
  /\ phase = "free"
  /\ event_queue # <<>> \/ CanPump
  /\ \E n \in 0..Len(event_queue) :
       /\ n <= MaxBatch
       /\ event_queue # <<>> => n > 0
       /\ batch' = SubSeq(event_queue, 1, n)
       /\ event_queue' = SubSeq(event_queue, n + 1, Len(event_queue))
  /\ phase' = "tick"
  /\ UNCHANGED <<lifecycle, conversation, active_start, loop, streaming, gate, cancelled,
                 prompt_queue, task_queue, worker, calls, submitted, asked, history>>

\* pump_prompt_queue; an exception of the start is caught there.
EndTick ==
  /\ phase = "tick" /\ batch = <<>>
  /\ phase' = "free"
  /\ UNCHANGED <<batch, calls, submitted>>
  /\ IF CanPump
       THEN prompt_queue' = Tail(prompt_queue) /\ StartPrompt
       ELSE UNCHANGED <<lifecycle, conversation, active_start, loop, streaming, gate, cancelled,
                        prompt_queue, event_queue, task_queue, worker, asked, history>>

\* Mutant of Handling: stale events are handled too.
Handling_Stale(kind) == phase = "tick" /\ batch # <<>> /\ Head(batch).kind = kind

\* The next event of the batch is of this kind and belongs to the active turn.
Handling(kind) ==
  phase = "tick" /\ batch # <<>> /\ Head(batch).kind = kind /\ Head(batch).turn = turn

DropStaleEvent ==
  /\ phase = "tick" /\ batch # <<>>
  /\ Head(batch).turn # turn
  /\ batch' = Tail(batch)
  /\ UNCHANGED <<lifecycle, conversation, active_start, loop, streaming, gate, cancelled,
                 prompt_queue, event_queue, task_queue, worker, phase, calls, submitted, asked,
                 history>>

HandleDelta ==
  /\ Handling("delta")
  /\ streaming' = streaming \cup {Head(batch).turn}
  /\ batch' = Tail(batch)
  /\ UNCHANGED <<lifecycle, conversation, active_start, loop, gate, cancelled, prompt_queue,
                 event_queue, task_queue, worker, phase, calls, submitted, asked, history>>

\* AGENT_ERROR
HandleError ==
  /\ Handling("error")
  /\ "ERROR" \in Allowed(state)
  /\ state' = "ERROR" /\ turn' = 0
  /\ batch' = Tail(batch)
  /\ UNCHANGED <<turn_counter, conversation, active_start, loop, streaming, gate, cancelled,
                 prompt_queue, event_queue, task_queue, worker, phase, calls, submitted, asked,
                 history>>

\* transition_to raises, the exception leaves tick, and the events drained with
\* this one are gone; the queue is not pumped.
IllegalTransition ==
  /\ Handling("error")
  /\ "ERROR" \notin Allowed(state)
  /\ phase' = "free" /\ batch' = <<>>
  /\ UNCHANGED <<lifecycle, conversation, active_start, loop, streaming, gate, cancelled,
                 prompt_queue, event_queue, task_queue, worker, calls, submitted, asked, history>>

\* PROVIDER_RESPONSE_READY without tool calls: the turn is complete.
HandleFinalReply ==
  /\ Handling("response") /\ turn \notin cancelled
  /\ Head(batch).calls = <<>>
  /\ "IDLE" \in Allowed(state)
  /\ state' = "IDLE" /\ turn' = 0
  /\ conversation' = Append(conversation, AssistantMsg(turn, <<>>))
  /\ streaming' = {}
  /\ batch' = Tail(batch)
  /\ UNCHANGED <<turn_counter, active_start, loop, gate, cancelled, prompt_queue, event_queue,
                 task_queue, worker, phase, calls, submitted, asked, history>>

\* PROVIDER_RESPONSE_READY with tool calls: count the round, then either stop
\* at the limit or record the message and enter the loop over the calls.
HandleToolReply ==
  /\ Handling("response") /\ turn \notin cancelled
  /\ Head(batch).calls # <<>>
  /\ tool_round' = tool_round + 1
  /\ batch' = Tail(batch)
  /\ IF tool_round' > MaxRounds
       THEN /\ "ERROR" \in Allowed(state)
            /\ FailTurn
            /\ UNCHANGED <<conversation, streaming, phase, calls>>
       ELSE /\ "EXECUTING_TOOL" \in Allowed(state)
            /\ conversation' = Append(conversation, AssistantMsg(turn, Head(batch).calls))
            /\ streaming' = {}
            /\ phase' = "tools" /\ calls' = Head(batch).calls
            /\ UNCHANGED <<state, turn, event_queue, task_queue>>
  /\ UNCHANGED <<turn_counter, active_start, plan_repairs, plan_failed, gate, cancelled,
                 prompt_queue, worker, submitted, asked, history>>

-----------------------------------------------------------------------------
(* process_event, the loop over the calls of a reply *)

\* The loop is left: process_event returns to the tick.
LeaveLoop == phase' = "tick" /\ calls' = <<>>

\* A call the policy approves by itself runs at once.
RunCall ==
  /\ phase = "tools" /\ calls # <<>> /\ Head(calls).kind = "auto"
  /\ "EXECUTING_TOOL" \in Allowed(state)
  /\ conversation' = Append(conversation, ToolMsg(Head(calls)))
  /\ \E ok \in BOOLEAN :
       /\ ran' = Append(ran, [call |-> Head(calls), ok |-> ok])
       /\ IF ~ok /\ ~ContinueOnFailure
            THEN FailTurn /\ LeaveLoop
            ELSE /\ state' = "PROCESSING" /\ calls' = Tail(calls)
                 /\ UNCHANGED <<turn, event_queue, task_queue, phase>>
  /\ UNCHANGED <<turn_counter, active_start, loop, streaming, gate, cancelled, prompt_queue,
                 worker, batch, submitted, asked, cards, approved, rejected>>

\* A card with a fresh id is shown for the call.
ShowCard(call) ==
  /\ state' = "PENDING_APPROVAL"
  /\ cards' = Append(cards, call)

\* Mutant of Decision: the id is the previous one.
Decision_OldId(call) == [id |-> Len(cards), turn |-> turn, call |-> call]

Decision(call) == [id |-> Len(cards) + 1, turn |-> turn, call |-> call]

\* A call that needs the user ends the loop.
AskUser ==
  /\ phase = "tools" /\ calls # <<>> /\ Head(calls).kind = "gated"
  /\ "PENDING_APPROVAL" \in Allowed(state)
  /\ pending_approval' = Decision(Head(calls))
  /\ ShowCard(Head(calls))
  /\ LeaveLoop
  /\ UNCHANGED <<turn, turn_counter, conversation, active_start, loop, streaming, pending_plan,
                 consumed_tokens, cancelled, prompt_queue, event_queue, task_queue, worker,
                 batch, submitted, asked, ran, approved, rejected>>

\* Mutant of RepairsExhausted: one repair too many.
RepairsExhausted_OffByOne == plan_failed /\ plan_repairs > MaxRepairs

\* propose_plan after a failed plan of this turn is a repair; _is_repair_proposal.
RepairsExhausted == plan_failed /\ plan_repairs >= MaxRepairs
CountRepair == plan_repairs' = IF plan_failed THEN plan_repairs + 1 ELSE plan_repairs

\* No repair left, or the plan does not validate: answered, and the turn ends.
RefusePlan ==
  /\ phase = "tools" /\ calls # <<>> /\ Head(calls).kind \in PlanKinds
  /\ IF RepairsExhausted THEN UNCHANGED plan_repairs
     ELSE Head(calls).kind = "badPlan" /\ CountRepair
  /\ conversation' = Append(conversation, ToolMsg(Head(calls)))
  /\ FailTurn
  /\ LeaveLoop
  /\ UNCHANGED <<turn_counter, active_start, tool_round, plan_failed, streaming, gate, cancelled,
                 prompt_queue, worker, batch, submitted, asked, history>>

\* request_plan_review: the user decides on the plan.
ReviewPlan ==
  /\ phase = "tools" /\ calls # <<>> /\ Head(calls).kind = "gatedPlan"
  /\ ~RepairsExhausted /\ CountRepair
  /\ "PENDING_APPROVAL" \in Allowed(state)
  /\ pending_plan' = Decision(Head(calls))
  /\ ShowCard(Head(calls))
  /\ LeaveLoop
  /\ UNCHANGED <<turn, turn_counter, conversation, active_start, tool_round, plan_failed,
                 streaming, pending_approval, consumed_tokens, cancelled, prompt_queue,
                 event_queue, task_queue, worker, batch, submitted, asked, ran, approved,
                 rejected>>

\* Mutant of AutoApprovePlan: the risk of the plan is not looked at.
AutoApprovePlan_AnyRisk ==
  /\ phase = "tools" /\ calls # <<>> /\ Head(calls).kind \in {"lowPlan", "gatedPlan"}
  /\ ~RepairsExhausted /\ CountRepair
  /\ ExecutePlan(Len(cards) + 1, Head(calls))
  /\ cards' = Append(cards, Head(calls))
  /\ pending_plan' = None
  /\ conversation' = Append(conversation, ToolMsg(Head(calls)))
  /\ SendRequest(conversation')
  /\ LeaveLoop
  /\ UNCHANGED <<turn_counter, active_start, tool_round, streaming, pending_approval, cancelled,
                 prompt_queue, worker, batch, submitted, asked, approved, rejected>>

\* request_plan_review with auto_approve_low_risk_plans: approve_plan follows at
\* once, the card is never shown.
AutoApprovePlan ==
  /\ phase = "tools" /\ calls # <<>> /\ Head(calls).kind = "lowPlan"
  /\ ~RepairsExhausted /\ CountRepair
  /\ "PENDING_APPROVAL" \in Allowed(state)
  /\ ExecutePlan(Len(cards) + 1, Head(calls))
  /\ cards' = Append(cards, Head(calls))
  /\ pending_plan' = None
  /\ conversation' = Append(conversation, ToolMsg(Head(calls)))
  /\ SendRequest(conversation')
  /\ LeaveLoop
  /\ UNCHANGED <<turn_counter, active_start, tool_round, streaming, pending_approval, cancelled,
                 prompt_queue, worker, batch, submitted, asked, approved, rejected>>

\* Every call was answered: ask the model again.
FinishLoop ==
  /\ phase = "tools" /\ calls = <<>>
  /\ SendRequest(conversation)
  /\ LeaveLoop
  /\ UNCHANGED <<turn_counter, conversation, active_start, loop, streaming, gate, cancelled,
                 prompt_queue, worker, batch, submitted, asked, history>>

-----------------------------------------------------------------------------
(* AgentWorker._run_loop, on its own thread *)

\* A task that was cancelled while it waited is skipped.
WorkerTake ==
  /\ worker.pc = "idle" /\ task_queue # <<>>
  /\ task_queue' = Tail(task_queue)
  /\ worker' = IF Head(task_queue).turn \in cancelled THEN worker
               ELSE [IdleWorker EXCEPT !.pc = "busy", !.turn = Head(task_queue).turn]
  /\ UNCHANGED <<lifecycle, conversation, active_start, loop, streaming, gate, cancelled,
                 prompt_queue, event_queue, main, submitted, asked, history>>

\* The stream has something and the turn is not cancelled yet: a delta, the
\* complete reply, or an error.
WorkerReceive ==
  /\ worker.pc = "busy"
  /\ worker.turn \notin cancelled
  /\ \/ /\ worker.deltas < MaxDeltas
        /\ worker' = [worker EXCEPT !.pc = "post", !.deltas = @ + 1,
                                    !.event = DeltaEvent(worker.turn)]
        /\ UNCHANGED asked
     \/ \E kinds \in Replies :
          /\ asked < MaxReplies
          /\ worker' = [worker EXCEPT !.pc = "post", !.event =
               ReplyEvent(worker.turn,
                 [k \in DOMAIN kinds |-> [ask |-> asked + 1, pos |-> k, turn |-> worker.turn,
                                          kind |-> kinds[k]]])]
          /\ asked' = asked + 1
     \/ /\ worker' = [worker EXCEPT !.pc = "post", !.event = ErrorEvent(worker.turn)]
        /\ UNCHANGED asked
  /\ UNCHANGED <<lifecycle, conversation, active_start, loop, streaming, gate, cancelled,
                 prompt_queue, event_queue, task_queue, main, submitted, history>>

\* event_queue.put, some time after the check of the cancel event.
WorkerPost ==
  /\ worker.pc = "post"
  /\ event_queue' = Append(event_queue, worker.event)
  /\ worker' = IF worker.event.kind = "delta"
                 THEN [worker EXCEPT !.pc = "busy", !.event = None] ELSE IdleWorker
  /\ UNCHANGED <<lifecycle, conversation, active_start, loop, streaming, gate, cancelled,
                 prompt_queue, task_queue, main, submitted, asked, history>>

\* The worker notices the cancellation.
WorkerAbandon ==
  /\ worker.pc = "busy"
  /\ worker.turn \in cancelled
  /\ worker' = IdleWorker
  /\ UNCHANGED <<lifecycle, conversation, active_start, loop, streaming, gate, cancelled,
                 prompt_queue, event_queue, task_queue, main, submitted, asked, history>>

-----------------------------------------------------------------------------
User ==
  \/ SubmitPrompt \/ CancelTurn \/ ClearHistory \/ LoadSession
  \/ \E seen, id \in 1..Len(cards) :
       /\ Reaches(seen, id)
       /\ \/ Approve(id, seen) \/ Reject(id, seen)
          \/ ApprovePlan(id, seen) \/ RejectPlan(id, seen)

Timer ==
  \/ BeginTick \/ EndTick
  \/ DropStaleEvent \/ HandleDelta \/ HandleError \/ IllegalTransition
  \/ HandleFinalReply \/ HandleToolReply
  \/ RunCall \/ AskUser \/ RefusePlan \/ ReviewPlan \/ AutoApprovePlan \/ FinishLoop

WorkerStep == WorkerTake \/ WorkerReceive \/ WorkerPost \/ WorkerAbandon

Next == User \/ Timer \/ WorkerStep

Spec == Init /\ [][Next]_vars

\* Blender fires the timer for ever (bpy.app.timers, persistent), and the worker
\* thread runs: a request ends because the HTTP client has a timeout, and a
\* stream has finitely many deltas.  The user owes nothing.
Fairness == WF_vars(Timer) /\ WF_vars(WorkerStep)
FairSpec == Spec /\ Fairness

-----------------------------------------------------------------------------
(* What must hold *)

\* Approval gate (ApprovalPolicy, PlanReview): a call that needs the user runs
\* only if the user approved a card that showed this very call, and never if
\* the user rejected it; an old click never authorises a later call.
ConsentForGated ==
  \A n \in DOMAIN ran :
    ran[n].call.kind \in {"gated", "gatedPlan"} =>
      /\ \E id \in approved : id \in DOMAIN cards /\ cards[id] = ran[n].call
      /\ \A id \in rejected : id \in DOMAIN cards => cards[id] # ran[n].call

\* One-time tokens: no call of the model is ever executed twice, whatever is
\* clicked twice, delivered late or retried.
RunsOnce ==
  \A m, n \in DOMAIN ran : m # n => ran[m].call # ran[n].call

\* Cancellation hygiene (docs/KNOWLEDGE.md 2.5): a tool runs only for the active
\* turn, never for a turn that was cancelled or has ended.
NoRunAfterCancel ==
  [][\A n \in (Len(ran) + 1)..Len(ran') :
        ran'[n].call.turn = turn /\ turn \notin cancelled]_vars

DecisionPending == pending_approval # None \/ pending_plan # None
Awaiting == state = "PENDING_APPROVAL" /\ DecisionPending

Count(seq, Test(_)) == Cardinality({n \in DOMAIN seq : Test(seq[n])})

\* Who will move the active turn on: a request queued or in the worker, its
\* outcome on the way to the runtime, the loop over a reply, or the user.
Owners ==
  LET mine(x) == x.turn = turn
      outcome(e) == e.turn = turn /\ e.kind # "delta"
  IN  Count(task_queue, mine) + Count(event_queue, outcome) + Count(batch, outcome)
        + (IF worker.turn = turn THEN 1 ELSE 0)
        + (IF phase = "tools" THEN 1 ELSE 0)
        + (IF Awaiting THEN 1 ELSE 0)

\* An active turn is in exactly one place: it is never lost between the threads
\* (the panel would say "Thinking..." for ever) and never asked for twice.
OneOwner == turn # 0 => Owners = 1

\* While the main thread loops over tool calls, or a card waits to be answered,
\* the worker neither streams nor has a request left: a tool may verify its
\* result with the provider (_execute_and_verify), which is not thread-safe.
ProviderExclusive ==
  phase = "tools" \/ Awaiting => worker.pc = "idle" /\ task_queue = <<>>

\* Every request that will be sent satisfies the tool-call protocol of the
\* providers (Conversation.validate_sequence).
RequestsWellFormed ==
  \A n \in DOMAIN task_queue :
    task_queue[n].valid \/ task_queue[n].turn \in cancelled

\* A card on the screen can be answered: the runtime accepts its id, and the
\* call it shows is still open in the conversation.
DecisionAnswerable ==
  \A p \in {pending_approval, pending_plan} \ {None} :
    /\ state = "PENDING_APPROVAL" /\ p.turn = turn /\ turn \notin cancelled
    /\ p.id \notin consumed_tokens \cup approved \cup rejected
    /\ p.call \in OpenCalls(conversation, Len(conversation) + 1)

\* The text shown and recorded for a turn is made of its own deltas only, also
\* when a cancelled stream still delivers.
StreamingOwn == turn # 0 => streaming \subseteq {turn}

\* Loop guards: a turn executes the calls of at most MaxRounds replies, and at
\* most MaxRepairs plans after the first one that failed.
LoopGuards ==
  \A t \in 1..turn_counter :
    /\ Cardinality({ran[n].call.ask : n \in {m \in DOMAIN ran : ran[m].call.turn = t}}) <= MaxRounds
    /\ Count(ran, LAMBDA r : r.call.turn = t /\ r.call.kind \in PlanKinds /\ ~r.ok)
         <= MaxRepairs + 1

\* The conversation is never poisoned: once no turn is active, the next prompt
\* starts, because the conversation validates or its unfinished tail can be
\* discarded (the recovery of _start_prompt).
NextPromptStarts ==
  turn = 0 =>
    \/ ValidSequence(conversation)
    \/ active_start # NoStart /\ ValidSequence(Discard(conversation, active_start))

\* Cancelling the active turn takes back exactly the messages of that turn, which
\* are the last ones (_discard_active_turn_context).
CancelTakesBackTurn ==
  [][turn # 0 /\ turn \in cancelled' =>
       \E n \in 0..Len(conversation) :
         /\ \A i \in DOMAIN conversation : conversation[i].turn = turn <=> i > n
         /\ conversation' = SubSeq(conversation, 1, n)]_vars

\* With the last turn complete and no new one begun, nothing but the user's
\* clear or load changes the recorded conversation (_discard_active_turn_context
\* preserves all completed history).
CompletedHistoryKept ==
  [][state = "IDLE" /\ turn = 0 /\ turn' = 0 => conversation' = conversation]_vars

\* A transition the runtime makes on an event of the active turn is legal, so no
\* exception leaves the timer callback.
NoIllegalTransition ==
  phase = "tick" /\ batch # <<>> /\ Head(batch).turn = turn =>
    CASE Head(batch).kind = "delta" -> TRUE
      [] Head(batch).kind = "error" -> "ERROR" \in Allowed(state)
      [] OTHER -> state = "PROCESSING"

\* The active turn ends, or waits for the user.
TurnEnds == \A t \in 1..MaxPrompts : turn = t ~> (turn # t \/ Awaiting)

\* A queued prompt is processed automatically (README.md, Prompt Queue), unless
\* the user owes a decision.
Queued(p) == \E n \in DOMAIN prompt_queue : prompt_queue[n] = p
QueueDrains == \A p \in 1..MaxPrompts : Queued(p) ~> (~Queued(p) \/ Awaiting)
=============================================================================
