-------------------------- MODULE AgentRuntimeSafety --------------------------
(***************************************************************************)
(* TypeOK, RunsOnce and ConsentForGated, for every value of the constants. *)
(*                                                                         *)
(* The last two rest on one fact: every tool call of the model is in       *)
(* exactly one place.  It is held by the worker, waits in the event queue, *)
(* is in the batch the timer drained, is left in the loop over its reply,  *)
(* or is spent: executed, or shown on a card.                              *)
(***************************************************************************)
EXTENDS AgentRuntime, SequenceTheorems, TLAPS

-----------------------------------------------------------------------------
(* What the operators of ChatConversation return, for every conversation *)

\* The messages the runtime makes are messages: each constructor of models.py
\* gets the fields its role needs.
LEMMA MessagesTyped ==
  /\ SystemMsg \in Message
  /\ \A t \in Nat : UserMsg(t) \in Message
  /\ \A t \in Nat, cs \in Seq(Call) : AssistantMsg(t, cs) \in Message
  /\ \A c \in Call : ToolMsg(c) \in Message
  /\ SummaryMsgs \in Seq(Message)
<1>1. \A S : <<>> \in Seq(S)
  BY EmptySeq
<1>2. \A c \in Call : <<c>> \in Seq(Call)
  OBVIOUS
<1>3. SystemMsg \in Message
  BY <1>1 DEF SystemMsg, Message, Roles
<1>4. \A t \in Nat : UserMsg(t) \in Message
  BY <1>1 DEF UserMsg, Message, Roles
<1>5. \A t \in Nat, cs \in Seq(Call) : AssistantMsg(t, cs) \in Message
  BY DEF AssistantMsg, Message, Roles
<1>6. \A c \in Call : ToolMsg(c) \in Message
  BY <1>2 DEF ToolMsg, Message, Roles, Call
<1>7. SummaryMsgs \in Seq(Message)
  <2>1. UserMsg(0) \in Message /\ AssistantMsg(0, <<>>) \in Message
    BY <1>1, <1>4, <1>5
  <2> QED
    BY <2>1 DEF SummaryMsgs
<1> QED
  BY <1>3, <1>4, <1>5, <1>6, <1>7

\* Discarding the tail of a turn (_discard_active_turn_context) leaves a prefix
\* of the conversation.
LEMMA DiscardTyped ==
  ASSUME NEW msgs \in Seq(Message), NEW start \in Nat \cup {NoStart}
  PROVE  Discard(msgs, start) \in Seq(Message)
<1>1. CASE start # NoStart /\ start <= Len(msgs)
  <2>1. start \in Nat
    BY <1>1
  <2>2. \A i \in 1..start : msgs[i] \in Message
    BY <1>1, <2>1, LenProperties
  <2> QED
    BY <1>1, <2>1, <2>2, SubSeqProperties DEF Discard
<1>2. CASE ~(start # NoStart /\ start <= Len(msgs))
  BY <1>2 DEF Discard
<1> QED
  BY <1>1, <1>2

\* Filling in the calls that never ran (_fill_missing_tool_results) appends
\* TOOL messages.
LEMMA FillFromTyped ==
  ASSUME NEW msgs \in Seq(Message), NEW i \in 0..Len(msgs)
  PROVE  FillFrom(msgs, i) \in Seq(Message)
<1>1. CASE i = 0
  BY <1>1 DEF FillFrom
<1>2. CASE i # 0
  <2> DEFINE cs == msgs[i].calls
             answered == Len(msgs) - i
             fill == [k \in 1..(Len(cs) - answered) |-> ToolMsg(cs[answered + k])]
  <2>1. cs \in Seq(Call) /\ answered \in Nat
    <3>1. i \in 1..Len(msgs) /\ Len(msgs) \in Nat
      BY <1>2, LenProperties
    <3>2. msgs[i] \in Message
      BY <3>1, ElementOfSeq
    <3> QED
      BY <3>1, <3>2 DEF Message
  <2>2. fill \in Seq(Message)
    <3> HIDE DEF cs, answered
    <3>1. CASE Len(cs) - answered \in Nat
      <4>1. \A k \in 1..(Len(cs) - answered) : cs[answered + k] \in Call
        BY <2>1, <3>1, LenProperties
      <4>2. \A k \in 1..(Len(cs) - answered) : ToolMsg(cs[answered + k]) \in Message
        BY <4>1, MessagesTyped
      <4> QED
        BY <3>1, <4>2
    <3>2. CASE Len(cs) - answered \notin Nat
      <4>1. 1..(Len(cs) - answered) = {}
        BY <2>1, <3>2, LenProperties
      <4>2. fill = <<>>
        BY <4>1
      <4> HIDE DEF fill
      <4> QED
        BY <4>2, EmptySeq
    <3> QED
      BY <3>1, <3>2
  <2>3. FillFrom(msgs, i) = msgs \o fill
    BY <1>2 DEF FillFrom
  <2> QED
    BY <2>2, <2>3, ConcatProperties
<1> QED
  BY <1>1, <1>2

\* Compaction (compact_conversation) keeps the SYSTEM message, puts the summary
\* after it and keeps the recent turns.
LEMMA CompactFromTyped ==
  ASSUME NEW msgs \in Seq(Message), NEW k \in 1..Len(msgs)
  PROVE  CompactFrom(msgs, k) \in Seq(Message)
<1> DEFINE head == IF HasSystem(msgs) THEN <<msgs[1]>> ELSE <<>>
<1>1. head \in Seq(Message)
  BY LenProperties, EmptySeq DEF HasSystem
<1>2. SummaryMsgs \in Seq(Message)
  BY MessagesTyped
<1>3. SubSeq(msgs, k, Len(msgs)) \in Seq(Message)
  <2>1. \A i \in k..Len(msgs) : msgs[i] \in Message
    BY LenProperties
  <2> QED
    BY <2>1, LenProperties, SubSeqProperties
<1> QED
  BY <1>1, <1>2, <1>3, ConcatProperties DEF CompactFrom

-----------------------------------------------------------------------------
(* Type correctness *)

\* TypeOK alone is not inductive: a turn that fails posts an error with its own
\* id, and the worker posts the event it holds.  Inside the loop over tool calls
\* there is an active turn, a working worker has one too, and a worker about to
\* post holds an event.
TypeInv ==
  /\ TypeOK
  /\ phase = "tools" => turn # 0
  /\ worker.pc # "idle" => worker.turn # 0
  /\ worker.pc = "post" => worker.event \in Event

\* Events carry the turn and the calls they are made of (core/events.py).
LEMMA EventsTyped ==
  /\ \A t \in Ids : DeltaEvent(t) \in Event /\ ErrorEvent(t) \in Event
  /\ \A t \in Ids, cs \in Seq(Call) : ReplyEvent(t, cs) \in Event
<1>1. <<>> \in Seq(Call)
  BY EmptySeq
<1> QED
  BY <1>1 DEF Event, DeltaEvent, ErrorEvent, ReplyEvent

\* validate_sequence answers yes or no.
LEMMA ValidSequenceBoolean == \A msgs : ValidSequence(msgs) \in BOOLEAN
  BY DEF ValidSequence

\* A turn that fails leaves typed lifecycle, event queue and task queue.
LEMMA FailTurnTyped ==
  ASSUME TypeOK, turn # 0, FailTurn
  PROVE  /\ state' \in States /\ turn' \in Nat
         /\ event_queue' \in Seq(Event) /\ task_queue' \in Seq(Task)
<1>1. ErrorEvent(turn) \in Event
  BY EventsTyped DEF TypeOK, Ids
<1>2. event_queue' \in Seq(Event)
  BY <1>1, AppendProperties DEF FailTurn, TypeOK
<1> QED
  BY <1>2 DEF FailTurn, TypeOK, States

\* Sending a request, or failing to build it, does too.
LEMMA SendRequestTyped ==
  ASSUME TypeOK, turn # 0, NEW conv, SendRequest(conv)
  PROVE  /\ state' \in States /\ turn' \in Nat
         /\ event_queue' \in Seq(Event) /\ task_queue' \in Seq(Task)
<1>1. CASE FailTurn
  BY <1>1, FailTurnTyped
<1>2. CASE ~FailTurn
  <2>1. [turn |-> turn, valid |-> ValidSequence(conv)] \in Task
    BY ValidSequenceBoolean DEF TypeOK, Task, Ids
  <2>2. /\ state' = "PROCESSING" /\ turn' = turn /\ UNCHANGED event_queue
        /\ task_queue' = Append(task_queue, [turn |-> turn, valid |-> ValidSequence(conv)])
    BY <1>2 DEF SendRequest
  <2>3. task_queue \in Seq(Task) /\ event_queue \in Seq(Event) /\ turn \in Nat
    BY DEF TypeOK
  <2>4. task_queue' \in Seq(Task)
    BY <2>1, <2>2, <2>3, AppendProperties
  <2> QED
    BY <2>2, <2>3, <2>4 DEF States
<1> QED
  BY <1>1, <1>2

\* What a started prompt leaves typed.
LEMMA StartPromptTyped ==
  ASSUME TypeOK, StartPrompt
  PROVE  /\ state' \in States /\ turn' \in Nat /\ turn_counter' \in Nat
         /\ conversation' \in Seq(Message) /\ active_start' \in Nat \cup {NoStart}
         /\ tool_round' \in Nat /\ plan_repairs' \in Nat /\ plan_failed' \in BOOLEAN
         /\ streaming' \subseteq Ids
         /\ event_queue' \in Seq(Event) /\ task_queue' \in Seq(Task)
         /\ UNCHANGED <<gate, cancelled, worker, asked, history>>
<1> DEFINE kept == IF Validates THEN conversation ELSE Discard(conversation, active_start)
           t == turn_counter + 1
           asking == Append(kept, UserMsg(t))
<1>1. kept \in Seq(Message) /\ t \in Ids /\ UserMsg(t) \in Message
  <2>1. /\ conversation \in Seq(Message) /\ active_start \in Nat \cup {NoStart}
        /\ turn_counter \in Nat
    BY DEF TypeOK
  <2>2. Discard(conversation, active_start) \in Seq(Message)
    BY <2>1, DiscardTyped
  <2>3. kept \in Seq(Message)
    BY <2>1, <2>2
  <2>4. t \in Ids /\ t \in Nat
    BY <2>1 DEF Ids
  <2> QED
    BY <2>3, <2>4, MessagesTyped
<1>2. asking \in Seq(Message) /\ Len(kept) \in Nat
  BY <1>1, AppendProperties, LenProperties
<1>3. \A k \in ClusterStarts(asking) : CompactFrom(asking, k) \in Seq(Message)
  <2>1. HeaderLen(asking) \in Nat
    BY <1>2 DEF HeaderLen
  <2>2. ClusterStarts(asking) \subseteq 1..Len(asking)
    BY <1>2, <2>1, LenProperties DEF ClusterStarts
  <2> QED
    BY <1>2, <2>2, CompactFromTyped
<1>4. /\ Append(event_queue, ErrorEvent(t)) \in Seq(Event)
      /\ \A msgs : Append(task_queue, [turn |-> t, valid |-> ValidSequence(msgs)]) \in Seq(Task)
  <2>1. ErrorEvent(t) \in Event
    BY <1>1, EventsTyped
  <2>2. \A msgs : [turn |-> t, valid |-> ValidSequence(msgs)] \in Task
    BY <1>1, ValidSequenceBoolean DEF Task
  <2> QED
    BY <2>1, <2>2, AppendProperties DEF TypeOK
<1> HIDE DEF kept, asking
<1> DEFINE Begin(msgs) ==
             /\ turn' = t /\ turn_counter' = t
             /\ conversation' = msgs /\ active_start' = Len(kept)
             /\ tool_round' = 0 /\ plan_repairs' = 0 /\ plan_failed' = FALSE
             /\ streaming' = {}
<1> DEFINE Started ==
             /\ state' \in States /\ turn' \in Nat /\ turn_counter' \in Nat
             /\ conversation' \in Seq(Message) /\ active_start' \in Nat \cup {NoStart}
             /\ tool_round' \in Nat /\ plan_repairs' \in Nat /\ plan_failed' \in BOOLEAN
             /\ streaming' \subseteq Ids
             /\ event_queue' \in Seq(Event) /\ task_queue' \in Seq(Task)
<1>5. ASSUME /\ state' = "IDLE"
             /\ UNCHANGED <<turn, turn_counter, conversation, active_start, loop, streaming,
                            event_queue, task_queue>>
      PROVE  Started
  BY <1>5 DEF TypeOK, States, loop
<1>6. ASSUME NEW msgs \in Seq(Message),
             /\ Begin(msgs)
             /\ \/ /\ state' \in {"PROCESSING", "IDLE"} /\ UNCHANGED event_queue
                   /\ \/ UNCHANGED task_queue
                      \/ task_queue' = Append(task_queue, [turn |-> t, valid |-> ValidSequence(msgs)])
                \/ /\ state' = "ERROR"
                   /\ event_queue' = Append(event_queue, ErrorEvent(t))
                   /\ UNCHANGED task_queue
      PROVE  Started
  <2>1. t \in Nat
    BY <1>1 DEF Ids
  <2>2. event_queue \in Seq(Event) /\ task_queue \in Seq(Task)
    BY DEF TypeOK
  <2> HIDE DEF t
  <2>3. event_queue' \in Seq(Event) /\ task_queue' \in Seq(Task) /\ state' \in States
    BY <1>4, <1>6, <2>2 DEF States
  <2> QED
    BY <1>2, <1>6, <2>1, <2>3
<1>7. UNCHANGED <<gate, cancelled, worker, asked, history>>
  BY DEF StartPrompt
<1> QED
  BY <1>2, <1>3, <1>5, <1>6, <1>7 DEF StartPrompt, kept, asking

\* Answering a decision: there is an active turn, and a call to answer.
LEMMA AnswersTyped ==
  ASSUME TypeOK, NEW id, NEW pending \in Pending \cup {None}, Answers(id, pending)
  PROVE  turn # 0 /\ phase = "free" /\ pending \in Pending /\ pending.call \in Call
BY DEF Answers, TypeOK, Pending, Ids

\* Filling in the missing answers and asking the model again.
LEMMA FillAndContinueTyped ==
  ASSUME TypeOK, turn # 0, NEW conv \in Seq(Message), FillAndContinue(conv)
  PROVE  /\ conversation' \in Seq(Message)
         /\ state' \in States /\ turn' \in Nat
         /\ event_queue' \in Seq(Event) /\ task_queue' \in Seq(Task)
<1>1. PICK i \in 0..Len(conv) : conversation' = FillFrom(conv, i) /\ SendRequest(conversation')
  BY DEF FillAndContinue
<1>2. conversation' \in Seq(Message)
  BY <1>1, FillFromTyped
<1> QED
  BY <1>1, <1>2, SendRequestTyped

\* One more executed call, message or card.
LEMMA HistoriesTyped ==
  ASSUME TypeOK, NEW call \in Call
  PROVE  /\ \A ok \in BOOLEAN : Append(ran, [call |-> call, ok |-> ok]) \in Seq(Run)
         /\ Append(conversation, ToolMsg(call)) \in Seq(Message)
         /\ Append(cards, call) \in Seq(Call)
         /\ turn # 0 => Decision(call) \in Pending
<1>1. ran \in Seq(Run) /\ conversation \in Seq(Message) /\ cards \in Seq(Call) /\ turn \in Nat
  BY DEF TypeOK
<1>2. \A ok \in BOOLEAN : [call |-> call, ok |-> ok] \in Run
  BY DEF Run
<1>3. ToolMsg(call) \in Message
  BY MessagesTyped
<1>4. turn # 0 => Decision(call) \in Pending
  BY <1>1, LenProperties DEF Decision, Pending, Ids
<1> QED
  BY <1>1, <1>2, <1>3, <1>4, AppendProperties

\* The initial state is typed.
LEMMA InitTyped == Init => TypeInv
<1>1. /\ <<>> \in Seq(Message) /\ <<>> \in Seq(Ids) /\ <<>> \in Seq(Event)
      /\ <<>> \in Seq(Task) /\ <<>> \in Seq(Call) /\ <<>> \in Seq(Run)
  BY EmptySeq
<1>2. IdleWorker \in Worker
  BY DEF IdleWorker, Worker
<1>3. Init => TypeOK
  <2> SUFFICES ASSUME Init PROVE TypeOK
    OBVIOUS
  <2>1. /\ conversation \in Seq(Message) /\ prompt_queue \in Seq(Ids)
        /\ event_queue \in Seq(Event) /\ task_queue \in Seq(Task)
        /\ batch \in Seq(Event) /\ calls \in Seq(Call) /\ ran \in Seq(Run) /\ cards \in Seq(Call)
    BY <1>1 DEF Init
  <2>2. worker \in Worker
    BY <1>2 DEF Init
  <2>3. /\ streaming \subseteq Ids /\ consumed_tokens \subseteq Ids /\ cancelled \subseteq Ids
        /\ approved \subseteq Ids /\ rejected \subseteq Ids
    BY DEF Init
  <2> QED
    BY <2>1, <2>2, <2>3 DEF Init, TypeOK, States
<1> QED
  BY <1>3 DEF Init, TypeInv, IdleWorker

\* What the user does preserves the types.
LEMMA UserTyped == TypeInv /\ User => TypeInv'
<1> SUFFICES ASSUME TypeInv, User PROVE TypeInv'
  OBVIOUS
<1>1. TypeOK
  BY DEF TypeInv
<1>2. CASE SubmitPrompt
  <2>1. CASE turn # 0 \/ Busy
    <3>1. prompt_queue' \in Seq(Ids)
      <4>1. prompt_queue \in Seq(Ids) /\ submitted + 1 \in Ids
        BY <1>1 DEF TypeOK, Ids
      <4> QED
        BY <1>2, <2>1, <4>1, AppendProperties DEF SubmitPrompt
    <3>2. /\ submitted' = submitted + 1
          /\ UNCHANGED <<main, lifecycle, conversation, active_start, loop, streaming, gate,
                         cancelled, event_queue, task_queue, worker, asked, history>>
      BY <1>2, <2>1 DEF SubmitPrompt
    <3> QED
      BY <1>1, <3>1, <3>2 DEF TypeInv, TypeOK, main, gate, history, lifecycle, loop
  <2>2. CASE ~(turn # 0 \/ Busy)
    <3>1. StartPrompt /\ UNCHANGED <<prompt_queue, main>> /\ phase = "free"
          /\ submitted' = submitted + 1
      BY <1>2, <2>2 DEF SubmitPrompt
    <3>2. /\ conversation' \in Seq(Message)
          /\ event_queue' \in Seq(Event) /\ task_queue' \in Seq(Task)
          /\ UNCHANGED <<gate, cancelled, worker, asked, history>>
      BY <1>1, <3>1, StartPromptTyped
    <3>3. /\ state' \in States /\ turn' \in Nat /\ turn_counter' \in Nat
          /\ active_start' \in Nat \cup {NoStart}
          /\ tool_round' \in Nat /\ plan_repairs' \in Nat /\ plan_failed' \in BOOLEAN
          /\ streaming' \subseteq Ids
      BY <1>1, <3>1, StartPromptTyped
    <3>4. TypeOK'
      BY <1>1, <3>1, <3>2, <3>3 DEF TypeOK, main, gate, history
    <3> QED
      BY <3>1, <3>2, <3>4 DEF TypeInv, main
  <2> QED
    BY <2>1, <2>2
<1>3. CASE CancelTurn
  <2>1. conversation' \in Seq(Message)
    <3>1. conversation \in Seq(Message) /\ active_start \in Nat \cup {NoStart}
      BY <1>1 DEF TypeOK
    <3> QED
      BY <1>3, <3>1, DiscardTyped DEF CancelTurn
  <2> QED
    BY <1>3, <2>1 DEF CancelTurn, TypeInv, TypeOK, Ids, main, history, States, NoStart
<1>4. CASE ClearHistory
  BY <1>4, EmptySeq DEF ClearHistory, TypeInv, TypeOK, main, history, gate, lifecycle
<1>5. CASE LoadSession
  <2>1. conversation' \in Seq(Message)
    <3>1. <<SystemMsg>> \in Seq(Message)
      BY MessagesTyped
    <3>2. SummaryMsgs \in Seq(Message)
      BY MessagesTyped
    <3> QED
      BY <1>5, <3>1, <3>2, ConcatProperties DEF LoadSession
  <2> QED
    BY <1>5, <2>1 DEF LoadSession, TypeInv, TypeOK, main, history, lifecycle
<1>6. ASSUME NEW seen \in 1..Len(cards), NEW id \in 1..Len(cards),
             \/ Approve(id, seen) \/ Reject(id, seen)
             \/ ApprovePlan(id, seen) \/ RejectPlan(id, seen)
      PROVE  TypeInv'
  <2>1. seen \in Ids /\ id \in Ids
    BY <1>1, LenProperties DEF TypeOK, Ids
  <2>2. pending_approval \in Pending \cup {None} /\ pending_plan \in Pending \cup {None}
    BY <1>1 DEF TypeOK
  <2>3. CASE Approve(id, seen)
    <3> DEFINE answered == Append(conversation, ToolMsg(pending_approval.call))
    <3>1. turn # 0 /\ phase = "free" /\ pending_approval.call \in Call
      BY <1>1, <2>2, <2>3, AnswersTyped DEF Approve
    <3>2. answered \in Seq(Message)
      BY <1>1, <3>1, HistoriesTyped
    <3> HIDE DEF answered
    <3>3. PICK ok \in BOOLEAN :
            /\ ran' = Append(ran, [call |-> pending_approval.call, ok |-> ok])
            /\ \/ conversation' = answered /\ FailTurn
               \/ FillAndContinue(answered)
      BY <2>3 DEF Approve, answered
    <3>4. /\ conversation' \in Seq(Message)
          /\ state' \in States /\ turn' \in Nat
          /\ event_queue' \in Seq(Event) /\ task_queue' \in Seq(Task)
      BY <1>1, <3>1, <3>2, <3>3, FailTurnTyped, FillAndContinueTyped
    <3>5. ran' \in Seq(Run)
      BY <1>1, <3>1, <3>3, HistoriesTyped
    <3> QED
      BY <2>1, <2>3, <3>1, <3>4, <3>5 DEF Approve, TypeInv, TypeOK, main, loop
  <2>4. CASE Reject(id, seen)
    <3>1. turn # 0 /\ phase = "free" /\ pending_approval.call \in Call
      BY <1>1, <2>2, <2>4, AnswersTyped DEF Reject
    <3>2. Append(conversation, ToolMsg(pending_approval.call)) \in Seq(Message)
      BY <1>1, <3>1, HistoriesTyped
    <3>3. /\ conversation' \in Seq(Message)
          /\ state' \in States /\ turn' \in Nat
          /\ event_queue' \in Seq(Event) /\ task_queue' \in Seq(Task)
      BY <1>1, <2>4, <3>1, <3>2, FillAndContinueTyped DEF Reject
    <3> QED
      BY <2>1, <2>4, <3>1, <3>3 DEF Reject, TypeInv, TypeOK, main, loop
  <2>5. CASE ApprovePlan(id, seen)
    <3>1. turn # 0 /\ phase = "free" /\ pending_plan.call \in Call
      BY <1>1, <2>2, <2>5, AnswersTyped DEF ApprovePlan
    <3>2. conversation' \in Seq(Message)
      BY <1>1, <2>5, <3>1, HistoriesTyped DEF ApprovePlan
    <3>3. /\ state' \in States /\ turn' \in Nat
          /\ event_queue' \in Seq(Event) /\ task_queue' \in Seq(Task)
      BY <1>1, <2>5, <3>1, SendRequestTyped DEF ApprovePlan
    <3>4. ran' \in Seq(Run) /\ plan_failed' \in BOOLEAN
      BY <1>1, <2>5, <3>1, HistoriesTyped DEF ApprovePlan, ExecutePlan, TypeOK
    <3>5. consumed_tokens' = consumed_tokens \cup {id}
      BY <2>5 DEF ApprovePlan, ExecutePlan
    <3> QED
      BY <2>1, <2>5, <3>1, <3>2, <3>3, <3>4, <3>5 DEF ApprovePlan, TypeInv, TypeOK, main
  <2>6. CASE RejectPlan(id, seen)
    <3>1. turn # 0 /\ phase = "free" /\ pending_plan.call \in Call
      BY <1>1, <2>2, <2>6, AnswersTyped DEF RejectPlan
    <3>2. conversation' \in Seq(Message)
      BY <1>1, <2>6, <3>1, HistoriesTyped DEF RejectPlan
    <3>3. /\ state' \in States /\ turn' \in Nat
          /\ event_queue' \in Seq(Event) /\ task_queue' \in Seq(Task)
      BY <1>1, <2>6, <3>1, SendRequestTyped DEF RejectPlan
    <3> QED
      BY <2>1, <2>6, <3>1, <3>2, <3>3 DEF RejectPlan, TypeInv, TypeOK, main, loop
  <2> QED
    BY <1>6, <2>3, <2>4, <2>5, <2>6
<1> QED
  BY <1>2, <1>3, <1>4, <1>5, <1>6 DEF User

\* What the timer does preserves the types.
LEMMA TimerTyped == TypeInv /\ Timer => TypeInv'
<1> SUFFICES ASSUME TypeInv, Timer PROVE TypeInv'
  OBVIOUS
<1>1. TypeOK
  BY DEF TypeInv
<1>2. batch # <<>> => /\ Head(batch) \in Event /\ Head(batch).calls \in Seq(Call)
                      /\ Tail(batch) \in Seq(Event)
  <2>1. batch # <<>> => Head(batch) \in Event /\ Tail(batch) \in Seq(Event)
    BY <1>1, HeadTailProperties DEF TypeOK
  <2> QED
    BY <2>1 DEF Event
<1>3. calls # <<>> => Head(calls) \in Call /\ Tail(calls) \in Seq(Call)
  BY <1>1, HeadTailProperties DEF TypeOK
<1>4. <<>> \in Seq(Call) /\ <<>> \in Seq(Event)
  BY EmptySeq
<1>5. CASE BeginTick
  <2>1. PICK n \in 0..Len(event_queue) :
          /\ batch' = SubSeq(event_queue, 1, n)
          /\ event_queue' = SubSeq(event_queue, n + 1, Len(event_queue))
    BY <1>5 DEF BeginTick
  <2>2. /\ Len(event_queue) \in Nat
        /\ \A i \in 1..Len(event_queue) : event_queue[i] \in Event
    BY <1>1, LenProperties DEF TypeOK
  <2>3. \A i \in 1..n : event_queue[i] \in Event
    BY <2>1, <2>2
  <2>4. \A i \in (n+1)..Len(event_queue) : event_queue[i] \in Event
    BY <2>1, <2>2
  <2>5. batch' \in Seq(Event)
    BY <2>1, <2>2, <2>3, SubSeqProperties
  <2>6. event_queue' \in Seq(Event)
    BY <2>1, <2>2, <2>4, SubSeqProperties
  <2> QED
    BY <1>5, <2>5, <2>6 DEF BeginTick, TypeInv, TypeOK, history, lifecycle, loop, gate
<1>6. CASE EndTick
  <2>1. CASE CanPump
    <3>1. prompt_queue' \in Seq(Ids)
      BY <1>1, <1>6, <2>1, HeadTailProperties DEF EndTick, CanPump, TypeOK
    <3>2. StartPrompt /\ UNCHANGED <<batch, calls, submitted>> /\ phase' = "free"
      BY <1>6, <2>1 DEF EndTick
    <3>3. /\ conversation' \in Seq(Message)
          /\ event_queue' \in Seq(Event) /\ task_queue' \in Seq(Task)
          /\ UNCHANGED <<gate, cancelled, worker, asked, history>>
      BY <1>1, <3>2, StartPromptTyped
    <3>4. /\ state' \in States /\ turn' \in Nat /\ turn_counter' \in Nat
          /\ active_start' \in Nat \cup {NoStart}
          /\ tool_round' \in Nat /\ plan_repairs' \in Nat /\ plan_failed' \in BOOLEAN
          /\ streaming' \subseteq Ids
      BY <1>1, <3>2, StartPromptTyped
    <3>5. TypeOK'
      BY <1>1, <3>1, <3>2, <3>3, <3>4 DEF TypeOK, gate, history
    <3> QED
      BY <3>2, <3>3, <3>5 DEF TypeInv
  <2>2. CASE ~CanPump
    <3>1. /\ phase' = "free" /\ UNCHANGED <<batch, calls, submitted>>
          /\ UNCHANGED <<lifecycle, conversation, active_start, loop, streaming, gate, cancelled,
                         prompt_queue, event_queue, task_queue, worker, asked, history>>
      BY <1>6, <2>2 DEF EndTick
    <3> QED
      BY <3>1 DEF TypeInv, TypeOK, lifecycle, loop, gate, history
  <2> QED
    BY <2>1, <2>2
<1>7. CASE DropStaleEvent
  BY <1>2, <1>7 DEF DropStaleEvent, TypeInv, TypeOK, history, lifecycle, loop, gate
<1>8. CASE HandleDelta
  <2>1. streaming' \subseteq Ids
    BY <1>1, <1>2, <1>8 DEF HandleDelta, Handling, TypeOK, Event
  <2> QED
    BY <1>2, <1>8, <2>1 DEF HandleDelta, Handling, TypeInv, TypeOK, history, lifecycle, loop, gate
<1>9. CASE HandleError
  BY <1>2, <1>9 DEF HandleError, Handling, TypeInv, TypeOK, history, loop, gate, States
<1>10. CASE IllegalTransition
  BY <1>4, <1>10 DEF IllegalTransition, TypeInv, TypeOK, history, lifecycle, loop, gate
<1>11. CASE HandleFinalReply
  <2>1. AssistantMsg(turn, <<>>) \in Message
    BY <1>1, <1>4, MessagesTyped DEF TypeOK
  <2>2. conversation' \in Seq(Message)
    BY <1>1, <1>11, <2>1, AppendProperties DEF HandleFinalReply, TypeOK
  <2> QED
    BY <1>2, <1>11, <2>2 DEF HandleFinalReply, Handling, TypeInv, TypeOK, history, loop, gate, States
<1>12. CASE HandleToolReply
  <2>1. turn # 0 /\ turn \in Nat /\ batch # <<>>
    BY <1>1, <1>2, <1>12 DEF HandleToolReply, Handling, TypeOK, Event, Ids
  <2>2. CASE tool_round' > MaxRounds
    <3>1. /\ FailTurn /\ UNCHANGED <<conversation, streaming, phase, calls>>
      BY <1>12, <2>2 DEF HandleToolReply
    <3>2. /\ state' \in States /\ turn' \in Nat
          /\ event_queue' \in Seq(Event) /\ task_queue' \in Seq(Task)
      BY <1>1, <2>1, <3>1, FailTurnTyped
    <3>3. phase = "tick"
      BY <1>12 DEF HandleToolReply, Handling
    <3> QED
      BY <1>2, <1>12, <2>1, <3>1, <3>2, <3>3 DEF HandleToolReply, TypeInv, TypeOK, gate, history
  <2>3. CASE ~(tool_round' > MaxRounds)
    <3>1. /\ conversation' = Append(conversation, AssistantMsg(turn, Head(batch).calls))
          /\ streaming' = {} /\ phase' = "tools" /\ calls' = Head(batch).calls
          /\ UNCHANGED <<state, turn, event_queue, task_queue>>
      BY <1>12, <2>3 DEF HandleToolReply
    <3>2. AssistantMsg(turn, Head(batch).calls) \in Message
      BY <1>2, <2>1, MessagesTyped
    <3>3. conversation' \in Seq(Message)
      BY <1>1, <3>1, <3>2, AppendProperties DEF TypeOK
    <3> QED
      BY <1>2, <1>12, <2>1, <3>1, <3>3 DEF HandleToolReply, TypeInv, TypeOK, gate, history
  <2> QED
    BY <2>2, <2>3
<1>13. CASE RunCall
  <2>1. turn # 0 /\ Head(calls) \in Call /\ Tail(calls) \in Seq(Call)
    BY <1>3, <1>13 DEF RunCall, TypeInv
  <2>2. PICK ok \in BOOLEAN :
          /\ ran' = Append(ran, [call |-> Head(calls), ok |-> ok])
          /\ \/ FailTurn /\ LeaveLoop
             \/ /\ state' = "PROCESSING" /\ calls' = Tail(calls)
                /\ UNCHANGED <<turn, event_queue, task_queue, phase>>
    BY <1>13 DEF RunCall
  <2>3. ran' \in Seq(Run) /\ conversation' \in Seq(Message)
    BY <1>1, <1>13, <2>1, <2>2, HistoriesTyped DEF RunCall
  <2>4. /\ state' \in States /\ turn' \in Nat /\ calls' \in Seq(Call)
        /\ event_queue' \in Seq(Event) /\ task_queue' \in Seq(Task)
        /\ phase' = "tick" \/ (phase' = "tools" /\ turn' = turn)
    <3>1. CASE FailTurn /\ LeaveLoop
      BY <1>1, <1>4, <2>1, <3>1, FailTurnTyped DEF LeaveLoop
    <3>2. CASE ~(FailTurn /\ LeaveLoop)
      BY <1>13, <2>1, <2>2, <3>2 DEF RunCall, TypeInv, TypeOK, States
    <3> QED
      BY <3>1, <3>2
  <2> QED
    BY <1>13, <2>1, <2>3, <2>4 DEF RunCall, TypeInv, TypeOK, loop, gate
<1>14. CASE AskUser
  <2>1. turn # 0 /\ Head(calls) \in Call
    BY <1>3, <1>14 DEF AskUser, TypeInv
  <2>2. pending_approval' \in Pending /\ cards' \in Seq(Call)
    BY <1>1, <1>14, <2>1, HistoriesTyped DEF AskUser, ShowCard
  <2> QED
    BY <1>4, <1>14, <2>2 DEF AskUser, ShowCard, LeaveLoop, TypeInv, TypeOK, States, loop
<1>15. CASE RefusePlan
  <2>1. turn # 0 /\ Head(calls) \in Call
    BY <1>3, <1>15 DEF RefusePlan, TypeInv
  <2>2. conversation' \in Seq(Message)
    BY <1>1, <1>15, <2>1, HistoriesTyped DEF RefusePlan
  <2>3. /\ state' \in States /\ turn' \in Nat
        /\ event_queue' \in Seq(Event) /\ task_queue' \in Seq(Task)
    BY <1>1, <1>15, <2>1, FailTurnTyped DEF RefusePlan
  <2>4. plan_repairs' \in Nat
    BY <1>1, <1>15 DEF RefusePlan, CountRepair, TypeOK
  <2> QED
    BY <1>4, <1>15, <2>2, <2>3, <2>4 DEF RefusePlan, LeaveLoop, TypeInv, TypeOK, gate, history
<1>16. CASE ReviewPlan
  <2>1. turn # 0 /\ Head(calls) \in Call
    BY <1>3, <1>16 DEF ReviewPlan, TypeInv
  <2>2. pending_plan' \in Pending /\ cards' \in Seq(Call)
    BY <1>1, <1>16, <2>1, HistoriesTyped DEF ReviewPlan, ShowCard
  <2>3. plan_repairs' \in Nat
    BY <1>1, <1>16 DEF ReviewPlan, CountRepair, TypeOK
  <2> QED
    BY <1>4, <1>16, <2>2, <2>3 DEF ReviewPlan, ShowCard, LeaveLoop, TypeInv, TypeOK, States
<1>17. CASE AutoApprovePlan
  <2>1. turn # 0 /\ Head(calls) \in Call
    BY <1>3, <1>17 DEF AutoApprovePlan, TypeInv
  <2>2. conversation' \in Seq(Message) /\ cards' \in Seq(Call)
    BY <1>1, <1>17, <2>1, HistoriesTyped DEF AutoApprovePlan
  <2>3. /\ state' \in States /\ turn' \in Nat
        /\ event_queue' \in Seq(Event) /\ task_queue' \in Seq(Task)
    BY <1>1, <1>17, <2>1, SendRequestTyped DEF AutoApprovePlan
  <2>4. plan_repairs' \in Nat
    BY <1>1, <1>17 DEF AutoApprovePlan, CountRepair, TypeOK
  <2>5. ran' \in Seq(Run) /\ plan_failed' \in BOOLEAN
    BY <1>1, <1>17, <2>1, HistoriesTyped DEF AutoApprovePlan, ExecutePlan, TypeOK
  <2>6. consumed_tokens' \subseteq Ids
    <3>1. Len(cards) + 1 \in Ids /\ consumed_tokens \subseteq Ids
      BY <1>1, LenProperties DEF TypeOK, Ids
    <3> QED
      BY <1>17, <3>1 DEF AutoApprovePlan, ExecutePlan
  <2> QED
    BY <1>4, <1>17, <2>2, <2>3, <2>4, <2>5, <2>6 DEF AutoApprovePlan, LeaveLoop, TypeInv, TypeOK
<1>18. CASE FinishLoop
  <2>1. /\ state' \in States /\ turn' \in Nat
        /\ event_queue' \in Seq(Event) /\ task_queue' \in Seq(Task)
    BY <1>1, <1>18, SendRequestTyped DEF FinishLoop, TypeInv
  <2> QED
    BY <1>4, <1>18, <2>1 DEF FinishLoop, LeaveLoop, TypeInv, TypeOK, history, loop, gate
<1> QED
  BY <1>5, <1>6, <1>7, <1>8, <1>9, <1>10, <1>11, <1>12, <1>13, <1>14, <1>15, <1>16, <1>17, <1>18
     DEF Timer

\* What the worker does preserves the types.
LEMMA WorkerTyped == TypeInv /\ WorkerStep => TypeInv'
<1> SUFFICES ASSUME TypeInv, WorkerStep PROVE TypeInv'
  OBVIOUS
<1>1. TypeOK
  BY DEF TypeInv
<1>2. IdleWorker \in Worker /\ IdleWorker.pc = "idle"
  BY DEF IdleWorker, Worker
<1>3. CASE WorkerTake
  <2>1. Head(task_queue) \in Task /\ task_queue' \in Seq(Task)
    BY <1>1, <1>3, HeadTailProperties DEF WorkerTake, TypeOK
  <2>2. worker' \in Worker /\ worker'.pc # "post" /\ (worker'.pc # "idle" => worker'.turn # 0)
    BY <1>1, <1>3, <2>1 DEF WorkerTake, IdleWorker, Worker, Task, Ids, TypeOK
  <2> QED
    BY <1>3, <2>1, <2>2 DEF WorkerTake, TypeInv, TypeOK, main, history, lifecycle, loop, gate
<1>4. CASE WorkerReceive
  <2>1. worker \in Worker /\ worker.turn \in Ids /\ asked \in Nat
    BY <1>4 DEF WorkerReceive, TypeInv, TypeOK, Worker, Ids
  <2>2. \A kinds \in Replies :
          [k \in DOMAIN kinds |-> [ask |-> asked + 1, pos |-> k, turn |-> worker.turn,
                                   kind |-> kinds[k]]] \in Seq(Call)
    <3> TAKE kinds \in Replies
    <3>1. kinds \in Seq(Kinds)
      BY RepliesAssumption
    <3>2. DOMAIN kinds = 1..Len(kinds) /\ Len(kinds) \in Nat
      BY <3>1, LenProperties
    <3>3. \A k \in 1..Len(kinds) :
            [ask |-> asked + 1, pos |-> k, turn |-> worker.turn, kind |-> kinds[k]] \in Call
      BY <2>1, <3>1, <3>2, ElementOfSeq DEF Call, Ids
    <3> QED
      BY <3>2, <3>3
  <2>3. PICK e \in Event, d \in Nat :
          /\ worker' = [worker EXCEPT !.pc = "post", !.deltas = d, !.event = e]
          /\ asked' \in {asked, asked + 1}
    <3>1. CASE /\ worker' = [worker EXCEPT !.pc = "post", !.deltas = @ + 1,
                                          !.event = DeltaEvent(worker.turn)]
               /\ UNCHANGED asked
      <4>1. DeltaEvent(worker.turn) \in Event /\ worker.deltas + 1 \in Nat
        BY <2>1, EventsTyped DEF Worker
      <4> QED
        BY <3>1, <4>1
    <3>2. ASSUME NEW e \in Event,
                 worker' = [worker EXCEPT !.pc = "post", !.event = e],
                 asked' \in {asked, asked + 1}
          PROVE  \E ee \in Event, d \in Nat :
                   /\ worker' = [worker EXCEPT !.pc = "post", !.deltas = d, !.event = ee]
                   /\ asked' \in {asked, asked + 1}
      <4>1. worker' = [worker EXCEPT !.pc = "post", !.deltas = worker.deltas, !.event = e]
        BY <2>1, <3>2 DEF Worker
      <4>2. worker.deltas \in Nat
        BY <2>1 DEF Worker
      <4> QED
        BY <3>2, <4>1, <4>2
    <3>3. CASE /\ worker' = [worker EXCEPT !.pc = "post", !.event = ErrorEvent(worker.turn)]
               /\ UNCHANGED asked
      BY <2>1, <3>2, <3>3, EventsTyped
    <3>4. ASSUME NEW kinds \in Replies,
                 worker' = [worker EXCEPT !.pc = "post", !.event =
                   ReplyEvent(worker.turn,
                     [k \in DOMAIN kinds |-> [ask |-> asked + 1, pos |-> k, turn |-> worker.turn,
                                              kind |-> kinds[k]]])],
                 asked' = asked + 1
          PROVE  \E ee \in Event, d \in Nat :
                   /\ worker' = [worker EXCEPT !.pc = "post", !.deltas = d, !.event = ee]
                   /\ asked' \in {asked, asked + 1}
      BY <2>1, <2>2, <3>2, <3>4, EventsTyped
    <3> QED
      BY <1>4, <3>1, <3>3, <3>4 DEF WorkerReceive
  <2>4. /\ asked' \in Nat /\ worker' \in Worker
        /\ worker'.turn # 0 /\ worker'.event \in Event
    <3>1. asked' \in Nat
      BY <2>1, <2>3
    <3>2. worker' \in Worker
      BY <2>1, <2>3 DEF Worker
    <3>3. worker'.turn = worker.turn /\ worker'.event = e
      BY <2>1, <2>3 DEF Worker
    <3> QED
      BY <2>1, <3>1, <3>2, <3>3 DEF Ids
  <2> QED
    BY <1>4, <2>4
       DEF WorkerReceive, TypeInv, TypeOK, Ids, main, history, lifecycle, loop, gate
<1>5. CASE WorkerPost
  <2>1. event_queue' \in Seq(Event)
    BY <1>1, <1>5, AppendProperties DEF WorkerPost, TypeInv, TypeOK
  <2>2. worker' \in Worker /\ worker'.pc # "post" /\ (worker'.pc # "idle" => worker'.turn # 0)
    BY <1>5 DEF WorkerPost, IdleWorker, Worker, TypeInv, TypeOK
  <2> QED
    BY <1>5, <2>1, <2>2 DEF WorkerPost, TypeInv, TypeOK, main, history, lifecycle, loop, gate
<1>6. CASE WorkerAbandon
  BY <1>2, <1>6 DEF WorkerAbandon, TypeInv, TypeOK, main, history, lifecycle, loop, gate
<1> QED
  BY <1>3, <1>4, <1>5, <1>6 DEF WorkerStep

\* Every step preserves the types.
LEMMA NextTyped == TypeInv /\ [Next]_vars => TypeInv'
<1>1. TypeInv /\ UNCHANGED vars => TypeInv'
  BY DEF TypeInv, TypeOK, vars, lifecycle, loop, gate, main, history
<1> QED
  BY <1>1, UserTyped, TimerTyped, WorkerTyped DEF Next

\* TypeOK holds in every state of the runtime, its queues and its worker.
THEOREM TypeCorrect == Spec => []TypeOK
<1>1. TypeInv => TypeOK
  BY DEF TypeInv
<1> QED
  BY <1>1, InitTyped, NextTyped, PTL DEF Spec


-----------------------------------------------------------------------------
(* Custody of the calls *)

\* The calls that the events of a sequence carry.
Carried(evs) == UNION {CallsOf(evs[i]) : i \in DOMAIN evs}

\* No call twice in one sequence of calls, nor twice in a sequence of events.
NoRepeat(cs) == \A j, k \in DOMAIN cs : cs[j] = cs[k] => j = k
CarriedOnce(evs) ==
  /\ \A i \in DOMAIN evs : NoRepeat(evs[i].calls)
  /\ \A i, j \in DOMAIN evs : i # j => CallsOf(evs[i]) \cap CallsOf(evs[j]) = {}

Elements(cs) == {cs[k] : k \in DOMAIN cs}

\* b: the batch, q: the event queue, w: what the worker is about to post,
\* l: the rest of the loop, s: the spent calls, a: the number of replies so far.
Custody(b, q, w, l, s, a) ==
  /\ CarriedOnce(b) /\ CarriedOnce(q) /\ CarriedOnce(w) /\ NoRepeat(l)
  /\ Carried(b) \cap Carried(q) = {}
  /\ Carried(b) \cap Carried(w) = {}
  /\ Carried(q) \cap Carried(w) = {}
  /\ Elements(l) \cap (Carried(b) \cup Carried(q) \cup Carried(w)) = {}
  /\ s \cap (Carried(b) \cup Carried(q) \cup Carried(w) \cup Elements(l)) = {}
  /\ \A c \in Carried(b) \cup Carried(q) \cup Carried(w) \cup Elements(l) \cup s : c.ask <= a

\* An event without calls carries nothing, an empty sequence neither.
LEMMA CarriedNothing ==
  /\ Carried(<<>>) = {} /\ CarriedOnce(<<>>) /\ Elements(<<>>) = {} /\ NoRepeat(<<>>)
  /\ \A e : CallsOf(e) = Elements(e.calls)
<1>1. DOMAIN <<>> = {}
  OBVIOUS
<1> QED
  BY <1>1 DEF Carried, CarriedOnce, Elements, NoRepeat, CallsOf

\* One event.
LEMMA CarriedByOne ==
  ASSUME NEW e \in Event
  PROVE  /\ Carried(<<e>>) = CallsOf(e)
         /\ CarriedOnce(<<e>>) <=> NoRepeat(e.calls)
<1>1. DOMAIN <<e>> = {1} /\ <<e>>[1] = e
  OBVIOUS
<1> QED
  BY <1>1 DEF Carried, CarriedOnce

\* The rest of a sequence of events.
LEMMA CarriedTail ==
  ASSUME NEW evs \in Seq(Event), evs # <<>>
  PROVE  /\ CallsOf(Head(evs)) \subseteq Carried(evs)
         /\ Carried(Tail(evs)) \subseteq Carried(evs)
         /\ CarriedOnce(evs) =>
              /\ CarriedOnce(Tail(evs)) /\ NoRepeat(Head(evs).calls)
              /\ CallsOf(Head(evs)) \cap Carried(Tail(evs)) = {}
<1>1. /\ DOMAIN evs = 1..Len(evs) /\ Len(evs) \in Nat /\ Len(evs) > 0
      /\ Tail(evs) \in Seq(Event) /\ Len(Tail(evs)) = Len(evs) - 1
      /\ DOMAIN Tail(evs) = 1..(Len(evs) - 1)
      /\ \A i \in 1..(Len(evs) - 1) : Tail(evs)[i] = evs[i + 1]
  BY LenProperties, EmptySeq, HeadTailProperties
<1>2. Head(evs) = evs[1] /\ 1 \in DOMAIN evs
  BY <1>1
<1>3. \A i \in DOMAIN Tail(evs) : i + 1 \in DOMAIN evs /\ i + 1 # 1 /\ Tail(evs)[i] = evs[i + 1]
  BY <1>1
<1>4. CallsOf(Head(evs)) \subseteq Carried(evs)
  BY <1>2 DEF Carried
<1>5. Carried(Tail(evs)) \subseteq Carried(evs)
  BY <1>3 DEF Carried
<1>6. ASSUME CarriedOnce(evs)
      PROVE  /\ CarriedOnce(Tail(evs)) /\ NoRepeat(Head(evs).calls)
             /\ CallsOf(Head(evs)) \cap Carried(Tail(evs)) = {}
  <2>1. NoRepeat(Head(evs).calls)
    BY <1>2, <1>6 DEF CarriedOnce
  <2>2. \A i, j \in DOMAIN Tail(evs) : i # j => i + 1 # j + 1
    BY <1>1
  <2>3. CarriedOnce(Tail(evs))
    BY <1>3, <1>6, <2>2 DEF CarriedOnce
  <2>4. \A i \in DOMAIN Tail(evs) : CallsOf(Head(evs)) \cap CallsOf(Tail(evs)[i]) = {}
    BY <1>2, <1>3, <1>6 DEF CarriedOnce
  <2> QED
    BY <2>1, <2>3, <2>4 DEF Carried
<1> QED
  BY <1>4, <1>5, <1>6

\* One event more at the end.
LEMMA CarriedAppend ==
  ASSUME NEW evs \in Seq(Event), NEW e \in Event
  PROVE  /\ Carried(Append(evs, e)) = Carried(evs) \cup CallsOf(e)
         /\ CarriedOnce(evs) /\ NoRepeat(e.calls) /\ Carried(evs) \cap CallsOf(e) = {}
              => CarriedOnce(Append(evs, e))
<1> DEFINE longer == Append(evs, e)
<1>1. /\ Len(evs) \in Nat /\ DOMAIN evs = 1..Len(evs)
      /\ DOMAIN longer = 1..(Len(evs) + 1)
      /\ \A i \in 1..Len(evs) : longer[i] = evs[i]
      /\ longer[Len(evs) + 1] = e
  BY LenProperties, AppendProperties
<1>2. /\ DOMAIN longer = DOMAIN evs \cup {Len(evs) + 1} /\ Len(evs) + 1 \notin DOMAIN evs
      /\ \A i \in DOMAIN evs : longer[i] = evs[i]
  BY <1>1
<1> HIDE DEF longer
<1>3. Carried(longer) = Carried(evs) \cup CallsOf(e)
  BY <1>1, <1>2 DEF Carried
<1>4. ASSUME CarriedOnce(evs), NoRepeat(e.calls), Carried(evs) \cap CallsOf(e) = {}
      PROVE  CarriedOnce(longer)
  <2>1. \A i \in DOMAIN longer : NoRepeat(longer[i].calls)
    BY <1>1, <1>2, <1>4 DEF CarriedOnce
  <2>2. \A i \in DOMAIN evs : CallsOf(evs[i]) \cap CallsOf(e) = {}
    BY <1>4 DEF Carried
  <2>3. \A i, j \in DOMAIN longer : i # j => CallsOf(longer[i]) \cap CallsOf(longer[j]) = {}
    BY <1>1, <1>2, <1>4, <2>2 DEF CarriedOnce
  <2> QED
    BY <2>1, <2>3 DEF CarriedOnce
<1> QED
  BY <1>3, <1>4 DEF longer

\* The queue split by a drain.
LEMMA CarriedSplit ==
  ASSUME NEW evs \in Seq(Event), NEW n \in 0..Len(evs)
  PROVE  LET first == SubSeq(evs, 1, n)
             rest == SubSeq(evs, n + 1, Len(evs))
         IN  /\ Carried(first) \subseteq Carried(evs) /\ Carried(rest) \subseteq Carried(evs)
             /\ CarriedOnce(evs) => /\ CarriedOnce(first) /\ CarriedOnce(rest)
                                    /\ Carried(first) \cap Carried(rest) = {}
<1> DEFINE first == SubSeq(evs, 1, n)
           rest == SubSeq(evs, n + 1, Len(evs))
<1>1. /\ Len(evs) \in Nat /\ n \in Nat /\ DOMAIN evs = 1..Len(evs)
      /\ \A i \in 1..Len(evs) : evs[i] \in Event
  BY LenProperties
<1>2. /\ first \in Seq(Event) /\ Len(first) = n
      /\ \A i \in 1..n : first[i] = evs[i]
  <2>1. \A i \in 1..n : evs[i] \in Event
    BY <1>1
  <2> QED
    BY <1>1, <2>1, SubSeqProperties
<1>3. /\ rest \in Seq(Event) /\ Len(rest) = Len(evs) - n
      /\ \A i \in 1..(Len(evs) - n) : rest[i] = evs[n + i]
  <2>1. /\ n + 1 \in Int /\ Len(evs) \in Int
        /\ \A i \in (n+1)..Len(evs) : evs[i] \in Event
    BY <1>1
  <2>2. /\ rest \in Seq(Event)
        /\ Len(rest) = IF n + 1 <= Len(evs) THEN Len(evs) - (n + 1) + 1 ELSE 0
        /\ \A i \in 1..(Len(evs) - (n + 1) + 1) : rest[i] = evs[(n + 1) + i - 1]
    BY <2>1, SubSeqProperties
  <2>3. Len(evs) - (n + 1) + 1 = Len(evs) - n /\ \A i \in Nat : (n + 1) + i - 1 = n + i
    BY <1>1
  <2> HIDE DEF rest
  <2>4. \A m, k \in Nat : k <= m => (IF k + 1 <= m THEN m - (k + 1) + 1 ELSE 0) = m - k
    OBVIOUS
  <2>5. n <= Len(evs) /\ Len(evs) \in Nat /\ n \in Nat
    BY <1>1
  <2>6. Len(rest) = Len(evs) - n
    BY <2>2, <2>4, <2>5
  <2>7. 1..(Len(evs) - (n + 1) + 1) = 1..(Len(evs) - n)
    BY <2>3
  <2>8. \A i \in 1..(Len(evs) - n) : i \in Nat
    BY <2>5
  <2>9. \A i \in 1..(Len(evs) - n) : rest[i] = evs[n + i]
    BY <2>2, <2>3, <2>7, <2>8
  <2> QED
    BY <2>2, <2>6, <2>9
<1> HIDE DEF first, rest
<1>4. \A i \in DOMAIN first : i \in DOMAIN evs /\ i <= n /\ first[i] = evs[i]
  BY <1>1, <1>2, LenProperties
<1>5. \A i \in DOMAIN rest : n + i \in DOMAIN evs /\ n + i > n /\ rest[i] = evs[n + i] /\ i \in Nat
  BY <1>1, <1>3, LenProperties
<1>6. Carried(first) \subseteq Carried(evs) /\ Carried(rest) \subseteq Carried(evs)
  BY <1>4, <1>5 DEF Carried
<1>7. ASSUME CarriedOnce(evs)
      PROVE  CarriedOnce(first) /\ CarriedOnce(rest) /\ Carried(first) \cap Carried(rest) = {}
  <2>1. CarriedOnce(first)
    BY <1>4, <1>7 DEF CarriedOnce
  <2>2. \A i, j \in DOMAIN rest : i # j => n + i # n + j
    BY <1>1, <1>5
  <2>3. CarriedOnce(rest)
    BY <1>5, <1>7, <2>2 DEF CarriedOnce
  <2>4. \A i \in DOMAIN first, j \in DOMAIN rest : i # n + j
    BY <1>1, <1>4, <1>5
  <2>5. \A i \in DOMAIN first, j \in DOMAIN rest : CallsOf(first[i]) \cap CallsOf(rest[j]) = {}
    BY <1>4, <1>5, <1>7, <2>4 DEF CarriedOnce
  <2> QED
    BY <2>1, <2>3, <2>5 DEF Carried
<1> QED
  BY <1>6, <1>7 DEF first, rest

-----------------------------------------------------------------------------
(* How the steps move the calls *)

\* Calls may be forgotten: by the batch, by the worker, by the loop.
LEMMA CustodyForget ==
  ASSUME NEW b, NEW q, NEW w, NEW l, NEW s, NEW a, Custody(b, q, w, l, s, a)
  PROVE  /\ Custody(<<>>, q, w, l, s, a)
         /\ Custody(b, q, <<>>, l, s, a)
         /\ Custody(b, q, w, <<>>, s, a)
BY CarriedNothing DEF Custody

\* The head of the batch is dropped.
LEMMA CustodyNext ==
  ASSUME NEW b \in Seq(Event), NEW q, NEW w, NEW l, NEW s, NEW a,
         Custody(b, q, w, l, s, a), b # <<>>
  PROVE  Custody(Tail(b), q, w, l, s, a)
<1>1. Carried(Tail(b)) \subseteq Carried(b) /\ (CarriedOnce(b) => CarriedOnce(Tail(b)))
  BY CarriedTail
<1> QED
  BY <1>1 DEF Custody

\* The runtime enters the loop over the calls of the head of the batch.
LEMMA CustodyLoop ==
  ASSUME NEW b \in Seq(Event), NEW q, NEW w, NEW l, NEW s, NEW a,
         Custody(b, q, w, l, s, a), b # <<>>
  PROVE  Custody(Tail(b), q, w, Head(b).calls, s, a)
<1>1. /\ CallsOf(Head(b)) \subseteq Carried(b) /\ Carried(Tail(b)) \subseteq Carried(b)
      /\ CarriedOnce(Tail(b)) /\ NoRepeat(Head(b).calls)
      /\ CallsOf(Head(b)) \cap Carried(Tail(b)) = {}
  BY CarriedTail DEF Custody
<1>2. Elements(Head(b).calls) = CallsOf(Head(b))
  BY CarriedNothing
<1> HIDE DEF Custody
<1> QED
  BY <1>1, <1>2 DEF Custody

\* An event without calls is posted.
LEMMA CustodyNotice ==
  ASSUME NEW b, NEW q \in Seq(Event), NEW w, NEW l, NEW s, NEW a,
         Custody(b, q, w, l, s, a), NEW e \in Event, e.calls = <<>>
  PROVE  Custody(b, Append(q, e), w, l, s, a)
<1>1. CallsOf(e) = {} /\ NoRepeat(e.calls)
  BY CarriedNothing
<1>2. Carried(Append(q, e)) = Carried(q) /\ (CarriedOnce(q) => CarriedOnce(Append(q, e)))
  BY <1>1, CarriedAppend
<1> QED
  BY <1>2 DEF Custody

\* The worker posts what it holds.
LEMMA CustodyPost ==
  ASSUME NEW b, NEW q \in Seq(Event), NEW e \in Event, NEW l, NEW s, NEW a,
         Custody(b, q, <<e>>, l, s, a)
  PROVE  Custody(b, Append(q, e), <<>>, l, s, a)
<1>1. Carried(<<e>>) = CallsOf(e) /\ (CarriedOnce(<<e>>) <=> NoRepeat(e.calls))
  BY CarriedByOne
<1>2. /\ Carried(Append(q, e)) = Carried(q) \cup CallsOf(e)
      /\ CarriedOnce(Append(q, e))
  BY <1>1, CarriedAppend DEF Custody
<1> QED
  BY <1>1, <1>2, CarriedNothing DEF Custody

\* The timer drains the queue.
LEMMA CustodyDrain ==
  ASSUME NEW b, NEW q \in Seq(Event), NEW w, NEW l, NEW s, NEW a,
         Custody(b, q, w, l, s, a), NEW n \in 0..Len(q)
  PROVE  Custody(SubSeq(q, 1, n), SubSeq(q, n + 1, Len(q)), w, l, s, a)
<1> DEFINE first == SubSeq(q, 1, n)
           rest == SubSeq(q, n + 1, Len(q))
<1>1. /\ Carried(first) \subseteq Carried(q) /\ Carried(rest) \subseteq Carried(q)
      /\ CarriedOnce(first) /\ CarriedOnce(rest) /\ Carried(first) \cap Carried(rest) = {}
  BY CarriedSplit DEF Custody
<1> HIDE DEF first, rest
<1>2. Custody(first, rest, w, l, s, a)
  BY <1>1 DEF Custody
<1> QED
  BY <1>2 DEF first, rest

\* The first call of the loop is executed or shown.
LEMMA CustodySpend ==
  ASSUME NEW b, NEW q, NEW w, NEW l \in Seq(Call), NEW s, NEW a,
         Custody(b, q, w, l, s, a), l # <<>>
  PROVE  Head(l) \notin s /\ Custody(b, q, w, Tail(l), s \cup {Head(l)}, a)
<1>1. /\ DOMAIN l = 1..Len(l) /\ Len(l) \in Nat /\ Len(l) > 0
      /\ DOMAIN Tail(l) = 1..(Len(l) - 1)
      /\ \A i \in 1..(Len(l) - 1) : Tail(l)[i] = l[i + 1]
  BY LenProperties, EmptySeq, HeadTailProperties
<1>2. /\ Head(l) = l[1] /\ 1 \in DOMAIN l
      /\ \A i \in DOMAIN Tail(l) : i + 1 \in DOMAIN l /\ i + 1 # 1 /\ Tail(l)[i] = l[i + 1]
      /\ \A i, j \in DOMAIN Tail(l) : i + 1 = j + 1 => i = j
  BY <1>1
<1>3. NoRepeat(l)
  BY DEF Custody
<1>4. NoRepeat(Tail(l))
  BY <1>2, <1>3 DEF NoRepeat
<1>5. /\ Head(l) \in Elements(l) /\ Elements(Tail(l)) \subseteq Elements(l)
      /\ Head(l) \notin Elements(Tail(l))
  BY <1>2, <1>3 DEF Elements, NoRepeat
<1> QED
  BY <1>4, <1>5 DEF Custody

\* The model answers: new calls appear, with the number of the new reply.
LEMMA CustodyReply ==
  ASSUME NEW b, NEW q, NEW w, NEW l, NEW s, NEW a \in Nat,
         Custody(b, q, w, l, s, a), NEW e \in Event,
         \A c \in CallsOf(e) : c.ask = a + 1,
         \A c \in Carried(b) \cup Carried(q) \cup Elements(l) \cup s : c.ask \in Nat,
         NoRepeat(e.calls)
  PROVE  Custody(b, q, <<e>>, l, s, a + 1)
<1>1. Carried(<<e>>) = CallsOf(e) /\ CarriedOnce(<<e>>)
  BY CarriedByOne
<1>2. \A c \in Carried(b) \cup Carried(q) \cup Elements(l) \cup s :
         c.ask <= a /\ c.ask # a + 1 /\ c.ask <= a + 1
  BY DEF Custody
<1>3. (Carried(b) \cup Carried(q) \cup Elements(l) \cup s) \cap CallsOf(e) = {}
  BY <1>2
<1>4. \A c \in Carried(b) \cup Carried(q) \cup CallsOf(e) \cup Elements(l) \cup s : c.ask <= a + 1
  BY <1>2
<1> QED
  BY <1>1, <1>3, <1>4 DEF Custody


-----------------------------------------------------------------------------
(* The invariant behind RunsOnce *)

RanCalls(r) == {r[n].call : n \in DOMAIN r}
Posted == IF worker.pc = "post" THEN <<worker.event>> ELSE <<>>
SpentCalls == Elements(cards) \cup RanCalls(ran)
HeldOnce == Custody(batch, event_queue, Posted, calls, SpentCalls, asked)

\* A pending decision is about the call its card shows, which has not run.
Shown(p) == p.id \in DOMAIN cards /\ cards[p.id] = p.call /\ p.call \notin RanCalls(ran)

\* RunsOnce is not inductive: the next call to run must be known not to have run
\* before.  It comes from the loop, which holds it alone, or from a pending
\* decision, whose card no other decision shares.
OnceInv ==
  /\ TypeInv
  /\ HeldOnce
  /\ NoRepeat(cards)
  /\ RunsOnce
  /\ \A p \in {pending_approval, pending_plan} \ {None} : Shown(p)
  /\ pending_approval # None /\ pending_plan # None => pending_approval.id # pending_plan.id

\* Nothing is posted but events without calls.
QueueGrows ==
  \/ UNCHANGED event_queue
  \/ \E e \in Event : e.calls = <<>> /\ event_queue' = Append(event_queue, e)

\* A turn that fails, a request and a prompt post at most an error.
LEMMA RequestsPostNoCalls ==
  ASSUME TypeInv
  PROVE  /\ turn # 0 /\ FailTurn => QueueGrows
         /\ \A conv : turn # 0 /\ SendRequest(conv) => QueueGrows
         /\ \A conv : turn # 0 /\ FillAndContinue(conv) => QueueGrows
         /\ StartPrompt => QueueGrows
<1>1. \A t \in Ids : ErrorEvent(t) \in Event /\ ErrorEvent(t).calls = <<>>
  BY EventsTyped DEF ErrorEvent
<1>2. (turn # 0 => turn \in Ids) /\ turn_counter + 1 \in Ids
  BY DEF TypeInv, TypeOK, Ids
<1>3. turn # 0 /\ FailTurn => QueueGrows
  BY <1>1, <1>2 DEF FailTurn, QueueGrows
<1>4. \A conv : turn # 0 /\ SendRequest(conv) => QueueGrows
  BY <1>3 DEF SendRequest, QueueGrows
<1>5. ASSUME NEW conv, turn # 0, FillAndContinue(conv) PROVE QueueGrows
  <2>1. PICK i \in 0..Len(conv) : conversation' = FillFrom(conv, i) /\ SendRequest(conversation')
    BY <1>5 DEF FillAndContinue
  <2> QED
    BY <1>4, <1>5, <2>1
<1>6. ASSUME StartPrompt PROVE QueueGrows
  <2>1. \/ UNCHANGED event_queue
        \/ event_queue' = Append(event_queue, ErrorEvent(turn_counter + 1))
    BY <1>6 DEF StartPrompt
  <2> QED
    BY <1>1, <1>2, <2>1 DEF QueueGrows
<1> QED
  BY <1>3, <1>4, <1>5, <1>6

\* Custody survives a step that forgets calls and posts no new ones.
LEMMA QuietCustody ==
  ASSUME TypeInv, NEW l, NEW s, Custody(batch, event_queue, Posted, l, s, asked),
         batch' = batch \/ batch' = <<>> \/ (batch # <<>> /\ batch' = Tail(batch)),
         Posted' = Posted \/ Posted' = <<>>,
         QueueGrows
  PROVE  /\ Custody(batch', event_queue', Posted', l, s, asked)
         /\ Custody(batch', event_queue', Posted', <<>>, s, asked)
<1>1. batch \in Seq(Event) /\ event_queue \in Seq(Event)
  BY DEF TypeInv, TypeOK
<1>2. Custody(batch', event_queue, Posted, l, s, asked)
  BY <1>1, CustodyForget, CustodyNext
<1>3. Custody(batch', event_queue', Posted, l, s, asked)
  BY <1>1, <1>2, CustodyNotice DEF QueueGrows
<1>4. Custody(batch', event_queue', Posted', l, s, asked)
  BY <1>3, CustodyForget
<1> QED
  BY <1>4, CustodyForget

\* One more call executed, one more card.
LEMMA HistoryAppend ==
  ASSUME TypeOK, NEW call \in Call
  PROVE  /\ \A ok \in BOOLEAN :
              LET longer == Append(ran, [call |-> call, ok |-> ok])
              IN  /\ RanCalls(longer) = RanCalls(ran) \cup {call}
                  /\ RunsOnce /\ call \notin RanCalls(ran) =>
                       \A m, n \in DOMAIN longer : m # n => longer[m].call # longer[n].call
         /\ Elements(Append(cards, call)) = Elements(cards) \cup {call}
         /\ NoRepeat(cards) /\ call \notin Elements(cards) => NoRepeat(Append(cards, call))
         /\ DOMAIN cards = 1..Len(cards) /\ Len(cards) \in Nat
         /\ DOMAIN Append(cards, call) = DOMAIN cards \cup {Len(cards) + 1}
         /\ \A i \in DOMAIN cards : Append(cards, call)[i] = cards[i]
         /\ Append(cards, call)[Len(cards) + 1] = call
         /\ Len(cards) + 1 \notin DOMAIN cards
<1>1. ran \in Seq(Run) /\ cards \in Seq(Call)
  BY DEF TypeOK
<1>2. ASSUME NEW ok \in BOOLEAN
      PROVE  LET longer == Append(ran, [call |-> call, ok |-> ok])
             IN  /\ RanCalls(longer) = RanCalls(ran) \cup {call}
                 /\ RunsOnce /\ call \notin RanCalls(ran) =>
                      \A m, n \in DOMAIN longer : m # n => longer[m].call # longer[n].call
  <2> DEFINE x == [call |-> call, ok |-> ok]
             longer == Append(ran, x)
  <2>1. x \in Run /\ x.call = call
    BY DEF Run
  <2>2. /\ Len(ran) \in Nat /\ DOMAIN ran = 1..Len(ran)
        /\ longer \in Seq(Run) /\ Len(longer) = Len(ran) + 1
        /\ \A i \in 1..Len(ran) : longer[i] = ran[i]
        /\ longer[Len(ran) + 1] = x
    BY <1>1, <2>1, LenProperties, AppendProperties
  <2>3. /\ DOMAIN longer = DOMAIN ran \cup {Len(ran) + 1}
        /\ \A i \in DOMAIN ran : longer[i] = ran[i] /\ i # Len(ran) + 1
    BY <2>2, LenProperties
  <2> HIDE DEF longer, x
  <2>4. RanCalls(longer) = RanCalls(ran) \cup {call}
    BY <2>1, <2>2, <2>3 DEF RanCalls
  <2>5. ASSUME RunsOnce, call \notin RanCalls(ran)
        PROVE  \A m, n \in DOMAIN longer : m # n => longer[m].call # longer[n].call
    BY <2>1, <2>2, <2>3, <2>5 DEF RunsOnce, RanCalls
  <2> QED
    BY <2>4, <2>5 DEF longer, x
<1>3. /\ DOMAIN cards = 1..Len(cards) /\ Len(cards) \in Nat
      /\ DOMAIN Append(cards, call) = DOMAIN cards \cup {Len(cards) + 1}
      /\ \A i \in DOMAIN cards : Append(cards, call)[i] = cards[i]
      /\ Append(cards, call)[Len(cards) + 1] = call
      /\ Len(cards) + 1 \notin DOMAIN cards
  <2> DEFINE longer == Append(cards, call)
  <2>1. /\ Len(cards) \in Nat /\ DOMAIN cards = 1..Len(cards)
        /\ longer \in Seq(Call) /\ Len(longer) = Len(cards) + 1
        /\ \A i \in 1..Len(cards) : longer[i] = cards[i]
        /\ longer[Len(cards) + 1] = call
    BY <1>1, LenProperties, AppendProperties
  <2> HIDE DEF longer
  <2>2. DOMAIN longer = DOMAIN cards \cup {Len(cards) + 1} /\ Len(cards) + 1 \notin DOMAIN cards
    BY <2>1, LenProperties
  <2> QED
    BY <2>1, <2>2 DEF longer
<1>4. Elements(Append(cards, call)) = Elements(cards) \cup {call}
  BY <1>3 DEF Elements
<1>5. NoRepeat(cards) /\ call \notin Elements(cards) => NoRepeat(Append(cards, call))
  BY <1>3 DEF NoRepeat, Elements
<1> QED
  BY <1>2, <1>3, <1>4, <1>5


\* A step that executes nothing, shows nothing and drops decisions at most.
LEMMA QuietStep ==
  ASSUME OnceInv, TypeInv', UNCHANGED <<cards, ran, asked>>,
         pending_approval' \in {pending_approval, None},
         pending_plan' \in {pending_plan, None},
         batch' = batch \/ batch' = <<>> \/ (batch # <<>> /\ batch' = Tail(batch)),
         calls' = calls \/ calls' = <<>>,
         Posted' = Posted \/ Posted' = <<>>,
         QueueGrows
  PROVE  OnceInv'
<1>1. Custody(batch, event_queue, Posted, calls, SpentCalls, asked) /\ TypeInv
  BY DEF OnceInv, HeldOnce
<1>2. /\ Custody(batch', event_queue', Posted', calls, SpentCalls, asked)
      /\ Custody(batch', event_queue', Posted', <<>>, SpentCalls, asked)
  BY <1>1, QuietCustody
<1>3. SpentCalls' = SpentCalls
  BY DEF SpentCalls, RanCalls, Elements
<1>4. Custody(batch', event_queue', Posted', calls', SpentCalls', asked')
  BY <1>2, <1>3
<1>5. HeldOnce'
  BY <1>4 DEF HeldOnce
<1>6. \A p : Shown(p) => Shown(p)'
  BY DEF Shown, RanCalls
<1> QED
  BY <1>5, <1>6 DEF OnceInv, RunsOnce, NoRepeat

\* A pending call runs on the user's approval.
LEMMA ApprovedStep ==
  ASSUME OnceInv, TypeInv', NEW p \in {pending_approval, pending_plan} \ {None},
         NEW ok \in BOOLEAN,
         ran' = Append(ran, [call |-> p.call, ok |-> ok]),
         UNCHANGED <<cards, asked, batch, calls, worker>>,
         pending_approval' = IF p = pending_approval THEN None ELSE pending_approval,
         pending_plan' = IF p = pending_plan THEN None ELSE pending_plan,
         QueueGrows
  PROVE  OnceInv'
<1>1. TypeInv /\ TypeOK /\ HeldOnce /\ NoRepeat(cards) /\ RunsOnce /\ Shown(p)
  BY DEF OnceInv, TypeInv
<1>2. p.call \in Call
  BY <1>1 DEF TypeOK, Pending
<1>3. /\ RanCalls(ran') = RanCalls(ran) \cup {p.call}
      /\ RunsOnce'
  BY <1>1, <1>2, HistoryAppend DEF RunsOnce, Shown
<1>4. SpentCalls' = SpentCalls
  BY <1>1, <1>3 DEF SpentCalls, Shown, Elements
<1>5. Custody(batch, event_queue', Posted, calls, SpentCalls, asked)
  <2>1. Posted' = Posted /\ batch' = batch
    BY DEF Posted
  <2>2. Custody(batch, event_queue, Posted, calls, SpentCalls, asked)
    BY <1>1 DEF HeldOnce
  <2>3. Custody(batch', event_queue', Posted', calls, SpentCalls, asked)
    BY <1>1, <2>1, <2>2, QuietCustody
  <2> QED
    BY <2>1, <2>3
<1>6. HeldOnce'
  BY <1>4, <1>5 DEF HeldOnce, Posted
<1>7. ASSUME NEW q \in {pending_approval', pending_plan'} \ {None} PROVE Shown(q)'
  <2>1. /\ q \in {pending_approval, pending_plan} \ {None} /\ q.id # p.id
    BY <1>7 DEF OnceInv
  <2>2. Shown(q) /\ Shown(p) /\ NoRepeat(cards)
    BY <2>1 DEF OnceInv
  <2>3. q.call # p.call
    BY <2>1, <2>2 DEF Shown, NoRepeat
  <2> QED
    BY <1>3, <2>2, <2>3 DEF Shown
<1> QED
  BY <1>1, <1>3, <1>6, <1>7 DEF OnceInv, NoRepeat

\* The next call of the loop is executed.
LEMMA RunStep ==
  ASSUME OnceInv, TypeInv', calls # <<>>, NEW ok \in BOOLEAN,
         ran' = Append(ran, [call |-> Head(calls), ok |-> ok]),
         UNCHANGED <<cards, asked, batch, worker, pending_approval, pending_plan>>,
         calls' = Tail(calls) \/ calls' = <<>>,
         QueueGrows
  PROVE  OnceInv'
<1>1. TypeInv /\ TypeOK /\ HeldOnce /\ NoRepeat(cards) /\ RunsOnce
  BY DEF OnceInv, TypeInv
<1>2. calls \in Seq(Call) /\ Head(calls) \in Call
  BY <1>1, HeadTailProperties DEF TypeOK
<1>3. /\ Head(calls) \notin SpentCalls
      /\ Custody(batch, event_queue, Posted, Tail(calls), SpentCalls \cup {Head(calls)}, asked)
  BY <1>1, <1>2, CustodySpend DEF HeldOnce
<1>4. /\ RanCalls(ran') = RanCalls(ran) \cup {Head(calls)}
      /\ RunsOnce'
  BY <1>1, <1>2, <1>3, HistoryAppend DEF RunsOnce, SpentCalls
<1>5. SpentCalls' = SpentCalls \cup {Head(calls)}
  BY <1>4 DEF SpentCalls, Elements
<1>6. /\ Custody(batch, event_queue', Posted, Tail(calls), SpentCalls', asked)
      /\ Custody(batch, event_queue', Posted, <<>>, SpentCalls', asked)
  <2>1. Posted' = Posted /\ batch' = batch
    BY DEF Posted
  <2>2. Custody(batch, event_queue, Posted, Tail(calls), SpentCalls', asked)
    BY <1>3, <1>5
  <2>3. /\ Custody(batch', event_queue', Posted', Tail(calls), SpentCalls', asked)
        /\ Custody(batch', event_queue', Posted', <<>>, SpentCalls', asked)
    BY <1>1, <2>1, <2>2, QuietCustody
  <2> QED
    BY <2>1, <2>3
<1>7. HeldOnce'
  BY <1>6 DEF HeldOnce, Posted
<1>8. \A p \in {pending_approval, pending_plan} \ {None} : Shown(p)'
  <2> TAKE p \in {pending_approval, pending_plan} \ {None}
  <2>1. Shown(p)
    BY DEF OnceInv
  <2>2. p.call \in Elements(cards)
    BY <2>1 DEF Shown, Elements
  <2> QED
    BY <1>3, <1>4, <2>1, <2>2 DEF Shown, SpentCalls
<1> QED
  BY <1>1, <1>4, <1>7, <1>8 DEF OnceInv, NoRepeat

\* A card is shown for the next call of the loop, and the loop is left.
LEMMA CardStep ==
  ASSUME OnceInv, TypeInv', calls # <<>>,
         cards' = Append(cards, Head(calls)),
         UNCHANGED <<ran, asked, batch, worker, event_queue>>,
         calls' = <<>>,
         \/ pending_approval' = Decision(Head(calls)) /\ pending_plan' = pending_plan
         \/ pending_plan' = Decision(Head(calls)) /\ pending_approval' = pending_approval
  PROVE  OnceInv'
<1>1. TypeInv /\ TypeOK /\ HeldOnce /\ NoRepeat(cards) /\ RunsOnce
  BY DEF OnceInv, TypeInv
<1>2. calls \in Seq(Call) /\ Head(calls) \in Call
  BY <1>1, HeadTailProperties DEF TypeOK
<1>3. /\ Head(calls) \notin SpentCalls
      /\ Custody(batch, event_queue, Posted, Tail(calls), SpentCalls \cup {Head(calls)}, asked)
  BY <1>1, <1>2, CustodySpend DEF HeldOnce
<1>4. /\ Elements(cards') = Elements(cards) \cup {Head(calls)} /\ NoRepeat(cards')
      /\ DOMAIN cards' = DOMAIN cards \cup {Len(cards) + 1} /\ Len(cards) + 1 \notin DOMAIN cards
      /\ \A i \in DOMAIN cards : cards'[i] = cards[i]
      /\ cards'[Len(cards) + 1] = Head(calls)
  BY <1>1, <1>2, <1>3, HistoryAppend DEF SpentCalls
<1>5. SpentCalls' = SpentCalls \cup {Head(calls)}
  BY <1>4 DEF SpentCalls, RanCalls
<1>6. Custody(batch, event_queue, Posted, <<>>, SpentCalls', asked)
  BY <1>3, <1>5, CustodyForget
<1>7. HeldOnce'
  BY <1>6 DEF HeldOnce, Posted
<1>8. \A p \in {pending_approval, pending_plan} \ {None} : Shown(p)' /\ p.id # Len(cards) + 1
  BY <1>4 DEF OnceInv, Shown, RanCalls
<1>9. /\ Decision(Head(calls)).id = Len(cards) + 1
      /\ Decision(Head(calls)).call = Head(calls)
  BY DEF Decision
<1>10. ASSUME NEW d, d = Decision(Head(calls)) PROVE Shown(d)'
  <2>1. Head(calls) \notin RanCalls(ran)
    BY <1>3 DEF SpentCalls
  <2> QED
    BY <1>4, <1>9, <1>10, <2>1 DEF Shown, RanCalls
<1>11. ASSUME NEW p \in {pending_approval', pending_plan'} \ {None} PROVE Shown(p)'
  <2>1. p \in {pending_approval, pending_plan} \ {None} \/ p = Decision(Head(calls))
    BY <1>11
  <2> QED
    BY <1>8, <1>10, <2>1
<1>12. pending_approval' # None /\ pending_plan' # None => pending_approval'.id # pending_plan'.id
  BY <1>8, <1>9
<1>13. RunsOnce'
  BY <1>1 DEF RunsOnce
<1> QED
  BY <1>4, <1>7, <1>11, <1>12, <1>13 DEF OnceInv


\* A low-risk plan is executed without a card on the screen.
LEMMA AutoApproveStep ==
  ASSUME OnceInv, TypeInv', AutoApprovePlan
  PROVE  OnceInv'
<1>1. TypeInv /\ TypeOK /\ HeldOnce /\ NoRepeat(cards) /\ RunsOnce
  BY DEF OnceInv, TypeInv
<1>2. /\ calls # <<>> /\ turn # 0 /\ calls' = <<>> /\ cards' = Append(cards, Head(calls))
      /\ pending_plan' = None /\ UNCHANGED <<pending_approval, asked, batch, worker>>
      /\ \E conv : SendRequest(conv)
  BY <1>1 DEF AutoApprovePlan, LeaveLoop, TypeInv
<1>3. calls \in Seq(Call) /\ Head(calls) \in Call
  BY <1>1, <1>2, HeadTailProperties DEF TypeOK
<1>4. PICK ok \in BOOLEAN : ran' = Append(ran, [call |-> Head(calls), ok |-> ok])
  BY DEF AutoApprovePlan, ExecutePlan
<1>5. /\ Head(calls) \notin SpentCalls
      /\ Custody(batch, event_queue, Posted, Tail(calls), SpentCalls \cup {Head(calls)}, asked)
  BY <1>1, <1>2, <1>3, CustodySpend DEF HeldOnce
<1>6. RanCalls(ran') = RanCalls(ran) \cup {Head(calls)} /\ RunsOnce'
  BY <1>1, <1>3, <1>4, <1>5, HistoryAppend DEF RunsOnce, SpentCalls
<1>7. /\ Elements(cards') = Elements(cards) \cup {Head(calls)} /\ NoRepeat(cards')
      /\ DOMAIN cards' = DOMAIN cards \cup {Len(cards) + 1}
      /\ \A i \in DOMAIN cards : cards'[i] = cards[i]
  BY <1>1, <1>2, <1>3, <1>5, HistoryAppend DEF SpentCalls
<1>8. SpentCalls' = SpentCalls \cup {Head(calls)}
  BY <1>6, <1>7 DEF SpentCalls
<1>9. HeldOnce'
  <2>1. Posted' = Posted /\ batch' = batch
    BY <1>2 DEF Posted
  <2>2. Custody(batch, event_queue, Posted, Tail(calls), SpentCalls', asked)
    BY <1>5, <1>8
  <2>3. QueueGrows
    BY <1>1, <1>2, RequestsPostNoCalls
  <2>4. Custody(batch', event_queue', Posted', <<>>, SpentCalls', asked)
    BY <1>1, <2>1, <2>2, <2>3, QuietCustody
  <2> QED
    BY <1>2, <2>4 DEF HeldOnce
<1>10. ASSUME NEW p \in {pending_approval', pending_plan'} \ {None} PROVE Shown(p)'
  <2>1. p \in {pending_approval, pending_plan} \ {None}
    BY <1>2, <1>10
  <2>2. Shown(p)
    BY <2>1 DEF OnceInv
  <2>3. p.call \in Elements(cards)
    BY <2>2 DEF Shown, Elements
  <2> QED
    BY <1>5, <1>6, <1>7, <2>2, <2>3 DEF Shown, SpentCalls
<1> QED
  BY <1>2, <1>6, <1>7, <1>9, <1>10 DEF OnceInv

\* Custody when only the calls in flight move.
LEMMA FlightStep ==
  ASSUME OnceInv, TypeInv', UNCHANGED <<cards, ran, pending_approval, pending_plan>>, HeldOnce'
  PROVE  OnceInv'
<1>1. \A p : Shown(p) => Shown(p)'
  BY DEF Shown, RanCalls
<1> QED
  BY <1>1 DEF OnceInv, RunsOnce, NoRepeat

\* The spent calls and the calls in flight are calls.
LEMMA CallsTyped ==
  /\ \A evs \in Seq(Event) : Carried(evs) \subseteq Call
  /\ \A cs \in Seq(Call) : Elements(cs) \subseteq Call
  /\ TypeOK => SpentCalls \subseteq Call
<1>1. \A cs \in Seq(Call) : Elements(cs) \subseteq Call
  BY LenProperties DEF Elements
<1>2. ASSUME NEW evs \in Seq(Event) PROVE Carried(evs) \subseteq Call
  <2>1. \A i \in DOMAIN evs : evs[i] \in Event
    BY LenProperties
  <2>2. \A i \in DOMAIN evs : evs[i].calls \in Seq(Call)
    BY <2>1 DEF Event
  <2>3. \A i \in DOMAIN evs : CallsOf(evs[i]) \subseteq Call
    BY <1>1, <2>2, CarriedNothing
  <2> QED
    BY <2>3 DEF Carried
<1>3. ASSUME TypeOK PROVE SpentCalls \subseteq Call
  <2>1. ran \in Seq(Run) /\ cards \in Seq(Call)
    BY <1>3 DEF TypeOK
  <2>2. \A n \in DOMAIN ran : ran[n] \in Run
    BY <2>1, LenProperties
  <2> QED
    BY <1>1, <2>1, <2>2 DEF SpentCalls, RanCalls, Run
<1> QED
  BY <1>1, <1>2, <1>3

\* The worker receives, and posts.
LEMMA ReceiveStep ==
  ASSUME OnceInv, TypeInv', WorkerReceive
  PROVE  OnceInv'
<1>1. TypeInv /\ TypeOK /\ HeldOnce
  BY DEF OnceInv, TypeInv
<1>2. /\ worker.pc = "busy" /\ worker \in Worker /\ asked \in Nat /\ worker.turn \in Ids
      /\ UNCHANGED <<batch, event_queue, calls, cards, ran, pending_approval, pending_plan>>
  BY <1>1 DEF WorkerReceive, TypeInv, TypeOK, Worker, Ids, main, history, gate
<1>3. SpentCalls' = SpentCalls /\ Posted = <<>>
  BY <1>2 DEF SpentCalls, Elements, RanCalls, Posted
<1>4. Custody(batch, event_queue, <<>>, calls, SpentCalls, asked)
  BY <1>1, <1>3 DEF HeldOnce
<1>5. ASSUME NEW e \in Event, worker'.pc = "post", worker'.event = e,
             Custody(batch, event_queue, <<e>>, calls, SpentCalls, asked')
      PROVE  OnceInv'
  <2>1. Posted' = <<e>>
    BY <1>5 DEF Posted
  <2>2. HeldOnce'
    BY <1>2, <1>3, <1>5, <2>1 DEF HeldOnce
  <2> QED
    BY <1>2, <2>2, FlightStep
<1>6. ASSUME NEW e \in Event, e.calls = <<>>, worker'.pc = "post", worker'.event = e, asked' = asked
      PROVE  OnceInv'
  <2>1. Carried(<<e>>) = {} /\ CarriedOnce(<<e>>)
    BY <1>6, CarriedByOne, CarriedNothing
  <2>2. Custody(batch, event_queue, <<e>>, calls, SpentCalls, asked)
    BY <1>4, <2>1, CarriedNothing DEF Custody
  <2> QED
    BY <1>5, <1>6, <2>2
<1>7. CASE /\ worker' = [worker EXCEPT !.pc = "post", !.deltas = @ + 1,
                                      !.event = DeltaEvent(worker.turn)]
           /\ UNCHANGED asked
  <2>1. DeltaEvent(worker.turn) \in Event /\ DeltaEvent(worker.turn).calls = <<>>
    BY <1>2, EventsTyped DEF DeltaEvent
  <2>2. worker'.pc = "post" /\ worker'.event = DeltaEvent(worker.turn)
    BY <1>2, <1>7 DEF Worker
  <2> QED
    BY <1>6, <1>7, <2>1, <2>2
<1>8. CASE /\ worker' = [worker EXCEPT !.pc = "post", !.event = ErrorEvent(worker.turn)]
           /\ UNCHANGED asked
  <2>1. ErrorEvent(worker.turn) \in Event /\ ErrorEvent(worker.turn).calls = <<>>
    BY <1>2, EventsTyped DEF ErrorEvent
  <2>2. worker'.pc = "post" /\ worker'.event = ErrorEvent(worker.turn)
    BY <1>2, <1>8 DEF Worker
  <2> QED
    BY <1>6, <1>8, <2>1, <2>2
<1>9. ASSUME NEW kinds \in Replies,
             worker' = [worker EXCEPT !.pc = "post", !.event =
               ReplyEvent(worker.turn,
                 [k \in DOMAIN kinds |-> [ask |-> asked + 1, pos |-> k, turn |-> worker.turn,
                                          kind |-> kinds[k]]])],
             asked' = asked + 1
      PROVE  OnceInv'
  <2> DEFINE cs == [k \in DOMAIN kinds |-> [ask |-> asked + 1, pos |-> k, turn |-> worker.turn,
                                            kind |-> kinds[k]]]
             e == ReplyEvent(worker.turn, cs)
  <2>1. worker'.pc = "post" /\ worker'.event = e
    BY <1>2, <1>9 DEF Worker
  <2>2. e \in Event
    BY <2>1 DEF TypeInv
  <2>3. e.calls = cs /\ NoRepeat(cs) /\ \A c \in Elements(cs) : c.ask = asked + 1
    BY DEF ReplyEvent, NoRepeat, Elements
  <2> HIDE DEF cs, e
  <2>4. /\ NoRepeat(e.calls) /\ \A c \in CallsOf(e) : c.ask = asked + 1
    BY <2>3, CarriedNothing
  <2>5. \A c \in Carried(batch) \cup Carried(event_queue) \cup Elements(calls) \cup SpentCalls :
           c.ask \in Nat
    <3>1. batch \in Seq(Event) /\ event_queue \in Seq(Event) /\ calls \in Seq(Call)
      BY <1>1 DEF TypeOK
    <3>2. Carried(batch) \cup Carried(event_queue) \cup Elements(calls) \cup SpentCalls
            \subseteq Call
      BY <1>1, <3>1, CallsTyped
    <3> QED
      BY <3>2 DEF Call
  <2>6. Custody(batch, event_queue, <<e>>, calls, SpentCalls, asked + 1)
    BY <1>2, <1>4, <2>2, <2>4, <2>5, CustodyReply
  <2> QED
    BY <1>5, <1>9, <2>1, <2>2, <2>6
<1> QED
  BY <1>7, <1>8, <1>9 DEF WorkerReceive

LEMMA PostStep ==
  ASSUME OnceInv, TypeInv', WorkerPost
  PROVE  OnceInv'
<1>1. TypeInv /\ TypeOK /\ HeldOnce
  BY DEF OnceInv, TypeInv
<1>2. /\ worker.pc = "post" /\ worker.event \in Event /\ event_queue \in Seq(Event)
      /\ event_queue' = Append(event_queue, worker.event) /\ worker'.pc # "post"
      /\ UNCHANGED <<batch, calls, cards, ran, asked, pending_approval, pending_plan>>
  BY <1>1 DEF WorkerPost, TypeInv, TypeOK, Worker, IdleWorker, main, history, gate
<1>3. SpentCalls' = SpentCalls /\ Posted = <<worker.event>> /\ Posted' = <<>>
  BY <1>2 DEF SpentCalls, Elements, RanCalls, Posted
<1>4. Custody(batch, event_queue', <<>>, calls, SpentCalls, asked)
  BY <1>1, <1>2, <1>3, CustodyPost DEF HeldOnce
<1>5. HeldOnce'
  BY <1>2, <1>3, <1>4 DEF HeldOnce
<1> QED
  BY <1>2, <1>5, FlightStep

\* The timer drains the queue, and enters the loop over a reply.
LEMMA DrainStep ==
  ASSUME OnceInv, TypeInv', BeginTick
  PROVE  OnceInv'
<1>1. TypeInv /\ TypeOK /\ HeldOnce /\ event_queue \in Seq(Event)
  BY DEF OnceInv, TypeInv, TypeOK
<1>2. PICK n \in 0..Len(event_queue) :
        /\ batch' = SubSeq(event_queue, 1, n)
        /\ event_queue' = SubSeq(event_queue, n + 1, Len(event_queue))
  BY DEF BeginTick
<1>3. UNCHANGED <<worker, calls, cards, ran, asked, pending_approval, pending_plan>>
  BY DEF BeginTick, history, gate
<1>4. SpentCalls' = SpentCalls /\ Posted' = Posted
  BY <1>3 DEF SpentCalls, Elements, RanCalls, Posted
<1>5. Custody(batch', event_queue', Posted, calls, SpentCalls, asked)
  BY <1>1, <1>2, CustodyDrain DEF HeldOnce
<1>6. HeldOnce'
  BY <1>3, <1>4, <1>5 DEF HeldOnce
<1> QED
  BY <1>3, <1>6, FlightStep

LEMMA ToolReplyStep ==
  ASSUME OnceInv, TypeInv', HandleToolReply
  PROVE  OnceInv'
<1>1. TypeInv /\ TypeOK /\ HeldOnce /\ batch \in Seq(Event)
  BY DEF OnceInv, TypeInv, TypeOK
<1>2. /\ batch # <<>> /\ batch' = Tail(batch) /\ Head(batch).turn = turn
      /\ UNCHANGED <<worker, cards, ran, asked, pending_approval, pending_plan>>
  BY DEF HandleToolReply, Handling, history, gate
<1>3. turn # 0
  <2>1. Head(batch) \in Event
    BY <1>1, <1>2, HeadTailProperties
  <2> QED
    BY <1>2, <2>1 DEF Event, Ids
<1>4. SpentCalls' = SpentCalls /\ Posted' = Posted
  BY <1>2 DEF SpentCalls, Elements, RanCalls, Posted
<1>5. CASE tool_round' > MaxRounds
  <2>1. FailTurn /\ calls' = calls
    BY <1>5 DEF HandleToolReply
  <2>2. QueueGrows
    BY <1>1, <1>3, <2>1, RequestsPostNoCalls
  <2> QED
    BY <1>2, <1>4, <2>1, <2>2, QuietStep
<1>6. CASE ~(tool_round' > MaxRounds)
  <2>1. calls' = Head(batch).calls /\ event_queue' = event_queue
    BY <1>6 DEF HandleToolReply
  <2>2. Custody(Tail(batch), event_queue, Posted, Head(batch).calls, SpentCalls, asked)
    BY <1>1, <1>2, CustodyLoop DEF HeldOnce
  <2>3. HeldOnce'
    BY <1>2, <1>4, <2>1, <2>2 DEF HeldOnce
  <2> QED
    BY <1>2, <2>3, FlightStep
<1> QED
  BY <1>5, <1>6


-----------------------------------------------------------------------------
(* RunsOnce *)

LEMMA OnceInit == Init => OnceInv
<1> SUFFICES ASSUME Init PROVE OnceInv
  OBVIOUS
<1>1. TypeInv
  BY InitTyped
<1>2. /\ batch = <<>> /\ event_queue = <<>> /\ calls = <<>> /\ cards = <<>> /\ ran = <<>>
      /\ pending_approval = None /\ pending_plan = None /\ Posted = <<>>
  BY DEF Init, IdleWorker, Posted
<1>3. DOMAIN ran = {} /\ DOMAIN cards = {}
  BY <1>2
<1>4. SpentCalls = {} /\ NoRepeat(cards) /\ RunsOnce
  BY <1>3 DEF SpentCalls, Elements, RanCalls, NoRepeat, RunsOnce
<1>5. HeldOnce
  BY <1>2, <1>4, CarriedNothing DEF HeldOnce, Custody
<1> QED
  BY <1>1, <1>2, <1>4, <1>5 DEF OnceInv

LEMMA OnceUser ==
  ASSUME OnceInv, TypeInv', User
  PROVE  OnceInv'
<1>1. TypeInv /\ TypeOK
  BY DEF OnceInv, TypeInv
<1>2. CASE SubmitPrompt
  <2>1. UNCHANGED <<cards, ran, asked, pending_approval, pending_plan, batch, calls, worker>>
        /\ (StartPrompt \/ UNCHANGED event_queue)
    <3>1. CASE turn # 0 \/ Busy
      BY <1>2, <3>1 DEF SubmitPrompt, main, gate, history
    <3>2. CASE ~(turn # 0 \/ Busy)
      <4>1. StartPrompt /\ UNCHANGED main
        BY <1>2, <3>2 DEF SubmitPrompt
      <4> QED
        BY <1>1, <4>1, StartPromptTyped DEF main, gate, history
    <3> QED
      BY <3>1, <3>2
  <2>2. QueueGrows /\ Posted' = Posted
    BY <1>1, <2>1, RequestsPostNoCalls DEF QueueGrows, Posted
  <2> QED
    BY <2>1, <2>2, QuietStep
<1>3. CASE CancelTurn
  <2>1. /\ UNCHANGED <<cards, ran, asked, batch, calls, worker, event_queue>>
        /\ pending_approval' = None /\ pending_plan' = None
    BY <1>3 DEF CancelTurn, main, history
  <2>2. QueueGrows /\ Posted' = Posted
    BY <2>1 DEF QueueGrows, Posted
  <2> QED
    BY <2>1, <2>2, QuietStep
<1>4. CASE ClearHistory
  <2>1. UNCHANGED <<cards, ran, asked, pending_approval, pending_plan, batch, calls, worker,
                    event_queue>>
    BY <1>4 DEF ClearHistory, main, gate, history
  <2>2. QueueGrows /\ Posted' = Posted
    BY <2>1 DEF QueueGrows, Posted
  <2> QED
    BY <2>1, <2>2, QuietStep
<1>5. CASE LoadSession
  <2>1. /\ UNCHANGED <<cards, ran, asked, batch, calls, worker, event_queue>>
        /\ pending_approval' = None /\ pending_plan' = None
    BY <1>5 DEF LoadSession, main, history
  <2>2. QueueGrows /\ Posted' = Posted
    BY <2>1 DEF QueueGrows, Posted
  <2> QED
    BY <2>1, <2>2, QuietStep
<1>6. ASSUME NEW seen \in 1..Len(cards), NEW id \in 1..Len(cards), Approve(id, seen)
      PROVE  OnceInv'
  <2>1. /\ pending_approval # None /\ pending_approval' = None
        /\ UNCHANGED <<cards, asked, batch, calls, worker, pending_plan>>
    BY <1>6 DEF Approve, Answers, main
  <2>2. turn # 0
    BY <1>1, <1>6, AnswersTyped DEF Approve, TypeOK
  <2>3. PICK ok \in BOOLEAN :
          /\ ran' = Append(ran, [call |-> pending_approval.call, ok |-> ok])
          /\ FailTurn \/ \E conv : FillAndContinue(conv)
    BY <1>6 DEF Approve
  <2>4. QueueGrows
    BY <1>1, <2>2, <2>3, RequestsPostNoCalls
  <2>5. pending_plan # pending_approval
    BY <2>1 DEF OnceInv
  <2> QED
    BY <2>1, <2>3, <2>4, <2>5, ApprovedStep
<1>7. ASSUME NEW seen \in 1..Len(cards), NEW id \in 1..Len(cards), Reject(id, seen)
      PROVE  OnceInv'
  <2>1. /\ pending_approval' = None
        /\ UNCHANGED <<cards, ran, asked, batch, calls, worker, pending_plan>>
    BY <1>7 DEF Reject, main
  <2>2. turn # 0 /\ \E conv : FillAndContinue(conv)
    BY <1>1, <1>7, AnswersTyped DEF Reject, TypeOK
  <2>3. QueueGrows /\ Posted' = Posted
    BY <1>1, <2>1, <2>2, RequestsPostNoCalls DEF Posted
  <2> QED
    BY <2>1, <2>3, QuietStep
<1>8. ASSUME NEW seen \in 1..Len(cards), NEW id \in 1..Len(cards), ApprovePlan(id, seen)
      PROVE  OnceInv'
  <2>1. /\ pending_plan # None /\ pending_plan' = None
        /\ UNCHANGED <<cards, asked, batch, calls, worker, pending_approval>>
    BY <1>8 DEF ApprovePlan, Answers, main
  <2>2. turn # 0 /\ \E conv : SendRequest(conv)
    BY <1>1, <1>8, AnswersTyped DEF ApprovePlan, TypeOK
  <2>3. PICK ok \in BOOLEAN : ran' = Append(ran, [call |-> pending_plan.call, ok |-> ok])
    BY <1>8 DEF ApprovePlan, ExecutePlan
  <2>4. QueueGrows
    BY <1>1, <2>2, RequestsPostNoCalls
  <2>5. pending_approval # pending_plan
    BY <2>1 DEF OnceInv
  <2> QED
    BY <2>1, <2>3, <2>4, <2>5, ApprovedStep
<1>9. ASSUME NEW seen \in 1..Len(cards), NEW id \in 1..Len(cards), RejectPlan(id, seen)
      PROVE  OnceInv'
  <2>1. /\ pending_plan' = None
        /\ UNCHANGED <<cards, ran, asked, batch, calls, worker, pending_approval>>
    BY <1>9 DEF RejectPlan, main
  <2>2. turn # 0 /\ \E conv : SendRequest(conv)
    BY <1>1, <1>9, AnswersTyped DEF RejectPlan, TypeOK
  <2>3. QueueGrows /\ Posted' = Posted
    BY <1>1, <2>1, <2>2, RequestsPostNoCalls DEF Posted
  <2> QED
    BY <2>1, <2>3, QuietStep
<1> QED
  BY <1>2, <1>3, <1>4, <1>5, <1>6, <1>7, <1>8, <1>9 DEF User

LEMMA OnceTimer ==
  ASSUME OnceInv, TypeInv', Timer
  PROVE  OnceInv'
<1>1. TypeInv /\ TypeOK
  BY DEF OnceInv, TypeInv
<1>2. CASE EndTick
  <2>1. UNCHANGED <<cards, ran, asked, pending_approval, pending_plan, batch, calls, worker>>
        /\ (StartPrompt \/ UNCHANGED event_queue)
    <3>1. CASE ~CanPump
      BY <1>2, <3>1 DEF EndTick, gate, history
    <3>2. CASE CanPump
      <4>1. StartPrompt /\ UNCHANGED <<batch, calls>>
        BY <1>2, <3>2 DEF EndTick
      <4> QED
        BY <1>1, <4>1, StartPromptTyped DEF gate, history
    <3> QED
      BY <3>1, <3>2
  <2>2. QueueGrows /\ Posted' = Posted
    BY <1>1, <2>1, RequestsPostNoCalls DEF QueueGrows, Posted
  <2> QED
    BY <2>1, <2>2, QuietStep
<1>3. CASE DropStaleEvent \/ HandleDelta \/ HandleError \/ HandleFinalReply
  <2>1. /\ UNCHANGED <<cards, ran, asked, pending_approval, pending_plan, calls, worker,
                       event_queue>>
        /\ batch # <<>> /\ batch' = Tail(batch)
    BY <1>3 DEF DropStaleEvent, HandleDelta, HandleError, HandleFinalReply, Handling, gate, history
  <2>2. QueueGrows /\ Posted' = Posted
    BY <2>1 DEF QueueGrows, Posted
  <2> QED
    BY <2>1, <2>2, QuietStep
<1>4. CASE IllegalTransition
  <2>1. /\ UNCHANGED <<cards, ran, asked, pending_approval, pending_plan, calls, worker,
                       event_queue>>
        /\ batch' = <<>>
    BY <1>4 DEF IllegalTransition, gate, history
  <2>2. QueueGrows /\ Posted' = Posted
    BY <2>1 DEF QueueGrows, Posted
  <2> QED
    BY <2>1, <2>2, QuietStep
<1>5. CASE RunCall
  <2>1. /\ calls # <<>> /\ turn # 0
        /\ UNCHANGED <<cards, asked, batch, worker, pending_approval, pending_plan>>
    BY <1>1, <1>5 DEF RunCall, TypeInv, gate
  <2>2. PICK ok \in BOOLEAN :
          /\ ran' = Append(ran, [call |-> Head(calls), ok |-> ok])
          /\ \/ FailTurn /\ calls' = <<>>
             \/ calls' = Tail(calls) /\ UNCHANGED event_queue
    BY <1>5 DEF RunCall, LeaveLoop
  <2>3. QueueGrows
    BY <1>1, <2>1, <2>2, RequestsPostNoCalls DEF QueueGrows
  <2> QED
    BY <2>1, <2>2, <2>3, RunStep
<1>6. CASE AskUser
  <2>1. /\ calls # <<>> /\ calls' = <<>> /\ cards' = Append(cards, Head(calls))
        /\ UNCHANGED <<ran, asked, batch, worker, event_queue, pending_plan>>
        /\ pending_approval' = Decision(Head(calls))
    BY <1>6 DEF AskUser, ShowCard, LeaveLoop
  <2> QED
    BY <2>1, CardStep
<1>7. CASE ReviewPlan
  <2>1. /\ calls # <<>> /\ calls' = <<>> /\ cards' = Append(cards, Head(calls))
        /\ UNCHANGED <<ran, asked, batch, worker, event_queue, pending_approval>>
        /\ pending_plan' = Decision(Head(calls))
    BY <1>7 DEF ReviewPlan, ShowCard, LeaveLoop
  <2> QED
    BY <2>1, CardStep
<1>8. CASE RefusePlan \/ FinishLoop
  <2>1. /\ UNCHANGED <<cards, ran, asked, pending_approval, pending_plan, batch, worker>>
        /\ calls' = <<>> /\ turn # 0 /\ (FailTurn \/ \E conv : SendRequest(conv))
    BY <1>1, <1>8 DEF RefusePlan, FinishLoop, LeaveLoop, TypeInv, gate, history
  <2>2. QueueGrows /\ Posted' = Posted
    BY <1>1, <2>1, RequestsPostNoCalls DEF Posted
  <2> QED
    BY <2>1, <2>2, QuietStep
<1> QED
  BY <1>2, <1>3, <1>4, <1>5, <1>6, <1>7, <1>8, DrainStep, ToolReplyStep, AutoApproveStep DEF Timer

LEMMA OnceWorker ==
  ASSUME OnceInv, TypeInv', WorkerStep
  PROVE  OnceInv'
<1>1. CASE WorkerTake \/ WorkerAbandon
  <2>1. /\ UNCHANGED <<cards, ran, asked, pending_approval, pending_plan, batch, calls, event_queue>>
        /\ worker.pc # "post" /\ worker'.pc # "post"
    <3>1. CASE WorkerTake
      BY <3>1 DEF WorkerTake, IdleWorker, main, gate, history
    <3>2. CASE WorkerAbandon
      BY <3>2 DEF WorkerAbandon, IdleWorker, main, gate, history
    <3> QED
      BY <1>1, <3>1, <3>2
  <2>2. QueueGrows /\ Posted' = Posted
    BY <2>1 DEF QueueGrows, Posted
  <2> QED
    BY <2>1, <2>2, QuietStep
<1> QED
  BY <1>1, ReceiveStep, PostStep DEF WorkerStep

LEMMA OnceNext == OnceInv /\ [Next]_vars => OnceInv'
<1> SUFFICES ASSUME OnceInv, [Next]_vars PROVE OnceInv'
  OBVIOUS
<1>1. TypeInv'
  BY NextTyped DEF OnceInv
<1>2. CASE UNCHANGED vars
  <2>1. UNCHANGED <<cards, ran, asked, pending_approval, pending_plan, batch, calls, worker,
                    event_queue>>
    BY <1>2 DEF vars, main, gate, history
  <2>2. QueueGrows /\ Posted' = Posted
    BY <2>1 DEF QueueGrows, Posted
  <2> QED
    BY <1>1, <2>1, <2>2, QuietStep
<1> QED
  BY <1>1, <1>2, OnceUser, OnceTimer, OnceWorker DEF Next

\* No call of the model is executed twice, whatever the replies, the bounds and
\* the disturbances: a reply is handled once, a call of the loop runs or gets a
\* card, and a decision is answered once (approve, approve_plan).
THEOREM EachCallRunsOnce == Spec => []RunsOnce
<1>1. OnceInv => RunsOnce
  BY DEF OnceInv
<1> QED
  BY <1>1, OnceInit, OnceNext, PTL DEF Spec

-----------------------------------------------------------------------------
(* ConsentForGated, without the buttons of the sidebar *)

GatedKinds == {"gated", "gatedPlan"}
ConsentedRun(r) == r.call.kind \in GatedKinds => \E id \in approved : cards[id] = r.call

\* ConsentForGated is not inductive: a decision about to be taken must be known
\* to be fresh, and no call may have two cards, one approved and one rejected.
ConsentInv ==
  /\ OnceInv
  /\ approved \cup rejected \subseteq DOMAIN cards
  /\ approved \cap rejected = {}
  /\ \A p \in {pending_approval, pending_plan} \ {None} : p.id \notin approved \cup rejected
  /\ \A n \in DOMAIN ran : ConsentedRun(ran[n])

LEMMA ConsentImplied == ConsentInv => ConsentForGated
<1> SUFFICES ASSUME ConsentInv, NEW n \in DOMAIN ran, ran[n].call.kind \in GatedKinds
             PROVE  /\ \E id \in approved : id \in DOMAIN cards /\ cards[id] = ran[n].call
                    /\ \A id \in rejected : id \in DOMAIN cards => cards[id] # ran[n].call
  BY DEF ConsentForGated, GatedKinds
<1>1. PICK id \in approved : cards[id] = ran[n].call
  BY DEF ConsentInv, ConsentedRun
<1>2. id \in DOMAIN cards /\ id \notin rejected /\ NoRepeat(cards)
  BY DEF ConsentInv, OnceInv
<1>3. \A other \in rejected : other \in DOMAIN cards => cards[other] # ran[n].call
  BY <1>1, <1>2 DEF NoRepeat
<1> QED
  BY <1>1, <1>2, <1>3

\* Steps that execute nothing and take no decision; a card may be added.
LEMMA NoDecisionStep ==
  ASSUME ConsentInv, OnceInv', UNCHANGED <<ran, approved, rejected>>,
         DOMAIN cards \subseteq DOMAIN cards',
         \A i \in DOMAIN cards : cards'[i] = cards[i],
         \A p \in {pending_approval', pending_plan'} \ {None} :
           p \in {pending_approval, pending_plan} \/ p.id \notin DOMAIN cards
  PROVE  ConsentInv'
<1>1. \A p \in {pending_approval', pending_plan'} \ {None} : p.id \notin approved \cup rejected
  BY DEF ConsentInv
<1>2. \A n \in DOMAIN ran : ConsentedRun(ran[n])'
  <2> TAKE n \in DOMAIN ran
  <2>1. ConsentedRun(ran[n]) /\ approved \subseteq DOMAIN cards /\ ran[n]' = ran[n]
    BY DEF ConsentInv
  <2> QED
    BY <2>1 DEF ConsentedRun
<1> QED
  BY <1>1, <1>2 DEF ConsentInv

\* One more call executed.
LEMMA RanOneMore ==
  ASSUME TypeOK, NEW call \in Call, NEW ok \in BOOLEAN,
         ran' = Append(ran, [call |-> call, ok |-> ok])
  PROVE  \A n \in DOMAIN ran' : ran'[n].call = call \/ (n \in DOMAIN ran /\ ran'[n] = ran[n])
<1>1. ran \in Seq(Run) /\ [call |-> call, ok |-> ok] \in Run
  BY DEF TypeOK, Run
<1>2. /\ DOMAIN ran = 1..Len(ran) /\ Len(ran) \in Nat
      /\ ran' \in Seq(Run) /\ Len(ran') = Len(ran) + 1
      /\ \A i \in 1..Len(ran) : ran'[i] = ran[i]
      /\ ran'[Len(ran) + 1] = [call |-> call, ok |-> ok]
  BY <1>1, LenProperties, AppendProperties
<1>3. DOMAIN ran' = 1..(Len(ran) + 1)
  BY <1>2, LenProperties
<1> QED
  BY <1>2, <1>3

\* A call that needs nobody is executed; it may get a number among the cards.
LEMMA UngatedStep ==
  ASSUME ConsentInv, OnceInv', NEW call \in Call, call.kind \notin GatedKinds,
         NEW ok \in BOOLEAN, ran' = Append(ran, [call |-> call, ok |-> ok]),
         UNCHANGED <<approved, rejected>>,
         DOMAIN cards \subseteq DOMAIN cards',
         \A i \in DOMAIN cards : cards'[i] = cards[i],
         pending_approval' \in {pending_approval, None}, pending_plan' \in {pending_plan, None}
  PROVE  ConsentInv'
<1>1. \A n \in DOMAIN ran' : ran'[n].call = call \/ (n \in DOMAIN ran /\ ran'[n] = ran[n])
  BY RanOneMore DEF ConsentInv, OnceInv, TypeInv
<1>2. ASSUME NEW n \in DOMAIN ran', ran'[n].call.kind \in GatedKinds
      PROVE  \E id \in approved : cards'[id] = ran'[n].call
  <2>1. n \in DOMAIN ran /\ ran'[n] = ran[n]
    BY <1>1, <1>2
  <2> QED
    BY <1>2, <2>1 DEF ConsentInv, ConsentedRun
<1>3. \A n \in DOMAIN ran' : ConsentedRun(ran[n])'
  BY <1>2 DEF ConsentedRun
<1>4. \A p \in {pending_approval', pending_plan'} \ {None} : p.id \notin approved \cup rejected
  BY DEF ConsentInv
<1> QED
  BY <1>3, <1>4 DEF ConsentInv

\* The user answers the card of decision p, and sees that card.
LEMMA DecisionStep ==
  ASSUME ConsentInv, OnceInv', UNCHANGED cards,
         NEW p \in {pending_approval, pending_plan} \ {None},
         pending_approval' = IF p = pending_approval THEN None ELSE pending_approval,
         pending_plan' = IF p = pending_plan THEN None ELSE pending_plan,
         \/ /\ approved' = approved \cup {p.id} /\ UNCHANGED rejected
            /\ \E ok \in BOOLEAN : ran' = Append(ran, [call |-> p.call, ok |-> ok])
         \/ rejected' = rejected \cup {p.id} /\ UNCHANGED <<approved, ran>>
  PROVE  ConsentInv'
<1>1. TypeOK /\ Shown(p) /\ p.id \notin approved \cup rejected /\ p.call \in Call
  BY DEF ConsentInv, OnceInv, TypeInv, TypeOK, Pending
<1>2. /\ approved' \cup rejected' \subseteq DOMAIN cards
      /\ approved' \cap rejected' = {}
  BY <1>1 DEF ConsentInv, Shown
<1>3. \A q \in {pending_approval', pending_plan'} \ {None} : q.id \notin approved' \cup rejected'
  <2> TAKE q \in {pending_approval', pending_plan'} \ {None}
  <2>1. q \in {pending_approval, pending_plan} \ {None} /\ q.id # p.id
    BY DEF ConsentInv, OnceInv
  <2> QED
    BY <2>1 DEF ConsentInv
<1>4. ASSUME NEW n \in DOMAIN ran', ran'[n].call.kind \in GatedKinds
      PROVE  \E id \in approved' : cards'[id] = ran'[n].call
  <2>1. CASE \E ok \in BOOLEAN : /\ ran' = Append(ran, [call |-> p.call, ok |-> ok])
                                 /\ approved' = approved \cup {p.id}
    <3>1. ran'[n].call = p.call \/ (n \in DOMAIN ran /\ ran'[n] = ran[n])
      BY <1>1, <2>1, RanOneMore
    <3> QED
      BY <1>1, <1>4, <2>1, <3>1 DEF ConsentInv, ConsentedRun, Shown
  <2>2. CASE UNCHANGED <<approved, ran>>
    BY <1>4, <2>2 DEF ConsentInv, ConsentedRun
  <2> QED
    BY <2>1, <2>2
<1>5. \A n \in DOMAIN ran' : ConsentedRun(ran[n])'
  BY <1>4 DEF ConsentedRun
<1> QED
  BY <1>2, <1>3, <1>5 DEF ConsentInv

LEMMA ConsentInit == Init => ConsentInv
<1> SUFFICES ASSUME Init PROVE ConsentInv
  OBVIOUS
<1>1. DOMAIN ran = {}
  BY DEF Init
<1> QED
  BY <1>1, OnceInit DEF Init, ConsentInv

LEMMA ConsentNext ==
  ASSUME "sidebar" \notin Env, ConsentInv, [Next]_vars
  PROVE  ConsentInv'
<1>1. OnceInv' /\ TypeInv /\ TypeOK
  BY OnceNext DEF ConsentInv, OnceInv, TypeInv
<1>2. ASSUME UNCHANGED <<cards, ran, approved, rejected>>,
             pending_approval' \in {pending_approval, None}, pending_plan' \in {pending_plan, None}
      PROVE  ConsentInv'
  BY <1>1, <1>2, NoDecisionStep
<1>3. CASE UNCHANGED vars
  BY <1>2, <1>3 DEF vars, gate, history
<1>4. CASE SubmitPrompt \/ EndTick
  <2>1. StartPrompt \/ UNCHANGED <<gate, history>>
    BY <1>4 DEF SubmitPrompt, EndTick
  <2>2. UNCHANGED <<gate, history>>
    BY <1>1, <2>1, StartPromptTyped
  <2> QED
    BY <1>2, <2>2 DEF gate, history
<1>5. CASE CancelTurn \/ ClearHistory \/ LoadSession
  BY <1>2, <1>5 DEF CancelTurn, ClearHistory, LoadSession, gate, history
<1>6. CASE \/ BeginTick \/ DropStaleEvent \/ HandleDelta \/ HandleError \/ IllegalTransition
           \/ HandleFinalReply \/ HandleToolReply \/ RefusePlan \/ FinishLoop
  <2>1. UNCHANGED <<gate, history>>
    BY <1>6 DEF BeginTick, DropStaleEvent, HandleDelta, HandleError, IllegalTransition,
                HandleFinalReply, HandleToolReply, RefusePlan, FinishLoop
  <2> QED
    BY <1>2, <2>1 DEF gate, history
<1>7. CASE WorkerStep
  <2>1. UNCHANGED <<gate, history>>
    BY <1>7 DEF WorkerStep, WorkerTake, WorkerReceive, WorkerPost, WorkerAbandon
  <2> QED
    BY <1>2, <2>1 DEF gate, history
<1>8. ASSUME calls # <<>>
      PROVE  /\ Head(calls) \in Call
             /\ DOMAIN Append(cards, Head(calls)) = DOMAIN cards \cup {Len(cards) + 1}
             /\ \A i \in DOMAIN cards : Append(cards, Head(calls))[i] = cards[i]
             /\ Len(cards) + 1 \notin DOMAIN cards
  <2>1. Head(calls) \in Call
    BY <1>1, <1>8, HeadTailProperties DEF TypeOK
  <2> QED
    BY <1>1, <2>1, HistoryAppend
<1>9. CASE RunCall
  <2>1. /\ calls # <<>> /\ Head(calls).kind \notin GatedKinds
        /\ UNCHANGED <<cards, approved, rejected, pending_approval, pending_plan>>
        /\ \E ok \in BOOLEAN : ran' = Append(ran, [call |-> Head(calls), ok |-> ok])
    BY <1>9 DEF RunCall, GatedKinds, gate
  <2> QED
    BY <1>1, <1>8, <2>1, UngatedStep
<1>10. CASE AutoApprovePlan
  <2>1. /\ calls # <<>> /\ Head(calls).kind \notin GatedKinds
        /\ UNCHANGED <<approved, rejected, pending_approval>> /\ pending_plan' = None
        /\ cards' = Append(cards, Head(calls))
        /\ \E ok \in BOOLEAN : ran' = Append(ran, [call |-> Head(calls), ok |-> ok])
    BY <1>10 DEF AutoApprovePlan, ExecutePlan, GatedKinds
  <2> QED
    BY <1>1, <1>8, <2>1, UngatedStep
<1>11. CASE AskUser \/ ReviewPlan
  <2>1. /\ calls # <<>> /\ UNCHANGED <<ran, approved, rejected>>
        /\ cards' = Append(cards, Head(calls))
        /\ \/ pending_approval' = Decision(Head(calls)) /\ pending_plan' = pending_plan
           \/ pending_plan' = Decision(Head(calls)) /\ pending_approval' = pending_approval
    BY <1>11 DEF AskUser, ReviewPlan, ShowCard
  <2>2. Decision(Head(calls)).id \notin DOMAIN cards
    BY <1>8, <2>1 DEF Decision
  <2> QED
    BY <1>1, <1>8, <2>1, <2>2, NoDecisionStep
<1>12. ASSUME NEW seen \in 1..Len(cards), NEW id \in 1..Len(cards), Reaches(seen, id),
              \/ Approve(id, seen) \/ Reject(id, seen)
              \/ ApprovePlan(id, seen) \/ RejectPlan(id, seen)
       PROVE  ConsentInv'
  <2>1. seen = id
    BY <1>12 DEF Reaches
  <2>2. pending_approval # None /\ pending_plan # None => pending_approval # pending_plan
    BY DEF ConsentInv, OnceInv
  <2>3. CASE Approve(id, seen)
    <3>1. /\ pending_approval # None /\ pending_approval.id = seen /\ pending_approval' = None
          /\ UNCHANGED <<cards, rejected, pending_plan>> /\ approved' = approved \cup {seen}
          /\ \E ok \in BOOLEAN : ran' = Append(ran, [call |-> pending_approval.call, ok |-> ok])
      BY <2>1, <2>3 DEF Approve, Answers
    <3> QED
      BY <1>1, <2>2, <3>1, DecisionStep
  <2>4. CASE Reject(id, seen)
    <3>1. /\ pending_approval # None /\ pending_approval.id = seen /\ pending_approval' = None
          /\ UNCHANGED <<cards, ran, approved, pending_plan>> /\ rejected' = rejected \cup {seen}
      BY <2>1, <2>4 DEF Reject, Answers
    <3> QED
      BY <1>1, <2>2, <3>1, DecisionStep
  <2>5. CASE ApprovePlan(id, seen)
    <3>1. /\ pending_plan # None /\ pending_plan.id = seen /\ pending_plan' = None
          /\ UNCHANGED <<cards, rejected, pending_approval>> /\ approved' = approved \cup {seen}
          /\ \E ok \in BOOLEAN : ran' = Append(ran, [call |-> pending_plan.call, ok |-> ok])
      BY <2>1, <2>5 DEF ApprovePlan, Answers, ExecutePlan
    <3> QED
      BY <1>1, <2>2, <3>1, DecisionStep
  <2>6. CASE RejectPlan(id, seen)
    <3>1. /\ pending_plan # None /\ pending_plan.id = seen /\ pending_plan' = None
          /\ UNCHANGED <<cards, ran, approved, pending_approval>> /\ rejected' = rejected \cup {seen}
      BY <2>1, <2>6 DEF RejectPlan, Answers
    <3> QED
      BY <1>1, <2>2, <3>1, DecisionStep
  <2> QED
    BY <1>12, <2>3, <2>4, <2>5, <2>6
<1> QED
  BY <1>3, <1>4, <1>5, <1>6, <1>7, <1>9, <1>10, <1>11, <1>12 DEF Next, User, Timer

\* Without the sidebar, whose buttons name no card, a call that needs the user
\* runs only if the user approved the card that showed this very call and never
\* rejected it, whatever is clicked late, cleared, loaded or cancelled.
THEOREM GatedCallsHaveConsent ==
  ASSUME "sidebar" \notin Env
  PROVE  Spec => []ConsentForGated
<1>1. ConsentInv /\ [Next]_vars => ConsentInv'
  BY ConsentNext
<1> QED
  BY <1>1, ConsentInit, ConsentImplied, PTL DEF Spec
=============================================================================
