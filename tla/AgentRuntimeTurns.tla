--------------------------- MODULE AgentRuntimeTurns ---------------------------
(***************************************************************************)
(* What holds of the active turn, for every value of the constants.        *)
(*                                                                         *)
(* NoRunAfterCancel and StreamingOwn rest on the identity of turns: ids    *)
(* grow, so a cancelled turn never becomes the active one again, and a     *)
(* call keeps the id of its turn on its way from the worker to the loop or *)
(* to a card.                                                              *)
(*                                                                         *)
(* OneOwner, ProviderExclusive and NoIllegalTransition rest on the hand-   *)
(* over of a turn from one place to the next, counted over the queues.     *)
(*                                                                         *)
(* LoopGuards rests on what the counters of the active turn say about the  *)
(* calls that ran for it and those it has in hand.                         *)
(***************************************************************************)
EXTENDS AgentRuntimeSafety, FiniteSetTheorems, FunctionTheorems

-----------------------------------------------------------------------------
(* The invariant *)

\* The model puts propose_plan at the end of a reply.  Some results need this, as
\* the calls after a plan are never answered.
PlansLast == \A kinds \in Replies : \A k \in DOMAIN kinds : kinds[k] \in PlanKinds => k = Len(kinds)
PlanAtEnd(cs) == \A k \in DOMAIN cs : cs[k].kind \in PlanKinds => k = Len(cs)
OneReply(cs) == \A j, k \in DOMAIN cs : cs[j].ask = cs[k].ask

\* An event of a turn carries the calls of one reply to that turn.
OwnEvents ==
  {e \in Event : /\ \A c \in CallsOf(e) : c.turn = e.turn
                 /\ NoRepeat(e.calls) /\ OneReply(e.calls)
                 /\ PlansLast => PlanAtEnd(e.calls)}
CallsOfTurn(t) == {c \in Call : c.turn = t}

\* No cancelled turn is active, and none will be: a new turn gets an id above
\* all that were used.
ActiveTurn ==
  /\ turn <= turn_counter
  /\ \A t \in cancelled : t <= turn_counter
  /\ turn \notin cancelled
  /\ StreamingOwn

EventsOwn ==
  /\ event_queue \in Seq(OwnEvents) /\ batch \in Seq(OwnEvents)
  /\ worker.pc = "post" => worker.event \in OwnEvents

LoopOwn == phase = "tools" => calls \in Seq(CallsOfTurn(turn))

CardsOwn == \A p \in {pending_approval, pending_plan} \ {None} : p.call.turn = p.turn

\* Neither property is inductive: the next call to run must be known to be of
\* the active turn before it runs.
TurnInv == TypeInv /\ ActiveTurn /\ EventsOwn /\ LoopOwn /\ CardsOwn

-----------------------------------------------------------------------------
(* The active turn *)

\* The three ways in which a step treats the active turn.
KeepsTurn ==
  /\ UNCHANGED <<turn, turn_counter, cancelled>>
  /\ streaming' \in {streaming, {}, streaming \cup {turn}}
EndsTurn ==
  /\ turn' = 0 /\ UNCHANGED turn_counter
  /\ cancelled' \in {cancelled, cancelled \cup ({turn} \ {0})}
NewTurn ==
  /\ turn_counter' = turn_counter + 1 /\ turn' = turn_counter'
  /\ streaming' = {} /\ UNCHANGED cancelled
TurnMoves == KeepsTurn \/ EndsTurn \/ NewTurn

LEMMA ActiveTurnStep ==
  ASSUME TypeOK, ActiveTurn, TurnMoves
  PROVE  ActiveTurn'
<1>1. turn \in Nat /\ turn_counter \in Nat /\ cancelled \subseteq Nat /\ 0 \notin cancelled
  BY DEF TypeOK, Ids
<1>2. CASE KeepsTurn
  BY <1>2 DEF KeepsTurn, ActiveTurn, StreamingOwn
<1>3. CASE EndsTurn
  BY <1>1, <1>3 DEF EndsTurn, ActiveTurn, StreamingOwn
<1>4. CASE NewTurn
  <2>1. \A t \in cancelled : t \in Nat /\ t <= turn_counter
    BY <1>1 DEF ActiveTurn
  <2>2. \A t \in cancelled : t <= turn_counter + 1 /\ t # turn_counter + 1
    BY <1>1, <2>1
  <2> QED
    BY <1>1, <1>4, <2>2 DEF NewTurn, ActiveTurn, StreamingOwn
<1> QED
  BY <1>2, <1>3, <1>4 DEF TurnMoves

\* Requests leave the turn as it is or end it.
LEMMA RequestMovesTurn ==
  ASSUME UNCHANGED <<turn_counter, cancelled>>, streaming' = streaming
  PROVE  /\ FailTurn => TurnMoves
         /\ \A conv : SendRequest(conv) => TurnMoves
         /\ \A conv : FillAndContinue(conv) => TurnMoves
<1>1. FailTurn => TurnMoves
  BY DEF FailTurn, TurnMoves, EndsTurn
<1>2. \A conv : SendRequest(conv) => TurnMoves
  BY <1>1 DEF SendRequest, TurnMoves, KeepsTurn
<1> QED
  BY <1>1, <1>2 DEF FillAndContinue

LEMMA StartMovesTurn == StartPrompt => TurnMoves
BY DEF StartPrompt, TurnMoves, KeepsTurn, NewTurn

LEMMA NextMovesTurn == [Next]_vars => TurnMoves
<1> SUFFICES ASSUME [Next]_vars PROVE TurnMoves
  OBVIOUS
<1>1. CASE SubmitPrompt \/ EndTick
  <2>1. StartPrompt \/ UNCHANGED <<lifecycle, streaming, cancelled>>
    BY <1>1 DEF SubmitPrompt, EndTick
  <2> QED
    BY <2>1, StartMovesTurn DEF TurnMoves, KeepsTurn, lifecycle
<1>2. CASE CancelTurn
  BY <1>2 DEF CancelTurn, TurnMoves, EndsTurn
<1>3. CASE ClearHistory \/ LoadSession
  BY <1>3 DEF ClearHistory, LoadSession, TurnMoves, KeepsTurn, lifecycle
<1>4. ASSUME NEW id, NEW seen,
             \/ Approve(id, seen) \/ Reject(id, seen)
             \/ ApprovePlan(id, seen) \/ RejectPlan(id, seen)
      PROVE  TurnMoves
  <2>1. UNCHANGED <<turn_counter, cancelled>> /\ streaming' = streaming
    BY <1>4 DEF Approve, Reject, ApprovePlan, RejectPlan
  <2>2. \/ FailTurn \/ (\E conv : FillAndContinue(conv)) \/ (\E conv : SendRequest(conv))
    BY <1>4 DEF Approve, Reject, ApprovePlan, RejectPlan
  <2> QED
    BY <2>1, <2>2, RequestMovesTurn
<1>5. CASE WorkerStep \/ BeginTick \/ DropStaleEvent \/ IllegalTransition \/ AskUser \/ ReviewPlan
  BY <1>5 DEF WorkerStep, WorkerTake, WorkerReceive, WorkerPost, WorkerAbandon, BeginTick,
              DropStaleEvent, IllegalTransition, AskUser, ReviewPlan, TurnMoves, KeepsTurn, lifecycle
<1>6. CASE HandleDelta
  BY <1>6 DEF HandleDelta, Handling, TurnMoves, KeepsTurn, lifecycle
<1>7. CASE HandleError \/ HandleFinalReply
  BY <1>7 DEF HandleError, HandleFinalReply, TurnMoves, EndsTurn
<1>8. CASE HandleToolReply
  BY <1>8 DEF HandleToolReply, FailTurn, TurnMoves, EndsTurn, KeepsTurn
<1>9. CASE RunCall
  BY <1>9 DEF RunCall, FailTurn, TurnMoves, EndsTurn, KeepsTurn
<1>10. CASE RefusePlan \/ AutoApprovePlan \/ FinishLoop
  <2>1. UNCHANGED <<turn_counter, cancelled>> /\ streaming' = streaming
    BY <1>10 DEF RefusePlan, AutoApprovePlan, FinishLoop
  <2>2. FailTurn \/ \E conv : SendRequest(conv)
    BY <1>10 DEF RefusePlan, AutoApprovePlan, FinishLoop
  <2> QED
    BY <2>1, <2>2, RequestMovesTurn
<1>11. CASE UNCHANGED vars
  BY <1>11 DEF vars, lifecycle, TurnMoves, KeepsTurn
<1> QED
  BY <1>1, <1>2, <1>3, <1>4, <1>5, <1>6, <1>7, <1>8, <1>9, <1>10, <1>11 DEF Next, User, Timer

-----------------------------------------------------------------------------
(* The events *)

\* An event without calls is own, and so are the calls of an own event.
LEMMA OwnEventsFacts ==
  /\ \A e \in Event : e.calls = <<>> => e \in OwnEvents
  /\ \A e \in OwnEvents : e.calls \in Seq(CallsOfTurn(e.turn))
<1>1. ASSUME NEW e \in Event, e.calls = <<>> PROVE e \in OwnEvents
  BY <1>1, CarriedNothing DEF OwnEvents, NoRepeat, OneReply, PlanAtEnd
<1>2. ASSUME NEW e \in OwnEvents PROVE e.calls \in Seq(CallsOfTurn(e.turn))
  <2>1. e.calls \in Seq(Call)
    BY DEF OwnEvents, Event
  <2>2. \A k \in 1..Len(e.calls) : e.calls[k] \in CallsOfTurn(e.turn)
    BY <2>1, LenProperties DEF OwnEvents, CallsOf, CallsOfTurn
  <2> QED
    BY <2>1, <2>2
<1> QED
  BY <1>1, <1>2

\* Nothing new is posted but by the worker, and the batch loses its head or all.
LEMMA QuietEvents ==
  ASSUME EventsOwn, QueueGrows,
         batch' = batch \/ batch' = <<>> \/ (batch # <<>> /\ batch' = Tail(batch)),
         worker' = worker \/ worker'.pc # "post"
  PROVE  EventsOwn'
<1>1. event_queue' \in Seq(OwnEvents)
  <2>1. event_queue \in Seq(OwnEvents)
    BY DEF EventsOwn
  <2>2. CASE UNCHANGED event_queue
    BY <2>1, <2>2
  <2>3. ASSUME NEW e \in Event, e.calls = <<>>, event_queue' = Append(event_queue, e)
        PROVE  event_queue' \in Seq(OwnEvents)
    <3>1. e \in OwnEvents
      BY <2>3, OwnEventsFacts
    <3> HIDE DEF OwnEvents
    <3> QED
      BY <2>1, <2>3, <3>1, AppendProperties
  <2> QED
    BY <2>2, <2>3 DEF QueueGrows
<1>2. batch' \in Seq(OwnEvents)
  BY HeadTailProperties, EmptySeq DEF EventsOwn
<1> QED
  BY <1>1, <1>2 DEF EventsOwn

LEMMA DrainKeepsEvents == EventsOwn /\ BeginTick => EventsOwn'
<1> SUFFICES ASSUME EventsOwn, BeginTick PROVE EventsOwn'
  OBVIOUS
<1>1. PICK n \in 0..Len(event_queue) :
        /\ batch' = SubSeq(event_queue, 1, n)
        /\ event_queue' = SubSeq(event_queue, n + 1, Len(event_queue))
  BY DEF BeginTick
<1>2. /\ Len(event_queue) \in Nat
      /\ \A i \in 1..Len(event_queue) : event_queue[i] \in OwnEvents
  BY LenProperties DEF EventsOwn
<1>3. \A i \in 1..n : event_queue[i] \in OwnEvents
  BY <1>1, <1>2
<1>4. \A i \in (n+1)..Len(event_queue) : event_queue[i] \in OwnEvents
  BY <1>1, <1>2
<1>5. batch' \in Seq(OwnEvents)
  BY <1>1, <1>2, <1>3, SubSeqProperties
<1>6. event_queue' \in Seq(OwnEvents)
  BY <1>1, <1>2, <1>4, SubSeqProperties
<1> QED
  BY <1>5, <1>6 DEF EventsOwn, BeginTick

LEMMA ReceiveKeepsEvents == TypeInv /\ TypeInv' /\ EventsOwn /\ WorkerReceive => EventsOwn'
<1> SUFFICES ASSUME TypeInv, TypeInv', EventsOwn, WorkerReceive PROVE EventsOwn'
  OBVIOUS
<1>1. worker \in Worker /\ worker.turn \in Ids
  BY DEF TypeInv, TypeOK, WorkerReceive, Worker, Ids
<1>2. worker'.event \in Event
  <2>1. worker'.pc = "post"
    BY <1>1 DEF WorkerReceive, Worker
  <2> QED
    BY <2>1 DEF TypeInv
<1>3. worker'.event \in OwnEvents
  <2>1. CASE worker'.event \in {DeltaEvent(worker.turn), ErrorEvent(worker.turn)}
    BY <1>2, <2>1, OwnEventsFacts DEF DeltaEvent, ErrorEvent
  <2>2. ASSUME NEW kinds \in Replies,
               worker'.event = ReplyEvent(worker.turn,
                 [k \in DOMAIN kinds |-> [ask |-> asked + 1, pos |-> k, turn |-> worker.turn,
                                          kind |-> kinds[k]]])
        PROVE  worker'.event \in OwnEvents
    <3> DEFINE cs == [k \in DOMAIN kinds |-> [ask |-> asked + 1, pos |-> k, turn |-> worker.turn,
                                              kind |-> kinds[k]]]
    <3>1. DOMAIN cs = DOMAIN kinds /\ Len(cs) = Len(kinds)
      BY RepliesAssumption, LenProperties
    <3>2. /\ NoRepeat(cs) /\ OneReply(cs)
          /\ \A k \in DOMAIN cs : cs[k].turn = worker.turn /\ cs[k].kind = kinds[k]
      BY <3>1 DEF NoRepeat, OneReply
    <3>3. PlansLast => PlanAtEnd(cs)
      BY <3>1, <3>2 DEF PlansLast, PlanAtEnd
    <3>4. worker'.event.calls = cs /\ worker'.event.turn = worker.turn
      BY <2>2 DEF ReplyEvent
    <3> HIDE DEF cs
    <3> QED
      BY <1>2, <3>2, <3>3, <3>4 DEF OwnEvents, CallsOf
  <2> QED
    BY <1>1, <2>1, <2>2 DEF WorkerReceive, Worker
<1> QED
  BY <1>3 DEF EventsOwn, WorkerReceive, main

LEMMA NextKeepsEvents == TypeInv /\ TypeInv' /\ EventsOwn /\ [Next]_vars => EventsOwn'
<1> SUFFICES ASSUME TypeInv, TypeInv', EventsOwn, [Next]_vars PROVE EventsOwn'
  OBVIOUS
<1>1. CASE UNCHANGED <<batch, worker>> /\ QueueGrows
  BY <1>1, QuietEvents
<1>2. CASE SubmitPrompt \/ EndTick
  <2>1. UNCHANGED batch /\ (StartPrompt \/ UNCHANGED <<event_queue, worker>>)
    BY <1>2 DEF SubmitPrompt, EndTick, main
  <2>2. UNCHANGED worker
    BY <2>1 DEF StartPrompt
  <2> QED
    BY <1>1, <2>1, <2>2, RequestsPostNoCalls DEF QueueGrows
<1>3. CASE CancelTurn \/ ClearHistory \/ LoadSession
  BY <1>1, <1>3 DEF CancelTurn, ClearHistory, LoadSession, main, QueueGrows
<1>4. ASSUME NEW id, NEW seen,
             \/ Approve(id, seen) \/ Reject(id, seen)
             \/ ApprovePlan(id, seen) \/ RejectPlan(id, seen)
      PROVE  EventsOwn'
  <2>1. /\ UNCHANGED <<batch, worker>> /\ turn # 0
        /\ FailTurn \/ (\E conv : FillAndContinue(conv)) \/ (\E conv : SendRequest(conv))
    BY <1>4 DEF Approve, Reject, ApprovePlan, RejectPlan, Answers, TypeInv, TypeOK, Pending, Ids, main
  <2> QED
    BY <1>1, <2>1, RequestsPostNoCalls
<1>5. CASE WorkerTake \/ WorkerAbandon
  <2>1. UNCHANGED <<batch, event_queue>>
    BY <1>5 DEF WorkerTake, WorkerAbandon, main
  <2>2. worker' = worker \/ worker'.pc # "post"
    <3>1. /\ IdleWorker.pc # "post"
          /\ \A t : [IdleWorker EXCEPT !.pc = "busy", !.turn = t].pc # "post"
      BY DEF IdleWorker
    <3> QED
      BY <1>5, <3>1 DEF WorkerTake, WorkerAbandon
  <2> QED
    BY <2>1, <2>2, QuietEvents DEF QueueGrows
<1>6. CASE WorkerPost
  <2>1. worker.event \in OwnEvents /\ event_queue' = Append(event_queue, worker.event)
    BY <1>6 DEF WorkerPost, EventsOwn
  <2>2. event_queue' \in Seq(OwnEvents)
    BY <2>1, AppendProperties DEF EventsOwn
  <2>3. worker'.pc # "post"
    BY <1>6 DEF WorkerPost, IdleWorker, TypeInv, TypeOK, Worker
  <2> QED
    BY <1>6, <2>2, <2>3 DEF EventsOwn, WorkerPost, main
<1>7. CASE DropStaleEvent \/ HandleDelta \/ HandleError \/ IllegalTransition \/ HandleFinalReply
  BY <1>7, QuietEvents
     DEF DropStaleEvent, HandleDelta, HandleError, IllegalTransition, HandleFinalReply, Handling,
         QueueGrows
<1>8. CASE HandleToolReply
  <2>1. batch # <<>> /\ batch' = Tail(batch) /\ UNCHANGED worker /\ turn # 0
    <3>1. batch # <<>> => Head(batch) \in Event
      BY HeadTailProperties DEF TypeInv, TypeOK
    <3> QED
      BY <1>8, <3>1 DEF HandleToolReply, Handling, Event, Ids
  <2>2. FailTurn \/ UNCHANGED event_queue
    BY <1>8 DEF HandleToolReply
  <2> QED
    BY <2>1, <2>2, RequestsPostNoCalls, QuietEvents DEF QueueGrows
<1>9. CASE RunCall \/ RefusePlan \/ AutoApprovePlan \/ FinishLoop
  <2>1. /\ UNCHANGED <<batch, worker>> /\ turn # 0
        /\ FailTurn \/ UNCHANGED event_queue \/ \E conv : SendRequest(conv)
    BY <1>9 DEF RunCall, RefusePlan, AutoApprovePlan, FinishLoop, TypeInv
  <2> QED
    BY <1>1, <2>1, RequestsPostNoCalls DEF QueueGrows
<1>10. CASE AskUser \/ ReviewPlan
  BY <1>1, <1>10 DEF AskUser, ReviewPlan, QueueGrows
<1>11. CASE UNCHANGED vars
  BY <1>1, <1>11 DEF vars, main, QueueGrows
<1> QED
  BY <1>2, <1>3, <1>4, <1>5, <1>6, <1>7, <1>8, <1>9, <1>10, <1>11,
     DrainKeepsEvents, ReceiveKeepsEvents DEF Next, User, Timer, WorkerStep

-----------------------------------------------------------------------------
(* The loop and the cards *)

\* The rest of the loop and the call at its head are of the active turn.
LEMMA LoopHead ==
  ASSUME LoopOwn, phase = "tools", calls # <<>>
  PROVE  /\ Head(calls) \in Call /\ Head(calls).turn = turn
         /\ Tail(calls) \in Seq(CallsOfTurn(turn))
<1>1. calls \in Seq(CallsOfTurn(turn))
  BY DEF LoopOwn
<1> QED
  BY <1>1, HeadTailProperties DEF CallsOfTurn

LEMMA NextKeepsLoop == TypeInv /\ EventsOwn /\ LoopOwn /\ [Next]_vars => LoopOwn'
<1> SUFFICES ASSUME TypeInv, EventsOwn, LoopOwn, [Next]_vars, phase' = "tools"
             PROVE  calls' \in Seq(CallsOfTurn(turn'))
  BY DEF LoopOwn
<1>1. CASE UNCHANGED <<phase, calls, turn>>
  BY <1>1 DEF LoopOwn
<1>2. CASE RunCall
  <2>1. phase = "tools" /\ calls # <<>> /\ turn' = turn /\ calls' = Tail(calls)
    BY <1>2 DEF RunCall, LeaveLoop
  <2> QED
    BY <2>1, LoopHead
<1>3. CASE HandleToolReply
  <2>1. CASE UNCHANGED phase
    BY <1>3, <2>1 DEF HandleToolReply, Handling
  <2>2. CASE phase' # phase
    <3>1. batch # <<>> /\ Head(batch).turn = turn /\ turn' = turn /\ calls' = Head(batch).calls
      BY <1>3, <2>2 DEF HandleToolReply, Handling
    <3>2. Head(batch) \in OwnEvents
      BY <3>1, HeadTailProperties DEF EventsOwn
    <3> QED
      BY <3>1, <3>2, OwnEventsFacts
  <2> QED
    BY <2>1, <2>2
<1>4. CASE User
  <2>1. phase = "free" /\ UNCHANGED phase
    BY <1>4 DEF User, SubmitPrompt, CancelTurn, ClearHistory, LoadSession, Approve, Reject,
                ApprovePlan, RejectPlan, Answers, main
  <2> QED
    BY <2>1
<1>5. CASE \/ BeginTick \/ EndTick \/ DropStaleEvent \/ HandleDelta \/ HandleError
           \/ IllegalTransition \/ HandleFinalReply
           \/ AskUser \/ RefusePlan \/ ReviewPlan \/ AutoApprovePlan \/ FinishLoop
  BY <1>5 DEF BeginTick, EndTick, DropStaleEvent, HandleDelta, HandleError, IllegalTransition,
              HandleFinalReply, Handling, AskUser, RefusePlan, ReviewPlan, AutoApprovePlan,
              FinishLoop, LeaveLoop
<1>6. CASE WorkerStep
  BY <1>1, <1>6 DEF WorkerStep, WorkerTake, WorkerReceive, WorkerPost, WorkerAbandon, main, lifecycle
<1>7. CASE UNCHANGED vars
  BY <1>1, <1>7 DEF vars, main, lifecycle
<1> QED
  BY <1>2, <1>3, <1>4, <1>5, <1>6, <1>7 DEF Next, Timer

LEMMA NextKeepsCards == TypeInv /\ LoopOwn /\ CardsOwn /\ [Next]_vars => CardsOwn'
<1> SUFFICES ASSUME TypeInv, LoopOwn, CardsOwn, [Next]_vars PROVE CardsOwn'
  OBVIOUS
<1>1. CASE pending_approval' \in {pending_approval, None} /\ pending_plan' \in {pending_plan, None}
  BY <1>1 DEF CardsOwn
<1>2. CASE AskUser \/ ReviewPlan
  <2>1. Head(calls).turn = turn
    BY <1>2, LoopHead DEF AskUser, ReviewPlan
  <2>2. /\ Decision(Head(calls)).call.turn = Decision(Head(calls)).turn
        /\ \/ pending_approval' = Decision(Head(calls)) /\ pending_plan' = pending_plan
           \/ pending_plan' = Decision(Head(calls)) /\ pending_approval' = pending_approval
    BY <1>2, <2>1 DEF Decision, AskUser, ReviewPlan
  <2> QED
    BY <2>2 DEF CardsOwn
<1>3. CASE SubmitPrompt \/ EndTick
  <2>1. StartPrompt \/ UNCHANGED gate
    BY <1>3 DEF SubmitPrompt, EndTick
  <2> QED
    BY <1>1, <2>1 DEF StartPrompt, gate
<1>4. ASSUME NEW id, NEW seen,
             \/ Approve(id, seen) \/ Reject(id, seen)
             \/ ApprovePlan(id, seen) \/ RejectPlan(id, seen)
      PROVE  CardsOwn'
  BY <1>1, <1>4 DEF Approve, Reject, ApprovePlan, RejectPlan
<1>5. CASE CancelTurn \/ ClearHistory \/ LoadSession
  BY <1>1, <1>5 DEF CancelTurn, ClearHistory, LoadSession, gate
<1>6. CASE \/ BeginTick \/ DropStaleEvent \/ HandleDelta \/ HandleError
           \/ IllegalTransition \/ HandleFinalReply \/ HandleToolReply
           \/ RunCall \/ RefusePlan \/ AutoApprovePlan \/ FinishLoop
  BY <1>1, <1>6
  DEF BeginTick, DropStaleEvent, HandleDelta, HandleError, IllegalTransition, HandleFinalReply,
      HandleToolReply, RunCall, RefusePlan, AutoApprovePlan, FinishLoop, gate
<1>7. CASE WorkerStep
  BY <1>1, <1>7 DEF WorkerStep, WorkerTake, WorkerReceive, WorkerPost, WorkerAbandon, gate
<1>8. CASE UNCHANGED vars
  BY <1>1, <1>8 DEF vars, gate
<1> QED
  BY <1>2, <1>3, <1>4, <1>5, <1>6, <1>7, <1>8 DEF Next, User, Timer

LEMMA TurnInit == Init => TurnInv
<1> SUFFICES ASSUME Init PROVE TurnInv
  OBVIOUS
<1>1. TypeInv
  BY InitTyped
<1>2. EventsOwn
  BY EmptySeq DEF Init, EventsOwn, IdleWorker
<1> QED
  BY <1>1, <1>2 DEF Init, TurnInv, ActiveTurn, StreamingOwn, LoopOwn, CardsOwn

LEMMA TurnNext == TurnInv /\ [Next]_vars => TurnInv'
<1> SUFFICES ASSUME TurnInv, [Next]_vars PROVE TurnInv'
  OBVIOUS
<1>1. TypeInv /\ TypeOK /\ ActiveTurn /\ EventsOwn /\ LoopOwn /\ CardsOwn
  BY DEF TurnInv, TypeInv
<1>2. TypeInv'
  BY <1>1, NextTyped
<1> QED
  BY <1>1, <1>2, NextMovesTurn, ActiveTurnStep, NextKeepsEvents, NextKeepsLoop, NextKeepsCards
  DEF TurnInv

\* The text of a turn is made of its own deltas, also when the stream of a
\* cancelled turn still delivers (process_event, TEXT_DELTA).
THEOREM TextIsOwn == Spec => []StreamingOwn
<1>1. TurnInv => StreamingOwn
  BY DEF TurnInv, ActiveTurn
<1> QED
  BY <1>1, TurnInit, TurnNext, PTL DEF Spec

-----------------------------------------------------------------------------
(* What runs *)

\* A step executes nothing, or one call of the active turn.
LEMMA RunsOfTurn ==
  TurnInv /\ [Next]_vars =>
    \/ UNCHANGED ran
    \/ \E call \in Call, ok \in BOOLEAN :
         ran' = Append(ran, [call |-> call, ok |-> ok]) /\ call.turn = turn
<1> SUFFICES ASSUME TurnInv, [Next]_vars, ran' # ran
             PROVE  \E call \in Call, ok \in BOOLEAN :
                      ran' = Append(ran, [call |-> call, ok |-> ok]) /\ call.turn = turn
  OBVIOUS
<1>1. TypeOK /\ LoopOwn /\ CardsOwn
  BY DEF TurnInv, TypeInv
<1>2. CASE RunCall \/ AutoApprovePlan
  <2>1. /\ phase = "tools" /\ calls # <<>>
        /\ \E ok \in BOOLEAN : ran' = Append(ran, [call |-> Head(calls), ok |-> ok])
    BY <1>2 DEF RunCall, AutoApprovePlan, ExecutePlan
  <2> QED
    BY <1>1, <2>1, LoopHead
<1>3. ASSUME NEW id, NEW seen, Approve(id, seen) \/ ApprovePlan(id, seen)
      PROVE  \E call \in Call, ok \in BOOLEAN :
               ran' = Append(ran, [call |-> call, ok |-> ok]) /\ call.turn = turn
  <2>1. PICK p \in {pending_approval, pending_plan} \ {None} :
          /\ p.turn = turn
          /\ \E ok \in BOOLEAN : ran' = Append(ran, [call |-> p.call, ok |-> ok])
    BY <1>3 DEF Approve, ApprovePlan, ExecutePlan, Answers
  <2>2. p.call \in Call /\ p.call.turn = turn
    BY <1>1, <2>1 DEF TypeOK, Pending, CardsOwn
  <2> QED
    BY <2>1, <2>2
<1>4. CASE SubmitPrompt \/ EndTick
  <2>1. StartPrompt \/ UNCHANGED history
    BY <1>4 DEF SubmitPrompt, EndTick
  <2> QED
    BY <2>1 DEF StartPrompt, history
<1>5. CASE \/ CancelTurn \/ ClearHistory \/ LoadSession
           \/ \E id, seen \in 1..Len(cards) : Reject(id, seen) \/ RejectPlan(id, seen)
  BY <1>5 DEF CancelTurn, ClearHistory, LoadSession, Reject, RejectPlan, history
<1>6. CASE \/ BeginTick \/ DropStaleEvent \/ HandleDelta \/ HandleError
           \/ IllegalTransition \/ HandleFinalReply \/ HandleToolReply
           \/ AskUser \/ RefusePlan \/ ReviewPlan \/ FinishLoop
  BY <1>6
  DEF BeginTick, DropStaleEvent, HandleDelta, HandleError, IllegalTransition, HandleFinalReply,
      HandleToolReply, AskUser, RefusePlan, ReviewPlan, FinishLoop, history
<1>7. CASE WorkerStep
  BY <1>7 DEF WorkerStep, WorkerTake, WorkerReceive, WorkerPost, WorkerAbandon, history
<1>8. CASE UNCHANGED vars
  BY <1>8 DEF vars, history
<1> QED
  BY <1>2, <1>3, <1>4, <1>5, <1>6, <1>7, <1>8 DEF Next, User, Timer

LEMMA RunsAreOfTurn ==
  TurnInv /\ [Next]_vars =>
    \A n \in (Len(ran) + 1)..Len(ran') : ran'[n].call.turn = turn /\ turn \notin cancelled
<1> SUFFICES ASSUME TurnInv, [Next]_vars, NEW n \in (Len(ran) + 1)..Len(ran')
             PROVE  ran'[n].call.turn = turn
  BY DEF TurnInv, ActiveTurn
<1>1. ran \in Seq(Run) /\ Len(ran) \in Nat
  BY LenProperties DEF TurnInv, TypeInv, TypeOK
<1>2. ran' # ran
  <2>1. \A m \in Nat : (m + 1)..m = {}
    OBVIOUS
  <2> QED
    BY <1>1, <2>1
<1>3. PICK call \in Call, ok \in BOOLEAN :
        ran' = Append(ran, [call |-> call, ok |-> ok]) /\ call.turn = turn
  BY <1>2, RunsOfTurn
<1>4. [call |-> call, ok |-> ok] \in Run
  BY DEF Run
<1>5. Len(ran') = Len(ran) + 1 /\ ran'[Len(ran) + 1] = [call |-> call, ok |-> ok]
  BY <1>1, <1>3, <1>4, AppendProperties
<1>6. n = Len(ran) + 1
  BY <1>1, <1>5
<1> QED
  BY <1>3, <1>5, <1>6

\* Whatever is cancelled, cleared, loaded or delivered late, a call is executed
\* only for the turn that is active, which was not cancelled.
THEOREM OnlyTheActiveTurnRuns == Spec => NoRunAfterCancel
<1>1. TurnInv /\ [Next]_vars =>
        [\A n \in (Len(ran) + 1)..Len(ran') :
           ran'[n].call.turn = turn /\ turn \notin cancelled]_vars
  BY RunsAreOfTurn
<1> QED
  BY <1>1, TurnInit, TurnNext, PTL DEF Spec, NoRunAfterCancel

-----------------------------------------------------------------------------
(* Counting in a sequence *)

Places(s, M) == {n \in DOMAIN s : s[n] \in M}

LEMMA PlacesFinite ==
  ASSUME NEW S, NEW s \in Seq(S), NEW M
  PROVE  IsFiniteSet(Places(s, M)) /\ Cardinality(Places(s, M)) \in Nat
<1>1. IsFiniteSet(1..Len(s)) /\ DOMAIN s = 1..Len(s)
  BY LenProperties, FS_Interval
<1>2. Places(s, M) \in SUBSET (1..Len(s))
  BY <1>1 DEF Places
<1> QED
  BY <1>1, <1>2, FS_Subset, FS_CardinalityType

LEMMA PlacesAppend ==
  ASSUME NEW S, NEW s \in Seq(S), NEW x \in S, NEW M
  PROVE  Cardinality(Places(Append(s, x), M)) =
           Cardinality(Places(s, M)) + (IF x \in M THEN 1 ELSE 0)
<1> DEFINE last == Len(s) + 1
<1>1. /\ Len(s) \in Nat /\ DOMAIN s = 1..Len(s)
      /\ DOMAIN Append(s, x) = 1..(Len(s) + 1)
      /\ \A i \in 1..Len(s) : Append(s, x)[i] = s[i]
      /\ Append(s, x)[Len(s) + 1] = x
  BY AppendProperties, LenProperties
<1>2. /\ DOMAIN Append(s, x) = DOMAIN s \cup {last} /\ last \notin DOMAIN s
      /\ \A i \in DOMAIN s : Append(s, x)[i] = s[i]
      /\ Append(s, x)[last] = x
  BY <1>1
<1> HIDE DEF last
<1>3. Places(Append(s, x), M) = IF x \in M THEN Places(s, M) \cup {last} ELSE Places(s, M)
  BY <1>2 DEF Places
<1>4. last \notin Places(s, M)
  BY <1>2 DEF Places
<1>5. Cardinality(Places(s, M) \cup {last}) = Cardinality(Places(s, M)) + 1
  BY <1>4, PlacesFinite, FS_AddElement
<1>6. CASE x \in M
  BY <1>3, <1>5, <1>6
<1>7. CASE x \notin M
  BY <1>3, <1>7, PlacesFinite
<1> QED
  BY <1>6, <1>7

\* What is counted in two parts of a sequence adds up.
LEMMA PlacesSplit ==
  ASSUME NEW S, NEW s \in Seq(S), NEW n \in 0..Len(s), NEW M
  PROVE  Cardinality(Places(s, M)) =
           Cardinality(Places(SubSeq(s, 1, n), M)) + Cardinality(Places(SubSeq(s, n + 1, Len(s)), M))
<1> DEFINE first == SubSeq(s, 1, n)
           rest == SubSeq(s, n + 1, Len(s))
           early == {i \in Places(s, M) : i <= n}
           late == {i \in Places(s, M) : i > n}
           shift == [i \in Places(rest, M) |-> n + i]
<1>1. Len(s) \in Nat /\ n \in Nat /\ n <= Len(s) /\ DOMAIN s = 1..Len(s)
      /\ \A i \in 1..Len(s) : s[i] \in S
  BY LenProperties
<1>2. /\ first \in Seq(S) /\ DOMAIN first = 1..n
      /\ \A i \in 1..n : first[i] = s[i]
  <2>1. \A i \in 1..n : s[i] \in S
    BY <1>1
  <2>2. /\ first \in Seq(S) /\ Len(first) = n
        /\ \A i \in 1..n : first[i] = s[i]
    BY <1>1, <2>1, SubSeqProperties
  <2> QED
    BY <2>2, LenProperties
<1>3. /\ rest \in Seq(S) /\ DOMAIN rest = 1..(Len(s) - n)
      /\ \A i \in 1..(Len(s) - n) : rest[i] = s[n + i]
  <2>1. \A i \in (n + 1)..Len(s) : s[i] \in S
    BY <1>1
  <2>2. /\ rest \in Seq(S)
        /\ Len(rest) = IF n + 1 <= Len(s) THEN Len(s) - (n + 1) + 1 ELSE 0
        /\ \A i \in 1..(Len(s) - (n + 1) + 1) : rest[i] = s[(n + 1) + i - 1]
    BY <1>1, <2>1, SubSeqProperties
  <2> HIDE DEF rest
  <2>3. Len(rest) = Len(s) - n
    <3>1. \A m, k \in Nat : k <= m => (IF k + 1 <= m THEN m - (k + 1) + 1 ELSE 0) = m - k
      OBVIOUS
    <3> QED
      BY <1>1, <2>2, <3>1
  <2>4. 1..(Len(s) - (n + 1) + 1) = 1..(Len(s) - n)
    BY <1>1
  <2>5. \A i \in 1..(Len(s) - n) : (n + 1) + i - 1 = n + i
    BY <1>1
  <2>6. \A i \in 1..(Len(s) - n) : rest[i] = s[n + i]
    BY <2>2, <2>4, <2>5
  <2> QED
    BY <2>2, <2>3, <2>6, LenProperties
<1> HIDE DEF first, rest
<1>4. Places(first, M) = early
  BY <1>1, <1>2 DEF Places
<1>5. Cardinality(Places(rest, M)) = Cardinality(late)
  <2>1. \A i \in Places(rest, M) : i \in Nat /\ n + i \in late
    BY <1>1, <1>3 DEF Places
  <2>2. \A j \in late : j - n \in Places(rest, M) /\ n + (j - n) = j
    BY <1>1, <1>3 DEF Places
  <2>3. shift \in [Places(rest, M) -> late]
    BY <2>1
  <2>4. \A a, b \in Places(rest, M) : shift[a] = shift[b] => a = b
    BY <1>1, <2>1
  <2>5. \A j \in late : \E i \in Places(rest, M) : shift[i] = j
    BY <2>2
  <2>6. shift \in Bijection(Places(rest, M), late)
    BY <2>3, <2>4, <2>5, Fun_IsBij
  <2>7. IsFiniteSet(Places(rest, M))
    BY <1>3, PlacesFinite
  <2> QED
    BY <2>6, <2>7, FS_Bijection DEF ExistsBijection
<1>6. Cardinality(Places(s, M)) = Cardinality(early) + Cardinality(late)
  <2>1. early \cup late = Places(s, M) /\ early \cap late = {}
    BY <1>1 DEF Places
  <2>2. IsFiniteSet(Places(s, M))
    BY PlacesFinite
  <2>3. early \in SUBSET Places(s, M) /\ late \in SUBSET Places(s, M)
    OBVIOUS
  <2>4. IsFiniteSet(early) /\ IsFiniteSet(late)
    BY <2>2, <2>3, FS_Subset
  <2> HIDE DEF early, late
  <2>5. Cardinality(early) \in Nat /\ Cardinality(late) \in Nat
    BY <2>4, FS_CardinalityType
  <2>6. Cardinality(early \cup late) =
          Cardinality(early) + Cardinality(late) - Cardinality(early \cap late)
    BY <2>4, FS_Union
  <2>7. Cardinality(early \cap late) = 0
    BY <2>1, FS_EmptySet
  <2>8. \A a, b \in Nat : a + b - 0 = a + b
    OBVIOUS
  <2>9. Cardinality(early \cup late) = Cardinality(early) + Cardinality(late)
    BY <2>5, <2>6, <2>7, <2>8
  <2> QED
    BY <2>1, <2>9
<1> QED
  BY <1>4, <1>5, <1>6 DEF first, rest

LEMMA PlacesTail ==
  ASSUME NEW S, NEW s \in Seq(S), s # <<>>, NEW M
  PROVE  Cardinality(Places(s, M)) =
           (IF Head(s) \in M THEN 1 ELSE 0) + Cardinality(Places(Tail(s), M))
<1>1. Len(s) \in Nat /\ Len(s) > 0 /\ s[1] \in S /\ Head(s) = s[1]
  BY LenProperties, EmptySeq
<1>2. SubSeq(s, 1, 1) \in Seq(S) /\ Len(SubSeq(s, 1, 1)) = 1 /\ SubSeq(s, 1, 1)[1] = Head(s)
  <2>1. \A i \in 1..1 : s[i] \in S
    BY <1>1
  <2> QED
    BY <1>1, <2>1, SubSeqProperties
<1>3. Places(SubSeq(s, 1, 1), M) = IF Head(s) \in M THEN {1} ELSE {}
  <2>1. DOMAIN SubSeq(s, 1, 1) = {1}
    BY <1>2, LenProperties
  <2> QED
    BY <1>2, <2>1 DEF Places
<1>4. Cardinality(Places(SubSeq(s, 1, 1), M)) = IF Head(s) \in M THEN 1 ELSE 0
  BY <1>3, FS_Singleton, FS_EmptySet
<1>5. Tail(s) = SubSeq(s, 1 + 1, Len(s))
  BY TailIsSubSeq
<1>6. Cardinality(Places(s, M)) =
        Cardinality(Places(SubSeq(s, 1, 1), M)) + Cardinality(Places(SubSeq(s, 1 + 1, Len(s)), M))
  <2>1. 1 \in 0..Len(s)
    BY <1>1
  <2> QED
    BY <2>1, PlacesSplit
<1> QED
  BY <1>4, <1>5, <1>6

-----------------------------------------------------------------------------
(* The owners of a turn, as numbers *)

Tasks(tq, t) == Cardinality({n \in DOMAIN tq : tq[n].turn = t})
Outcomes(evs, t) == Cardinality({n \in DOMAIN evs : evs[n].turn = t /\ evs[n].kind # "delta"})
IsOutcome(e, t) == e.turn = t /\ e.kind # "delta"
One(P) == IF P THEN 1 ELSE 0

LEMMA OneFacts == \A P \in BOOLEAN : One(P) \in {0, 1} /\ (One(P) = 1 <=> P)
BY DEF One

LEMMA OwnersCounted ==
  /\ Owners = Tasks(task_queue, turn) + Outcomes(event_queue, turn) + Outcomes(batch, turn)
                + One(worker.turn = turn) + One(phase = "tools") + One(Awaiting)
  /\ Owners' = Tasks(task_queue', turn') + Outcomes(event_queue', turn') + Outcomes(batch', turn')
                 + One(worker'.turn = turn') + One(phase' = "tools") + One(Awaiting')
BY DEF Owners, Count, Tasks, Outcomes, One

\* The tasks of a turn in the queue.
LEMMA TaskCounts ==
  ASSUME NEW tq \in Seq(Task), NEW t
  PROVE  /\ Tasks(tq, t) \in Nat
         /\ \A x \in Task : Tasks(Append(tq, x), t) = Tasks(tq, t) + One(x.turn = t)
         /\ tq # <<>> => Tasks(tq, t) = One(Head(tq).turn = t) + Tasks(Tail(tq), t)
         /\ Tasks(tq, t) = 0 <=> \A i \in DOMAIN tq : tq[i].turn # t
<1> DEFINE M == {x \in Task : x.turn = t}
<1>1. ASSUME NEW s \in Seq(Task) PROVE Tasks(s, t) = Cardinality(Places(s, M))
  <2>1. \A n \in DOMAIN s : s[n] \in Task
    BY LenProperties
  <2>2. {n \in DOMAIN s : s[n].turn = t} = Places(s, M)
    BY <2>1 DEF Places
  <2> QED
    BY <2>2 DEF Tasks
<1>2. Tasks(tq, t) \in Nat
  BY <1>1, PlacesFinite
<1>3. ASSUME NEW x \in Task PROVE Tasks(Append(tq, x), t) = Tasks(tq, t) + One(x.turn = t)
  <2>1. Append(tq, x) \in Seq(Task)
    BY AppendProperties
  <2>2. x \in M <=> x.turn = t
    OBVIOUS
  <2> HIDE DEF M
  <2>3. Cardinality(Places(Append(tq, x), M)) =
          Cardinality(Places(tq, M)) + (IF x \in M THEN 1 ELSE 0)
    BY PlacesAppend
  <2> QED
    BY <1>1, <2>1, <2>2, <2>3 DEF One
<1>4. ASSUME tq # <<>> PROVE Tasks(tq, t) = One(Head(tq).turn = t) + Tasks(Tail(tq), t)
  <2>1. Tail(tq) \in Seq(Task) /\ Head(tq) \in Task
    BY <1>4, HeadTailProperties
  <2>2. Head(tq) \in M <=> Head(tq).turn = t
    BY <2>1
  <2> HIDE DEF M
  <2> QED
    BY <1>1, <1>4, <2>1, <2>2, PlacesTail DEF One
<1>5. Tasks(tq, t) = 0 <=> \A i \in DOMAIN tq : tq[i].turn # t
  <2>1. IsFiniteSet(Places(tq, M))
    BY PlacesFinite
  <2>2. Tasks(tq, t) = 0 <=> Places(tq, M) = {}
    BY <1>1, <2>1, FS_EmptySet
  <2>3. \A n \in DOMAIN tq : tq[n] \in Task
    BY LenProperties
  <2> QED
    BY <2>2, <2>3 DEF Places
<1> QED
  BY <1>2, <1>3, <1>4, <1>5

\* The outcomes of a turn among the events.
LEMMA OutcomeCounts ==
  ASSUME NEW q \in Seq(Event), NEW t
  PROVE  /\ Outcomes(q, t) \in Nat
         /\ \A e \in Event : Outcomes(Append(q, e), t) = Outcomes(q, t) + One(IsOutcome(e, t))
         /\ q # <<>> => Outcomes(q, t) = One(IsOutcome(Head(q), t)) + Outcomes(Tail(q), t)
         /\ \A n \in 0..Len(q) : Outcomes(q, t) = Outcomes(SubSeq(q, 1, n), t)
                                                    + Outcomes(SubSeq(q, n + 1, Len(q)), t)
         /\ (\A i \in DOMAIN q : q[i].turn # t) => Outcomes(q, t) = 0
<1> DEFINE M == {e \in Event : IsOutcome(e, t)}
<1>1. ASSUME NEW s \in Seq(Event) PROVE Outcomes(s, t) = Cardinality(Places(s, M))
  <2>1. \A n \in DOMAIN s : s[n] \in Event
    BY LenProperties
  <2>2. {n \in DOMAIN s : s[n].turn = t /\ s[n].kind # "delta"} = Places(s, M)
    BY <2>1 DEF Places, IsOutcome
  <2> QED
    BY <2>2 DEF Outcomes
<1>2. Outcomes(q, t) \in Nat
  BY <1>1, PlacesFinite
<1>3. ASSUME NEW e \in Event PROVE Outcomes(Append(q, e), t) = Outcomes(q, t) + One(IsOutcome(e, t))
  <2>1. Append(q, e) \in Seq(Event)
    BY AppendProperties
  <2>2. e \in M <=> IsOutcome(e, t)
    OBVIOUS
  <2> HIDE DEF M
  <2>3. Cardinality(Places(Append(q, e), M)) =
          Cardinality(Places(q, M)) + (IF e \in M THEN 1 ELSE 0)
    BY PlacesAppend
  <2> QED
    BY <1>1, <2>1, <2>2, <2>3 DEF One
<1>4. ASSUME q # <<>>
      PROVE  Outcomes(q, t) = One(IsOutcome(Head(q), t)) + Outcomes(Tail(q), t)
  <2>1. Tail(q) \in Seq(Event) /\ Head(q) \in Event
    BY <1>4, HeadTailProperties
  <2>2. Head(q) \in M <=> IsOutcome(Head(q), t)
    BY <2>1
  <2> HIDE DEF M
  <2> QED
    BY <1>1, <1>4, <2>1, <2>2, PlacesTail DEF One
<1>5. ASSUME NEW n \in 0..Len(q)
      PROVE  Outcomes(q, t) = Outcomes(SubSeq(q, 1, n), t) + Outcomes(SubSeq(q, n + 1, Len(q)), t)
  <2>1. Len(q) \in Nat /\ n \in Nat /\ n <= Len(q) /\ \A i \in 1..Len(q) : q[i] \in Event
    BY LenProperties
  <2>2. (\A i \in 1..n : q[i] \in Event) /\ (\A i \in (n + 1)..Len(q) : q[i] \in Event)
    BY <2>1
  <2>3. SubSeq(q, 1, n) \in Seq(Event)
    BY <2>1, <2>2, SubSeqProperties
  <2>4. SubSeq(q, n + 1, Len(q)) \in Seq(Event)
    BY <2>1, <2>2, SubSeqProperties
  <2> HIDE DEF M
  <2>5. Cardinality(Places(q, M)) =
          Cardinality(Places(SubSeq(q, 1, n), M)) + Cardinality(Places(SubSeq(q, n + 1, Len(q)), M))
    BY PlacesSplit
  <2> QED
    BY <1>1, <2>3, <2>4, <2>5
<1>6. ASSUME \A i \in DOMAIN q : q[i].turn # t PROVE Outcomes(q, t) = 0
  <2>1. {n \in DOMAIN q : q[n].turn = t /\ q[n].kind # "delta"} = {}
    BY <1>6
  <2> QED
    BY <2>1, FS_EmptySet DEF Outcomes
<1> QED
  BY <1>2, <1>3, <1>4, <1>5, <1>6

-----------------------------------------------------------------------------
(* The invariant behind OneOwner *)

\* Without a compaction that fails, a lost image and a .blend file opened in the
\* middle of a turn; the README shows what these do.
CalmEnv == Env \cap {"compact", "imageLost", "load"} = {}

TasksUpTo(c) == {x \in Task : x.turn <= c}
EventsUpTo(c) == {e \in Event : e.turn <= c}

\* Nothing on its way belongs to a turn that has not begun.
Fresh ==
  /\ task_queue \in Seq(TasksUpTo(turn_counter))
  /\ event_queue \in Seq(EventsUpTo(turn_counter)) /\ batch \in Seq(EventsUpTo(turn_counter))
  /\ worker.turn <= turn_counter

WorkerOwn ==
  /\ worker.pc = "idle" => worker.turn = 0
  /\ worker.pc = "post" => worker.event.turn = worker.turn

\* The state machine knows what the active turn waits for.
StateOfTurn ==
  /\ state = "PENDING_APPROVAL" => turn # 0 /\ DecisionPending
  /\ turn # 0 => state \in {"PROCESSING", "PENDING_APPROVAL"}
  /\ phase = "free" => batch = <<>>

\* The request of the active turn is the last in line.
LastInLine ==
  turn # 0 =>
    /\ \A i \in DOMAIN task_queue : task_queue[i].turn = turn => i = Len(task_queue)
    /\ worker.turn = turn => task_queue = <<>>
    /\ Tasks(task_queue, turn) = 0 /\ worker.turn # turn =>
         worker.pc = "idle" /\ task_queue = <<>>

\* OneOwner is not inductive: a step must be known to find the turn where it
\* takes it from, and a new turn to find nothing with its id.
Line == OneOwner /\ StateOfTurn /\ LastInLine
OneInv == TurnInv /\ Fresh /\ WorkerOwn /\ Line

\* A request for turn t goes to the worker.
Asks(t) ==
  /\ state' = "PROCESSING" /\ turn' = t /\ UNCHANGED event_queue
  /\ \E x \in TasksUpTo(t) : x.turn = t /\ task_queue' = Append(task_queue, x)

LEMMA SendAsks ==
  ASSUME CalmEnv, TypeOK, turn # 0
  PROVE  /\ \A conv : SendRequest(conv) => Asks(turn)
         /\ \A conv : FillAndContinue(conv) => Asks(turn)
<1>1. ASSUME NEW conv, SendRequest(conv) PROVE Asks(turn)
  <2>1. [turn |-> turn, valid |-> ValidSequence(conv)] \in TasksUpTo(turn)
    BY ValidSequenceBoolean DEF TypeOK, Task, TasksUpTo, Ids
  <2>2. /\ state' = "PROCESSING" /\ turn' = turn /\ UNCHANGED event_queue
        /\ task_queue' = Append(task_queue, [turn |-> turn, valid |-> ValidSequence(conv)])
    BY <1>1 DEF SendRequest, CalmEnv
  <2> QED
    BY <2>1, <2>2 DEF Asks
<1> QED
  BY <1>1 DEF FillAndContinue

LEMMA StartAsks ==
  ASSUME CalmEnv, TypeOK, StartPrompt
  PROVE  \/ state' = "IDLE" /\ UNCHANGED <<turn, turn_counter, event_queue, task_queue>>
         \/ turn_counter' = turn_counter + 1 /\ Asks(turn_counter + 1)
<1> DEFINE t == turn_counter + 1
<1>1. t \in Ids /\ t \in Nat
  BY DEF TypeOK, Ids
<1>2. \A msgs : [turn |-> t, valid |-> ValidSequence(msgs)] \in TasksUpTo(t)
  BY <1>1, ValidSequenceBoolean DEF Task, TasksUpTo
<1> HIDE DEF t
<1>3. \/ state' = "IDLE" /\ UNCHANGED <<turn, turn_counter, event_queue, task_queue>>
      \/ /\ turn_counter' = t /\ turn' = t /\ state' = "PROCESSING" /\ UNCHANGED event_queue
         /\ \E msgs : task_queue' = Append(task_queue, [turn |-> t, valid |-> ValidSequence(msgs)])
  BY DEF StartPrompt, CalmEnv, t
<1> QED
  BY <1>2, <1>3 DEF Asks, t

\* With the main thread in the loop, or a card waiting, the worker has nothing to do.
LEMMA WorkerIdle ==
  ASSUME TypeOK, Line, turn # 0, phase = "tools" \/ Awaiting
  PROVE  /\ task_queue = <<>> /\ worker.pc = "idle" /\ worker.turn # turn
         /\ Tasks(task_queue, turn) = 0
         /\ Outcomes(event_queue, turn) = 0 /\ Outcomes(batch, turn) = 0
         /\ ~(phase = "tools" /\ Awaiting)
<1>1. /\ Tasks(task_queue, turn) \in Nat
      /\ Outcomes(event_queue, turn) \in Nat /\ Outcomes(batch, turn) \in Nat
  BY TaskCounts, OutcomeCounts DEF TypeOK
<1>2. Owners = 1
  BY DEF Line, OneOwner
<1>3. /\ Tasks(task_queue, turn) = 0 /\ worker.turn # turn
      /\ Outcomes(event_queue, turn) = 0 /\ Outcomes(batch, turn) = 0
      /\ ~(phase = "tools" /\ Awaiting)
  <2>1. /\ One(worker.turn = turn) \in {0, 1} /\ One(phase = "tools") \in {0, 1}
        /\ One(Awaiting) \in {0, 1}
        /\ One(worker.turn = turn) = 1 <=> worker.turn = turn
        /\ One(phase = "tools") = 1 <=> phase = "tools"
        /\ One(Awaiting) = 1 <=> Awaiting
    BY OneFacts DEF Awaiting, DecisionPending
  <2>2. \A a, b, c \in Nat, w, p, u \in {0, 1} :
           a + b + c + w + p + u = 1 /\ (p = 1 \/ u = 1) =>
             a = 0 /\ b = 0 /\ c = 0 /\ w = 0 /\ ~(p = 1 /\ u = 1)
    OBVIOUS
  <2> QED
    BY <1>1, <1>2, <2>1, <2>2, OwnersCounted
<1> QED
  BY <1>3 DEF Line, LastInLine

\* The loop ends or a decision is taken, and the model is asked again.
LEMMA AskAgain ==
  ASSUME TypeOK, Line, turn # 0, phase = "tools" \/ Awaiting, Asks(turn),
         UNCHANGED <<batch, worker>>, phase' # "tools", phase' = "free" => batch = <<>>
  PROVE  Line'
<1>1. PICK x \in TasksUpTo(turn) : x.turn = turn /\ task_queue' = Append(task_queue, x)
  BY DEF Asks
<1>2. /\ task_queue = <<>> /\ worker.turn # turn
      /\ Tasks(task_queue, turn) = 0
      /\ Outcomes(event_queue, turn) = 0 /\ Outcomes(batch, turn) = 0
  BY WorkerIdle
<1>3. x \in Task /\ task_queue \in Seq(Task)
  BY DEF TypeOK, TasksUpTo
<1>4. Tasks(task_queue', turn) = 1
  <2>1. Tasks(task_queue', turn) = Tasks(task_queue, turn) + One(x.turn = turn)
    BY <1>1, <1>3, TaskCounts
  <2> QED
    BY <1>1, <1>2, <2>1 DEF One
<1>5. turn' = turn /\ event_queue' = event_queue /\ ~Awaiting' /\ state' = "PROCESSING"
  BY DEF Asks, Awaiting
<1>6. Owners' = 1
  BY <1>2, <1>4, <1>5, OwnersCounted DEF One
<1>7. DOMAIN task_queue' = 1..1 /\ Len(task_queue') = 1
  BY <1>1, <1>2
<1>8. LastInLine'
  BY <1>2, <1>4, <1>5, <1>7 DEF LastInLine
<1> QED
  BY <1>5, <1>6, <1>8 DEF Line, OneOwner, StateOfTurn

\* The turn ends.
LEMMA EndLine ==
  ASSUME turn' = 0, state' # "PENDING_APPROVAL", phase' = "free" => batch' = <<>>
  PROVE  Line'
BY DEF Line, OneOwner, StateOfTurn, LastInLine

\* Nothing but events is moved.
LEMMA QuietLine ==
  ASSUME Line, UNCHANGED <<turn, state, task_queue, worker, pending_approval, pending_plan>>,
         phase' = "tools" <=> phase = "tools", phase' = "free" => batch' = <<>>,
         turn # 0 => Outcomes(event_queue, turn) + Outcomes(batch, turn) \in Nat,
         turn # 0 => Outcomes(event_queue', turn) \in Nat /\ Outcomes(batch', turn) \in Nat,
         turn # 0 => Outcomes(event_queue, turn) \in Nat /\ Outcomes(batch, turn) \in Nat,
         turn # 0 => Tasks(task_queue, turn) \in Nat,
         turn # 0 => Outcomes(event_queue', turn) + Outcomes(batch', turn)
                       = Outcomes(event_queue, turn) + Outcomes(batch, turn)
  PROVE  Line'
<1>1. DecisionPending' = DecisionPending /\ Awaiting' = Awaiting
  BY DEF DecisionPending, Awaiting
<1>2. StateOfTurn' /\ LastInLine'
  BY <1>1 DEF Line, StateOfTurn, LastInLine
<1>3. turn # 0 => Owners' = Owners
  <2> SUFFICES ASSUME turn # 0 PROVE Owners' = Owners
    OBVIOUS
  <2> DEFINE a == Tasks(task_queue, turn)
             b == Outcomes(event_queue, turn)
             c == Outcomes(batch, turn)
             d == Outcomes(event_queue', turn)
             e == Outcomes(batch', turn)
             w == One(worker.turn = turn)
             p == One(phase = "tools")
             u == One(Awaiting)
  <2>1. One(phase' = "tools") = p /\ One(Awaiting') = u
    BY <1>1 DEF One
  <2>2. w \in Nat /\ p \in Nat /\ u \in Nat
    BY DEF One
  <2>3. Tasks(task_queue', turn') = a /\ One(worker'.turn = turn') = w /\ turn' = turn
    OBVIOUS
  <2>4. Owners' = a + d + e + w + p + u
    BY <2>1, <2>3, OwnersCounted
  <2>5. Owners = a + b + c + w + p + u
    BY OwnersCounted
  <2>6. a \in Nat /\ b \in Nat /\ c \in Nat /\ d \in Nat /\ e \in Nat /\ d + e = b + c
    OBVIOUS
  <2> HIDE DEF a, b, c, d, e, w, p, u
  <2> QED
    BY <2>2, <2>4, <2>5, <2>6
<1> QED
  BY <1>2, <1>3 DEF Line, OneOwner

\* A prompt starts a turn with a new id.
LEMMA NewLine ==
  ASSUME TypeOK, Fresh, Asks(turn_counter + 1), UNCHANGED <<batch, worker>>,
         phase' # "tools", phase' = "free" => batch = <<>>
  PROVE  Line'
<1> DEFINE t == turn_counter + 1
<1>1. turn_counter \in Nat /\ t \in Nat /\ t # 0 /\ worker.turn \in Nat
  BY DEF TypeOK, Worker
<1>2. worker.turn # t
  BY <1>1 DEF Fresh
<1>3. \A i \in DOMAIN task_queue : task_queue[i].turn # t
  <2>1. \A i \in DOMAIN task_queue : task_queue[i] \in TasksUpTo(turn_counter)
    BY LenProperties DEF Fresh
  <2>2. \A x \in TasksUpTo(turn_counter) : x.turn # t
    BY <1>1 DEF TasksUpTo, Task, Ids
  <2> QED
    BY <2>1, <2>2
<1>4. ASSUME NEW q \in Seq(EventsUpTo(turn_counter)) PROVE \A i \in DOMAIN q : q[i].turn # t
  <2>1. \A i \in DOMAIN q : q[i] \in EventsUpTo(turn_counter)
    BY LenProperties
  <2>2. \A x \in EventsUpTo(turn_counter) : x.turn # t
    BY <1>1 DEF EventsUpTo, Event, Ids
  <2> QED
    BY <2>1, <2>2
<1>5. Outcomes(event_queue, t) = 0 /\ Outcomes(batch, t) = 0
  <2>1. \A i \in DOMAIN event_queue : event_queue[i].turn # t
    BY <1>4 DEF Fresh
  <2>2. \A i \in DOMAIN batch : batch[i].turn # t
    BY <1>4 DEF Fresh
  <2> HIDE DEF t
  <2> QED
    BY <2>1, <2>2, OutcomeCounts DEF TypeOK
<1> HIDE DEF t
<1>6. PICK x \in TasksUpTo(t) : x.turn = t /\ task_queue' = Append(task_queue, x)
  BY DEF Asks, t
<1>7. x \in Task /\ task_queue \in Seq(Task) /\ Len(task_queue) \in Nat
  BY LenProperties DEF TypeOK, TasksUpTo
<1>8. Tasks(task_queue', t) = 1
  <2>1. Tasks(task_queue', t) = Tasks(task_queue, t) + One(x.turn = t)
    BY <1>6, <1>7, TaskCounts
  <2>2. Tasks(task_queue, t) = 0
    BY <1>3, <1>7, TaskCounts
  <2> QED
    BY <1>6, <2>1, <2>2 DEF One
<1>9. turn' = t /\ event_queue' = event_queue /\ ~Awaiting' /\ state' = "PROCESSING"
  BY DEF Asks, Awaiting, t
<1>10. Owners' = 1
  BY <1>2, <1>5, <1>8, <1>9, OwnersCounted DEF One
<1>11. \A i \in DOMAIN task_queue' : task_queue'[i].turn = t => i = Len(task_queue')
  <2>1. /\ DOMAIN task_queue' = 1..(Len(task_queue) + 1) /\ Len(task_queue') = Len(task_queue) + 1
        /\ \A i \in 1..Len(task_queue) : task_queue'[i] = task_queue[i]
    BY <1>6, <1>7, AppendProperties, LenProperties
  <2>2. DOMAIN task_queue = 1..Len(task_queue)
    BY <1>7, LenProperties
  <2> QED
    BY <1>3, <1>7, <2>1, <2>2
<1>12. LastInLine'
  BY <1>1, <1>2, <1>8, <1>9, <1>11 DEF LastInLine
<1> QED
  BY <1>1, <1>9, <1>10, <1>12 DEF Line, OneOwner, StateOfTurn

\* The loop goes on, or hands the turn to the user.
LEMMA LoopLine ==
  ASSUME TypeOK, Line, turn # 0, phase = "tools", phase' # "free",
         UNCHANGED <<turn, event_queue, task_queue, worker, batch>>,
         \/ phase' = "tools" /\ state' = "PROCESSING"
         \/ phase' # "tools" /\ state' = "PENDING_APPROVAL" /\ DecisionPending'
  PROVE  Line'
<1>1. /\ worker.turn # turn /\ Tasks(task_queue, turn) = 0
      /\ Outcomes(event_queue, turn) = 0 /\ Outcomes(batch, turn) = 0
  BY WorkerIdle
<1>2. One(phase' = "tools") + One(Awaiting') = 1
  BY DEF One, Awaiting
<1>3. One(worker'.turn = turn') = 0 /\ One(phase' = "tools") \in Nat /\ One(Awaiting') \in Nat
  BY <1>1 DEF One
<1>4. Owners' = Tasks(task_queue, turn) + Outcomes(event_queue, turn) + Outcomes(batch, turn)
                  + One(worker'.turn = turn') + One(phase' = "tools") + One(Awaiting')
  BY OwnersCounted
<1>5. Owners' = 1
  <2> DEFINE p == One(phase' = "tools")
             u == One(Awaiting')
  <2>1. Owners' = 0 + 0 + 0 + 0 + p + u /\ p \in Nat /\ u \in Nat /\ p + u = 1
    BY <1>1, <1>2, <1>3, <1>4
  <2> HIDE DEF p, u
  <2> QED
    BY <2>1
<1> QED
  BY <1>5 DEF Line, OneOwner, StateOfTurn, LastInLine

\* A reply with calls leaves the batch for the loop.
LEMMA EnterLine ==
  ASSUME TypeOK, Line, turn # 0, phase = "tick", phase' = "tools",
         batch # <<>>, IsOutcome(Head(batch), turn), batch' = Tail(batch),
         UNCHANGED <<turn, state, event_queue, task_queue, worker, pending_approval, pending_plan>>
  PROVE  Line'
<1> DEFINE a == Tasks(task_queue, turn)
           b == Outcomes(event_queue, turn)
           c == Outcomes(Tail(batch), turn)
           w == One(worker.turn = turn)
           u == One(Awaiting)
<1>1. Outcomes(batch, turn) = 1 + c
  BY OutcomeCounts DEF TypeOK, One
<1>2. a \in Nat /\ b \in Nat /\ w \in Nat /\ u \in Nat
  BY TaskCounts, OutcomeCounts DEF TypeOK, One
<1>3. c \in Nat
  BY HeadTailProperties, OutcomeCounts DEF TypeOK
<1>4. Awaiting' = Awaiting /\ DecisionPending' = DecisionPending
  BY DEF Awaiting, DecisionPending
<1>5. One(phase = "tools") = 0 /\ One(phase' = "tools") = 1
  BY DEF One
<1>6. Owners = a + b + (1 + c) + w + 0 + u
  BY <1>1, <1>5, OwnersCounted
<1>7. Owners' = a + b + c + w + 1 + u
  BY <1>4, <1>5, OwnersCounted
<1>8. Owners = 1
  BY DEF Line, OneOwner
<1> HIDE DEF a, b, c, w, u
<1>9. Owners' = 1
  BY <1>2, <1>3, <1>6, <1>7, <1>8
<1> QED
  BY <1>4, <1>9 DEF Line, OneOwner, StateOfTurn, LastInLine

-----------------------------------------------------------------------------
(* The worker keeps the line *)

LEMMA WorkerLine ==
  ASSUME TypeOK, Line, UNCHANGED <<turn, state, phase, batch, pending_approval, pending_plan>>,
         turn # 0 => /\ Tasks(task_queue', turn) \in Nat /\ Outcomes(event_queue', turn) \in Nat
                     /\ Tasks(task_queue', turn) + Outcomes(event_queue', turn) + One(worker'.turn = turn)
                          = Tasks(task_queue, turn) + Outcomes(event_queue, turn) + One(worker.turn = turn)
                     /\ LastInLine'
  PROVE  Line'
<1>1. DecisionPending' = DecisionPending /\ Awaiting' = Awaiting
  BY DEF DecisionPending, Awaiting
<1>2. CASE turn = 0
  BY <1>2, EndLine DEF Line, StateOfTurn
<1>3. CASE turn # 0
  <2> DEFINE a == Tasks(task_queue, turn)
             b == Outcomes(event_queue, turn)
             w == One(worker.turn = turn)
             aa == Tasks(task_queue', turn)
             bb == Outcomes(event_queue', turn)
             ww == One(worker'.turn = turn)
             c == Outcomes(batch, turn)
             p == One(phase = "tools")
             u == One(Awaiting)
  <2>1. Owners = a + b + c + w + p + u
    BY OwnersCounted
  <2>2. Owners' = aa + bb + c + ww + p + u
    BY <1>1, OwnersCounted
  <2>3. a \in Nat /\ b \in Nat /\ c \in Nat
    BY TaskCounts, OutcomeCounts DEF TypeOK
  <2>4. w \in Nat /\ ww \in Nat /\ p \in Nat /\ u \in Nat
    BY DEF One
  <2>5. aa \in Nat /\ bb \in Nat /\ aa + bb + ww = a + b + w
    BY <1>3
  <2> HIDE DEF a, b, c, w, p, u, aa, bb, ww
  <2>6. Owners' = Owners
    BY <2>1, <2>2, <2>3, <2>4, <2>5
  <2> QED
    BY <1>1, <1>3, <2>6 DEF Line, OneOwner, StateOfTurn
<1> QED
  BY <1>2, <1>3

LEMMA TakeLine ==
  ASSUME TypeOK, TypeOK', Line, WorkerOwn, turn \notin cancelled, WorkerTake
  PROVE  Line'
<1>1. /\ task_queue # <<>> /\ task_queue' = Tail(task_queue) /\ worker.turn = 0
      /\ UNCHANGED <<turn, state, phase, batch, pending_approval, pending_plan, event_queue>>
  BY DEF WorkerTake, WorkerOwn, main, gate, lifecycle
<1>2. /\ task_queue \in Seq(Task) /\ Tail(task_queue) \in Seq(Task) /\ Len(task_queue) \in Nat
      /\ Len(task_queue) > 0 /\ DOMAIN task_queue = 1..Len(task_queue)
      /\ Len(Tail(task_queue)) = Len(task_queue) - 1
      /\ DOMAIN Tail(task_queue) = 1..(Len(task_queue) - 1)
      /\ \A i \in 1..(Len(task_queue) - 1) : Tail(task_queue)[i] = task_queue[i + 1]
      /\ Head(task_queue) = task_queue[1]
  BY <1>1, LenProperties, EmptySeq, HeadTailProperties DEF TypeOK
<1> SUFFICES ASSUME turn # 0
             PROVE  /\ Tasks(task_queue', turn) + Outcomes(event_queue', turn) + One(worker'.turn = turn)
                         = Tasks(task_queue, turn) + Outcomes(event_queue, turn) + One(worker.turn = turn)
                    /\ LastInLine'
  <2>1. Tasks(task_queue', turn) \in Nat /\ Outcomes(event_queue', turn) \in Nat
    BY TaskCounts, OutcomeCounts DEF TypeOK
  <2> QED
    BY <1>1, <2>1, WorkerLine
<1> DEFINE a == Tasks(Tail(task_queue), turn)
           b == Outcomes(event_queue, turn)
<1>3. a \in Nat /\ b \in Nat
  BY <1>2, TaskCounts, OutcomeCounts DEF TypeOK
<1>4. Tasks(task_queue, turn) = One(Head(task_queue).turn = turn) + a
  BY <1>1, <1>2, TaskCounts
<1>5. One(worker.turn = turn) = 0
  BY <1>1 DEF One
<1>6. CASE Head(task_queue).turn = turn
  <2>1. worker' = [IdleWorker EXCEPT !.pc = "busy", !.turn = Head(task_queue).turn]
    BY <1>6 DEF WorkerTake
  <2>2. worker'.turn = turn
    BY <1>6, <2>1 DEF IdleWorker
  <2>3. One(worker'.turn = turn) = 1 /\ One(Head(task_queue).turn = turn) = 1
    BY <1>6, <2>2 DEF One
  <2>4. Len(task_queue) = 1
    BY <1>2, <1>6 DEF Line, LastInLine
  <2>5. task_queue' = <<>>
    BY <1>1, <1>2, <2>4, EmptySeq
  <2>6. LastInLine'
    BY <1>1, <2>2, <2>5 DEF LastInLine
  <2> HIDE DEF a, b
  <2>7. a + b + 1 = (1 + a) + b + 0
    BY <1>3
  <2> QED
    BY <1>1, <1>4, <1>5, <2>3, <2>6, <2>7 DEF a, b
<1>7. CASE Head(task_queue).turn # turn
  <2>1. worker' = worker \/ worker' = [IdleWorker EXCEPT !.pc = "busy", !.turn = Head(task_queue).turn]
    BY DEF WorkerTake
  <2>2. worker'.turn # turn
    BY <1>1, <1>7, <2>1 DEF IdleWorker
  <2>3. One(worker'.turn = turn) = 0 /\ One(Head(task_queue).turn = turn) = 0
    BY <1>7, <2>2 DEF One
  <2>4. Tasks(task_queue, turn) # 0
    BY <1>1 DEF Line, LastInLine
  <2>5. a # 0
    BY <1>3, <1>4, <2>3, <2>4
  <2>6. \A i \in DOMAIN task_queue' : task_queue'[i].turn = turn => i = Len(task_queue')
    <3>1. \A i \in 1..Len(task_queue) : task_queue[i].turn = turn => i = Len(task_queue)
      BY <1>2 DEF Line, LastInLine
    <3>2. SUFFICES ASSUME NEW i \in 1..(Len(task_queue) - 1), Tail(task_queue)[i].turn = turn
                   PROVE  i = Len(task_queue) - 1
      BY <1>1, <1>2
    <3>3. i + 1 \in 1..Len(task_queue) /\ task_queue[i + 1].turn = turn
      BY <1>2, <3>2
    <3>4. i + 1 = Len(task_queue)
      BY <3>1, <3>3
    <3>5. i \in Nat /\ Len(task_queue) \in Nat
      BY <1>2
    <3>6. \A m, k \in Nat : m + 1 = k => m = k - 1
      OBVIOUS
    <3> QED
      BY <3>4, <3>5, <3>6
  <2>7. LastInLine'
    BY <1>1, <2>2, <2>5, <2>6 DEF LastInLine
  <2> HIDE DEF a, b
  <2>8. a + b + 0 = (0 + a) + b + 0
    BY <1>3
  <2> QED
    BY <1>1, <1>4, <1>5, <2>3, <2>7, <2>8 DEF a, b
<1> QED
  BY <1>6, <1>7

LEMMA PostLine ==
  ASSUME TypeInv, TypeOK', Line, WorkerOwn, WorkerPost
  PROVE  Line'
<1> DEFINE e == worker.event
           a == Tasks(task_queue, turn)
           b == Outcomes(event_queue, turn)
<1>1. /\ e \in Event /\ e.turn = worker.turn /\ worker.turn # 0 /\ worker.pc = "post"
      /\ event_queue' = Append(event_queue, e)
      /\ UNCHANGED <<turn, state, phase, batch, pending_approval, pending_plan, task_queue>>
  BY DEF WorkerPost, WorkerOwn, TypeInv, main, gate, lifecycle
<1>2. TypeOK /\ event_queue \in Seq(Event) /\ task_queue \in Seq(Task)
  BY DEF TypeInv, TypeOK
<1>3. a \in Nat /\ b \in Nat
  BY <1>2, TaskCounts, OutcomeCounts
<1>4. Outcomes(event_queue', turn) = b + One(IsOutcome(e, turn))
  BY <1>1, <1>2, OutcomeCounts
<1> SUFFICES ASSUME turn # 0
             PROVE  /\ b + One(IsOutcome(e, turn)) + One(worker'.turn = turn) = b + One(worker.turn = turn)
                    /\ LastInLine'
  <2>1. Tasks(task_queue', turn) \in Nat /\ Outcomes(event_queue', turn) \in Nat
    BY TaskCounts, OutcomeCounts DEF TypeOK
  <2>2. One(IsOutcome(e, turn)) \in Nat /\ One(worker'.turn = turn) \in Nat
        /\ One(worker.turn = turn) \in Nat
    BY DEF One
  <2> DEFINE o == One(IsOutcome(e, turn))
             ww == One(worker'.turn = turn)
             w == One(worker.turn = turn)
  <2> HIDE DEF a, b, o, w, ww
  <2>3. b + o + ww = b + w => a + (b + o) + ww = a + b + w
    BY <1>3, <2>2 DEF o, w, ww
  <2> QED
    BY <1>1, <1>2, <1>4, <2>1, <2>3, WorkerLine DEF a, b, o, w, ww
<1>5. worker'.turn = IF e.kind = "delta" THEN worker.turn ELSE 0
  BY <1>2 DEF WorkerPost, IdleWorker, TypeOK, Worker
<1>6. LastInLine'
  <2>1. CASE worker.turn = turn
    <3>1. task_queue' = <<>> /\ (worker'.turn # turn => worker'.pc = "idle")
      BY <1>1, <1>5, <2>1 DEF Line, LastInLine, WorkerPost, IdleWorker
    <3> QED
      BY <1>1, <3>1 DEF LastInLine
  <2>2. CASE worker.turn # turn
    <3>1. a # 0 /\ worker'.turn # turn
      BY <1>1, <1>5, <2>2 DEF Line, LastInLine
    <3> QED
      BY <1>1, <3>1 DEF Line, LastInLine
  <2> QED
    BY <2>1, <2>2
<1>7. One(IsOutcome(e, turn)) + One(worker'.turn = turn) = One(worker.turn = turn)
  BY <1>1, <1>5 DEF One, IsOutcome
<1>8. One(IsOutcome(e, turn)) \in Nat /\ One(worker'.turn = turn) \in Nat
      /\ One(worker.turn = turn) \in Nat
  BY DEF One
<1> DEFINE o == One(IsOutcome(e, turn))
           ww == One(worker'.turn = turn)
           w == One(worker.turn = turn)
<1> HIDE DEF b, o, w, ww
<1>9. b + o + ww = b + w
  BY <1>3, <1>7, <1>8 DEF o, w, ww
<1> QED
  BY <1>6, <1>9 DEF o, w, ww

\* The worker receives, or gives up a cancelled turn.
LEMMA BusyLine ==
  ASSUME TypeOK, TypeOK', Line, turn \notin cancelled, WorkerReceive \/ WorkerAbandon
  PROVE  Line'
<1>1. /\ worker.pc = "busy"
      /\ UNCHANGED <<turn, state, phase, batch, pending_approval, pending_plan, task_queue,
                     event_queue>>
  BY DEF WorkerReceive, WorkerAbandon, main, gate, lifecycle
<1> SUFFICES ASSUME turn # 0 PROVE (worker'.turn = turn <=> worker.turn = turn) /\ LastInLine'
  <2>1. Tasks(task_queue', turn) \in Nat /\ Outcomes(event_queue', turn) \in Nat
    BY TaskCounts, OutcomeCounts DEF TypeOK
  <2>2. (worker'.turn = turn <=> worker.turn = turn) =>
           One(worker'.turn = turn) = One(worker.turn = turn)
    BY DEF One
  <2> QED
    BY <1>1, <2>1, <2>2, WorkerLine
<1>2. CASE WorkerReceive
  <2>1. worker'.turn = worker.turn
    BY <1>2 DEF WorkerReceive, TypeOK, Worker
  <2> QED
    BY <1>1, <2>1 DEF Line, LastInLine
<1>3. CASE WorkerAbandon
  <2>1. worker.turn # turn /\ worker'.turn # turn
    BY <1>3 DEF WorkerAbandon, IdleWorker
  <2> QED
    BY <1>1, <2>1 DEF Line, LastInLine
<1> QED
  BY <1>2, <1>3

-----------------------------------------------------------------------------
(* Nothing of a future turn is on its way *)

KnownPost ==
  UNCHANGED event_queue
    \/ \E e \in EventsUpTo(turn_counter) : event_queue' = Append(event_queue, e)
KnownTask ==
  UNCHANGED task_queue
    \/ \E x \in TasksUpTo(turn_counter) : task_queue' = Append(task_queue, x)

LEMMA RequestsKnown ==
  ASSUME TypeOK, ActiveTurn, turn # 0
  PROVE  (FailTurn \/ Asks(turn)) => KnownPost /\ KnownTask
<1>1. turn \in Ids /\ turn \in Nat /\ turn_counter \in Nat /\ turn <= turn_counter
  BY DEF TypeOK, ActiveTurn, Ids
<1>2. ErrorEvent(turn) \in EventsUpTo(turn_counter)
  BY <1>1, EventsTyped DEF EventsUpTo, ErrorEvent
<1>3. TasksUpTo(turn) \subseteq TasksUpTo(turn_counter)
  BY <1>1 DEF TasksUpTo, Task, Ids
<1>4. FailTurn => KnownPost /\ KnownTask
  BY <1>2 DEF FailTurn, KnownPost, KnownTask
<1>5. Asks(turn) => KnownPost /\ KnownTask
  BY <1>3 DEF Asks, KnownPost, KnownTask
<1> QED
  BY <1>4, <1>5

LEMMA FreshKept ==
  ASSUME Fresh, UNCHANGED turn_counter, KnownPost, worker'.turn <= turn_counter,
         KnownTask \/ (task_queue # <<>> /\ task_queue' = Tail(task_queue)),
         batch' = batch \/ batch' = <<>> \/ (batch # <<>> /\ batch' = Tail(batch))
  PROVE  Fresh'
<1>1. event_queue' \in Seq(EventsUpTo(turn_counter))
  <2>1. event_queue \in Seq(EventsUpTo(turn_counter))
    BY DEF Fresh
  <2>2. ASSUME NEW e \in EventsUpTo(turn_counter), event_queue' = Append(event_queue, e)
        PROVE  event_queue' \in Seq(EventsUpTo(turn_counter))
    BY <2>1, <2>2, AppendProperties
  <2> QED
    BY <2>1, <2>2 DEF KnownPost
<1>2. task_queue' \in Seq(TasksUpTo(turn_counter))
  <2>1. CASE UNCHANGED task_queue
    BY <2>1 DEF Fresh
  <2>2. CASE \E x \in TasksUpTo(turn_counter) : task_queue' = Append(task_queue, x)
    BY <2>2, AppendProperties DEF Fresh
  <2>3. CASE task_queue # <<>> /\ task_queue' = Tail(task_queue)
    BY <2>3, HeadTailProperties DEF Fresh
  <2> QED
    BY <2>1, <2>2, <2>3 DEF KnownTask
<1>3. batch' \in Seq(EventsUpTo(turn_counter))
  BY HeadTailProperties, EmptySeq DEF Fresh
<1> QED
  BY <1>1, <1>2, <1>3 DEF Fresh

LEMMA FreshNew ==
  ASSUME TypeOK, Fresh, turn_counter' = turn_counter + 1, Asks(turn_counter + 1),
         UNCHANGED <<batch, worker>>
  PROVE  Fresh'
<1> DEFINE t == turn_counter + 1
<1>1. turn_counter \in Nat /\ t \in Nat /\ turn_counter <= t /\ worker.turn \in Nat
  BY DEF TypeOK, Worker
<1>2. EventsUpTo(turn_counter) \subseteq EventsUpTo(t) /\ TasksUpTo(turn_counter) \subseteq TasksUpTo(t)
  BY <1>1 DEF EventsUpTo, TasksUpTo, Event, Task, Ids
<1>3. worker'.turn <= t
  BY <1>1 DEF Fresh
<1> HIDE DEF t
<1>4. ASSUME NEW A, NEW B, A \subseteq B, NEW s \in Seq(A) PROVE s \in Seq(B)
  <2>1. Len(s) \in Nat /\ s \in [1..Len(s) -> A]
    BY LenProperties
  <2>2. s \in [1..Len(s) -> B]
    BY <1>4, <2>1
  <2> QED
    BY <2>1, <2>2
<1>5. event_queue' \in Seq(EventsUpTo(t)) /\ batch' \in Seq(EventsUpTo(t))
  BY <1>2, <1>4 DEF Fresh, Asks
<1>6. task_queue \in Seq(TasksUpTo(t))
  BY <1>2, <1>4 DEF Fresh
<1>7. task_queue' \in Seq(TasksUpTo(t))
  BY <1>6, AppendProperties DEF Asks, t
<1> QED
  BY <1>3, <1>5, <1>7 DEF Fresh, t

LEMMA NextFresh ==
  ASSUME CalmEnv, TypeInv, ActiveTurn, Fresh, WorkerOwn, [Next]_vars
  PROVE  Fresh' /\ WorkerOwn'
<1>0. TypeOK /\ worker.turn <= turn_counter /\ turn_counter \in Nat
  BY DEF TypeInv, TypeOK, Fresh
<1>1. ASSUME UNCHANGED <<turn_counter, worker>>, KnownPost, KnownTask,
             batch' = batch \/ batch' = <<>> \/ (batch # <<>> /\ batch' = Tail(batch))
      PROVE  Fresh' /\ WorkerOwn'
  <2>1. Fresh'
    BY <1>0, <1>1, FreshKept
  <2> QED
    BY <1>1, <2>1 DEF WorkerOwn
<1>2. CASE SubmitPrompt \/ EndTick
  <2>1. StartPrompt \/ UNCHANGED <<turn_counter, worker, event_queue, task_queue>>
    BY <1>2 DEF SubmitPrompt, EndTick, lifecycle
  <2>2. UNCHANGED <<worker, batch>>
    BY <1>2, <2>1 DEF SubmitPrompt, EndTick, main, StartPrompt
  <2>3. CASE StartPrompt /\ turn_counter' = turn_counter + 1 /\ Asks(turn_counter + 1)
    BY <1>0, <2>2, <2>3, FreshNew DEF WorkerOwn
  <2>4. CASE UNCHANGED <<turn_counter, event_queue, task_queue>>
    BY <1>1, <2>2, <2>4 DEF KnownPost, KnownTask
  <2> QED
    BY <1>0, <2>1, <2>3, <2>4, StartAsks
<1>3. CASE CancelTurn \/ ClearHistory \/ LoadSession
  BY <1>1, <1>3 DEF CancelTurn, ClearHistory, LoadSession, lifecycle, main, KnownPost, KnownTask
<1>4. ASSUME NEW id, NEW seen,
             \/ Approve(id, seen) \/ Reject(id, seen)
             \/ ApprovePlan(id, seen) \/ RejectPlan(id, seen)
      PROVE  Fresh' /\ WorkerOwn'
  <2>1. /\ UNCHANGED <<turn_counter, worker, batch>> /\ turn # 0
        /\ FailTurn \/ (\E conv : FillAndContinue(conv)) \/ (\E conv : SendRequest(conv))
    BY <1>0, <1>4
    DEF Approve, Reject, ApprovePlan, RejectPlan, Answers, TypeOK, Pending, Ids, main
  <2>2. KnownPost /\ KnownTask
    BY <1>0, <2>1, SendAsks, RequestsKnown
  <2> QED
    BY <1>1, <2>1, <2>2
<1>5. CASE BeginTick
  <2>1. PICK n \in 0..Len(event_queue) :
          /\ batch' = SubSeq(event_queue, 1, n)
          /\ event_queue' = SubSeq(event_queue, n + 1, Len(event_queue))
    BY <1>5 DEF BeginTick
  <2>2. /\ Len(event_queue) \in Nat
        /\ \A i \in 1..Len(event_queue) : event_queue[i] \in EventsUpTo(turn_counter)
    BY LenProperties DEF Fresh
  <2>3. \A i \in 1..n : event_queue[i] \in EventsUpTo(turn_counter)
    BY <2>1, <2>2
  <2>4. \A i \in (n+1)..Len(event_queue) : event_queue[i] \in EventsUpTo(turn_counter)
    BY <2>1, <2>2
  <2>5. batch' \in Seq(EventsUpTo(turn_counter))
    BY <2>1, <2>2, <2>3, SubSeqProperties
  <2>6. event_queue' \in Seq(EventsUpTo(turn_counter))
    BY <2>1, <2>2, <2>4, SubSeqProperties
  <2> QED
    BY <1>5, <2>5, <2>6 DEF BeginTick, Fresh, WorkerOwn, lifecycle
<1>6. CASE DropStaleEvent \/ HandleDelta \/ HandleError \/ IllegalTransition \/ HandleFinalReply
  BY <1>1, <1>6
  DEF DropStaleEvent, HandleDelta, HandleError, IllegalTransition, HandleFinalReply, Handling,
      lifecycle, KnownPost, KnownTask
<1>7. CASE HandleToolReply
  <2>1. batch # <<>> /\ batch' = Tail(batch) /\ UNCHANGED <<turn_counter, worker>> /\ turn # 0
    <3>1. batch # <<>> => Head(batch) \in Event
      BY <1>0, HeadTailProperties DEF TypeOK
    <3> QED
      BY <1>7, <3>1 DEF HandleToolReply, Handling, Event, Ids
  <2>2. FailTurn \/ UNCHANGED <<event_queue, task_queue>>
    BY <1>7 DEF HandleToolReply
  <2>3. KnownPost /\ KnownTask
    BY <1>0, <2>1, <2>2, RequestsKnown DEF KnownPost, KnownTask
  <2> QED
    BY <1>1, <2>1, <2>3
<1>8. CASE RunCall \/ RefusePlan \/ AutoApprovePlan \/ FinishLoop
  <2>1. /\ UNCHANGED <<turn_counter, worker, batch>> /\ turn # 0
        /\ FailTurn \/ UNCHANGED <<event_queue, task_queue>> \/ \E conv : SendRequest(conv)
    BY <1>8 DEF RunCall, RefusePlan, AutoApprovePlan, FinishLoop, TypeInv
  <2>2. KnownPost /\ KnownTask
    BY <1>0, <2>1, SendAsks, RequestsKnown DEF KnownPost, KnownTask
  <2> QED
    BY <1>1, <2>1, <2>2
<1>9. CASE AskUser \/ ReviewPlan
  BY <1>1, <1>9 DEF AskUser, ReviewPlan, KnownPost, KnownTask
<1>10. CASE WorkerStep
  <2>1. UNCHANGED <<turn_counter, batch>>
    BY <1>10 DEF WorkerStep, WorkerTake, WorkerReceive, WorkerPost, WorkerAbandon, main, lifecycle
  <2>2. CASE WorkerTake
    <3>1. /\ Head(task_queue) \in TasksUpTo(turn_counter) /\ task_queue # <<>>
          /\ task_queue' = Tail(task_queue) /\ UNCHANGED event_queue
      BY <2>2, HeadTailProperties DEF WorkerTake, Fresh
    <3>2. worker'.turn <= turn_counter /\ worker'.pc # "post" /\ (worker'.pc = "idle" => worker'.turn = 0)
      BY <1>0, <2>2, <3>1 DEF WorkerTake, IdleWorker, TasksUpTo, WorkerOwn
    <3>3. Fresh'
      BY <2>1, <3>1, <3>2, FreshKept DEF KnownPost
    <3> QED
      BY <3>2, <3>3 DEF WorkerOwn
  <2>3. CASE WorkerReceive
    <3>1. worker'.turn = worker.turn /\ worker'.pc = "post" /\ UNCHANGED <<event_queue, task_queue>>
      BY <1>0, <2>3 DEF WorkerReceive, TypeOK, Worker
    <3>2. worker'.event.turn = worker.turn
      <4>1. /\ DeltaEvent(worker.turn).turn = worker.turn
            /\ ErrorEvent(worker.turn).turn = worker.turn
            /\ \A cs : ReplyEvent(worker.turn, cs).turn = worker.turn
        BY DEF DeltaEvent, ErrorEvent, ReplyEvent
      <4>2. worker \in Worker
        BY <1>0 DEF TypeOK
      <4>3. \/ worker'.event \in {DeltaEvent(worker.turn), ErrorEvent(worker.turn)}
            \/ \E cs : worker'.event = ReplyEvent(worker.turn, cs)
        BY <2>3, <4>2 DEF WorkerReceive, Worker
      <4> QED
        BY <4>1, <4>3
    <3>3. Fresh'
      BY <1>0, <2>1, <3>1, FreshKept DEF KnownPost, KnownTask
    <3> QED
      BY <3>1, <3>2, <3>3 DEF WorkerOwn
  <2>4. CASE WorkerPost
    <3>1. worker.event \in EventsUpTo(turn_counter) /\ event_queue' = Append(event_queue, worker.event)
      BY <1>0, <2>4 DEF WorkerPost, WorkerOwn, EventsUpTo, TypeInv
    <3>2. /\ worker'.turn \in {worker.turn, 0} /\ worker'.pc # "post"
          /\ worker'.pc = "idle" => worker'.turn = 0
      BY <1>0, <2>4 DEF WorkerPost, IdleWorker, TypeOK, Worker
    <3>3. UNCHANGED task_queue
      BY <2>4 DEF WorkerPost
    <3>4. Fresh'
      BY <1>0, <2>1, <3>1, <3>2, <3>3, FreshKept DEF KnownPost, KnownTask
    <3> QED
      BY <3>2, <3>4 DEF WorkerOwn
  <2>5. CASE WorkerAbandon
    <3>1. worker'.turn = 0 /\ worker'.pc = "idle" /\ UNCHANGED <<event_queue, task_queue>>
      BY <2>5 DEF WorkerAbandon, IdleWorker
    <3>2. Fresh'
      BY <1>0, <2>1, <3>1, FreshKept DEF KnownPost, KnownTask
    <3> QED
      BY <3>1, <3>2 DEF WorkerOwn
  <2> QED
    BY <1>10, <2>2, <2>3, <2>4, <2>5 DEF WorkerStep
<1>11. CASE UNCHANGED vars
  BY <1>1, <1>11 DEF vars, lifecycle, main, KnownPost, KnownTask
<1> QED
  BY <1>2, <1>3, <1>4, <1>5, <1>6, <1>7, <1>8, <1>9, <1>10, <1>11 DEF Next, User, Timer

-----------------------------------------------------------------------------
(* Every step keeps the line *)

\* Moving events, as numbers.
LEMMA EventsCounted ==
  ASSUME TypeOK, TypeOK'
  PROVE  /\ Outcomes(event_queue, turn) \in Nat /\ Outcomes(batch, turn) \in Nat
         /\ Outcomes(event_queue', turn) \in Nat /\ Outcomes(batch', turn) \in Nat
         /\ Tasks(task_queue, turn) \in Nat
         /\ Outcomes(event_queue, turn) + Outcomes(batch, turn) \in Nat
<1>1. /\ event_queue \in Seq(Event) /\ event_queue' \in Seq(Event)
      /\ batch \in Seq(Event) /\ batch' \in Seq(Event) /\ task_queue \in Seq(Task)
  BY DEF TypeOK
<1>2. \A q \in Seq(Event) : Outcomes(q, turn) \in Nat
  BY OutcomeCounts
<1>3. \A q \in Seq(Task) : Tasks(q, turn) \in Nat
  BY TaskCounts
<1> QED
  BY <1>1, <1>2, <1>3

\* A tick begins: the oldest events move to the batch.
LEMMA DrainLine ==
  ASSUME TypeOK, TypeOK', Line, BeginTick
  PROVE  Line'
<1> DEFINE d == Outcomes(event_queue', turn)
           e == Outcomes(batch', turn)
           b == Outcomes(event_queue, turn)
           c == Outcomes(batch, turn)
<1>1. /\ phase = "free" /\ phase' = "tick" /\ batch = <<>>
      /\ UNCHANGED <<turn, state, task_queue, worker, pending_approval, pending_plan>>
  BY DEF BeginTick, lifecycle, gate, Line, StateOfTurn
<1>2. PICK n \in 0..Len(event_queue) :
        /\ batch' = SubSeq(event_queue, 1, n)
        /\ event_queue' = SubSeq(event_queue, n + 1, Len(event_queue))
  BY DEF BeginTick
<1>3. event_queue \in Seq(Event) /\ <<>> \in Seq(Event)
  BY EmptySeq DEF TypeOK
<1>4. b = e + d
  BY <1>2, <1>3, OutcomeCounts
<1>5. c = 0
  <2>1. DOMAIN batch = {}
    BY <1>1
  <2> QED
    BY <1>1, <1>3, <2>1, OutcomeCounts
<1>6. b \in Nat /\ c \in Nat /\ d \in Nat /\ e \in Nat /\ b + c \in Nat
      /\ Tasks(task_queue, turn) \in Nat
  BY EventsCounted
<1>7. d + e = b + c
  <2> HIDE DEF b, c, d, e
  <2> QED
    BY <1>4, <1>5, <1>6
<1> QED
  BY <1>1, <1>6, <1>7, QuietLine

\* An event that is no outcome of the active turn leaves the batch.
LEMMA SkipLine ==
  ASSUME TypeOK, TypeOK', Line, DropStaleEvent \/ HandleDelta
  PROVE  Line'
<1> DEFINE b == Outcomes(event_queue, turn)
           c == Outcomes(batch, turn)
           e == Outcomes(batch', turn)
<1>1. /\ phase = "tick" /\ batch # <<>> /\ batch' = Tail(batch) /\ ~IsOutcome(Head(batch), turn)
      /\ UNCHANGED <<turn, state, phase, event_queue, task_queue, worker,
                     pending_approval, pending_plan>>
  BY DEF DropStaleEvent, HandleDelta, Handling, IsOutcome, lifecycle, gate
<1>2. batch \in Seq(Event)
  BY DEF TypeOK
<1>3. c = One(IsOutcome(Head(batch), turn)) + e
  BY <1>1, <1>2, OutcomeCounts
<1>4. One(IsOutcome(Head(batch), turn)) = 0
  BY <1>1 DEF One
<1>5. b \in Nat /\ c \in Nat /\ e \in Nat /\ b + c \in Nat /\ Tasks(task_queue, turn) \in Nat
  BY EventsCounted
<1>6. Outcomes(event_queue', turn) + e = b + c
  <2>1. c = e /\ Outcomes(event_queue', turn) = b
    <3>1. Outcomes(event_queue', turn) = b
      BY <1>1
    <3> HIDE DEF b, c, e
    <3> QED
      BY <1>3, <1>4, <1>5, <3>1
  <2> QED
    BY <2>1
<1> QED
  BY <1>1, <1>5, <1>6, QuietLine

\* The user decides on a card.
LEMMA DecideLine ==
  ASSUME CalmEnv, TypeOK, Line, NEW id, NEW seen,
         \/ Approve(id, seen) \/ Reject(id, seen)
         \/ ApprovePlan(id, seen) \/ RejectPlan(id, seen)
  PROVE  Line'
<1>1. /\ turn # 0 /\ Awaiting /\ phase = "free" /\ UNCHANGED <<phase, batch, worker>>
  BY DEF Approve, Reject, ApprovePlan, RejectPlan, Answers, Awaiting, DecisionPending, main,
         TypeOK, Pending, Ids
<1>2. batch = <<>>
  BY <1>1 DEF Line, StateOfTurn
<1>3. FailTurn \/ (\E conv : FillAndContinue(conv)) \/ (\E conv : SendRequest(conv))
  BY DEF Approve, Reject, ApprovePlan, RejectPlan
<1>4. CASE FailTurn
  BY <1>1, <1>2, <1>4, EndLine DEF FailTurn
<1>5. CASE Asks(turn)
  BY <1>1, <1>2, <1>5, AskAgain
<1> QED
  BY <1>1, <1>3, <1>4, <1>5, SendAsks

\* The loop over the calls of a reply.
LEMMA CallsLine ==
  ASSUME CalmEnv, TypeOK, TypeInv, Line,
         RunCall \/ AskUser \/ RefusePlan \/ ReviewPlan \/ AutoApprovePlan \/ FinishLoop
  PROVE  Line'
<1>1. turn # 0 /\ phase = "tools" /\ UNCHANGED <<batch, worker>>
  BY DEF RunCall, AskUser, RefusePlan, ReviewPlan, AutoApprovePlan, FinishLoop, TypeInv
<1>2. CASE AskUser \/ ReviewPlan
  <2>1. Head(calls) \in Call /\ calls # <<>>
    BY <1>2, HeadTailProperties DEF AskUser, ReviewPlan, TypeOK
  <2>2. Decision(Head(calls)) # None
    BY <1>1, <2>1, HistoriesTyped, NoneAssumption
  <2>3. DecisionPending' /\ state' = "PENDING_APPROVAL" /\ phase' = "tick"
    BY <1>2, <2>2 DEF AskUser, ReviewPlan, ShowCard, LeaveLoop, DecisionPending
  <2>4. UNCHANGED <<turn, event_queue, task_queue>>
    BY <1>2 DEF AskUser, ReviewPlan
  <2> QED
    BY <1>1, <2>3, <2>4, LoopLine
<1>3. CASE RunCall /\ ~FailTurn
  <2>1. /\ UNCHANGED <<turn, event_queue, task_queue>>
        /\ phase' = "tools" /\ state' = "PROCESSING"
    BY <1>1, <1>3 DEF RunCall
  <2> QED
    BY <1>1, <2>1, LoopLine
<1>4. CASE FailTurn /\ LeaveLoop
  BY <1>4, EndLine DEF FailTurn, LeaveLoop
<1>5. CASE Asks(turn) /\ LeaveLoop
  BY <1>1, <1>5, AskAgain DEF LeaveLoop
<1>6. CASE RunCall /\ FailTurn
  <2>1. phase' \in {"tick", "tools"}
    BY <1>1, <1>6 DEF RunCall, LeaveLoop
  <2> QED
    BY <1>6, <2>1, EndLine DEF FailTurn
<1>7. CASE RefusePlan \/ AutoApprovePlan \/ FinishLoop
  <2>1. LeaveLoop /\ (FailTurn \/ \E conv : SendRequest(conv))
    BY <1>7 DEF RefusePlan, AutoApprovePlan, FinishLoop
  <2> QED
    BY <1>1, <1>4, <1>5, <2>1, SendAsks
<1> QED
  BY <1>2, <1>3, <1>6, <1>7

\* The outcome of the active turn finds the main thread nowhere else.
LEMMA OutcomeFound ==
  ASSUME TypeOK, Line, turn # 0, batch # <<>>, IsOutcome(Head(batch), turn)
  PROVE  state = "PROCESSING" /\ phase # "tools" /\ ~Awaiting
<1>1. ~(phase = "tools" \/ Awaiting)
  <2>1. batch \in Seq(Event) /\ Tail(batch) \in Seq(Event)
    BY HeadTailProperties DEF TypeOK
  <2>2. Outcomes(batch, turn) = One(IsOutcome(Head(batch), turn)) + Outcomes(Tail(batch), turn)
    BY <2>1, OutcomeCounts
  <2>3. Outcomes(Tail(batch), turn) \in Nat
    BY <2>1, OutcomeCounts
  <2>4. One(IsOutcome(Head(batch), turn)) = 1
    BY DEF One
  <2>5. \A k \in Nat : 1 + k # 0
    OBVIOUS
  <2>6. Outcomes(batch, turn) # 0
    BY <2>2, <2>3, <2>4, <2>5
  <2> QED
    BY <2>6, WorkerIdle
<1>2. state = "PROCESSING"
  BY <1>1 DEF Line, StateOfTurn, Awaiting
<1> QED
  BY <1>1, <1>2

LEMMA ReplyLine ==
  ASSUME TypeOK, Line, HandleError \/ HandleFinalReply \/ HandleToolReply
  PROVE  Line'
<1>1. batch # <<>> /\ batch' = Tail(batch) /\ phase = "tick" /\ IsOutcome(Head(batch), turn)
  BY DEF HandleError, HandleFinalReply, HandleToolReply, Handling, IsOutcome
<1>2. CASE HandleError \/ HandleFinalReply
  BY <1>1, <1>2, EndLine DEF HandleError, HandleFinalReply
<1>3. CASE HandleToolReply /\ FailTurn
  <2>1. phase' \in {"tick", "tools"}
    BY <1>1, <1>3 DEF HandleToolReply
  <2> QED
    BY <1>3, <2>1, EndLine DEF FailTurn
<1>4. CASE HandleToolReply /\ ~FailTurn
  <2>1. phase' = "tools" /\ UNCHANGED <<turn, state, event_queue, task_queue, worker,
                                        pending_approval, pending_plan>>
    BY <1>4 DEF HandleToolReply, gate
  <2>2. turn # 0
    <3>1. Head(batch) \in Event
      BY <1>1, HeadTailProperties DEF TypeOK
    <3> QED
      BY <1>1, <3>1 DEF IsOutcome, Event, Ids
  <2> QED
    BY <1>1, <2>1, <2>2, EnterLine
<1> QED
  BY <1>2, <1>3, <1>4

LEMMA StartLine ==
  ASSUME CalmEnv, TypeOK, Line, Fresh, turn = 0, StartPrompt, UNCHANGED batch, batch = <<>>,
         phase' # "tools"
  PROVE  Line'
<1>1. UNCHANGED worker
  BY DEF StartPrompt
<1>2. CASE turn_counter' = turn_counter + 1 /\ Asks(turn_counter + 1)
  BY <1>1, <1>2, NewLine
<1>3. CASE state' = "IDLE" /\ UNCHANGED turn
  BY <1>3, EndLine
<1> QED
  BY <1>2, <1>3, StartAsks

\* What the user does between two callbacks, apart from decisions.
LEMMA UserLine ==
  ASSUME CalmEnv, TypeOK, TypeOK', Line, Fresh, SubmitPrompt \/ EndTick \/ CancelTurn \/ ClearHistory
  PROVE  Line'
<1>1. batch = <<>> /\ UNCHANGED batch
  BY DEF SubmitPrompt, EndTick, CancelTurn, ClearHistory, main, Line, StateOfTurn
<1>2. CASE CancelTurn
  BY <1>1, <1>2, EndLine DEF CancelTurn, Line, StateOfTurn
<1>3. CASE SubmitPrompt \/ EndTick \/ ClearHistory
  <2>1. /\ phase \in {"free", "tick"} /\ phase' = "free"
        /\ \/ turn = 0 /\ StartPrompt
           \/ UNCHANGED <<turn, state, task_queue, worker, pending_approval, pending_plan, event_queue>>
    BY <1>3 DEF ClearHistory, SubmitPrompt, EndTick, CanPump, main, lifecycle, gate
  <2>2. CASE turn = 0 /\ StartPrompt
    BY <1>1, <2>1, <2>2, StartLine
  <2>3. CASE UNCHANGED <<turn, state, task_queue, worker, pending_approval, pending_plan, event_queue>>
    <3>1. /\ Outcomes(event_queue', turn) = Outcomes(event_queue, turn)
          /\ Outcomes(batch', turn) = Outcomes(batch, turn)
      BY <1>1, <2>3
    <3>2. phase' = "tools" <=> phase = "tools"
      BY <2>1
    <3>3. Outcomes(event_queue', turn) + Outcomes(batch', turn) =
            Outcomes(event_queue, turn) + Outcomes(batch, turn)
      BY <3>1
    <3> QED
      BY <1>1, <2>3, <3>2, <3>3, EventsCounted, QuietLine
  <2> QED
    BY <2>1, <2>2, <2>3
<1> QED
  BY <1>2, <1>3

LEMMA NextLine ==
  ASSUME CalmEnv, TypeInv, TypeInv', ActiveTurn, Fresh, WorkerOwn, Line, [Next]_vars
  PROVE  Line'
<1>0. TypeOK /\ TypeOK' /\ turn \notin cancelled
  BY DEF TypeInv, ActiveTurn
<1>1. CASE SubmitPrompt \/ EndTick \/ CancelTurn \/ ClearHistory
  BY <1>0, <1>1, UserLine
<1>2. CASE LoadSession
  BY <1>2 DEF LoadSession, CalmEnv
<1>3. ASSUME NEW id, NEW seen,
             \/ Approve(id, seen) \/ Reject(id, seen)
             \/ ApprovePlan(id, seen) \/ RejectPlan(id, seen)
      PROVE  Line'
  BY <1>0, <1>3, DecideLine
<1>4. CASE BeginTick
  BY <1>0, <1>4, DrainLine
<1>5. CASE DropStaleEvent \/ HandleDelta
  BY <1>0, <1>5, SkipLine
<1>6. CASE HandleError \/ HandleFinalReply \/ HandleToolReply
  BY <1>0, <1>6, ReplyLine
<1>7. CASE IllegalTransition
  <2>1. turn # 0 /\ batch # <<>> /\ IsOutcome(Head(batch), turn)
    <3>1. batch # <<>> /\ IsOutcome(Head(batch), turn)
      BY <1>7 DEF IllegalTransition, Handling, IsOutcome
    <3>2. Head(batch) \in Event
      BY <1>0, <3>1, HeadTailProperties DEF TypeOK
    <3> QED
      BY <3>1, <3>2 DEF IsOutcome, Event, Ids
  <2>2. state = "PROCESSING"
    BY <1>0, <2>1, OutcomeFound
  <2> QED
    BY <1>7, <2>2 DEF IllegalTransition, Allowed
<1>8. CASE RunCall \/ AskUser \/ RefusePlan \/ ReviewPlan \/ AutoApprovePlan \/ FinishLoop
  BY <1>0, <1>8, CallsLine
<1>9. CASE WorkerTake
  BY <1>0, <1>9, TakeLine
<1>10. CASE WorkerPost
  BY <1>0, <1>10, PostLine
<1>11. CASE WorkerReceive \/ WorkerAbandon
  BY <1>0, <1>11, BusyLine
<1>12. CASE UNCHANGED vars
  <2>1. UNCHANGED <<turn, state, phase, task_queue, worker, pending_approval, pending_plan,
                    event_queue, batch>>
    BY <1>12 DEF vars, lifecycle, gate, main
  <2>2. /\ Outcomes(event_queue', turn) = Outcomes(event_queue, turn)
        /\ Outcomes(batch', turn) = Outcomes(batch, turn)
    BY <2>1
  <2>3. phase' = "free" => batch' = <<>>
    BY <2>1 DEF Line, StateOfTurn
  <2> QED
    BY <1>0, <2>1, <2>2, <2>3, EventsCounted, QuietLine
<1> QED
  BY <1>1, <1>2, <1>3, <1>4, <1>5, <1>6, <1>7, <1>8, <1>9, <1>10, <1>11, <1>12
  DEF Next, User, Timer, WorkerStep

LEMMA OneInit == Init => OneInv
<1> SUFFICES ASSUME Init PROVE OneInv
  OBVIOUS
<1>1. Fresh
  BY EmptySeq DEF Init, Fresh, IdleWorker
<1>2. WorkerOwn /\ Line
  BY DEF Init, WorkerOwn, IdleWorker, Line, OneOwner, StateOfTurn, LastInLine
<1> QED
  BY <1>1, <1>2, TurnInit DEF OneInv

LEMMA OneNext == CalmEnv /\ OneInv /\ [Next]_vars => OneInv'
<1> SUFFICES ASSUME CalmEnv, OneInv, [Next]_vars PROVE OneInv'
  OBVIOUS
<1>1. /\ TurnInv /\ TypeInv /\ ActiveTurn /\ Fresh /\ WorkerOwn /\ Line
  BY DEF OneInv, TurnInv
<1>2. TurnInv' /\ TypeInv'
  BY <1>1, TurnNext DEF TurnInv
<1>3. Fresh' /\ WorkerOwn'
  BY <1>1, NextFresh
<1>4. Line'
  BY <1>1, <1>2, NextLine
<1> QED
  BY <1>2, <1>3, <1>4 DEF OneInv

\* The active turn is in exactly one place: it is never lost between the threads,
\* and never asked for twice (AgentRuntime.process_event, AgentWorker).
THEOREM OneOwnerAlways == CalmEnv => (Spec => []OneOwner)
<1> SUFFICES ASSUME CalmEnv PROVE Spec => []OneOwner
  OBVIOUS
<1>1. OneInv => OneOwner
  BY DEF OneInv, Line
<1>2. OneInv /\ [Next]_vars => OneInv'
  BY OneNext
<1> QED
  BY <1>1, <1>2, OneInit, PTL DEF Spec

\* While the main thread loops over the calls of a reply, or a card waits, the
\* worker has no request: a tool may use the provider meanwhile
\* (AgentRuntime._execute_and_verify).
THEOREM ProviderNotShared == CalmEnv => (Spec => []ProviderExclusive)
<1> SUFFICES ASSUME CalmEnv PROVE Spec => []ProviderExclusive
  OBVIOUS
<1>1. OneInv => ProviderExclusive
  <2> SUFFICES ASSUME OneInv, phase = "tools" \/ Awaiting PROVE worker.pc = "idle" /\ task_queue = <<>>
    BY DEF ProviderExclusive
  <2>1. TypeOK /\ Line /\ turn # 0
    BY DEF OneInv, TurnInv, TypeInv, Line, StateOfTurn, Awaiting
  <2> QED
    BY <2>1, WorkerIdle
<1>2. OneInv /\ [Next]_vars => OneInv'
  BY OneNext
<1> QED
  BY <1>1, <1>2, OneInit, PTL DEF Spec

\* What process_event does with an event of the active turn is a legal transition
\* of AgentStateMachine, so no exception leaves the timer callback.
THEOREM TransitionsAreLegal == CalmEnv => (Spec => []NoIllegalTransition)
<1> SUFFICES ASSUME CalmEnv PROVE Spec => []NoIllegalTransition
  OBVIOUS
<1>1. OneInv => NoIllegalTransition
  <2> SUFFICES ASSUME OneInv, batch # <<>>, Head(batch).turn = turn, Head(batch).kind # "delta"
               PROVE  state = "PROCESSING" /\ "ERROR" \in Allowed(state)
    BY DEF NoIllegalTransition
  <2>1. TypeOK /\ Line /\ batch \in Seq(Event)
    BY DEF OneInv, TurnInv, TypeInv, TypeOK
  <2>2. Head(batch) \in Event
    BY <2>1, HeadTailProperties
  <2>3. turn # 0 /\ IsOutcome(Head(batch), turn)
    BY <2>2 DEF IsOutcome, Event, Ids
  <2>4. state = "PROCESSING"
    BY <2>1, <2>3, OutcomeFound
  <2> QED
    BY <2>4 DEF Allowed
<1>2. OneInv /\ [Next]_vars => OneInv'
  BY OneNext
<1> QED
  BY <1>1, <1>2, OneInit, PTL DEF Spec

-----------------------------------------------------------------------------
(* The limits of a turn *)

\* Neither "Clear History", which forgets the repairs of the active turn, nor
\* another .blend file, which forgets its rounds too, comes in between.
GuardEnv == Env \cap {"clear", "load"} = {}

\* The calls that may still run for turn t: those of the loop and of its cards.
InHand(t) ==
  (IF phase = "tools" THEN Elements(calls) ELSE {})
    \cup {p.call : p \in {q \in {pending_approval, pending_plan} \ {None} : q.turn = t}}

\* The calls that ran for turn t came in the replies A, at most n.
RanFrom(t, A) == \A i \in DOMAIN ran : ran[i].call.turn = t => ran[i].call.ask \in A
UpTo(n, A) == IsFiniteSet(A) /\ Cardinality(A) <= n

FailedPlans(t) == {r \in Run : r.call.turn = t /\ r.call.kind \in PlanKinds /\ ~r.ok}
Failed(t) == Cardinality(Places(ran, FailedPlans(t)))

\* The replies of the turn were counted, those in hand included.
Rounds(t) ==
  /\ tool_round <= MaxRounds
  /\ \E A : UpTo(tool_round, A) /\ RanFrom(t, A) /\ \A c \in InHand(t) : c.ask \in A

\* A plan under review has been counted as the repair of the last failure.
Repairs(t) ==
  /\ plan_repairs <= MaxRepairs
  /\ ~plan_failed => Failed(t) = 0
  /\ Failed(t) <= plan_repairs + (IF pending_plan = None THEN 1 ELSE 0)

Guarded(t) == /\ \E A : UpTo(MaxRounds, A) /\ RanFrom(t, A)
              /\ Failed(t) <= MaxRepairs + 1

KnownTurns ==
  /\ \A i \in DOMAIN ran : ran[i].call.turn <= turn_counter
  /\ \A p \in {pending_approval, pending_plan} \ {None} : p.turn <= turn_counter
  /\ pending_approval # None => pending_approval.call.kind = "gated"

\* LoopGuards is not inductive: what the counters of the active turn say must
\* bound what ran and what is about to run.
LimitInv ==
  /\ KnownTurns
  /\ \A t \in 1..turn_counter : Guarded(t)
  /\ turn # 0 => Rounds(turn) /\ Repairs(turn)

-----------------------------------------------------------------------------
(* What a step does to the limits *)

NothingRan == UNCHANGED ran
LessInHand == \A t : InHand(t)' \subseteq InHand(t)
OrEnds == turn' \in {turn, 0} /\ UNCHANGED turn_counter
Ran(c, ok) == ran' = Append(ran, [call |-> c, ok |-> ok])

TurnOver == turn' = 0 /\ UNCHANGED turn_counter /\ NothingRan
TurnKept ==
  /\ UNCHANGED <<turn, turn_counter, loop>> /\ NothingRan /\ LessInHand
  /\ pending_plan' \in {pending_plan, None}
RoundCounted ==
  /\ UNCHANGED <<turn, turn_counter, plan_repairs, plan_failed, pending_plan>> /\ NothingRan
  /\ tool_round' = tool_round + 1 /\ tool_round' <= MaxRounds
  /\ \E x : \A t : \A c \in InHand(t)' : c \in InHand(t) \/ c.ask = x
CallRan ==
  /\ OrEnds /\ UNCHANGED <<loop, pending_plan>> /\ LessInHand
  /\ \E c \in InHand(turn), ok \in BOOLEAN : Ran(c, ok) /\ c.kind \notin PlanKinds
PlanRan ==
  /\ OrEnds /\ UNCHANGED tool_round /\ LessInHand
  /\ pending_plan' = None
  /\ \/ pending_plan # None /\ UNCHANGED plan_repairs
     \/ ~RepairsExhausted /\ CountRepair
  /\ \E c \in InHand(turn), ok \in BOOLEAN : Ran(c, ok) /\ plan_failed' = (plan_failed \/ ~ok)
PlanShown ==
  /\ UNCHANGED <<turn, turn_counter, tool_round, plan_failed>> /\ NothingRan /\ LessInHand
  /\ ~RepairsExhausted /\ CountRepair
TurnNew ==
  /\ turn_counter' = turn_counter + 1 /\ turn' = turn_counter' /\ NothingRan
  /\ tool_round' = 0 /\ plan_repairs' = 0 /\ plan_failed' = FALSE
  /\ UNCHANGED gate /\ phase' # "tools"

LimitMoves ==
  \/ TurnOver \/ TurnKept \/ TurnNew
  \/ turn # 0 /\ (RoundCounted \/ CallRan \/ PlanRan \/ PlanShown)

\* One more call: its reply is among those in hand, its failure counts.
LEMMA OneMoreRun ==
  ASSUME TypeOK, NEW c \in Call, NEW ok \in BOOLEAN, Ran(c, ok)
  PROVE  /\ \A t, A : RanFrom(t, A) /\ (c.turn = t => c.ask \in A) => RanFrom(t, A)'
         /\ \A t : Failed(t)' = Failed(t) + (IF c.turn = t /\ c.kind \in PlanKinds /\ ~ok THEN 1 ELSE 0)
<1> DEFINE r == [call |-> c, ok |-> ok]
<1>1. ran \in Seq(Run) /\ r \in Run /\ ran' = Append(ran, r)
  BY DEF TypeOK, Run, Ran
<1>2. r.call = c /\ r.ok = ok
  OBVIOUS
<1> HIDE DEF r
<1>3. ASSUME NEW t, NEW A, RanFrom(t, A), c.turn = t => c.ask \in A PROVE RanFrom(t, A)'
  <2>1. /\ Len(ran) \in Nat /\ DOMAIN ran = 1..Len(ran) /\ DOMAIN ran' = 1..(Len(ran) + 1)
        /\ \A i \in 1..Len(ran) : ran'[i] = ran[i]
        /\ ran'[Len(ran) + 1] = r
    BY <1>1, AppendProperties, LenProperties
  <2>2. \A i \in DOMAIN ran' : (i \in DOMAIN ran /\ ran'[i] = ran[i]) \/ ran'[i] = r
    BY <2>1
  <2> QED
    BY <1>2, <1>3, <2>2 DEF RanFrom
<1>4. ASSUME NEW t
      PROVE  Failed(t)' = Failed(t) + (IF c.turn = t /\ c.kind \in PlanKinds /\ ~ok THEN 1 ELSE 0)
  <2>1. r \in FailedPlans(t) <=> c.turn = t /\ c.kind \in PlanKinds /\ ~ok
    BY <1>1, <1>2 DEF FailedPlans
  <2>2. Cardinality(Places(Append(ran, r), FailedPlans(t))) =
          Cardinality(Places(ran, FailedPlans(t))) + (IF r \in FailedPlans(t) THEN 1 ELSE 0)
    BY <1>1, PlacesAppend
  <2> QED
    BY <1>1, <2>1, <2>2 DEF Failed
<1> QED
  BY <1>3, <1>4

LEMMA FailedTyped == TypeOK => \A t : Failed(t) \in Nat
BY PlacesFinite DEF TypeOK, Failed

\* Nothing ran: the calls that ran and those that failed are the same.
LEMMA SameRuns ==
  NothingRan => \A t : /\ \A A : RanFrom(t, A) => RanFrom(t, A)'
                       /\ Failed(t)' = Failed(t)
BY DEF NothingRan, RanFrom, Failed

\* A turn that stays within its limits is guarded.
LEMMA LimitsGuard ==
  ASSUME TypeOK', NEW t, Rounds(t)', Repairs(t)'
  PROVE  Guarded(t)'
<1>1. /\ tool_round' \in Nat /\ MaxRounds \in Nat /\ plan_repairs' \in Nat /\ MaxRepairs \in Nat
      /\ Failed(t)' \in Nat
  BY BoundsAssumption, PlacesFinite DEF TypeOK, Failed
<1>2. PICK A : UpTo(tool_round', A) /\ RanFrom(t, A)'
  BY DEF Rounds
<1>3. UpTo(MaxRounds, A)
  <2>1. Cardinality(A) \in Nat
    BY <1>2, FS_CardinalityType DEF UpTo
  <2>2. \A x, y, z \in Nat : x <= y /\ y <= z => x <= z
    OBVIOUS
  <2> QED
    BY <1>1, <1>2, <2>1, <2>2 DEF UpTo, Rounds
<1>4. Failed(t)' <= MaxRepairs + 1
  <2>1. \A x, y, z \in Nat : x <= y + 1 /\ y <= z => x <= z + 1
    OBVIOUS
  <2>2. \A x, y \in Nat : x <= y + 0 => x <= y + 1
    OBVIOUS
  <2>3. Failed(t)' <= plan_repairs' + 1
    BY <1>1, <2>2 DEF Repairs
  <2> QED
    BY <1>1, <2>1, <2>3 DEF Repairs
<1> QED
  BY <1>2, <1>3, <1>4 DEF Guarded

\* The rounds, when what runs was in hand.
LEMMA RoundsKept ==
  ASSUME TypeOK, NEW t, Rounds(t), UNCHANGED tool_round, LessInHand,
         NothingRan \/ \E c \in InHand(t) \cap Call, ok \in BOOLEAN : Ran(c, ok)
  PROVE  Rounds(t)'
<1>1. PICK A : UpTo(tool_round, A) /\ RanFrom(t, A) /\ \A c \in InHand(t) : c.ask \in A
  BY DEF Rounds
<1>2. RanFrom(t, A)'
  BY <1>1, SameRuns, OneMoreRun
<1>3. \A c \in InHand(t)' : c.ask \in A
  BY <1>1 DEF LessInHand
<1>4. UpTo(tool_round', A) /\ tool_round' <= MaxRounds
  BY <1>1 DEF Rounds
<1> QED
  BY <1>2, <1>3, <1>4 DEF Rounds

LEMMA RoundsCounted ==
  ASSUME TypeOK, NEW t, Rounds(t), RoundCounted
  PROVE  Rounds(t)'
<1>1. PICK A : UpTo(tool_round, A) /\ RanFrom(t, A) /\ \A c \in InHand(t) : c.ask \in A
  BY DEF Rounds
<1>2. PICK x : \A c \in InHand(t)' : c \in InHand(t) \/ c.ask = x
  BY DEF RoundCounted
<1> DEFINE B == A \cup {x}
<1>3. IsFiniteSet(B) /\ Cardinality(A) \in Nat /\ Cardinality(B) \in {Cardinality(A), Cardinality(A) + 1}
  BY <1>1, FS_AddElement, FS_CardinalityType DEF UpTo
<1>4. UpTo(tool_round', B)
  <2>1. \A n, k \in Nat : k <= n => k <= n + 1 /\ k + 1 <= n + 1
    OBVIOUS
  <2> HIDE DEF B
  <2> QED
    BY <1>1, <1>3, <2>1 DEF UpTo, RoundCounted, TypeOK
<1>5. RanFrom(t, B)'
  <2>1. RanFrom(t, B)
    BY <1>1 DEF RanFrom
  <2> QED
    BY <2>1, SameRuns DEF RoundCounted
<1>6. \A c \in InHand(t)' : c.ask \in B
  BY <1>1, <1>2
<1> QED
  BY <1>4, <1>5, <1>6 DEF Rounds, RoundCounted

\* The repairs: a plan that is shown or runs after a failure has been counted.
LEMMA RepairsKept ==
  ASSUME TypeOK, TypeOK', NEW t, Repairs(t),
         TurnKept \/ RoundCounted \/ CallRan \/ PlanRan \/ PlanShown,
         InHand(turn) \subseteq Call
  PROVE  Repairs(t)'
<1>1. /\ plan_repairs \in Nat /\ MaxRepairs \in Nat /\ Failed(t) \in Nat
      /\ plan_failed \in BOOLEAN
      /\ Failed(t) <= plan_repairs + (IF pending_plan = None THEN 1 ELSE 0)
  BY BoundsAssumption, FailedTyped DEF TypeOK, Repairs
<1>2. CASE TurnKept \/ RoundCounted
  <2>1. UNCHANGED <<plan_repairs, plan_failed>> /\ Failed(t)' = Failed(t)
        /\ pending_plan' \in {pending_plan, None}
    BY <1>2, SameRuns DEF TurnKept, RoundCounted, loop
  <2>2. Failed(t) <= plan_repairs + (IF pending_plan' = None THEN 1 ELSE 0)
    BY <1>1, <2>1
  <2> QED
    BY <2>1, <2>2 DEF Repairs
<1>3. CASE CallRan
  <2>1. PICK c \in InHand(turn), ok \in BOOLEAN : Ran(c, ok) /\ c.kind \notin PlanKinds
    BY <1>3 DEF CallRan
  <2>2. Failed(t)' = Failed(t)
    BY <1>1, <2>1, OneMoreRun
  <2> QED
    BY <1>3, <2>2 DEF CallRan, loop, Repairs
<1>4. CASE PlanRan
  <2>1. PICK c \in InHand(turn), ok \in BOOLEAN :
          Ran(c, ok) /\ plan_failed' = (plan_failed \/ ~ok)
    BY <1>4 DEF PlanRan
  <2>2. /\ Failed(t)' \in {Failed(t), Failed(t) + 1}
        /\ ok => Failed(t)' = Failed(t)
    BY <1>1, <2>1, OneMoreRun
  <2>3. ~plan_failed' => Failed(t)' = 0
    BY <2>1, <2>2 DEF Repairs
  <2>4. plan_repairs' \in Nat /\ plan_repairs' <= MaxRepairs /\ Failed(t) <= plan_repairs'
    <3>1. CASE pending_plan # None /\ UNCHANGED plan_repairs
      BY <1>1, <3>1 DEF Repairs
    <3>2. CASE ~RepairsExhausted /\ CountRepair /\ plan_failed
      <4>1. plan_repairs' = plan_repairs + 1 /\ plan_repairs < MaxRepairs
        BY <1>1, <3>2 DEF RepairsExhausted, CountRepair
      <4> QED
        BY <1>1, <4>1
    <3>3. CASE ~RepairsExhausted /\ CountRepair /\ ~plan_failed
      BY <1>1, <3>3 DEF CountRepair, Repairs
    <3> QED
      BY <1>4, <3>1, <3>2, <3>3 DEF PlanRan
  <2>5. Failed(t)' <= plan_repairs' + 1
    BY <1>1, <2>2, <2>4
  <2> QED
    BY <1>4, <2>3, <2>4, <2>5 DEF Repairs, PlanRan
<1>5. CASE PlanShown
  <2>1. Failed(t)' = Failed(t) /\ UNCHANGED plan_failed
    BY <1>5, SameRuns DEF PlanShown
  <2>2. plan_repairs' \in Nat /\ plan_repairs' <= MaxRepairs /\ Failed(t) <= plan_repairs'
    <3>1. CASE plan_failed
      <4>1. plan_repairs' = plan_repairs + 1 /\ plan_repairs < MaxRepairs
        BY <1>1, <1>5, <3>1 DEF PlanShown, RepairsExhausted, CountRepair
      <4> QED
        BY <1>1, <4>1
    <3>2. CASE ~plan_failed
      BY <1>1, <1>5, <3>2 DEF PlanShown, CountRepair, Repairs
    <3> QED
      BY <3>1, <3>2
  <2>3. \A x, y \in Nat : x <= y => x <= y + 1 /\ x <= y + 0
    OBVIOUS
  <2>4. Failed(t)' <= plan_repairs' + (IF pending_plan' = None THEN 1 ELSE 0)
    BY <1>1, <2>1, <2>2, <2>3
  <2> QED
    BY <2>1, <2>2, <2>4 DEF Repairs
<1> QED
  BY <1>2, <1>3, <1>4, <1>5

\* Only the active turn has anything in hand, and it is of that turn.
LEMMA HandTyped ==
  ASSUME TurnInv
  PROVE  /\ InHand(turn) \subseteq Call
         /\ turn # 0 => \A c \in InHand(turn) : c.turn = turn
<1>1. TypeOK /\ LoopOwn /\ CardsOwn /\ (phase = "tools" => turn # 0)
  BY DEF TurnInv, TypeInv
<1>2. phase = "tools" => Elements(calls) \subseteq CallsOfTurn(turn)
  <2> SUFFICES ASSUME phase = "tools" PROVE Elements(calls) \subseteq CallsOfTurn(turn)
    OBVIOUS
  <2>1. calls \in Seq(CallsOfTurn(turn))
    BY <1>1 DEF LoopOwn
  <2> HIDE DEF CallsOfTurn
  <2> QED
    BY <2>1, LenProperties DEF Elements
<1>3. \A p \in {pending_approval, pending_plan} \ {None} : p.call \in Call /\ p.call.turn = p.turn
  BY <1>1 DEF TypeOK, Pending, CardsOwn
<1> QED
  BY <1>2, <1>3 DEF InHand, CallsOfTurn

LEMMA LimitsKept ==
  ASSUME TurnInv, TypeOK', Rounds(turn), Repairs(turn), NEW t, t = turn, turn # 0,
         TurnKept \/ RoundCounted \/ CallRan \/ PlanRan \/ PlanShown
  PROVE  Rounds(t)' /\ Repairs(t)'
<1>1. TypeOK /\ InHand(turn) \subseteq Call
  BY HandTyped DEF TurnInv, TypeInv
<1>2. Repairs(t)'
  BY <1>1, RepairsKept
<1>3. CASE RoundCounted
  BY <1>1, <1>2, <1>3, RoundsCounted
<1>4. CASE TurnKept \/ CallRan \/ PlanRan \/ PlanShown
  <2>1. /\ UNCHANGED tool_round /\ LessInHand
        /\ NothingRan \/ \E c \in InHand(t), ok \in BOOLEAN : Ran(c, ok)
    BY <1>4 DEF TurnKept, CallRan, PlanRan, PlanShown, loop
  <2> QED
    BY <1>1, <1>2, <2>1, RoundsKept
<1> QED
  BY <1>2, <1>3, <1>4

\* Nothing changes for the other turns.
LEMMA OtherTurns ==
  ASSUME TurnInv, LimitMoves, NEW t, Guarded(t), t # turn
  PROVE  Guarded(t)'
<1>1. TypeOK /\ InHand(turn) \subseteq Call /\ (turn # 0 => \A c \in InHand(turn) : c.turn = turn)
  BY HandTyped DEF TurnInv, TypeInv
<1>2. CASE NothingRan
  BY <1>2, SameRuns DEF Guarded
<1>3. CASE turn # 0 /\ \E c \in InHand(turn), ok \in BOOLEAN : Ran(c, ok)
  <2>1. PICK c \in InHand(turn), ok \in BOOLEAN : Ran(c, ok)
    BY <1>3
  <2>2. c \in Call /\ c.turn # t
    BY <1>1, <1>3, <2>1
  <2>3. Failed(t)' = Failed(t) + 0
    BY <1>1, <2>1, <2>2, OneMoreRun
  <2>4. Failed(t)' = Failed(t)
    BY <1>1, <2>3, FailedTyped
  <2>5. \A A : RanFrom(t, A) => RanFrom(t, A)'
    BY <1>1, <2>1, <2>2, OneMoreRun
  <2> QED
    BY <2>4, <2>5 DEF Guarded
<1> QED
  BY <1>2, <1>3 DEF LimitMoves, TurnOver, TurnKept, RoundCounted, CallRan, PlanRan, PlanShown, TurnNew

\* A new turn starts with nothing run and nothing in hand.
LEMMA LimitsNew ==
  ASSUME TypeOK, KnownTurns, TurnNew, NEW t, t = turn_counter + 1
  PROVE  Rounds(t)' /\ Repairs(t)'
<1>1. /\ turn_counter \in Nat /\ ran \in Seq(Run) /\ MaxRounds \in Nat /\ MaxRepairs \in Nat
      /\ {pending_approval, pending_plan} \ {None} \subseteq Pending
  BY BoundsAssumption DEF TypeOK
<1>2. \A i \in DOMAIN ran : ran[i].call.turn # t
  <2>1. \A i \in DOMAIN ran : ran[i].call.turn \in Nat
    <3>1. \A i \in DOMAIN ran : ran[i] \in Run
      BY <1>1, LenProperties
    <3> QED
      BY <3>1 DEF Run, Call
  <2> QED
    BY <1>1, <2>1 DEF KnownTurns
<1>3. InHand(t)' = {}
  <2>1. \A p \in {pending_approval, pending_plan} \ {None} : p.turn \in Nat /\ p.turn <= turn_counter
    BY <1>1 DEF KnownTurns, Pending, Ids
  <2>2. \A p \in {pending_approval, pending_plan} \ {None} : p.turn # t
    BY <1>1, <2>1
  <2> QED
    BY <2>2 DEF InHand, TurnNew, gate
<1>4. Failed(t)' = 0
  <2>1. Places(ran, FailedPlans(t)) = {}
    BY <1>2 DEF Places, FailedPlans
  <2> QED
    BY <2>1, FS_EmptySet DEF Failed, TurnNew, NothingRan
<1>5. UpTo(0, {}) /\ RanFrom(t, {})'
  BY <1>2, FS_EmptySet DEF UpTo, RanFrom, TurnNew, NothingRan
<1>6. Rounds(t)'
  BY <1>1, <1>3, <1>5 DEF Rounds, TurnNew
<1>7. 0 <= MaxRepairs /\ 0 <= 0 + (IF pending_plan' = None THEN 1 ELSE 0)
  BY <1>1
<1> QED
  BY <1>4, <1>6, <1>7 DEF Repairs, TurnNew

LEMMA LimitStep ==
  ASSUME TurnInv, TypeOK', KnownTurns', LimitInv, LimitMoves
  PROVE  LimitInv'
<1>1. TypeOK /\ turn \in Nat /\ turn_counter \in Nat /\ turn <= turn_counter /\ KnownTurns
  BY DEF TurnInv, TypeInv, TypeOK, ActiveTurn, LimitInv
<1> DEFINE goes == turn # 0 /\ (TurnKept \/ RoundCounted \/ CallRan \/ PlanRan \/ PlanShown)
<1>2. ASSUME goes, NEW t, t = turn PROVE Rounds(t)' /\ Repairs(t)' /\ Guarded(t)'
  <2>1. Rounds(t)' /\ Repairs(t)'
    BY <1>2, LimitsKept DEF LimitInv
  <2> QED
    BY <2>1, LimitsGuard
<1>3. ASSUME TurnNew, NEW t, t = turn_counter + 1 PROVE Rounds(t)' /\ Repairs(t)' /\ Guarded(t)'
  <2>1. Rounds(t)' /\ Repairs(t)'
    BY <1>1, <1>3, LimitsNew
  <2> QED
    BY <2>1, LimitsGuard
<1>4. /\ TurnNew => turn' = turn_counter + 1 /\ turn_counter' = turn_counter + 1
      /\ ~TurnNew => turn_counter' = turn_counter
      /\ goes \/ TurnNew \/ (NothingRan /\ turn' = 0)
      /\ goes => turn' \in {turn, 0}
  BY DEF LimitMoves, TurnNew, TurnOver, TurnKept, RoundCounted, CallRan, PlanRan, PlanShown, OrEnds
<1>5. ASSUME NEW t \in 1..turn_counter' PROVE Guarded(t)'
  <2>1. CASE t \in 1..turn_counter /\ t # turn
    BY <2>1, OtherTurns DEF LimitInv
  <2>2. CASE t = turn
    <3>1. t \in 1..turn_counter
      BY <1>1, <2>2
    <3>2. CASE NothingRan
      BY <3>1, <3>2, SameRuns DEF LimitInv, Guarded
    <3> QED
      BY <1>2, <1>4, <2>2, <3>2 DEF TurnNew
  <2>3. CASE t \notin 1..turn_counter
    <3>1. TurnNew /\ t = turn_counter + 1
      BY <1>1, <1>4, <2>3
    <3> QED
      BY <1>3, <3>1
  <2> QED
    BY <2>1, <2>2, <2>3
<1>6. ASSUME turn' # 0 PROVE Rounds(turn)' /\ Repairs(turn)'
  <2>1. PICK t : t = turn'
    OBVIOUS
  <2>2. Rounds(t)' /\ Repairs(t)'
    BY <1>2, <1>3, <1>4, <1>6, <2>1
  <2> QED
    BY <2>1, <2>2 DEF Rounds, Repairs, RanFrom, InHand, Failed, FailedPlans
<1> QED
  BY <1>5, <1>6 DEF LimitInv

-----------------------------------------------------------------------------
(* Every step moves the limits so *)

LEMMA KnownNext == TurnInv /\ KnownTurns /\ [Next]_vars => KnownTurns'
<1> SUFFICES ASSUME TurnInv, KnownTurns, [Next]_vars PROVE KnownTurns'
  OBVIOUS
<1>1. /\ TypeOK /\ turn \in Nat /\ turn_counter \in Nat /\ turn <= turn_counter
      /\ ran \in Seq(Run) /\ Len(ran) \in Nat /\ DOMAIN ran = 1..Len(ran)
      /\ \A p \in {pending_approval, pending_plan} \ {None} : p.turn \in Nat
      /\ \A i \in DOMAIN ran : ran[i].call.turn \in Nat
  <2>1. TypeOK /\ turn <= turn_counter
    BY DEF TurnInv, TypeInv, ActiveTurn
  <2>2. \A i \in DOMAIN ran : ran[i] \in Run
    BY <2>1, LenProperties DEF TypeOK
  <2> QED
    BY <2>1, <2>2, LenProperties DEF TypeOK, Pending, Ids, Run, Call
<1>2. turn_counter' \in {turn_counter, turn_counter + 1}
  BY NextMovesTurn DEF TurnMoves, KeepsTurn, EndsTurn, NewTurn
<1>3. \A x \in Nat : x <= turn_counter => x <= turn_counter'
  BY <1>1, <1>2
<1>4. \A i \in DOMAIN ran' : ran'[i].call.turn <= turn_counter'
  <2>1. CASE UNCHANGED ran
    BY <1>1, <1>3, <2>1 DEF KnownTurns
  <2>2. ASSUME NEW call \in Call, NEW ok \in BOOLEAN,
               ran' = Append(ran, [call |-> call, ok |-> ok]), call.turn = turn
        PROVE  \A i \in DOMAIN ran' : ran'[i].call.turn <= turn_counter'
    <3> DEFINE r == [call |-> call, ok |-> ok]
    <3>1. r \in Run /\ r.call.turn = turn /\ ran' = Append(ran, r)
      BY <2>2 DEF Run
    <3> HIDE DEF r
    <3>2. \A i \in DOMAIN ran' : (i \in DOMAIN ran /\ ran'[i] = ran[i]) \/ ran'[i] = r
      BY <1>1, <3>1
    <3> QED
      BY <1>1, <1>3, <3>1, <3>2 DEF KnownTurns
  <2> QED
    BY <2>1, <2>2, RunsOfTurn
<1>5. CASE pending_approval' \in {pending_approval, None} /\ pending_plan' \in {pending_plan, None}
  BY <1>1, <1>3, <1>4, <1>5 DEF KnownTurns
<1>6. CASE AskUser \/ ReviewPlan
  <2>1. /\ Decision(Head(calls)).turn = turn /\ Decision(Head(calls)).call = Head(calls)
        /\ \/ /\ pending_approval' = Decision(Head(calls)) /\ pending_plan' = pending_plan
              /\ Head(calls).kind = "gated"
           \/ pending_plan' = Decision(Head(calls)) /\ pending_approval' = pending_approval
    BY <1>6 DEF Decision, AskUser, ReviewPlan
  <2> QED
    BY <1>1, <1>3, <1>4, <2>1 DEF KnownTurns
<1>7. CASE SubmitPrompt \/ EndTick
  <2>1. StartPrompt \/ UNCHANGED gate
    BY <1>7 DEF SubmitPrompt, EndTick
  <2> QED
    BY <1>5, <2>1 DEF StartPrompt, gate
<1>8. ASSUME NEW id, NEW seen,
             \/ Approve(id, seen) \/ Reject(id, seen)
             \/ ApprovePlan(id, seen) \/ RejectPlan(id, seen)
      PROVE  KnownTurns'
  BY <1>5, <1>8 DEF Approve, Reject, ApprovePlan, RejectPlan
<1>9. CASE CancelTurn \/ ClearHistory \/ LoadSession \/ WorkerStep \/ UNCHANGED vars
  BY <1>5, <1>9 DEF CancelTurn, ClearHistory, LoadSession, WorkerStep, WorkerTake, WorkerReceive,
                    WorkerPost, WorkerAbandon, vars, gate
<1>10. CASE \/ BeginTick \/ DropStaleEvent \/ HandleDelta \/ HandleError
            \/ IllegalTransition \/ HandleFinalReply \/ HandleToolReply
            \/ RunCall \/ RefusePlan \/ AutoApprovePlan \/ FinishLoop
  BY <1>5, <1>10
  DEF BeginTick, DropStaleEvent, HandleDelta, HandleError, IllegalTransition, HandleFinalReply,
      HandleToolReply, RunCall, RefusePlan, AutoApprovePlan, FinishLoop, gate
<1> QED
  BY <1>6, <1>7, <1>8, <1>9, <1>10 DEF Next, User, Timer

LEMMA HandShrinks ==
  ASSUME UNCHANGED <<phase, calls>> \/ phase' # "tools",
         pending_approval' \in {pending_approval, None}, pending_plan' \in {pending_plan, None}
  PROVE  LessInHand
BY DEF LessInHand, InHand

\* A decision runs the call of its card, or nothing.
LEMMA DecisionMovesLimits ==
  ASSUME TypeOK, KnownTurns, NEW id, NEW seen,
         \/ Approve(id, seen) \/ Reject(id, seen)
         \/ ApprovePlan(id, seen) \/ RejectPlan(id, seen)
  PROVE  LimitMoves
<1>1. /\ UNCHANGED <<turn_counter, phase, calls>> /\ turn # 0
      /\ pending_approval' \in {pending_approval, None} /\ pending_plan' \in {pending_plan, None}
  BY DEF Approve, Reject, ApprovePlan, RejectPlan, Answers, main, TypeOK, Pending, Ids
<1>2. LessInHand
  BY <1>1, HandShrinks
<1>3. turn' \in {turn, 0}
  BY DEF Approve, Reject, ApprovePlan, RejectPlan, FillAndContinue, SendRequest, FailTurn
<1>4. CASE Approve(id, seen)
  <2>1. /\ pending_approval.call \in InHand(turn) /\ pending_approval.call.kind = "gated"
        /\ UNCHANGED <<loop, pending_plan>>
    BY <1>4 DEF Approve, Answers, InHand, KnownTurns
  <2>2. \E ok \in BOOLEAN : Ran(pending_approval.call, ok)
    BY <1>4 DEF Approve, Ran
  <2>3. CallRan
    BY <1>1, <1>2, <1>3, <2>1, <2>2 DEF CallRan, OrEnds, PlanKinds
  <2> QED
    BY <1>1, <2>3 DEF LimitMoves
<1>5. CASE ApprovePlan(id, seen)
  <2>1. /\ pending_plan.call \in InHand(turn) /\ pending_plan # None /\ pending_plan' = None
        /\ UNCHANGED <<tool_round, plan_repairs>>
    BY <1>5 DEF ApprovePlan, Answers, InHand
  <2>2. \E ok \in BOOLEAN : Ran(pending_plan.call, ok) /\ plan_failed' = (plan_failed \/ ~ok)
    BY <1>5 DEF ApprovePlan, ExecutePlan, Ran
  <2>3. PlanRan
    BY <1>1, <1>2, <1>3, <2>1, <2>2 DEF PlanRan, OrEnds
  <2> QED
    BY <1>1, <2>3 DEF LimitMoves
<1>6. CASE Reject(id, seen) \/ RejectPlan(id, seen)
  <2>1. UNCHANGED <<loop, ran>>
    BY <1>6 DEF Reject, RejectPlan
  <2> QED
    BY <1>1, <1>2, <1>3, <2>1 DEF LimitMoves, TurnKept, TurnOver, NothingRan
<1> QED
  BY <1>4, <1>5, <1>6

\* The loop: its calls, and the cards it shows, come out of the reply in hand.
LEMMA LoopMovesLimits ==
  ASSUME TurnInv, RunCall \/ AskUser \/ RefusePlan \/ ReviewPlan \/ AutoApprovePlan \/ FinishLoop
  PROVE  LimitMoves
<1>1. /\ TypeOK /\ turn # 0 /\ phase = "tools" /\ calls \in Seq(Call) /\ UNCHANGED turn_counter
      /\ turn' \in {turn, 0}
  BY DEF TurnInv, TypeInv, TypeOK, RunCall, AskUser, RefusePlan, ReviewPlan, AutoApprovePlan,
         FinishLoop, SendRequest, FailTurn
<1>2. calls # <<>> => /\ Head(calls) \in InHand(turn) /\ \A t : Head(calls) \in InHand(t)
                      /\ \A t : Elements(Tail(calls)) \subseteq InHand(t)
  <2> SUFFICES ASSUME calls # <<>>
               PROVE  Head(calls) \in Elements(calls) /\ Elements(Tail(calls)) \subseteq Elements(calls)
    BY <1>1 DEF InHand
  <2>1. /\ Len(calls) \in Nat /\ Len(calls) # 0 /\ DOMAIN calls = 1..Len(calls)
        /\ Head(calls) = calls[1]
    BY <1>1, LenProperties, EmptySeq
  <2>2. /\ DOMAIN Tail(calls) = 1..(Len(calls) - 1)
        /\ \A i \in 1..(Len(calls) - 1) : Tail(calls)[i] = calls[i + 1]
    BY <1>1, <2>1
  <2>3. \A i \in 1..(Len(calls) - 1) : i + 1 \in 1..Len(calls)
    BY <2>1
  <2> QED
    BY <2>1, <2>2, <2>3 DEF Elements
<1>3. CASE RunCall
  <2>1. /\ calls # <<>> /\ Head(calls).kind = "auto" /\ UNCHANGED <<loop, gate>>
        /\ \E ok \in BOOLEAN : Ran(Head(calls), ok)
        /\ phase' # "tools" \/ calls' = Tail(calls)
    BY <1>3 DEF RunCall, LeaveLoop, Ran
  <2>2. LessInHand
    BY <1>1, <1>2, <2>1 DEF LessInHand, InHand, gate
  <2>3. CallRan
    BY <1>1, <1>2, <2>1, <2>2 DEF CallRan, OrEnds, PlanKinds, gate
  <2> QED
    BY <1>1, <2>3 DEF LimitMoves
<1>4. CASE AskUser \/ ReviewPlan
  <2>1. /\ calls # <<>> /\ phase' # "tools" /\ UNCHANGED <<turn, tool_round, plan_failed, ran>>
        /\ \/ /\ pending_approval' = Decision(Head(calls)) /\ UNCHANGED <<pending_plan, loop>>
           \/ /\ pending_plan' = Decision(Head(calls)) /\ UNCHANGED pending_approval
              /\ ~RepairsExhausted /\ CountRepair
    BY <1>4 DEF AskUser, ReviewPlan, LeaveLoop, loop
  <2>2. Decision(Head(calls)).call = Head(calls)
    BY DEF Decision
  <2>3. LessInHand
    <3>1. ASSUME NEW t, NEW c \in InHand(t)' PROVE c \in InHand(t)
      <4>1. PICK p \in {pending_approval', pending_plan'} \ {None} : p.turn = t /\ c = p.call
        BY <2>1 DEF InHand
      <4>2. CASE p \in {pending_approval, pending_plan}
        BY <4>1, <4>2 DEF InHand
      <4>3. CASE p = Decision(Head(calls))
        BY <1>2, <2>1, <2>2, <4>1, <4>3
      <4> QED
        BY <2>1, <4>2, <4>3
    <3> QED
      BY <3>1 DEF LessInHand
  <2> QED
    BY <1>1, <2>1, <2>3 DEF LimitMoves, TurnKept, PlanShown, NothingRan
<1>5. CASE RefusePlan
  BY <1>1, <1>5 DEF RefusePlan, FailTurn, history, LimitMoves, TurnOver, NothingRan
<1>6. CASE AutoApprovePlan
  <2>1. /\ calls # <<>> /\ ~RepairsExhausted /\ CountRepair /\ phase' # "tools"
        /\ pending_plan' = None /\ UNCHANGED <<tool_round, pending_approval>>
        /\ \E ok \in BOOLEAN : Ran(Head(calls), ok) /\ plan_failed' = (plan_failed \/ ~ok)
    BY <1>6 DEF AutoApprovePlan, ExecutePlan, LeaveLoop, Ran
  <2>2. LessInHand
    BY <2>1, HandShrinks
  <2>3. PlanRan
    BY <1>1, <1>2, <2>1, <2>2 DEF PlanRan, OrEnds
  <2> QED
    BY <1>1, <2>3 DEF LimitMoves
<1>7. CASE FinishLoop
  <2>1. UNCHANGED <<loop, gate, ran>> /\ phase' # "tools"
    BY <1>7 DEF FinishLoop, LeaveLoop, history
  <2>2. LessInHand
    BY <2>1, HandShrinks DEF gate
  <2> QED
    BY <1>1, <2>1, <2>2 DEF LimitMoves, TurnKept, TurnOver, NothingRan, gate
<1> QED
  BY <1>3, <1>4, <1>5, <1>6, <1>7

LEMMA ReplyMovesLimits ==
  ASSUME TurnInv, HandleToolReply
  PROVE  LimitMoves
<1>1. TypeOK /\ batch \in Seq(OwnEvents)
  BY DEF TurnInv, TypeInv, EventsOwn
<1>2. /\ batch # <<>> /\ Head(batch).turn = turn /\ Head(batch).calls # <<>>
      /\ UNCHANGED <<turn_counter, ran, gate, plan_repairs, plan_failed>>
  BY DEF HandleToolReply, Handling, history
<1>3. Head(batch) \in OwnEvents /\ turn # 0 /\ OneReply(Head(batch).calls)
  BY <1>1, <1>2, HeadTailProperties DEF OwnEvents, Event, Ids
<1>4. CASE FailTurn
  BY <1>2, <1>4 DEF FailTurn, LimitMoves, TurnOver, NothingRan
<1>5. CASE ~FailTurn
  <2>1. /\ UNCHANGED turn /\ tool_round' = tool_round + 1 /\ ~(tool_round' > MaxRounds)
        /\ phase' = "tools" /\ calls' = Head(batch).calls
    BY <1>5 DEF HandleToolReply
  <2>2. tool_round' <= MaxRounds
    BY <1>1, <2>1, BoundsAssumption DEF TypeOK
  <2>3. \E x : \A c \in Elements(calls') : c.ask = x
    <3>1. calls' \in Seq(Call)
      BY <1>3, <2>1 DEF OwnEvents, Event
    <3>2. DOMAIN calls' = 1..Len(calls') /\ Len(calls') \in Nat /\ Len(calls') # 0
      BY <1>2, <2>1, <3>1, LenProperties, EmptySeq
    <3>3. 1 \in DOMAIN calls'
      BY <3>2
    <3>4. \A c \in Elements(calls') : c.ask = calls'[1].ask
      BY <1>3, <2>1, <3>3 DEF OneReply, Elements
    <3> QED
      BY <3>4
  <2>4. \A t : \A c \in InHand(t)' : c \in InHand(t) \/ c \in Elements(calls')
    BY <1>2, <2>1 DEF InHand, Elements, gate
  <2>5. \E x : \A t : \A c \in InHand(t)' : c \in InHand(t) \/ c.ask = x
    BY <2>3, <2>4
  <2>6. RoundCounted
    BY <1>2, <2>1, <2>2, <2>5 DEF RoundCounted, NothingRan, gate
  <2> QED
    BY <1>3, <2>6 DEF LimitMoves
<1> QED
  BY <1>4, <1>5

LEMMA NextMovesLimits == GuardEnv /\ TurnInv /\ KnownTurns /\ [Next]_vars => LimitMoves
<1> SUFFICES ASSUME GuardEnv, TurnInv, KnownTurns, [Next]_vars PROVE LimitMoves
  OBVIOUS
<1>0. TypeOK
  BY DEF TurnInv, TypeInv
<1>1. CASE SubmitPrompt \/ EndTick
  <2>1. \/ turn = 0 /\ StartPrompt /\ phase' # "tools"
        \/ /\ UNCHANGED <<turn, turn_counter, loop, ran, gate>>
           /\ UNCHANGED <<phase, calls>> \/ phase' # "tools"
    BY <1>1 DEF SubmitPrompt, EndTick, CanPump, main, lifecycle, history
  <2>2. CASE turn = 0 /\ StartPrompt /\ phase' # "tools"
    BY <2>2 DEF StartPrompt, history, LimitMoves, TurnOver, TurnNew, NothingRan
  <2>3. CASE /\ UNCHANGED <<turn, turn_counter, loop, ran, gate>>
             /\ UNCHANGED <<phase, calls>> \/ phase' # "tools"
    <3>1. LessInHand
      BY <2>3, HandShrinks DEF gate
    <3> QED
      BY <2>3, <3>1 DEF LimitMoves, TurnKept, NothingRan, gate
  <2> QED
    BY <2>1, <2>2, <2>3
<1>2. CASE CancelTurn
  BY <1>2 DEF CancelTurn, history, LimitMoves, TurnOver, NothingRan
<1>3. CASE ClearHistory \/ LoadSession
  BY <1>3 DEF ClearHistory, LoadSession, GuardEnv
<1>4. ASSUME NEW id, NEW seen,
             \/ Approve(id, seen) \/ Reject(id, seen)
             \/ ApprovePlan(id, seen) \/ RejectPlan(id, seen)
      PROVE  LimitMoves
  BY <1>0, <1>4, DecisionMovesLimits
<1>5. CASE \/ WorkerStep \/ UNCHANGED vars
           \/ BeginTick \/ DropStaleEvent \/ HandleDelta \/ IllegalTransition
  <2>1. /\ UNCHANGED <<turn, turn_counter, loop, ran, gate>>
        /\ UNCHANGED <<phase, calls>> \/ phase' # "tools"
    BY <1>5 DEF WorkerStep, WorkerTake, WorkerReceive, WorkerPost, WorkerAbandon, vars, BeginTick,
                DropStaleEvent, HandleDelta, IllegalTransition, main, lifecycle, history
  <2>2. LessInHand
    BY <2>1, HandShrinks DEF gate
  <2> QED
    BY <2>1, <2>2 DEF LimitMoves, TurnKept, NothingRan, gate
<1>6. CASE HandleError \/ HandleFinalReply
  BY <1>6 DEF HandleError, HandleFinalReply, history, LimitMoves, TurnOver, NothingRan
<1> QED
  BY <1>1, <1>2, <1>3, <1>4, <1>5, <1>6, LoopMovesLimits, ReplyMovesLimits DEF Next, User, Timer

\* The guards of the loop hold whatever fails, is cancelled, compacted or lost: a
\* turn executes the calls of at most MaxRounds replies, and at most MaxRepairs
\* plans after the first one that failed (max_tool_rounds, max_plan_repairs).
THEOREM LoopsAreGuarded == GuardEnv => (Spec => []LoopGuards)
<1> SUFFICES ASSUME GuardEnv PROVE Spec => []LoopGuards
  OBVIOUS
<1> DEFINE Inv == TurnInv /\ LimitInv
<1>1. Init => Inv
  BY TurnInit DEF Init, LimitInv, KnownTurns
<1>2. Inv /\ [Next]_vars => Inv'
  <2> SUFFICES ASSUME Inv, [Next]_vars PROVE Inv'
    OBVIOUS
  <2>1. TurnInv' /\ TypeOK'
    BY TurnNext DEF TurnInv, TypeInv
  <2>2. KnownTurns' /\ LimitMoves
    BY KnownNext, NextMovesLimits DEF LimitInv
  <2> QED
    BY <2>1, <2>2, LimitStep
<1>3. Inv => LoopGuards
  <2> SUFFICES ASSUME Inv, NEW t \in 1..turn_counter
               PROVE  /\ Cardinality({ran[n].call.ask : n \in {m \in DOMAIN ran : ran[m].call.turn = t}})
                           <= MaxRounds
                      /\ Count(ran, LAMBDA r : r.call.turn = t /\ r.call.kind \in PlanKinds /\ ~r.ok)
                           <= MaxRepairs + 1
    BY DEF LoopGuards
  <2>1. Guarded(t) /\ ran \in Seq(Run)
    BY DEF LimitInv, TurnInv, TypeInv, TypeOK
  <2>2. PICK A : UpTo(MaxRounds, A) /\ RanFrom(t, A)
    BY <2>1 DEF Guarded
  <2> DEFINE asks == {ran[n].call.ask : n \in {m \in DOMAIN ran : ran[m].call.turn = t}}
  <2>3. asks \in SUBSET A
    BY <2>2 DEF RanFrom
  <2>4. /\ Cardinality(asks) <= Cardinality(A) /\ Cardinality(asks) \in Nat /\ Cardinality(A) \in Nat
        /\ Cardinality(A) <= MaxRounds
    BY <2>2, <2>3, FS_Subset, FS_CardinalityType DEF UpTo
  <2>5. \A i \in DOMAIN ran : ran[i] \in Run
    BY <2>1, LenProperties
  <2>6. Places(ran, FailedPlans(t)) =
          {n \in DOMAIN ran : ran[n].call.turn = t /\ ran[n].call.kind \in PlanKinds /\ ~ran[n].ok}
    BY <2>5 DEF Places, FailedPlans
  <2>7. Cardinality(asks) <= MaxRounds
    <3>1. \A x, y, z \in Nat : x <= y /\ y <= z => x <= z
      OBVIOUS
    <3> HIDE DEF asks
    <3> QED
      BY <2>4, <3>1, BoundsAssumption
  <2> QED
    BY <2>1, <2>6, <2>7 DEF Guarded, Failed, Count
<1> QED
  BY <1>1, <1>2, <1>3, PTL DEF Spec
=============================================================================
