--------------------------- MODULE ChatConversation ---------------------------
(***************************************************************************)
(* The conversation that the agent sends to the language model             *)
(* (agent/models.py) and the three operations that rewrite it as a whole:  *)
(* discarding the tail of an interrupted turn, answering tool calls that   *)
(* never ran, and compacting old turns (agent/memory.py).  All operators   *)
(* are pure: they take and return sequences of messages.                   *)
(*                                                                         *)
(* The text of a message is abstracted away.  A message keeps its role,    *)
(* the turn that wrote it, and `calls': the tool calls an ASSISTANT        *)
(* message requests, or the one call a TOOL message answers.               *)
(***************************************************************************)
EXTENDS Integers, Sequences, FiniteSets

\* What a tool call asks for, as far as the runtime treats it differently:
\* a tool that runs at once, one that needs the user, and propose_plan with a
\* low-risk plan, a plan that needs the user, or one that does not validate.
Kinds == {"auto", "gated", "lowPlan", "gatedPlan", "badPlan"}
PlanKinds == {"lowPlan", "gatedPlan", "badPlan"}

\* call_id is unique: the number of the reply and the place in it.
Call == [ask : Nat \ {0}, pos : Nat \ {0}, turn : Nat \ {0}, kind : Kinds]

Roles == {"SYSTEM", "USER", "ASSISTANT", "TOOL"}
Message == [role : Roles, turn : Nat, calls : Seq(Call)]

UserMsg(t) == [role |-> "USER", turn |-> t, calls |-> <<>>]
AssistantMsg(t, cs) == [role |-> "ASSISTANT", turn |-> t, calls |-> cs]
ToolMsg(c) == [role |-> "TOOL", turn |-> c.turn, calls |-> <<c>>]

\* Turn 0 marks what no user turn wrote: the system prompt and the pair of
\* messages a compaction leaves (recognised in the code by SUMMARY_MARKER).
SystemMsg == [role |-> "SYSTEM", turn |-> 0, calls |-> <<>>]
SummaryMsgs == <<UserMsg(0), AssistantMsg(0, <<>>)>>

CallsOf(msg) == {msg.calls[k] : k \in DOMAIN msg.calls}

-----------------------------------------------------------------------------
(* validate_sequence *)

\* The calls requested by the last ASSISTANT message before position i that
\* are still unanswered there (pending_tool_call_ids on reaching message i).
OpenCalls(msgs, i) ==
  {c \in UNION {CallsOf(msgs[j]) : j \in {k \in 1..(i-1) : msgs[k].role = "ASSISTANT"}} :
     \E j \in 1..(i-1) :
       /\ msgs[j].role = "ASSISTANT"
       /\ c \in CallsOf(msgs[j])
       /\ \A k \in (j+1)..(i-1) : ~(msgs[k].role = "TOOL" /\ c \in CallsOf(msgs[k]))}

\* A TOOL message answers an open call; every other message, and the end of
\* the conversation, finds no call open.
ValidSequence(msgs) ==
  /\ \A i \in DOMAIN msgs :
       IF msgs[i].role = "TOOL"
         THEN CallsOf(msgs[i]) \subseteq OpenCalls(msgs, i)
         ELSE OpenCalls(msgs, i) = {}
  /\ OpenCalls(msgs, Len(msgs) + 1) = {}

-----------------------------------------------------------------------------
(* _fill_missing_tool_results *)

\* i is the last message that requests tool calls, 0 if there is none.
IsLastAsk(msgs, i) ==
  LET asks == {k \in DOMAIN msgs : msgs[k].role = "ASSISTANT" /\ msgs[k].calls # <<>>}
  IN  /\ i \in asks \/ (i = 0 /\ asks = {})
      /\ \A k \in asks : k <= i

\* Mutant of FillFrom: the calls that never ran stay unanswered.
FillFrom_None(msgs, i) == msgs

\* Every call of message i that has no answer gets a NOT_EXECUTED one.  Calls
\* are answered in the order requested, so the answered ones are a prefix.
FillFrom(msgs, i) ==
  IF i = 0 THEN msgs
  ELSE LET answered == Len(msgs) - i
           calls == msgs[i].calls
       IN  msgs \o [k \in 1..(Len(calls) - answered) |-> ToolMsg(calls[answered + k])]

-----------------------------------------------------------------------------
(* _discard_active_turn_context *)

NoStart == -1

\* Mutant of Discard: the prompt of the turn stays.
Discard_KeepsPrompt(msgs, start) ==
  IF start # NoStart /\ start <= Len(msgs) THEN SubSeq(msgs, 1, start + 1) ELSE msgs

\* An index past the end discards nothing.
Discard(msgs, start) ==
  IF start # NoStart /\ start <= Len(msgs) THEN SubSeq(msgs, 1, start) ELSE msgs

-----------------------------------------------------------------------------
(* partition_conversation_into_turns, compact_conversation *)

HasSystem(msgs) == msgs # <<>> /\ msgs[1].role = "SYSTEM"
IsSummary(msg) == msg.role = "USER" /\ msg.turn = 0

\* Length of the part before the first turn: SYSTEM message and old summary.
HeaderLen(msgs) ==
  LET s == IF HasSystem(msgs) THEN 1 ELSE 0
  IN  IF s < Len(msgs) /\ IsSummary(msgs[s + 1]) THEN s + 2 ELSE s

\* A turn cluster starts at each USER message, or right after the header.
ClusterStarts(msgs) ==
  {i \in (HeaderLen(msgs) + 1)..Len(msgs) :
     msgs[i].role = "USER" \/ i = HeaderLen(msgs) + 1}

\* k is where the last n clusters begin, and there are older ones before it.
StartsRetained(msgs, n, k) ==
  /\ k \in ClusterStarts(msgs)
  /\ Cardinality(ClusterStarts(msgs)) > n
  /\ Cardinality({i \in ClusterStarts(msgs) : i >= k}) = n

\* The older clusters and the previous summary become one summary.
CompactFrom(msgs, k) ==
  (IF HasSystem(msgs) THEN <<msgs[1]>> ELSE <<>>) \o SummaryMsgs
     \o SubSeq(msgs, k, Len(msgs))
=============================================================================
