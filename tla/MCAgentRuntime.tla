---------------------------- MODULE MCAgentRuntime ----------------------------
(* Values for model checking AgentRuntime: the replies of the model in each run. *)
EXTENDS AgentRuntime

\* A batch that stops in the middle for the user, or one that does not.
ApprovalReplies == {<<>>, <<"auto", "gated", "auto">>, <<"auto">>}
\* One plan per reply, of every sort.
PlanReplies == {<<>>, <<"gatedPlan">>, <<"lowPlan">>, <<"badPlan">>}
\* The plans, and a batch that can fail before the call that needs the user.
DegradedReplies == PlanReplies \union {<<"auto", "gated">>}
\* A final answer or one gated call.
ShortReplies == {<<>>, <<"gated">>}
=============================================================================
