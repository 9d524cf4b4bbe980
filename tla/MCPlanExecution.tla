---------------------------- MODULE MCPlanExecution ----------------------------
(* The plans of the runs of PlanExecution. *)
EXTENDS PlanExecution, TLC

CONSTANTS a, b, c, d, missing

Names == {a, b, c, d, missing}

PlanOf(ids, tools, D) ==
  {[k \in 1..Len(ids) |-> [id |-> ids[k], tool |-> tools[k], deps |-> f[k]]] :
     f \in [1..Len(ids) -> D]}

\* Every way four steps can depend on each other.
Graphs == {p \in PlanOf(<<a, b, c, d>>, <<"low", "low", "gated", "low">>, SUBSET {a, b, c, d}) :
             \A k \in 1..4 : p[k].id \notin p[k].deps}

\* Loops and dependencies on no step, for two steps of every sort, also with one name.
Small == UNION {PlanOf(<<a, x>>, <<t, u>>, SUBSET {a, b, missing}) :
                  x \in {a, b}, t, u \in Usable \cup Unusable}

Mixed == Graphs \cup Small \cup {<<>>} \cup PlanOf(<<a, b, c, d, missing>>, <<"low", "low", "low", "low", "low">>, {{}})

\* Two steps, one of them with a risk that shows in its arguments only.
Disguised == PlanOf(<<a, b>>, <<"low", "by_arguments">>, {{}})
=============================================================================
