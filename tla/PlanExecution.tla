----------------------------- MODULE PlanExecution -----------------------------
(***************************************************************************)
(* A plan of the model, from propose_plan to its summary: it is validated  *)
(* and sorted (PlanValidator), put on a card or approved at once           *)
(* (request_plan_review), validated and sorted again, and executed step by *)
(* step (PlanExecutor).  AgentRuntime sees all of this as one call.        *)
(***************************************************************************)
EXTENDS Naturals, Sequences

CONSTANTS
  Goals,        \* the plans that may be proposed: sequences of steps
  StepIds,      \* the names of steps
  MaxSteps,     \* MAX_PLAN_STEPS
  AutoApprove   \* auto_approve_low_risk_plans

\* By what the validator and the gate tell apart: tools of LOW or MEDIUM risk, one that is
\* LOW by itself and MEDIUM with these arguments (add_modifier with BOOLEAN), and steps that
\* name no tool, name propose_plan, or whose arguments do not fit.
Usable   == {"low", "gated", "by_arguments"}
Unusable == {"unknown", "propose_plan", "bad_arguments"}

Step == [id : StepIds, tool : Usable \cup Unusable, deps : SUBSET StepIds]

ASSUME PlanAssumption ==
  /\ Goals \subseteq Seq(Step)
  /\ MaxSteps \in Nat
  /\ AutoApprove \in BOOLEAN

VARIABLES
  goal,       \* history: the plan as it was proposed
  plan,       \* the plan under validation, then the validated plan
  phase,      \* where the plan is
  waits,      \* the steps each step still waits for; in_degree is their number
  ready,      \* ready_queue
  order,      \* topological_order
  card,       \* PlanReview.plan, once there is one
  consent,    \* history: the user pressed Approve
  results,    \* step_results
  completed,  \* completed_step_ids
  has_failed,
  outcome     \* how the proposal ended

sorting == <<waits, ready, order>>
running == <<results, completed, has_failed>>
vars    == <<goal, plan, phase, waits, ready, order, card, consent, results, completed,
             has_failed, outcome>>

Phases   == {"proposed", "sorting", "reviewed", "waiting", "approved", "resorting", "running", "ended"}
Statuses == {"COMPLETED", "FAILED", "SKIPPED"}
Outcomes == {"none", "refused", "rejected", "COMPLETED", "FAILED"}

TypeOK ==
  /\ goal \in Seq(Step)
  /\ plan \in Seq(Step) /\ Len(plan) = Len(goal)
  /\ phase \in Phases
  /\ phase \in {"sorting", "resorting"} => waits \in [DOMAIN plan -> SUBSET DOMAIN plan]
  /\ ready \subseteq DOMAIN plan
  /\ order \in Seq(DOMAIN plan) /\ Len(order) <= Len(plan)
  /\ card \in Seq(Step)
  /\ consent \in BOOLEAN
  /\ results \in Seq([id : StepIds, status : Statuses]) /\ Len(results) <= Len(plan)
  /\ completed \subseteq StepIds
  /\ has_failed \in BOOLEAN
  /\ outcome \in Outcomes

-----------------------------------------------------------------------------
(* Validation *)

Ids(p) == {p[i].id : i \in DOMAIN p}

\* What is checked before the order.
WellFormed(p) ==
  /\ p # <<>> /\ Len(p) <= MaxSteps
  /\ \A i, j \in DOMAIN p : p[i].id = p[j].id => i = j
  /\ \A i \in DOMAIN p : p[i].tool \in Usable /\ p[i].deps \subseteq Ids(p) \ {p[i].id}

Before(p, i) == {j \in DOMAIN p : p[j].id \in p[i].deps}

\* validate: the plan is refused, or its sort begins.
Validate(place) ==
  /\ IF WellFormed(plan)
     THEN phase' = place /\ UNCHANGED outcome
     ELSE phase' = "ended" /\ outcome' = (IF place = "sorting" THEN "refused" ELSE "FAILED")
  /\ waits' = [i \in DOMAIN plan |-> Before(plan, i)]
  /\ ready' = {i \in DOMAIN plan : Before(plan, i) = {}}
  /\ order' = <<>>
  /\ UNCHANGED <<goal, plan, card, running>>

Propose ==
  /\ phase = "proposed"
  /\ Validate("sorting")
  /\ UNCHANGED consent

\* Steps that waited only for i.
Released(i) == {j \in DOMAIN plan : waits[j] = {i}}

\* Mutant of PlaceStep: a step is queued with the first of its dependencies.
PlaceStep_Early(i) ==
  /\ phase \in {"sorting", "resorting"}
  /\ i \in ready /\ \A j \in ready : i <= j
  /\ order' = Append(order, i)
  /\ waits' = [j \in DOMAIN plan |-> waits[j] \ {i}]
  /\ ready' = (ready \ {i}) \cup {j \in DOMAIN plan : i \in waits[j]}
  /\ UNCHANGED <<goal, plan, phase, card, consent, running, outcome>>

\* Mutant of PlaceStep: the queue is not sorted, its last entry is taken.
PlaceStep_Last(i) ==
  /\ phase \in {"sorting", "resorting"}
  /\ i \in ready /\ \A j \in ready : j <= i
  /\ order' = Append(order, i)
  /\ waits' = [j \in DOMAIN plan |-> waits[j] \ {i}]
  /\ ready' = (ready \ {i}) \cup Released(i)
  /\ UNCHANGED <<goal, plan, phase, card, consent, running, outcome>>

\* One round of Kahn's algorithm; of the ready steps the one declared first is taken.
PlaceStep(i) ==
  /\ phase \in {"sorting", "resorting"}
  /\ i \in ready /\ \A j \in ready : i <= j
  /\ order' = Append(order, i)
  /\ waits' = [j \in DOMAIN plan |-> waits[j] \ {i}]
  /\ ready' = (ready \ {i}) \cup Released(i)
  /\ UNCHANGED <<goal, plan, phase, card, consent, running, outcome>>

Sorted == [k \in DOMAIN order |-> plan[order[k]]]

\* Steps that were not placed wait for each other; otherwise the sorted plan goes on.
EndSort ==
  /\ phase \in {"sorting", "resorting"}
  /\ ready = {}
  /\ IF Len(order) = Len(plan)
     THEN /\ plan' = Sorted
          /\ phase' = IF phase = "sorting" THEN "reviewed" ELSE "running"
          /\ UNCHANGED outcome
     ELSE /\ phase' = "ended"
          /\ outcome' = IF phase = "sorting" THEN "refused" ELSE "FAILED"
          /\ UNCHANGED plan
  /\ UNCHANGED <<goal, sorting, card, consent, running>>

-----------------------------------------------------------------------------
(* The gate *)

\* build_plan_review asks each tool for its risk_level, without the arguments.
LowRisk(p) == \A i \in DOMAIN p : p[i].tool # "gated"

\* Mutant of ReviewPlan: the risk is not asked for.
ReviewPlan_AnyRisk ==
  /\ phase = "reviewed"
  /\ card' = plan
  /\ phase' = IF AutoApprove THEN "approved" ELSE "waiting"
  /\ UNCHANGED <<goal, plan, sorting, consent, running, outcome>>

ReviewPlan ==
  /\ phase = "reviewed"
  /\ card' = plan
  /\ phase' = IF AutoApprove /\ LowRisk(plan) THEN "approved" ELSE "waiting"
  /\ UNCHANGED <<goal, plan, sorting, consent, running, outcome>>

Approve ==
  /\ phase = "waiting"
  /\ consent' = TRUE
  /\ phase' = "approved"
  /\ UNCHANGED <<goal, plan, sorting, card, running, outcome>>

Reject ==
  /\ phase = "waiting"
  /\ phase' = "ended" /\ outcome' = "rejected"
  /\ UNCHANGED <<goal, plan, sorting, card, consent, running>>

\* execute_plan validates the reviewed plan once more.
StartExecution ==
  /\ phase = "approved"
  /\ Validate("resorting")
  /\ UNCHANGED consent

-----------------------------------------------------------------------------
(* Execution *)

\* Mutant of MayBecome: only the dependencies of a step can stop it.
MayBecome_GoesOn(s) ==
  IF ~(s.deps \subseteq completed) THEN {"SKIPPED"} ELSE {"COMPLETED", "FAILED"}

\* Mutant of MayBecome: the loop breaks off at a failure.
MayBecome_Break(s) ==
  IF has_failed THEN {} ELSE
  IF ~(s.deps \subseteq completed) THEN {"SKIPPED"} ELSE {"COMPLETED", "FAILED"}

\* What may become of a step: after a failure and with an unmet dependency it is skipped;
\* otherwise its tool succeeds, fails or raises.
MayBecome(s) ==
  IF has_failed \/ ~(s.deps \subseteq completed) THEN {"SKIPPED"} ELSE {"COMPLETED", "FAILED"}

RunStep ==
  /\ phase = "running"
  /\ Len(results) < Len(plan)
  /\ LET s == plan[Len(results) + 1]
     IN  \E status \in MayBecome(s) :
           /\ results' = Append(results, [id |-> s.id, status |-> status])
           /\ completed' = IF status = "COMPLETED" THEN completed \cup {s.id} ELSE completed
           /\ has_failed' = (has_failed \/ status # "COMPLETED")
  /\ UNCHANGED <<goal, plan, phase, sorting, card, consent, outcome>>

Summarise ==
  /\ phase = "running"
  /\ Len(results) = Len(plan)
  /\ phase' = "ended"
  /\ outcome' = IF has_failed THEN "FAILED" ELSE "COMPLETED"
  /\ UNCHANGED <<goal, plan, sorting, card, consent, running>>

-----------------------------------------------------------------------------

Init ==
  /\ goal \in Goals /\ plan = goal /\ phase = "proposed"
  /\ waits = <<>> /\ ready = {} /\ order = <<>>
  /\ card = <<>> /\ consent = FALSE
  /\ results = <<>> /\ completed = {} /\ has_failed = FALSE
  /\ outcome = "none"

Program ==
  \/ Propose \/ EndSort \/ ReviewPlan \/ StartExecution \/ RunStep \/ Summarise
  \/ \E i \in ready : PlaceStep(i)

Next == Program \/ Approve \/ Reject

Spec     == Init /\ [][Next]_vars
FairSpec == Spec /\ WF_vars(Program)
-----------------------------------------------------------------------------
(* Properties *)

\* The steps run in the order the card shows: the second sort, before the execution, must
\* not change the order of the first (plan_validator.py:314, ARCHITECTURE.md:200).
ReviewedOrderKept == phase = "running" \/ results # <<>> => plan = card

Ran(k) == results[k].status # "SKIPPED"

\* A step whose tool needs approval runs only after the user approved the plan
\* (runtime.py:434-439).
ConsentForPlans ==
  \A k \in DOMAIN results : Ran(k) /\ plan[k].tool = "gated" => consent

\* The same for tools whose risk depends on the arguments (runtime.py:435, policy.py:68).
ConsentByArguments ==
  \A k \in DOMAIN results : Ran(k) /\ plan[k].tool \in {"gated", "by_arguments"} => consent

\* Every proposal ends with an outcome or waits for the user: no step is left behind when
\* an earlier one fails (plan_executor.py:247-259).
PlanSettles == <>(outcome # "none" \/ phase = "waiting")

\* The executor keeps the promise of PlanContract: dependencies first, nothing after a
\* failure, a truthful summary, and only what has no order is refused.
WellFormedGoals == {p \in Goals : WellFormed(p)}
Contract == INSTANCE PlanContract
              WITH done <- completed, broken <- has_failed,
                   Acceptable <- WellFormedGoals
ImplementsContract == Contract!Spec
=============================================================================
