-------------------------- MODULE PlanExecutionProofs --------------------------
(***************************************************************************)
(* Theorems about PlanExecution, for plans of any length and any           *)
(* dependencies.  The inductive invariant says how far the sort has got,   *)
(* that the second sort keeps the order of the first, and that the         *)
(* executor, while nothing has failed, has completed exactly the steps     *)
(* before the present one.                                                 *)
(***************************************************************************)
EXTENDS PlanExecution, FiniteSetTheorems, TLAPS

Steps(p) == {p[i] : i \in DOMAIN p}
Placed == {order[k] : k \in DOMAIN order}

\* What an order without repetition says about its length.
LEMMA OrderLength ==
  ASSUME NEW n \in Nat, NEW o \in Seq(1..n),
         \A k, m \in DOMAIN o : o[k] = o[m] => k = m
  PROVE  /\ Len(o) <= n
         /\ Len(o) = n <=> {o[k] : k \in DOMAIN o} = 1..n
<1>1. \A m \in Nat : IsFiniteSet(1..m) /\ Cardinality(1..m) = m
  <2> TAKE m \in Nat
  <2>1. IsFiniteSet(1..m) /\ Cardinality(1..m) = IF 1 > m THEN 0 ELSE m - 1 + 1
    BY FS_Interval, SMT
  <2> QED
    BY <2>1
<1>2. Len(o) \in Nat /\ DOMAIN o = 1..Len(o) /\ o \in [1..Len(o) -> 1..n]
  OBVIOUS
<1>3. o \in Injection(1..Len(o), 1..n)
  BY <1>2 DEF Injection, IsInjective
<1>4. Len(o) <= n /\ (Len(o) = n <=> o \in Surjection(1..Len(o), 1..n))
  <2>1. /\ IsFiniteSet(1..n) /\ Cardinality(1..n) = n
        /\ Cardinality(1..Len(o)) = Len(o)
    BY <1>1, <1>2
  <2>2. /\ Cardinality(1..Len(o)) <= Cardinality(1..n)
        /\ Cardinality(1..Len(o)) = Cardinality(1..n) <=> o \in Surjection(1..Len(o), 1..n)
    BY <1>3, <2>1, FS_Injection, Zenon
  <2> QED
    BY <2>1, <2>2
<1>5. ASSUME o \in Surjection(1..Len(o), 1..n)
      PROVE  {o[k] : k \in DOMAIN o} = 1..n
  <2>1. \A t \in 1..n : \E k \in 1..Len(o) : o[k] = t
    BY <1>5 DEF Surjection
  <2>2. \A k \in DOMAIN o : o[k] \in 1..n
    BY <1>2
  <2> QED
    <3>1. {o[k] : k \in DOMAIN o} \subseteq 1..n
      BY <2>2
    <3>2. 1..n \subseteq {o[k] : k \in DOMAIN o}
      BY <1>2, <2>1
    <3> QED
      BY <3>1, <3>2
<1>6. ASSUME {o[k] : k \in DOMAIN o} = 1..n
      PROVE  o \in Surjection(1..Len(o), 1..n)
  <2>1. \A t \in 1..n : \E k \in 1..Len(o) : o[k] = t
    BY <1>2, <1>6
  <2> QED
    BY <1>2, <2>1 DEF Surjection
<1> QED
  BY <1>4, <1>5, <1>6

-----------------------------------------------------------------------------
(* The inductive invariant *)

\* How far the sort has got.
SortInv ==
  /\ WellFormed(plan)
  /\ waits \in [DOMAIN plan -> SUBSET DOMAIN plan]
  /\ \A i \in DOMAIN plan : waits[i] = Before(plan, i) \ Placed
  /\ ready = {i \in DOMAIN plan \ Placed : waits[i] = {}}
  /\ \A k, m \in DOMAIN order : order[k] = order[m] => k = m
  /\ \A k \in DOMAIN order : Before(plan, order[k]) \subseteq {order[m] : m \in 1..(k - 1)}

\* Every dependency comes earlier.
Ordered(p) == \A i \in DOMAIN p : \A j \in Before(p, i) : j < i

\* The validated plan has the steps of the proposed one.
Sound ==
  /\ WellFormed(plan) /\ WellFormed(goal)
  /\ Steps(plan) = Steps(goal)
  /\ Ordered(plan)

\* The executor has completed what precedes the present step, unless something failed.
RunInv ==
  /\ \A k \in DOMAIN results : results[k].id = plan[k].id
  /\ ~has_failed => completed = {plan[k].id : k \in DOMAIN results}

PlanInv ==
  /\ TypeOK
  /\ phase \in {"proposed", "sorting"} => plan = goal
  /\ phase \in {"sorting", "resorting"} => SortInv
  /\ phase \in {"reviewed", "waiting", "approved", "resorting", "running"} => Sound
  /\ phase \in {"waiting", "approved", "resorting", "running"} => plan = card
  /\ phase = "resorting" => \A k \in DOMAIN order : order[k] = k
  /\ phase \in {"approved", "resorting", "running"} => consent \/ LowRisk(plan)
  /\ phase \notin {"running", "ended"} => results = <<>> /\ completed = {} /\ ~has_failed
  /\ phase = "running" => RunInv
  /\ results # <<>> => plan = card /\ (consent \/ LowRisk(plan))
  /\ phase = "ended" <=> outcome # "none"

LEMMA PlanInit == Init => PlanInv
<1> SUFFICES ASSUME Init PROVE PlanInv
  OBVIOUS
<1>1. goal \in Seq(Step)
  BY PlanAssumption DEF Init
<1>2. TypeOK
  <2>1. plan = goal /\ Len(goal) \in Nat
    BY <1>1 DEF Init
  <2>2. order \in Seq(DOMAIN plan) /\ Len(order) = 0
    BY DEF Init
  <2>3. card \in Seq(Step) /\ results \in Seq([id : StepIds, status : Statuses]) /\ Len(results) = 0
    BY DEF Init
  <2> QED
    <3>1. Len(order) <= Len(plan) /\ Len(results) <= Len(plan)
      BY <2>1, <2>2, <2>3
    <3>2. /\ phase \in Phases /\ phase \notin {"sorting", "resorting"} /\ outcome \in Outcomes
          /\ ready \subseteq DOMAIN plan /\ completed \subseteq StepIds
          /\ consent \in BOOLEAN /\ has_failed \in BOOLEAN
      BY DEF Init, Phases, Outcomes
    <3> QED
      BY <1>1, <2>1, <2>2, <2>3, <3>1, <3>2 DEF TypeOK
<1> QED
  BY <1>2 DEF Init, PlanInv

-----------------------------------------------------------------------------
(* Validation *)

LEMMA ValidateSorts ==
  ASSUME PlanInv, NEW place \in {"sorting", "resorting"}, Validate(place), WellFormed(plan)
  PROVE  SortInv' /\ order' = <<>>
<1>1. plan' = plan /\ order' = <<>>
  BY DEF Validate
<1>2. DOMAIN order' = {} /\ Placed' = {}
  BY <1>1 DEF Placed
<1>3. \A i \in DOMAIN plan : Before(plan, i) \subseteq DOMAIN plan
  BY DEF Before
<1>4. WellFormed(plan)' /\ \A i \in DOMAIN plan : Before(plan, i)' = Before(plan, i)
  BY <1>1 DEF WellFormed, Before, Ids
<1>5. /\ waits' = [i \in DOMAIN plan |-> Before(plan, i)]
      /\ ready' = {i \in DOMAIN plan : Before(plan, i) = {}}
  BY DEF Validate
<1> QED
  BY <1>1, <1>2, <1>3, <1>4, <1>5 DEF SortInv

LEMMA ValidateTypes ==
  ASSUME PlanInv, NEW place \in {"sorting", "resorting"}, Validate(place), consent' = consent
  PROVE  TypeOK'
<1>1. \A i \in DOMAIN plan : Before(plan, i) \subseteq DOMAIN plan
  BY DEF Before
<1> QED
  BY <1>1 DEF Validate, PlanInv, TypeOK, running, Phases, Outcomes

LEMMA ProposeKeeps ==
  ASSUME PlanInv, Propose
  PROVE  PlanInv' /\ completed' = completed /\ has_failed' = has_failed /\ goal' = goal
         /\ (outcome' # outcome => outcome' = "refused" /\ outcome = "none" /\ ~WellFormed(goal)
                                   /\ completed = {} /\ ~has_failed)
<1> USE DEF Propose
<1>1. TypeOK'
  BY ValidateTypes
<1>2. WellFormed(plan) => SortInv'
  BY ValidateSorts
<1> QED
  BY <1>1, <1>2 DEF Validate, PlanInv, running

LEMMA StartExecutionKeeps ==
  ASSUME PlanInv, StartExecution
  PROVE  PlanInv' /\ UNCHANGED <<goal, completed, has_failed, outcome>>
<1> USE DEF StartExecution
<1>1. TypeOK'
  BY ValidateTypes
<1>2. WellFormed(plan)
  BY DEF PlanInv, Sound
<1>3. SortInv' /\ order' = <<>>
  BY <1>2, ValidateSorts
<1>4. UNCHANGED <<goal, plan, card, consent, results, completed, has_failed, outcome>>
      /\ phase' = "resorting"
  BY <1>2 DEF Validate, running
<1>5. Sound'
  <2>2. Sound
    BY DEF PlanInv
  <2>3. WellFormed(plan)' /\ WellFormed(goal)'
    BY <1>4, <2>2 DEF Sound, WellFormed, Ids
  <2>4. Steps(plan)' = Steps(goal)' /\ Ordered(plan)'
    BY <1>4, <2>2 DEF Sound, Ordered, Before, Steps
  <2> QED
    BY <2>3, <2>4 DEF Sound
<1>6. LowRisk(plan)' <=> LowRisk(plan)
  BY <1>4 DEF LowRisk
<1> QED
  BY <1>1, <1>3, <1>4, <1>5, <1>6 DEF PlanInv

LEMMA PlaceStepKeeps ==
  ASSUME PlanInv, NEW i \in ready, PlaceStep(i)
  PROVE  PlanInv' /\ UNCHANGED <<goal, completed, has_failed, outcome>>
<1>1. /\ phase \in {"sorting", "resorting"} /\ i \in ready /\ \A j \in ready : i <= j
      /\ order' = Append(order, i)
      /\ waits' = [j \in DOMAIN plan |-> waits[j] \ {i}]
      /\ ready' = (ready \ {i}) \cup Released(i)
      /\ UNCHANGED <<goal, plan, phase, card, consent, results, completed, has_failed, outcome>>
  BY DEF PlaceStep, running
<1>2. SortInv /\ order \in Seq(DOMAIN plan) /\ i \in DOMAIN plan /\ i \notin Placed /\ waits[i] = {}
  BY <1>1 DEF PlanInv, SortInv, TypeOK
<1>3. /\ DOMAIN order' = DOMAIN order \cup {Len(order) + 1} /\ Len(order) + 1 \notin DOMAIN order
      /\ order'[Len(order) + 1] = i /\ \A k \in DOMAIN order : order'[k] = order[k]
      /\ DOMAIN order = 1..Len(order) /\ Len(order) \in Nat
  BY <1>1, <1>2
<1>4. Placed' = Placed \cup {i}
  BY <1>3 DEF Placed
<1>5. \A j \in DOMAIN plan : Before(plan, j) \subseteq DOMAIN plan /\ Before(plan', j) = Before(plan, j)
  BY <1>1 DEF Before
<1>6. SortInv'
  <2>1. WellFormed(plan)'
    BY <1>1, <1>2 DEF SortInv, WellFormed, Ids
  <2>2. \A j \in DOMAIN plan : waits'[j] = Before(plan', j) \ Placed'
    BY <1>1, <1>2, <1>4, <1>5 DEF SortInv
  <2>3. \A j \in Placed : waits[j] = {}
    <3> TAKE j \in Placed
    <3>1. PICK k \in DOMAIN order : j = order[k]
      BY DEF Placed
    <3>2. {order[m] : m \in 1..(k - 1)} \subseteq Placed
      BY <1>3 DEF Placed
    <3>3. j \in DOMAIN plan
      BY <1>2, <3>1
    <3> QED
      BY <1>2, <3>1, <3>2, <3>3 DEF SortInv
  <2>4. ready' = {j \in DOMAIN plan \ Placed' : waits'[j] = {}}
    <3>1. ready = {j \in DOMAIN plan \ Placed : waits[j] = {}}
      BY <1>2 DEF SortInv
    <3>2. \A j \in DOMAIN plan : waits'[j] = waits[j] \ {i}
      BY <1>1
    <3>3. \A j \in DOMAIN plan : j \in Released(i) <=> waits[j] = {i}
      BY DEF Released
    <3>4. Released(i) \subseteq DOMAIN plan
      BY DEF Released
    <3>5. ready' \subseteq DOMAIN plan
      BY <1>1, <3>1, <3>4
    <3>6. ASSUME NEW j \in DOMAIN plan
          PROVE  j \in ready' <=> j \notin Placed' /\ waits'[j] = {}
      <4>1. CASE j = i
        BY <1>1, <1>2, <1>4, <3>3, <4>1
      <4>2. CASE j # i
        BY <1>1, <1>4, <2>3, <3>1, <3>2, <3>3, <4>2
      <4> QED
        BY <4>1, <4>2
    <3> QED
      BY <3>5, <3>6
  <2>5. \A k, m \in DOMAIN order' : order'[k] = order'[m] => k = m
    BY <1>2, <1>3 DEF SortInv, Placed
  <2>6. ASSUME NEW k \in DOMAIN order'
        PROVE  Before(plan', order'[k]) \subseteq {order'[m] : m \in 1..(k - 1)}
    <3>1. CASE k \in DOMAIN order
      BY <1>2, <1>3, <1>5, <3>1 DEF SortInv
    <3>2. CASE k = Len(order) + 1
      <4>1. Before(plan, i) \subseteq Placed
        BY <1>2, <1>5 DEF SortInv
      <4>2. Placed \subseteq {order'[m] : m \in 1..(k - 1)}
        BY <1>3, <3>2 DEF Placed
      <4> QED
        BY <1>2, <1>3, <1>5, <3>2, <4>1, <4>2
    <3> QED
      BY <1>3, <3>1, <3>2
  <2>7. waits' \in [DOMAIN plan' -> SUBSET DOMAIN plan']
    BY <1>1, <1>2 DEF SortInv
  <2> QED
    BY <1>1, <2>1, <2>2, <2>4, <2>5, <2>6, <2>7 DEF SortInv
<1>7. order' \in Seq(DOMAIN plan) /\ Len(order') <= Len(plan)
  <2>1. plan \in Seq(Step) /\ DOMAIN plan = 1..Len(plan) /\ Len(plan) \in Nat
    BY DEF PlanInv, TypeOK
  <2>2. order' \in Seq(1..Len(plan))
    BY <1>1, <1>2, <2>1
  <2> QED
    BY <1>6, <2>1, <2>2, OrderLength DEF SortInv
<1>8. TypeOK'
  BY <1>1, <1>2, <1>6, <1>7 DEF PlanInv, TypeOK, SortInv
<1>9. Sound => Sound'
  <2>1. WellFormed(plan)' = WellFormed(plan) /\ WellFormed(goal)' = WellFormed(goal)
    BY <1>1 DEF WellFormed, Ids
  <2>2. Steps(plan)' = Steps(plan) /\ Steps(goal)' = Steps(goal) /\ Ordered(plan)' = Ordered(plan)
    BY <1>1 DEF Steps, Ordered, Before
  <2> QED
    BY <2>1, <2>2 DEF Sound
<1>10. phase = "resorting" => \A k \in DOMAIN order' : order'[k] = k
  <2> SUFFICES ASSUME phase = "resorting" PROVE i = Len(order) + 1
    BY <1>3 DEF PlanInv
  <2> DEFINE m == Len(order) + 1
  <2>1. Sound /\ \A k \in DOMAIN order : order[k] = k
    BY DEF PlanInv
  <2>2. Placed = 1..Len(order) /\ DOMAIN plan = 1..Len(plan) /\ Len(plan) \in Nat
    BY <1>3, <2>1 DEF Placed, PlanInv, TypeOK
  <2>3. i >= m /\ m \in DOMAIN plan /\ m \notin Placed
    BY <1>2, <1>3, <2>2
  <2>4. Before(plan, m) \subseteq Placed
    BY <1>3, <1>5, <2>1, <2>2, <2>3 DEF Sound, Ordered
  <2>5. m \in ready
    BY <1>2, <2>3, <2>4 DEF SortInv
  <2> QED
    BY <1>1, <1>2, <1>3, <2>2, <2>3, <2>5
<1>11. LowRisk(plan)' <=> LowRisk(plan)
  BY <1>1 DEF LowRisk
<1> QED
  BY <1>1, <1>6, <1>8, <1>9, <1>10, <1>11 DEF PlanInv

\* A sort that stops early leaves steps that wait for each other.
LEMMA LeftoverIsKnot ==
  ASSUME TypeOK, SortInv, ready = {}, Len(order) # Len(plan)
  PROVE  \E S \in SUBSET DOMAIN plan : Contract!Knot(plan, S)
<1> DEFINE S == DOMAIN plan \ Placed
<1>1. DOMAIN plan = 1..Len(plan) /\ Len(plan) \in Nat /\ order \in Seq(1..Len(plan))
  BY DEF TypeOK
<1>2. Placed # DOMAIN plan
  BY <1>1, OrderLength DEF SortInv, Placed
<1>3. Placed \subseteq DOMAIN plan
  BY <1>1 DEF Placed
<1>4. S # {}
  BY <1>2, <1>3
<1>5. ASSUME NEW i \in S PROVE \E j \in S : plan[j].id \in plan[i].deps
  <2>1. waits[i] # {} /\ waits[i] = Before(plan, i) \ Placed
    BY DEF SortInv
  <2>2. PICK j : j \in Before(plan, i) \ Placed
    BY <2>1
  <2> QED
    BY <2>2 DEF Before
<1> QED
  BY <1>4, <1>5 DEF Contract!Knot

\* The sorted plan has the same steps, each after those it depends on.
LEMMA SortedPlan ==
  ASSUME TypeOK, SortInv, Len(order) = Len(plan)
  PROVE  /\ Sorted \in Seq(Step) /\ Len(Sorted) = Len(plan)
         /\ Steps(Sorted) = Steps(plan)
         /\ WellFormed(Sorted) /\ Ordered(Sorted)
<1>1. /\ plan \in Seq(Step) /\ DOMAIN plan = 1..Len(plan) /\ Len(plan) \in Nat
      /\ order \in Seq(1..Len(plan)) /\ DOMAIN order = 1..Len(plan)
      /\ \A k \in 1..Len(plan) : order[k] \in 1..Len(plan)
  BY DEF TypeOK
<1>2. {order[k] : k \in DOMAIN order} = 1..Len(plan)
  BY <1>1, OrderLength DEF SortInv
<1>3. /\ Sorted = [k \in 1..Len(plan) |-> plan[order[k]]]
      /\ \A k \in 1..Len(plan) : plan[order[k]] \in Step
  BY <1>1 DEF Sorted
<1>4. /\ Sorted \in Seq(Step) /\ Len(Sorted) = Len(plan) /\ DOMAIN Sorted = 1..Len(plan)
      /\ \A k \in 1..Len(plan) : Sorted[k] = plan[order[k]]
  BY <1>1, <1>3
<1>5. Steps(Sorted) = Steps(plan)
  <2>1. Steps(Sorted) \subseteq Steps(plan)
    BY <1>1, <1>4 DEF Steps
  <2>2. ASSUME NEW i \in DOMAIN plan PROVE plan[i] \in Steps(Sorted)
    <3>1. PICK k \in 1..Len(plan) : order[k] = i
      BY <1>1, <1>2, <2>2
    <3> QED
      BY <1>4, <3>1 DEF Steps
  <2> QED
    BY <2>1, <2>2 DEF Steps
<1>6. Ids(Sorted) = Ids(plan)
  <2>1. \A p : Ids(p) = {s.id : s \in Steps(p)}
    BY DEF Ids, Steps
  <2> QED
    BY <1>5, <2>1
<1>7. WellFormed(Sorted)
  <2>1. Sorted # <<>> /\ Len(Sorted) <= MaxSteps
    BY <1>1, <1>4 DEF SortInv, WellFormed
  <2>2. ASSUME NEW k \in DOMAIN Sorted, NEW m \in DOMAIN Sorted, Sorted[k].id = Sorted[m].id
        PROVE  k = m
    <3>1. plan[order[k]].id = plan[order[m]].id
      BY <1>4, <2>2
    <3>2. order[k] = order[m]
      BY <1>1, <1>4, <3>1 DEF SortInv, WellFormed
    <3> QED
      BY <1>1, <1>4, <3>2 DEF SortInv
  <2>3. \A k \in DOMAIN Sorted :
          Sorted[k].tool \in Usable /\ Sorted[k].deps \subseteq Ids(Sorted) \ {Sorted[k].id}
    BY <1>1, <1>4, <1>6 DEF SortInv, WellFormed
  <2> QED
    BY <2>1, <2>2, <2>3 DEF WellFormed
<1>8. Ordered(Sorted)
  <2> SUFFICES ASSUME NEW i \in 1..Len(plan), NEW j \in 1..Len(plan), Sorted[j].id \in Sorted[i].deps
               PROVE  j < i
    BY <1>4 DEF Ordered, Before
  <2>1. order[j] \in Before(plan, order[i])
    BY <1>1, <1>4 DEF Before
  <2>2. PICK m \in 1..(i - 1) : order[j] = order[m]
    <3>1. Before(plan, order[i]) \subseteq {order[m] : m \in 1..(i - 1)}
      BY <1>1 DEF SortInv
    <3> QED
      BY <2>1, <3>1, Zenon
  <2>3. m \in DOMAIN order /\ m < i
    BY <1>1, <2>2
  <2>4. j = m
    BY <1>1, <2>2, <2>3 DEF SortInv
  <2> QED
    BY <2>3, <2>4
<1> QED
  BY <1>4, <1>5, <1>7, <1>8

LEMMA EndSortKeeps ==
  ASSUME PlanInv, EndSort
  PROVE  /\ PlanInv' /\ UNCHANGED <<goal, completed, has_failed>>
         /\ outcome' # outcome => /\ outcome' = "refused" /\ outcome = "none"
                                   /\ completed = {} /\ ~has_failed
                                   /\ \E S \in SUBSET DOMAIN goal : Contract!Knot(goal, S)
<1>1. /\ phase \in {"sorting", "resorting"} /\ ready = {}
      /\ UNCHANGED <<goal, waits, ready, order, card, consent, results, completed, has_failed>>
  BY DEF EndSort, running, sorting
<1>2. TypeOK /\ SortInv
  BY <1>1 DEF PlanInv
<1>3. CASE phase = "sorting" /\ Len(order) = Len(plan)
  <2>1. plan' = Sorted /\ phase' = "reviewed" /\ outcome' = outcome /\ plan = goal
    BY <1>3 DEF EndSort, PlanInv
  <2>2. /\ Sorted \in Seq(Step) /\ Len(Sorted) = Len(plan)
        /\ Steps(Sorted) = Steps(plan) /\ WellFormed(Sorted) /\ Ordered(Sorted)
    BY <1>2, <1>3, SortedPlan
  <2>3. DOMAIN plan' = DOMAIN plan
    BY <1>2, <2>1, <2>2 DEF TypeOK
  <2>4. TypeOK'
    BY <1>1, <1>2, <2>1, <2>2, <2>3 DEF TypeOK, Phases
  <2>5. Sound'
    <3>1. WellFormed(goal)' /\ WellFormed(plan')
      BY <1>1, <1>2, <2>1, <2>2 DEF SortInv, WellFormed, Ids
    <3>2. Steps(plan') = Steps(goal')
      BY <1>1, <2>1, <2>2
    <3>3. Ordered(plan')
      BY <2>1, <2>2
    <3> QED
      BY <3>1, <3>2, <3>3 DEF Sound
  <2> QED
    BY <1>1, <1>3, <2>1, <2>4, <2>5 DEF PlanInv
<1>4. CASE phase = "sorting" /\ Len(order) # Len(plan)
  <2>1. phase' = "ended" /\ outcome' = "refused" /\ plan' = plan /\ plan = goal
    BY <1>4 DEF EndSort, PlanInv
  <2>2. TypeOK'
    BY <1>1, <1>2, <2>1 DEF TypeOK, Phases, Outcomes
  <2> QED
    BY <1>1, <1>2, <1>4, <2>1, <2>2, LeftoverIsKnot DEF PlanInv
<1>5. CASE phase = "resorting"
  <2>1. Sound /\ plan = card /\ \A k \in DOMAIN order : order[k] = k
    BY <1>5 DEF PlanInv
  <2>2. /\ DOMAIN plan = 1..Len(plan) /\ DOMAIN order = 1..Len(order)
        /\ Len(plan) \in Nat /\ Len(order) \in Nat /\ Len(order) <= Len(plan)
        /\ plan \in Seq(Step)
    BY <1>2 DEF TypeOK
  <2>3. Len(order) = Len(plan)
    <3>0. \A x, y \in Nat : x <= y /\ ~(x + 1 <= y) => x = y
      OBVIOUS
    <3> SUFFICES ~(Len(order) + 1 <= Len(plan))
      BY <2>2, <3>0, Zenon
    <3> SUFFICES ASSUME Len(order) + 1 <= Len(plan) PROVE FALSE
      OBVIOUS
    <3> DEFINE m == Len(order) + 1
    <3>1. Placed = 1..Len(order)
      BY <2>1, <2>2 DEF Placed
    <3>2. m \in DOMAIN plan /\ m \notin Placed
      BY <2>2, <3>1
    <3>3. Before(plan, m) \subseteq Placed
      <4>1. \A j \in Before(plan, m) : j \in DOMAIN plan /\ j < m
        BY <2>1, <3>2 DEF Sound, Ordered, Before
      <4> QED
        BY <2>2, <3>1, <4>1
    <3>4. m \in ready
      BY <1>2, <3>2, <3>3 DEF SortInv
    <3> QED
      BY <1>1, <3>4
  <2>4. plan' = Sorted /\ phase' = "running" /\ outcome' = outcome
    BY <1>5, <2>3 DEF EndSort
  <2>5. Sorted = plan
    BY <2>1, <2>2, <2>3 DEF Sorted
  <2>6. TypeOK'
    BY <1>1, <1>2, <2>4, <2>5 DEF TypeOK, Phases
  <2>7. Sound' /\ (LowRisk(plan)' <=> LowRisk(plan))
    <3>1. plan' = plan /\ goal' = goal
      BY <1>1, <2>4, <2>5
    <3>2. WellFormed(plan)' /\ WellFormed(goal)'
      BY <2>1, <3>1 DEF Sound, WellFormed, Ids
    <3>3. Steps(plan)' = Steps(goal)' /\ Ordered(plan)'
      BY <2>1, <3>1 DEF Sound, Steps, Ordered, Before
    <3> QED
      BY <3>1, <3>2, <3>3 DEF Sound, LowRisk
  <2>8. RunInv'
    BY <1>1, <1>5 DEF PlanInv, RunInv
  <2> QED
    BY <1>1, <1>5, <2>1, <2>4, <2>5, <2>6, <2>7, <2>8 DEF PlanInv
<1> QED
  BY <1>1, <1>3, <1>4, <1>5

-----------------------------------------------------------------------------
(* The gate *)

\* The plan itself stays as it is.
LEMMA PlanStays ==
  ASSUME plan' = plan, goal' = goal
  PROVE  (Sound => Sound') /\ (LowRisk(plan)' <=> LowRisk(plan))
<1>1. WellFormed(plan)' = WellFormed(plan) /\ WellFormed(goal)' = WellFormed(goal)
  BY DEF WellFormed, Ids
<1>2. Steps(plan)' = Steps(plan) /\ Steps(goal)' = Steps(goal) /\ Ordered(plan)' = Ordered(plan)
  BY DEF Steps, Ordered, Before
<1> QED
  BY <1>1, <1>2 DEF Sound, LowRisk

LEMMA GateKeeps ==
  ASSUME PlanInv, ReviewPlan \/ Approve
  PROVE  PlanInv' /\ UNCHANGED <<goal, completed, has_failed, outcome>>
<1>1. /\ UNCHANGED <<goal, plan, waits, ready, order, results, completed, has_failed, outcome>>
      /\ phase \in {"reviewed", "waiting"} /\ phase' \in {"waiting", "approved"}
      /\ card' = plan
      /\ consent' \in BOOLEAN
      /\ phase' = "approved" => consent' \/ LowRisk(plan)
  BY DEF ReviewPlan, Approve, sorting, running, PlanInv, TypeOK
<1>2. TypeOK'
  BY <1>1 DEF PlanInv, TypeOK, Phases
<1>3. (Sound => Sound') /\ (LowRisk(plan)' <=> LowRisk(plan))
  BY <1>1, PlanStays
<1> QED
  BY <1>1, <1>2, <1>3 DEF PlanInv

LEMMA RejectKeeps ==
  ASSUME PlanInv, Reject
  PROVE  /\ PlanInv' /\ UNCHANGED <<goal, completed, has_failed>>
         /\ outcome = "none" /\ outcome' = "rejected" /\ completed = {} /\ ~has_failed
<1> USE DEF Reject, sorting, running
<1>1. TypeOK'
  BY DEF PlanInv, TypeOK, Phases, Outcomes
<1> QED
  BY <1>1 DEF PlanInv

-----------------------------------------------------------------------------
(* Execution *)

LEMMA RunStepKeeps ==
  ASSUME PlanInv, RunStep
  PROVE  /\ PlanInv' /\ UNCHANGED <<goal, outcome>> /\ outcome = "none"
         /\ \/ UNCHANGED <<completed, has_failed>>
            \/ \E i \in DOMAIN goal :
                 /\ ~has_failed /\ goal[i].id \notin completed /\ goal[i].deps \subseteq completed
                 /\ \/ completed' = completed \cup {goal[i].id} /\ has_failed' = has_failed
                    \/ completed' = completed /\ has_failed' = TRUE
<1> DEFINE n == Len(results) + 1
           s == plan[n]
<1>1. /\ phase = "running" /\ Len(results) < Len(plan)
      /\ UNCHANGED <<goal, plan, phase, waits, ready, order, card, consent, outcome>>
  BY DEF RunStep, sorting
<1>2. PICK status \in MayBecome(s) :
        /\ results' = Append(results, [id |-> s.id, status |-> status])
        /\ completed' = IF status = "COMPLETED" THEN completed \cup {s.id} ELSE completed
        /\ has_failed' = (has_failed \/ status # "COMPLETED")
  BY DEF RunStep
<1>3. /\ TypeOK /\ Sound /\ RunInv /\ plan = card /\ (consent \/ LowRisk(plan)) /\ outcome = "none"
  BY <1>1 DEF PlanInv
<1>4. /\ DOMAIN plan = 1..Len(plan) /\ Len(plan) \in Nat /\ n \in DOMAIN plan
      /\ DOMAIN results = 1..Len(results) /\ Len(results) \in Nat
      /\ s \in Step /\ \A k \in DOMAIN plan : plan[k] \in Step
  BY <1>1, <1>3 DEF TypeOK
<1>5. status \in Statuses /\ s.id \in StepIds
  BY <1>4 DEF MayBecome, Statuses, Step
<1>6. /\ DOMAIN results' = 1..n /\ results'[n] = [id |-> s.id, status |-> status]
      /\ \A k \in 1..Len(results) : results'[k] = results[k]
      /\ results' \in Seq([id : StepIds, status : Statuses]) /\ Len(results') = n /\ results' # <<>>
  BY <1>2, <1>3, <1>4, <1>5 DEF TypeOK
<1>7. TypeOK'
  <2>1. completed' \subseteq StepIds /\ has_failed' \in BOOLEAN
    BY <1>2, <1>3, <1>5 DEF TypeOK
  <2> QED
    BY <1>1, <1>3, <1>4, <1>6, <2>1 DEF TypeOK
<1>8. ~has_failed => s.deps \subseteq completed /\ s.id \notin completed
  <2> SUFFICES ASSUME ~has_failed PROVE s.deps \subseteq completed /\ s.id \notin completed
    OBVIOUS
  <2>1. completed = {plan[k].id : k \in 1..Len(results)}
    BY <1>3, <1>4 DEF RunInv
  <2>2. s.id \notin completed
    BY <1>3, <1>4, <2>1 DEF Sound, WellFormed
  <2>3. ASSUME NEW d \in s.deps PROVE d \in completed
    <3>1. PICK j \in DOMAIN plan : plan[j].id = d
      BY <1>3, <1>4, <2>3 DEF Sound, WellFormed, Ids
    <3>2. j < n
      BY <1>3, <1>4, <2>3, <3>1 DEF Sound, Ordered, Before
    <3> QED
      BY <1>4, <2>1, <3>1, <3>2
  <2> QED
    BY <2>2, <2>3
<1>9. RunInv'
  <2>1. \A k \in DOMAIN results' : results'[k].id = plan[k].id
    BY <1>3, <1>4, <1>6 DEF RunInv
  <2>2. ASSUME ~has_failed' PROVE completed' = {plan[k].id : k \in DOMAIN results'}
    <3>1. ~has_failed /\ completed' = completed \cup {s.id}
      BY <1>2, <2>2
    <3>2. completed = {plan[k].id : k \in 1..Len(results)}
      BY <1>3, <1>4, <3>1 DEF RunInv
    <3>3. 1..n = 1..Len(results) \cup {n}
      BY <1>4
    <3> QED
      BY <1>6, <3>1, <3>2, <3>3
  <2> QED
    BY <1>1, <2>1, <2>2 DEF RunInv
<1>10. Sound' /\ (LowRisk(plan)' <=> LowRisk(plan))
  BY <1>1, <1>3, PlanStays
<1>11. PlanInv'
  BY <1>1, <1>3, <1>7, <1>9, <1>10 DEF PlanInv
<1>12. CASE has_failed
  <2>1. status = "SKIPPED"
    BY <1>12 DEF MayBecome
  <2> QED
    BY <1>1, <1>2, <1>3, <1>11, <1>12, <2>1
<1>13. CASE ~has_failed
  <2>1. status \in {"COMPLETED", "FAILED"} /\ has_failed = FALSE
    BY <1>3, <1>8, <1>13 DEF MayBecome, TypeOK
  <2>2. s \in Steps(goal)
    BY <1>3, <1>4 DEF Sound, Steps
  <2>3. PICK i \in DOMAIN goal : goal[i] = s
    BY <2>2 DEF Steps
  <2> QED
    BY <1>1, <1>2, <1>3, <1>8, <1>11, <1>13, <2>1, <2>3
<1> QED
  BY <1>12, <1>13

LEMMA SummariseKeeps ==
  ASSUME PlanInv, Summarise
  PROVE  /\ PlanInv' /\ UNCHANGED <<goal, completed, has_failed>> /\ outcome = "none"
         /\ \/ outcome' = "FAILED" /\ has_failed
            \/ outcome' = "COMPLETED" /\ ~has_failed /\ completed = Contract!Ids(goal)
<1>1. /\ phase = "running" /\ Len(results) = Len(plan) /\ phase' = "ended"
      /\ outcome' = (IF has_failed THEN "FAILED" ELSE "COMPLETED")
      /\ UNCHANGED <<goal, plan, waits, ready, order, card, consent, results, completed, has_failed>>
  BY DEF Summarise, sorting, running
<1>2. TypeOK /\ Sound /\ RunInv /\ outcome = "none"
  BY <1>1 DEF PlanInv
<1>3. TypeOK'
  BY <1>1, <1>2 DEF TypeOK, Phases, Outcomes
<1>4. LowRisk(plan)' <=> LowRisk(plan)
  BY <1>1, PlanStays
<1>5. PlanInv'
  BY <1>1, <1>3, <1>4 DEF PlanInv
<1>6. ~has_failed => completed = Contract!Ids(goal)
  <2>1. DOMAIN results = DOMAIN plan
    BY <1>1, <1>2 DEF TypeOK
  <2>2. ~has_failed => completed = {s.id : s \in Steps(plan)}
    BY <1>2, <2>1 DEF RunInv, Steps
  <2>3. Contract!Ids(goal) = {s.id : s \in Steps(goal)}
    BY DEF Contract!Ids, Steps
  <2> QED
    BY <1>2, <2>2, <2>3 DEF Sound
<1> QED
  BY <1>1, <1>2, <1>5, <1>6

-----------------------------------------------------------------------------
(* The theorems *)

LEMMA PlanStep ==
  ASSUME PlanInv, [Next]_vars
  PROVE  PlanInv' /\ [Contract!Next]_<<goal, completed, has_failed, outcome>>
<1> USE DEF Contract!Next, Contract!Report
<1>1. CASE Propose
  <2>1. PlanInv' /\ UNCHANGED <<goal, completed, has_failed>>
    BY <1>1, ProposeKeeps
  <2>2. outcome' # outcome => /\ outcome' = "refused" /\ outcome = "none" /\ ~WellFormed(goal)
                              /\ completed = {} /\ ~has_failed
    BY <1>1, ProposeKeeps
  <2>3. ~WellFormed(goal) => ~Contract!Executable(goal)
    BY DEF Contract!Executable, WellFormedGoals
  <2> QED
    BY <2>1, <2>2, <2>3
<1>2. CASE EndSort
  BY <1>2, EndSortKeeps DEF Contract!Executable
<1>3. CASE ReviewPlan \/ Approve
  BY <1>3, GateKeeps
<1>4. CASE Reject
  BY <1>4, RejectKeeps
<1>5. CASE StartExecution
  BY <1>5, StartExecutionKeeps
<1>6. CASE RunStep
  <2>1. PlanInv' /\ UNCHANGED <<goal, outcome>> /\ outcome = "none"
    BY <1>6, RunStepKeeps
  <2>2. CASE UNCHANGED <<completed, has_failed>>
    BY <2>1, <2>2
  <2>3. CASE ~UNCHANGED <<completed, has_failed>>
    <3>1. PICK i \in DOMAIN goal :
            /\ ~has_failed /\ goal[i].id \notin completed /\ goal[i].deps \subseteq completed
            /\ \/ completed' = completed \cup {goal[i].id} /\ has_failed' = has_failed
               \/ completed' = completed /\ has_failed' = TRUE
      BY <1>6, <2>3, RunStepKeeps
    <3>2. Contract!Do(i) \/ Contract!Break(i)
      BY <2>1, <3>1 DEF Contract!Do, Contract!Break
    <3> QED
      BY <2>1, <3>2
  <2> QED
    BY <2>2, <2>3
<1>7. CASE Summarise
  BY <1>7, SummariseKeeps
<1>8. CASE \E i \in ready : PlaceStep(i)
  BY <1>8, PlaceStepKeeps
<1>9. CASE UNCHANGED vars
  <2>1. Placed' = Placed /\ \A i \in DOMAIN plan : Before(plan', i) = Before(plan, i)
    BY <1>9 DEF vars, Placed, Before
  <2>2. (SortInv => SortInv') /\ (TypeOK => TypeOK') /\ (RunInv => RunInv')
    BY <1>9, <2>1 DEF vars, SortInv, TypeOK, RunInv, WellFormed, Ids
  <2>3. (Sound => Sound') /\ (LowRisk(plan)' <=> LowRisk(plan))
    BY <1>9, PlanStays DEF vars
  <2> QED
    BY <1>9, <2>2, <2>3 DEF vars, PlanInv
<1> QED
  BY <1>1, <1>2, <1>3, <1>4, <1>5, <1>6, <1>7, <1>8, <1>9 DEF Next, Program

\* Every variable of a plan's life keeps its type; in particular no sort places more steps
\* than the plan has (plan_validator.py:300-327).
THEOREM PlanTypeCorrect == Spec => []TypeOK
<1>1. PlanInv => TypeOK
  BY DEF PlanInv
<1> QED
  BY <1>1, PlanInit, PlanStep, PTL DEF Spec

\* Plans keep PlanContract: dependencies first, nothing after a failure, a true summary,
\* and only what has no order is refused (plan_validator.py:300-327, plan_executor.py:236-374).
THEOREM PlansKeepContract == Spec => ImplementsContract
<1>1. Init => Contract!Init
  BY DEF Init, Contract!Init
<1> QED
  BY <1>1, PlanInit, PlanStep, PTL DEF Spec, ImplementsContract, Contract!Spec

\* The steps run in the order the card shows (plan_validator.py:314, runtime.py:557-577).
THEOREM CardOrderIsKept == Spec => []ReviewedOrderKept
<1>1. PlanInv => ReviewedOrderKept
  BY DEF PlanInv, ReviewedOrderKept
<1> QED
  BY <1>1, PlanInit, PlanStep, PTL DEF Spec

\* A step whose tool needs approval by its risk_level runs only after the user approved
\* the plan (runtime.py:434-439).
THEOREM PlansHaveConsent == Spec => []ConsentForPlans
<1>1. PlanInv => ConsentForPlans
  <2> SUFFICES ASSUME PlanInv, NEW k \in DOMAIN results, plan[k].tool = "gated"
               PROVE  consent
    BY DEF ConsentForPlans
  <2>1. results # <<>>
    OBVIOUS
  <2>2. k \in DOMAIN plan
    BY DEF PlanInv, TypeOK
  <2> QED
    BY <2>1, <2>2 DEF PlanInv, LowRisk
<1> QED
  BY <1>1, PlanInit, PlanStep, PTL DEF Spec
=============================================================================
