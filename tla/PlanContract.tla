------------------------------ MODULE PlanContract ------------------------------
(***************************************************************************)
(* What executing a plan promises: a step runs only after every step it    *)
(* depends on has succeeded, each step at most once, and none after a step *)
(* has failed; a plan is reported complete exactly when all its steps      *)
(* succeeded, failed only when a step failed, and is refused only when no  *)
(* order of its steps exists or it is not well formed.                     *)
(***************************************************************************)
CONSTANTS
  Goals,        \* the plans that may be proposed: sequences of steps
  Acceptable    \* those of them in which each step is in order by itself

VARIABLES
  goal,     \* the plan proposed
  done,     \* the ids of the steps that have succeeded
  broken,   \* whether a step has failed
  outcome   \* what was reported

Ids(p) == {p[i].id : i \in DOMAIN p}

\* Steps that wait for each other: none of them can be the first.
Knot(p, S) ==
  /\ S # {}
  /\ \A i \in S : \E j \in S : p[j].id \in p[i].deps

Executable(p) == p \in Acceptable /\ ~\E S \in SUBSET DOMAIN p : Knot(p, S)

Init == goal \in Goals /\ done = {} /\ broken = FALSE /\ outcome = "none"

Do(i) ==
  /\ outcome = "none" /\ ~broken
  /\ goal[i].id \notin done
  /\ goal[i].deps \subseteq done
  /\ done' = done \cup {goal[i].id}
  /\ UNCHANGED <<goal, broken, outcome>>

\* A step that was due fails.
Break(i) ==
  /\ outcome = "none" /\ ~broken
  /\ goal[i].id \notin done
  /\ goal[i].deps \subseteq done
  /\ broken' = TRUE
  /\ UNCHANGED <<goal, done, outcome>>

Report(o) ==
  /\ outcome = "none"
  /\ o = "COMPLETED" => ~broken /\ done = Ids(goal)
  /\ o = "FAILED"    => broken
  /\ o = "refused"   => done = {} /\ ~broken /\ ~Executable(goal)
  /\ o = "rejected"  => done = {} /\ ~broken
  /\ outcome' = o
  /\ UNCHANGED <<goal, done, broken>>

Next ==
  \/ \E i \in DOMAIN goal : Do(i) \/ Break(i)
  \/ \E o \in {"COMPLETED", "FAILED", "refused", "rejected"} : Report(o)

Spec == Init /\ [][Next]_<<goal, done, broken, outcome>>
=============================================================================
