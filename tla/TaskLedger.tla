------------------------------ MODULE TaskLedger ------------------------------
(***************************************************************************)
(* The task ledger and the undo manager.  A task is what the tools do      *)
(* between two reports: the scene is described before its first tool, the  *)
(* add-on counts the undo steps it pushes, and a rollback undoes as many   *)
(* steps as were counted and compares the scene with that description.     *)
(*                                                                         *)
(* What the tools do is left open: a call leaves any scene and records any *)
(* scenes as undo steps.  SceneTasks puts the real tools here.             *)
(***************************************************************************)
EXTENDS Naturals, Sequences

CONSTANTS
  Scenes,        \* what the scene can look like
  Snapshot(_),   \* what scene_snapshot.take shows of a scene
  UndoLimit,     \* how many steps Blender keeps
  MaxSteps,      \* bound: undo steps that one call records
  MaxPushed      \* bound: undo steps that the add-on pushes in a behaviour

ASSUME LedgerAssumption ==
  /\ UndoLimit \in Nat \ {0}
  /\ MaxSteps \in Nat
  /\ MaxPushed \in Nat

VARIABLES
  window,     \* Blender has a window; without one neither undo_push nor undo works
  scene,      \* the scene
  past,       \* Blender's undo steps up to the present one
  future,     \* the steps that a redo brings back, the next one first
  pushed,     \* undo_manager._pushed
  open,       \* there is a baseline
  baseline,   \* the scene it was taken of
  stepsAt,    \* TaskLedger._steps_at_baseline
  told,       \* what the report or rollback that was just made answered
  clean       \* history: nothing but recorded tool calls happened since the baseline

ledger  == <<open, baseline, stepsAt>>
blender == <<scene, past, future>>
vars    == <<window, blender, pushed, ledger, told, clean>>

-----------------------------------------------------------------------------
Step(s, by) == [scene |-> s, by |-> by]
Authors == {"file", "user", "tool"}
Outcomes == [scene : Scenes, steps : UNION {[1..n -> Scenes] : n \in 0..MaxSteps}]

Quiet0 == [rolled |-> FALSE, done |-> 0, steps |-> 0, empty |-> TRUE]
Answers == [rolled : BOOLEAN, done : Nat, steps : Nat, empty : BOOLEAN]

Init ==
  /\ window \in BOOLEAN
  /\ scene \in Scenes
  /\ past = <<Step(scene, "file")>>
  /\ future = <<>>
  /\ pushed = 0
  /\ open = FALSE /\ baseline = scene /\ stepsAt = 0
  /\ told = Quiet0
  /\ clean = FALSE

Present == past[Len(past)].scene

\* The steps that are kept when steps are recorded after the present one.
Recorded(steps) ==
  LET all == past \o steps
  IN  IF Len(all) > UndoLimit THEN SubSeq(all, Len(all) - UndoLimit + 1, Len(all)) ELSE all

Steps == IF pushed > stepsAt THEN pushed - stepsAt ELSE 0

\* Mutant of EnsureBaseline: the counter is not read.
EnsureBaseline_OldCount ==
  IF open THEN UNCHANGED ledger
  ELSE open' = TRUE /\ baseline' = scene /\ stepsAt' = stepsAt

EnsureBaseline ==
  IF open THEN UNCHANGED ledger
  ELSE open' = TRUE /\ baseline' = scene /\ stepsAt' = pushed

CleanNow == IF open THEN clean ELSE window /\ scene = Present

\* A call that changes the scene is undone exactly if its last step is what it leaves.
Accounted(o) ==
  /\ o.scene = IF o.steps = <<>> THEN scene ELSE o.steps[Len(o.steps)]
  /\ Len(past) + Len(o.steps) <= UndoLimit

\* The dispatcher opens a task before the tool, unless it refuses the call and nothing
\* happens.  A push that fails is not counted.
Dispatch(o) ==
  /\ pushed + Len(o.steps) <= MaxPushed
  /\ EnsureBaseline
  /\ scene' = o.scene
  /\ IF window /\ o.steps # <<>>
     THEN /\ past' = Recorded([i \in DOMAIN o.steps |-> Step(o.steps[i], "tool")])
          /\ future' = <<>>
          /\ pushed' = pushed + Len(o.steps)
     ELSE UNCHANGED <<past, future, pushed>>
  /\ clean' = (CleanNow /\ Accounted(o))
  /\ told' = Quiet0 /\ UNCHANGED window

\* begin: a chat message drops the open task and starts one.
ChatMessage ==
  /\ open' = TRUE /\ baseline' = scene /\ stepsAt' = pushed
  /\ clean' = (window /\ scene = Present)
  /\ told' = Quiet0 /\ UNCHANGED <<window, blender, pushed>>

\* task_report and the panel's "What changed?", which does not close the task.
Report(close) ==
  LET base == IF open THEN baseline ELSE scene
  IN  /\ told' = [Quiet0 EXCEPT !.steps = IF open THEN Steps ELSE 0,
                                !.empty = Snapshot(base) = Snapshot(scene)]
      /\ IF close
         THEN open' = FALSE /\ baseline' = base /\ stepsAt' = IF open THEN stepsAt ELSE pushed
         ELSE EnsureBaseline
      /\ clean' = CleanNow
      /\ UNCHANGED <<window, blender, pushed>>

\* Mutant of Undoes: an undo that fails is counted.
Undoes_Blind(n) ==
  LET most == IF n < Len(past) THEN n ELSE Len(past) - 1
  IN  IF window THEN {<<k, n>> : k \in 0..most} ELSE {<<0, n>>}

\* rollback_steps counts an undo that finds nothing to undo when it is called directly, and
\* stops at the first one that fails: how many Blender makes and how many are counted.
Undoes(n) ==
  LET most == IF n < Len(past) THEN n ELSE Len(past) - 1
  IN  IF window THEN {<<k, k>> : k \in 0..most} \cup {<<most, n>>} ELSE {<<0, 0>>}

\* The steps before the present one that n undos leave.
Undone(n) == SubSeq(past, 1, Len(past) - n)

RollbackNothing ==
  /\ ~open \/ (Steps = 0 /\ Snapshot(baseline) = Snapshot(scene))
  /\ open' = FALSE
  /\ told' = Quiet0
  /\ UNCHANGED <<window, blender, pushed, baseline, stepsAt, clean>>

RollbackSteps(made, counted) ==
  /\ open /\ (Steps # 0 \/ Snapshot(baseline) # Snapshot(scene))
  /\ <<made, counted>> \in Undoes(Steps)
  /\ past' = Undone(made)
  /\ future' = SubSeq(past, Len(past) - made + 1, Len(past)) \o future
  /\ scene' = IF made = 0 THEN scene ELSE past[Len(past) - made].scene
  /\ pushed' = IF counted < pushed THEN pushed - counted ELSE 0
  /\ open' = FALSE
  /\ told' = [rolled |-> Snapshot(scene') = Snapshot(baseline), done |-> counted, steps |-> Steps,
              empty  |-> Snapshot(scene') = Snapshot(baseline)]
  /\ UNCHANGED <<window, baseline, stepsAt, clean>>

Rollback == RollbackNothing \/ \E m \in 0..Steps, n \in 0..Steps : RollbackSteps(m, n)

-----------------------------------------------------------------------------
(* What the user does in Blender *)

UserEdit(s) ==
  /\ window
  /\ scene' = s
  /\ past' = Recorded(<<Step(s, "user")>>)
  /\ future' = <<>>
  /\ clean' = FALSE
  /\ told' = Quiet0 /\ UNCHANGED <<window, pushed, ledger>>

\* Changes that were not recorded are lost.
UserUndo ==
  /\ window /\ Len(past) > 1
  /\ past' = Undone(1)
  /\ future' = <<past[Len(past)]>> \o future
  /\ scene' = past[Len(past) - 1].scene
  /\ clean' = FALSE
  /\ told' = Quiet0 /\ UNCHANGED <<window, pushed, ledger>>

UserRedo ==
  /\ window /\ future # <<>>
  /\ past' = Append(past, future[1])
  /\ future' = Tail(future)
  /\ scene' = future[1].scene
  /\ clean' = FALSE
  /\ told' = Quiet0 /\ UNCHANGED <<window, pushed, ledger>>

\* Neither the ledger nor the counter hears of another file.
OpenFile(s) ==
  /\ scene' = s
  /\ past' = <<Step(s, "file")>>
  /\ future' = <<>>
  /\ clean' = FALSE
  /\ told' = Quiet0 /\ UNCHANGED <<window, pushed, ledger>>

Agent == (\E o \in Outcomes : Dispatch(o)) \/ ChatMessage \/ (\E c \in BOOLEAN : Report(c)) \/ Rollback
User  == (\E s \in Scenes : UserEdit(s) \/ OpenFile(s)) \/ UserUndo \/ UserRedo

Next == Agent \/ User
Spec == Init /\ [][Next]_vars

-----------------------------------------------------------------------------
(* Properties *)

StepsOf == [scene : Scenes, by : Authors]

TypeOK ==
  /\ window \in BOOLEAN
  /\ scene \in Scenes
  /\ past \in Seq(StepsOf) /\ Len(past) >= 1
  /\ future \in Seq(StepsOf) /\ Len(past) + Len(future) <= UndoLimit
  /\ pushed \in Nat
  /\ open \in BOOLEAN /\ baseline \in Scenes /\ stepsAt \in Nat
  /\ told \in Answers
  /\ clean \in BOOLEAN

\* The counter of the add-on and Blender's stack agree as long as only recorded tool calls
\* happen in a task: the steps it counted lie on top of the scene it began with, and all of
\* them are its own (TaskLedger._steps, undo_manager._pushed).
CounterAgrees ==
  open /\ clean =>
    /\ stepsAt <= pushed
    /\ Steps < Len(past)
    /\ past[Len(past) - Steps].scene = baseline
    /\ scene = Present
    /\ \A i \in Len(past) - Steps + 1 .. Len(past) : past[i].by = "tool"

\* After such a task a rollback that counted every step has put the scene back as it was,
\* and when Blender stopped in the middle Ctrl+Z goes on to it (TaskLedger.rollback and
\* its note "Ctrl+Z in Blender continues from here").
RollbackRestores ==
  [][Rollback /\ open /\ clean =>
       LET left == Steps - told'.done
       IN  left < Len(past') /\ past'[Len(past') - left].scene = baseline
           /\ (left = 0 => scene' = baseline)]_vars

\* A rollback takes back the steps of the tools and nothing that the user did
\* (README.md: task_rollback undoes exactly the task's undo steps).
OwnStepsOnly ==
  [][Rollback => \A i \in Len(past') + 1 .. Len(past) : past[i].by = "tool"]_vars
=============================================================================
