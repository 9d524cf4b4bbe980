--------------------------- MODULE SceneTasksProofs ---------------------------
(***************************************************************************)
(* The task ledger: the counter of the add-on agrees with Blender's undo   *)
(* steps, and a task of recorded tool calls is taken back, for any scenes, *)
(* any snapshot and any limit of undo steps.                               *)
(*                                                                         *)
(* The tools under it: for any names and any scenes to begin with, every   *)
(* tool leaves a scene whose parts are there, takes away only what its     *)
(* risk and its own names allow, changes of shared data only what it sets  *)
(* for all who use it, and records one undo step.                          *)
(***************************************************************************)
EXTENDS SceneTasks, SequenceTheorems, FiniteSetTheorems, WellFoundedInduction, TLAPS

\* A task that nothing disturbed has a window to undo in.
IInv == TypeOK /\ CounterAgrees /\ (open /\ clean => window)

-----------------------------------------------------------------------------
(* Sequences of steps *)

LEMMA Lengths ==
  ASSUME TypeOK
  PROVE  /\ past \in Seq(StepsOf) /\ Len(past) \in 1..UndoLimit
         /\ future \in Seq(StepsOf) /\ Len(future) \in Nat /\ Len(past) + Len(future) <= UndoLimit
         /\ UndoLimit \in Nat \ {0}
<1>1. Len(past) \in Nat /\ Len(future) \in Nat
  BY LenProperties DEF TypeOK
<1> QED
  BY <1>1, LedgerAssumption DEF TypeOK, LedgerAssumption

\* What a call records are steps by a tool, one for each scene.
LEMMA ToolSteps ==
  ASSUME NEW o \in Outcomes
  PROVE  LET r == [i \in DOMAIN o.steps |-> Step(o.steps[i], "tool")]
         IN  /\ o.scene \in Scenes
             /\ o.steps \in Seq(Scenes)
             /\ Len(o.steps) \in Nat
             /\ r \in Seq(StepsOf)
             /\ Len(r) = Len(o.steps)
             /\ \A i \in 1..Len(r) : r[i] = Step(o.steps[i], "tool")
<1> DEFINE r == [i \in DOMAIN o.steps |-> Step(o.steps[i], "tool")]
<1>1. PICK n \in 0..MaxSteps : o.steps \in [1..n -> Scenes]
  BY DEF Outcomes
<1>2. n \in Nat
  BY <1>1, LedgerAssumption DEF LedgerAssumption
<1>3. o.steps \in Seq(Scenes)
  BY <1>1, <1>2, SeqDef
<1>4. DOMAIN o.steps = 1..Len(o.steps) /\ Len(o.steps) \in Nat
  BY <1>3, LenProperties
<1>5. \A i \in 1..Len(o.steps) : Step(o.steps[i], "tool") \in StepsOf
  BY <1>3, <1>4, ElementOfSeq DEF Step, StepsOf, Authors
<1>6. r \in [1..Len(o.steps) -> StepsOf]
  BY <1>4, <1>5
<1>7. r \in Seq(StepsOf)
  BY <1>4, <1>6, SeqDef
<1>8. Len(r) = Len(o.steps)
  BY <1>4, <1>6, <1>7, LenProperties
<1>9. o.scene \in Scenes
  BY DEF Outcomes
<1> QED
  BY <1>3, <1>4, <1>7, <1>8, <1>9

\* Blender keeps at most UndoLimit steps, and all of them while they are fewer.
LEMMA RecordedSteps ==
  ASSUME NEW S, past \in Seq(S), Len(past) >= 1, NEW r \in Seq(S)
  PROVE  /\ Recorded(r) \in Seq(S)
         /\ Len(Recorded(r)) \in 1..UndoLimit
         /\ Len(past) + Len(r) <= UndoLimit =>
              /\ Len(Recorded(r)) = Len(past) + Len(r)
              /\ \A i \in 1..Len(past) : Recorded(r)[i] = past[i]
              /\ \A i \in 1..Len(r) : Recorded(r)[Len(past) + i] = r[i]
<1> DEFINE all == past \o r
<1>1. Len(past) \in Nat \ {0} /\ UndoLimit \in Nat \ {0} /\ Len(r) \in Nat
  BY LenProperties, LedgerAssumption DEF LedgerAssumption
<1>2. /\ all \in Seq(S)
      /\ Len(all) = Len(past) + Len(r)
      /\ \A i \in 1..Len(past) + Len(r) : all[i] = IF i <= Len(past) THEN past[i] ELSE r[i - Len(past)]
  BY <1>1, ConcatProperties
<1> HIDE DEF all
<1>3. CASE Len(all) > UndoLimit
  <2>1. Recorded(r) = SubSeq(all, Len(all) - UndoLimit + 1, Len(all))
    BY <1>3 DEF Recorded, all
  <2>2. \A i \in Len(all) - UndoLimit + 1 .. Len(all) : all[i] \in S
    BY <1>1, <1>2, <1>3, ElementOfSeq
  <2>3. Recorded(r) \in Seq(S) /\ Len(Recorded(r)) = UndoLimit
    BY <1>1, <1>2, <1>3, <2>1, <2>2, SubSeqProperties
  <2> QED
    BY <1>1, <1>2, <1>3, <2>3
<1>4. CASE Len(all) <= UndoLimit
  <2>1. Recorded(r) = all
    BY <1>1, <1>2, <1>4 DEF Recorded, all
  <2>2. Len(all) \in 1..UndoLimit
    BY <1>1, <1>2, <1>4
  <2>3. \A i \in 1..Len(past) : all[i] = past[i]
    BY <1>1, <1>2
  <2>4. \A i \in 1..Len(r) : all[Len(past) + i] = r[i]
    <3> TAKE i \in 1..Len(r)
    <3>1. Len(past) + i \in 1..Len(past) + Len(r) /\ ~(Len(past) + i <= Len(past)) /\ Len(past) + i - Len(past) = i
      BY <1>1
    <3> QED
      BY <1>2, <3>1
  <2> QED
    BY <1>2, <2>1, <2>2, <2>3, <2>4, Zenon
<1>5. Len(all) > UndoLimit \/ Len(all) <= UndoLimit
  BY <1>1, <1>2
<1> QED
  BY <1>3, <1>4, <1>5, Zenon

\* Undoing fewer steps than there are leaves the ones before.
LEMMA UndoneSteps ==
  ASSUME NEW S, past \in Seq(S), Len(past) >= 1, NEW n \in 0..Len(past) - 1
  PROVE  /\ Undone(n) \in Seq(S)
         /\ Len(Undone(n)) = Len(past) - n
         /\ \A i \in 1..Len(past) - n : Undone(n)[i] = past[i]
         /\ past[Len(past) - n] \in S
         /\ SubSeq(past, Len(past) - n + 1, Len(past)) \in Seq(S)
         /\ Len(SubSeq(past, Len(past) - n + 1, Len(past))) = n
<1>1. Len(past) \in Nat \ {0}
  BY LenProperties
<1>2. \A i \in 1..Len(past) : past[i] \in S
  BY <1>1, ElementOfSeq
<1>3. /\ Undone(n) \in Seq(S)
      /\ Len(Undone(n)) = Len(past) - n
      /\ \A i \in 1..Len(past) - n : Undone(n)[i] = past[i]
  <2>1. 1 \in Int /\ Len(past) - n \in Int /\ \A i \in 1..Len(past) - n : past[i] \in S
    BY <1>1, <1>2
  <2>2. Undone(n) = [i \in 1..Len(past) - n |-> past[i]]
    BY <1>1 DEF Undone
  <2>3. Len(past) - n \in Nat /\ Undone(n) \in [1..Len(past) - n -> S]
    BY <1>1, <2>1, <2>2
  <2>4. Undone(n) \in Seq(S)
    BY <2>3, SeqDef
  <2>5. Len(Undone(n)) = Len(past) - n
    BY <2>3, <2>4, LenProperties
  <2> QED
    BY <2>2, <2>4, <2>5
<1>4. /\ SubSeq(past, Len(past) - n + 1, Len(past)) \in Seq(S)
      /\ Len(SubSeq(past, Len(past) - n + 1, Len(past))) = n
  <2>1. Len(past) - n + 1 \in Int /\ Len(past) \in Int /\ \A i \in Len(past) - n + 1 .. Len(past) : past[i] \in S
    BY <1>1, <1>2
  <2>2. /\ SubSeq(past, Len(past) - n + 1, Len(past)) \in Seq(S)
        /\ Len(SubSeq(past, Len(past) - n + 1, Len(past)))
             = IF Len(past) - n + 1 <= Len(past) THEN Len(past) - (Len(past) - n + 1) + 1 ELSE 0
    BY <2>1, SubSeqProperties
  <2> QED
    BY <1>1, <2>2
<1>5. past[Len(past) - n] \in S
  BY <1>1, <1>2
<1> QED
  BY <1>1, <1>3, <1>4, <1>5

-----------------------------------------------------------------------------
(* Types *)

LEMMA StepsTyped == ASSUME TypeOK PROVE Steps \in Nat /\ (stepsAt <= pushed => Steps = pushed - stepsAt)
BY DEF TypeOK, Steps

LEMMA BaselineTyped ==
  ASSUME TypeOK, EnsureBaseline
  PROVE  open' \in BOOLEAN /\ baseline' \in Scenes /\ stepsAt' \in Nat
BY DEF TypeOK, EnsureBaseline, ledger

LEMMA QuietTyped == Quiet0 \in Answers
BY DEF Quiet0, Answers

LEMMA CleanTyped == ASSUME TypeOK PROVE CleanNow \in BOOLEAN
BY DEF TypeOK, CleanNow

LEMMA DispatchTyped ==
  ASSUME TypeOK, NEW o \in Outcomes, Dispatch(o)
  PROVE  TypeOK'
<1> DEFINE r == [i \in DOMAIN o.steps |-> Step(o.steps[i], "tool")]
<1>1. o.scene \in Scenes /\ Len(o.steps) \in Nat /\ r \in Seq(StepsOf)
  BY ToolSteps
<1>2. open' \in BOOLEAN /\ baseline' \in Scenes /\ stepsAt' \in Nat
  BY BaselineTyped DEF Dispatch
<1>3. /\ past' \in Seq(StepsOf) /\ Len(past') >= 1 /\ pushed' \in Nat
      /\ future' \in Seq(StepsOf) /\ Len(past') + Len(future') <= UndoLimit
  <2>1. CASE window /\ o.steps # <<>>
    <3>1. past' = Recorded(r) /\ future' = <<>> /\ pushed' = pushed + Len(o.steps)
      BY <2>1 DEF Dispatch
    <3> HIDE DEF r
    <3>2. Recorded(r) \in Seq(StepsOf) /\ Len(Recorded(r)) \in 1..UndoLimit
      BY <1>1, RecordedSteps, Lengths
    <3>3. <<>> \in Seq(StepsOf) /\ Len(<<>>) = 0 /\ pushed + Len(o.steps) \in Nat
      BY <1>1, EmptySeq DEF TypeOK
    <3> QED
      BY <3>1, <3>2, <3>3, Lengths
  <2>2. CASE ~(window /\ o.steps # <<>>)
    BY <2>2 DEF Dispatch, TypeOK
  <2> QED
    BY <2>1, <2>2
<1>4. scene' \in Scenes /\ window' \in BOOLEAN /\ told' \in Answers
  BY <1>1, QuietTyped DEF Dispatch, TypeOK
<1>5. clean' \in BOOLEAN
  BY DEF Dispatch
<1> QED
  BY <1>2, <1>3, <1>4, <1>5 DEF TypeOK

LEMMA ReportTyped ==
  ASSUME TypeOK, NEW c \in BOOLEAN, Report(c)
  PROVE  TypeOK'
<1>1. told' \in Answers
  BY StepsTyped DEF Report, Answers, Quiet0, TypeOK
<1>2. open' \in BOOLEAN /\ baseline' \in Scenes /\ stepsAt' \in Nat
  BY BaselineTyped DEF Report, TypeOK
<1>3. clean' \in BOOLEAN
  BY CleanTyped DEF Report
<1> QED
  BY <1>1, <1>2, <1>3 DEF TypeOK, Report, blender

\* Blender makes no more undos than there are steps, and all of them or as many as are counted.
LEMMA MadeBounds ==
  ASSUME Steps \in Nat, Len(past) \in Nat \ {0}, NEW m, NEW n, <<m, n>> \in Undoes(Steps)
  PROVE  m \in 0..Len(past) - 1 /\ n \in Nat /\ (Steps < Len(past) => m = n /\ m <= Steps)
<1>1. Steps \in Nat /\ Len(past) \in Nat /\ Len(past) >= 1
  OBVIOUS
<1> HIDE DEF Steps
<1> DEFINE most == IF Steps < Len(past) THEN Steps ELSE Len(past) - 1
<1>2. most \in 0..Len(past) - 1 /\ (Steps < Len(past) => most = Steps)
  BY <1>1
<1>3. (\E k \in 0..most : m = k /\ n = k) \/ (m = most /\ n = Steps) \/ (m = 0 /\ n = 0)
  BY DEF Undoes
<1> HIDE DEF most
<1> QED
  BY <1>1, <1>2, <1>3

LEMMA RollbackStepsTyped ==
  ASSUME TypeOK, NEW m, NEW n, RollbackSteps(m, n)
  PROVE  TypeOK'
<1>1. m \in 0..Len(past) - 1 /\ n \in Nat
  BY MadeBounds, StepsTyped, Lengths DEF RollbackSteps
<1>2. /\ Undone(m) \in Seq(StepsOf) /\ Len(Undone(m)) \in 1..UndoLimit
      /\ past[Len(past) - m].scene \in Scenes
      /\ SubSeq(past, Len(past) - m + 1, Len(past)) \in Seq(StepsOf)
      /\ Len(Undone(m)) = Len(past) - m /\ Len(SubSeq(past, Len(past) - m + 1, Len(past))) = m
  <2>1. /\ Undone(m) \in Seq(StepsOf) /\ past[Len(past) - m] \in StepsOf
        /\ SubSeq(past, Len(past) - m + 1, Len(past)) \in Seq(StepsOf)
        /\ Len(Undone(m)) = Len(past) - m /\ Len(SubSeq(past, Len(past) - m + 1, Len(past))) = m
    <3>1. past \in Seq(StepsOf) /\ Len(past) >= 1
      BY Lengths
    <3> QED
      BY <1>1, <3>1, UndoneSteps
  <2>2. past[Len(past) - m].scene \in Scenes
    BY <2>1 DEF StepsOf
  <2>3. Len(past) \in 1..UndoLimit /\ UndoLimit \in Nat
    BY Lengths
  <2> QED
    BY <1>1, <2>1, <2>2, <2>3
<1>3. /\ SubSeq(past, Len(past) - m + 1, Len(past)) \o future \in Seq(StepsOf)
      /\ Len(SubSeq(past, Len(past) - m + 1, Len(past)) \o future) = m + Len(future)
  BY <1>2, ConcatProperties DEF TypeOK
<1>6. Len(past') >= 1 /\ Len(past') + Len(future') <= UndoLimit
  BY <1>1, <1>2, <1>3, Lengths DEF RollbackSteps
<1>4. told' \in Answers
  BY <1>1, StepsTyped DEF RollbackSteps, Answers
<1>5. pushed' \in Nat
  BY <1>1 DEF RollbackSteps, TypeOK
<1> QED
  BY <1>2, <1>3, <1>4, <1>5, <1>6 DEF TypeOK, RollbackSteps

\* A step of the user keeps the types if it leaves typed scenes and steps.
LEMMA UserStepTyped ==
  ASSUME TypeOK,
         scene' \in Scenes,
         past' \in Seq(StepsOf), Len(past') >= 1,
         future' \in Seq(StepsOf), Len(past') + Len(future') <= UndoLimit,
         clean' = FALSE, told' = Quiet0, UNCHANGED <<window, pushed, ledger>>
  PROVE  TypeOK'
BY QuietTyped DEF TypeOK, ledger

LEMMA UserTyped ==
  ASSUME TypeOK, User
  PROVE  TypeOK'
<1>0. <<>> \in Seq(StepsOf) /\ Len(<<>>) = 0
  BY EmptySeq
<1>1. ASSUME NEW s \in Scenes, UserEdit(s) PROVE TypeOK'
  <2>1. <<Step(s, "user")>> \in Seq(StepsOf)
    BY DEF Step, StepsOf, Authors
  <2>2. Recorded(<<Step(s, "user")>>) \in Seq(StepsOf) /\ Len(Recorded(<<Step(s, "user")>>)) \in 1..UndoLimit
    <3> DEFINE r == <<Step(s, "user")>>
    <3>1. r \in Seq(StepsOf) /\ past \in Seq(StepsOf) /\ Len(past) >= 1
      BY <2>1, Lengths
    <3> HIDE DEF r
    <3>2. Recorded(r) \in Seq(StepsOf) /\ Len(Recorded(r)) \in 1..UndoLimit
      BY <3>1, RecordedSteps
    <3> QED
      BY <3>2 DEF r
  <2>3. past' = Recorded(<<Step(s, "user")>>) /\ future' = <<>> /\ scene' = s
    BY <1>1 DEF UserEdit
  <2>4. Len(past') >= 1 /\ Len(past') + Len(future') <= UndoLimit
    BY <1>0, <2>2, <2>3, Lengths
  <2>5. clean' = FALSE /\ told' = Quiet0 /\ UNCHANGED <<window, pushed, ledger>>
    BY <1>1 DEF UserEdit
  <2> QED
    BY <1>0, <2>2, <2>3, <2>4, <2>5, UserStepTyped
<1>2. ASSUME NEW s \in Scenes, OpenFile(s) PROVE TypeOK'
  <2>1. <<Step(s, "file")>> \in Seq(StepsOf) /\ Len(<<Step(s, "file")>>) = 1
    BY DEF Step, StepsOf, Authors
  <2>2. past' = <<Step(s, "file")>> /\ future' = <<>> /\ scene' = s
    BY <1>2 DEF OpenFile
  <2>3. Len(past') >= 1 /\ Len(past') + Len(future') <= UndoLimit
    BY <1>0, <2>1, <2>2, Lengths
  <2>4. clean' = FALSE /\ told' = Quiet0 /\ UNCHANGED <<window, pushed, ledger>>
    BY <1>2 DEF OpenFile
  <2> QED
    BY <1>0, <2>1, <2>2, <2>3, <2>4, UserStepTyped
<1>3. ASSUME UserUndo PROVE TypeOK'
  <2>1. Len(past) \in Nat /\ 1 \in 0..Len(past) - 1
    BY <1>3, Lengths DEF UserUndo
  <2>2. Undone(1) \in Seq(StepsOf) /\ Len(Undone(1)) = Len(past) - 1 /\ past[Len(past) - 1].scene \in Scenes
    <3>1. Undone(1) \in Seq(StepsOf) /\ Len(Undone(1)) = Len(past) - 1 /\ past[Len(past) - 1] \in StepsOf
      BY <2>1, UndoneSteps, Lengths
    <3> QED
      BY <3>1 DEF StepsOf
  <2>3. <<past[Len(past)]>> \in Seq(StepsOf) /\ Len(<<past[Len(past)]>>) = 1
    BY <2>1, ElementOfSeq DEF TypeOK
  <2>4. <<past[Len(past)]>> \o future \in Seq(StepsOf) /\ Len(<<past[Len(past)]>> \o future) = 1 + Len(future)
    BY <2>3, ConcatProperties DEF TypeOK
  <2>5. past' = Undone(1) /\ future' = <<past[Len(past)]>> \o future /\ scene' = past[Len(past) - 1].scene
    BY <1>3 DEF UserUndo
  <2>6. Len(past') >= 1 /\ Len(past') + Len(future') <= UndoLimit
    BY <2>1, <2>2, <2>4, <2>5, Lengths
  <2>7. clean' = FALSE /\ told' = Quiet0 /\ UNCHANGED <<window, pushed, ledger>>
    BY <1>3 DEF UserUndo
  <2> QED
    BY <2>2, <2>4, <2>5, <2>6, <2>7, UserStepTyped
<1>4. ASSUME UserRedo PROVE TypeOK'
  <2>1. future \in Seq(StepsOf) /\ future # <<>>
    BY <1>4 DEF UserRedo, TypeOK
  <2>2. Tail(future) \in Seq(StepsOf) /\ Len(Tail(future)) = Len(future) - 1
    BY <2>1, HeadTailProperties
  <2>3. Len(future) >= 1
    BY <2>1, EmptySeq, Lengths
  <2>4. future[1] \in StepsOf
    BY <2>1, <2>3, ElementOfSeq, Lengths
  <2>5. Append(past, future[1]) \in Seq(StepsOf) /\ Len(Append(past, future[1])) = Len(past) + 1
    BY <2>4, AppendProperties DEF TypeOK
  <2>6. past' = Append(past, future[1]) /\ future' = Tail(future) /\ scene' = future[1].scene
    BY <1>4 DEF UserRedo
  <2>7. Len(past') >= 1 /\ Len(past') + Len(future') <= UndoLimit /\ scene' \in Scenes
    BY <2>2, <2>4, <2>5, <2>6, Lengths DEF StepsOf
  <2>8. clean' = FALSE /\ told' = Quiet0 /\ UNCHANGED <<window, pushed, ledger>>
    BY <1>4 DEF UserRedo
  <2> QED
    BY <2>2, <2>5, <2>6, <2>7, <2>8, UserStepTyped
<1> QED
  BY <1>1, <1>2, <1>3, <1>4 DEF User

LEMMA NextTyped ==
  ASSUME TypeOK, [Next]_vars
  PROVE  TypeOK'
<1>1. CASE \E o \in Outcomes : Dispatch(o)
  BY <1>1, DispatchTyped
<1>2. CASE ChatMessage
  BY <1>2, QuietTyped DEF TypeOK, ChatMessage, blender
<1>3. CASE \E c \in BOOLEAN : Report(c)
  BY <1>3, ReportTyped
<1>4. CASE Rollback
  <2>1. ASSUME RollbackNothing PROVE TypeOK'
    BY <2>1, QuietTyped DEF TypeOK, RollbackNothing, blender
  <2> QED
    BY <1>4, <2>1, RollbackStepsTyped DEF Rollback
<1>5. CASE User
  BY <1>5, UserTyped
<1>6. CASE UNCHANGED vars
  BY <1>6 DEF TypeOK, vars, blender, ledger
<1> QED
  BY <1>1, <1>2, <1>3, <1>4, <1>5, <1>6 DEF Next, Agent

LEMMA InitTyped ==
  ASSUME Init
  PROVE  TypeOK
<1>1. Step(scene, "file") \in StepsOf
  BY DEF Init, Step, StepsOf, Authors
<1>2. past \in Seq(StepsOf) /\ Len(past) = 1
  BY <1>1 DEF Init
<1>3. future \in Seq(StepsOf) /\ Len(future) = 0
  BY EmptySeq DEF Init
<1>4. Len(past) >= 1 /\ Len(past) + Len(future) <= UndoLimit
  BY <1>2, <1>3, LedgerAssumption DEF LedgerAssumption
<1> QED
  BY <1>2, <1>3, <1>4, QuietTyped DEF Init, TypeOK

\* What the ledger and Blender keep has its type, and Blender keeps no more steps than its
\* limit whether they are undone or not (TaskLedger, undo_manager._pushed).
THEOREM Typed == Spec => []TypeOK
<1>1. Init => TypeOK
  BY InitTyped
<1>2. TypeOK /\ [Next]_vars => TypeOK'
  BY NextTyped
<1> QED
  BY <1>1, <1>2, PTL DEF Spec

-----------------------------------------------------------------------------
(* The counter *)

LEMMA Counted ==
  ASSUME NEW a \in Nat, NEW b \in Nat, b <= a
  PROVE  a - b \in Nat /\ (~(a > b) => a - b = 0)
OBVIOUS

\* When a call begins, also the first one of a task, the steps of the task lie on its baseline.
LEMMA TaskBegins ==
  ASSUME IInv, CleanNow, EnsureBaseline
  PROVE  /\ window /\ stepsAt' \in Nat /\ stepsAt' <= pushed
         /\ pushed - stepsAt' < Len(past)
         /\ past[Len(past) - (pushed - stepsAt')].scene = baseline'
         /\ scene = Present
         /\ \A i \in Len(past) - (pushed - stepsAt') + 1 .. Len(past) : past[i].by = "tool"
<1>1. CASE open
  BY <1>1, StepsTyped DEF IInv, CounterAgrees, CleanNow, EnsureBaseline, ledger, TypeOK
<1>2. CASE ~open
  <2>1. window /\ scene = Present /\ stepsAt' = pushed /\ baseline' = scene
    BY <1>2 DEF CleanNow, EnsureBaseline
  <2>2. pushed \in Nat /\ pushed - pushed = 0 /\ Len(past) \in Nat /\ Len(past) >= 1 /\ Len(past) - 0 = Len(past)
    BY Lengths DEF IInv, TypeOK
  <2>3. past[Len(past)].scene = baseline'
    BY <2>1 DEF Present
  <2> QED
    BY <2>1, <2>2, <2>3
<1> QED
  BY <1>1, <1>2

\* A call puts its own steps on those of the task.
LEMMA DispatchAgrees ==
  ASSUME IInv, NEW o \in Outcomes, Dispatch(o), clean'
  PROVE  CounterAgrees' /\ window'
<1> DEFINE r == [i \in DOMAIN o.steps |-> Step(o.steps[i], "tool")]
           st == pushed - stepsAt'
<1>1. CleanNow /\ Accounted(o) /\ EnsureBaseline
  BY DEF Dispatch
<1>2. /\ window /\ stepsAt' \in Nat /\ stepsAt' <= pushed
      /\ st < Len(past)
      /\ past[Len(past) - st].scene = baseline'
      /\ scene = Present
      /\ \A i \in Len(past) - st + 1 .. Len(past) : past[i].by = "tool"
  BY <1>1, TaskBegins
<1>0. Len(past) \in Nat /\ pushed \in Nat
  BY Lengths DEF IInv, TypeOK
<1>3. st \in Nat /\ Len(past) \in Nat /\ pushed \in Nat
  <2>1. stepsAt' \in Nat /\ stepsAt' <= pushed
    BY <1>2
  <2> QED
    BY <1>0, <2>1, Counted
<1>4. CASE o.steps = <<>>
  <2>1. past' = past /\ pushed' = pushed /\ scene' = scene
    BY <1>1, <1>4 DEF Dispatch, Accounted
  <2>2. Steps' = st
    <3>1. stepsAt' \in Nat /\ stepsAt' <= pushed
      BY <1>2
    <3>2. ~(pushed > stepsAt') => pushed - stepsAt' = 0
      BY <1>0, <3>1, Counted
    <3> QED
      BY <3>2, <2>1 DEF Steps
  <2> HIDE DEF st
  <2> QED
    BY <1>2, <1>3, <2>1, <2>2 DEF CounterAgrees, Present, Dispatch
<1>5. CASE o.steps # <<>>
  <2> DEFINE k == Len(o.steps)
  <2>1. past' = Recorded(r) /\ pushed' = pushed + k
    BY <1>2, <1>5 DEF Dispatch
  <2>2. /\ r \in Seq(StepsOf) /\ Len(r) = k /\ k \in Nat /\ o.steps \in Seq(Scenes)
        /\ \A i \in 1..k : r[i] = Step(o.steps[i], "tool")
    BY ToolSteps
  <2>3. k >= 1
    BY <1>5, <2>2, EmptySeq
  <2>4. Len(past) + Len(r) <= UndoLimit /\ scene' = o.steps[k]
    BY <1>1, <1>5, <2>2 DEF Accounted, Dispatch
  <2> HIDE DEF r
  <2>5. /\ Len(past') = Len(past) + k
        /\ \A i \in 1..Len(past) : past'[i] = past[i]
        /\ \A i \in 1..k : past'[Len(past) + i] = r[i]
    <3>1. past \in Seq(StepsOf) /\ Len(past) >= 1
      BY Lengths DEF IInv
    <3> QED
      BY <2>1, <2>2, <2>4, <3>1, RecordedSteps
  <2>6. Steps' = st + k
    <3>1. \A p, a, m \in Nat :
            a <= p => (IF p + m > a THEN (p + m) - a ELSE 0) = (p - a) + m
      OBVIOUS
    <3>2. stepsAt' \in Nat /\ stepsAt' <= pushed /\ pushed \in Nat /\ k \in Nat
      BY <1>2, <1>3, <2>2
    <3>3. Steps' = IF pushed + k > stepsAt' THEN (pushed + k) - stepsAt' ELSE 0
      BY <2>1 DEF Steps
    <3> HIDE DEF k
    <3> QED
      BY <3>1, <3>2, <3>3
  <2> HIDE DEF st, k
  <2>7. stepsAt' <= pushed' /\ Steps' < Len(past') /\ Len(past') - Steps' = Len(past) - st
    BY <1>2, <1>3, <2>1, <2>2, <2>5, <2>6
  <2>8. past'[Len(past) - st] = past[Len(past) - st]
    BY <1>2, <1>3, <2>5
  <2>9. scene' = Present'
    <3>1. past'[Len(past) + k] = Step(o.steps[k], "tool")
      BY <2>2, <2>3, <2>5
    <3> QED
      BY <2>4, <2>5, <3>1 DEF Present, Step
  <2>10. ASSUME NEW i \in Len(past) - st + 1 .. Len(past) + k
         PROVE  past'[i].by = "tool"
    <3>1. CASE i <= Len(past)
      <4>1. i \in 1..Len(past) /\ i \in Len(past) - st + 1 .. Len(past)
        BY <1>2, <1>3, <2>2, <3>1
      <4> QED
        BY <1>2, <2>5, <4>1
    <3>2. CASE i > Len(past)
      <4>1. i - Len(past) \in 1..k /\ Len(past) + (i - Len(past)) = i
        BY <1>2, <1>3, <2>2, <3>2
      <4>2. past'[i] = Step(o.steps[i - Len(past)], "tool")
        BY <2>2, <2>5, <4>1
      <4> QED
        BY <4>2 DEF Step
    <3> QED
      BY <1>3, <2>2, <3>1, <3>2
  <2> QED
    BY <1>2, <2>5, <2>7, <2>8, <2>9, <2>10 DEF CounterAgrees, Dispatch
<1> QED
  BY <1>4, <1>5, <1>2 DEF Dispatch

LEMMA ChatMessageAgrees ==
  ASSUME IInv, ChatMessage, clean'
  PROVE  CounterAgrees' /\ window'
<1>1. window /\ scene = Present /\ stepsAt' = pushed /\ baseline' = scene /\ UNCHANGED <<window, scene, past, pushed>>
  BY DEF ChatMessage, blender
<1>2. Len(past) \in Nat /\ Len(past) >= 1 /\ Len(past) - 0 = Len(past) /\ pushed \in Nat
  BY Lengths DEF IInv, TypeOK
<1>3. Steps' = 0 /\ stepsAt' <= pushed'
  BY <1>1, <1>2 DEF Steps
<1> QED
  BY <1>1, <1>2, <1>3 DEF CounterAgrees, Present

LEMMA ReportAgrees ==
  ASSUME IInv, NEW c \in BOOLEAN, Report(c), open', clean'
  PROVE  CounterAgrees' /\ window'
<1>1. EnsureBaseline /\ CleanNow /\ UNCHANGED <<window, scene, past, pushed>>
  BY DEF Report, blender
<1>2. /\ window /\ stepsAt' \in Nat /\ stepsAt' <= pushed
      /\ pushed - stepsAt' < Len(past)
      /\ past[Len(past) - (pushed - stepsAt')].scene = baseline'
      /\ scene = Present
      /\ \A i \in Len(past) - (pushed - stepsAt') + 1 .. Len(past) : past[i].by = "tool"
  BY <1>1, TaskBegins
<1>3. Steps' = pushed - stepsAt'
  <2>1. pushed \in Nat
    BY DEF IInv, TypeOK
  <2>2. stepsAt' \in Nat /\ stepsAt' <= pushed
    BY <1>2
  <2>3. ~(pushed > stepsAt') => pushed - stepsAt' = 0
    BY <2>1, <2>2, Counted
  <2> QED
    BY <1>1, <2>3 DEF Steps
<1> QED
  BY <1>1, <1>2, <1>3 DEF CounterAgrees, Present

LEMMA NextAgrees ==
  ASSUME IInv, [Next]_vars
  PROVE  CounterAgrees' /\ (open' /\ clean' => window')
<1> SUFFICES ASSUME open', clean' PROVE CounterAgrees' /\ window'
  BY DEF CounterAgrees
<1>1. CASE \E o \in Outcomes : Dispatch(o)
  BY <1>1, DispatchAgrees
<1>2. CASE ChatMessage
  BY <1>2, ChatMessageAgrees
<1>3. CASE \E c \in BOOLEAN : Report(c)
  BY <1>3, ReportAgrees
<1>4. CASE Rollback \/ User
  <2>1. ~open' \/ clean' = FALSE
    BY <1>4 DEF Rollback, RollbackNothing, RollbackSteps, User, UserEdit, OpenFile, UserUndo, UserRedo
  <2> QED
    BY <2>1
<1>5. CASE UNCHANGED vars
  BY <1>5 DEF IInv, CounterAgrees, Steps, Present, vars, blender, ledger
<1> QED
  BY <1>1, <1>2, <1>3, <1>4, <1>5 DEF Next, Agent

LEMMA Inductive == Spec => []IInv
<1>1. Init => IInv
  BY InitTyped DEF Init, IInv, CounterAgrees
<1>2. IInv /\ [Next]_vars => IInv'
  BY NextTyped, NextAgrees DEF IInv
<1> QED
  BY <1>1, <1>2, PTL DEF Spec

\* As long as only recorded tool calls happen in a task, the steps the add-on counted lie on the
\* scene it began with and are its own (TaskLedger._steps, undo_manager._pushed).
THEOREM Counter == Spec => []CounterAgrees
BY Inductive, PTL DEF IInv

-----------------------------------------------------------------------------
(* The rollback *)

LEMMA RollbackStep ==
  ASSUME IInv, Rollback, open, clean
  PROVE  LET left == Steps - told'.done
         IN  left < Len(past') /\ past'[Len(past') - left].scene = baseline /\ (left = 0 => scene' = baseline)
<1>1. /\ stepsAt <= pushed /\ Steps < Len(past) /\ past[Len(past) - Steps].scene = baseline /\ scene = Present
      /\ TypeOK
  BY DEF IInv, CounterAgrees
<1>2. Steps \in Nat /\ Len(past) \in Nat /\ Len(past) >= 1
  BY <1>1, StepsTyped, Lengths
<1> HIDE DEF Steps
<1>3. CASE RollbackNothing
  <2>1. Steps = 0 /\ told'.done = 0 /\ past' = past /\ scene' = scene
    BY <1>3 DEF RollbackNothing, Quiet0, blender
  <2> QED
    BY <1>1, <1>2, <2>1 DEF Present
<1>4. ASSUME NEW m \in 0..Steps, NEW n \in 0..Steps, RollbackSteps(m, n)
      PROVE  LET left == Steps - told'.done
             IN  left < Len(past') /\ past'[Len(past') - left].scene = baseline /\ (left = 0 => scene' = baseline)
  <2>1. m \in 0..Len(past) - 1 /\ m = n /\ m <= Steps
    BY <1>1, <1>2, <1>4, MadeBounds DEF RollbackSteps
  <2>2. past' = Undone(m) /\ told'.done = m /\ scene' = IF m = 0 THEN scene ELSE past[Len(past) - m].scene
    BY <1>4, <2>1 DEF RollbackSteps
  <2>3. Len(past') = Len(past) - m /\ \A i \in 1..Len(past) - m : past'[i] = past[i]
    <3>1. past \in Seq(StepsOf) /\ Len(past) >= 1
      BY <1>1, Lengths
    <3> QED
      BY <2>1, <2>2, <3>1, UndoneSteps
  <2>4. Steps - told'.done = Steps - m /\ Steps - m < Len(past') /\ Len(past') - (Steps - m) = Len(past) - Steps
    BY <1>1, <1>2, <2>1, <2>2, <2>3
  <2>5. past'[Len(past) - Steps] = past[Len(past) - Steps]
    BY <1>1, <1>2, <2>1, <2>3
  <2>6. Steps - m = 0 => scene' = baseline
    BY <1>1, <1>2, <2>1, <2>2 DEF Present
  <2> QED
    BY <1>1, <2>4, <2>5, <2>6
<1> QED
  BY <1>3, <1>4 DEF Rollback

\* A rollback of such a task that counted every step has put the scene back as it was, and when
\* Blender stopped in the middle Ctrl+Z goes on to it (TaskLedger.rollback).
THEOREM Restores == Spec => RollbackRestores
<1>1. IInv /\ [Next]_vars =>
        [Rollback /\ open /\ clean =>
           LET left == Steps - told'.done
           IN  left < Len(past') /\ past'[Len(past') - left].scene = baseline
               /\ (left = 0 => scene' = baseline)]_vars
  BY RollbackStep
<1> QED
  BY <1>1, Inductive, PTL DEF Spec, RollbackRestores

-----------------------------------------------------------------------------
(* Counting up *)

LEMMA Smallest ==
  ASSUME NEW T, T \subseteq Nat, T # {}
  PROVE  \E x \in T : \A y \in T : ~(y < x)
<1>1. IsWellFoundedOn(OpToRel(<, Nat), Nat)
  BY NatLessThanWellFounded
<1>2. \E x \in T : \A y \in T : ~(<<y, x>> \in OpToRel(<, Nat))
  BY <1>1, WFMin
<1>3. \A x, y \in Nat : y < x => <<y, x>> \in OpToRel(<, Nat)
  BY DEF OpToRel
<1> QED
  BY <1>2, <1>3

LEMMA CountUp ==
  ASSUME NEW n \in Nat, NEW T, 0 \in T, \A i \in 1..n : i - 1 \in T => i \in T
  PROVE  0..n \subseteq T
<1> SUFFICES ASSUME (0..n) \ T # {} PROVE FALSE
  OBVIOUS
<1>0. (0..n) \ T \subseteq Nat
  OBVIOUS
<1>1. PICK x \in (0..n) \ T : \A y \in (0..n) \ T : ~(y < x)
  BY <1>0, Smallest
<1>2. x \in 1..n /\ x - 1 \in 0..n
  BY <1>1
<1>3. x - 1 \in T
  BY <1>1, <1>2
<1> QED
  BY <1>1, <1>2, <1>3

\* g applies f[1] to start, f[2] to the result of that, and so on.
Folds(g, n, S, start, f) ==
  /\ g \in [0..n -> S] /\ g[0] = start
  /\ \A i \in 1..n : g[i] = f[i][g[i - 1]]

LEMMA FoldExists ==
  ASSUME NEW n \in Nat, NEW S, NEW start \in S, NEW f \in [1..n -> [S -> S]]
  PROVE  \E g : Folds(g, n, S, start, f)
<1> DEFINE Upto(g, k) == Folds(g, k, S, start, f)
           T == {k \in 0..n : \E g \in [0..k -> S] : Upto(g, k)}
<1>1. 0 \in T
  <2> DEFINE h == [i \in 0..0 |-> start]
  <2>1. h \in [0..0 -> S] /\ Upto(h, 0) /\ 0 \in 0..n
    BY DEF Folds
  <2> HIDE DEF h
  <2> QED
    BY <2>1
<1>2. ASSUME NEW k \in 1..n, k - 1 \in T PROVE k \in T
  <2>1. PICK g \in [0..(k - 1) -> S] : Upto(g, k - 1)
    BY <1>2
  <2> DEFINE h == [i \in 0..k |-> IF i = k THEN f[k][g[k - 1]] ELSE g[i]]
  <2>2. k - 1 \in 0..(k - 1) /\ g[k - 1] \in S /\ f[k] \in [S -> S]
    BY <2>1 DEF Folds
  <2>3. h \in [0..k -> S]
    BY <2>1, <2>2
  <2>4. h[0] = start
    BY <2>1 DEF Folds
  <2>5. ASSUME NEW i \in 1..k PROVE h[i] = f[i][h[i - 1]]
    <3>1. i \in 0..k /\ i - 1 \in 0..k /\ i - 1 # k /\ h[i - 1] = g[i - 1]
      OBVIOUS
    <3>2. CASE i = k
      BY <3>1, <3>2
    <3>3. CASE i # k
      <4>1. i \in 1..(k - 1)
        BY <3>3
      <4> QED
        BY <4>1, <3>1, <3>3, <2>1 DEF Folds
    <3> QED
      BY <3>2, <3>3
  <2>6. Upto(h, k)
    BY <2>3, <2>4, <2>5 DEF Folds
  <2>7. k \in 0..n
    OBVIOUS
  <2> HIDE DEF h
  <2> QED
    BY <2>3, <2>6, <2>7
<1>3. n \in T
  <2> HIDE DEF T
  <2>1. 0..n \subseteq T
    BY <1>1, <1>2, CountUp
  <2> QED
    BY <2>1
<1> QED
  BY <1>3

-----------------------------------------------------------------------------
(* Scenes *)

\* A scene that Blender can hold.
Sound(s) == Formed(s) /\ Referred(s) /\ Ranked(s, Nat)

LEMMA KindOfObject ==
  ASSUME NEW s, Sound(s)
  PROVE  /\ \A o \in Objects(s) : Kind(s, o) = s.obj[o].kind /\ Kind(s, o) \in Kinds
         /\ \A o : o \in Objects(s) <=> Kind(s, o) # None
         /\ \A o : o \notin Objects(s) => Kind(s, o) = None /\ Parent(s, o) = None
         /\ \A o \in Objects(s) : Parent(s, o) = s.obj[o].parent
BY DEF Sound, Referred, Kind, Kinds, None, Parent

\* An object that no other stands for, and data that no other uses.
LEMMA FreeName ==
  ASSUME NEW s, ~(Names \subseteq Objects(s))
  PROVE  NewName(s) \in Names /\ NewName(s) \notin Objects(s) /\ NewName(s) # None
BY NamesAssumption DEF NewName, NamesAssumption

LEMMA FreeData ==
  ASSUME NEW s, Sound(s)
  PROVE  NewData(s) \in Nat /\ NewData(s) \notin DOMAIN s.data /\ NewData(s) # NoData
<1> DEFINE D == DOMAIN s.data
           n == Cardinality(D)
<1>1. IsFiniteSet(D) /\ n \in Nat
  BY FS_CardinalityType DEF Sound, Formed
<1> HIDE DEF D
<1>2. ~(1..n + 1 \subseteq D)
  <2> SUFFICES ASSUME 1..n + 1 \in SUBSET D PROVE FALSE
    OBVIOUS
  <2>1. Cardinality(1..n + 1) <= n
    BY <1>1, FS_Subset
  <2>2. Cardinality(1..n + 1) = n + 1
    BY <1>1, FS_Interval
  <2> QED
    BY <1>1, <2>1, <2>2
<1>3. NewData(s) \in 1..n + 1 /\ NewData(s) \notin D
  BY <1>2 DEF NewData, D
<1> QED
  BY <1>1, <1>3 DEF D, NoData

\* How many more objects there can be.
Room(s, n) == Cardinality(Names \ Objects(s)) >= n

LEMMA RoomFinite == ASSUME NEW S PROVE IsFiniteSet(Names \ S) /\ Cardinality(Names \ S) \in Nat
BY FS_Difference, FS_CardinalityType, NamesAssumption DEF NamesAssumption

LEMMA RoomForOne ==
  ASSUME NEW s, NEW n \in Nat \ {0}, Room(s, n)
  PROVE  NewName(s) \in Names /\ NewName(s) \notin Objects(s) /\ NewName(s) # None
<1>1. Names \ Objects(s) # {}
  BY RoomFinite, FS_EmptySet DEF Room
<1> QED
  BY <1>1, FreeName

LEMMA RoomLeft ==
  ASSUME NEW s, NEW t, NEW n \in Nat \ {0}, Room(s, n), NEW x, Objects(t) = Objects(s) \cup {x}
  PROVE  Room(t, n - 1)
<1> DEFINE N == Names \ Objects(s)
           M == Names \ Objects(t)
<1>1. M = N \ {x}
  OBVIOUS
<1>2. IsFiniteSet(N) /\ Cardinality(N) \in Nat /\ Cardinality(N) >= n /\ Cardinality(M) \in Nat
  BY RoomFinite DEF Room
<1> HIDE DEF N, M
<1>3. Cardinality(M) = IF x \in N THEN Cardinality(N) - 1 ELSE Cardinality(N)
  BY <1>1, <1>2, FS_RemoveElement
<1>4. Cardinality(M) >= n - 1
  BY <1>2, <1>3
<1> QED
  BY <1>4 DEF Room, M
-----------------------------------------------------------------------------
(* Changes that leave the objects, what they hang under and what data they use as they are *)

Alike(s, t) ==
  /\ Formed(t)
  /\ Objects(t) = Objects(s)
  /\ \A o \in Objects(s) : /\ t.obj[o].kind = s.obj[o].kind
                          /\ t.obj[o].data = s.obj[o].data
                          /\ t.obj[o].parent = s.obj[o].parent
  /\ DOMAIN t.data = DOMAIN s.data
  /\ \A d \in DOMAIN s.data : t.data[d].mat \in DOMAIN t.mats \cup {None}
  /\ t.camera # None => Kind(s, t.camera) = "CAMERA"

\* The scene is one that Blender can hold, and has these objects.
Standing(s, t) == Sound(t) /\ Objects(t) = Objects(s) /\ \A o : Kind(t, o) = Kind(s, o)

LEMMA AlikeStanding ==
  ASSUME NEW s, Sound(s), NEW t, Alike(s, t)
  PROVE  Standing(s, t)
<1>1. Referred(t)
  <2>1. t.camera # None => t.camera \in Objects(t) /\ t.obj[t.camera].kind = "CAMERA"
    BY DEF Alike, Kind, None
  <2> QED
    BY <2>1 DEF Sound, Alike, Referred
<1>2. Ranked(t, Nat)
  BY DEF Sound, Alike, Ranked, Referred
<1>3. \A o : Kind(t, o) = Kind(s, o)
  BY DEF Alike, Kind
<1> QED
  BY <1>1, <1>2, <1>3 DEF Alike, Sound, Standing

-----------------------------------------------------------------------------
(* Data that several objects use *)

Several(s, d) == \E x, y \in Meshes(s) : x # y /\ s.obj[x].data = d /\ s.obj[y].data = d

\* No other object uses the mesh of o.
Alone(s, o) == \A x \in Meshes(s) \ {o} : o \in Meshes(s) => s.obj[x].data # s.obj[o].data

\* A mesh that several objects use in t several used in s, and but for these fields it is as it was.
Leaves(s, t, fields) ==
  \A d : \A f \in Fields : Several(t, d) /\ <<d, f>> \notin fields => Several(s, d) /\ t.data[d][f] = s.data[d][f]

\* Nothing that is shared has changed, and nothing that was not shared is.
Apart(s, t) == Leaves(s, t, {}) /\ \A o : Alone(s, o) => Alone(t, o)

\* The scene has the same objects, and what they share is as it was.
SameObjects(s, t) == Standing(s, t) /\ Apart(s, t)

LEMMA ApartTransitive ==
  /\ \A s : Apart(s, s)
  /\ \A s, t, u : Apart(s, t) /\ Apart(t, u) => Apart(s, u)
BY DEF Apart, Leaves

LEMMA SameTransitive ==
  ASSUME NEW s, NEW t, NEW u, SameObjects(s, t), SameObjects(t, u)
  PROVE  SameObjects(s, u)
BY ApartTransitive DEF SameObjects, Standing

LEMMA SameItself == ASSUME NEW s, Sound(s) PROVE SameObjects(s, s)
BY ApartTransitive DEF SameObjects, Standing

\* An object that is no empty uses data that is there, and meshes that several use are there.
LEMMA UsedData ==
  ASSUME NEW s, Sound(s)
  PROVE  /\ \A o \in Objects(s) : IF Kind(s, o) = "EMPTY" THEN s.obj[o].data = NoData
                                  ELSE s.obj[o].data \in DOMAIN s.data /\ s.obj[o].data # NoData
         /\ \A o \in Meshes(s) : s.obj[o].data \in DOMAIN s.data
         /\ NoData \notin DOMAIN s.data
         /\ \A d : Several(s, d) => d \in DOMAIN s.data
<1>1. \A o \in Objects(s) : IF Kind(s, o) = "EMPTY" THEN s.obj[o].data = NoData ELSE s.obj[o].data \in DOMAIN s.data
  BY KindOfObject DEF Sound, Referred
<1>2. NoData \notin DOMAIN s.data
  BY DEF Sound, Formed
<1>3. \A o \in Meshes(s) : s.obj[o].data \in DOMAIN s.data
  BY <1>1 DEF Meshes
<1>4. \A d : Several(s, d) => d \in DOMAIN s.data
  BY <1>3 DEF Several
<1> QED
  BY <1>1, <1>2, <1>3, <1>4

\* Nothing happens to data that stays.
LEMMA UntouchedApart ==
  ASSUME NEW s, Sound(s), NEW t, Standing(s, t), \A x \in Objects(s) : t.obj[x].data = s.obj[x].data,
         \A d \in DOMAIN s.data : d \in DOMAIN t.data => t.data[d] = s.data[d]
  PROVE  SameObjects(s, t)
<1>1. Meshes(t) = Meshes(s) /\ Meshes(s) \subseteq Objects(s) /\ Sound(t)
  BY DEF Standing, Meshes
<1>2. \A d : Several(t, d) => Several(s, d)
  BY <1>1 DEF Several
<1>3. \A o : Alone(s, o) => Alone(t, o)
  BY <1>1 DEF Alone
<1>4. \A d : Several(t, d) => d \in DOMAIN t.data /\ d \in DOMAIN s.data
  BY <1>1, <1>2, UsedData
<1> QED
  BY <1>2, <1>3, <1>4 DEF SameObjects, Apart, Leaves

LEMMA AlikeSame ==
  ASSUME NEW s, Sound(s), NEW t, Alike(s, t), t.data = s.data
  PROVE  SameObjects(s, t)
BY AlikeStanding, UntouchedApart DEF Alike

\* The data of one object changes in some fields, where it is alone with it or others may see it.
Free(s, o, fields) == Alone(s, o) \/ \A f \in Fields : <<s.obj[o].data, f>> \in fields

LEMMA OneLeaves ==
  ASSUME NEW s, Sound(s), NEW o \in Objects(s), NEW t, Standing(s, t), t.obj = s.obj,
         \A x \in DOMAIN s.data \ {s.obj[o].data} : t.data[x] = s.data[x],
         NEW fields, Alone(s, o) \/ \A f \in Fields : t.data[s.obj[o].data][f] = s.data[s.obj[o].data][f]
                                                      \/ <<s.obj[o].data, f>> \in fields
  PROVE  Leaves(s, t, fields) /\ \A x : Alone(s, x) => Alone(t, x)
<1>1. Meshes(t) = Meshes(s) /\ Sound(t)
  BY DEF Standing, Meshes
<1>2. \A d : Several(t, d) => Several(s, d) /\ d \in DOMAIN s.data
  BY <1>1, UsedData DEF Several
<1>3. \A x : Alone(s, x) => Alone(t, x)
  BY <1>1 DEF Alone
<1>4. ASSUME NEW d, NEW f \in Fields, Several(t, d), <<d, f>> \notin fields PROVE t.data[d][f] = s.data[d][f]
  <2>1. CASE d # s.obj[o].data
    BY <1>2, <1>4, <2>1
  <2>2. CASE d = s.obj[o].data
    <3>1. ~Alone(s, o) \/ o \notin Meshes(s)
      BY <1>2, <1>4, <2>2 DEF Alone, Several
    <3>2. o \in Meshes(s)
      <4>0. Several(s, s.obj[o].data)
        BY <1>2, <1>4, <2>2
      <4>1. PICK x \in Meshes(s) : s.obj[x].data = s.obj[o].data
        BY <4>0 DEF Several
      <4> QED
        BY <4>1 DEF Sound, Referred, Meshes, Kind, Objects
    <3> QED
      BY <1>4, <2>2, <3>1, <3>2
  <2> QED
    BY <2>1, <2>2
<1> QED
  BY <1>2, <1>3, <1>4 DEF Leaves

\* An object gets data that was not there, or none.
LEMMA FreshApart ==
  ASSUME NEW s, Sound(s), NEW t, Sound(t), NEW o \in Objects(t), t.obj[o].data \notin DOMAIN s.data,
         \A x \in Objects(t) \ {o} : x \in Objects(s) /\ t.obj[x].data = s.obj[x].data /\ Kind(t, x) = Kind(s, x),
         \A d \in DOMAIN t.data \ {t.obj[o].data} : t.data[d] = s.data[d]
  PROVE  Apart(s, t) /\ Alone(t, o)
<1>1. /\ Meshes(t) \subseteq Objects(t) /\ Meshes(t) \ {o} \subseteq Meshes(s)
      /\ \A x \in Meshes(t) \ {o} : t.obj[x].data = s.obj[x].data /\ t.obj[x].data \in DOMAIN s.data
  <2>1. Meshes(t) \subseteq Objects(t) /\ Meshes(t) \ {o} \subseteq Meshes(s)
    BY DEF Meshes
  <2> QED
    BY <2>1, UsedData
<1>2. Alone(t, o)
  BY <1>1 DEF Alone
<1>3. ASSUME NEW d, Several(t, d) PROVE Several(s, d) /\ t.data[d] = s.data[d]
  <2>1. PICK x \in Meshes(t), y \in Meshes(t) : x # y /\ t.obj[x].data = d /\ t.obj[y].data = d
    BY <1>3 DEF Several
  <2>2. x # o /\ y # o
    BY <1>2, <2>1 DEF Alone
  <2>3. Several(s, d) /\ d # t.obj[o].data
    BY <1>1, <2>1, <2>2 DEF Several
  <2>4. d \in DOMAIN t.data
    BY <1>3, UsedData
  <2> QED
    BY <2>3, <2>4
<1>4. ASSUME NEW x, Alone(s, x) PROVE Alone(t, x)
  BY <1>1, <1>2, <1>4 DEF Alone
<1> QED
  BY <1>2, <1>3, <1>4 DEF Apart, Leaves

-----------------------------------------------------------------------------
(* Single fields *)

LEMMA SceneFields ==
  ASSUME NEW s, Sound(s)
  PROVE  s = [obj |-> s.obj, data |-> s.data, mats |-> s.mats, camera |-> s.camera, set |-> s.set]
BY DEF Sound, Formed

\* Two fields of a scene set at once.
LEMMA CameraField ==
  ASSUME NEW s, Sound(s), NEW f, NEW g
  PROVE  [s EXCEPT !.obj = f, !.camera = g] = [obj |-> f, data |-> s.data, mats |-> s.mats, camera |-> g, set |-> s.set]
<1> DEFINE u == [s EXCEPT !.obj = f]
<1>1. u = [obj |-> f, data |-> s.data, mats |-> s.mats, camera |-> s.camera, set |-> s.set]
  BY SceneFields
<1>2. [s EXCEPT !.obj = f, !.camera = g] = [u EXCEPT !.camera = g]
  OBVIOUS
<1> HIDE DEF u
<1> QED
  BY <1>1, <1>2

LEMMA DataField ==
  ASSUME NEW s, Sound(s), NEW f, NEW g
  PROVE  [s EXCEPT !.data = g, !.obj = f] = [obj |-> f, data |-> g, mats |-> s.mats, camera |-> s.camera, set |-> s.set]
<1> DEFINE v == [s EXCEPT !.data = g]
<1>1. v = [obj |-> s.obj, data |-> g, mats |-> s.mats, camera |-> s.camera, set |-> s.set]
  BY SceneFields
<1>2. [s EXCEPT !.data = g, !.obj = f] = [v EXCEPT !.obj = f]
  OBVIOUS
<1> HIDE DEF v
<1> QED
  BY <1>1, <1>2

LEMMA RefersTo ==
  ASSUME NEW s, Sound(s)
  PROVE  /\ \A d \in DOMAIN s.data : s.data[d].mat \in DOMAIN s.mats \cup {None}
         /\ s.camera # None => Kind(s, s.camera) = "CAMERA"
BY DEF Sound, Referred, Kind

Item(i) ==
  i = [kind |-> i.kind, data |-> i.data, parent |-> i.parent, pose |-> i.pose, mods |-> i.mods, roles |-> i.roles]

\* Objects that change in place.
LEMMA ItemsSet ==
  ASSUME NEW s, Sound(s), NEW f, f = [x \in Objects(s) |-> f[x]],
         \A x \in Objects(s) : /\ Item(f[x]) /\ f[x].kind = s.obj[x].kind /\ f[x].data = s.obj[x].data
                               /\ f[x].parent = s.obj[x].parent
  PROVE  LET t == [s EXCEPT !.obj = f] IN SameObjects(s, t) /\ Alike(s, t) /\ t.data = s.data /\ t.mats = s.mats
<1> DEFINE t == [s EXCEPT !.obj = f]
<1>1. t = [obj |-> f, data |-> s.data, mats |-> s.mats, camera |-> s.camera, set |-> s.set]
  BY SceneFields
<1> HIDE DEF t
<1>2. Objects(t) = Objects(s) /\ t.obj = f
  BY <1>1 DEF Objects
<1>3. Formed(t)
  <2>1. t = [obj |-> t.obj, data |-> t.data, mats |-> t.mats, camera |-> t.camera, set |-> t.set]
    BY <1>1
  <2>2. t.obj = [x \in Objects(t) |-> t.obj[x]] /\ \A x \in Objects(t) : Item(t.obj[x])
    BY <1>2
  <2>3. t.data = s.data /\ t.mats = s.mats /\ t.set = s.set
    BY <1>1
  <2> QED
    BY <1>2, <2>1, <2>2, <2>3 DEF Sound, Formed, Item
<1>4. Alike(s, t)
  <2>1. t.data = s.data /\ t.mats = s.mats /\ t.camera = s.camera
    BY <1>1
  <2> QED
    BY <1>2, <1>3, <2>1, RefersTo DEF Alike
<1> QED
  BY <1>1, <1>4, AlikeSame DEF t

LEMMA ItemSet ==
  ASSUME NEW s, Sound(s), NEW o, NEW i,
         LET j == s.obj[o] IN Item(j) => Item(i) /\ i.kind = j.kind /\ i.data = j.data /\ i.parent = j.parent
  PROVE  LET t == [s EXCEPT !.obj = [s.obj EXCEPT ![o] = i]]
         IN  SameObjects(s, t) /\ Alike(s, t) /\ t.data = s.data /\ t.mats = s.mats
<1> DEFINE f == [s.obj EXCEPT ![o] = i]
<1>1. s.obj = [x \in Objects(s) |-> s.obj[x]] /\ \A x \in Objects(s) : Item(s.obj[x])
  BY DEF Sound, Formed, Item
<1>2. f = [x \in Objects(s) |-> IF x = o THEN i ELSE s.obj[x]]
  BY DEF Objects
<1> HIDE DEF f
<1>3. f = [x \in Objects(s) |-> f[x]]
  BY <1>2
<1>4. \A x \in Objects(s) : /\ Item(f[x]) /\ f[x].kind = s.obj[x].kind /\ f[x].data = s.obj[x].data
                            /\ f[x].parent = s.obj[x].parent
  BY <1>1, <1>2
<1>5. LET t == [s EXCEPT !.obj = f] IN SameObjects(s, t) /\ Alike(s, t) /\ t.data = s.data /\ t.mats = s.mats
  BY <1>3, <1>4, ItemsSet
<1> QED
  BY <1>5 DEF f

\* Pose, modifiers and roles of an object.
LEMMA PoseSet ==
  ASSUME NEW s, Sound(s), NEW o, NEW v
  PROVE  LET t == [s EXCEPT !.obj[o].pose = v] IN SameObjects(s, t) /\ Alike(s, t) /\ t.data = s.data /\ t.mats = s.mats
<1> DEFINE j == s.obj[o]
           i == [j EXCEPT !.pose = v]
<1>1. Item(j) => Item(i) /\ i.kind = j.kind /\ i.data = j.data /\ i.parent = j.parent
  <2> HIDE DEF j
  <2> QED
    BY DEF Item
<1> HIDE DEF i
<1>2. LET t == [s EXCEPT !.obj = [s.obj EXCEPT ![o] = i]]
      IN  SameObjects(s, t) /\ Alike(s, t) /\ t.data = s.data /\ t.mats = s.mats
  BY <1>1, ItemSet
<1> QED
  BY <1>2 DEF i

LEMMA ModsSet ==
  ASSUME NEW s, Sound(s), NEW o, NEW v
  PROVE  LET t == [s EXCEPT !.obj[o].mods = v] IN SameObjects(s, t) /\ Alike(s, t) /\ t.data = s.data /\ t.mats = s.mats
<1> DEFINE j == s.obj[o]
           i == [j EXCEPT !.mods = v]
<1>1. Item(j) => Item(i) /\ i.kind = j.kind /\ i.data = j.data /\ i.parent = j.parent
  <2> HIDE DEF j
  <2> QED
    BY DEF Item
<1> HIDE DEF i
<1>2. LET t == [s EXCEPT !.obj = [s.obj EXCEPT ![o] = i]]
      IN  SameObjects(s, t) /\ Alike(s, t) /\ t.data = s.data /\ t.mats = s.mats
  BY <1>1, ItemSet
<1> QED
  BY <1>2 DEF i

LEMMA RolesSet ==
  ASSUME NEW s, Sound(s), NEW o, NEW v
  PROVE  LET t == [s EXCEPT !.obj[o].roles = v] IN SameObjects(s, t) /\ Alike(s, t) /\ t.data = s.data /\ t.mats = s.mats
<1> DEFINE j == s.obj[o]
           i == [j EXCEPT !.roles = v]
<1>1. Item(j) => Item(i) /\ i.kind = j.kind /\ i.data = j.data /\ i.parent = j.parent
  <2> HIDE DEF j
  <2> QED
    BY DEF Item
<1> HIDE DEF i
<1>2. LET t == [s EXCEPT !.obj = [s.obj EXCEPT ![o] = i]]
      IN  SameObjects(s, t) /\ Alike(s, t) /\ t.data = s.data /\ t.mats = s.mats
  BY <1>1, ItemSet
<1> QED
  BY <1>2 DEF i

LEMMA PosedSame ==
  ASSUME NEW s, Sound(s), NEW o, NEW chans
  PROVE  LET t == Posed(s, o, chans) IN SameObjects(s, t) /\ Alike(s, t) /\ t.data = s.data /\ t.mats = s.mats
<1> DEFINE v == [c \in Channels |-> IF c \in chans THEN s.obj[o].pose[c] + 1 ELSE s.obj[o].pose[c]]
           t == [s EXCEPT !.obj[o].pose = v]
<1>1. Posed(s, o, chans) = t
  BY DEF Posed
<1> HIDE DEF v
<1>2. SameObjects(s, t) /\ Alike(s, t) /\ t.data = s.data /\ t.mats = s.mats
  BY PoseSet
<1> HIDE DEF t
<1> QED
  BY <1>1, <1>2

LEMMA AtRestSame ==
  ASSUME NEW s, Sound(s), NEW o, NEW chans
  PROVE  LET t == AtRest(s, o, chans) IN SameObjects(s, t) /\ Alike(s, t) /\ t.data = s.data /\ t.mats = s.mats
<1> DEFINE v == [c \in Channels |-> IF c \in chans THEN 0 ELSE s.obj[o].pose[c]]
           t == [s EXCEPT !.obj[o].pose = v]
<1>1. AtRest(s, o, chans) = t
  BY DEF AtRest
<1> HIDE DEF v
<1>2. SameObjects(s, t) /\ Alike(s, t) /\ t.data = s.data /\ t.mats = s.mats
  BY PoseSet
<1> HIDE DEF t
<1> QED
  BY <1>1, <1>2

LEMMA ModifiedSame ==
  ASSUME NEW s, Sound(s), NEW o, NEW type
  PROVE  SameObjects(s, Modified(s, o, type))
BY ModsSet DEF Modified

\* The settings of the scene and its camera.
LEMMA SettingsSet ==
  ASSUME NEW s, Sound(s), NEW v, v = [k \in DOMAIN v |-> v[k]]
  PROVE  LET t == [s EXCEPT !.set = v] IN SameObjects(s, t) /\ t.obj = s.obj /\ t.data = s.data
<1> DEFINE t == [s EXCEPT !.set = v]
<1>1. t = [obj |-> s.obj, data |-> s.data, mats |-> s.mats, camera |-> s.camera, set |-> v]
  BY SceneFields
<1> HIDE DEF t
<1>2. Alike(s, t)
  BY <1>1, RefersTo DEF Alike, Sound, Formed, Objects
<1> QED
  BY <1>1, <1>2, AlikeSame DEF t

LEMMA BumpedSame ==
  ASSUME NEW s, Sound(s), NEW keys
  PROVE  LET t == Bumped(s, keys) IN SameObjects(s, t) /\ t.obj = s.obj /\ t.data = s.data
<1> DEFINE v == [k \in DOMAIN s.set |-> IF k \in keys THEN s.set[k] + 1 ELSE s.set[k]]
<1>1. Bumped(s, keys) = [s EXCEPT !.set = v]
  BY DEF Bumped
<1>2. v = [k \in DOMAIN v |-> v[k]]
  OBVIOUS
<1> HIDE DEF v
<1> QED
  BY <1>1, <1>2, SettingsSet

LEMMA SettingSet ==
  ASSUME NEW s, Sound(s), NEW k, NEW v
  PROVE  LET t == [s EXCEPT !.set[k] = v] IN SameObjects(s, t) /\ t.obj = s.obj /\ t.data = s.data
<1> DEFINE w == [s.set EXCEPT ![k] = v]
<1>1. [s EXCEPT !.set[k] = v] = [s EXCEPT !.set = w]
  OBVIOUS
<1>2. w = [x \in DOMAIN w |-> w[x]]
  BY DEF Sound, Formed
<1> HIDE DEF w
<1> QED
  BY <1>1, <1>2, SettingsSet

LEMMA CameraSet ==
  ASSUME NEW s, Sound(s), NEW o, o # None => Kind(s, o) = "CAMERA"
  PROVE  SameObjects(s, [s EXCEPT !.camera = o])
<1> DEFINE t == [s EXCEPT !.camera = o]
<1>1. t = [obj |-> s.obj, data |-> s.data, mats |-> s.mats, camera |-> o, set |-> s.set]
  BY SceneFields
<1> HIDE DEF t
<1>2. Alike(s, t)
  BY <1>1, RefersTo DEF Alike, Sound, Formed, Objects
<1> QED
  BY <1>1, <1>2, AlikeSame DEF t

\* Data, and the material in its slot.
Datum(d) == d = [count |-> d.count, form |-> d.form, mat |-> d.mat]
Replaced(s, d, v) == [s EXCEPT !.data[d] = v]

LEMMA DatumSet ==
  ASSUME NEW s, Sound(s), NEW d, NEW v, Datum(v), v.mat \in DOMAIN s.mats \cup {None}
  PROVE  LET t == Replaced(s, d, v)
         IN  /\ Standing(s, t) /\ t.obj = s.obj /\ t.mats = s.mats
             /\ \A x \in DOMAIN s.data : t.data[x] = IF x = d THEN v ELSE s.data[x]
<1> DEFINE t == Replaced(s, d, v)
<1>1. t = [obj |-> s.obj, data |-> [s.data EXCEPT ![d] = v], mats |-> s.mats, camera |-> s.camera, set |-> s.set]
  BY SceneFields DEF Replaced
<1> HIDE DEF t
<1>2. t.data = [x \in DOMAIN s.data |-> IF x = d THEN v ELSE s.data[x]]
  BY <1>1
<1>3. /\ t.obj = s.obj /\ Objects(t) = Objects(s) /\ t.mats = s.mats /\ t.camera = s.camera /\ t.set = s.set
      /\ DOMAIN t.data = DOMAIN s.data
      /\ t = [obj |-> t.obj, data |-> t.data, mats |-> t.mats, camera |-> t.camera, set |-> t.set]
  BY <1>1, <1>2 DEF Objects
<1>4. \A x \in DOMAIN s.data : Datum(t.data[x]) /\ t.data[x].mat \in DOMAIN s.mats \cup {None}
  <2>1. \A x \in DOMAIN s.data : Datum(s.data[x]) /\ s.data[x].mat \in DOMAIN s.mats \cup {None}
    BY DEF Sound, Formed, Referred, Datum
  <2> HIDE DEF Datum
  <2> QED
    BY <1>2, <2>1
<1>5. Formed(t)
  BY <1>2, <1>3, <1>4 DEF Sound, Formed, Datum
<1>6. Alike(s, t)
  BY <1>3, <1>4, <1>5, RefersTo DEF Alike
<1> QED
  BY <1>2, <1>3, <1>6, AlikeStanding DEF t

LEMMA DatumOf ==
  ASSUME NEW s, Sound(s), NEW o \in Objects(s), Kind(s, o) # "EMPTY"
  PROVE  LET d == s.data[s.obj[o].data] IN Datum(d) /\ d.mat \in DOMAIN s.mats \cup {None}
<1>1. s.obj[o].data \in DOMAIN s.data
  BY UsedData
<1> QED
  BY <1>1 DEF Sound, Formed, Referred, Datum

\* What a tool does to the data of an object: it stands, and only what may be seen is seen.
LEMMA DatumLeaves ==
  ASSUME NEW s, Sound(s), NEW o \in Objects(s), Kind(s, o) # "EMPTY",
         NEW v, Datum(v), v.mat \in DOMAIN s.mats \cup {None}
  PROVE  LET t == Replaced(s, s.obj[o].data, v)
         IN  /\ Standing(s, t) /\ t.obj = s.obj /\ t.mats = s.mats
             /\ t.data[s.obj[o].data] = v
             /\ \A x \in DOMAIN s.data \ {s.obj[o].data} : t.data[x] = s.data[x]
             /\ Alone(s, o) => SameObjects(s, t)
             /\ \A fields : Alone(s, o) \/ (\A f \in Fields : v[f] = s.data[s.obj[o].data][f]
                                                             \/ <<s.obj[o].data, f>> \in fields) =>
                  Leaves(s, t, fields)
             /\ \A x : Alone(s, x) => Alone(t, x)
<1> DEFINE d == s.obj[o].data
           t == Replaced(s, d, v)
<1>1. d \in DOMAIN s.data
  BY UsedData
<1> HIDE DEF d
<1>2. /\ Standing(s, t) /\ t.obj = s.obj /\ t.mats = s.mats
      /\ \A x \in DOMAIN s.data : t.data[x] = IF x = d THEN v ELSE s.data[x]
  BY DatumSet
<1> HIDE DEF t
<1>3. t.data[d] = v /\ \A x \in DOMAIN s.data \ {d} : t.data[x] = s.data[x]
  BY <1>1, <1>2
<1>4. \A fields : Alone(s, o) \/ (\A f \in Fields : v[f] = s.data[d][f] \/ <<d, f>> \in fields) => Leaves(s, t, fields)
  <2> TAKE fields
  <2> HAVE Alone(s, o) \/ \A f \in Fields : v[f] = s.data[d][f] \/ <<d, f>> \in fields
  <2>1. /\ Alone(s, o) \/ \A f \in Fields : t.data[d][f] = s.data[d][f] \/ <<d, f>> \in fields
        /\ \A x \in DOMAIN s.data \ {d} : t.data[x] = s.data[x]
    BY <1>3
  <2> QED
    BY <1>2, <2>1, OneLeaves DEF d
<1>5. \A x : Alone(s, x) => Alone(t, x)
  <2>1. Meshes(t) = Meshes(s)
    BY <1>2 DEF Standing, Meshes
  <2> QED
    BY <1>2, <2>1 DEF Alone
<1>6. Alone(s, o) => SameObjects(s, t)
  BY <1>2, <1>4, <1>5 DEF SameObjects, Apart
<1> QED
  BY <1>2, <1>3, <1>4, <1>5, <1>6 DEF d, t

LEMMA EditedLeaves ==
  ASSUME NEW s, Sound(s), NEW o \in Objects(s), Kind(s, o) # "EMPTY", NEW field \in {"count", "form"}
  PROVE  LET t == Edited(s, o, field)
         IN  /\ Standing(s, t) /\ t.obj = s.obj /\ t.mats = s.mats
             /\ \A x \in DOMAIN s.data \ {s.obj[o].data} : t.data[x] = s.data[x]
             /\ Alone(s, o) => SameObjects(s, t)
             /\ \A fields : Alone(s, o) \/ <<s.obj[o].data, field>> \in fields => Leaves(s, t, fields)
             /\ \A x : Alone(s, x) => Alone(t, x)
<1> DEFINE d == s.data[s.obj[o].data]
           v == [d EXCEPT ![field] = @ + 1]
<1>1. Edited(s, o, field) = Replaced(s, s.obj[o].data, v)
  BY DEF Edited, Replaced
<1>2. Datum(d) /\ d.mat \in DOMAIN s.mats \cup {None}
  BY DatumOf
<1>3. Datum(v) /\ v.mat = d.mat /\ \A f \in Fields \ {field} : v[f] = d[f]
  <2> DEFINE n == d[field] + 1
  <2>1. v = [d EXCEPT ![field] = n]
    OBVIOUS
  <2> HIDE DEF d, n, v
  <2>2. Datum(v) /\ v.mat = d.mat
    BY <1>2, <2>1 DEF Datum
  <2>3. DOMAIN d = Fields
    BY <1>2 DEF Datum, Fields
  <2>4. \A f \in Fields \ {field} : v[f] = d[f]
    BY <2>1, <2>3
  <2> QED
    BY <2>2, <2>4
<1> DEFINE t == Edited(s, o, field)
<1>4. v.mat \in DOMAIN s.mats \cup {None} /\ t = Replaced(s, s.obj[o].data, v)
  BY <1>1, <1>2, <1>3
<1> HIDE DEF v, d, t
<1>5. /\ Standing(s, t) /\ t.obj = s.obj /\ t.mats = s.mats
      /\ \A x \in DOMAIN s.data \ {s.obj[o].data} : t.data[x] = s.data[x]
      /\ Alone(s, o) => SameObjects(s, t)
      /\ \A fields : Alone(s, o) \/ (\A f \in Fields : v[f] = s.data[s.obj[o].data][f]
                                                      \/ <<s.obj[o].data, f>> \in fields) =>
           Leaves(s, t, fields)
      /\ \A x : Alone(s, x) => Alone(t, x)
  BY <1>3, <1>4, DatumLeaves
<1> QED
  BY <1>3, <1>5 DEF d, t

LEMMA EditedSame ==
  ASSUME NEW s, Sound(s), NEW o \in Objects(s), Kind(s, o) # "EMPTY", Alone(s, o), NEW field \in {"count", "form"}
  PROVE  LET t == Edited(s, o, field)
         IN  /\ SameObjects(s, t) /\ t.obj = s.obj /\ t.mats = s.mats
             /\ \A x \in DOMAIN s.data \ {s.obj[o].data} : t.data[x] = s.data[x]
BY EditedLeaves

\* Lights and cameras are no meshes: whoever uses their data.
LEMMA NoMeshAlone == ASSUME NEW s, NEW o, Kind(s, o) # "MESH" PROVE Alone(s, o)
BY DEF Alone, Meshes

LEMMA FlatLeaves ==
  ASSUME NEW s, Sound(s), NEW o \in Objects(s), Kind(s, o) # "EMPTY"
  PROVE  LET t == Flat(s, o)
         IN  /\ Standing(s, t) /\ t.obj = s.obj /\ t.mats = s.mats
             /\ \A fields : Alone(s, o) \/ <<s.obj[o].data, "count">> \in fields => Leaves(s, t, fields)
             /\ \A x : Alone(s, x) => Alone(t, x)
<1> DEFINE d == s.data[s.obj[o].data]
           v == [d EXCEPT !.count = 0]
<1>1. Flat(s, o) = Replaced(s, s.obj[o].data, v)
  BY DEF Flat, Replaced
<1>2. Datum(d) /\ d.mat \in DOMAIN s.mats \cup {None}
  BY DatumOf
<1>3. Datum(v) /\ v.mat = d.mat /\ \A f \in Fields \ {"count"} : v[f] = d[f]
  <2> HIDE DEF d
  <2> QED
    BY <1>2 DEF Datum, Fields
<1> DEFINE t == Flat(s, o)
<1>4. v.mat \in DOMAIN s.mats \cup {None} /\ t = Replaced(s, s.obj[o].data, v)
  BY <1>1, <1>2, <1>3
<1> HIDE DEF v, d, t
<1>5. /\ Standing(s, t) /\ t.obj = s.obj /\ t.mats = s.mats
      /\ \A x \in DOMAIN s.data \ {s.obj[o].data} : t.data[x] = s.data[x]
      /\ Alone(s, o) => SameObjects(s, t)
      /\ \A fields : Alone(s, o) \/ (\A f \in Fields : v[f] = s.data[s.obj[o].data][f]
                                                      \/ <<s.obj[o].data, f>> \in fields) =>
           Leaves(s, t, fields)
      /\ \A x : Alone(s, x) => Alone(t, x)
  BY <1>3, <1>4, DatumLeaves
<1> QED
  BY <1>3, <1>5 DEF d, t

LEMMA SlottedLeaves ==
  ASSUME NEW s, Sound(s), NEW o \in Objects(s), Kind(s, o) # "EMPTY", NEW m \in DOMAIN s.mats
  PROVE  LET t == Slotted(s, o, m)
         IN  /\ Standing(s, t) /\ t.obj = s.obj /\ t.mats = s.mats
             /\ \A x \in DOMAIN s.data \ {s.obj[o].data} : t.data[x] = s.data[x]
             /\ Alone(s, o) => SameObjects(s, t)
             /\ \A fields : Alone(s, o) \/ <<s.obj[o].data, "mat">> \in fields => Leaves(s, t, fields)
             /\ \A x : Alone(s, x) => Alone(t, x)
<1> DEFINE d == s.data[s.obj[o].data]
           v == [d EXCEPT !.mat = m]
<1>1. Slotted(s, o, m) = Replaced(s, s.obj[o].data, v)
  BY DEF Slotted, Replaced
<1>2. Datum(d) /\ d.mat \in DOMAIN s.mats \cup {None}
  BY DatumOf
<1>3. Datum(v) /\ v.mat = m /\ \A f \in Fields \ {"mat"} : v[f] = d[f]
  <2> HIDE DEF d
  <2> QED
    BY <1>2 DEF Datum, Fields
<1> DEFINE t == Slotted(s, o, m)
<1>4. v.mat \in DOMAIN s.mats \cup {None} /\ t = Replaced(s, s.obj[o].data, v)
  BY <1>1, <1>2, <1>3
<1> HIDE DEF v, d, t
<1>5. /\ Standing(s, t) /\ t.obj = s.obj /\ t.mats = s.mats
      /\ \A x \in DOMAIN s.data \ {s.obj[o].data} : t.data[x] = s.data[x]
      /\ Alone(s, o) => SameObjects(s, t)
      /\ \A fields : Alone(s, o) \/ (\A f \in Fields : v[f] = s.data[s.obj[o].data][f]
                                                      \/ <<s.obj[o].data, f>> \in fields) =>
           Leaves(s, t, fields)
      /\ \A x : Alone(s, x) => Alone(t, x)
  BY <1>3, <1>4, DatumLeaves
<1> QED
  BY <1>3, <1>5 DEF d, t

LEMMA SlottedSame ==
  ASSUME NEW s, Sound(s), NEW o \in Objects(s), Kind(s, o) # "EMPTY", Alone(s, o), NEW m \in DOMAIN s.mats
  PROVE  LET t == Slotted(s, o, m)
         IN  /\ SameObjects(s, t) /\ t.obj = s.obj /\ t.mats = s.mats
             /\ \A x \in DOMAIN s.data \ {s.obj[o].data} : t.data[x] = s.data[x]
BY SlottedLeaves

\* Materials.
LEMMA MatsSet ==
  ASSUME NEW s, Sound(s), NEW v, v = [m \in DOMAIN v |-> v[m]], DOMAIN s.mats \subseteq DOMAIN v
  PROVE  LET t == [s EXCEPT !.mats = v]
         IN  SameObjects(s, t) /\ t.obj = s.obj /\ t.data = s.data /\ t.mats = v
<1> DEFINE t == [s EXCEPT !.mats = v]
<1>1. t = [obj |-> s.obj, data |-> s.data, mats |-> v, camera |-> s.camera, set |-> s.set]
  BY SceneFields
<1> HIDE DEF t
<1>2. Alike(s, t)
  BY <1>1, RefersTo DEF Alike, Sound, Formed, Objects
<1> QED
  BY <1>1, <1>2, AlikeSame DEF t

LEMMA WithMaterialSame ==
  ASSUME NEW s, Sound(s), NEW m
  PROVE  LET t == WithMaterial(s, m)
         IN  SameObjects(s, t) /\ t.obj = s.obj /\ t.data = s.data /\ m \in DOMAIN t.mats
<1> DEFINE v == IF m \in DOMAIN s.mats THEN s.mats ELSE Put(s.mats, m, 0)
<1>1. WithMaterial(s, m) = [s EXCEPT !.mats = v]
  BY DEF WithMaterial
<1>2. v = [x \in DOMAIN v |-> v[x]] /\ DOMAIN s.mats \subseteq DOMAIN v /\ m \in DOMAIN v
  BY DEF Put, Sound, Formed
<1> HIDE DEF v
<1> QED
  BY <1>1, <1>2, MatsSet

LEMMA PaintedSame ==
  ASSUME NEW s, Sound(s), NEW m
  PROVE  LET t == Painted(s, m)
         IN  SameObjects(s, t) /\ DOMAIN t.mats = DOMAIN s.mats /\ t.obj = s.obj /\ t.data = s.data
<1> DEFINE v == [s.mats EXCEPT ![m] = @ + 1]
<1>1. Painted(s, m) = [s EXCEPT !.mats = v]
  BY DEF Painted
<1>2. v = [x \in DOMAIN v |-> v[x]] /\ DOMAIN v = DOMAIN s.mats
  BY DEF Sound, Formed
<1> HIDE DEF v
<1> QED
  BY <1>1, <1>2, MatsSet

LEMMA DataSet ==
  ASSUME NEW s, Sound(s), NEW v, v = [d \in DOMAIN s.data |-> v[d]],
         \A d \in DOMAIN s.data : Datum(v[d]) /\ v[d].mat = s.data[d].mat
  PROVE  LET t == [s EXCEPT !.data = v] IN Standing(s, t) /\ t.obj = s.obj /\ t.data = v
<1> DEFINE t == [s EXCEPT !.data = v]
<1>1. t = [obj |-> s.obj, data |-> v, mats |-> s.mats, camera |-> s.camera, set |-> s.set]
  BY SceneFields
<1> HIDE DEF t
<1>2. Alike(s, t)
  BY <1>1, RefersTo DEF Alike, Sound, Formed, Objects, Datum
<1> QED
  BY <1>1, <1>2, AlikeStanding DEF t

-----------------------------------------------------------------------------
(* New objects and new data *)

\* t has one object more than s, and with data of its own.
Joined(s, t, name, kind) ==
  /\ Sound(t) /\ Objects(t) = Objects(s) \cup {name}
  /\ Kind(t, name) = kind
  /\ \A o : o # name => Kind(t, o) = Kind(s, o)

Gains(s, t, name, kind) == Joined(s, t, name, kind) /\ Apart(s, t) /\ Alone(t, name)

LEMMA JoinedApart ==
  ASSUME NEW s, Sound(s), NEW t, NEW name, NEW kind, Joined(s, t, name, kind), t.obj[name].data \notin DOMAIN s.data,
         \A x \in Objects(s) : x # name => t.obj[x].data = s.obj[x].data,
         \A d \in DOMAIN t.data \ {t.obj[name].data} : t.data[d] = s.data[d]
  PROVE  Gains(s, t, name, kind)
<1>1. /\ Sound(t) /\ name \in Objects(t)
      /\ \A x \in Objects(t) \ {name} : x \in Objects(s) /\ t.obj[x].data = s.obj[x].data /\ Kind(t, x) = Kind(s, x)
  BY DEF Joined
<1> QED
  BY <1>1, FreshApart DEF Gains

LEMMA ObjectAdded ==
  ASSUME NEW s, Sound(s), NEW name, name \notin Objects(s), name # None,
         NEW i, Item(i), i.kind \in Kinds, i.parent \in Objects(s) \cup {None},
         IF i.kind = "EMPTY" THEN i.data = NoData ELSE i.data \in DOMAIN s.data,
         \A x \in Objects(s) : s.obj[x].data = i.data => s.obj[x].kind = i.kind
  PROVE  LET t == [s EXCEPT !.obj = Put(@, name, i)]
         IN  /\ Joined(s, t, name, i.kind)
             /\ t.obj[name] = i /\ \A x \in Objects(s) : t.obj[x] = s.obj[x]
             /\ t.data = s.data /\ t.mats = s.mats
<1> DEFINE t == [s EXCEPT !.obj = Put(@, name, i)]
<1>1. t = [obj |-> Put(s.obj, name, i), data |-> s.data, mats |-> s.mats, camera |-> s.camera, set |-> s.set]
  BY SceneFields
<1> HIDE DEF t
<1>2. t.obj = [x \in Objects(s) \cup {name} |-> IF x = name THEN i ELSE s.obj[x]]
  BY <1>1 DEF Put, Objects
<1>3. Objects(t) = Objects(s) \cup {name} /\ t.obj[name] = i /\ \A x \in Objects(s) : t.obj[x] = s.obj[x]
  BY <1>2 DEF Objects
<1>4. Formed(t)
  <2>1. IsFiniteSet(Objects(t))
    BY <1>3, FS_AddElement DEF Sound, Formed
  <2> QED
    BY <1>1, <1>2, <1>3, <2>1 DEF Sound, Formed, Item
<1>5. Referred(t)
  BY <1>1, <1>3 DEF Sound, Referred
<1>6. Ranked(t, Nat)
  <2>1. PICK r \in [Objects(s) -> Nat] : \A o \in Objects(s) : s.obj[o].parent # None => r[s.obj[o].parent] < r[o]
    BY DEF Sound, Ranked
  <2> DEFINE q == [x \in Objects(t) |-> IF x = name THEN IF i.parent = None THEN 0 ELSE r[i.parent] + 1 ELSE r[x]]
  <2>2. q \in [Objects(t) -> Nat]
    BY <1>3
  <2>3. ASSUME NEW o \in Objects(t), t.obj[o].parent # None PROVE q[t.obj[o].parent] < q[o]
    <3>1. CASE o = name
      BY <1>3, <2>3, <3>1
    <3>2. CASE o # name
      <4>1. s.obj[o].parent \in Objects(s)
        BY <1>3, <2>3, <3>2 DEF Sound, Referred
      <4> QED
        BY <1>3, <2>1, <2>3, <3>2, <4>1
    <3> QED
      BY <3>1, <3>2
  <2> HIDE DEF q
  <2> QED
    BY <2>2, <2>3 DEF Ranked
<1>7. Kind(t, name) = i.kind /\ \A o : o # name => Kind(t, o) = Kind(s, o)
  BY <1>3 DEF Kind
<1> QED
  BY <1>1, <1>3, <1>4, <1>5, <1>6, <1>7 DEF Joined, Sound, t

LEMMA DataAdded ==
  ASSUME NEW s, Sound(s), NEW d \in Nat, d # NoData, d \notin DOMAIN s.data,
         NEW v, Datum(v), v.mat \in DOMAIN s.mats \cup {None}
  PROVE  LET t == [s EXCEPT !.data = Put(@, d, v)]
         IN  /\ SameObjects(s, t) /\ t.obj = s.obj /\ t.mats = s.mats
             /\ DOMAIN t.data = DOMAIN s.data \cup {d} /\ t.data[d] = v
             /\ \A x \in DOMAIN s.data : t.data[x] = s.data[x]
<1> DEFINE t == [s EXCEPT !.data = Put(@, d, v)]
<1>1. t = [obj |-> s.obj, data |-> Put(s.data, d, v), mats |-> s.mats, camera |-> s.camera, set |-> s.set]
  BY SceneFields
<1> HIDE DEF t
<1>2. t.data = [x \in DOMAIN s.data \cup {d} |-> IF x = d THEN v ELSE s.data[x]]
  BY <1>1 DEF Put
<1>3. DOMAIN t.data = DOMAIN s.data \cup {d} /\ t.data[d] = v /\ \A x \in DOMAIN s.data : t.data[x] = s.data[x]
  BY <1>2
<1>4. Formed(t)
  <2>1. IsFiniteSet(DOMAIN t.data)
    BY <1>3, FS_AddElement DEF Sound, Formed
  <2> QED
    BY <1>1, <1>2, <1>3, <2>1 DEF Sound, Formed, Objects, Datum
<1>5. Referred(t) /\ Ranked(t, Nat)
  BY <1>1, <1>3 DEF Sound, Referred, Ranked, Objects
<1>6. Standing(s, t)
  BY <1>1, <1>4, <1>5 DEF Standing, Sound, Objects, Kind
<1>7. SameObjects(s, t)
  BY <1>1, <1>3, <1>6, UntouchedApart
<1> QED
  BY <1>1, <1>3, <1>7 DEF t

LEMMA BlankDatum == Datum(Blank) /\ Blank.mat = None
BY DEF Datum, Blank

LEMMA LinkedGains ==
  ASSUME NEW s, Sound(s), NEW name, name \notin Objects(s), name # None, NEW kind \in Kinds
  PROVE  LET t == Linked(s, name, kind)
         IN  /\ Gains(s, t, name, kind) /\ DOMAIN s.data \subseteq DOMAIN t.data /\ t.mats = s.mats
             /\ \A x \in Objects(s) : t.obj[x] = s.obj[x]
             /\ \A x \in DOMAIN s.data : t.data[x] = s.data[x]
             /\ DOMAIN t.data \subseteq DOMAIN s.data \cup {t.obj[name].data}
             /\ t.obj[name].data \notin DOMAIN s.data /\ t.obj[name].parent = None
<1>1. CASE kind = "EMPTY"
  <2> DEFINE i == Object(kind, NoData)
  <2>1. Item(i) /\ i.kind = kind /\ i.parent = None /\ i.data = NoData
    BY DEF Object, Item
  <2>2. NoData \notin DOMAIN s.data /\ \A x \in Objects(s) : s.obj[x].data = NoData => s.obj[x].kind = kind
    BY <1>1 DEF Sound, Formed, Referred
  <2> HIDE DEF i
  <2>3. LET t == [s EXCEPT !.obj = Put(@, name, i)]
        IN  /\ Joined(s, t, name, i.kind)
            /\ t.obj[name] = i /\ \A x \in Objects(s) : t.obj[x] = s.obj[x]
            /\ t.data = s.data /\ t.mats = s.mats
    BY <1>1, <2>1, <2>2, ObjectAdded
  <2>4. Linked(s, name, kind) = [s EXCEPT !.obj = Put(@, name, i)]
    BY <1>1 DEF Linked, i
  <2> DEFINE t == Linked(s, name, kind)
  <2>5. /\ Joined(s, t, name, kind) /\ t.obj[name] = i /\ \A x \in Objects(s) : t.obj[x] = s.obj[x]
        /\ t.data = s.data /\ t.mats = s.mats
    BY <2>1, <2>3, <2>4
  <2> HIDE DEF t
  <2>6. Gains(s, t, name, kind)
    BY <2>1, <2>2, <2>5, JoinedApart
  <2> QED
    BY <2>1, <2>2, <2>5, <2>6 DEF t
<1>2. CASE kind # "EMPTY"
  <2> DEFINE d == NewData(s)
             i == Object(kind, d)
             u == [s EXCEPT !.data = Put(@, d, Blank)]
  <2>1. Item(i) /\ i.kind = kind /\ i.parent = None /\ i.data = d
    BY DEF Object, Item
  <2>2. d \in Nat /\ d # NoData /\ d \notin DOMAIN s.data
    BY FreeData
  <2>3. Linked(s, name, kind) = [u EXCEPT !.obj = Put(@, name, i)]
    <3>1. u = [obj |-> s.obj, data |-> Put(s.data, d, Blank), mats |-> s.mats, camera |-> s.camera, set |-> s.set]
      BY SceneFields
    <3>2. Linked(s, name, kind) = [s EXCEPT !.obj = Put(s.obj, name, i), !.data = Put(s.data, d, Blank)]
      BY <1>2 DEF Linked
    <3> HIDE DEF d, i, u
    <3>3. Linked(s, name, kind) = [obj |-> Put(s.obj, name, i), data |-> Put(s.data, d, Blank), mats |-> s.mats,
                                   camera |-> s.camera, set |-> s.set]
      BY <3>2, SceneFields
    <3> QED
      BY <3>1, <3>3
  <2> HIDE DEF d, i
  <2>4. /\ SameObjects(s, u) /\ u.obj = s.obj /\ u.mats = s.mats
        /\ DOMAIN u.data = DOMAIN s.data \cup {d} /\ u.data[d] = Blank
        /\ \A x \in DOMAIN s.data : u.data[x] = s.data[x]
    BY <2>2, BlankDatum, DataAdded
  <2> HIDE DEF u
  <2>5. LET t == [u EXCEPT !.obj = Put(@, name, i)]
        IN  /\ Joined(u, t, name, i.kind)
            /\ t.obj[name] = i /\ \A x \in Objects(u) : t.obj[x] = u.obj[x]
            /\ t.data = u.data /\ t.mats = u.mats
    <3>1. Sound(u) /\ Objects(u) = Objects(s) /\ i.data \in DOMAIN u.data
      BY <2>1, <2>4 DEF SameObjects, Standing
    <3>2. \A x \in Objects(u) : u.obj[x].data # d
      BY <2>2, <2>4, <3>1, UsedData DEF Kinds
    <3> QED
      BY <1>2, <2>1, <3>1, <3>2, ObjectAdded
  <2> DEFINE t == Linked(s, name, kind)
  <2>6. /\ Joined(s, t, name, kind) /\ t.obj[name].data = d /\ t.obj[name].parent = None /\ t.mats = s.mats
        /\ \A x \in Objects(s) : t.obj[x] = s.obj[x]
        /\ DOMAIN t.data = DOMAIN s.data \cup {d} /\ \A x \in DOMAIN s.data : t.data[x] = s.data[x]
    BY <2>1, <2>3, <2>4, <2>5 DEF Joined, SameObjects, Standing
  <2> HIDE DEF t
  <2>7. Gains(s, t, name, kind)
    BY <2>2, <2>6, JoinedApart
  <2> QED
    BY <2>2, <2>6, <2>7 DEF t
<1> QED
  BY <1>1, <1>2

\* Data that nobody uses can go.
LEMMA SweptSame ==
  ASSUME NEW s, Sound(s)
  PROVE  LET t == Swept(s)
         IN  /\ SameObjects(s, t) /\ t.obj = s.obj /\ t.mats = s.mats
             /\ DOMAIN t.data \subseteq DOMAIN s.data
             /\ \A x \in DOMAIN t.data : t.data[x] = s.data[x]
<1> DEFINE t == Swept(s)
           D == {s.obj[x].data : x \in Objects(s)} \ {NoData}
<1>1. t = [obj |-> s.obj, data |-> [d \in D |-> s.data[d]], mats |-> s.mats, camera |-> s.camera, set |-> s.set]
  BY SceneFields DEF Swept
<1>2. D \subseteq DOMAIN s.data /\ \A o \in Objects(s) : s.obj[o].data \in D \cup {NoData}
  BY DEF Sound, Referred
<1>3. IsFiniteSet(D)
  BY <1>2, FS_Subset DEF Sound, Formed
<1> HIDE DEF t, D
<1>4. Formed(t)
  BY <1>1, <1>2, <1>3 DEF Sound, Formed, Objects
<1>5. Referred(t) /\ Ranked(t, Nat)
  <2>1. \A o \in Objects(s) : s.obj[o].kind # "EMPTY" => s.obj[o].data \in D
    BY <1>2 DEF Sound, Referred, Formed
  <2> QED
    BY <1>1, <1>2, <2>1 DEF Sound, Referred, Ranked, Objects
<1>6. Standing(s, t)
  BY <1>1, <1>4, <1>5 DEF Standing, Sound, Objects, Kind
<1>7. SameObjects(s, t)
  BY <1>1, <1>6, UntouchedApart
<1> QED
  BY <1>1, <1>2, <1>7 DEF t

\* An object gets new data.
LEMMA WithDataSame ==
  ASSUME NEW s, Sound(s), NEW o \in Objects(s), Kind(s, o) # "EMPTY",
         NEW d, Datum(d), d.mat \in DOMAIN s.mats \cup {None}
  PROVE  LET t == WithData(s, o, d)
         IN  /\ SameObjects(s, t) /\ Alone(t, o) /\ t.mats = s.mats
             /\ t.obj[o].data \notin DOMAIN s.data
             /\ \A x \in Objects(s) \ {o} : t.obj[x] = s.obj[x]
             /\ \A x \in DOMAIN t.data \ {t.obj[o].data} : x \in DOMAIN s.data /\ t.data[x] = s.data[x]
<1> DEFINE n == NewData(s)
           u == [s EXCEPT !.data = Put(@, n, d)]
           v == [u EXCEPT !.obj[o].data = n]
<1>1. n \in Nat /\ n # NoData /\ n \notin DOMAIN s.data
  BY FreeData
<1>2. WithData(s, o, d) = Swept([s EXCEPT !.data = Put(s.data, n, d), !.obj[o].data = n])
  BY DEF WithData
<1> HIDE DEF n
<1>3. u = [obj |-> s.obj, data |-> Put(s.data, n, d), mats |-> s.mats, camera |-> s.camera, set |-> s.set]
  BY SceneFields
<1>4. [s EXCEPT !.data = Put(s.data, n, d), !.obj[o].data = n]
        = [obj |-> [s.obj EXCEPT ![o] = [s.obj[o] EXCEPT !.data = n]], data |-> Put(s.data, n, d), mats |-> s.mats,
           camera |-> s.camera, set |-> s.set]
  <2> DEFINE w == [s.obj EXCEPT ![o] = [s.obj[o] EXCEPT !.data = n]]
             e == Put(s.data, n, d)
  <2>1. [s EXCEPT !.data = e, !.obj[o].data = n] = [s EXCEPT !.data = e, !.obj = w]
    BY SceneFields
  <2> HIDE DEF w, e
  <2>2. [s EXCEPT !.data = e, !.obj = w]
          = [obj |-> w, data |-> e, mats |-> s.mats, camera |-> s.camera, set |-> s.set]
    BY DataField
  <2> QED
    BY <2>1, <2>2 DEF w, e
<1>5. /\ SameObjects(s, u) /\ u.obj = s.obj /\ u.mats = s.mats
      /\ DOMAIN u.data = DOMAIN s.data \cup {n} /\ u.data[n] = d
      /\ \A x \in DOMAIN s.data : u.data[x] = s.data[x]
  BY <1>1, DataAdded
<1> HIDE DEF u
<1>6. v = [obj |-> [s.obj EXCEPT ![o] = [s.obj[o] EXCEPT !.data = n]], data |-> u.data, mats |-> s.mats,
           camera |-> s.camera, set |-> s.set]
  BY <1>3
<1>7. WithData(s, o, d) = Swept(v)
  BY <1>2, <1>3, <1>4, <1>6
<1> HIDE DEF v
<1>8. v.obj = [x \in Objects(s) |-> IF x = o THEN [s.obj[o] EXCEPT !.data = n] ELSE s.obj[x]]
  BY <1>6 DEF Objects
<1>9. LET i == [s.obj[o] EXCEPT !.data = n]
      IN  Item(i) /\ i.data = n /\ i.kind = s.obj[o].kind /\ i.parent = s.obj[o].parent
  <2>1. Item(s.obj[o])
    BY DEF Sound, Formed, Item
  <2> QED
    BY <2>1 DEF Item
<1>10. /\ Objects(v) = Objects(s) /\ v.obj[o].data = n
       /\ \A x \in Objects(s) : Item(v.obj[x]) /\ v.obj[x].kind = s.obj[x].kind /\ v.obj[x].parent = s.obj[x].parent
       /\ \A x \in Objects(s) \ {o} : v.obj[x] = s.obj[x]
  <2>1. \A x \in Objects(s) : Item(s.obj[x])
    BY DEF Sound, Formed, Item
  <2> QED
    BY <1>8, <1>9, <2>1 DEF Objects
<1>11. v.data = u.data /\ v.mats = s.mats /\ v.camera = s.camera /\ v.set = s.set
       /\ v = [obj |-> v.obj, data |-> v.data, mats |-> v.mats, camera |-> v.camera, set |-> v.set]
  BY <1>6
<1>12. Formed(v)
  <2>1. v.obj = [x \in Objects(v) |-> v.obj[x]]
    BY <1>8 DEF Objects
  <2>2. Formed(s) /\ Formed(u)
    BY <1>5 DEF SameObjects, Standing, Sound
  <2>3. /\ v.data = [x \in DOMAIN v.data |-> v.data[x]] /\ IsFiniteSet(DOMAIN v.data)
        /\ DOMAIN v.data \subseteq Nat \ {NoData}
        /\ \A x \in DOMAIN v.data : v.data[x] = [count |-> v.data[x].count, form |-> v.data[x].form, mat |-> v.data[x].mat]
    BY <1>11, <2>2 DEF Formed
  <2> QED
    BY <1>10, <1>11, <2>1, <2>2, <2>3 DEF Formed, Item
<1>13. Referred(v)
  <2>1. s.obj[o].kind # "EMPTY"
    BY KindOfObject
  <2>2. \A x \in DOMAIN v.data : v.data[x].mat \in DOMAIN v.mats \cup {None}
    BY <1>5, <1>11 DEF SameObjects, Sound, Referred
  <2>3. Referred(s) /\ DOMAIN v.data = DOMAIN s.data \cup {n}
    BY <1>5, <1>11 DEF Sound
  <2>4. \A x \in Objects(s) : s.obj[x].data # n
    BY <1>1, <2>3 DEF Referred
  <2>5. \A x, y \in Objects(v) : v.obj[y].data = v.obj[x].data => v.obj[y].kind = v.obj[x].kind
    BY <1>10, <2>3, <2>4 DEF Referred
  <2> QED
    BY <1>10, <1>11, <2>1, <2>2, <2>3, <2>5 DEF Referred
<1>14. Ranked(v, Nat)
  BY <1>10 DEF Sound, Ranked, Referred
<1>15. \A x : Kind(v, x) = Kind(s, x)
  BY <1>10 DEF Kind
<1> DEFINE t == Swept(v)
<1>16. /\ SameObjects(v, t) /\ t.obj = v.obj /\ t.mats = v.mats
       /\ DOMAIN t.data \subseteq DOMAIN v.data
       /\ \A x \in DOMAIN t.data : t.data[x] = v.data[x]
  BY <1>12, <1>13, <1>14, SweptSame DEF Sound
<1> HIDE DEF t
<1>17. /\ Standing(s, t) /\ t.mats = s.mats /\ t.obj[o].data \notin DOMAIN s.data
       /\ \A x \in Objects(s) \ {o} : t.obj[x] = s.obj[x]
       /\ \A x \in DOMAIN t.data \ {t.obj[o].data} : x \in DOMAIN s.data /\ t.data[x] = s.data[x]
  BY <1>1, <1>5, <1>10, <1>11, <1>15, <1>16 DEF SameObjects, Standing
<1>18. Apart(s, t) /\ Alone(t, o)
  <2>1. /\ Sound(t) /\ o \in Objects(t)
        /\ \A x \in Objects(t) \ {o} : x \in Objects(s) /\ t.obj[x].data = s.obj[x].data /\ Kind(t, x) = Kind(s, x)
    BY <1>17 DEF Standing
  <2> QED
    BY <1>17, <2>1, FreshApart
<1> QED
  BY <1>7, <1>17, <1>18 DEF SameObjects, t

LEMMA DataOf ==
  ASSUME NEW s, Sound(s), NEW o \in Objects(s), Kind(s, o) # "EMPTY"
  PROVE  /\ s.obj[o].data \in DOMAIN s.data /\ s.obj[o].data # NoData
         /\ Data(s, o) = s.data[s.obj[o].data]
         /\ Datum(Data(s, o)) /\ Data(s, o).mat \in DOMAIN s.mats \cup {None}
<1>1. Kind(s, o) # None /\ s.obj[o].kind = Kind(s, o)
  BY KindOfObject
<1>2. s.obj[o].data \in DOMAIN s.data /\ s.obj[o].data # NoData
  BY <1>1 DEF Sound, Formed, Referred
<1>3. Data(s, o) = s.data[s.obj[o].data]
  BY <1>1 DEF Data
<1> QED
  BY <1>2, <1>3 DEF Sound, Formed, Referred, Datum

LEMMA NotShared == ASSUME NEW s, NEW o, ~Shared(s, o) PROVE Alone(s, o)
BY DEF Shared, Alone, Meshes

LEMMA OwnSame ==
  ASSUME NEW s, Sound(s), NEW o \in Objects(s), Kind(s, o) # "EMPTY"
  PROVE  /\ SameObjects(s, Own(s, o)) /\ Own(s, o).mats = s.mats /\ Alone(Own(s, o), o)
         /\ \A x \in Objects(s) \ {o} : Own(s, o).obj[x] = s.obj[x]
<1>1. CASE Shared(s, o)
  BY <1>1, DataOf, WithDataSame DEF Own
<1>2. CASE ~Shared(s, o)
  <2>1. Own(s, o) = s
    BY <1>2 DEF Own
  <2> QED
    BY <1>2, <2>1, NotShared, SameItself
<1> QED
  BY <1>1, <1>2

\* A copy with data of its own, and a linked one.
LEMMA CopiedGains ==
  ASSUME NEW s, Sound(s), NEW o \in Objects(s), NEW name, name \notin Objects(s), name # None
  PROVE  LET t == Copied(s, o, name)
         IN  /\ Gains(s, t, name, Kind(s, o))
             /\ \A x \in Objects(s) : t.obj[x] = s.obj[x]
             /\ t.obj[name].data \notin DOMAIN s.data
             /\ \A d \in DOMAIN t.data \ {t.obj[name].data} : d \in DOMAIN s.data /\ t.data[d] = s.data[d]
<1> DEFINE u == [s EXCEPT !.obj = Put(@, name, s.obj[o])]
           i == s.obj[o]
<1>1. /\ Item(i) /\ i.kind \in Kinds /\ i.parent \in Objects(s) \cup {None} /\ i.kind = Kind(s, o)
      /\ IF i.kind = "EMPTY" THEN i.data = NoData ELSE i.data \in DOMAIN s.data /\ i.data # NoData
      /\ \A x \in Objects(s) : s.obj[x].data = i.data => s.obj[x].kind = i.kind
  BY KindOfObject DEF Sound, Formed, Referred, Item
<1> HIDE DEF i
<1>2. LET t == [s EXCEPT !.obj = Put(@, name, i)]
      IN  /\ Joined(s, t, name, i.kind)
          /\ t.obj[name] = i /\ \A x \in Objects(s) : t.obj[x] = s.obj[x]
          /\ t.data = s.data /\ t.mats = s.mats
  BY <1>1, ObjectAdded
<1>3. /\ Joined(s, u, name, i.kind)
      /\ u.obj[name] = i /\ \A x \in Objects(s) : u.obj[x] = s.obj[x]
      /\ u.data = s.data /\ u.mats = s.mats
  BY <1>2 DEF i
<1>4. Copied(s, o, name) = IF i.data = NoData THEN u ELSE WithData(u, name, Data(s, o))
  BY DEF Copied, i
<1> HIDE DEF u
<1>5. CASE i.data = NoData
  <2>1. NoData \notin DOMAIN s.data
    BY DEF Sound, Formed
  <2>2. Joined(s, u, name, Kind(s, o))
    BY <1>1, <1>3
  <2>3. Gains(s, u, name, Kind(s, o))
    BY <1>3, <1>5, <2>1, <2>2, JoinedApart
  <2> QED
    BY <1>3, <1>4, <1>5, <2>1, <2>3
<1>6. CASE i.data # NoData
  <2>1. Kind(u, name) # "EMPTY" /\ Kind(s, o) # "EMPTY" /\ name \in Objects(u) /\ Sound(u)
    BY <1>1, <1>3, <1>6 DEF Joined
  <2>2. Datum(Data(s, o)) /\ Data(s, o).mat \in DOMAIN u.mats \cup {None}
    BY <1>3, <2>1, DataOf
  <2> DEFINE t == WithData(u, name, Data(s, o))
  <2>3. /\ SameObjects(u, t)
        /\ \A x \in Objects(u) \ {name} : t.obj[x] = u.obj[x]
        /\ t.obj[name].data \notin DOMAIN u.data
        /\ \A d \in DOMAIN t.data \ {t.obj[name].data} : d \in DOMAIN u.data /\ t.data[d] = u.data[d]
    BY <2>1, <2>2, WithDataSame
  <2> HIDE DEF t
  <2>4. Joined(s, t, name, Kind(s, o))
    BY <1>1, <1>3, <2>3 DEF Joined, SameObjects, Standing
  <2>5. /\ \A x \in Objects(s) : t.obj[x] = s.obj[x]
        /\ t.obj[name].data \notin DOMAIN s.data
        /\ \A d \in DOMAIN t.data \ {t.obj[name].data} : d \in DOMAIN s.data /\ t.data[d] = s.data[d]
    BY <1>3, <2>3 DEF Joined
  <2>6. Gains(s, t, name, Kind(s, o))
    BY <2>4, <2>5, JoinedApart
  <2> QED
    BY <1>4, <1>6, <2>5, <2>6 DEF t
<1> QED
  BY <1>5, <1>6

LEMMA InstancedJoins ==
  ASSUME NEW s, Sound(s), NEW o \in Objects(s), NEW name, name \notin Objects(s), name # None,
         NEW p \in Objects(s) \cup {None}
  PROVE  LET t == Instanced(s, o, name, p) IN Joined(s, t, name, Kind(s, o)) /\ t.data = s.data
<1> DEFINE i == [s.obj[o] EXCEPT !.parent = p]
           u == [s EXCEPT !.obj = Put(@, name, i)]
<1>1. Instanced(s, o, name, p) = Posed(u, name, Channels)
  BY DEF Instanced
<1>2. /\ Item(s.obj[o]) /\ s.obj[o].kind \in Kinds /\ s.obj[o].kind = Kind(s, o)
      /\ IF s.obj[o].kind = "EMPTY" THEN s.obj[o].data = NoData ELSE s.obj[o].data \in DOMAIN s.data
      /\ \A x \in Objects(s) : s.obj[x].data = s.obj[o].data => s.obj[x].kind = s.obj[o].kind
  BY KindOfObject DEF Sound, Formed, Referred, Item
<1>3. Item(i) /\ i.kind = s.obj[o].kind /\ i.data = s.obj[o].data /\ i.parent = p
  BY <1>2 DEF Item
<1> HIDE DEF i
<1>4. Joined(s, u, name, i.kind) /\ u.data = s.data
  BY <1>2, <1>3, ObjectAdded
<1> HIDE DEF u
<1> DEFINE t == Posed(u, name, Channels)
<1>5. SameObjects(u, t) /\ t.data = u.data
  BY <1>4, PosedSame DEF Joined
<1> HIDE DEF t
<1> QED
  BY <1>1, <1>2, <1>3, <1>4, <1>5 DEF Joined, SameObjects, Standing, t

\* Objects go, with the data that only they used.
Loses(s, t, gone) ==
  /\ Sound(t) /\ Objects(t) = Objects(s) \ gone
  /\ \A o : o \notin gone => Kind(t, o) = Kind(s, o)
  /\ Apart(s, t)

LEMMA RemovedLoses ==
  ASSUME NEW s, Sound(s), NEW gone
  PROVE  LET t == Removed(s, gone)
         IN  /\ Loses(s, t, gone)
             /\ \A x \in Objects(t) : t.obj[x].data = s.obj[x].data
             /\ \A x \in DOMAIN t.data : x \in DOMAIN s.data /\ t.data[x] = s.data[x]
<1> DEFINE f == [x \in Objects(s) \ gone |->
                   IF s.obj[x].parent \in gone THEN [s.obj[x] EXCEPT !.parent = None] ELSE s.obj[x]]
           c == IF s.camera \in gone THEN None ELSE s.camera
           u == [obj |-> f, data |-> s.data, mats |-> s.mats, camera |-> c, set |-> s.set]
<1>1. Removed(s, gone) = Swept(u)
  <2>1. [s EXCEPT !.obj = f, !.camera = c] = u
    <3> HIDE DEF f, c
    <3>1. [s EXCEPT !.obj = f, !.camera = c]
            = [obj |-> f, data |-> s.data, mats |-> s.mats, camera |-> c, set |-> s.set]
      BY CameraField
    <3> QED
      BY <3>1
  <2>2. Removed(s, gone) = Swept([s EXCEPT !.obj = f, !.camera = c])
    BY DEF Removed, Objects
  <2> QED
    BY <2>1, <2>2
<1>2. /\ Objects(u) = Objects(s) \ gone
      /\ u.data = s.data /\ u.mats = s.mats /\ u.camera = c /\ u.set = s.set
      /\ \A x \in Objects(u) : /\ u.obj[x].kind = s.obj[x].kind /\ u.obj[x].data = s.obj[x].data
                               /\ u.obj[x].parent = IF s.obj[x].parent \in gone THEN None ELSE s.obj[x].parent
  <2>1. \A x \in Objects(s) : LET i == [s.obj[x] EXCEPT !.parent = None]
                             IN  i.kind = s.obj[x].kind /\ i.data = s.obj[x].data /\ i.parent = None
    BY DEF Sound, Formed
  <2> QED
    BY <2>1 DEF Objects
<1>3. Formed(u)
  <2>1. IsFiniteSet(Objects(s) \ gone)
    BY FS_Subset DEF Sound, Formed
  <2>2. \A x \in Objects(u) : Item(u.obj[x])
    BY <1>2 DEF Sound, Formed, Item, Objects
  <2>3. u.obj = [x \in Objects(u) |-> u.obj[x]] /\ None \notin Objects(u)
    BY <1>2 DEF Sound, Formed
  <2>4. u = [obj |-> u.obj, data |-> u.data, mats |-> u.mats, camera |-> u.camera, set |-> u.set]
    OBVIOUS
  <2> HIDE DEF u
  <2> QED
    BY <1>2, <2>1, <2>2, <2>3, <2>4 DEF Formed, Sound, Item
<1> HIDE DEF u
<1>4. Referred(u)
  <2>1. \A o \in Objects(u) : u.obj[o].parent \in Objects(u) \cup {None}
    BY <1>2 DEF Sound, Referred
  <2>2. u.camera # None => u.camera \in Objects(u) /\ u.obj[u.camera].kind = "CAMERA"
    BY <1>2 DEF Sound, Referred
  <2> HIDE DEF c
  <2> QED
    BY <1>2, <2>1, <2>2 DEF Sound, Referred
<1>5. Ranked(u, Nat)
  <2>1. PICK r \in [Objects(s) -> Nat] : \A o \in Objects(s) : s.obj[o].parent # None => r[s.obj[o].parent] < r[o]
    BY DEF Sound, Ranked
  <2> DEFINE q == [x \in Objects(u) |-> r[x]]
  <2>2. q \in [Objects(u) -> Nat]
    BY <1>2
  <2>3. \A o \in Objects(u) : u.obj[o].parent # None => u.obj[o].parent \in Objects(u) /\ u.obj[o].parent = s.obj[o].parent
    BY <1>2, <1>4 DEF Referred
  <2>4. \A o \in Objects(u) : u.obj[o].parent # None => q[u.obj[o].parent] < q[o]
    BY <1>2, <2>1, <2>3
  <2> HIDE DEF q
  <2> QED
    BY <2>2, <2>4 DEF Ranked
<1>6. \A o : o \notin gone => Kind(u, o) = Kind(s, o)
  BY <1>2 DEF Kind
<1>7. Apart(s, u)
  <2>1. Meshes(u) \subseteq Meshes(s) /\ \A x \in Meshes(u) : u.obj[x].data = s.obj[x].data
    BY <1>2, <1>6 DEF Meshes
  <2> QED
    BY <1>2, <2>1 DEF Apart, Leaves, Several, Alone
<1> DEFINE t == Swept(u)
<1>8. /\ SameObjects(u, t) /\ t.obj = u.obj
      /\ DOMAIN t.data \subseteq DOMAIN u.data
      /\ \A x \in DOMAIN t.data : t.data[x] = u.data[x]
  BY <1>3, <1>4, <1>5, SweptSame DEF Sound
<1> HIDE DEF f, t
<1>9. Loses(s, t, gone)
  BY <1>2, <1>6, <1>7, <1>8, ApartTransitive DEF Loses, SameObjects, Standing
<1>10. Objects(t) = Objects(u)
  BY <1>8 DEF Objects
<1> QED
  BY <1>1, <1>2, <1>8, <1>9, <1>10 DEF t

\* An object of that kind in place of whatever had the name.
Fits(s, t, name, kind) ==
  /\ Sound(t) /\ Objects(t) = Objects(s) \cup {name} /\ Kind(t, name) = kind
  /\ \A o : o # name => Kind(t, o) = Kind(s, o)
  /\ Apart(s, t)
  /\ IF Kind(s, name) = kind THEN t = s ELSE Alone(t, name)

LEMMA FittedSound ==
  ASSUME NEW s, Sound(s), NEW name, name # None, NEW kind \in Kinds
  PROVE  Fits(s, Fitted(s, name, kind), name, kind)
<1>1. CASE Kind(s, name) = kind
  <2>1. name \in Objects(s)
    BY <1>1, KindOfObject DEF Kinds, None
  <2> QED
    BY <1>1, <2>1, ApartTransitive DEF Fitted, Fits
<1>2. CASE Kind(s, name) # kind
  <2>1. Loses(s, Removed(s, {name}), {name})
    BY RemovedLoses
  <2>2. Gains(Removed(s, {name}), Linked(Removed(s, {name}), name, kind), name, kind)
    BY <2>1, LinkedGains DEF Loses
  <2> QED
    BY <1>2, <2>1, <2>2, ApartTransitive DEF Fitted, Fits, Gains, Joined, Loses
<1> QED
  BY <1>1, <1>2

-----------------------------------------------------------------------------
(* What hangs under what *)

\* The walk up from o reaches the top before it has seen more objects than there are.
LEMMA WalkUp ==
  ASSUME NEW s, Sound(s), NEW o \in Objects(s) \cup {None}
  PROVE  \E up :
           /\ up \in [0..Cardinality(Objects(s)) -> Objects(s) \cup {None}]
           /\ up[0] = o /\ up[Cardinality(Objects(s))] = None
           /\ \A n \in 1..Cardinality(Objects(s)) : up[n] = Parent(s, up[n - 1])
           /\ Above(s, o) = {up[n] : n \in 0..Cardinality(Objects(s))} \ {None}
<1> DEFINE C == Cardinality(Objects(s))
           S == Objects(s) \cup {None}
           f == [i \in 1..C |-> [x \in S |-> Parent(s, x)]]
           F(g) == [n \in 0..C |-> IF n = 0 THEN o ELSE Parent(s, g[n - 1])]
           up == CHOOSE g : g = F(g)
<1>1. C \in Nat /\ IsFiniteSet(Objects(s)) /\ None \notin Objects(s)
  BY FS_CardinalityType DEF Sound, Formed
<1>2. \A x \in S : Parent(s, x) \in S
  BY KindOfObject DEF Sound, Referred
<1>3. /\ up = F(up) /\ up \in [0..C -> S]
      /\ up[0] = o /\ \A n \in 1..C : up[n] = Parent(s, up[n - 1])
  <2>1. f \in [1..C -> [S -> S]]
    BY <1>2
  <2>2. \A i \in 1..C, x \in S : f[i][x] = Parent(s, x)
    OBVIOUS
  <2> HIDE DEF f, S, C
  <2>3. PICK g : Folds(g, C, S, o, f)
    BY <1>1, <2>1, FoldExists DEF S
  <2>4. g \in [0..C -> S] /\ g[0] = o /\ \A i \in 1..C : g[i] = f[i][g[i - 1]]
    BY <2>3 DEF Folds
  <2>5. \A i \in 1..C : i - 1 \in 0..C /\ g[i - 1] \in S /\ g[i] = Parent(s, g[i - 1])
    BY <1>1, <2>2, <2>4
  <2>6. g = F(g)
    BY <1>1, <2>4, <2>5
  <2>7. up = F(up)
    BY <2>6
  <2> HIDE DEF up
  <2>8. up[0] = o /\ \A n \in 1..C : up[n] = Parent(s, up[n - 1])
    BY <1>1, <2>7
  <2>9. DOMAIN up = 0..C
    BY <2>7
  <2> HIDE DEF F
  <2> DEFINE T == {n \in 0..C : up[n] \in S}
  <2>10. 0..C \subseteq T
    <3>1. 0 \in T
      BY <1>1, <2>8 DEF S
    <3>2. \A i \in 1..C : i - 1 \in T => i \in T
      BY <1>1, <1>2, <2>8
    <3> HIDE DEF T
    <3> QED
      BY <1>1, <3>1, <3>2, CountUp
  <2>11. up = [n \in 0..C |-> up[n]]
    BY <2>7, <2>9 DEF F
  <2> QED
    BY <2>7, <2>8, <2>10, <2>11
<1>5. Above(s, o) = {up[n] : n \in 0..C} \ {None}
  <2>1. Above(s, o) = {up[n] : n \in DOMAIN up} \ {None}
    BY DEF Above
  <2> HIDE DEF up, C
  <2> QED
    BY <1>3, <2>1
<1> HIDE DEF up, F, f
<1>6. PICK r \in [Objects(s) -> Nat] : \A x \in Objects(s) : s.obj[x].parent # None => r[s.obj[x].parent] < r[x]
  BY DEF Sound, Ranked
<1>7. up[C] = None
  <2> SUFFICES ASSUME up[C] # None PROVE FALSE
    OBVIOUS
  <2>1. \A n \in 1..C : up[n] # None => up[n - 1] \in Objects(s) /\ up[n] \in Objects(s) /\ r[up[n]] < r[up[n - 1]]
    <3> TAKE n \in 1..C
    <3> HAVE up[n] # None
    <3>1. n \in 0..C /\ n - 1 \in 0..C
      BY <1>1
    <3>2. up[n - 1] \in S /\ up[n] \in S /\ up[n] = Parent(s, up[n - 1])
      BY <1>3, <3>1
    <3>3. up[n - 1] \in Objects(s)
      BY <3>2, KindOfObject, <1>1
    <3> QED
      BY <1>6, <3>2, <3>3, KindOfObject
  <2> DEFINE T == {k \in 0..C : up[C - k] \in Objects(s) /\ \A n \in C - k + 1 .. C : up[n] \in Objects(s) /\ r[up[n]] < r[up[C - k]]}
  <2> HIDE DEF C, S
  <2>2. 0 \in T
    BY <1>1, <1>3 DEF S
  <2>3. \A k \in 1..C : k - 1 \in T => k \in T
    <3> TAKE k \in 1..C
    <3> HAVE k - 1 \in T
    <3> DEFINE m == C - k
    <3>1. m \in 0..C /\ m + 1 \in 1..C /\ C - (k - 1) = m + 1 /\ m + 1 - 1 = m
      BY <1>1
    <3>2. up[m + 1] \in Objects(s) /\ \A n \in m + 2 .. C : up[n] \in Objects(s) /\ r[up[n]] < r[up[m + 1]]
      <4>1. up[C - (k - 1)] \in Objects(s) /\ \A n \in C - (k - 1) + 1 .. C : up[n] \in Objects(s) /\ r[up[n]] < r[up[C - (k - 1)]]
        OBVIOUS
      <4>2. C - (k - 1) + 1 = m + 2
        BY <1>1
      <4> QED
        BY <3>1, <4>1, <4>2
    <3>3. up[m] \in Objects(s) /\ r[up[m + 1]] < r[up[m]]
      BY <1>1, <2>1, <3>1, <3>2
    <3> HIDE DEF m
    <3>4. ASSUME NEW n \in m + 1 .. C PROVE up[n] \in Objects(s) /\ r[up[n]] < r[up[m]]
      <4>1. CASE n = m + 1
        BY <3>2, <3>3, <4>1
      <4>2. CASE n # m + 1
        <5>1. n \in m + 2 .. C
          BY <1>1, <3>1, <4>2
        <5>2. up[n] \in Objects(s) /\ r[up[n]] < r[up[m + 1]]
          BY <3>2, <5>1
        <5>3. r[up[n]] \in Nat /\ r[up[m + 1]] \in Nat /\ r[up[m]] \in Nat
          BY <1>6, <3>2, <3>3, <5>2
        <5> QED
          BY <3>3, <5>2, <5>3
      <4> QED
        BY <4>1, <4>2
    <3> QED
      BY <3>1, <3>3, <3>4 DEF m
  <2> HIDE DEF T
  <2>4. 0..C \subseteq T
    BY <1>1, <2>2, <2>3, CountUp
  <2>5. \A i, j \in 0..C : i < j => up[i] \in Objects(s) /\ up[j] \in Objects(s) /\ r[up[j]] < r[up[i]]
    <3> TAKE i, j \in 0..C
    <3> HAVE i < j
    <3>1. C - i \in T /\ C - (C - i) = i
      BY <1>1, <2>4
    <3>2. j \in C - (C - i) + 1 .. C
      BY <1>1
    <3> QED
      BY <3>1, <3>2 DEF T
  <2>6. \A i \in 0..C : up[i] \in Objects(s)
    BY <1>3, <2>5, <1>1 DEF S
  <2> DEFINE h == [i \in 0..C |-> up[i]]
  <2>7. h \in [0..C -> Objects(s)]
    BY <2>6
  <2>8. IsFiniteSet(0..C) /\ Cardinality(0..C) = C + 1
    BY <1>1, FS_Interval
  <2>9. PICK i, j \in 0..C : i # j /\ h[i] = h[j]
    <3>1. Cardinality(Objects(s)) < Cardinality(0..C)
      <4>1. C = Cardinality(Objects(s))
        BY DEF C
      <4> HIDE DEF C
      <4> QED
        BY <1>1, <2>8, <4>1
    <3>2. IsFiniteSet(Objects(s)) /\ IsFiniteSet(0..C)
      BY <1>1, <2>8
    <3> DEFINE Z == 0..C
    <3>3. IsFiniteSet(Z) /\ IsFiniteSet(Objects(s)) /\ Cardinality(Objects(s)) < Cardinality(Z) /\ h \in [Z -> Objects(s)]
      BY <2>7, <3>1, <3>2
    <3> HIDE DEF h, Z
    <3>4. \E i, j \in Z : i # j /\ h[i] = h[j]
      BY <3>3, FS_PigeonHole
    <3> QED
      BY <3>4 DEF Z
  <2>10. \A k \in 0..C : r[up[k]] \in Nat
    BY <1>6, <2>6
  <2> QED
    BY <1>1, <2>5, <2>9, <2>10
<1> DEFINE W(g) == /\ g \in [0..C -> S]
                   /\ g[0] = o /\ g[C] = None
                   /\ \A n \in 1..C : g[n] = Parent(s, g[n - 1])
                   /\ Above(s, o) = {g[n] : n \in 0..C} \ {None}
<1>8. W(up)
  <2> HIDE DEF C, S
  <2> QED
    BY <1>3, <1>5, <1>7
<1>9. \E g : W(g)
  <2> HIDE DEF W
  <2> QED
    BY <1>8
<1> QED
  BY <1>9

\* What is above an object is that object and what is above its parent.
LEMMA AboveStep ==
  ASSUME NEW s, Sound(s)
  PROVE  /\ Above(s, None) = {}
         /\ \A o \in Objects(s) : Above(s, o) = {o} \cup Above(s, Parent(s, o))
<1> DEFINE C == Cardinality(Objects(s))
<1>1. C \in Nat /\ None \notin Objects(s)
  BY FS_CardinalityType DEF Sound, Formed
<1>2. Parent(s, None) = None
  BY <1>1 DEF Parent
<1>3. Above(s, None) = {}
  <2>1. PICK up : /\ up \in [0..C -> Objects(s) \cup {None}]
                  /\ up[0] = None
                  /\ \A n \in 1..C : up[n] = Parent(s, up[n - 1])
                  /\ Above(s, None) = {up[n] : n \in 0..C} \ {None}
    BY WalkUp
  <2> DEFINE T == {n \in 0..C : up[n] = None}
  <2> HIDE DEF C
  <2>2. 0 \in T /\ \A i \in 1..C : i - 1 \in T => i \in T
    BY <1>1, <1>2, <2>1
  <2>3. 0..C \subseteq T
    <3> HIDE DEF T
    <3> QED
      BY <1>1, <2>2, CountUp
  <2> QED
    BY <2>1, <2>3
<1>4. ASSUME NEW o \in Objects(s) PROVE Above(s, o) = {o} \cup Above(s, Parent(s, o))
  <2> DEFINE p == Parent(s, o)
  <2>1. p \in Objects(s) \cup {None}
    BY KindOfObject DEF Sound, Referred
  <2>2. PICK up : /\ up \in [0..C -> Objects(s) \cup {None}]
                  /\ up[0] = o /\ up[C] = None
                  /\ \A n \in 1..C : up[n] = Parent(s, up[n - 1])
                  /\ Above(s, o) = {up[n] : n \in 0..C} \ {None}
    BY WalkUp
  <2>3. PICK vp : /\ vp \in [0..C -> Objects(s) \cup {None}]
                  /\ vp[0] = p /\ vp[C] = None
                  /\ \A n \in 1..C : vp[n] = Parent(s, vp[n - 1])
                  /\ Above(s, p) = {vp[n] : n \in 0..C} \ {None}
    BY <2>1, WalkUp
  <2> HIDE DEF C
  <2>4. C >= 1
    BY <1>1, <2>2
  <2> DEFINE T == {n \in 0..C - 1 : up[n + 1] = vp[n]}
  <2>5. 0 \in T
    <3>1. up[1] = Parent(s, up[1 - 1]) /\ 1 - 1 = 0
      BY <1>1, <2>2, <2>4
    <3> QED
      BY <1>1, <2>2, <2>3, <2>4, <3>1
  <2>6. \A i \in 1..C - 1 : i - 1 \in T => i \in T
    <3> TAKE i \in 1..C - 1
    <3> HAVE i - 1 \in T
    <3>1. up[i] = vp[i - 1]
      BY <1>1
    <3>2. up[i + 1] = Parent(s, up[i]) /\ vp[i] = Parent(s, vp[i - 1])
      <4>1. i + 1 \in 1..C /\ i \in 1..C /\ i + 1 - 1 = i
        BY <1>1, <2>4
      <4> QED
        BY <2>2, <2>3, <4>1
    <3> QED
      BY <1>1, <3>1, <3>2
  <2>7. 0..C - 1 \subseteq T
    <3> HIDE DEF T
    <3>1. C - 1 \in Nat
      BY <1>1, <2>4
    <3> QED
      BY <2>5, <2>6, <3>1, CountUp
  <2>8. \A n \in 0..C - 1 : up[n + 1] = vp[n]
    BY <2>7
  <2>9. Above(s, o) \subseteq {o} \cup Above(s, p)
    <3> SUFFICES ASSUME NEW n \in 0..C, up[n] # None PROVE up[n] \in {o} \cup Above(s, p)
      BY <2>2
    <3>1. CASE n = 0
      BY <2>2, <3>1
    <3>2. CASE n # 0
      <4>1. n - 1 \in 0..C - 1 /\ n - 1 \in 0..C /\ n - 1 + 1 = n
        BY <1>1, <3>2
      <4> QED
        BY <2>3, <2>8, <4>1
    <3> QED
      BY <3>1, <3>2
  <2>10. Above(s, p) \subseteq Above(s, o)
    <3> SUFFICES ASSUME NEW n \in 0..C, vp[n] # None PROVE vp[n] \in Above(s, o)
      BY <2>3
    <3>1. n \in 0..C - 1 /\ n + 1 \in 0..C
      BY <1>1, <2>3
    <3> QED
      BY <2>2, <2>8, <3>1
  <2>11. o \in Above(s, o)
    BY <1>1, <2>2
  <2> QED
    BY <2>9, <2>10, <2>11
<1> QED
  BY <1>3, <1>4

\* No object hangs under itself.
LEMMA NoLoop ==
  ASSUME NEW s, Sound(s), NEW o \in Objects(s), Parent(s, o) # None
  PROVE  o \notin Above(s, Parent(s, o))
<1>1. PICK r \in [Objects(s) -> Nat] : \A x \in Objects(s) : s.obj[x].parent # None => r[s.obj[x].parent] < r[x]
  BY DEF Sound, Ranked
<1>2. \A x \in Objects(s) : /\ Parent(s, x) \in Objects(s) \cup {None}
                            /\ Parent(s, x) # None => r[Parent(s, x)] < r[x]
  BY <1>1, KindOfObject DEF Sound, Referred
<1> DEFINE Odd(x) == \E y \in Above(s, x) : y \notin Objects(s) \/ ~(r[y] <= r[x])
           T == {r[x] : x \in {x \in Objects(s) : Odd(x)}}
<1>3. T = {}
  <2> SUFFICES ASSUME T # {} PROVE FALSE
    OBVIOUS
  <2>1. T \subseteq Nat
    BY <1>1
  <2>2. PICK m \in T : \A n \in T : ~(n < m)
    <3> HIDE DEF T
    <3> QED
      BY <2>1, Smallest
  <2>3. PICK x \in Objects(s) : Odd(x) /\ m = r[x]
    OBVIOUS
  <2>4. PICK y \in Above(s, x) : y \notin Objects(s) \/ ~(r[y] <= r[x])
    BY <2>3
  <2>5. y # x
    BY <1>1, <2>4
  <2>6. y \in Above(s, Parent(s, x)) /\ Parent(s, x) \in Objects(s)
    BY <1>2, <2>4, <2>5, AboveStep
  <2>7. r[Parent(s, x)] < r[x]
    BY <1>2, <2>6 DEF Sound, Formed
  <2>8. ~Odd(Parent(s, x))
    BY <1>1, <2>2, <2>3, <2>6, <2>7
  <2>9. y \in Objects(s) /\ r[y] <= r[Parent(s, x)]
    BY <2>6, <2>8
  <2> QED
    BY <1>1, <2>4, <2>6, <2>7, <2>9
<1>4. \A x \in Objects(s) : ~Odd(x)
  BY <1>3
<1>5. Parent(s, o) \in Objects(s) /\ r[Parent(s, o)] < r[o]
  BY <1>2
<1> QED
  BY <1>1, <1>4, <1>5

\* Objects are hung elsewhere.
LEMMA Rehung ==
  ASSUME NEW s, Sound(s), NEW f, f = [x \in Objects(s) |-> f[x]],
         \A x \in Objects(s) : /\ Item(f[x]) /\ f[x].kind = s.obj[x].kind /\ f[x].data = s.obj[x].data
                               /\ f[x].parent \in Objects(s) \cup {None},
         NEW r \in [Objects(s) -> Nat], \A x \in Objects(s) : f[x].parent # None => r[f[x].parent] < r[x]
  PROVE  LET t == [s EXCEPT !.obj = f]
         IN  SameObjects(s, t) /\ t.obj = f /\ t.data = s.data /\ t.mats = s.mats
<1> DEFINE t == [s EXCEPT !.obj = f]
<1>1. t = [obj |-> f, data |-> s.data, mats |-> s.mats, camera |-> s.camera, set |-> s.set]
  BY SceneFields
<1> HIDE DEF t
<1>2. Objects(t) = Objects(s) /\ t.obj = f
  BY <1>1 DEF Objects
<1>3. Formed(t)
  BY <1>1, <1>2 DEF Sound, Formed, Item
<1>4. Referred(t)
  BY <1>1, <1>2 DEF Sound, Referred
<1>5. Ranked(t, Nat)
  BY <1>1, <1>2 DEF Ranked
<1>6. \A o : Kind(t, o) = Kind(s, o)
  BY <1>2 DEF Kind
<1>7. Standing(s, t)
  BY <1>2, <1>3, <1>4, <1>5, <1>6 DEF Standing, Sound
<1>8. SameObjects(s, t)
  BY <1>1, <1>2, <1>7, UntouchedApart
<1> QED
  BY <1>1, <1>2, <1>8 DEF t

LEMMA UnderSame ==
  ASSUME NEW s, Sound(s), NEW o \in Objects(s), NEW p \in Objects(s) \cup {None}, o \notin Above(s, p)
  PROVE  LET t == Under(s, o, p)
         IN  /\ SameObjects(s, t) /\ t.data = s.data /\ t.mats = s.mats
             /\ t.obj[o].parent = p
             /\ \A x \in Objects(s) : t.obj[x].data = s.obj[x].data
             /\ \A x \in Objects(s) \ {o} : t.obj[x] = s.obj[x]
<1> DEFINE f == [s.obj EXCEPT ![o] = [s.obj[o] EXCEPT !.parent = p]]
<1>1. PICK r \in [Objects(s) -> Nat] : \A x \in Objects(s) : s.obj[x].parent # None => r[s.obj[x].parent] < r[x]
  BY DEF Sound, Ranked
<1>2. f = [x \in Objects(s) |-> IF x = o THEN [s.obj[o] EXCEPT !.parent = p] ELSE s.obj[x]]
  BY DEF Sound, Formed, Objects
<1>3. LET i == [s.obj[o] EXCEPT !.parent = p]
      IN  Item(i) /\ i.kind = s.obj[o].kind /\ i.data = s.obj[o].data /\ i.parent = p
  <2>1. Item(s.obj[o])
    BY DEF Sound, Formed, Item
  <2> QED
    BY <2>1 DEF Item
<1>4. Under(s, o, p) = [s EXCEPT !.obj = f]
  BY DEF Under
<1> HIDE DEF f
<1>5. /\ f = [x \in Objects(s) |-> f[x]]
      /\ f[o].parent = p
      /\ \A x \in Objects(s) \ {o} : f[x] = s.obj[x]
      /\ \A x \in Objects(s) : /\ Item(f[x]) /\ f[x].kind = s.obj[x].kind /\ f[x].data = s.obj[x].data
                               /\ f[x].parent \in Objects(s) \cup {None}
  <2>1. \A x \in Objects(s) : Item(s.obj[x]) /\ s.obj[x].parent \in Objects(s) \cup {None}
    BY DEF Sound, Formed, Referred, Item
  <2> QED
    BY <1>2, <1>3, <2>1
<1> DEFINE n == IF p = None THEN 0 ELSE r[p] + 1
           q == [x \in Objects(s) |-> IF o \in Above(s, x) THEN r[x] + n ELSE r[x]]
<1>6. n \in Nat /\ q \in [Objects(s) -> Nat]
  BY <1>1
<1>7. \A x \in Objects(s) : f[x].parent # None => q[f[x].parent] < q[x]
  <2> SUFFICES ASSUME NEW x \in Objects(s), f[x].parent # None PROVE q[f[x].parent] < q[x]
    OBVIOUS
  <2>1. CASE x = o
    <3>1. f[x].parent = p /\ p \in Objects(s) /\ o \in Above(s, x)
      BY <1>5, <2>1, AboveStep
    <3>2. q[p] = r[p] /\ q[x] = r[x] + (r[p] + 1)
      BY <3>1
    <3> QED
      BY <1>1, <3>1, <3>2
  <2>2. CASE x # o
    <3> DEFINE y == s.obj[x].parent
    <3>1. f[x].parent = y /\ y \in Objects(s) /\ r[y] < r[x]
      BY <1>1, <1>5, <2>2 DEF Sound, Referred
    <3>2. o \in Above(s, x) <=> o \in Above(s, y)
      BY <2>2, AboveStep, KindOfObject
    <3> HIDE DEF y
    <3>3. r[x] \in Nat /\ r[y] \in Nat
      BY <1>1, <3>1
    <3> HIDE DEF n
    <3> QED
      BY <1>6, <3>1, <3>2, <3>3
  <2> QED
    BY <2>1, <2>2
<1> HIDE DEF q
<1>8. LET t == [s EXCEPT !.obj = f]
      IN  SameObjects(s, t) /\ t.obj = f /\ t.data = s.data /\ t.mats = s.mats
  BY <1>5, <1>6, <1>7, Rehung
<1> QED
  BY <1>4, <1>5, <1>8

\* Hanging an object under nothing closes no loop, hanging one under a new one neither.
LEMMA UnderNothing ==
  ASSUME NEW s, Sound(s), NEW o \in Objects(s)
  PROVE  LET t == Under(s, o, None)
         IN  /\ SameObjects(s, t) /\ t.data = s.data /\ t.mats = s.mats
             /\ t.obj[o].parent = None
             /\ \A x \in Objects(s) : t.obj[x].data = s.obj[x].data
             /\ \A x \in Objects(s) \ {o} : t.obj[x] = s.obj[x]
BY AboveStep, UnderSame

LEMMA UnderTop ==
  ASSUME NEW s, Sound(s), NEW o \in Objects(s), NEW p \in Objects(s) \ {o}, Parent(s, p) = None
  PROVE  SameObjects(s, Under(s, o, p)) /\ Under(s, o, p).data = s.data /\ Under(s, o, p).mats = s.mats
<1>1. Above(s, p) = {p}
  BY AboveStep
<1> QED
  BY <1>1, UnderSame

-----------------------------------------------------------------------------
(* How a call ends *)

\* t is a scene that Blender can hold.  Of the objects of s only those of but may be lost, and of
\* what several objects use only the fields of but may have changed.
Keeps(s, t, but) ==
  /\ Sound(t)
  /\ \A o \in Objects(s) \ but.objects : Kind(t, o) = Kind(s, o)
  /\ Leaves(s, t, but.fields)

LEMMA LeavesMore ==
  /\ \A s, t, few, more : Leaves(s, t, few) /\ few \subseteq more => Leaves(s, t, more)
  /\ \A s, t, fields : Apart(s, t) => Leaves(s, t, fields)
  /\ \A s, t, u, fields : Leaves(s, t, fields) /\ Leaves(t, u, fields) => Leaves(s, u, fields)
BY DEF Leaves, Apart

\* A call records its result once, or nothing; if it succeeds without a record it has
\* changed nothing that counts.
Good(s, out, but) ==
  /\ out = [scene |-> out.scene, error |-> out.error, steps |-> out.steps]
  /\ Keeps(s, out.scene, but)
  /\ \/ out.error = None /\ out.steps = <<out.scene>>
     \/ out.error # None /\ out.steps = <<>>
     \/ out.error = None /\ out.steps = <<>> /\ Same(s, out.scene)

LEMMA DoneGood ==
  ASSUME NEW s, NEW t, NEW but, Keeps(s, t, but)
  PROVE  Good(s, Done(t), but)
BY DEF Good, Done

LEMMA FailGood ==
  ASSUME NEW s, NEW t, NEW but, Keeps(s, t, but), NEW e, e # None
  PROVE  Good(s, Fail(t, e), but)
BY DEF Good, Fail

LEMMA QuietGood ==
  ASSUME NEW s, Sound(s), NEW t, NEW but, Keeps(s, t, but), Same(s, t)
  PROVE  Good(s, Quiet(t), but)
BY DEF Good, Quiet

LEMMA StillGood ==
  ASSUME NEW s, Sound(s), NEW but
  PROVE  Keeps(s, s, but) /\ Good(s, Quiet(s), but)
<1>1. Keeps(s, s, but)
  BY ApartTransitive, LeavesMore DEF Keeps
<1> QED
  BY <1>1 DEF Good, Quiet, Same

LEMMA SameKeeps ==
  ASSUME NEW s, NEW t, SameObjects(s, t), NEW but
  PROVE  Sound(t) /\ Keeps(s, t, but)
BY LeavesMore DEF SameObjects, Standing, Keeps

LEMMA GainsKeeps ==
  ASSUME NEW s, Sound(s), NEW t, NEW x, x \notin Objects(s), NEW k, Gains(s, t, x, k), NEW but
  PROVE  Sound(t) /\ Keeps(s, t, but)
BY LeavesMore DEF Gains, Joined, Keeps

LEMMA LosesKeeps ==
  ASSUME NEW s, NEW t, NEW gone, Loses(s, t, gone), NEW but, gone \subseteq but.objects
  PROVE  Sound(t) /\ Keeps(s, t, but)
BY LeavesMore DEF Loses, Keeps

LEMMA FittedKeeps ==
  ASSUME NEW s, Sound(s), NEW x, x # None, NEW k \in Kinds, NEW but, x \in but.objects \/ Kind(s, x) = k
  PROVE  LET t == Fitted(s, x, k)
         IN  /\ Sound(t) /\ Keeps(s, t, but) /\ x \in Objects(t) /\ Kind(t, x) = k
             /\ Objects(t) = Objects(s) \cup {x} /\ \A o : o # x => Kind(t, o) = Kind(s, o)
             /\ IF Kind(s, x) = k THEN t = s ELSE Alone(t, x)
<1> DEFINE t == Fitted(s, x, k)
<1>1. Fits(s, t, x, k)
  BY FittedSound
<1> HIDE DEF t
<1>2. \A o \in Objects(s) \ but.objects : Kind(t, o) = Kind(s, o)
  BY <1>1 DEF Fits
<1>3. Keeps(s, t, but)
  BY <1>1, <1>2, LeavesMore DEF Fits, Keeps
<1> QED
  BY <1>1, <1>3 DEF Fits, t

LEMMA KeepsTransitive ==
  ASSUME NEW s, Sound(s), NEW t, NEW u, NEW but, Keeps(s, t, but), Keeps(t, u, but)
  PROVE  Keeps(s, u, but)
<1>1. \A o \in Objects(s) \ but.objects : o \in Objects(t)
  BY KindOfObject DEF Keeps
<1> QED
  BY <1>1, LeavesMore DEF Keeps

\* Data that others may use too: what the tool changes of it may change.
LEMMA FieldKeeps ==
  ASSUME NEW s, Sound(s), NEW o \in Objects(s), Kind(s, o) # "EMPTY", NEW field \in {"count", "form"},
         NEW but, Alone(s, o) \/ <<s.obj[o].data, field>> \in but.fields
  PROVE  LET t == Edited(s, o, field) IN Standing(s, t) /\ t.obj = s.obj /\ t.mats = s.mats /\ Keeps(s, t, but)
BY EditedLeaves DEF Standing, Keeps

LEMMA SlotKeeps ==
  ASSUME NEW s, Sound(s), NEW o \in Objects(s), Kind(s, o) # "EMPTY", NEW m \in DOMAIN s.mats,
         NEW but, Alone(s, o) \/ <<s.obj[o].data, "mat">> \in but.fields
  PROVE  LET t == Slotted(s, o, m) IN Standing(s, t) /\ t.obj = s.obj /\ t.mats = s.mats /\ Keeps(s, t, but)
BY SlottedLeaves DEF Standing, Keeps

LEMMA CheckedGood ==
  ASSUME NEW s, Sound(s), NEW but, NEW n \in Nat, NEW checks, DOMAIN checks = 1..n,
         \A i \in 1..n : checks[i][2] # None,
         NEW out, (\A i \in 1..n : checks[i][1]) => Good(s, out, but)
  PROVE  Good(s, Checked(s, checks, out), but)
<1> DEFINE T == {i \in 1..n : ~checks[i][1]}
<1>1. Checked(s, checks, out) = IF T = {} THEN out ELSE Fail(s, checks[Min(T)][2])
  BY DEF Checked
<1>2. CASE T = {}
  BY <1>1, <1>2
<1>3. CASE T # {}
  <2>1. \E x \in T : \A y \in T : ~(y < x)
    <3>1. T \subseteq Nat
      OBVIOUS
    <3> HIDE DEF T
    <3> QED
      BY <1>3, <3>1, Smallest
  <2>2. Min(T) \in T
    <3>1. \E x \in T : \A y \in T : x <= y
      BY <2>1
    <3> HIDE DEF T
    <3> QED
      BY <3>1 DEF Min
  <2>3. checks[Min(T)][2] # None
    BY <2>2
  <2> QED
    BY <1>1, <1>3, <2>3, StillGood, FailGood
<1> QED
  BY <1>2, <1>3

LEMMA Checks1 ==
  ASSUME NEW s, Sound(s), NEW but, NEW c1, c1[2] # None,
         NEW out, c1[1] => Good(s, out, but)
  PROVE  Good(s, Checked(s, <<c1>>, out), but)
<1> DEFINE c == <<c1>>
<1>1. DOMAIN c = 1..1 /\ (\A i \in 1..1 : c[i][2] # None) /\ ((\A i \in 1..1 : c[i][1]) => c1[1])
  OBVIOUS
<1> HIDE DEF c
<1>2. Good(s, Checked(s, c, out), but)
  BY <1>1, CheckedGood
<1> QED
  BY <1>2 DEF c

LEMMA Checks2 ==
  ASSUME NEW s, Sound(s), NEW but, NEW c1, c1[2] # None, NEW c2, c2[2] # None,
         NEW out, c1[1] /\ c2[1] => Good(s, out, but)
  PROVE  Good(s, Checked(s, <<c1, c2>>, out), but)
<1> DEFINE c == <<c1, c2>>
<1>1. DOMAIN c = 1..2 /\ (\A i \in 1..2 : c[i][2] # None) /\ ((\A i \in 1..2 : c[i][1]) => c1[1] /\ c2[1])
  OBVIOUS
<1> HIDE DEF c
<1>2. Good(s, Checked(s, c, out), but)
  BY <1>1, CheckedGood
<1> QED
  BY <1>2 DEF c

LEMMA Checks3 ==
  ASSUME NEW s, Sound(s), NEW but, NEW c1, c1[2] # None, NEW c2, c2[2] # None, NEW c3, c3[2] # None,
         NEW out, c1[1] /\ c2[1] /\ c3[1] => Good(s, out, but)
  PROVE  Good(s, Checked(s, <<c1, c2, c3>>, out), but)
<1> DEFINE c == <<c1, c2, c3>>
<1>1. DOMAIN c = 1..3 /\ (\A i \in 1..3 : c[i][2] # None) /\ ((\A i \in 1..3 : c[i][1]) => c1[1] /\ c2[1] /\ c3[1])
  OBVIOUS
<1> HIDE DEF c
<1>2. Good(s, Checked(s, c, out), but)
  BY <1>1, CheckedGood
<1> QED
  BY <1>2 DEF c

LEMMA Checks4 ==
  ASSUME NEW s, Sound(s), NEW but, NEW c1, c1[2] # None, NEW c2, c2[2] # None, NEW c3, c3[2] # None, NEW c4, c4[2] # None,
         NEW out, c1[1] /\ c2[1] /\ c3[1] /\ c4[1] => Good(s, out, but)
  PROVE  Good(s, Checked(s, <<c1, c2, c3, c4>>, out), but)
<1> DEFINE c == <<c1, c2, c3, c4>>
<1>1. DOMAIN c = 1..4 /\ (\A i \in 1..4 : c[i][2] # None) /\ ((\A i \in 1..4 : c[i][1]) => c1[1] /\ c2[1] /\ c3[1] /\ c4[1])
  OBVIOUS
<1> HIDE DEF c
<1>2. Good(s, Checked(s, c, out), but)
  BY <1>1, CheckedGood
<1> QED
  BY <1>2 DEF c

LEMMA Checks5 ==
  ASSUME NEW s, Sound(s), NEW but, NEW c1, c1[2] # None, NEW c2, c2[2] # None, NEW c3, c3[2] # None, NEW c4, c4[2] # None, NEW c5, c5[2] # None,
         NEW out, c1[1] /\ c2[1] /\ c3[1] /\ c4[1] /\ c5[1] => Good(s, out, but)
  PROVE  Good(s, Checked(s, <<c1, c2, c3, c4, c5>>, out), but)
<1> DEFINE c == <<c1, c2, c3, c4, c5>>
<1>1. DOMAIN c = 1..5 /\ (\A i \in 1..5 : c[i][2] # None) /\ ((\A i \in 1..5 : c[i][1]) => c1[1] /\ c2[1] /\ c3[1] /\ c4[1] /\ c5[1])
  OBVIOUS
<1> HIDE DEF c
<1>2. Good(s, Checked(s, c, out), but)
  BY <1>1, CheckedGood
<1> QED
  BY <1>2 DEF c

LEMMA Checks6 ==
  ASSUME NEW s, Sound(s), NEW but, NEW c1, c1[2] # None, NEW c2, c2[2] # None, NEW c3, c3[2] # None, NEW c4, c4[2] # None, NEW c5, c5[2] # None, NEW c6, c6[2] # None,
         NEW out, c1[1] /\ c2[1] /\ c3[1] /\ c4[1] /\ c5[1] /\ c6[1] => Good(s, out, but)
  PROVE  Good(s, Checked(s, <<c1, c2, c3, c4, c5, c6>>, out), but)
<1> DEFINE c == <<c1, c2, c3, c4, c5, c6>>
<1>1. DOMAIN c = 1..6 /\ (\A i \in 1..6 : c[i][2] # None) /\ ((\A i \in 1..6 : c[i][1]) => c1[1] /\ c2[1] /\ c3[1] /\ c4[1] /\ c5[1] /\ c6[1])
  OBVIOUS
<1> HIDE DEF c
<1>2. Good(s, Checked(s, c, out), but)
  BY <1>1, CheckedGood
<1> QED
  BY <1>2 DEF c

LEMMA PlacedGood ==
  ASSUME NEW s, Sound(s), NEW t, Sound(t), NEW but, Keeps(s, t, but), NEW a, NEW name, NEW e, e # None
  PROVE  Good(s, Placed(t, a, name, e), but)
<1>1. \A chans : Keeps(s, Posed(t, name, chans), but)
  BY PosedSame, SameKeeps, KeepsTransitive
<1> QED
  BY <1>1, DoneGood, FailGood DEF Placed

-----------------------------------------------------------------------------
(* Making and changing single objects *)

LEMMA NewKeeps ==
  ASSUME NEW s, Sound(s), Room(s, 1), NEW kind \in Kinds, NEW but
  PROVE  LET t == Linked(s, NewName(s), kind)
         IN  Sound(t) /\ Keeps(s, t, but) /\ Gains(s, t, NewName(s), kind)
BY RoomForOne, LinkedGains, GainsKeeps

LEMMA CreatePrimitiveGood ==
  ASSUME NEW s, Sound(s), Room(s, 1), NEW a, NEW but
  PROVE  Good(s, CreatePrimitive(s, a), but)
<1>1. Sound(Linked(s, NewName(s), "MESH")) /\ Keeps(s, Linked(s, NewName(s), "MESH"), but)
  BY NewKeeps DEF Kinds
<1>2. Good(s, Placed(Linked(s, NewName(s), "MESH"), a, NewName(s), "IndexError"), but)
  BY <1>1, PlacedGood DEF None
<1> QED
  BY <1>2, Checks2 DEF CreatePrimitive, Valid, None

LEMMA MadeKeeps ==
  ASSUME NEW s, Sound(s), NEW name, name # None, NEW kind \in Kinds, Kind(s, name) \in {None, kind}, NEW but
  PROVE  LET t == IF Kind(s, name) = kind THEN s ELSE Linked(s, name, kind)
         IN  Sound(t) /\ Keeps(s, t, but) /\ name \in Objects(t) /\ Kind(t, name) = kind
<1>1. CASE Kind(s, name) = kind
  BY <1>1, StillGood, KindOfObject DEF Kinds, None
<1>2. CASE Kind(s, name) # kind
  <2>1. name \notin Objects(s)
    BY <1>2, KindOfObject
  <2> QED
    BY <1>2, <2>1, LinkedGains, GainsKeeps DEF Gains, Joined
<1> QED
  BY <1>1, <1>2

LEMMA CameraOfScene == ASSUME NEW s, Sound(s), s.camera # None PROVE Kind(s, s.camera) = "CAMERA" /\ s.camera \in Objects(s)
BY DEF Sound, Referred, Kind

LEMMA CreateCameraGood ==
  ASSUME NEW s, Sound(s), Room(s, 1), NEW a, NEW but
  PROVE  Good(s, CreateCamera(s, a), but)
<1> DEFINE name == IF a.o = None THEN NewName(s) ELSE a.o
           made == IF Kind(s, name) = "CAMERA" THEN s ELSE Linked(s, name, "CAMERA")
           edit == Edited(made, name, "count")
           put  == Posed(edit, name, {"location", "rotation"})
           cam  == IF a.opt = "active" THEN name ELSE put.camera
           out  == Done([put EXCEPT !.camera = cam])
<1>1. name # None
  BY RoomForOne
<1>2. ASSUME Kind(s, name) \in {None, "CAMERA"} PROVE Good(s, out, but)
  <2> HIDE DEF name
  <2>0. "CAMERA" \in Kinds
    BY DEF Kinds
  <2>1. Sound(made) /\ Keeps(s, made, but) /\ name \in Objects(made) /\ Kind(made, name) = "CAMERA"
    BY <1>1, <1>2, <2>0, MadeKeeps
  <2> HIDE DEF made
  <2>2. SameObjects(made, edit) /\ Standing(made, edit) /\ Sound(edit)
    BY <2>1, NoMeshAlone, EditedSame DEF SameObjects, Standing
  <2> HIDE DEF edit
  <2>3. SameObjects(edit, put) /\ Standing(edit, put) /\ Sound(put)
    BY <2>2, PosedSame DEF SameObjects, Standing
  <2> HIDE DEF put
  <2>4. cam # None => Kind(put, cam) = "CAMERA"
    BY <2>1, <2>2, <2>3, CameraOfScene DEF Standing
  <2> HIDE DEF cam
  <2>5. SameObjects(put, [put EXCEPT !.camera = cam])
    BY <2>3, <2>4, CameraSet
  <2>6. Keeps(made, [put EXCEPT !.camera = cam], but)
    BY <2>2, <2>3, <2>5, SameTransitive, SameKeeps
  <2> QED
    BY <2>1, <2>6, KeepsTransitive, DoneGood
<1>3. CreateCamera(s, a) = Checked(s, <<<<Valid(a, "arguments"), "ValueError">>,
                                      <<Kind(s, name) \in {None, "CAMERA"}, "ValueError">>>>, out)
  BY DEF CreateCamera
<1> HIDE DEF name, out
<1> QED
  BY <1>2, <1>3, Checks2 DEF Valid, None

LEMMA CreateLightGood ==
  ASSUME NEW s, Sound(s), Room(s, 1), NEW a, NEW but
  PROVE  Good(s, CreateLight(s, a), but)
<1> DEFINE name == IF a.o = None THEN NewName(s) ELSE a.o
           made == IF Kind(s, name) = "LIGHT" THEN s ELSE Linked(s, name, "LIGHT")
           once == Edited(made, name, "count")
           edit == Edited(once, name, "form")
           out  == Done(Posed(edit, name, {"location", "rotation"}))
<1>1. name # None
  BY RoomForOne
<1>2. ASSUME Kind(s, name) \in {None, "LIGHT"} PROVE Good(s, out, but)
  <2> HIDE DEF name
  <2>0. "LIGHT" \in Kinds
    BY DEF Kinds
  <2>1. Sound(made) /\ Keeps(s, made, but) /\ name \in Objects(made) /\ Kind(made, name) = "LIGHT"
    BY <1>1, <1>2, <2>0, MadeKeeps
  <2> HIDE DEF made
  <2>2. SameObjects(made, once) /\ Standing(made, once) /\ Sound(once)
    BY <2>1, NoMeshAlone, EditedSame DEF SameObjects, Standing
  <2> HIDE DEF once
  <2>3. name \in Objects(once) /\ Kind(once, name) = "LIGHT"
    BY <2>1, <2>2 DEF Standing
  <2>4. SameObjects(once, edit) /\ Sound(edit)
    BY <2>2, <2>3, NoMeshAlone, EditedSame DEF SameObjects, Standing
  <2> HIDE DEF edit
  <2>6. SameObjects(edit, Posed(edit, name, {"location", "rotation"}))
    BY <2>4, PosedSame
  <2>5. Keeps(made, Posed(edit, name, {"location", "rotation"}), but)
    BY <2>2, <2>4, <2>6, SameTransitive, SameKeeps
  <2> QED
    BY <2>1, <2>5, KeepsTransitive, DoneGood
<1>3. CreateLight(s, a) = Checked(s, <<<<Valid(a, "arguments"), "ValueError">>,
                                     <<Kind(s, name) \in {None, "LIGHT"}, "ValueError">>>>, out)
  BY DEF CreateLight
<1> HIDE DEF name, out
<1> QED
  BY <1>2, <1>3, Checks2 DEF Valid, None

LEMMA MeshThere ==
  ASSUME NEW s, Sound(s), NEW o, Kind(s, o) = "MESH"
  PROVE  o \in Objects(s) /\ Kind(s, o) # "EMPTY" /\ o # None
BY KindOfObject DEF None, Sound, Formed

LEMMA SetShadingGood ==
  ASSUME NEW s, Sound(s), NEW a, NEW but, (DOMAIN s.data) \X {"form"} \subseteq but.fields
  PROVE  Good(s, SetShading(s, a), but)
<1>1. ASSUME Kind(s, a.o) = "MESH" PROVE Good(s, Done(Edited(s, a.o, "form")), but)
  <2>1. a.o \in Objects(s) /\ Kind(s, a.o) # "EMPTY"
    BY <1>1, MeshThere
  <2>2. <<s.obj[a.o].data, "form">> \in but.fields
    BY <2>1, UsedData
  <2> QED
    BY <2>1, <2>2, FieldKeeps, DoneGood
<1> QED
  BY <1>1, Checks2 DEF SetShading, Valid, None

LEMMA AddModifierGood ==
  ASSUME NEW s, Sound(s), NEW a, NEW but
  PROVE  Good(s, AddModifier(s, a), but)
<1>1. Good(s, Done(Modified(s, a.o, a.opt)), but)
  BY ModifiedSame, SameKeeps, DoneGood
<1> QED
  BY <1>1, Checks3 DEF AddModifier, Valid, None

LEMMA AddShapeModifierGood ==
  ASSUME NEW s, Sound(s), NEW a, NEW but
  PROVE  Good(s, AddShapeModifier(s, a), but)
<1>1. Good(s, Done(Modified(s, a.o, "MIRROR")), but)
  BY ModifiedSame, SameKeeps, DoneGood
<1> QED
  BY <1>1, Checks3 DEF AddShapeModifier, IsMesh, Valid, None

LEMMA TransformObjectGood ==
  ASSUME NEW s, Sound(s), NEW a, NEW but
  PROVE  Good(s, TransformObject(s, a), but)
<1> DEFINE out == IF ~Valid(a, "rotation") THEN Fail(Posed(s, a.o, {"location"}), "ValueError")
                  ELSE IF ~Valid(a, "scale") THEN Fail(Posed(s, a.o, {"location", "rotation"}), "ValueError")
                  ELSE Done(Posed(s, a.o, Channels))
<1>1. \A chans : Keeps(s, Posed(s, a.o, chans), but)
  BY PosedSame, SameKeeps
<1>2. Good(s, out, but)
  BY <1>1, FailGood, DoneGood DEF None
<1>3. TransformObject(s, a) = Checked(s, <<<<a.o \in Objects(s), "ObjectNotFoundError">>, <<Valid(a, "nothing"), "ValueError">>,
                                         <<Valid(a, "location"), "ValueError">>>>, out)
  BY DEF TransformObject
<1> HIDE DEF out
<1> QED
  BY <1>2, <1>3, Checks3 DEF Valid, None

LEMMA DeleteObjectGood ==
  ASSUME NEW s, Sound(s), NEW a, NEW but, a.o \in but.objects
  PROVE  Good(s, DeleteObject(s, a), but)
<1>1. Good(s, Done(Removed(s, {a.o})), but)
  BY RemovedLoses, LosesKeeps, DoneGood
<1> QED
  BY <1>1, Checks1 DEF DeleteObject, None

LEMMA DuplicateObjectGood ==
  ASSUME NEW s, Sound(s), Room(s, 1), NEW a, NEW but
  PROVE  Good(s, DuplicateObject(s, a), but)
<1> DEFINE copy == Copied(s, a.o, NewName(s))
           out  == Done(Posed(copy, NewName(s), {"location"}))
<1>1. ASSUME a.o \in Objects(s) PROVE Good(s, out, but)
  <2>1. Sound(copy) /\ Keeps(s, copy, but)
    BY <1>1, RoomForOne, CopiedGains, GainsKeeps
  <2>2. Keeps(copy, Posed(copy, NewName(s), {"location"}), but)
    BY <2>1, PosedSame, SameKeeps
  <2> QED
    BY <2>1, <2>2, KeepsTransitive, DoneGood
<1>2. DuplicateObject(s, a) = Checked(s, <<<<a.o \in Objects(s), "ObjectNotFoundError">>, <<Valid(a, "new_name"), "ValueError">>,
                                         <<Valid(a, "transform"), "ValueError">>>>, out)
  BY DEF DuplicateObject
<1> HIDE DEF out
<1> QED
  BY <1>1, <1>2, Checks3 DEF Valid, None

LEMMA ImportAssetGood ==
  ASSUME NEW s, Sound(s), Room(s, 1), NEW a, NEW but
  PROVE  Good(s, ImportAsset(s, a), but)
<1>1. Good(s, Done(Linked(s, NewName(s), "MESH")), but)
  BY NewKeeps, DoneGood DEF Kinds
<1> QED
  BY <1>1, Checks6 DEF ImportAsset, Valid, None

-----------------------------------------------------------------------------
(* Materials *)

LEMMA SetMaterialGood ==
  ASSUME NEW s, Sound(s), NEW a, NEW but, (DOMAIN s.data) \X {"mat"} \subseteq but.fields
  PROVE  Good(s, SetMaterial(s, a), but)
<1> DEFINE own  == a.o # None /\ a.opt # "named"
           slot == IF Kind(s, a.o) = "MESH" THEN Data(s, a.o).mat ELSE None
           mat  == IF ~own THEN "m" ELSE IF slot # None THEN slot ELSE Named(s, a.o \o "_Material")
           made == WithMaterial(s, mat)
           puts == a.o # None /\ ~(own /\ slot # None)
           put  == IF puts THEN Slotted(made, a.o, mat) ELSE made
           out  == IF puts /\ Kind(s, a.o) # "MESH" THEN Fail(made, "ValueError")
                   ELSE IF ~Valid(a, "values") THEN Fail(put, "ValueError")
                   ELSE IF ~Valid(a, "later") THEN Fail(Painted(put, mat), "ValueError")
                   ELSE Done(Painted(put, mat))
<1>1. SetMaterial(s, a) = Checked(s, <<<<Valid(a, "arguments"), "ValueError">>,
                                     <<a.o = None \/ a.o \in Objects(s), "ObjectNotFoundError">>>>, out)
  BY DEF SetMaterial
<1>2. Good(s, out, but)
  <2> HIDE DEF mat, puts
  <2>1. SameObjects(s, made) /\ Sound(made) /\ made.obj = s.obj /\ made.data = s.data /\ mat \in DOMAIN made.mats
        /\ Keeps(s, made, but)
    BY WithMaterialSame, SameKeeps
  <2> HIDE DEF made
  <2>2. CASE puts /\ Kind(s, a.o) # "MESH"
    BY <2>1, <2>2, FailGood DEF None
  <2>3. CASE ~(puts /\ Kind(s, a.o) # "MESH")
    <3>1. Sound(put) /\ Keeps(s, put, but)
      <4>1. CASE puts
        <5>1. a.o \in Objects(s) /\ Kind(s, a.o) # "EMPTY" /\ <<s.obj[a.o].data, "mat">> \in but.fields
          BY <2>3, <4>1, MeshThere, UsedData
        <5>2. a.o \in Objects(made) /\ Kind(made, a.o) # "EMPTY" /\ <<made.obj[a.o].data, "mat">> \in but.fields
          BY <2>1, <5>1 DEF SameObjects, Standing
        <5>3. Sound(Slotted(made, a.o, mat)) /\ Keeps(made, Slotted(made, a.o, mat), but)
          BY <2>1, <5>2, SlotKeeps DEF Standing
        <5> QED
          BY <2>1, <4>1, <5>3, KeepsTransitive
      <4>2. CASE ~puts
        BY <2>1, <4>2
      <4> QED
        BY <4>1, <4>2
    <3> HIDE DEF put
    <3>2. Keeps(put, Painted(put, mat), but)
      BY <3>1, PaintedSame, SameKeeps
    <3>3. Keeps(s, Painted(put, mat), but)
      BY <3>1, <3>2, KeepsTransitive
    <3> QED
      BY <2>3, <3>1, <3>3, DoneGood, FailGood DEF None
  <2> QED
    BY <2>2, <2>3
<1> HIDE DEF out
<1> QED
  BY <1>1, <1>2, Checks2 DEF None

LEMMA AssignMaterialGood ==
  ASSUME NEW s, Sound(s), NEW a, NEW but, (DOMAIN s.data) \X {"mat"} \subseteq but.fields
  PROVE  Good(s, AssignMaterial(s, a), but)
<1> DEFINE made == WithMaterial(s, "m")
           out  == IF Kind(s, a.o) = "MESH" THEN Done(Slotted(made, a.o, "m")) ELSE Fail(made, "ValueError")
<1>1. AssignMaterial(s, a) = Checked(s, <<<<Valid(a, "arguments"), "ValueError">>,
                                        <<a.o \in Objects(s), "ObjectNotFoundError">>>>, out)
  BY DEF AssignMaterial
<1>2. Good(s, out, but)
  <2>1. SameObjects(s, made) /\ Sound(made) /\ made.obj = s.obj /\ made.data = s.data /\ "m" \in DOMAIN made.mats
        /\ Keeps(s, made, but)
    BY WithMaterialSame, SameKeeps
  <2> HIDE DEF made
  <2>2. CASE Kind(s, a.o) = "MESH"
    <3>1. a.o \in Objects(s) /\ Kind(s, a.o) # "EMPTY" /\ <<s.obj[a.o].data, "mat">> \in but.fields
      BY <2>2, MeshThere, UsedData
    <3>2. a.o \in Objects(made) /\ Kind(made, a.o) # "EMPTY" /\ <<made.obj[a.o].data, "mat">> \in but.fields
      BY <2>1, <3>1 DEF SameObjects, Standing
    <3>3. Keeps(made, Slotted(made, a.o, "m"), but)
      BY <2>1, <3>2, SlotKeeps
    <3>4. Keeps(s, Slotted(made, a.o, "m"), but)
      BY <2>1, <3>3, KeepsTransitive
    <3> QED
      BY <2>2, <3>4, DoneGood
  <2>3. CASE Kind(s, a.o) # "MESH"
    BY <2>1, <2>3, FailGood DEF None
  <2> QED
    BY <2>2, <2>3
<1> HIDE DEF out
<1> QED
  BY <1>1, <1>2, Checks2 DEF None

LEMMA UnwrapUvGood ==
  ASSUME NEW s, Sound(s), NEW a, NEW but, (DOMAIN s.data) \X {"form"} \subseteq but.fields
  PROVE  Good(s, UnwrapUv(s, a), but)
<1> DEFINE used == {s.obj[x].data : x \in Subjects(s, a.o)}
           v    == [d \in DOMAIN s.data |-> IF d \in used THEN [s.data[d] EXCEPT !.form = @ + 1] ELSE s.data[d]]
           t    == [s EXCEPT !.data = v]
           out  == Done(t)
<1>1. UnwrapUv(s, a) = Checked(s, <<<<Valid(a, "arguments"), "ModelingError">>,
                                  <<a.o \in Objects(s) \cup {None}, "ModelingError">>,
                                  <<Subjects(s, a.o) # {}, "ModelingError">>>>, out)
  BY DEF UnwrapUv
<1> HIDE DEF used
<1>2. \A d \in DOMAIN s.data : Datum(s.data[d])
  BY DEF Sound, Formed, Datum
<1>3. \A d \in DOMAIN s.data : Datum(v[d]) /\ v[d].mat = s.data[d].mat /\ v[d].count = s.data[d].count
  <2> TAKE d \in DOMAIN s.data
  <2>1. Datum(s.data[d])
    BY <1>2
  <2>2. LET w == [s.data[d] EXCEPT !.form = @ + 1]
        IN  Datum(w) /\ w.mat = s.data[d].mat /\ w.count = s.data[d].count
    BY <2>1 DEF Datum
  <2>3. v[d] \in {[s.data[d] EXCEPT !.form = @ + 1], s.data[d]}
    OBVIOUS
  <2> HIDE DEF v
  <2> QED
    BY <2>1, <2>2, <2>3
<1>4. v = [d \in DOMAIN s.data |-> v[d]]
  OBVIOUS
<1> HIDE DEF v
<1>5. Standing(s, t) /\ t.obj = s.obj /\ t.data = v
  BY <1>3, <1>4, DataSet
<1> HIDE DEF t
<1>6. Leaves(s, t, but.fields)
  <2>1. Meshes(t) = Meshes(s)
    BY <1>5 DEF Standing, Meshes
  <2>2. \A d : Several(t, d) => Several(s, d) /\ d \in DOMAIN s.data
    BY <1>5, <2>1, UsedData DEF Several
  <2>3. \A d \in DOMAIN s.data : \A f \in Fields : <<d, f>> \notin but.fields => f \in {"count", "mat"}
    BY DEF Fields
  <2> QED
    BY <1>3, <1>5, <2>2, <2>3 DEF Leaves
<1>7. Good(s, out, but)
  BY <1>5, <1>6, DoneGood DEF Standing, Keeps
<1> HIDE DEF out
<1> QED
  BY <1>1, <1>7, Checks3 DEF None

LEMMA BakeMaterialGood ==
  ASSUME NEW s, Sound(s), NEW a, NEW but
  PROVE  Good(s, BakeMaterial(s, a), but)
<1> DEFINE ready == IF a.opt = "bare" THEN Edited(s, a.o, "form") ELSE s
           baked == Named(s, a.o \o "_Baked")
           made  == WithMaterial(ready, baked)
           out   == IF a.opt = "flat" THEN Quiet(s)
                    ELSE IF Valid(a, "bake") THEN Done(Slotted(made, a.o, baked))
                    ELSE Fail(ready, "RuntimeError")
<1>1. BakeMaterial(s, a) = Checked(s, <<IsMesh(s, a.o), <<Valid(a, "numbers"), "ModelingError">>,
                   <<~Shared(s, a.o), "ModelingError">>, <<Data(s, a.o).mat # None, "ModelingError">>>>, out)
  BY DEF BakeMaterial
<1>2. ASSUME Kind(s, a.o) = "MESH", ~Shared(s, a.o) PROVE Good(s, out, but)
  <2> HIDE DEF baked
  <2>1. SameObjects(s, ready)
    BY <1>2, MeshThere, NotShared, EditedSame, SameItself
  <2> HIDE DEF ready
  <2>2. SameObjects(ready, made) /\ baked \in DOMAIN made.mats
    BY <2>1, WithMaterialSame DEF SameObjects, Standing
  <2> HIDE DEF made
  <2>3. Sound(made) /\ a.o \in Objects(made) /\ Kind(made, a.o) # "EMPTY" /\ Alone(made, a.o)
    BY <1>2, <2>1, <2>2, MeshThere, NotShared DEF SameObjects, Standing, Apart
  <2>4. SameObjects(made, Slotted(made, a.o, baked))
    BY <2>2, <2>3, SlottedSame
  <2>5. Keeps(s, Slotted(made, a.o, baked), but) /\ Keeps(s, ready, but)
    BY <2>1, <2>2, <2>4, SameTransitive, SameKeeps
  <2> QED
    BY <2>5, DoneGood, FailGood, StillGood DEF None
<1> DEFINE c1 == IsMesh(s, a.o)
           c2 == <<Valid(a, "numbers"), "ModelingError">>
           c3 == <<~Shared(s, a.o), "ModelingError">>
           c4 == <<Data(s, a.o).mat # None, "ModelingError">>
<1>3. c1[2] # None /\ c2[2] # None /\ c3[2] # None /\ c4[2] # None
      /\ (c1[1] <=> Kind(s, a.o) = "MESH") /\ (c3[1] <=> ~Shared(s, a.o))
  BY DEF IsMesh, None
<1>4. BakeMaterial(s, a) = Checked(s, <<c1, c2, c3, c4>>, out)
  BY <1>1
<1> HIDE DEF out, c1, c2, c3, c4
<1> QED
  BY <1>2, <1>3, <1>4, Checks4

-----------------------------------------------------------------------------
(* Modelling *)

LEMMA CreateMeshGood ==
  ASSUME NEW s, Sound(s), Room(s, 1), NEW a, NEW but
  PROVE  Good(s, CreateMesh(s, a), but)
<1>1. Good(s, Placed(Linked(s, NewName(s), "MESH"), a, NewName(s), "ModelingError"), but)
  BY NewKeeps, PlacedGood DEF None, Kinds
<1> QED
  BY <1>1, Checks1 DEF CreateMesh, None

LEMMA LoftGood ==
  ASSUME NEW s, Sound(s), Room(s, 1), NEW a, NEW but
  PROVE  Good(s, Loft(s, a), but)
<1>1. Good(s, Placed(Linked(s, NewName(s), "MESH"), a, NewName(s), "ModelingError"), but)
  BY NewKeeps, PlacedGood DEF None, Kinds
<1> QED
  BY <1>1, Checks1 DEF Loft, None

LEMMA LoftsGood ==
  ASSUME NEW s, Sound(s), Room(s, 1), NEW a, NEW but
  PROVE  /\ Good(s, CreateExtrusion(s, a), but)
         /\ Good(s, CreateBeam(s, a), but)
         /\ Good(s, LoftProfiles(s, a), but)
<1>1. Good(s, Placed(Linked(s, NewName(s), "MESH"), a, NewName(s), "ModelingError"), but)
  BY NewKeeps, PlacedGood DEF None, Kinds
<1>2. Good(s, CreateExtrusion(s, a), but)
  BY LoftGood, Checks1 DEF CreateExtrusion, None
<1>3. Good(s, CreateBeam(s, a), but)
  BY LoftGood, Checks1 DEF CreateBeam, None
<1>4. Good(s, LoftProfiles(s, a), but)
  BY <1>1, Checks1 DEF LoftProfiles, None
<1> QED
  BY <1>2, <1>3, <1>4

LEMMA CreateTerrainGood ==
  ASSUME NEW s, Sound(s), Room(s, 1), NEW a, NEW but
  PROVE  Good(s, CreateTerrain(s, a), but)
<1>1. Good(s, Placed(Linked(s, NewName(s), "MESH"), a, NewName(s), "ModelingError"), but)
  BY NewKeeps, PlacedGood DEF None, Kinds
<1> QED
  BY <1>1, Checks1 DEF CreateTerrain, None

LEMMA EditedKeeps ==
  ASSUME NEW s, Sound(s), NEW t, NEW but, Keeps(s, t, but),
         NEW o \in Objects(t), Kind(t, o) # "EMPTY", Alone(t, o), NEW field \in {"count", "form"}
  PROVE  Keeps(s, Edited(t, o, field), but)
<1>1. Sound(t)
  BY DEF Keeps
<1>2. Keeps(t, Edited(t, o, field), but)
  BY <1>1, FieldKeeps
<1> QED
  BY <1>2, KeepsTransitive

LEMMA ObjectLevelEditGood ==
  ASSUME NEW s, Sound(s), Room(s, 1), NEW a, Kind(s, a.o) = "MESH", Alone(s, a.o), NEW but
  PROVE  Good(s, ObjectLevelEdit(s, a), but)
<1>1. a.o \in Objects(s) /\ Kind(s, a.o) # "EMPTY"
  BY MeshThere
<1>2. CASE a.opt = "apply"
  <2> DEFINE t == WithData(s, a.o, Data(s, a.o))
             u == Edited(t, a.o, "count")
             v == [u EXCEPT !.obj[a.o].mods = <<>>]
  <2>1. SameObjects(s, t) /\ Alone(t, a.o)
    BY <1>1, DataOf, WithDataSame
  <2>2. SameObjects(t, u)
    <3> HIDE DEF t
    <3> QED
      BY <1>1, <2>1, EditedSame DEF SameObjects, Standing
  <2>3. SameObjects(u, v)
    <3>1. Sound(u)
      BY <2>2 DEF SameObjects, Standing
    <3> HIDE DEF t, u
    <3>2. LET w == [u EXCEPT !.obj[a.o].mods = <<>>] IN SameObjects(u, w)
      BY <3>1, ModsSet
    <3> QED
      BY <3>2
  <2>4. ObjectLevelEdit(s, a) = Checked(s, <<<<s.obj[a.o].mods # <<>>, "ModelingError">>>>, Done(v))
    BY <1>2 DEF ObjectLevelEdit
  <2> HIDE DEF t, u, v
  <2>5. Good(s, Done(v), but)
    BY <2>1, <2>2, <2>3, SameTransitive, SameKeeps, DoneGood
  <2> QED
    BY <2>4, <2>5, Checks1 DEF None
<1>3. CASE a.opt # "apply"
  <2> DEFINE t == Copied(s, a.o, NewName(s))
  <2>1. Sound(t) /\ Keeps(s, t, but) /\ a.o \in Objects(t) /\ Kind(t, a.o) = "MESH" /\ Alone(t, a.o)
    BY <1>1, RoomForOne, CopiedGains, GainsKeeps DEF Gains, Joined, Apart
  <2>2. Good(s, Done(Edited(t, a.o, "count")), but)
    <3> HIDE DEF t
    <3> QED
      BY <2>1, EditedKeeps, DoneGood
  <2>3. ObjectLevelEdit(s, a) = Checked(s, <<<<Valid(a, "by"), "ModelingError">>>>, Done(Edited(t, a.o, "count")))
    BY <1>3 DEF ObjectLevelEdit
  <2> HIDE DEF t
  <2> QED
    BY <2>2, <2>3, Checks1 DEF None
<1> QED
  BY <1>2, <1>3

\* What is good after a change that loses nothing else is good from the start, if it says
\* what it did.
LEMMA GoodAfter ==
  ASSUME NEW s, Sound(s), NEW t, NEW but, Keeps(s, t, but), NEW out, Good(t, out, but),
         out.error # None \/ out.steps # <<>>
  PROVE  Good(s, out, but)
<1>1. Keeps(s, out.scene, but)
  BY KeepsTransitive DEF Good
<1> QED
  BY <1>1 DEF Good

LEMMA CheckedOne ==
  ASSUME NEW s, NEW c, NEW out
  PROVE  Checked(s, <<c>>, out) = IF c[1] THEN out ELSE Fail(s, c[2])
<1> DEFINE T == {i \in DOMAIN <<c>> : ~<<c>>[i][1]}
<1>1. Checked(s, <<c>>, out) = IF T = {} THEN out ELSE Fail(s, <<c>>[Min(T)][2])
  BY DEF Checked
<1>2. T = IF c[1] THEN {} ELSE {1}
  OBVIOUS
<1>3. Min({1}) = 1 /\ <<c>>[1][2] = c[2]
  BY DEF Min
<1> HIDE DEF T
<1> QED
  BY <1>1, <1>2, <1>3

LEMMA CheckedLoud ==
  ASSUME NEW s, NEW c, c[2] # None, NEW t
  PROVE  LET out == Checked(s, <<c>>, Done(t)) IN out.error # None \/ out.steps # <<>>
<1>1. Checked(s, <<c>>, Done(t)) = IF c[1] THEN Done(t) ELSE Fail(s, c[2])
  BY CheckedOne
<1>2. Done(t).steps # <<>> /\ Fail(s, c[2]).error # None
  BY DEF Done, Fail
<1> QED
  BY <1>1, <1>2

LEMMA ObjectLevelEditLoud ==
  ASSUME NEW s, NEW a
  PROVE  LET out == ObjectLevelEdit(s, a) IN out.error # None \/ out.steps # <<>>
<1>1. CASE a.opt = "apply"
  BY <1>1, CheckedLoud DEF ObjectLevelEdit, None
<1>2. CASE a.opt # "apply"
  BY <1>2, CheckedLoud DEF ObjectLevelEdit, None
<1> QED
  BY <1>1, <1>2

LEMMA SameRoom ==
  ASSUME NEW s, NEW t, Objects(t) = Objects(s), NEW n, Room(s, n)
  PROVE  Room(t, n)
BY DEF Room

\* A mesh of its own for an object, ready to be edited.
LEMMA OwnReady ==
  ASSUME NEW s, Sound(s), NEW o, Kind(s, o) = "MESH", NEW but
  PROVE  LET t == Own(s, o)
         IN  /\ SameObjects(s, t) /\ Sound(t) /\ Keeps(s, t, but) /\ o \in Objects(t) /\ Kind(t, o) = "MESH"
             /\ Alone(t, o) /\ Objects(t) = Objects(s) /\ \A x : Kind(t, x) = Kind(s, x)
<1>1. o \in Objects(s) /\ Kind(s, o) # "EMPTY"
  BY MeshThere
<1>2. SameObjects(s, Own(s, o)) /\ Alone(Own(s, o), o)
  BY <1>1, OwnSame
<1> QED
  BY <1>1, <1>2, SameKeeps DEF SameObjects, Standing

LEMMA MeshEditGood ==
  ASSUME NEW s, Sound(s), Room(s, 1), NEW a, NEW but
  PROVE  Good(s, MeshEdit(s, a), but)
<1> DEFINE own == Own(s, a.o)
           field == IF a.opt = "normals" THEN "form" ELSE "count"
           out == IF a.opt \in {"separate", "apply"} THEN ObjectLevelEdit(own, a)
                  ELSE IF ~Valid(a, "faces") THEN Fail(own, "ModelingError")
                  ELSE Done(Edited(own, a.o, field))
<1>1. MeshEdit(s, a) = Checked(s, <<<<Valid(a, "operation"), "ModelingError">>, IsMesh(s, a.o)>>, out)
  BY DEF MeshEdit
<1>2. ASSUME Kind(s, a.o) = "MESH" PROVE Good(s, out, but)
  <2>1. /\ SameObjects(s, own) /\ Sound(own) /\ Keeps(s, own, but) /\ a.o \in Objects(own) /\ Kind(own, a.o) = "MESH"
        /\ Alone(own, a.o)
    BY <1>2, OwnReady
  <2> HIDE DEF own
  <2>2. Room(own, 1)
    BY <2>1, SameRoom DEF SameObjects, Standing
  <2>3. Good(own, ObjectLevelEdit(own, a), but)
    BY <2>1, <2>2, ObjectLevelEditGood
  <2>4. Good(s, ObjectLevelEdit(own, a), but)
    BY <2>1, <2>3, GoodAfter, ObjectLevelEditLoud
  <2>5. Good(s, Done(Edited(own, a.o, field)), but)
    BY <2>1, EditedKeeps, DoneGood
  <2>6. Good(s, Fail(own, "ModelingError"), but)
    BY <2>1, FailGood DEF None
  <2> QED
    BY <2>4, <2>5, <2>6
<1> DEFINE c1 == <<Valid(a, "operation"), "ModelingError">>
           c2 == IsMesh(s, a.o)
<1>3. c1[2] # None /\ c2[2] # None /\ (c2[1] <=> Kind(s, a.o) = "MESH")
  BY DEF IsMesh, None
<1>4. MeshEdit(s, a) = Checked(s, <<c1, c2>>, out)
  BY <1>1
<1> HIDE DEF out, c1, c2
<1> QED
  BY <1>2, <1>3, <1>4, Checks2

LEMMA MergedKeeps ==
  ASSUME NEW s, Sound(s), NEW gone, NEW o \in Objects(s) \ gone, Kind(s, o) = "MESH", Alone(s, o),
         NEW but, gone \subseteq but.objects
  PROVE  Keeps(s, Merged(s, gone, o), but) /\ Objects(Merged(s, gone, o)) = Objects(s) \ gone
<1> DEFINE t == Removed(s, gone)
<1>1. /\ Sound(t) /\ Keeps(s, t, but) /\ o \in Objects(t) /\ Kind(t, o) = "MESH" /\ Alone(t, o)
      /\ Objects(t) = Objects(s) \ gone
  <2>1. Loses(s, t, gone)
    BY RemovedLoses
  <2>2. Keeps(s, t, but)
    BY <2>1, LosesKeeps
  <2> QED
    BY <2>1, <2>2 DEF Loses, Apart
<1>2. Merged(s, gone, o) = Edited(t, o, "count")
  BY DEF Merged
<1> HIDE DEF t
<1>3. SameObjects(t, Edited(t, o, "count"))
  BY <1>1, EditedSame
<1> QED
  BY <1>1, <1>2, <1>3, EditedKeeps DEF SameObjects, Standing

LEMMA JoinObjectsGood ==
  ASSUME NEW s, Sound(s), NEW a, NEW but, a.o \in Meshes(s) => a.o \in but.objects
  PROVE  Good(s, JoinObjects(s, a), but)
<1> DEFINE own == Own(s, a.p)
           out == IF Valid(a, "join") THEN Done(Merged(own, {a.o}, a.p)) ELSE Fail(own, "ModelingError")
           c1 == <<Valid(a, "names"), "ModelingError">>
           c2 == IsMesh(s, a.p)
           c3 == IsMesh(s, a.o)
           c4 == <<a.o # a.p, "ModelingError">>
<1>1. JoinObjects(s, a) = Checked(s, <<c1, c2, c3, c4>>, out)
  BY DEF JoinObjects
<1>2. ASSUME Kind(s, a.p) = "MESH", Kind(s, a.o) = "MESH", a.o # a.p PROVE Good(s, out, but)
  <2>1. /\ SameObjects(s, own) /\ Sound(own) /\ Keeps(s, own, but) /\ a.p \in Objects(own) /\ Kind(own, a.p) = "MESH"
        /\ a.o \in but.objects /\ Alone(own, a.p)
    BY <1>2, OwnReady, MeshThere DEF Meshes
  <2> HIDE DEF own
  <2>2. Keeps(own, Merged(own, {a.o}, a.p), but)
    BY <1>2, <2>1, MergedKeeps
  <2> QED
    BY <2>1, <2>2, KeepsTransitive, DoneGood, FailGood DEF None
<1>3. /\ c1[2] # None /\ c2[2] # None /\ c3[2] # None /\ c4[2] # None
      /\ (c2[1] <=> Kind(s, a.p) = "MESH") /\ (c3[1] <=> Kind(s, a.o) = "MESH") /\ (c4[1] <=> a.o # a.p)
  BY DEF IsMesh, None
<1> HIDE DEF out, c1, c2, c3, c4
<1> QED
  BY <1>1, <1>2, <1>3, Checks4

LEMMA ParentObjectGood ==
  ASSUME NEW s, Sound(s), NEW a, NEW but
  PROVE  Good(s, ParentObject(s, a), but)
<1> DEFINE hung == Under(s, a.o, a.p)
           out == Done(Posed(hung, a.o, {"location"}))
           c1 == Exists(s, a.o)
           c2 == <<a.p = None \/ a.p \in Objects(s), "ModelingError">>
           c3 == <<a.o # a.p, "ModelingError">>
           c4 == <<a.p \in Objects(s) => a.o \notin Above(s, a.p), "ModelingError">>
<1>1. ParentObject(s, a) = Checked(s, <<c1, c2, c3, c4>>, out)
  BY DEF ParentObject
<1>2. ASSUME a.o \in Objects(s), a.p = None \/ a.p \in Objects(s), a.p \in Objects(s) => a.o \notin Above(s, a.p)
      PROVE  Good(s, out, but)
  <2>1. a.p = None => a.o \notin Above(s, a.p)
    BY AboveStep
  <2>2. SameObjects(s, hung)
    BY <1>2, <2>1, UnderSame
  <2> HIDE DEF hung
  <2>3. SameObjects(hung, Posed(hung, a.o, {"location"}))
    BY <2>2, PosedSame DEF SameObjects, Standing
  <2> QED
    BY <2>2, <2>3, SameTransitive, SameKeeps, DoneGood
<1>3. /\ c1[2] # None /\ c2[2] # None /\ c3[2] # None /\ c4[2] # None
      /\ (c1[1] <=> a.o \in Objects(s)) /\ (c2[1] <=> a.p = None \/ a.p \in Objects(s))
      /\ (c4[1] <=> (a.p \in Objects(s) => a.o \notin Above(s, a.p)))
  BY DEF Exists, None
<1> HIDE DEF out, c1, c2, c3, c4
<1> QED
  BY <1>1, <1>2, <1>3, Checks4

LEMMA ApplyTransformGood ==
  ASSUME NEW s, Sound(s), NEW a, NEW but
  PROVE  Good(s, ApplyTransform(s, a), but)
<1> DEFINE own  == Own(s, a.o)
           edit == Edited(own, a.o, "form")
           out  == Done(AtRest(edit, a.o, {"rotation", "scale"}))
<1>1. ApplyTransform(s, a) = Checked(s, <<IsMesh(s, a.o), <<Parent(s, a.o) = None, "ModelingError">>>>, out)
  BY DEF ApplyTransform
<1>2. ASSUME Kind(s, a.o) = "MESH" PROVE Good(s, out, but)
  <2>1. /\ SameObjects(s, own) /\ Sound(own) /\ Keeps(s, own, but) /\ a.o \in Objects(own) /\ Kind(own, a.o) = "MESH"
        /\ Alone(own, a.o)
    BY <1>2, OwnReady
  <2> HIDE DEF own
  <2>2. SameObjects(own, edit) /\ Sound(edit)
    BY <2>1, EditedSame, SameKeeps
  <2> HIDE DEF edit
  <2>3. SameObjects(edit, AtRest(edit, a.o, {"rotation", "scale"}))
    BY <2>2, AtRestSame
  <2> QED
    BY <2>1, <2>2, <2>3, SameTransitive, SameKeeps, DoneGood
<1> DEFINE c1 == IsMesh(s, a.o)
           c2 == <<Parent(s, a.o) = None, "ModelingError">>
<1>3. c1[2] # None /\ c2[2] # None /\ (c1[1] <=> Kind(s, a.o) = "MESH")
  BY DEF IsMesh, None
<1>4. ApplyTransform(s, a) = Checked(s, <<c1, c2>>, out)
  BY <1>1
<1> HIDE DEF out, c1, c2
<1> QED
  BY <1>2, <1>3, <1>4, Checks2

LEMMA SetOriginGood ==
  ASSUME NEW s, Sound(s), NEW a, NEW but
  PROVE  Good(s, SetOrigin(s, a), but)
<1> DEFINE own  == Own(s, a.o)
           edit == Edited(own, a.o, "form")
           out  == Done(Posed(edit, a.o, {"location"}))
<1>1. SetOrigin(s, a) = Checked(s, <<<<Valid(a, "mode"), "ModelingError">>, IsMesh(s, a.o),
                                    <<Parent(s, a.o) = None, "ModelingError">>>>, out)
  BY DEF SetOrigin
<1>2. ASSUME Kind(s, a.o) = "MESH" PROVE Good(s, out, but)
  <2>1. /\ SameObjects(s, own) /\ Sound(own) /\ Keeps(s, own, but) /\ a.o \in Objects(own) /\ Kind(own, a.o) = "MESH"
        /\ Alone(own, a.o)
    BY <1>2, OwnReady
  <2> HIDE DEF own
  <2>2. SameObjects(own, edit) /\ Sound(edit)
    BY <2>1, EditedSame, SameKeeps
  <2> HIDE DEF edit
  <2>3. SameObjects(edit, Posed(edit, a.o, {"location"}))
    BY <2>2, PosedSame
  <2> QED
    BY <2>1, <2>2, <2>3, SameTransitive, SameKeeps, DoneGood
<1> DEFINE c1 == <<Valid(a, "mode"), "ModelingError">>
           c2 == IsMesh(s, a.o)
           c3 == <<Parent(s, a.o) = None, "ModelingError">>
<1>3. c1[2] # None /\ c2[2] # None /\ c3[2] # None /\ (c2[1] <=> Kind(s, a.o) = "MESH")
  BY DEF IsMesh, None
<1>4. SetOrigin(s, a) = Checked(s, <<c1, c2, c3>>, out)
  BY <1>1
<1> HIDE DEF out, c1, c2, c3
<1> QED
  BY <1>2, <1>3, <1>4, Checks3

LEMMA PlaceOnSocketGood ==
  ASSUME NEW s, Sound(s), NEW a, NEW but
  PROVE  Good(s, PlaceOnSocket(s, a), but)
<1> DEFINE top  == IF a.o \in Above(s, a.p) THEN None ELSE a.p
           hung == IF a.opt = "free" THEN s ELSE Under(s, a.o, top)
           put  == Posed(hung, a.o, {"location", "rotation"})
           out  == IF Valid(a, "relative_scale") THEN Done(Posed(put, a.o, {"scale"})) ELSE Fail(put, "ModelingError")
           c1 == Exists(s, a.o)
           c2 == Exists(s, a.p)
           c3 == <<a.o # a.p, "ModelingError">>
           c4 == <<Valid(a, "socket"), "ModelingError">>
<1>1. PlaceOnSocket(s, a) = Checked(s, <<c1, c2, c3, c4>>, out)
  BY DEF PlaceOnSocket
<1>2. ASSUME a.o \in Objects(s), a.p \in Objects(s) PROVE Good(s, out, but)
  <2>1. top \in Objects(s) \cup {None} /\ a.o \notin Above(s, top)
    BY <1>2, AboveStep
  <2> HIDE DEF top
  <2>2. SameObjects(s, hung)
    <3>1. CASE a.opt = "free"
      BY <3>1, SameItself
    <3>2. CASE a.opt # "free"
      BY <1>2, <2>1, <3>2, UnderSame
    <3> QED
      BY <3>1, <3>2
  <2> HIDE DEF hung
  <2>3. SameObjects(hung, put) /\ Sound(put)
    BY <2>2, PosedSame DEF SameObjects, Standing
  <2> HIDE DEF put
  <2>4. SameObjects(put, Posed(put, a.o, {"scale"}))
    BY <2>3, PosedSame
  <2>5. Keeps(s, put, but) /\ Keeps(s, Posed(put, a.o, {"scale"}), but)
    BY <2>2, <2>3, <2>4, SameTransitive, SameKeeps
  <2> QED
    BY <2>5, DoneGood, FailGood DEF None
<1>3. /\ c1[2] # None /\ c2[2] # None /\ c3[2] # None /\ c4[2] # None
      /\ (c1[1] <=> a.o \in Objects(s)) /\ (c2[1] <=> a.p \in Objects(s))
  BY DEF Exists, None
<1> HIDE DEF out, c1, c2, c3, c4
<1> QED
  BY <1>1, <1>2, <1>3, Checks4

LEMMA CreateFromSpecGood ==
  ASSUME NEW s, Sound(s), Room(s, 2), NEW a, NEW but
  PROVE  Good(s, CreateFromSpec(s, a), but)
<1> DEFINE root == NewName(s)
           new  == Linked(s, root, "MESH")
           lies == Posed(new, root, {"location", "rotation"})
           one  == WithMaterial(lies, "asset")
           part == NewName(one)
           dyed == Slotted(one, root, "asset")
           more == Linked(dyed, part, "MESH")
           two  == Posed(more, part, {"location", "rotation"})
           full == Slotted(two, part, "asset")
           out  == IF Valid(a, "colour") THEN Done(Under(full, part, root)) ELSE Fail(one, "ValueError")
<1>1. CreateFromSpec(s, a) = Checked(s, <<<<Valid(a, "spec"), "ModelingError">>>>, out)
  BY DEF CreateFromSpec
<1>2. Good(s, out, but)
  <2>1. root \notin Objects(s) /\ root # None
    BY RoomForOne
  <2> HIDE DEF root
  <2>2. Gains(s, new, root, "MESH") /\ new.obj[root].parent = None
    BY <2>1, LinkedGains DEF Kinds
  <2>3. /\ Sound(new) /\ Objects(new) = Objects(s) \cup {root} /\ Keeps(s, new, but) /\ Kind(new, root) = "MESH"
        /\ Alone(new, root)
    BY <2>1, <2>2, GainsKeeps DEF Gains, Joined
  <2> HIDE DEF new
  <2>4. SameObjects(new, lies) /\ lies.obj[root].parent = None
    BY <2>2, <2>3, PosedSame DEF Alike
  <2> HIDE DEF lies
  <2>5. SameObjects(lies, one) /\ one.obj = lies.obj /\ "asset" \in DOMAIN one.mats
    BY <2>4, WithMaterialSame DEF SameObjects, Standing
  <2> HIDE DEF one
  <2>6. /\ SameObjects(new, one) /\ Sound(one) /\ Keeps(s, one, but) /\ Objects(one) = Objects(s) \cup {root}
        /\ Kind(one, root) = "MESH" /\ Alone(one, root)
    <3>1. SameObjects(new, one)
      BY <2>4, <2>5, SameTransitive
    <3>2. Keeps(s, one, but)
      BY <2>3, <3>1, SameKeeps, KeepsTransitive
    <3> QED
      BY <2>3, <3>1, <3>2 DEF SameObjects, Standing, Apart
  <2>7. part \notin Objects(one) /\ part # None
    <3>1. Room(one, 2 - 1)
      BY <2>6, RoomLeft
    <3> QED
      BY <3>1, RoomForOne
  <2> HIDE DEF part
  <2>8. SameObjects(one, dyed) /\ dyed.obj = one.obj /\ dyed.mats = one.mats
    BY <2>3, <2>5, <2>6, SlottedSame
  <2> HIDE DEF dyed
  <2>9. /\ Gains(dyed, more, part, "MESH") /\ more.mats = dyed.mats
        /\ \A x \in Objects(dyed) : more.obj[x] = dyed.obj[x]
    BY <2>7, <2>8, LinkedGains DEF Kinds, SameObjects, Standing
  <2> HIDE DEF more
  <2>10. SameObjects(more, two) /\ Alike(more, two) /\ two.mats = more.mats
    BY <2>9, PosedSame DEF Gains, Joined
  <2> HIDE DEF two
  <2>11. /\ part \in Objects(two) /\ Kind(two, part) = "MESH" /\ Sound(two) /\ "asset" \in DOMAIN two.mats
         /\ Alone(two, part)
    BY <2>5, <2>8, <2>9, <2>10 DEF Gains, Joined, SameObjects, Standing, Apart
  <2>12. SameObjects(two, full) /\ full.obj = two.obj
    BY <2>11, SlottedSame
  <2> HIDE DEF full
  <2>13. Sound(full) /\ Keeps(one, full, but) /\ Objects(full) = Objects(one) \cup {part}
    <3>1. SameObjects(more, full)
      BY <2>10, <2>12, SameTransitive
    <3> QED
      <4>1. Keeps(one, dyed, but) /\ Keeps(dyed, more, but) /\ Keeps(more, full, but) /\ part \notin Objects(dyed)
        BY <2>7, <2>8, <2>9, <3>1, SameKeeps, GainsKeeps DEF SameObjects, Standing
      <4>2. Keeps(one, full, but)
        BY <2>6, <2>8, <4>1, KeepsTransitive DEF SameObjects, Standing
      <4> QED
        BY <2>8, <2>9, <3>1, <4>2 DEF Gains, Joined, SameObjects, Standing
  <2>14. root \in Objects(full) /\ full.obj[root].parent = None /\ part # root /\ part \in Objects(full)
    BY <2>4, <2>5, <2>6, <2>7, <2>8, <2>9, <2>10, <2>12, <2>13 DEF Gains, Joined, SameObjects, Standing, Alike
  <2>15. SameObjects(full, Under(full, part, root))
    BY <2>13, <2>14, UnderTop DEF Parent
  <2>16. Keeps(s, Under(full, part, root), but)
    BY <2>6, <2>13, <2>15, SameKeeps, KeepsTransitive
  <2> QED
    BY <2>6, <2>16, DoneGood, FailGood DEF None
<1> HIDE DEF out
<1> QED
  BY <1>1, <1>2, Checks1 DEF None

-----------------------------------------------------------------------------
(* Props, characters and terrain *)

LEMMA PolishedSame ==
  ASSUME NEW s, Sound(s), NEW o, Kind(s, o) = "MESH"
  PROVE  SameObjects(s, Polished(s, o)) /\ Sound(Polished(s, o))
<1> DEFINE own == Own(s, o)
<1>1. SameObjects(s, own) /\ Sound(own) /\ o \in Objects(own) /\ Kind(own, o) = "MESH" /\ Alone(own, o)
  BY OwnReady
<1>2. Polished(s, o) = Edited(own, o, "count")
  BY DEF Polished
<1> HIDE DEF own
<1>3. SameObjects(own, Edited(own, o, "count"))
  BY <1>1, EditedSame
<1> QED
  BY <1>1, <1>2, <1>3, SameTransitive DEF SameObjects, Standing

LEMMA PolishModelGood ==
  ASSUME NEW s, Sound(s), NEW a, NEW but
  PROVE  Good(s, PolishModel(s, a), but)
<1> DEFINE once == Polished(s, a.o)
           out  == IF ~Valid(a, "first") THEN Fail(Own(s, a.o), "ModelingError")
                   ELSE IF a.p = None THEN Done(once)
                   ELSE IF Kind(s, a.p) # "MESH" THEN Fail(once, "ModelingError")
                   ELSE IF ~Valid(a, "second") THEN Fail(Own(once, a.p), "ModelingError")
                   ELSE Done(Polished(once, a.p))
           c1 == <<Valid(a, "numbers"), "ModelingError">>
           c2 == IsMesh(s, a.o)
<1>1. PolishModel(s, a) = Checked(s, <<c1, c2>>, out)
  BY DEF PolishModel
<1>2. ASSUME Kind(s, a.o) = "MESH" PROVE Good(s, out, but)
  <2>1. Keeps(s, Own(s, a.o), but)
    BY <1>2, OwnReady
  <2>2. SameObjects(s, once) /\ Sound(once) /\ Keeps(s, once, but)
    BY <1>2, PolishedSame, SameKeeps
  <2> HIDE DEF once
  <2>3. CASE a.p = None \/ Kind(s, a.p) # "MESH" \/ ~Valid(a, "first")
    BY <2>1, <2>2, <2>3, DoneGood, FailGood DEF None
  <2>4. CASE Kind(s, a.p) = "MESH"
    <3>1. Kind(once, a.p) = "MESH"
      BY <2>2, <2>4 DEF SameObjects, Standing
    <3>2. Keeps(s, Own(once, a.p), but)
      BY <2>2, <3>1, OwnReady, KeepsTransitive
    <3>3. Keeps(s, Polished(once, a.p), but)
      BY <2>2, <3>1, PolishedSame, SameKeeps, KeepsTransitive
    <3> QED
      BY <2>1, <2>2, <3>2, <3>3, DoneGood, FailGood DEF None
  <2> QED
    BY <2>3, <2>4
<1>3. c1[2] # None /\ c2[2] # None /\ (c2[1] <=> Kind(s, a.o) = "MESH")
  BY DEF IsMesh, None
<1> HIDE DEF out, c1, c2
<1> QED
  BY <1>1, <1>2, <1>3, Checks2

\* The arguments of a call.
Args(a) == a = [tool |-> a.tool, risk |-> a.risk, o |-> a.o, p |-> a.p, opt |-> a.opt, bad |-> a.bad]

\* What a prop is made of.
LEMMA PropParts ==
  ASSUME NEW s, Sound(s), Room(s, 2), NEW but
  PROVE  LET body == NewName(s)
             one  == Slotted(WithMaterial(Linked(s, body, "MESH"), "prop"), body, "prop")
             part == NewName(one)
             two  == Slotted(Linked(one, part, "MESH"), part, "prop")
         IN  /\ Sound(two) /\ Keeps(s, two, but)
             /\ Kind(two, body) = "MESH" /\ Kind(two, part) = "MESH" /\ body # part
             /\ part \notin Objects(s) /\ body \notin Objects(s)
<1> DEFINE body == NewName(s)
           new  == Linked(s, body, "MESH")
           dyed == WithMaterial(new, "prop")
           one  == Slotted(dyed, body, "prop")
           part == NewName(one)
           more == Linked(one, part, "MESH")
           two  == Slotted(more, part, "prop")
<1>1. body \notin Objects(s) /\ body # None
  BY RoomForOne
<1> HIDE DEF body
<1>2. Gains(s, new, body, "MESH") /\ Sound(new) /\ Keeps(s, new, but) /\ Kind(new, body) = "MESH"
      /\ Objects(new) = Objects(s) \cup {body}
  BY <1>1, LinkedGains, GainsKeeps DEF Kinds, Gains, Joined
<1> HIDE DEF new
<1>3. SameObjects(new, dyed) /\ "prop" \in DOMAIN dyed.mats
  BY <1>2, WithMaterialSame
<1> HIDE DEF dyed
<1>4. SameObjects(dyed, one) /\ one.mats = dyed.mats
  BY <1>2, <1>3, SlottedSame DEF Gains, SameObjects, Standing, Apart
<1> HIDE DEF one
<1>5. SameObjects(new, one) /\ Sound(one) /\ Objects(one) = Objects(s) \cup {body} /\ Kind(one, body) = "MESH" /\ Keeps(s, one, but)
  <2>1. SameObjects(new, one)
    BY <1>3, <1>4, SameTransitive
  <2>2. Keeps(s, one, but)
    BY <1>2, <2>1, SameKeeps, KeepsTransitive
  <2> QED
    BY <1>2, <2>1, <2>2 DEF SameObjects, Standing
<1>6. part \notin Objects(one) /\ part # None
  <2>1. 2 \in Nat \ {0} /\ 2 - 1 = 1 /\ Objects(one) = Objects(s) \cup {body}
    BY <1>5
  <2> HIDE DEF part
  <2>2. Room(one, 2 - 1)
    BY <2>1, RoomLeft
  <2>3. Room(one, 1)
    BY <2>1, <2>2
  <2> QED
    BY <2>3, RoomForOne DEF part
<1> HIDE DEF part
<1>7. /\ Gains(one, more, part, "MESH") /\ Sound(more) /\ Keeps(one, more, but) /\ more.mats = one.mats
      /\ part \in Objects(more) /\ Kind(more, part) = "MESH" /\ Kind(more, body) = "MESH" /\ part # body
      /\ Alone(more, part)
  BY <1>5, <1>6, LinkedGains, GainsKeeps DEF Kinds, Gains, Joined
<1> HIDE DEF more
<1>8. SameObjects(more, two)
  BY <1>3, <1>4, <1>7, SlottedSame
<1> HIDE DEF two
<1>9. Sound(two) /\ Keeps(s, two, but)
  BY <1>5, <1>7, <1>8, SameKeeps, KeepsTransitive
<1>10. Kind(two, body) = "MESH" /\ Kind(two, part) = "MESH"
  BY <1>7, <1>8 DEF SameObjects, Standing
<1> QED
  BY <1>1, <1>5, <1>6, <1>7, <1>9, <1>10 DEF two, more, part, one, dyed, new, body

LEMMA CreatePropGood ==
  ASSUME NEW s, Sound(s), Room(s, 2), NEW a, Args(a), NEW but
  PROVE  Good(s, CreateProp(s, a), but)
<1> DEFINE body == NewName(s)
           one  == Slotted(WithMaterial(Linked(s, body, "MESH"), "prop"), body, "prop")
           part == NewName(one)
           two  == Slotted(Linked(one, part, "MESH"), part, "prop")
           b    == [a EXCEPT !.o = part, !.p = body]
           join == JoinObjects(two, b)
           out  == IF a.opt = "rigged" THEN Done(Polished(Polished(two, body), part))
                   ELSE IF join.error # None THEN join
                   ELSE OneStep(join, Polished(join.scene, body))
<1>1. CreateProp(s, a) = Checked(s, <<<<Valid(a, "kind"), "ModelingError">>>>, out)
  BY DEF CreateProp
<1>2. /\ Sound(two) /\ Keeps(s, two, but)
      /\ Kind(two, body) = "MESH" /\ Kind(two, part) = "MESH" /\ body # part
      /\ part \notin Objects(s) /\ body \notin Objects(s)
  BY PropParts
<1>3. Good(s, out, but)
  <2> HIDE DEF body, part, two
  <2>1. b.o = part /\ b.p = body
    BY DEF Args
  <2> HIDE DEF b
  <2> DEFINE more == [objects |-> but.objects \cup {part}, fields |-> but.fields]
  <2>2. Good(two, join, more)
    BY <1>2, <2>1, JoinObjectsGood
  <2> HIDE DEF join
  <2>3. Keeps(s, join.scene, but)
    <3>1. Keeps(two, join.scene, more)
      BY <2>2 DEF Good
    <3>2. ASSUME NEW o \in Objects(s) \ but.objects PROVE Kind(join.scene, o) = Kind(s, o)
      <4>1. Kind(two, o) = Kind(s, o) /\ Kind(s, o) # None /\ o # part
        BY <1>2, KindOfObject DEF Keeps
      <4>2. o \in Objects(two) \ more.objects
        BY <1>2, <4>1, KindOfObject
      <4> QED
        BY <3>1, <4>1, <4>2 DEF Keeps
    <3>3. Sound(join.scene) /\ Leaves(two, join.scene, but.fields) /\ Leaves(s, two, but.fields)
      BY <1>2, <3>1 DEF Keeps
    <3> QED
      BY <3>2, <3>3, LeavesMore DEF Keeps
  <2>4. CASE a.opt = "rigged"
    <3>1. SameObjects(two, Polished(two, body)) /\ Sound(Polished(two, body)) /\ Kind(Polished(two, body), part) = "MESH"
      BY <1>2, PolishedSame DEF SameObjects, Standing
    <3>2. SameObjects(Polished(two, body), Polished(Polished(two, body), part))
      BY <3>1, PolishedSame
    <3>3. Keeps(s, Polished(Polished(two, body), part), but)
      BY <1>2, <3>1, <3>2, SameTransitive, SameKeeps, KeepsTransitive
    <3> QED
      BY <2>4, <3>3, DoneGood
  <2>5. CASE a.opt # "rigged" /\ join.error # None
    BY <2>2, <2>3, <2>5 DEF Good
  <2>6. CASE a.opt # "rigged" /\ join.error = None
    <3> DEFINE only == [objects |-> {part}, fields |-> {}]
    <3>0. Good(two, join, only)
      BY <1>2, <2>1, JoinObjectsGood DEF join
    <3>1. Sound(join.scene) /\ Kind(join.scene, body) = "MESH"
      <4>1. body \in Objects(two) \ only.objects
        BY <1>2, MeshThere
      <4> QED
        BY <1>2, <3>0, <4>1 DEF Good, Keeps
    <3>2. Keeps(s, Polished(join.scene, body), but)
      BY <2>3, <3>1, PolishedSame, SameKeeps, KeepsTransitive
    <3> QED
      BY <2>6, <3>2, DoneGood DEF OneStep
  <2> QED
    BY <2>4, <2>5, <2>6
<1> HIDE DEF out
<1> QED
  BY <1>1, <1>3, Checks1 DEF None

LEMMA PivotedSame ==
  ASSUME NEW s, Sound(s), NEW o, Kind(s, o) = "MESH"
  PROVE  SameObjects(s, Pivoted(s, o)) /\ Sound(Pivoted(s, o))
<1> DEFINE free == Under(s, o, None)
           own  == Own(free, o)
           edit == Edited(own, o, "form")
<1>1. o \in Objects(s)
  BY MeshThere
<1>2. SameObjects(s, free) /\ Sound(free) /\ Kind(free, o) = "MESH"
  BY <1>1, UnderNothing DEF SameObjects, Standing
<1>3. Pivoted(s, o) = Posed(edit, o, {"location"})
  BY DEF Pivoted
<1> HIDE DEF free
<1>4. SameObjects(free, own) /\ Sound(own) /\ o \in Objects(own) /\ Kind(own, o) = "MESH" /\ Alone(own, o)
  BY <1>2, OwnReady
<1> HIDE DEF own
<1>5. SameObjects(own, edit) /\ Sound(edit)
  BY <1>4, EditedSame, SameKeeps
<1> HIDE DEF edit
<1>6. SameObjects(edit, Posed(edit, o, {"location"}))
  BY <1>5, PosedSame
<1>7. SameObjects(s, Posed(edit, o, {"location"}))
  BY <1>2, <1>4, <1>5, <1>6, SameTransitive
<1> QED
  BY <1>3, <1>7 DEF SameObjects, Standing

\* The step from s to t keeps the objects, what they are and the data they show.
Undisturbed(s, t) == SameObjects(s, t) /\ t.data = s.data /\ \A x \in Objects(s) : t.obj[x].data = s.obj[x].data

\* A rig above all meshes: torso and leg hang under it, the others on the torso.
LEMMA RiggedSame ==
  ASSUME NEW s, Sound(s), NEW meshes, NEW rig \in Objects(s), rig \notin meshes, s.obj[rig].parent = None,
         NEW o \in meshes, NEW leg \in meshes, meshes \subseteq Objects(s)
  PROVE  LET t == [s EXCEPT !.obj = [x \in DOMAIN @ |->
                      IF x \in {o, leg} THEN [@[x] EXCEPT !.parent = rig]
                      ELSE IF x \in meshes THEN [@[x] EXCEPT !.parent = o]
                      ELSE @[x]]]
         IN  Undisturbed(s, t)
<1> DEFINE f == [x \in Objects(s) |-> IF x \in {o, leg} THEN [s.obj[x] EXCEPT !.parent = rig]
                                      ELSE IF x \in meshes THEN [s.obj[x] EXCEPT !.parent = o]
                                      ELSE s.obj[x]]
           t == [s EXCEPT !.obj = [x \in DOMAIN @ |->
                           IF x \in {o, leg} THEN [@[x] EXCEPT !.parent = rig]
                           ELSE IF x \in meshes THEN [@[x] EXCEPT !.parent = o]
                           ELSE @[x]]]
<1>1. t = [s EXCEPT !.obj = f]
  BY DEF Objects
<1> HIDE DEF t
<1>2. PICK r \in [Objects(s) -> Nat] : \A x \in Objects(s) : s.obj[x].parent # None => r[s.obj[x].parent] < r[x]
  BY DEF Sound, Ranked
<1>3. \A x \in Objects(s) : Item(s.obj[x]) /\ s.obj[x].parent \in Objects(s) \cup {None}
  BY DEF Sound, Formed, Referred, Item
<1>4. \A x \in Objects(s) : \A p : LET i == [s.obj[x] EXCEPT !.parent = p]
                                   IN  Item(i) /\ i.kind = s.obj[x].kind /\ i.data = s.obj[x].data /\ i.parent = p
  <2> TAKE x \in Objects(s)
  <2> TAKE p
  <2> DEFINE i == s.obj[x]
  <2>1. Item(i)
    BY <1>3
  <2> HIDE DEF i
  <2>2. LET j == [i EXCEPT !.parent = p]
        IN  Item(j) /\ j.kind = i.kind /\ j.data = i.data /\ j.parent = p
    BY <2>1 DEF Item
  <2> QED
    BY <2>2 DEF i
<1>5. \A x \in Objects(s) : /\ Item(f[x]) /\ f[x].kind = s.obj[x].kind /\ f[x].data = s.obj[x].data
                            /\ f[x].parent = IF x \in {o, leg} THEN rig ELSE IF x \in meshes THEN o ELSE s.obj[x].parent
  BY <1>3, <1>4
<1>6. f = [x \in Objects(s) |-> f[x]]
  OBVIOUS
<1> HIDE DEF f
<1>7. \A x \in Objects(s) : f[x].parent \in Objects(s) \cup {None}
  BY <1>3, <1>5
<1> DEFINE q == [x \in Objects(s) |-> IF x = rig THEN 0 ELSE IF x \in {o, leg} THEN 1 ELSE IF x \in meshes THEN 2 ELSE r[x] + 3]
<1>8. q \in [Objects(s) -> Nat]
  BY <1>2
<1>9. \A x \in Objects(s) : f[x].parent # None => q[f[x].parent] < q[x]
  <2> SUFFICES ASSUME NEW x \in Objects(s), f[x].parent # None PROVE q[f[x].parent] < q[x]
    OBVIOUS
  <2>1. CASE x \in {o, leg}
    <3>1. x # rig /\ f[x].parent = rig
      BY <1>5, <2>1
    <3> QED
      BY <2>1, <3>1
  <2>2. CASE x \notin {o, leg} /\ x \in meshes
    <3>1. x # rig /\ f[x].parent = o /\ o \in Objects(s) /\ o # rig
      BY <1>5, <2>2
    <3> QED
      BY <2>2, <3>1
  <2>3. CASE x \notin meshes
    <3> DEFINE y == s.obj[x].parent
    <3>1. f[x].parent = y /\ x # rig
      BY <1>5, <2>3
    <3>2. y \in Objects(s) /\ r[y] < r[x]
      BY <1>2, <1>3, <3>1
    <3> HIDE DEF y
    <3>3. r[x] \in Nat /\ r[y] \in Nat
      BY <1>2, <3>2
    <3>4. q[x] = r[x] + 3 /\ q[y] \in {0, 1, 2, r[y] + 3}
      BY <2>3, <3>1, <3>2
    <3> HIDE DEF q
    <3> QED
      BY <3>1, <3>2, <3>3, <3>4
  <2> QED
    BY <2>1, <2>2, <2>3
<1> HIDE DEF q
<1>10. LET u == [s EXCEPT !.obj = f] IN SameObjects(s, u) /\ u.obj = f /\ u.data = s.data
  BY <1>5, <1>6, <1>7, <1>8, <1>9, Rehung
<1>11. Undisturbed(s, t)
  BY <1>1, <1>5, <1>10 DEF Undisturbed
<1> QED
  BY <1>11 DEF t

LEMMA RigCharacterGood ==
  ASSUME NEW s, Sound(s), Room(s, 1), NEW a, NEW but
  PROVE  Good(s, RigCharacter(s, a), but)
<1> DEFINE leg    == CHOOSE x \in Meshes(s) \ {a.o, a.p} : TRUE
           once   == Pivoted(s, a.o)
           twice  == Pivoted(once, a.p)
           moved  == Pivoted(twice, leg)
           rig    == NewName(moved)
           new    == Linked(moved, rig, "EMPTY")
           put    == Posed(new, rig, {"location"})
           stands == [put EXCEPT !.obj[rig].roles = {a.o, a.p, leg}]
           meshes == Meshes(s)
           hung   == [stands EXCEPT !.obj = [x \in DOMAIN @ |->
                        IF x \in {a.o, leg} THEN [@[x] EXCEPT !.parent = rig]
                        ELSE IF x \in meshes THEN [@[x] EXCEPT !.parent = a.o]
                        ELSE @[x]]]
           out == Done(hung)
           c1 == <<Valid(a, "name"), "ModelingError">>
           c2 == IsMesh(s, a.o)
           c3 == IsMesh(s, a.p)
           c4 == <<Valid(a, "parts"), "ModelingError">>
           c5 == <<a.o # a.p, "ModelingError">>
           c6 == <<meshes \ {a.o, a.p} # {}, "ModelingError">>
<1>1. RigCharacter(s, a) = Checked(s, <<c1, c2, c3, c4, c5, c6>>, out)
  BY DEF RigCharacter
<1>2. ASSUME Kind(s, a.o) = "MESH", Kind(s, a.p) = "MESH", meshes \ {a.o, a.p} # {} PROVE Good(s, out, but)
  <2>1. leg \in meshes /\ Kind(s, leg) = "MESH" /\ a.o \in meshes /\ a.p \in meshes /\ meshes \subseteq Objects(s)
    BY <1>2, MeshThere DEF Meshes
  <2> HIDE DEF leg, meshes
  <2>2. SameObjects(s, once) /\ Sound(once)
    BY <1>2, PivotedSame
  <2> HIDE DEF once
  <2>3. SameObjects(s, twice) /\ Sound(twice)
    <3>1. Kind(once, a.p) = "MESH"
      BY <1>2, <2>2 DEF SameObjects, Standing
    <3> QED
      BY <2>2, <3>1, PivotedSame, SameTransitive
  <2> HIDE DEF twice
  <2>4. SameObjects(s, moved) /\ Sound(moved)
    <3>1. Kind(twice, leg) = "MESH"
      BY <2>1, <2>3 DEF SameObjects, Standing
    <3> QED
      BY <2>3, <3>1, PivotedSame, SameTransitive
  <2> HIDE DEF moved
  <2>5. rig \notin Objects(moved) /\ rig # None
    <3>1. Room(moved, 1)
      BY <2>4, SameRoom DEF SameObjects, Standing
    <3> QED
      BY <3>1, RoomForOne
  <2> HIDE DEF rig
  <2>6. Gains(moved, new, rig, "EMPTY") /\ new.obj[rig].parent = None /\ Keeps(moved, new, but)
    BY <2>4, <2>5, LinkedGains, GainsKeeps DEF Kinds
  <2> HIDE DEF new
  <2>7. SameObjects(new, put) /\ Alike(new, put)
    BY <2>6, PosedSame DEF Gains, Joined
  <2> HIDE DEF put
  <2>8. SameObjects(put, stands) /\ Alike(put, stands)
    <3>1. Sound(put)
      BY <2>7 DEF SameObjects, Standing
    <3> QED
      BY <3>1, RolesSet
  <2> HIDE DEF stands
  <2>9. /\ Sound(stands) /\ SameObjects(new, stands) /\ rig \in Objects(stands) /\ rig \notin meshes
        /\ stands.obj[rig].parent = None /\ meshes \subseteq Objects(stands)
    <3>1. SameObjects(new, stands)
      BY <2>7, <2>8, SameTransitive
    <3>2. Sound(stands) /\ rig \in Objects(stands) /\ stands.obj[rig].parent = None
      BY <2>6, <2>7, <2>8 DEF SameObjects, Standing, Alike, Gains, Joined
    <3>3. rig \notin meshes /\ meshes \subseteq Objects(stands)
      BY <2>1, <2>4, <2>5, <2>6, <3>1 DEF SameObjects, Standing, Gains, Joined
    <3> QED
      BY <3>1, <3>2, <3>3
  <2>10. Undisturbed(stands, hung)
    BY <2>1, <2>9, RiggedSame
  <2> HIDE DEF hung
  <2>11. Keeps(s, hung, but)
    <3>1. SameObjects(new, hung)
      BY <2>9, <2>10, SameTransitive DEF Undisturbed
    <3> QED
      BY <2>4, <2>6, <3>1, SameKeeps, KeepsTransitive
  <2> QED
    BY <2>11, DoneGood
<1>3. /\ c1[2] # None /\ c2[2] # None /\ c3[2] # None /\ c4[2] # None /\ c5[2] # None /\ c6[2] # None
      /\ (c2[1] <=> Kind(s, a.o) = "MESH") /\ (c3[1] <=> Kind(s, a.p) = "MESH")
      /\ (c6[1] <=> meshes \ {a.o, a.p} # {})
  BY DEF IsMesh, None
<1> HIDE DEF out, c1, c2, c3, c4, c5, c6
<1> QED
  BY <1>1, <1>2, <1>3, Checks6

LEMMA ActedSame ==
  ASSUME NEW s, Sound(s), NEW rig
  PROVE  SameObjects(s, Acted(s, rig))
<1> DEFINE parts == (s.obj[rig].roles \cap Objects(s)) \ {rig}
           f == [x \in Objects(s) |->
                  IF x \in parts THEN [s.obj[x] EXCEPT !.pose.rotation = 1, !.pose.scale = 0]
                  ELSE IF x = rig THEN [s.obj[x] EXCEPT !.pose.rotation = 1]
                  ELSE s.obj[x]]
           acted == [s EXCEPT !.obj = f]
           put   == Posed(acted, rig, {"location"})
<1>1. Acted(s, rig) = Bumped(put, {"frames", "frame"})
  BY DEF Acted, Objects
<1> HIDE DEF parts
<1>2. PICK r \in [Objects(s) -> Nat] : \A x \in Objects(s) : s.obj[x].parent # None => r[s.obj[x].parent] < r[x]
  BY DEF Sound, Ranked
<1>3. \A x \in Objects(s) : Item(s.obj[x]) /\ s.obj[x].parent \in Objects(s) \cup {None}
  BY DEF Sound, Formed, Referred, Item
<1>4. \A x \in Objects(s) : \A j \in {[s.obj[x] EXCEPT !.pose.rotation = 1, !.pose.scale = 0],
                                       [s.obj[x] EXCEPT !.pose.rotation = 1]} :
        Item(j) /\ j.kind = s.obj[x].kind /\ j.data = s.obj[x].data /\ j.parent = s.obj[x].parent
  <2> TAKE x \in Objects(s)
  <2> DEFINE i == s.obj[x]
             k == [i EXCEPT !.pose.rotation = 1]
             j == [k EXCEPT !.pose.scale = 0]
  <2>1. Item(i)
    BY <1>3
  <2>2. [i EXCEPT !.pose.rotation = 1, !.pose.scale = 0] = j
    OBVIOUS
  <2> HIDE DEF i
  <2>3. Item(k) /\ k.kind = i.kind /\ k.data = i.data /\ k.parent = i.parent
    BY <2>1 DEF Item
  <2> HIDE DEF k
  <2>4. Item(j) /\ j.kind = k.kind /\ j.data = k.data /\ j.parent = k.parent
    BY <2>3 DEF Item
  <2> HIDE DEF j
  <2> QED
    BY <2>2, <2>3, <2>4 DEF i, k
<1>5. \A x \in Objects(s) : Item(f[x]) /\ f[x].kind = s.obj[x].kind /\ f[x].data = s.obj[x].data /\ f[x].parent = s.obj[x].parent
  BY <1>3, <1>4
<1>6. f = [x \in Objects(s) |-> f[x]]
  OBVIOUS
<1> HIDE DEF f
<1>7. SameObjects(s, acted)
  BY <1>2, <1>3, <1>5, <1>6, Rehung
<1> HIDE DEF acted
<1>8. SameObjects(acted, put) /\ Sound(put)
  BY <1>7, PosedSame DEF SameObjects, Standing
<1> HIDE DEF put
<1> QED
  BY <1>1, <1>7, <1>8, BumpedSame, SameTransitive

LEMMA AnimateGood ==
  ASSUME NEW s, Sound(s), NEW a, NEW but
  PROVE  Good(s, AnimateCharacter(s, a), but) /\ Good(s, AnimateSequence(s, a), but)
<1> DEFINE out == Done(Acted(s, a.o))
           c1 == <<Valid(a, "preset"), "ModelingError">>
           c2 == IsRig(s, a.o)
           c3 == <<Valid(a, "numbers"), "ModelingError">>
           d1 == <<Valid(a, "segments"), "ModelingError">>
           d3 == <<Valid(a, "plan"), "ModelingError">>
<1>1. AnimateCharacter(s, a) = Checked(s, <<c1, c2, c3>>, out) /\ AnimateSequence(s, a) = Checked(s, <<d1, c2, d3>>, out)
  BY DEF AnimateCharacter, AnimateSequence
<1>2. Good(s, out, but)
  BY ActedSame, SameKeeps, DoneGood
<1>3. c1[2] # None /\ c2[2] # None /\ c3[2] # None /\ d1[2] # None /\ d3[2] # None
  BY DEF IsRig, None
<1> HIDE DEF out, c1, c2, c3, d1, d3
<1> QED
  BY <1>1, <1>2, <1>3, Checks3

LEMMA CharacterLibraryGood ==
  ASSUME NEW s, Sound(s), Room(s, 2), NEW a, NEW but
  PROVE  Good(s, CharacterLibrary(s, a), but)
<1> DEFINE rig    == NewName(s)
           new    == Linked(s, rig, "EMPTY")
           stands == Posed(new, rig, {"location"})
           part   == NewName(stands)
           cast   == [stands EXCEPT !.obj[rig].roles = {part}]
           more   == Linked(cast, part, "MESH")
           loaded == Under(more, part, rig)
           out    == Done(loaded)
           c1 == <<Valid(a, "name"), "ModelingError">>
           c2 == IsRig(s, a.o)
           c3 == <<Valid(a, "file"), "ModelingError">>
           c4 == <<Valid(a, "location"), "ModelingError">>
           c5 == <<Valid(a, "rig"), "ModelingError">>
<1>1. CharacterLibrary(s, a) \in {Quiet(s), Checked(s, <<c1, c2>>, Quiet(s)), Checked(s, <<c1, c3, c4, c5>>, out)}
  <2>1. CharacterLibrary(s, a) = CASE a.opt = "list" -> Quiet(s)
                                   [] a.opt = "save" -> Checked(s, <<c1, c2>>, Quiet(s))
                                   [] OTHER -> Checked(s, <<c1, c3, c4, c5>>, out)
    BY DEF CharacterLibrary
  <2> HIDE DEF out, c1, c2, c3, c4, c5
  <2> QED
    BY <2>1
<1>2. Good(s, out, but)
  <2>1. rig \notin Objects(s) /\ rig # None
    BY RoomForOne
  <2> HIDE DEF rig
  <2>2. /\ Gains(s, new, rig, "EMPTY") /\ new.obj[rig].parent = None /\ Keeps(s, new, but) /\ Sound(new)
        /\ Objects(new) = Objects(s) \cup {rig}
    BY <2>1, LinkedGains, GainsKeeps DEF Kinds, Gains, Joined
  <2> HIDE DEF new
  <2>3. SameObjects(new, stands) /\ Alike(new, stands) /\ Sound(stands)
    BY <2>2, PosedSame DEF SameObjects, Standing
  <2> HIDE DEF stands
  <2>4. part \notin Objects(stands) /\ part # None
    <3>1. 2 \in Nat \ {0} /\ 2 - 1 = 1 /\ Objects(stands) = Objects(s) \cup {rig}
      BY <2>2, <2>3 DEF SameObjects, Standing
    <3> HIDE DEF part
    <3>2. Room(stands, 2 - 1)
      BY <3>1, RoomLeft
    <3>3. Room(stands, 1)
      BY <3>1, <3>2
    <3> QED
      BY <3>3, RoomForOne DEF part
  <2> HIDE DEF part
  <2>5. SameObjects(stands, cast) /\ Alike(stands, cast) /\ Sound(cast)
    <3>1. SameObjects(stands, cast) /\ Alike(stands, cast)
      BY <2>3, RolesSet
    <3> HIDE DEF cast
    <3> QED
      BY <3>1 DEF SameObjects, Standing
  <2> HIDE DEF cast
  <2>6. /\ Gains(cast, more, part, "MESH") /\ Keeps(cast, more, but) /\ Sound(more)
        /\ \A x \in Objects(cast) : more.obj[x] = cast.obj[x]
    <3>1. part \notin Objects(cast) /\ Sound(cast) /\ part # None
      BY <2>4, <2>5 DEF SameObjects, Standing
    <3>2. Gains(cast, more, part, "MESH") /\ \A x \in Objects(cast) : more.obj[x] = cast.obj[x]
      BY <3>1, LinkedGains DEF Kinds
    <3> HIDE DEF more
    <3> QED
      BY <3>1, <3>2, GainsKeeps DEF Gains, Joined
  <2> HIDE DEF more
  <2>7. rig \in Objects(cast) /\ cast.obj[rig].parent = None
    BY <2>2, <2>3, <2>5 DEF SameObjects, Standing, Alike
  <2>8. rig \in Objects(more) \ {part} /\ part \in Objects(more) /\ Parent(more, rig) = None
    BY <2>4, <2>5, <2>6, <2>7 DEF SameObjects, Standing, Gains, Joined, Parent
  <2>9. SameObjects(more, loaded)
    BY <2>6, <2>8, UnderTop
  <2> HIDE DEF loaded
  <2>10. Keeps(s, loaded, but)
    BY <2>2, <2>3, <2>5, <2>6, <2>9, SameKeeps, KeepsTransitive
  <2> QED
    BY <2>10, DoneGood
<1>3. c1[2] # None /\ c2[2] # None /\ c3[2] # None /\ c4[2] # None /\ c5[2] # None
  BY DEF IsRig, None
<1> HIDE DEF out, c1, c2, c3, c4, c5
<1>4. Good(s, Quiet(s), but)
  BY StillGood
<1>5. Good(s, Checked(s, <<c1, c2>>, Quiet(s)), but)
  BY <1>3, <1>4, Checks2
<1>6. Good(s, Checked(s, <<c1, c3, c4, c5>>, out), but)
  BY <1>2, <1>3, Checks4
<1> QED
  BY <1>1, <1>4, <1>5, <1>6

\* A linked copy: whatever was there uses the data it used, and only the copy uses it too.
LEMMA CopyKeeps ==
  ASSUME NEW s, Sound(s), NEW t, NEW x, x \notin Objects(s), NEW k, Joined(s, t, x, k), t.data = s.data,
         NEW but, (DOMAIN s.data) \X Fields \subseteq but.fields
  PROVE  Sound(t) /\ Keeps(s, t, but) /\ Objects(t) = Objects(s) \cup {x}
<1>1. Sound(t)
  BY DEF Joined
<1>2. \A d : Several(t, d) => d \in DOMAIN s.data
  BY <1>1, UsedData
<1>3. Leaves(s, t, but.fields)
  BY <1>2 DEF Leaves
<1> QED
  BY <1>1, <1>3 DEF Joined, Keeps

\* What the tool leaves: no data but that of an empty is added, and none is changed.
LEMMA ScatterGood ==
  ASSUME NEW s, Sound(s), NEW a, Room(s, IF a.p = None THEN 1 ELSE 3),
         NEW but, (DOMAIN s.data) \X Fields \subseteq but.fields
  PROVE  Good(s, Scatter(s, a), but) /\ Scatter(s, a).scene.data = s.data
<1> DEFINE placed == Bumped(s, {"collections"})
           root   == NewName(s)
           new    == Linked(placed, root, "EMPTY")
           rooted == Posed(new, root, Channels)
           second == NewName(rooted)
           first  == Instanced(rooted, a.o, second, root)
           third  == NewName(first)
           left   == IF a.p = None THEN Instanced(placed, a.o, root, None) ELSE Instanced(first, a.p, third, root)
           c1 == Exists(s, a.o)
           c2 == <<a.p = None \/ a.p \in Objects(s), "ModelingError">>
           c3 == <<Valid(a, "numbers"), "ModelingError">>
           c4 == <<Valid(a, "ground"), "ModelingError">>
           c5 == <<{a.o, a.p} \cap Meshes(s) # {}, "ModelingError">>
<1>1. Scatter(s, a) = Checked(s, <<c1, c2, c3, c4, c5>>, Done(left))
  BY DEF Scatter
<1>2. ASSUME a.o \in Objects(s), a.p = None \/ a.p \in Objects(s) 
      PROVE  Keeps(s, left, but) /\ left.data = s.data
  <2>0. root \notin Objects(s) /\ root # None
    <3>1. CASE a.p = None
      BY <3>1, RoomForOne
    <3>2. CASE a.p # None
      <4>1. Room(s, 3) /\ 3 \in Nat \ {0}
        BY <3>2
      <4> HIDE DEF root
      <4> QED
        BY <4>1, RoomForOne DEF root
    <3> QED
      BY <3>1, <3>2
  <2> HIDE DEF root
  <2>1. SameObjects(s, placed) /\ Sound(placed) /\ Keeps(s, placed, but) /\ placed.data = s.data /\ Objects(placed) = Objects(s)
    BY BumpedSame, SameKeeps DEF SameObjects, Standing
  <2> HIDE DEF placed
  <2>2. CASE a.p = None
    <3> DEFINE u == Instanced(placed, a.o, root, None)
    <3>1. Joined(placed, u, root, Kind(placed, a.o)) /\ u.data = s.data
      BY <1>2, <2>0, <2>1, InstancedJoins
    <3> HIDE DEF u
    <3>2. Keeps(placed, u, but)
      BY <2>0, <2>1, <3>1, CopyKeeps
    <3>3. Keeps(s, u, but)
      BY <2>1, <3>2, KeepsTransitive
    <3> QED
      BY <2>2, <3>1, <3>3 DEF u
  <2>3. CASE a.p # None
    <3>0. 3 \in Nat \ {0} /\ 2 \in Nat \ {0} /\ 3 - 1 = 2 /\ 2 - 1 = 1 /\ Room(s, 3)
      BY <2>3
    <3>1. Gains(placed, new, root, "EMPTY") /\ new.data = s.data
      <4>1. Gains(placed, new, root, "EMPTY")
        BY <2>0, <2>1, LinkedGains DEF Kinds
      <4>2. new = [placed EXCEPT !.obj = Put(@, root, Object("EMPTY", NoData))]
        BY DEF Linked
      <4>3. [placed EXCEPT !.obj = Put(@, root, Object("EMPTY", NoData))].data = placed.data
        BY <2>1, SceneFields
      <4> QED
        BY <2>1, <4>1, <4>2, <4>3
    <3> HIDE DEF new
    <3>2. Sound(new) /\ Keeps(s, new, but) /\ Objects(new) = Objects(s) \cup {root}
      <4>1. Sound(new) /\ Keeps(placed, new, but) /\ Objects(new) = Objects(s) \cup {root}
        BY <2>0, <2>1, <3>1, GainsKeeps DEF Gains, Joined
      <4> QED
        BY <2>1, <4>1, KeepsTransitive
    <3>3. SameObjects(new, rooted) /\ Sound(rooted) /\ rooted.data = s.data /\ Objects(rooted) = Objects(s) \cup {root}
      BY <3>1, <3>2, PosedSame DEF SameObjects, Standing
    <3> HIDE DEF rooted
    <3>4. Keeps(s, rooted, but)
      BY <3>2, <3>3, SameKeeps, KeepsTransitive
    <3>5. Room(rooted, 2)
      <4>1. Room(rooted, 3 - 1)
        BY <3>0, <3>3, RoomLeft
      <4> QED
        BY <3>0, <4>1
    <3>6. second \notin Objects(rooted) /\ second # None
      <4> HIDE DEF second
      <4> QED
        BY <3>0, <3>5, RoomForOne DEF second
    <3> HIDE DEF second
    <3>7. Joined(rooted, first, second, Kind(rooted, a.o)) /\ first.data = s.data
      BY <1>2, <3>3, <3>6, InstancedJoins
    <3> HIDE DEF first
    <3>8. Sound(first) /\ Keeps(s, first, but) /\ Objects(first) = Objects(rooted) \cup {second}
      <4>1. Sound(first) /\ Keeps(rooted, first, but) /\ Objects(first) = Objects(rooted) \cup {second}
        BY <3>3, <3>6, <3>7, CopyKeeps
      <4> QED
        BY <3>4, <4>1, KeepsTransitive
    <3>9. third \notin Objects(first) /\ third # None
      <4>1. Room(first, 2 - 1)
        BY <3>0, <3>5, <3>8, RoomLeft
      <4> HIDE DEF third
      <4>2. Room(first, 1) /\ 1 \in Nat \ {0}
        BY <3>0, <4>1
      <4> QED
        BY <4>2, RoomForOne DEF third
    <3> HIDE DEF third
    <3> DEFINE u == Instanced(first, a.p, third, root)
    <3>10. Joined(first, u, third, Kind(first, a.p)) /\ u.data = s.data
      <4>1. a.p \in Objects(first) /\ root \in Objects(first) \cup {None}
        BY <1>2, <2>3, <3>3, <3>8
      <4> QED
        BY <3>7, <3>8, <3>9, <4>1, InstancedJoins
    <3> HIDE DEF u
    <3>11. Keeps(first, u, but)
      BY <3>7, <3>8, <3>9, <3>10, CopyKeeps
    <3>12. Keeps(s, u, but)
      BY <3>8, <3>11, KeepsTransitive
    <3> QED
      BY <2>3, <3>10, <3>12 DEF u
  <2> QED
    BY <2>2, <2>3
<1>3. /\ c1[2] # None /\ c2[2] # None /\ c3[2] # None /\ c4[2] # None /\ c5[2] # None
      /\ (c1[1] <=> a.o \in Objects(s)) /\ (c2[1] <=> a.p = None \/ a.p \in Objects(s))
  BY DEF Exists, None
<1> DEFINE c == <<c1, c2, c3, c4, c5>>
           T == {i \in DOMAIN c : ~c[i][1]}
<1> HIDE DEF left, c1, c2, c3, c4, c5
<1>4. Scatter(s, a) = IF T = {} THEN Done(left) ELSE Fail(s, c[Min(T)][2])
  BY <1>1 DEF Checked
<1>5. T = {} => c1[1] /\ c2[1]
  <2>1. 1 \in DOMAIN c /\ 2 \in DOMAIN c /\ c[1] = c1 /\ c[2] = c2
    OBVIOUS
  <2> QED
    BY <2>1
<1>6. c1[1] /\ c2[1] => Good(s, Done(left), but) /\ left.data = s.data
  BY <1>2, <1>3, DoneGood
<1>7. Good(s, Scatter(s, a), but)
  BY <1>1, <1>3, <1>6, Checks5
<1> HIDE DEF T
<1> QED
  BY <1>4, <1>5, <1>6, <1>7 DEF Done, Fail

-----------------------------------------------------------------------------
(* Camera, light and look *)

LEMMA SetLookGood ==
  ASSUME NEW s, Sound(s), NEW a, NEW but
  PROVE  Good(s, SetLook(s, a), but)
<1>1. Good(s, Done(Bumped(s, {"look"})), but)
  BY BumpedSame, SameKeeps, DoneGood
<1> QED
  BY <1>1, Checks1 DEF SetLook, None

LEMMA CameraEdited ==
  ASSUME NEW s, Sound(s), NEW o, Kind(s, o) = "CAMERA", NEW field \in {"count", "form"}
  PROVE  LET t == Edited(s, o, field) IN SameObjects(s, t) /\ Sound(t) /\ Kind(t, o) = "CAMERA"
<1>1. o \in Objects(s) /\ Kind(s, o) # "EMPTY" /\ Alone(s, o)
  BY KindOfObject, NoMeshAlone DEF None
<1> HIDE DEF Edited
<1>2. SameObjects(s, Edited(s, o, field))
  BY <1>1, EditedSame
<1> QED
  BY <1>2 DEF SameObjects, Standing

LEMMA CameraSettingsGood ==
  ASSUME NEW s, Sound(s), NEW a, NEW but
  PROVE  Good(s, CameraSettings(s, a), but)
<1> DEFINE cam   == IF "ShotCamera" \in Objects(s) THEN "ShotCamera" ELSE s.camera
           stops == Edited(s, cam, "form")
           again == Edited(stops, cam, "form")
           focus == IF a.o = None THEN stops ELSE again
           rack  == Edited(focus, cam, "form")
           racks == IF a.p = None THEN focus ELSE Bumped(rack, {"frame"})
           blur  == Bumped(racks, {"look"})
           blurs == IF a.opt = "blur" THEN blur ELSE racks
           known == a.p = None \/ (a.p \in Objects(s) /\ (a.o # None \/ a.opt = "focused"))
           out   == IF a.o \notin Objects(s) \cup {None} THEN Fail(stops, "ModelingError")
                    ELSE IF ~Valid(a, "distance") \/ ~known THEN Fail(focus, "ModelingError")
                    ELSE IF ~Valid(a, "shutter") THEN Fail(blur, "ModelingError")
                    ELSE Done(blurs)
           c1 == <<Kind(s, cam) = "CAMERA", "ModelingError">>
           c2 == <<Valid(a, "f_stop"), "ModelingError">>
           c3 == <<Valid(a, "nothing"), "ModelingError">>
<1>1. CameraSettings(s, a) = Checked(s, <<c1, c2, c3>>, out)
  BY DEF CameraSettings
<1>2. ASSUME Kind(s, cam) = "CAMERA" PROVE Good(s, out, but)
  <2> HIDE DEF cam, known
  <2>1. SameObjects(s, stops) /\ Sound(stops) /\ Kind(stops, cam) = "CAMERA"
    BY <1>2, CameraEdited
  <2> HIDE DEF stops
  <2>2. SameObjects(stops, again) /\ Sound(again) /\ Kind(again, cam) = "CAMERA"
    BY <2>1, CameraEdited
  <2> HIDE DEF again
  <2>3. SameObjects(s, focus) /\ Sound(focus) /\ Kind(focus, cam) = "CAMERA"
    BY <2>1, <2>2, SameTransitive
  <2> HIDE DEF focus
  <2>4. SameObjects(focus, rack) /\ Sound(rack)
    BY <2>3, CameraEdited
  <2> HIDE DEF rack
  <2>5. SameObjects(rack, Bumped(rack, {"frame"}))
    BY <2>4, BumpedSame
  <2>6. SameObjects(s, racks) /\ Sound(racks)
    BY <2>3, <2>4, <2>5, SameTransitive, SameKeeps
  <2> HIDE DEF racks
  <2>7. SameObjects(s, blur)
    BY <2>6, BumpedSame, SameTransitive
  <2> HIDE DEF blur
  <2>8. Keeps(s, stops, but) /\ Keeps(s, focus, but) /\ Keeps(s, blur, but) /\ Keeps(s, blurs, but)
    BY <2>1, <2>3, <2>6, <2>7, SameKeeps
  <2> HIDE DEF blurs
  <2> QED
    BY <2>8, DoneGood, FailGood DEF None
<1>3. c1[2] # None /\ c2[2] # None /\ c3[2] # None /\ (c1[1] <=> Kind(s, cam) = "CAMERA")
  BY DEF None
<1> HIDE DEF cam, out, c1, c2, c3
<1> QED
  BY <1>1, <1>2, <1>3, Checks3

\* A mesh called x is still there and uses the data it used.
Holds(s, t, x) == Kind(t, x) = Kind(s, x) /\ (Kind(s, x) = "MESH" => t.obj[x].data = s.obj[x].data)

LEMMA HoldsOn ==
  ASSUME NEW s, NEW t, NEW u, NEW x, Holds(s, t, x), Holds(t, u, x)
  PROVE  Holds(s, u, x)
BY DEF Holds

LEMMA SameHolds ==
  ASSUME NEW s, Sound(s), NEW t, SameObjects(s, t), t.obj = s.obj \/ Alike(s, t), NEW x
  PROVE  Holds(s, t, x)
BY KindOfObject DEF Holds, SameObjects, Standing, Alike, None

\* An object that a tool removes by its name.
LEMMA RemovedKeeps ==
  ASSUME NEW s, Sound(s), NEW x, NEW but, x \in but.objects
  PROVE  LET t == Removed(s, {x})
         IN  /\ Sound(t) /\ Keeps(s, t, but) /\ x \notin Objects(t)
             /\ \A y : y # x => Holds(s, t, y)
<1> DEFINE t == Removed(s, {x})
<1>1. Loses(s, t, {x}) /\ \A y \in Objects(t) : t.obj[y].data = s.obj[y].data
  BY RemovedLoses
<1> HIDE DEF t
<1>2. Sound(t) /\ Keeps(s, t, but)
  BY <1>1, LosesKeeps
<1>3. ASSUME NEW y, y # x PROVE Holds(s, t, y)
  <2>1. Kind(t, y) = Kind(s, y)
    BY <1>1, <1>3 DEF Loses
  <2>2. Kind(s, y) = "MESH" => y \in Objects(t)
    BY <1>2, <2>1, KindOfObject DEF None
  <2> QED
    BY <1>1, <2>1, <2>2 DEF Holds
<1> QED
  BY <1>1, <1>2, <1>3 DEF Loses, t

LEMMA LinkedHolds ==
  ASSUME NEW s, Sound(s), NEW x, x \notin Objects(s), x # None, NEW kind \in Kinds, NEW but
  PROVE  LET t == Linked(s, x, kind)
         IN  /\ Sound(t) /\ Keeps(s, t, but) /\ x \in Objects(t) /\ Kind(t, x) = kind
             /\ \A y : y # x => Holds(s, t, y)
<1> DEFINE t == Linked(s, x, kind)
<1>1. Gains(s, t, x, kind) /\ \A y \in Objects(s) : t.obj[y] = s.obj[y]
  BY LinkedGains
<1> HIDE DEF t
<1>2. Sound(t) /\ Keeps(s, t, but)
  BY <1>1, GainsKeeps
<1>3. \A y : y # x => Holds(s, t, y)
  BY <1>1, KindOfObject DEF Gains, Joined, Holds, None
<1> QED
  BY <1>1, <1>2, <1>3 DEF Gains, Joined, t

LEMMA FittedHolds ==
  ASSUME NEW s, Sound(s), NEW x, x # None, NEW kind \in Kinds
  PROVE  \A y : y # x => Holds(s, Fitted(s, x, kind), y)
<1>1. CASE Kind(s, x) = kind
  BY <1>1 DEF Fitted, Holds
<1>2. CASE Kind(s, x) # kind
  <2> DEFINE but == [objects |-> {x}, fields |-> {}]
             t   == Removed(s, {x})
             u   == Linked(t, x, kind)
  <2>1. x \in but.objects
    OBVIOUS
  <2> HIDE DEF but
  <2>2. Sound(t) /\ x \notin Objects(t) /\ \A y : y # x => Holds(s, t, y)
    BY <2>1, RemovedKeeps
  <2>3. Fitted(s, x, kind) = u
    BY <1>2 DEF Fitted
  <2> HIDE DEF t
  <2>4. \A y : y # x => Holds(t, u, y)
    BY <2>2, LinkedHolds
  <2> QED
    BY <2>2, <2>3, <2>4, HoldsOn
<1> QED
  BY <1>1, <1>2

\* The names that an environment takes, and the mesh that it draws the ground on.
Lit(s, but) ==
  /\ {"AI_Neon", "AI_Ground"} \subseteq but.objects
  /\ "AI_Sun" \in but.objects \/ Kind(s, "AI_Sun") = "LIGHT"
  /\ Kind(s, "AI_Ground") = "MESH" => \A f \in Fields : <<s.obj["AI_Ground"].data, f>> \in but.fields

LEMMA SkyGood ==
  ASSUME NEW s, Sound(s), NEW but, Lit(s, but)
  PROVE  LET world == Bumped([s EXCEPT !.set.world = 1], {"sky"})
             sunny == Posed(Edited(Fitted(world, "AI_Sun", "LIGHT"), "AI_Sun", "form"), "AI_Sun", {"rotation"})
             dark  == Removed(sunny, {"AI_Neon"})
             neon  == Posed(Linked(dark, "AI_Neon", "LIGHT"), "AI_Neon", {"location"})
         IN  \A t \in {dark, neon} : Sound(t) /\ Keeps(s, t, but) /\ Holds(s, t, "AI_Ground")
<1> DEFINE lit    == [s EXCEPT !.set.world = 1]
           world  == Bumped(lit, {"sky"})
           sun    == Fitted(world, "AI_Sun", "LIGHT")
           bright == Edited(sun, "AI_Sun", "form")
           sunny  == Posed(bright, "AI_Sun", {"rotation"})
           dark   == Removed(sunny, {"AI_Neon"})
           lamp   == Linked(dark, "AI_Neon", "LIGHT")
           neon   == Posed(lamp, "AI_Neon", {"location"})
           g      == "AI_Ground"
<1>1. SameObjects(s, lit) /\ lit.obj = s.obj
  BY SettingSet
<1> HIDE DEF lit
<1>2. SameObjects(lit, world) /\ world.obj = lit.obj
  BY <1>1, BumpedSame DEF SameObjects, Standing
<1> HIDE DEF world
<1>3. SameObjects(s, world) /\ Sound(world) /\ Keeps(s, world, but) /\ Holds(s, world, g)
  <2>1. SameObjects(s, world) /\ world.obj = s.obj
    BY <1>1, <1>2, SameTransitive
  <2> QED
    BY <2>1, SameKeeps, SameHolds
<1>4. /\ Sound(sun) /\ Keeps(world, sun, but) /\ "AI_Sun" \in Objects(sun) /\ Kind(sun, "AI_Sun") = "LIGHT"
      /\ Holds(world, sun, g)
  <2>1. "AI_Sun" \in but.objects \/ Kind(world, "AI_Sun") = "LIGHT"
    BY <1>3 DEF Lit, SameObjects, Standing
  <2>2. "AI_Sun" # None /\ "LIGHT" \in Kinds /\ g # "AI_Sun"
    BY DEF Kinds, None
  <2> HIDE DEF g
  <2> QED
    BY <1>3, <2>1, <2>2, FittedKeeps, FittedHolds
<1> HIDE DEF sun
<1>5. SameObjects(sun, bright) /\ bright.obj = sun.obj
  BY <1>4, NoMeshAlone, EditedSame
<1> HIDE DEF bright
<1>6. SameObjects(bright, sunny) /\ Alike(bright, sunny) /\ Sound(bright)
  BY <1>5, PosedSame DEF SameObjects, Standing
<1> HIDE DEF sunny
<1>7. Sound(sunny) /\ Keeps(sun, sunny, but) /\ Holds(sun, sunny, g)
  <2>1. Holds(sun, bright, g) /\ Holds(bright, sunny, g)
    BY <1>4, <1>5, <1>6, SameHolds
  <2>2. Holds(sun, sunny, g)
    BY <2>1, HoldsOn
  <2> QED
    BY <2>2, <1>5, <1>6, SameTransitive, SameKeeps
<1>8. Keeps(s, sunny, but) /\ Holds(s, sunny, g)
  BY <1>3, <1>4, <1>7, KeepsTransitive, HoldsOn
<1>9. Sound(dark) /\ Keeps(sunny, dark, but) /\ "AI_Neon" \notin Objects(dark) /\ Holds(sunny, dark, g)
  BY <1>7, RemovedKeeps DEF Lit
<1> HIDE DEF dark
<1>10. Keeps(s, dark, but) /\ Holds(s, dark, g)
  BY <1>8, <1>9, <1>7, KeepsTransitive, HoldsOn
<1>11. Sound(lamp) /\ Keeps(dark, lamp, but) /\ Holds(dark, lamp, g)
  BY <1>9, LinkedHolds DEF Kinds, None
<1> HIDE DEF lamp
<1>12. SameObjects(lamp, neon) /\ Alike(lamp, neon)
  BY <1>11, PosedSame
<1> HIDE DEF neon
<1>13. Sound(neon) /\ Keeps(s, neon, but) /\ Holds(s, neon, g)
  <2>1. Sound(neon) /\ Keeps(lamp, neon, but) /\ Holds(lamp, neon, g)
    BY <1>11, <1>12, SameKeeps, SameHolds
  <2> QED
    BY <1>10, <1>11, <2>1, KeepsTransitive, HoldsOn
<1> QED
  BY <1>9, <1>10, <1>13 DEF neon, lamp, dark, sunny, bright, sun, world, lit

LEMMA GroundGood ==
  ASSUME NEW s, Sound(s), NEW but, Lit(s, but), NEW lamps, Sound(lamps), Holds(s, lamps, "AI_Ground")
  PROVE  LET plane == Painted(WithMaterial(Fitted(lamps, "AI_Ground", "MESH"), "AI_Ground"), "AI_Ground")
             drawn == Edited(Flat(Slotted(plane, "AI_Ground", "AI_Ground"), "AI_Ground"), "AI_Ground", "form")
             lies  == Posed(drawn, "AI_Ground", {"location"})
         IN  Sound(lies) /\ Keeps(lamps, lies, but)
<1> DEFINE g      == "AI_Ground"
           ground == Fitted(lamps, g, "MESH")
           dyed   == WithMaterial(ground, g)
           plane  == Painted(dyed, g)
           put    == Slotted(plane, g, g)
           flat   == Flat(put, g)
           drawn  == Edited(flat, g, "form")
           lies   == Posed(drawn, g, {"location"})
           Mine(t) == Alone(t, g) \/ \A f \in Fields : <<t.obj[g].data, f>> \in but.fields
<1>0. g # None /\ "MESH" \in Kinds /\ g \in but.objects
  BY DEF Lit, None, Kinds
<1>1. /\ Sound(ground) /\ Keeps(lamps, ground, but) /\ g \in Objects(ground) /\ Kind(ground, g) = "MESH"
      /\ IF Kind(lamps, g) = "MESH" THEN ground = lamps ELSE Alone(ground, g)
  <2> HIDE DEF g
  <2> QED
    BY <1>0, FittedKeeps
<1>2. Mine(ground)
  BY <1>1 DEF Lit, Holds
<1> HIDE DEF ground, g
<1>3. SameObjects(ground, dyed) /\ dyed.obj = ground.obj /\ g \in DOMAIN dyed.mats
  BY <1>1, WithMaterialSame
<1> HIDE DEF dyed
<1>4. SameObjects(dyed, plane) /\ plane.obj = dyed.obj /\ g \in DOMAIN plane.mats
  BY <1>3, PaintedSame DEF SameObjects, Standing
<1> HIDE DEF plane
<1>5. /\ SameObjects(ground, plane) /\ Sound(plane) /\ Keeps(ground, plane, but) /\ plane.obj = ground.obj
      /\ g \in Objects(plane) /\ Kind(plane, g) = "MESH"
  BY <1>1, <1>3, <1>4, SameTransitive, SameKeeps DEF SameObjects, Standing
<1>6. Mine(plane)
  BY <1>2, <1>5 DEF SameObjects, Apart
<1>7. /\ Standing(plane, put) /\ put.obj = plane.obj /\ Leaves(plane, put, but.fields)
      /\ \A x : Alone(plane, x) => Alone(put, x)
  BY <1>4, <1>5, <1>6, SlottedLeaves DEF Fields
<1> HIDE DEF put
<1>8. Mine(put) /\ Sound(put) /\ g \in Objects(put) /\ Kind(put, g) = "MESH"
  BY <1>5, <1>6, <1>7 DEF Standing
<1>9. /\ Standing(put, flat) /\ flat.obj = put.obj /\ Leaves(put, flat, but.fields)
      /\ \A x : Alone(put, x) => Alone(flat, x)
  BY <1>8, FlatLeaves DEF Fields
<1> HIDE DEF flat
<1>10. Mine(flat) /\ Sound(flat) /\ g \in Objects(flat) /\ Kind(flat, g) = "MESH"
  BY <1>8, <1>9 DEF Standing
<1>11. Standing(flat, drawn) /\ Leaves(flat, drawn, but.fields)
  BY <1>10, EditedLeaves DEF Fields
<1> HIDE DEF drawn
<1>12. Sound(drawn) /\ Keeps(plane, put, but) /\ Keeps(put, flat, but) /\ Keeps(flat, drawn, but)
  BY <1>7, <1>9, <1>11 DEF Keeps, Standing
<1>13. Sound(lies) /\ Keeps(drawn, lies, but)
  BY <1>12, PosedSame, SameKeeps
<1> HIDE DEF lies
<1>14. Keeps(lamps, plane, but) /\ Keeps(plane, flat, but)
  BY <1>1, <1>5, <1>8, <1>12, KeepsTransitive
<1>15. Keeps(lamps, flat, but) /\ Keeps(flat, lies, but)
  BY <1>5, <1>10, <1>12, <1>13, <1>14, KeepsTransitive
<1>16. Keeps(lamps, lies, but)
  BY <1>15, KeepsTransitive
<1> QED
  BY <1>13, <1>16 DEF lies, drawn, flat, put, plane, dyed, ground, g

LEMMA SetEnvironmentGood ==
  ASSUME NEW s, Sound(s), NEW a, NEW but, Lit(s, but)
  PROVE  Good(s, SetEnvironment(s, a), but)
<1> DEFINE world == Bumped([s EXCEPT !.set.world = 1], {"sky"})
           sunny == Posed(Edited(Fitted(world, "AI_Sun", "LIGHT"), "AI_Sun", "form"), "AI_Sun", {"rotation"})
           dark  == Removed(sunny, {"AI_Neon"})
           neon  == Posed(Linked(dark, "AI_Neon", "LIGHT"), "AI_Neon", {"location"})
           lamps == IF a.opt = "neon" THEN neon ELSE dark
           plane == Painted(WithMaterial(Fitted(lamps, "AI_Ground", "MESH"), "AI_Ground"), "AI_Ground")
           drawn == Edited(Flat(Slotted(plane, "AI_Ground", "AI_Ground"), "AI_Ground"), "AI_Ground", "form")
           lies  == Posed(drawn, "AI_Ground", {"location"})
           bare  == Removed(lamps, {"AI_Ground"})
           set(t) == Bumped([t EXCEPT !.set.engine = 1], {"look"})
           out   == IF a.opt = "bare" THEN Done(set(bare))
                    ELSE IF Valid(a, "ground") THEN Done(set(lies))
                    ELSE Fail(lamps, "ModelingError")
<1>1. SetEnvironment(s, a) = Checked(s, <<<<Valid(a, "preset"), "ModelingError">>>>, out)
  BY DEF SetEnvironment
<1>2. ASSUME NEW t, Sound(t), Keeps(s, t, but) PROVE Keeps(s, set(t), but)
  <2> DEFINE u == [t EXCEPT !.set.engine = 1]
  <2>1. SameObjects(t, u)
    BY <1>2, SettingSet
  <2> HIDE DEF u
  <2>2. SameObjects(u, Bumped(u, {"look"}))
    BY <2>1, BumpedSame DEF SameObjects, Standing
  <2>3. Keeps(s, Bumped(u, {"look"}), but)
    BY <1>2, <2>1, <2>2, SameTransitive, SameKeeps, KeepsTransitive
  <2> QED
    BY <2>3 DEF u
<1> HIDE DEF set
<1>3. Good(s, out, but)
  <2>1. \A t \in {dark, neon} : Sound(t) /\ Keeps(s, t, but) /\ Holds(s, t, "AI_Ground")
    BY SkyGood
  <2> HIDE DEF dark, neon
  <2>2. Sound(lamps) /\ Keeps(s, lamps, but) /\ Holds(s, lamps, "AI_Ground")
    BY <2>1
  <2> HIDE DEF lamps
  <2>3. Sound(bare) /\ Keeps(lamps, bare, but)
    BY <2>2, RemovedKeeps DEF Lit
  <2> HIDE DEF bare
  <2>4. Sound(lies) /\ Keeps(lamps, lies, but)
    BY <2>2, GroundGood
  <2> HIDE DEF lies
  <2>5. Keeps(s, bare, but) /\ Keeps(s, lies, but)
    BY <2>2, <2>3, <2>4, KeepsTransitive
  <2>6. Keeps(s, set(bare), but) /\ Keeps(s, set(lies), but)
    BY <1>2, <2>3, <2>4, <2>5
  <2> QED
    BY <2>2, <2>6, DoneGood, FailGood DEF None
<1> HIDE DEF out
<1> QED
  BY <1>1, <1>3, Checks1 DEF None

\* A move makes the camera of the shot anew if another object has its name.
Filmed(s, but) == "ShotCamera" \in but.objects \/ Kind(s, "ShotCamera") = "CAMERA"

LEMMA CameraMoveGood ==
  ASSUME NEW s, Sound(s), NEW a, NEW but, Filmed(s, but)
  PROVE  Good(s, CameraMove(s, a), but)
<1> DEFINE shown  == Bumped(s, {"frame"})
           filmed == Fitted(shown, "ShotCamera", "CAMERA")
           new    == Linked(filmed, "ShotTarget", "EMPTY")
           aimed  == IF "ShotTarget" \in Objects(filmed) THEN filmed ELSE new
           placed == Posed(aimed, "ShotCamera", {"location"})
           level  == AtRest(placed, "ShotTarget", {"rotation"})
           chans  == IF a.opt = "rolling" THEN {"location", "rotation"} ELSE {"location"}
           moved  == Posed(level, "ShotTarget", chans)
           lens   == Edited(moved, "ShotCamera", "count")
           films  == [lens EXCEPT !.camera = "ShotCamera"]
           out    == IF Valid(a, "floats") THEN Done(Bumped(films, {"frames"})) ELSE Fail(shown, "ValueError")
<1>1. CameraMove(s, a) = Checked(s, <<<<Valid(a, "arguments"), "ModelingError">>>>, out)
  BY DEF CameraMove
<1>2. Good(s, out, but)
  <2>0. "ShotCamera" # None /\ "ShotTarget" # None /\ {"CAMERA", "EMPTY"} \subseteq Kinds
    BY DEF None, Kinds
  <2>1. SameObjects(s, shown) /\ Sound(shown) /\ Keeps(s, shown, but)
    BY BumpedSame, SameKeeps
  <2> HIDE DEF shown
  <2>2. Sound(filmed) /\ Keeps(shown, filmed, but) /\ Kind(filmed, "ShotCamera") = "CAMERA"
    <3>1. "ShotCamera" \in but.objects \/ Kind(shown, "ShotCamera") = "CAMERA"
      BY <2>1 DEF Filmed, SameObjects, Standing
    <3> QED
      BY <2>0, <2>1, <3>1, FittedKeeps
  <2> HIDE DEF filmed
  <2>3. Sound(aimed) /\ Keeps(filmed, aimed, but) /\ Kind(aimed, "ShotCamera") = "CAMERA"
    <3>1. CASE "ShotTarget" \in Objects(filmed)
      BY <2>2, <3>1, StillGood
    <3>2. CASE "ShotTarget" \notin Objects(filmed)
      <4>1. Sound(new) /\ Keeps(filmed, new, but) /\ Holds(filmed, new, "ShotCamera")
        BY <2>0, <2>2, <3>2, LinkedHolds
      <4> QED
        BY <2>2, <3>2, <4>1 DEF Holds
    <3> QED
      BY <3>1, <3>2
  <2> HIDE DEF aimed
  <2>4. SameObjects(aimed, placed) /\ Sound(placed)
    BY <2>3, PosedSame, SameKeeps
  <2> HIDE DEF placed
  <2>5. SameObjects(placed, level) /\ Sound(level)
    BY <2>4, AtRestSame, SameKeeps
  <2> HIDE DEF level, chans
  <2>6. SameObjects(level, moved) /\ Sound(moved)
    BY <2>5, PosedSame, SameKeeps
  <2> HIDE DEF moved
  <2>7. SameObjects(aimed, moved) /\ Kind(moved, "ShotCamera") = "CAMERA"
    BY <2>3, <2>4, <2>5, <2>6, SameTransitive DEF SameObjects, Standing
  <2>8. SameObjects(moved, lens) /\ Sound(lens) /\ Kind(lens, "ShotCamera") = "CAMERA"
    BY <2>6, <2>7, CameraEdited
  <2> HIDE DEF lens
  <2>9. SameObjects(lens, films) /\ Sound(films)
    BY <2>8, CameraSet, SameKeeps
  <2> HIDE DEF films
  <2>10. SameObjects(films, Bumped(films, {"frames"}))
    BY <2>9, BumpedSame
  <2>11. SameObjects(aimed, Bumped(films, {"frames"}))
    BY <2>7, <2>8, <2>9, <2>10, SameTransitive
  <2>12. Keeps(s, aimed, but)
    BY <2>1, <2>2, <2>3, KeepsTransitive
  <2>13. Keeps(s, Bumped(films, {"frames"}), but)
    BY <2>11, <2>12, SameKeeps, KeepsTransitive
  <2> QED
    BY <2>1, <2>13, DoneGood, FailGood DEF None
<1> HIDE DEF out
<1> QED
  BY <1>1, <1>2, Checks1 DEF None

\* A render leaves nothing behind but its samples.
LEMMA SamplesSame ==
  ASSUME NEW s, Sound(s)
  PROVE  Same(s, Bumped(s, {"samples"}))
<1> DEFINE v == [k \in DOMAIN s.set |-> IF k \in {"samples"} THEN s.set[k] + 1 ELSE s.set[k]]
           t == [s EXCEPT !.set = v]
<1>1. Bumped(s, {"samples"}) = t
  BY DEF Bumped
<1>2. s.set = [k \in DOMAIN s.set |-> s.set[k]]
  BY DEF Sound, Formed
<1>3. [v EXCEPT !.samples = 0] = [s.set EXCEPT !.samples = 0]
  BY <1>2
<1>4. t.set = v /\ t = [obj |-> s.obj, data |-> s.data, mats |-> s.mats, camera |-> s.camera, set |-> v]
  BY SceneFields
<1> HIDE DEF v, t
<1>5. [t EXCEPT !.set.samples = 0] = [obj |-> s.obj, data |-> s.data, mats |-> s.mats, camera |-> s.camera,
                                     set |-> [v EXCEPT !.samples = 0]]
  BY <1>4
<1>6. [s EXCEPT !.set.samples = 0] = [obj |-> s.obj, data |-> s.data, mats |-> s.mats, camera |-> s.camera,
                                     set |-> [s.set EXCEPT !.samples = 0]]
  BY SceneFields
<1> QED
  BY <1>1, <1>3, <1>5, <1>6 DEF Same

LEMMA RenderedGood ==
  ASSUME NEW s, Sound(s), NEW a, NEW but
  PROVE  Good(s, Rendered(s, a), but)
<1> DEFINE left == Bumped(s, {"samples"})
           out  == IF Valid(a, "write") THEN Quiet(left) ELSE Fail(left, "ModelingError")
<1>1. Rendered(s, a) = Checked(s, <<<<s.camera # None, "ModelingError">>, <<Valid(a, "engine"), "ModelingError">>>>, out)
  BY DEF Rendered
<1>2. Keeps(s, left, but) /\ Same(s, left)
  BY BumpedSame, SameKeeps, SamplesSame
<1> HIDE DEF left
<1>3. Good(s, out, but)
  BY <1>2, QuietGood, FailGood DEF None
<1> HIDE DEF out
<1> QED
  BY <1>1, <1>3, Checks2 DEF None

LEMMA RendersGood ==
  ASSUME NEW s, Sound(s), NEW a, NEW but
  PROVE  /\ Good(s, RenderImage(s, a), but)
         /\ Good(s, RenderAnimation(s, a), but)
         /\ Good(s, RenderContactSheet(s, a), but)
<1>1. Good(s, Checked(s, <<<<Valid(a, "arguments"), "ModelingError">>>>, Rendered(s, a)), but)
  BY RenderedGood, Checks1 DEF None
<1> QED
  BY <1>1 DEF RenderImage, RenderAnimation, RenderContactSheet

LEMMA CheckShotGood ==
  ASSUME NEW s, Sound(s), NEW a, NEW but
  PROVE  Good(s, CheckShot(s, a), but)
<1> DEFINE out == IF a.opt = "render" THEN Rendered(s, a) ELSE Quiet(s)
<1>1. CheckShot(s, a) = Checked(s, <<<<s.camera # None, "ModelingError">>, <<Valid(a, "arguments"), "ModelingError">>,
                                    <<a.o \in Objects(s) \cup {None}, "ModelingError">>,
                                    <<Subjects(s, a.o) # {}, "ModelingError">>>>, out)
  BY DEF CheckShot
<1>2. Good(s, out, but)
  BY RenderedGood, StillGood
<1> HIDE DEF out
<1> QED
  BY <1>1, <1>2, Checks4 DEF None

LEMMA OutsideGood ==
  ASSUME NEW s, Sound(s), NEW a, NEW but
  PROVE  /\ Good(s, FrameView(s, a), but)
         /\ Good(s, EditVideo(s, a), but)
         /\ Good(s, MakeSoundtrack(s, a), but)
         /\ Good(s, CheckModel(s, a), but)
<1>1. Good(s, Checked(s, <<<<Valid(a, "arguments"), "ModelingError">>>>, Quiet(s)), but)
  BY StillGood, Checks1 DEF None
<1>2. Good(s, CheckModel(s, a), but)
  BY StillGood, Checks2 DEF None, CheckModel
<1> QED
  BY <1>1, <1>2 DEF FrameView, EditVideo, MakeSoundtrack

\* The objects are back where they were.
LEMMA ExportGltfGood ==
  ASSUME NEW s, Sound(s), NEW a, NEW but
  PROVE  Good(s, ExportGltf(s, a), but)
<1> DEFINE shifted == Posed(s, a.o, {"location"})
           back    == [shifted EXCEPT !.obj[a.o].pose = s.obj[a.o].pose]
           out     == IF Valid(a, "export") THEN Quiet(back) ELSE Fail(back, "ModelingError")
           c1      == Exists(s, a.o)
           c2      == <<Valid(a, "arguments"), "ModelingError">>
<1>1. ExportGltf(s, a) = Checked(s, <<c1, c2>>, out)
  BY DEF ExportGltf
<1>2. ASSUME a.o \in Objects(s) PROVE Good(s, out, but)
  <2> DEFINE o == a.o
             v == [c \in Channels |-> IF c \in {"location"} THEN s.obj[o].pose[c] + 1 ELSE s.obj[o].pose[c]]
             w == [s.obj EXCEPT ![o] = [s.obj[o] EXCEPT !.pose = v]]
  <2>1. shifted = [obj |-> w, data |-> s.data, mats |-> s.mats, camera |-> s.camera, set |-> s.set]
    BY SceneFields DEF Posed
  <2> HIDE DEF v, shifted
  <2>2. Item(s.obj[o]) /\ s.obj = [x \in Objects(s) |-> s.obj[x]]
    BY <1>2 DEF Sound, Formed, Item
  <2>3. [w EXCEPT ![o] = [w[o] EXCEPT !.pose = s.obj[o].pose]] = s.obj
    <3> DEFINE i == s.obj[o]
               j == [i EXCEPT !.pose = v]
    <3>1. [j EXCEPT !.pose = i.pose] = i
      <4> HIDE DEF i
      <4> QED
        BY <2>2 DEF Item, i
    <3>2. w = [s.obj EXCEPT ![o] = j] /\ w[o] = j
      BY <1>2, <2>2
    <3> HIDE DEF j, w
    <3>3. [w EXCEPT ![o] = i] = s.obj
      BY <1>2, <2>2, <3>2
    <3> QED
      BY <3>1, <3>2, <3>3
  <2>4. back = [obj |-> [w EXCEPT ![o] = [w[o] EXCEPT !.pose = s.obj[o].pose]], data |-> s.data, mats |-> s.mats,
                camera |-> s.camera, set |-> s.set]
    BY <2>1
  <2>5. back = s
    BY <2>3, <2>4, SceneFields
  <2> HIDE DEF back
  <2> QED
    BY <2>5, StillGood, FailGood DEF None
<1>3. c1[2] # None /\ c2[2] # None /\ (c1[1] <=> a.o \in Objects(s))
  BY DEF Exists, None
<1> HIDE DEF out, c1, c2
<1> QED
  BY <1>1, <1>2, <1>3, Checks2

-----------------------------------------------------------------------------
(* A film *)

\* Each part of a film records what it does, and what is left is what was recorded last.
Film(s, out, but) ==
  /\ out = [scene |-> out.scene, error |-> out.error, steps |-> out.steps]
  /\ Keeps(s, out.scene, but)
  /\ \E S : out.steps \in Seq(S)
  /\ \A i \in 1..Len(out.steps) : Sound(out.steps[i])
  /\ out.error = None => Same(IF out.steps = <<>> THEN s ELSE out.steps[Len(out.steps)], out.scene)

LEMMA SameScene ==
  /\ \A s : Same(s, s)
  /\ \A s, t : Same(s, t) => Same(t, s)
  /\ \A s, t, u : Same(s, t) /\ Same(t, u) => Same(s, u)
BY DEF Same

LEMMA GoodIsFilm ==
  ASSUME NEW s, NEW out, NEW but, Good(s, out, but)
  PROVE  Film(s, out, but)
<1>1. CASE out.steps = <<>>
  <2>1. out.steps \in Seq({}) /\ Len(out.steps) = 0
    BY <1>1, EmptySeq
  <2>2. out.error = None => Same(s, out.scene)
    BY <1>1 DEF Good
  <2> QED
    BY <1>1, <2>1, <2>2 DEF Good, Film
<1>2. CASE out.steps = <<out.scene>>
  <2>1. out.steps \in Seq({out.scene}) /\ Len(out.steps) = 1 /\ out.steps[1] = out.scene /\ out.steps # <<>>
    BY <1>2
  <2>2. Sound(out.scene) /\ Same(out.scene, out.scene)
    BY SameScene DEF Good, Keeps
  <2> QED
    BY <2>1, <2>2 DEF Good, Film
<1> QED
  BY <1>1, <1>2 DEF Good

LEMMA Wider ==
  ASSUME NEW S, NEW T, S \subseteq T, NEW q \in Seq(S)
  PROVE  q \in Seq(T)
<1>1. PICK n \in Nat : q \in [1..n -> S]
  BY SeqDef
<1>2. q \in [1..n -> T]
  BY <1>1
<1> QED
  BY <1>2, SeqDef

LEMMA FilmGoesOn ==
  ASSUME NEW s, Sound(s), NEW done, NEW but, Film(s, done, but), done.error = None,
         NEW out, Good(done.scene, out, but)
  PROVE  Film(s, [out EXCEPT !.steps = done.steps \o @], but)
<1> DEFINE q == done.steps
           t == [out EXCEPT !.steps = q \o @]
           end == IF q = <<>> THEN s ELSE q[Len(q)]
<1>1. t.scene = out.scene /\ t.error = out.error /\ t.steps = q \o out.steps
      /\ t = [scene |-> t.scene, error |-> t.error, steps |-> t.steps]
  <2> DEFINE e == q \o out.steps
  <2>1. t = [out EXCEPT !.steps = e]
    OBVIOUS
  <2>2. out = [scene |-> out.scene, error |-> out.error, steps |-> out.steps]
    BY DEF Good
  <2> HIDE DEF e, t
  <2>3. t.scene = out.scene /\ t.error = out.error /\ t.steps = e
        /\ t = [scene |-> t.scene, error |-> t.error, steps |-> t.steps]
    BY <2>1, <2>2
  <2> QED
    BY <2>3 DEF e
<1>2. PICK S : q \in Seq(S)
  BY DEF Film
<1>3. Len(q) \in Nat /\ (\A i \in 1..Len(q) : Sound(q[i])) /\ Same(end, done.scene)
  BY <1>2, LenProperties DEF Film
<1>4. Keeps(s, out.scene, but)
  BY KeepsTransitive DEF Film, Good
<1> HIDE DEF t, end
<1>5. CASE out.steps = <<>>
  <2>1. t.steps = q
    BY <1>1, <1>2, <1>5, EmptySeq, ConcatEmptySeq
  <2>2. out.error = None => Same(end, out.scene)
    BY <1>3, <1>5, SameScene DEF Good
  <2> QED
    BY <1>1, <1>2, <1>3, <1>4, <2>1, <2>2 DEF Film, t, end
<1>6. CASE out.steps = <<out.scene>>
  <2> DEFINE x == out.scene
  <2>1. q \in Seq(S \cup {x}) /\ <<x>> \in Seq(S \cup {x}) /\ Len(<<x>>) = 1 /\ <<x>>[1] = x
    BY <1>2, Wider
  <2>2. /\ t.steps \in Seq(S \cup {x}) /\ Len(t.steps) = Len(q) + 1
        /\ \A i \in 1..Len(q) + 1 : t.steps[i] = IF i <= Len(q) THEN q[i] ELSE <<x>>[i - Len(q)]
    BY <1>1, <1>6, <2>1, ConcatProperties
  <2>3. t.steps[Len(q) + 1] = x
    <3> DEFINE n == Len(q) + 1
    <3>1. n \in 1..Len(q) + 1 /\ ~(n <= Len(q)) /\ n - Len(q) = 1
      BY <1>3
    <3>2. t.steps[n] = <<x>>[n - Len(q)]
      BY <2>2, <3>1
    <3> HIDE DEF n
    <3>3. t.steps[n] = x
      BY <2>1, <3>1, <3>2
    <3> QED
      BY <3>3 DEF n
  <2>4. \A i \in 1..Len(q) : t.steps[i] = q[i]
    BY <1>3, <2>2
  <2>5. t.steps # <<>>
    BY <1>3, <2>2, EmptySeq
  <2>6. Sound(x) /\ Same(x, x)
    BY SameScene DEF Good, Keeps
  <2>7. \A i \in 1..Len(t.steps) : Sound(t.steps[i])
    BY <1>3, <2>2, <2>3, <2>4, <2>6
  <2> QED
    BY <1>1, <1>4, <2>2, <2>3, <2>5, <2>6, <2>7 DEF Film, t
<1> QED
  BY <1>5, <1>6 DEF Good

\* The environment comes first, and finds the scene as it was.
LEMMA ShootGood ==
  ASSUME NEW s, Sound(s), NEW a, NEW but,
         NEW part \in {"environment", "look", "first move", "move", "render", "edit"},
         part = "environment" => Lit(s, but), part \in {"first move", "move"} => Filmed(s, but)
  PROVE  Good(s, Shoot(s, a, part), but)
<1> DEFINE fine == [a EXCEPT !.bad = None, !.opt = "ground"]
<1> HIDE DEF fine
<1>1. CASE part = "environment"
  BY <1>1, SetEnvironmentGood DEF Shoot
<1>2. CASE part = "look"
  BY <1>2, SetLookGood DEF Shoot
<1>3. CASE part = "first move"
  BY <1>3, CameraMoveGood DEF Shoot
<1>4. CASE part = "move"
  BY <1>4, CameraMoveGood DEF Shoot
<1>5. CASE part = "render"
  BY <1>5, RenderedGood DEF Shoot
<1>6. CASE part = "edit"
  <2>1. Shoot(s, a, part) = Checked(s, <<<<Valid(a, "edit"), "ModelingError">>>>, Quiet(s))
    BY <1>6 DEF Shoot
  <2> QED
    BY <2>1, StillGood, Checks1 DEF None
<1> QED
  BY <1>1, <1>2, <1>3, <1>4, <1>5, <1>6

\* What a move may take away it may still take away when other parts of the film are done.
LEMMA FilmedOn ==
  ASSUME NEW s, Sound(s), NEW t, NEW but, Filmed(s, but), Keeps(s, t, but)
  PROVE  Filmed(t, but)
<1>1. Kind(s, "ShotCamera") = "CAMERA" => "ShotCamera" \in Objects(s)
  BY KindOfObject DEF None
<1> QED
  BY <1>1 DEF Filmed, Keeps

LEMMA ThenFilm ==
  ASSUME NEW s, Sound(s), NEW but, Filmed(s, but), NEW done, Film(s, done, but), NEW a,
         NEW part \in {"environment", "look", "first move", "move", "render", "edit"},
         part = "environment" => Lit(done.scene, but)
  PROVE  Film(s, Then(done, a, part), but)
<1> DEFINE out == Shoot(done.scene, a, part)
<1>0. Sound(done.scene) /\ Filmed(done.scene, but)
  BY FilmedOn DEF Film, Keeps
<1>1. Good(done.scene, out, but)
  BY <1>0, ShootGood
<1>2. Then(done, a, part) = Continued(done, out)
  BY DEF Then
<1> HIDE DEF out
<1>3. CASE done.error # None
  BY <1>2, <1>3 DEF Continued
<1>4. CASE done.error = None
  <2> DEFINE on == [out EXCEPT !.steps = done.steps \o @]
  <2>1. Film(s, on, but)
    BY <1>1, <1>4, FilmGoesOn
  <2>2. Then(done, a, part) = on
    BY <1>2, <1>4 DEF Continued
  <2> HIDE DEF on
  <2> QED
    BY <2>1, <2>2
<1> QED
  BY <1>3, <1>4

LEMMA RenderShotsFilm ==
  ASSUME NEW s, Sound(s), NEW a, NEW but, Lit(s, but), Filmed(s, but)
  PROVE  Film(s, RenderShots(s, a), but)
<1> DEFINE quiet  == Quiet(s)
           light  == Then(quiet, a, "environment")
           set    == Then(light, a, "look")
           move   == Then(set, a, "first move")
           first  == Then(move, a, "render")
           again  == Then(first, a, "move")
           second == Then(again, a, "render")
           c      == <<Valid(a, "plan"), "ModelingError">>
<1>1. RenderShots(s, a) = Checked(s, <<c>>, Then(second, a, "edit"))
  BY DEF RenderShots
<1>2. Film(s, quiet, but) /\ quiet.scene = s
  BY StillGood, GoodIsFilm DEF Quiet
<1> HIDE DEF quiet
<1>3. Film(s, light, but)
  BY <1>2, ThenFilm
<1> HIDE DEF light
<1>4. Film(s, set, but)
  BY <1>3, ThenFilm
<1> HIDE DEF set
<1>5. Film(s, move, but)
  BY <1>4, ThenFilm
<1> HIDE DEF move
<1>6. Film(s, first, but)
  BY <1>5, ThenFilm
<1> HIDE DEF first
<1>7. Film(s, again, but)
  BY <1>6, ThenFilm
<1> HIDE DEF again
<1>8. Film(s, second, but)
  BY <1>7, ThenFilm
<1> HIDE DEF second
<1>9. Film(s, Then(second, a, "edit"), but)
  BY <1>8, ThenFilm
<1>10. c[2] # None /\ Film(s, Fail(s, c[2]), but)
  BY StillGood, FailGood, GoodIsFilm DEF None
<1> HIDE DEF c
<1> QED
  BY <1>1, <1>9, <1>10, CheckedOne

-----------------------------------------------------------------------------
(* Looking *)

LEMMA LooksGood ==
  ASSUME NEW s, Sound(s), NEW a, NEW but
  PROVE  /\ Good(s, Look(s, a), but)
         /\ Good(s, InspectObject(s, a), but)
         /\ Good(s, InspectMesh(s, a), but)
         /\ Good(s, CaptureViewport(s, a), but)
         /\ Good(s, EnableTools(s, a), but)
<1>0. Good(s, Quiet(s), but)
  BY StillGood
<1>1. Good(s, Look(s, a), but)
  BY <1>0 DEF Look
<1>2. Good(s, InspectObject(s, a), but)
  BY <1>0, Checks2 DEF InspectObject, None
<1>3. Good(s, InspectMesh(s, a), but)
  BY <1>0, Checks3 DEF InspectMesh, None
<1>4. Good(s, CaptureViewport(s, a), but)
  BY <1>0, Checks2 DEF CaptureViewport, None
<1>5. Good(s, EnableTools(s, a), but)
  BY <1>0, Checks1 DEF EnableTools, None
<1> QED
  BY <1>1, <1>2, <1>3, <1>4, <1>5

LEMMA VisualVerifyGood ==
  ASSUME NEW s, Sound(s), NEW a, NEW but
  PROVE  Good(s, VisualVerify(s, a), but)
<1> DEFINE out == IF a.opt = "image" THEN Quiet(s) ELSE CaptureViewport(s, a)
<1>1. VisualVerify(s, a) = Checked(s, <<<<Valid(a, "expected"), "invalid">>>>, out)
  BY DEF VisualVerify
<1>2. Good(s, out, but)
  BY StillGood, LooksGood
<1> HIDE DEF out
<1> QED
  BY <1>1, <1>2, Checks1 DEF None

LEMMA InspectMaterialGood ==
  ASSUME NEW s, Sound(s), NEW a, NEW but
  PROVE  Good(s, InspectMaterial(s, a), but)
<1> DEFINE c1 == <<Valid(a, "names"), "ValueError">>
           c2 == <<"m" \in DOMAIN s.mats, "MaterialNotFoundError">>
           c3 == <<a.o \in Objects(s), "ObjectNotFoundError">>
           c4 == <<Valid(a, "slot") /\ Data(s, a.o).mat # None, "MaterialSlotError">>
<1>1. InspectMaterial(s, a) = IF a.opt = "named" THEN Checked(s, <<c1, c2>>, Quiet(s))
                              ELSE Checked(s, <<c1, c3, c4>>, Quiet(s))
  BY DEF InspectMaterial
<1>2. c1[2] # None /\ c2[2] # None /\ c3[2] # None /\ c4[2] # None
  BY DEF None
<1>3. Good(s, Quiet(s), but)
  BY StillGood
<1> HIDE DEF c1, c2, c3, c4
<1>4. Good(s, Checked(s, <<c1, c2>>, Quiet(s)), but) /\ Good(s, Checked(s, <<c1, c3, c4>>, Quiet(s)), but)
  BY <1>2, <1>3, Checks2, Checks3
<1> QED
  BY <1>1, <1>4

-----------------------------------------------------------------------------
(* The adapter *)

\* The codes of the errors that a mutator may raise.
Codes(codes) == \A e \in DOMAIN codes : codes[e] # None

LEMMA CodesPut ==
  ASSUME NEW codes, Codes(codes), NEW e, NEW code, code # None
  PROVE  Codes(Put(codes, e, code))
BY DEF Codes, Put

LEMMA CodeTables ==
  Codes(<<>>) /\ Codes(Bad) /\ Codes(Missing) /\ Codes(MeshBad) /\ Codes(SlotBad) /\ Codes(ShapeBad) /\ Codes(AssetBad)
  /\ Codes(Put(Bad, "ModelingError", "INVALID_ARGUMENT"))
<1>0. Codes(<<>>)
  BY DEF Codes
<1>1. Codes(Bad)
  BY DEF Codes, Bad, None
<1>2. Codes(Missing)
  BY <1>1, CodesPut DEF Missing, None
<1>3. Codes(MeshBad)
  BY <1>2, CodesPut DEF MeshBad, None
<1>4. Codes(SlotBad)
  BY <1>2, CodesPut DEF SlotBad, None
<1>5. Codes(ShapeBad)
  BY <1>1, CodesPut DEF ShapeBad, None
<1>6. Codes(AssetBad)
  BY <1>1, CodesPut DEF AssetBad, None
<1>7. Codes(Put(Bad, "ModelingError", "INVALID_ARGUMENT"))
  BY <1>1, CodesPut DEF None
<1> QED
  BY <1>0, <1>1, <1>2, <1>3, <1>4, <1>5, <1>6, <1>7

\* The adapter tells the same outcome, with an error of its own.
LEMMA ToldSame ==
  ASSUME NEW out, out = [scene |-> out.scene, error |-> out.error, steps |-> out.steps],
         NEW codes, Codes(codes), NEW other, other # None
  PROVE  LET t == Told(codes, other, out)
         IN  /\ t = [scene |-> t.scene, error |-> t.error, steps |-> t.steps]
             /\ t.scene = out.scene /\ t.steps = out.steps /\ (t.error = None <=> out.error = None)
<1> DEFINE e == IF out.error = None THEN None ELSE IF out.error \in DOMAIN codes THEN codes[out.error] ELSE other
<1>1. Told(codes, other, out) = [out EXCEPT !.error = e]
  BY DEF Told
<1>2. e = None <=> out.error = None
  BY DEF Codes
<1> HIDE DEF e
<1> QED
  BY <1>1, <1>2

LEMMA ToldGood ==
  ASSUME NEW s, NEW out, NEW but, Good(s, out, but), NEW codes, Codes(codes), NEW other, other # None
  PROVE  Good(s, Told(codes, other, out), but)
BY ToldSame DEF Good

LEMMA ModelingGood ==
  ASSUME NEW s, NEW out, NEW but, Good(s, out, but)
  PROVE  Good(s, Modeling(out), but)
BY ToldGood, CodeTables DEF Modeling, None

LEMMA ModelingFilm ==
  ASSUME NEW s, NEW out, NEW but, Film(s, out, but)
  PROVE  Film(s, Modeling(out), but)
<1> DEFINE t == Modeling(out)
<1>1. /\ t = [scene |-> t.scene, error |-> t.error, steps |-> t.steps]
      /\ t.scene = out.scene /\ t.steps = out.steps /\ (t.error = None <=> out.error = None)
  BY ToldSame, CodeTables DEF Modeling, None, Film
<1> HIDE DEF t
<1> QED
  BY <1>1 DEF Film, t

-----------------------------------------------------------------------------
(* The calls *)

Films == {"create_prop", "polish_model", "character_library", "rig_character", "animate_sequence",
          "animate_character", "set_environment", "camera_move", "set_look", "create_terrain", "scatter",
          "unwrap_uv", "bake_material", "check_model", "check_shot", "camera_settings", "render_contact_sheet",
          "make_soundtrack", "edit_video", "render_shots", "render_image", "render_animation"}

LEMMA AllowedCall ==
  ASSUME NEW tool, NEW risk, NEW os, NEW ps, NEW opts, NEW bads, NEW a \in Allowed(tool, risk, os, ps, opts, bads)
  PROVE  Args(a) /\ a.tool = tool /\ a.risk = risk
BY DEF Allowed, Args

\* A call of a tool that deletes asks for the user's approval.
Consented(a) == Args(a) /\ (a.tool = "delete_object" => a.risk = "MEDIUM")

LEMMA ReadingCall ==
  ASSUME NEW a \in ReadingCalls
  PROVE  Consented(a) /\ a.tool \in Reads
<1>1. ASSUME a \in InspectSceneTool PROVE Args(a) /\ a.tool = "inspect_scene" /\ a.risk = "READ_ONLY"
  BY <1>1, AllowedCall DEF InspectSceneTool
<1>2. ASSUME a \in InspectSelectionTool PROVE Args(a) /\ a.tool = "inspect_selection" /\ a.risk = "READ_ONLY"
  BY <1>2, AllowedCall DEF InspectSelectionTool
<1>3. ASSUME a \in InspectObjectTool PROVE Args(a) /\ a.tool = "inspect_object" /\ a.risk = "READ_ONLY"
  BY <1>3, AllowedCall DEF InspectObjectTool
<1>4. ASSUME a \in InspectMaterialTool PROVE Args(a) /\ a.tool = "inspect_material" /\ a.risk = "READ_ONLY"
  BY <1>4, AllowedCall DEF InspectMaterialTool
<1>5. ASSUME a \in InspectMeshTool PROVE Args(a) /\ a.tool = "inspect_mesh" /\ a.risk = "READ_ONLY"
  BY <1>5, AllowedCall DEF InspectMeshTool
<1> QED
  BY <1>1, <1>2, <1>3, <1>4, <1>5 DEF ReadingCalls, Reads, Consented

LEMMA ViewingCall ==
  ASSUME NEW a \in ViewingCalls
  PROVE  Consented(a) /\ a.tool \in Views
<1>1. ASSUME a \in CaptureViewportTool PROVE Args(a) /\ a.tool = "capture_viewport" /\ a.risk = "READ_ONLY"
  BY <1>1, AllowedCall DEF CaptureViewportTool
<1>2. ASSUME a \in VisualVerifyTool PROVE Args(a) /\ a.tool = "visual_verify" /\ a.risk = "READ_ONLY"
  BY <1>2, AllowedCall DEF VisualVerifyTool
<1>3. ASSUME a \in EnableToolsTool PROVE Args(a) /\ a.tool = "enable_tools" /\ a.risk = "READ_ONLY"
  BY <1>3, AllowedCall DEF EnableToolsTool
<1> QED
  BY <1>1, <1>2, <1>3 DEF ViewingCalls, Views, Consented

LEMMA SettingCall ==
  ASSUME NEW a \in SettingCalls
  PROVE  Consented(a) /\ a.tool \in Sets
<1>1. ASSUME a \in CreatePrimitiveTool PROVE Args(a) /\ a.tool = "create_primitive" /\ a.risk = "LOW"
  BY <1>1, AllowedCall DEF CreatePrimitiveTool
<1>2. ASSUME a \in CreateCameraTool PROVE Args(a) /\ a.tool = "create_camera" /\ a.risk = "LOW"
  BY <1>2, AllowedCall DEF CreateCameraTool
<1>3. ASSUME a \in CreateLightTool PROVE Args(a) /\ a.tool = "create_light" /\ a.risk = "LOW"
  BY <1>3, AllowedCall DEF CreateLightTool
<1>4. ASSUME a \in SetShadingTool PROVE Args(a) /\ a.tool = "set_shading" /\ a.risk = "LOW"
  BY <1>4, AllowedCall DEF SetShadingTool
<1>5. ASSUME a \in AddModifierTool PROVE Args(a) /\ a.tool = "add_modifier" /\ a.risk = "LOW"
  BY <1>5, AllowedCall DEF AddModifierTool
<1> QED
  BY <1>1, <1>2, <1>3, <1>4, <1>5 DEF SettingCalls, Sets, Consented

LEMMA HandlingCall ==
  ASSUME NEW a \in HandlingCalls
  PROVE  Consented(a) /\ a.tool \in Moves
<1>1. ASSUME a \in TransformObjectTool PROVE Args(a) /\ a.tool = "transform_object" /\ a.risk = "LOW"
  BY <1>1, AllowedCall DEF TransformObjectTool
<1>2. ASSUME a \in DeleteObjectTool PROVE Args(a) /\ a.tool = "delete_object" /\ a.risk = "MEDIUM"
  BY <1>2, AllowedCall DEF DeleteObjectTool
<1>3. ASSUME a \in DuplicateObjectTool PROVE Args(a) /\ a.tool = "duplicate_object" /\ a.risk = "LOW"
  BY <1>3, AllowedCall DEF DuplicateObjectTool
<1>4. ASSUME a \in ImportAssetTool PROVE Args(a) /\ a.tool = "import_asset" /\ a.risk = "LOW"
  BY <1>4, AllowedCall DEF ImportAssetTool
<1>5. ASSUME a \in SetMaterialTool PROVE Args(a) /\ a.tool = "set_material" /\ a.risk = "LOW"
  BY <1>5, AllowedCall DEF SetMaterialTool
<1>6. ASSUME a \in AssignMaterialTool PROVE Args(a) /\ a.tool = "assign_material" /\ a.risk = "LOW"
  BY <1>6, AllowedCall DEF AssignMaterialTool
<1> QED
  BY <1>1, <1>2, <1>3, <1>4, <1>5, <1>6 DEF HandlingCalls, Moves, Consented

LEMMA BuildingCall ==
  ASSUME NEW a \in BuildingCalls
  PROVE  Consented(a) /\ a.tool \in Builds
<1>1. ASSUME a \in CreateMeshTool PROVE Args(a) /\ a.tool = "create_mesh" /\ a.risk = "LOW"
  BY <1>1, AllowedCall DEF CreateMeshTool
<1>2. ASSUME a \in CreateExtrusionTool PROVE Args(a) /\ a.tool = "create_extrusion" /\ a.risk = "LOW"
  BY <1>2, AllowedCall DEF CreateExtrusionTool
<1>3. ASSUME a \in CreateBeamTool PROVE Args(a) /\ a.tool = "create_beam" /\ a.risk = "LOW"
  BY <1>3, AllowedCall DEF CreateBeamTool
<1>4. ASSUME a \in LoftProfilesTool PROVE Args(a) /\ a.tool = "loft_profiles" /\ a.risk = "LOW"
  BY <1>4, AllowedCall DEF LoftProfilesTool
<1>5. ASSUME a \in PlaceOnSocketTool PROVE Args(a) /\ a.tool = "place_on_socket" /\ a.risk = "LOW"
  BY <1>5, AllowedCall DEF PlaceOnSocketTool
<1>6. ASSUME a \in CreateFromSpecTool PROVE Args(a) /\ a.tool = "create_from_spec" /\ a.risk = "LOW"
  BY <1>6, AllowedCall DEF CreateFromSpecTool
<1>7. ASSUME a \in MeshEditTool PROVE Args(a) /\ a.tool = "mesh_edit" /\ a.risk = "LOW"
  BY <1>7, AllowedCall DEF MeshEditTool
<1>8. ASSUME a \in JoinObjectsTool PROVE Args(a) /\ a.tool = "join_objects" /\ a.risk = "LOW"
  BY <1>8, AllowedCall DEF JoinObjectsTool
<1>9. ASSUME a \in ParentObjectTool PROVE Args(a) /\ a.tool = "parent_object" /\ a.risk = "LOW"
  BY <1>9, AllowedCall DEF ParentObjectTool
<1>10. ASSUME a \in ApplyTransformTool PROVE Args(a) /\ a.tool = "apply_transform" /\ a.risk = "LOW"
  BY <1>10, AllowedCall DEF ApplyTransformTool
<1>11. ASSUME a \in SetOriginTool PROVE Args(a) /\ a.tool = "set_origin" /\ a.risk = "LOW"
  BY <1>11, AllowedCall DEF SetOriginTool
<1>12. ASSUME a \in ExportGltfTool PROVE Args(a) /\ a.tool = "export_gltf" /\ a.risk = "LOW"
  BY <1>12, AllowedCall DEF ExportGltfTool
<1>13. ASSUME a \in AddShapeModifierTool PROVE Args(a) /\ a.tool = "add_shape_modifier" /\ a.risk = "LOW"
  BY <1>13, AllowedCall DEF AddShapeModifierTool
<1>14. ASSUME a \in FrameViewTool PROVE Args(a) /\ a.tool = "frame_view" /\ a.risk = "LOW"
  BY <1>14, AllowedCall DEF FrameViewTool
<1> QED
  BY <1>1, <1>2, <1>3, <1>4, <1>5, <1>6, <1>7, <1>8, <1>9, <1>10, <1>11, <1>12, <1>13, <1>14 DEF BuildingCalls, Builds, Consented

LEMMA FilmingCall ==
  ASSUME NEW a \in FilmingCalls
  PROVE  Consented(a) /\ a.tool \in Films
<1>1. ASSUME a \in CreatePropTool PROVE Args(a) /\ a.tool = "create_prop" /\ a.risk = "LOW"
  BY <1>1, AllowedCall DEF CreatePropTool
<1>2. ASSUME a \in PolishModelTool PROVE Args(a) /\ a.tool = "polish_model" /\ a.risk = "LOW"
  BY <1>2, AllowedCall DEF PolishModelTool
<1>3. ASSUME a \in CharacterLibraryTool PROVE Args(a) /\ a.tool = "character_library" /\ a.risk = "LOW"
  BY <1>3, AllowedCall DEF CharacterLibraryTool
<1>4. ASSUME a \in RigCharacterTool PROVE Args(a) /\ a.tool = "rig_character" /\ a.risk = "LOW"
  BY <1>4, AllowedCall DEF RigCharacterTool
<1>5. ASSUME a \in AnimateSequenceTool PROVE Args(a) /\ a.tool = "animate_sequence" /\ a.risk = "LOW"
  BY <1>5, AllowedCall DEF AnimateSequenceTool
<1>6. ASSUME a \in AnimateCharacterTool PROVE Args(a) /\ a.tool = "animate_character" /\ a.risk = "LOW"
  BY <1>6, AllowedCall DEF AnimateCharacterTool
<1>7. ASSUME a \in SetEnvironmentTool PROVE Args(a) /\ a.tool = "set_environment" /\ a.risk = "LOW"
  BY <1>7, AllowedCall DEF SetEnvironmentTool
<1>8. ASSUME a \in CameraMoveTool PROVE Args(a) /\ a.tool = "camera_move" /\ a.risk = "LOW"
  BY <1>8, AllowedCall DEF CameraMoveTool
<1>9. ASSUME a \in SetLookTool PROVE Args(a) /\ a.tool = "set_look" /\ a.risk = "LOW"
  BY <1>9, AllowedCall DEF SetLookTool
<1>10. ASSUME a \in CreateTerrainTool PROVE Args(a) /\ a.tool = "create_terrain" /\ a.risk = "LOW"
  BY <1>10, AllowedCall DEF CreateTerrainTool
<1>11. ASSUME a \in ScatterTool PROVE Args(a) /\ a.tool = "scatter" /\ a.risk = "LOW"
  BY <1>11, AllowedCall DEF ScatterTool
<1>12. ASSUME a \in UnwrapUvTool PROVE Args(a) /\ a.tool = "unwrap_uv" /\ a.risk = "LOW"
  BY <1>12, AllowedCall DEF UnwrapUvTool
<1>13. ASSUME a \in BakeMaterialTool PROVE Args(a) /\ a.tool = "bake_material" /\ a.risk = "LOW"
  BY <1>13, AllowedCall DEF BakeMaterialTool
<1>14. ASSUME a \in CheckModelTool PROVE Args(a) /\ a.tool = "check_model" /\ a.risk = "READ_ONLY"
  BY <1>14, AllowedCall DEF CheckModelTool
<1>15. ASSUME a \in CheckShotTool PROVE Args(a) /\ a.tool = "check_shot" /\ a.risk = "READ_ONLY"
  BY <1>15, AllowedCall DEF CheckShotTool
<1>16. ASSUME a \in CameraSettingsTool PROVE Args(a) /\ a.tool = "camera_settings" /\ a.risk = "LOW"
  BY <1>16, AllowedCall DEF CameraSettingsTool
<1>17. ASSUME a \in RenderContactSheetTool PROVE Args(a) /\ a.tool = "render_contact_sheet" /\ a.risk = "LOW"
  BY <1>17, AllowedCall DEF RenderContactSheetTool
<1>18. ASSUME a \in MakeSoundtrackTool PROVE Args(a) /\ a.tool = "make_soundtrack" /\ a.risk = "LOW"
  BY <1>18, AllowedCall DEF MakeSoundtrackTool
<1>19. ASSUME a \in EditVideoTool PROVE Args(a) /\ a.tool = "edit_video" /\ a.risk = "LOW"
  BY <1>19, AllowedCall DEF EditVideoTool
<1>20. ASSUME a \in RenderShotsTool PROVE Args(a) /\ a.tool = "render_shots" /\ a.risk = "LOW"
  BY <1>20, AllowedCall DEF RenderShotsTool
<1>21. ASSUME a \in RenderImageTool PROVE Args(a) /\ a.tool = "render_image" /\ a.risk = "LOW"
  BY <1>21, AllowedCall DEF RenderImageTool
<1>22. ASSUME a \in RenderAnimationTool PROVE Args(a) /\ a.tool = "render_animation" /\ a.risk = "LOW"
  BY <1>22, AllowedCall DEF RenderAnimationTool
<1> QED
  BY <1>1, <1>2, <1>3, <1>4, <1>5, <1>6, <1>7, <1>8, <1>9, <1>10, <1>11, <1>12, <1>13, <1>14, <1>15, <1>16, <1>17, <1>18, <1>19, <1>20, <1>21, <1>22 DEF FilmingCalls, Films, Consented

LEMMA CallConsented ==
  ASSUME NEW a \in Calls
  PROVE  Consented(a) /\ a.tool \in Reads \cup Views \cup Sets \cup Moves \cup Builds \cup Films
BY ReadingCall, ViewingCall, SettingCall, HandlingCall, BuildingCall, FilmingCall DEF Calls

-----------------------------------------------------------------------------
(* What a call does *)

\* The objects that a call may take away, and the fields of data that it sets whoever uses them.
Spares(s, a) ==
  [objects |-> CASE a.tool = "delete_object" -> {a.o}
                 [] a.tool = "join_objects"  -> Meshes(s)
                 [] OTHER                    -> Taken(Sort(a.tool), s),
   fields  |-> IF a.tool = "scatter" THEN (DOMAIN s.data) \X Fields ELSE Reached(Sort(a.tool), s)]

LEMMA SparesOf ==
  ASSUME NEW s, NEW a
  PROVE  /\ a.tool = "delete_object" => a.o \in Spares(s, a).objects
         /\ a.tool = "join_objects" => Meshes(s) \subseteq Spares(s, a).objects
         /\ a.tool \in Surfaces => (DOMAIN s.data) \X {"form"} \subseteq Spares(s, a).fields
         /\ a.tool \in Paints => (DOMAIN s.data) \X {"mat"} \subseteq Spares(s, a).fields
         /\ a.tool = "scatter" => (DOMAIN s.data) \X Fields \subseteq Spares(s, a).fields
         /\ a.tool \in {"set_environment", "render_shots"} => Lit(s, Spares(s, a))
         /\ a.tool \in {"camera_move", "render_shots"} => Filmed(s, Spares(s, a))
<1>1. a.tool = "delete_object" => a.o \in Spares(s, a).objects
  BY DEF Spares
<1>2. a.tool = "join_objects" => Meshes(s) \subseteq Spares(s, a).objects
  BY DEF Spares
<1>3. a.tool \in Surfaces => Sort(a.tool) = "surface" /\ a.tool # "scatter"
  BY DEF Sort, Surfaces, Unsharing, Paints
<1>4. a.tool \in Paints => Sort(a.tool) = "paint" /\ a.tool # "scatter"
  BY DEF Sort, Surfaces, Unsharing, Paints
<1>5. a.tool = "scatter" => (DOMAIN s.data) \X Fields \subseteq Spares(s, a).fields
  BY DEF Spares
<1>6. /\ a.tool = "set_environment" => Sort(a.tool) = "light"
      /\ a.tool = "camera_move" => Sort(a.tool) = "camera"
      /\ a.tool = "render_shots" => Sort(a.tool) = "film"
  BY DEF Sort, Surfaces, Unsharing, Paints
<1>7. a.tool \in {"set_environment", "camera_move", "render_shots"} =>
        Spares(s, a).objects = Taken(Sort(a.tool), s) /\ Spares(s, a).fields = Reached(Sort(a.tool), s)
  BY DEF Spares
<1>8. ASSUME a.tool \in {"set_environment", "render_shots"} PROVE Lit(s, Spares(s, a))
  <2>1. /\ {"AI_Neon", "AI_Ground"} \subseteq Taken(Sort(a.tool), s)
        /\ "AI_Sun" \in Taken(Sort(a.tool), s) \/ Kind(s, "AI_Sun") = "LIGHT"
    BY <1>6, <1>8 DEF Taken
  <2>2. Reached(Sort(a.tool), s) = {s.obj[o].data : o \in {"AI_Ground"} \cap Meshes(s)} \X Fields
    BY <1>6, <1>8 DEF Reached
  <2>3. Kind(s, "AI_Ground") = "MESH" => "AI_Ground" \in Meshes(s)
    BY DEF Meshes, Kind, None
  <2> QED
    BY <1>7, <1>8, <2>1, <2>2, <2>3 DEF Lit
<1>9. ASSUME a.tool \in {"camera_move", "render_shots"} PROVE Filmed(s, Spares(s, a))
  <2>1. "ShotCamera" \in Taken(Sort(a.tool), s) \/ Kind(s, "ShotCamera") = "CAMERA"
    BY <1>6, <1>9 DEF Taken
  <2> QED
    BY <1>7, <1>9, <2>1 DEF Filmed
<1>10. a.tool \in Surfaces => (DOMAIN s.data) \X {"form"} \subseteq Spares(s, a).fields
  BY <1>3 DEF Spares, Reached
<1>11. a.tool \in Paints => (DOMAIN s.data) \X {"mat"} \subseteq Spares(s, a).fields
  BY <1>4 DEF Spares, Reached
<1> HIDE DEF Spares
<1> QED
  BY <1>1, <1>2, <1>5, <1>8, <1>9, <1>10, <1>11

LEMMA ReadingGood ==
  ASSUME NEW s, Sound(s), NEW a, a.tool \in Reads, Room(s, Adds(a))
  PROVE  Good(s, Reading(s, a), Spares(s, a))
<1>1. CASE a.tool \in {"inspect_scene", "inspect_selection"}
  <2>1. Reading(s, a) = Told(<<>>, "CONTEXT_UNAVAILABLE", Look(s, a))
    BY <1>1 DEF Reading
  <2>2. Good(s, Look(s, a), Spares(s, a))
    BY LooksGood
  <2> QED
    BY <2>1, <2>2, ToldGood, CodeTables DEF None
<1>2. CASE a.tool = "inspect_object"
  <2>1. Reading(s, a) = Told(Missing, Internal, InspectObject(s, a))
    BY <1>2 DEF Reading
  <2>2. Good(s, InspectObject(s, a), Spares(s, a))
    BY LooksGood
  <2> QED
    BY <2>1, <2>2, ToldGood, CodeTables DEF None, Internal
<1>3. CASE a.tool = "inspect_material"
  <2>1. Reading(s, a) = Told(SlotBad, Internal, InspectMaterial(s, a))
    BY <1>3 DEF Reading
  <2>2. Good(s, InspectMaterial(s, a), Spares(s, a))
    BY InspectMaterialGood
  <2> QED
    BY <2>1, <2>2, ToldGood, CodeTables DEF None, Internal
<1>4. CASE a.tool = "inspect_mesh"
  <2>1. Reading(s, a) = Told(MeshBad, Internal, InspectMesh(s, a))
    BY <1>4 DEF Reading
  <2>2. Good(s, InspectMesh(s, a), Spares(s, a))
    BY LooksGood
  <2> QED
    BY <2>1, <2>2, ToldGood, CodeTables DEF None, Internal
<1> QED
  BY <1>1, <1>2, <1>3, <1>4 DEF Reads

LEMMA ViewingGood ==
  ASSUME NEW s, Sound(s), NEW a, a.tool \in Views, Room(s, Adds(a))
  PROVE  Good(s, Viewing(s, a), Spares(s, a))
<1>1. CASE a.tool = "capture_viewport"
  <2>1. Viewing(s, a) = Told(Bad, "VIEWPORT_UNAVAILABLE", CaptureViewport(s, a))
    BY <1>1 DEF Viewing
  <2>2. Good(s, CaptureViewport(s, a), Spares(s, a))
    BY LooksGood
  <2> QED
    BY <2>1, <2>2, ToldGood, CodeTables DEF None
<1>2. CASE a.tool = "visual_verify"
  <2>1. Viewing(s, a) = Told(Bad, "VIEWPORT_UNAVAILABLE", VisualVerify(s, a))
    BY <1>2 DEF Viewing
  <2>2. Good(s, VisualVerify(s, a), Spares(s, a))
    BY VisualVerifyGood
  <2> QED
    BY <2>1, <2>2, ToldGood, CodeTables DEF None
<1>3. CASE a.tool = "enable_tools"
  <2>1. Viewing(s, a) = Told(Bad, Internal, EnableTools(s, a))
    BY <1>3 DEF Viewing
  <2>2. Good(s, EnableTools(s, a), Spares(s, a))
    BY LooksGood
  <2> QED
    BY <2>1, <2>2, ToldGood, CodeTables DEF None, Internal
<1> QED
  BY <1>1, <1>2, <1>3 DEF Views

LEMMA SettingGood ==
  ASSUME NEW s, Sound(s), NEW a, a.tool \in Sets, Room(s, Adds(a))
  PROVE  Good(s, Setting(s, a), Spares(s, a))
<1>1. CASE a.tool = "create_primitive"
  <2>1. Setting(s, a) = Told(ShapeBad, Internal, CreatePrimitive(s, a))
    BY <1>1 DEF Setting
  <2>2. Adds(a) = 1
    BY <1>1 DEF Adds, Makers
  <2>3. Good(s, CreatePrimitive(s, a), Spares(s, a))
    BY <2>2, CreatePrimitiveGood
  <2> QED
    BY <2>1, <2>3, ToldGood, CodeTables DEF None, Internal
<1>2. CASE a.tool = "create_camera"
  <2>1. Setting(s, a) = Told(Bad, Internal, CreateCamera(s, a))
    BY <1>2 DEF Setting
  <2>2. Adds(a) = 1
    BY <1>2 DEF Adds, Makers
  <2>3. Good(s, CreateCamera(s, a), Spares(s, a))
    BY <2>2, CreateCameraGood
  <2> QED
    BY <2>1, <2>3, ToldGood, CodeTables DEF None, Internal
<1>3. CASE a.tool = "create_light"
  <2>1. Setting(s, a) = Told(Bad, Internal, CreateLight(s, a))
    BY <1>3 DEF Setting
  <2>2. Adds(a) = 1
    BY <1>3 DEF Adds, Makers
  <2>3. Good(s, CreateLight(s, a), Spares(s, a))
    BY <2>2, CreateLightGood
  <2> QED
    BY <2>1, <2>3, ToldGood, CodeTables DEF None, Internal
<1>4. CASE a.tool = "set_shading"
  <2>1. Setting(s, a) = Told(Bad, Internal, SetShading(s, a))
    BY <1>4 DEF Setting
  <2>2. Good(s, SetShading(s, a), Spares(s, a))
    BY <1>4, SparesOf, SetShadingGood DEF Surfaces
  <2> QED
    BY <2>1, <2>2, ToldGood, CodeTables DEF None, Internal
<1>5. CASE a.tool = "add_modifier"
  <2>1. Setting(s, a) = Told(Bad, Internal, AddModifier(s, a))
    BY <1>5 DEF Setting
  <2>2. Good(s, AddModifier(s, a), Spares(s, a))
    BY AddModifierGood
  <2> QED
    BY <2>1, <2>2, ToldGood, CodeTables DEF None, Internal
<1> QED
  BY <1>1, <1>2, <1>3, <1>4, <1>5 DEF Sets

LEMMA HandlingGood ==
  ASSUME NEW s, Sound(s), NEW a, a.tool \in Moves, Room(s, Adds(a))
  PROVE  Good(s, Handling(s, a), Spares(s, a))
<1>1. CASE a.tool = "transform_object"
  <2>1. Handling(s, a) = Told(Missing, Internal, TransformObject(s, a))
    BY <1>1 DEF Handling
  <2>2. Good(s, TransformObject(s, a), Spares(s, a))
    BY TransformObjectGood
  <2> QED
    BY <2>1, <2>2, ToldGood, CodeTables DEF None, Internal
<1>2. CASE a.tool = "delete_object"
  <2>1. Handling(s, a) = Told(Missing, Internal, DeleteObject(s, a))
    BY <1>2 DEF Handling
  <2>2. a.o \in Spares(s, a).objects
    BY <1>2, SparesOf
  <2>3. Good(s, DeleteObject(s, a), Spares(s, a))
    BY <2>2, DeleteObjectGood
  <2> QED
    BY <2>1, <2>3, ToldGood, CodeTables DEF None, Internal
<1>3. CASE a.tool = "duplicate_object"
  <2>1. Handling(s, a) = Told(Missing, Internal, DuplicateObject(s, a))
    BY <1>3 DEF Handling
  <2>2. Adds(a) = 1
    BY <1>3 DEF Adds, Makers
  <2>3. Good(s, DuplicateObject(s, a), Spares(s, a))
    BY <2>2, DuplicateObjectGood
  <2> QED
    BY <2>1, <2>3, ToldGood, CodeTables DEF None, Internal
<1>4. CASE a.tool = "import_asset"
  <2>1. Handling(s, a) = Told(AssetBad, Internal, ImportAsset(s, a))
    BY <1>4 DEF Handling
  <2>2. Adds(a) = 1
    BY <1>4 DEF Adds, Makers
  <2>3. Good(s, ImportAsset(s, a), Spares(s, a))
    BY <2>2, ImportAssetGood
  <2> QED
    BY <2>1, <2>3, ToldGood, CodeTables DEF None, Internal
<1>5. CASE a.tool = "set_material"
  <2>1. Handling(s, a) = Told(Missing, Internal, SetMaterial(s, a))
    BY <1>5 DEF Handling
  <2>2. Good(s, SetMaterial(s, a), Spares(s, a))
    BY <1>5, SparesOf, SetMaterialGood DEF Paints
  <2> QED
    BY <2>1, <2>2, ToldGood, CodeTables DEF None, Internal
<1>6. CASE a.tool = "assign_material"
  <2>1. Handling(s, a) = Told(Missing, Internal, AssignMaterial(s, a))
    BY <1>6 DEF Handling
  <2>2. Good(s, AssignMaterial(s, a), Spares(s, a))
    BY <1>6, SparesOf, AssignMaterialGood DEF Paints
  <2> QED
    BY <2>1, <2>2, ToldGood, CodeTables DEF None, Internal
<1> QED
  BY <1>1, <1>2, <1>3, <1>4, <1>5, <1>6 DEF Moves

LEMMA BuildingGood ==
  ASSUME NEW s, Sound(s), NEW a, a.tool \in Builds, Room(s, Adds(a))
  PROVE  Good(s, Building(s, a), Spares(s, a))
<1>1. CASE a.tool = "create_mesh"
  <2>1. Building(s, a) = CreateMesh(s, a)
    BY <1>1 DEF Building
  <2>2. Adds(a) = 1
    BY <1>1 DEF Adds, Makers
  <2> QED
    BY <2>1, <2>2, CreateMeshGood
<1>2. CASE a.tool = "create_extrusion"
  <2>1. Building(s, a) = CreateExtrusion(s, a)
    BY <1>2 DEF Building
  <2>2. Adds(a) = 1
    BY <1>2 DEF Adds, Makers
  <2> QED
    BY <2>1, <2>2, LoftsGood
<1>3. CASE a.tool = "create_beam"
  <2>1. Building(s, a) = CreateBeam(s, a)
    BY <1>3 DEF Building
  <2>2. Adds(a) = 1
    BY <1>3 DEF Adds, Makers
  <2> QED
    BY <2>1, <2>2, LoftsGood
<1>4. CASE a.tool = "loft_profiles"
  <2>1. Building(s, a) = LoftProfiles(s, a)
    BY <1>4 DEF Building
  <2>2. Adds(a) = 1
    BY <1>4 DEF Adds, Makers
  <2> QED
    BY <2>1, <2>2, LoftsGood
<1>5. CASE a.tool = "place_on_socket"
  <2>1. Building(s, a) = PlaceOnSocket(s, a)
    BY <1>5 DEF Building
  <2> QED
    BY <2>1, PlaceOnSocketGood
<1>6. CASE a.tool = "create_from_spec"
  <2>1. Building(s, a) = CreateFromSpec(s, a)
    BY <1>6 DEF Building
  <2>2. Adds(a) = 2
    BY <1>6 DEF Adds, Makers
  <2> QED
    BY <2>1, <2>2, CreateFromSpecGood
<1>7. CASE a.tool = "mesh_edit"
  <2>1. Building(s, a) = MeshEdit(s, a)
    BY <1>7 DEF Building
  <2>2. Adds(a) = 1
    BY <1>7 DEF Adds, Makers
  <2> QED
    BY <2>1, <2>2, MeshEditGood
<1>8. CASE a.tool = "join_objects"
  <2>1. Building(s, a) = JoinObjects(s, a)
    BY <1>8 DEF Building
  <2>2. Meshes(s) \subseteq Spares(s, a).objects
    BY <1>8, SparesOf
  <2> QED
    BY <2>1, <2>2, JoinObjectsGood
<1>9. CASE a.tool = "parent_object"
  <2>1. Building(s, a) = ParentObject(s, a)
    BY <1>9 DEF Building
  <2> QED
    BY <2>1, ParentObjectGood
<1>10. CASE a.tool = "apply_transform"
  <2>1. Building(s, a) = ApplyTransform(s, a)
    BY <1>10 DEF Building
  <2> QED
    BY <2>1, ApplyTransformGood
<1>11. CASE a.tool = "set_origin"
  <2>1. Building(s, a) = SetOrigin(s, a)
    BY <1>11 DEF Building
  <2> QED
    BY <2>1, SetOriginGood
<1>12. CASE a.tool = "export_gltf"
  <2>1. Building(s, a) = ExportGltf(s, a)
    BY <1>12 DEF Building
  <2> QED
    BY <2>1, ExportGltfGood
<1>13. CASE a.tool = "add_shape_modifier"
  <2>1. Building(s, a) = AddShapeModifier(s, a)
    BY <1>13 DEF Building
  <2> QED
    BY <2>1, AddShapeModifierGood
<1>14. CASE a.tool = "frame_view"
  <2>1. Building(s, a) = FrameView(s, a)
    BY <1>14 DEF Building
  <2> QED
    BY <2>1, OutsideGood
<1> QED
  BY <1>1, <1>2, <1>3, <1>4, <1>5, <1>6, <1>7, <1>8, <1>9, <1>10, <1>11, <1>12, <1>13, <1>14 DEF Builds

LEMMA FilmingGood ==
  ASSUME NEW s, Sound(s), NEW a, a.tool \in Films, Room(s, Adds(a)), a.tool # "render_shots", Args(a)
  PROVE  Good(s, Filming(s, a), Spares(s, a))
<1>1. CASE a.tool = "create_prop"
  <2>1. Filming(s, a) = CreateProp(s, a)
    BY <1>1 DEF Filming
  <2>2. Adds(a) = 2
    BY <1>1 DEF Adds, Makers
  <2> QED
    BY <2>1, <2>2, CreatePropGood
<1>2. CASE a.tool = "polish_model"
  <2>1. Filming(s, a) = PolishModel(s, a)
    BY <1>2 DEF Filming
  <2> QED
    BY <2>1, PolishModelGood
<1>3. CASE a.tool = "character_library"
  <2>1. Filming(s, a) = CharacterLibrary(s, a)
    BY <1>3 DEF Filming
  <2>2. Adds(a) = 2
    BY <1>3 DEF Adds, Makers
  <2> QED
    BY <2>1, <2>2, CharacterLibraryGood
<1>4. CASE a.tool = "rig_character"
  <2>1. Filming(s, a) = RigCharacter(s, a)
    BY <1>4 DEF Filming
  <2>2. Adds(a) = 1
    BY <1>4 DEF Adds, Makers
  <2> QED
    BY <2>1, <2>2, RigCharacterGood
<1>5. CASE a.tool = "animate_sequence"
  <2>1. Filming(s, a) = AnimateSequence(s, a)
    BY <1>5 DEF Filming
  <2> QED
    BY <2>1, AnimateGood
<1>6. CASE a.tool = "animate_character"
  <2>1. Filming(s, a) = AnimateCharacter(s, a)
    BY <1>6 DEF Filming
  <2> QED
    BY <2>1, AnimateGood
<1>7. CASE a.tool = "set_environment"
  <2>1. Filming(s, a) = SetEnvironment(s, a)
    BY <1>7 DEF Filming
  <2>2. Lit(s, Spares(s, a))
    BY <1>7, SparesOf
  <2> QED
    BY <2>1, <2>2, SetEnvironmentGood
<1>8. CASE a.tool = "camera_move"
  <2>1. Filming(s, a) = CameraMove(s, a)
    BY <1>8 DEF Filming
  <2>2. Filmed(s, Spares(s, a))
    BY <1>8, SparesOf
  <2> QED
    BY <2>1, <2>2, CameraMoveGood
<1>9. CASE a.tool = "set_look"
  <2>1. Filming(s, a) = SetLook(s, a)
    BY <1>9 DEF Filming
  <2> QED
    BY <2>1, SetLookGood
<1>10. CASE a.tool = "create_terrain"
  <2>1. Filming(s, a) = CreateTerrain(s, a)
    BY <1>10 DEF Filming
  <2>2. Adds(a) = 1
    BY <1>10 DEF Adds, Makers
  <2> QED
    BY <2>1, <2>2, CreateTerrainGood
<1>11. CASE a.tool = "scatter"
  <2>1. Filming(s, a) = Scatter(s, a)
    BY <1>11 DEF Filming
  <2>2. Adds(a) = IF a.p = None THEN 1 ELSE 3
    BY <1>11 DEF Adds, Makers
  <2>3. (DOMAIN s.data) \X Fields \subseteq Spares(s, a).fields
    BY <1>11, SparesOf
  <2> QED
    BY <2>1, <2>2, <2>3, ScatterGood
<1>12. CASE a.tool = "unwrap_uv"
  <2>1. Filming(s, a) = UnwrapUv(s, a)
    BY <1>12 DEF Filming
  <2>2. (DOMAIN s.data) \X {"form"} \subseteq Spares(s, a).fields
    BY <1>12, SparesOf DEF Surfaces
  <2> QED
    BY <2>1, <2>2, UnwrapUvGood
<1>13. CASE a.tool = "bake_material"
  <2>1. Filming(s, a) = BakeMaterial(s, a)
    BY <1>13 DEF Filming
  <2> QED
    BY <2>1, BakeMaterialGood
<1>14. CASE a.tool = "check_model"
  <2>1. Filming(s, a) = CheckModel(s, a)
    BY <1>14 DEF Filming
  <2> QED
    BY <2>1, OutsideGood
<1>15. CASE a.tool = "check_shot"
  <2>1. Filming(s, a) = CheckShot(s, a)
    BY <1>15 DEF Filming
  <2> QED
    BY <2>1, CheckShotGood
<1>16. CASE a.tool = "camera_settings"
  <2>1. Filming(s, a) = CameraSettings(s, a)
    BY <1>16 DEF Filming
  <2> QED
    BY <2>1, CameraSettingsGood
<1>17. CASE a.tool = "render_contact_sheet"
  <2>1. Filming(s, a) = RenderContactSheet(s, a)
    BY <1>17 DEF Filming
  <2> QED
    BY <2>1, RendersGood
<1>18. CASE a.tool = "make_soundtrack"
  <2>1. Filming(s, a) = MakeSoundtrack(s, a)
    BY <1>18 DEF Filming
  <2> QED
    BY <2>1, OutsideGood
<1>19. CASE a.tool = "edit_video"
  <2>1. Filming(s, a) = EditVideo(s, a)
    BY <1>19 DEF Filming
  <2> QED
    BY <2>1, OutsideGood
<1>20. CASE a.tool = "render_image"
  <2>1. Filming(s, a) = RenderImage(s, a)
    BY <1>20 DEF Filming
  <2> QED
    BY <2>1, RendersGood
<1>21. CASE a.tool = "render_animation"
  <2>1. Filming(s, a) = RenderAnimation(s, a)
    BY <1>21 DEF Filming
  <2> QED
    BY <2>1, RendersGood
<1> QED
  BY <1>1, <1>2, <1>3, <1>4, <1>5, <1>6, <1>7, <1>8, <1>9, <1>10, <1>11, <1>12, <1>13, <1>14, <1>15, <1>16, <1>17, <1>18, <1>19, <1>20, <1>21 DEF Films

\* Whatever a call does, it leaves a scene of Blender's and takes away only what it may; unless it
\* makes a film it records its result at most once.
LEMMA EffectGood ==
  ASSUME NEW s, Sound(s), NEW a \in Calls, Room(s, Adds(a)), a.tool # "render_shots"
  PROVE  Good(s, Effect(s, a), Spares(s, a))
<1>0. Args(a) /\ a.tool \in Reads \cup Views \cup Sets \cup Moves \cup Builds \cup Films
  BY CallConsented DEF Consented
<1>1. CASE a.tool \in Reads
  <2>1. a.tool \notin Views \cup Sets \cup Moves \cup Builds
    BY <1>1 DEF Reads, Views, Sets, Moves, Builds, Films
  <2>2. Effect(s, a) = Reading(s, a)
    BY <1>1, <2>1 DEF Effect
  <2> QED
    BY <1>0, <1>1, <2>2, ReadingGood
<1>2. CASE a.tool \in Views
  <2>1. a.tool \notin Reads \cup Sets \cup Moves \cup Builds
    BY <1>2 DEF Reads, Views, Sets, Moves, Builds, Films
  <2>2. Effect(s, a) = Viewing(s, a)
    BY <1>2, <2>1 DEF Effect
  <2> QED
    BY <1>0, <1>2, <2>2, ViewingGood
<1>3. CASE a.tool \in Sets
  <2>1. a.tool \notin Reads \cup Views \cup Moves \cup Builds
    BY <1>3 DEF Reads, Views, Sets, Moves, Builds, Films
  <2>2. Effect(s, a) = Setting(s, a)
    BY <1>3, <2>1 DEF Effect
  <2> QED
    BY <1>0, <1>3, <2>2, SettingGood
<1>4. CASE a.tool \in Moves
  <2>1. a.tool \notin Reads \cup Views \cup Sets \cup Builds
    BY <1>4 DEF Reads, Views, Sets, Moves, Builds, Films
  <2>2. Effect(s, a) = Handling(s, a)
    BY <1>4, <2>1 DEF Effect
  <2> QED
    BY <1>0, <1>4, <2>2, HandlingGood
<1>5. CASE a.tool \in Builds
  <2>1. a.tool \notin Reads \cup Views \cup Sets \cup Moves
    BY <1>5 DEF Reads, Views, Sets, Moves, Builds, Films
  <2>2. Effect(s, a) = Modeling(Building(s, a))
    BY <1>5, <2>1 DEF Effect
  <2> QED
    BY <1>0, <1>5, <2>2, BuildingGood, ModelingGood
<1>6. CASE a.tool \in Films
  <2>1. a.tool \notin Reads \cup Views \cup Sets \cup Moves \cup Builds
    BY <1>6 DEF Reads, Views, Sets, Moves, Builds, Films
  <2>2. Effect(s, a) = Modeling(Filming(s, a))
    BY <1>6, <2>1 DEF Effect
  <2> QED
    BY <1>0, <1>6, <2>2, FilmingGood, ModelingGood
<1> QED
  BY <1>0, <1>1, <1>2, <1>3, <1>4, <1>5, <1>6

LEMMA EffectFilm ==
  ASSUME NEW s, Sound(s), NEW a \in Calls, Room(s, Adds(a))
  PROVE  Film(s, Effect(s, a), Spares(s, a))
<1>1. CASE a.tool = "render_shots"
  <2>1. Effect(s, a) = Modeling(RenderShots(s, a))
    BY <1>1 DEF Effect, Reads, Views, Sets, Moves, Builds, Filming
  <2>2. Lit(s, Spares(s, a)) /\ Filmed(s, Spares(s, a))
    BY <1>1, SparesOf
  <2> QED
    BY <2>1, <2>2, RenderShotsFilm, ModelingFilm
<1>2. CASE a.tool # "render_shots"
  BY <1>2, EffectGood, GoodIsFilm
<1> QED
  BY <1>1, <1>2

-----------------------------------------------------------------------------
(* The scene under the ledger *)

\* The steps that Blender keeps hold scenes of its own.
Stacked(q) == Len(q) >= 1 /\ \E S : q \in Seq(S) /\ \A x \in S : Sound(x.scene)

SoundInv == Sound(scene) /\ Stacked(past) /\ pushed \in Nat /\ stepsAt \in Nat

LEMMA StackProperties ==
  ASSUME Stacked(past)
  PROVE  Len(past) \in Nat \ {0} /\ \A i \in 1..Len(past) : Sound(past[i].scene)
<1>1. PICK S : past \in Seq(S) /\ \A x \in S : Sound(x.scene)
  BY DEF Stacked
<1>2. Len(past) \in Nat \ {0}
  BY <1>1, LenProperties DEF Stacked
<1>3. \A i \in 1..Len(past) : past[i] \in S
  BY <1>1, ElementOfSeq
<1> QED
  BY <1>1, <1>2, <1>3

\* The steps that a call records.
LEMMA FilmSteps ==
  ASSUME NEW s, NEW out, NEW but, Film(s, out, but)
  PROVE  LET r == [i \in DOMAIN out.steps |-> Step(out.steps[i], "tool")]
         IN  /\ Len(out.steps) \in Nat /\ Len(r) = Len(out.steps)
             /\ \A i \in 1..Len(out.steps) : r[i] = Step(out.steps[i], "tool") /\ Sound(r[i].scene)
             /\ out.steps # <<>> => Len(out.steps) >= 1
             /\ \E T : r \in Seq(T) /\ \A x \in T : Sound(x.scene)
<1> DEFINE q == out.steps
           r == [i \in DOMAIN q |-> Step(q[i], "tool")]
           T == {Step(q[i], "tool") : i \in 1..Len(q)}
<1>1. PICK S : q \in Seq(S)
  BY DEF Film
<1>2. Len(q) \in Nat /\ DOMAIN q = 1..Len(q) /\ (q # <<>> => Len(q) >= 1)
  BY <1>1, LenProperties, EmptySeq
<1>3. r \in [1..Len(q) -> T]
  BY <1>2
<1>4. r \in Seq(T)
  BY <1>2, <1>3, SeqDef
<1>5. Len(r) = Len(q)
  BY <1>2, <1>3, <1>4, LenProperties
<1>6. \A i \in 1..Len(q) : Sound(q[i]) /\ Step(q[i], "tool").scene = q[i]
  BY DEF Film, Step
<1>7. \A x \in T : Sound(x.scene)
  BY <1>6
<1>8. \A i \in 1..Len(q) : r[i] = Step(q[i], "tool") /\ Sound(r[i].scene)
  BY <1>2, <1>6
<1> QED
  BY <1>2, <1>4, <1>5, <1>7, <1>8

LEMMA UseDoes ==
  ASSUME SoundInv, NEW a \in Calls, Use(a)
  PROVE  LET out  == Effect(scene, a)
             idle == out.scene = scene /\ out.steps = <<>>
         IN  /\ Film(scene, out, Spares(scene, a))
             /\ a.tool # "render_shots" => Good(scene, out, Spares(scene, a))
             /\ Dispatch([scene |-> out.scene, steps |-> out.steps])
             /\ calls' = IF idle THEN calls ELSE calls + 1
             /\ last' = IF idle THEN last ELSE [sort |-> Sort(a.tool), risk |-> a.risk, failed |-> out.error # None]
             /\ failed' = (failed \/ (~idle /\ out.error # None))
<1>1. Sound(scene) /\ Room(scene, Adds(a))
  BY DEF SoundInv, Use, Room
<1> DEFINE out == Effect(scene, a)
<1>2. Film(scene, out, Spares(scene, a)) /\ (a.tool # "render_shots" => Good(scene, out, Spares(scene, a)))
  BY <1>1, EffectFilm, EffectGood
<1> QED
  BY <1>2 DEF Use

LEMMA DispatchSound ==
  ASSUME SoundInv, NEW out, NEW but, Film(scene, out, but), Dispatch([scene |-> out.scene, steps |-> out.steps])
  PROVE  SoundInv' /\ scene' = out.scene
<1> DEFINE r == [i \in DOMAIN out.steps |-> Step(out.steps[i], "tool")]
           o == [scene |-> out.scene, steps |-> out.steps]
<1>0. o.scene = out.scene /\ o.steps = out.steps
  OBVIOUS
<1>1. scene' = out.scene /\ Sound(scene')
  BY DEF Dispatch, Film, Keeps
<1>2. stepsAt' \in Nat
  BY DEF Dispatch, EnsureBaseline, ledger, SoundInv
<1>3. PICK S : past \in Seq(S) /\ \A x \in S : Sound(x.scene)
  BY DEF SoundInv, Stacked
<1>4. Len(out.steps) \in Nat /\ \E T : r \in Seq(T) /\ \A x \in T : Sound(x.scene)
  BY FilmSteps
<1>5. PICK T : r \in Seq(T) /\ \A x \in T : Sound(x.scene)
  BY <1>4
<1>6. Len(past) >= 1
  BY DEF SoundInv, Stacked
<1>7. IF window /\ out.steps # <<>> THEN past' = Recorded(r) /\ pushed' = pushed + Len(out.steps)
      ELSE past' = past /\ pushed' = pushed
  BY DEF Dispatch
<1> HIDE DEF r, o
<1>8. past \in Seq(S \cup T) /\ r \in Seq(S \cup T)
  BY <1>3, <1>5, Wider
<1>9. Recorded(r) \in Seq(S \cup T) /\ Len(Recorded(r)) >= 1
  <2>1. Recorded(r) \in Seq(S \cup T) /\ Len(Recorded(r)) \in 1..UndoLimit
    BY <1>6, <1>8, RecordedSteps
  <2> QED
    BY <2>1
<1>10. Stacked(past')
  BY <1>3, <1>5, <1>6, <1>7, <1>8, <1>9 DEF Stacked
<1>11. pushed' \in Nat
  BY <1>4, <1>7 DEF SoundInv
<1> QED
  BY <1>1, <1>2, <1>10, <1>11 DEF SoundInv

LEMMA StepsNatural == ASSUME SoundInv PROVE Steps \in Nat
BY DEF SoundInv, Steps

LEMMA RollbackSound ==
  ASSUME SoundInv, Rollback
  PROVE  SoundInv'
<1>1. CASE RollbackNothing
  BY <1>1 DEF RollbackNothing, SoundInv, blender
<1>2. ASSUME NEW m \in 0..Steps, NEW n \in 0..Steps, RollbackSteps(m, n) PROVE SoundInv'
  <2>1. Len(past) \in Nat \ {0} /\ (\A i \in 1..Len(past) : Sound(past[i].scene)) /\ Len(past) >= 1
    BY StackProperties DEF SoundInv
  <2>2. m \in 0..Len(past) - 1 /\ n \in Nat
    BY <1>2, <2>1, StepsNatural, MadeBounds DEF RollbackSteps
  <2>3. PICK S : past \in Seq(S) /\ \A x \in S : Sound(x.scene)
    BY DEF SoundInv, Stacked
  <2>4. past' = Undone(m) /\ scene' = IF m = 0 THEN scene ELSE past[Len(past) - m].scene
    BY <1>2 DEF RollbackSteps
  <2>5. Undone(m) \in Seq(S) /\ Len(Undone(m)) = Len(past) - m
    BY <2>1, <2>2, <2>3, UndoneSteps
  <2>6. Stacked(past')
    BY <2>1, <2>2, <2>3, <2>4, <2>5 DEF Stacked
  <2>7. Len(past) - m \in 1..Len(past)
    BY <2>1, <2>2
  <2>8. Sound(scene')
    BY <2>1, <2>4, <2>7 DEF SoundInv
  <2>9. pushed' \in Nat /\ stepsAt' = stepsAt
    BY <1>2, <2>2 DEF RollbackSteps, SoundInv
  <2> QED
    BY <2>6, <2>8, <2>9 DEF SoundInv
<1> QED
  BY <1>1, <1>2 DEF Rollback

TaskInv == SoundInv /\ calls \in Nat

LEMMA TaskInitSound ==
  ASSUME TaskInit
  PROVE  TaskInv
<1>1. scene \in Scenes /\ past = <<Step(scene, "file")>> /\ pushed = 0 /\ stepsAt = 0
  BY DEF TaskInit, Init
<1>2. Formed(scene) /\ Referred(scene) /\ Ranked(scene, 1..Cardinality(Objects(scene)))
  BY <1>1, ScenesAssumption DEF ScenesAssumption
<1>3. 1..Cardinality(Objects(scene)) \subseteq Nat
  OBVIOUS
<1>4. Ranked(scene, Nat)
  BY <1>2, <1>3 DEF Ranked
<1>5. Sound(scene)
  BY <1>2, <1>4 DEF Sound
<1>6. past \in Seq({Step(scene, "file")}) /\ Len(past) >= 1 /\ Step(scene, "file").scene = scene
  BY <1>1 DEF Step
<1>7. Stacked(past)
  BY <1>5, <1>6 DEF Stacked
<1> QED
  BY <1>1, <1>5, <1>7 DEF SoundInv, TaskInv, TaskInit

LEMMA TaskNextSound ==
  ASSUME TaskInv, [TaskNext]_taskVars
  PROVE  TaskInv'
<1>0. SoundInv /\ calls \in Nat
  BY DEF TaskInv
<1>1. ASSUME NEW a \in Calls, Use(a) PROVE TaskInv'
  <2>1. SoundInv'
    BY <1>0, <1>1, UseDoes, DispatchSound
  <2>2. calls' \in {calls, calls + 1}
    BY <1>1 DEF Use
  <2>3. calls' \in Nat
    BY <1>0, <2>2
  <2> QED
    BY <2>1, <2>3 DEF TaskInv
<1>2. CASE Rollback /\ calls' = MaxCalls
  BY <1>0, <1>2, RollbackSound, CallsAssumption DEF TaskInv, CallsAssumption
<1>3. CASE UNCHANGED taskVars
  BY <1>0, <1>3 DEF TaskInv, SoundInv, taskVars, vars, blender, ledger
<1> QED
  BY <1>1, <1>2, <1>3 DEF TaskNext

LEMMA TaskAlways == TaskSpec => []TaskInv
<1>1. TaskInit => TaskInv
  BY TaskInitSound
<1>2. TaskInv /\ [TaskNext]_taskVars => TaskInv'
  BY TaskNextSound
<1> QED
  BY <1>1, <1>2, PTL DEF TaskSpec

LEMMA SoundScene ==
  ASSUME Sound(scene)
  PROVE  SceneSound
<1>1. ASSUME NEW o \in Objects(scene)
      PROVE  /\ Parent(scene, o) \in Objects(scene) \cup {None}
             /\ Parent(scene, o) # None => o \notin Above(scene, Parent(scene, o))
             /\ Kind(scene, o) # "EMPTY" => scene.obj[o].data \in DOMAIN scene.data
             /\ Data(scene, o).mat \in DOMAIN scene.mats \cup {None}
  <2>1. Kind(scene, o) = scene.obj[o].kind /\ Kind(scene, o) # None /\ Parent(scene, o) = scene.obj[o].parent
    BY KindOfObject
  <2>2. Parent(scene, o) \in Objects(scene) \cup {None}
    BY <2>1 DEF Sound, Referred
  <2>3. Parent(scene, o) # None => o \notin Above(scene, Parent(scene, o))
    BY NoLoop
  <2>4. Kind(scene, o) # "EMPTY" => scene.obj[o].data \in DOMAIN scene.data
    BY <2>1 DEF Sound, Referred
  <2>5. Data(scene, o).mat \in DOMAIN scene.mats \cup {None}
    <3>1. CASE Kind(scene, o) = "EMPTY"
      BY <3>1 DEF Data, Blank
    <3>2. CASE Kind(scene, o) # "EMPTY"
      <4>1. Data(scene, o) = scene.data[scene.obj[o].data]
        BY <2>1, <3>2 DEF Data
      <4> QED
        BY <2>4, <3>2, <4>1 DEF Sound, Referred
    <3> QED
      BY <3>1, <3>2
  <2> QED
    BY <2>2, <2>3, <2>4, <2>5
<1>2. Kind(scene, scene.camera) \in {"CAMERA", None} /\ (scene.camera # None => scene.camera \in Objects(scene))
  BY DEF Sound, Referred, Formed, Kind
<1> QED
  BY <1>1, <1>2 DEF SceneSound

\* Whatever the tools are called with, each name that the scene holds stands for something that is
\* there, and nothing comes to hang under itself (ModelingMutator.parent_object and place_on_socket
\* walk up to the root, _join and _delete let go of what they remove).
THEOREM SceneStaysSound == TaskSpec => []SceneSound
<1>1. TaskInv => SceneSound
  BY SoundScene DEF SoundInv, TaskInv
<1> QED
  BY <1>1, TaskAlways, PTL

-----------------------------------------------------------------------------
(* What a call may take away *)

LEMMA LossConsented ==
  ASSUME TaskInv, [TaskNext]_taskVars, Called, last'.risk # "MEDIUM"
  PROVE  Lost(scene, scene') \subseteq Taken(last'.sort, scene)
<1>0. calls' = calls + 1 /\ last' # NoCall /\ calls \in Nat /\ SoundInv
  BY DEF Called, TaskInv
<1>1. PICK a \in Calls : Use(a)
  BY <1>0 DEF TaskNext, taskVars
<1> DEFINE out == Effect(scene, a)
           idle == out.scene = scene /\ out.steps = <<>>
<1>2. /\ Film(scene, out, Spares(scene, a)) /\ Dispatch([scene |-> out.scene, steps |-> out.steps])
      /\ last' = IF idle THEN last ELSE [sort |-> Sort(a.tool), risk |-> a.risk, failed |-> out.error # None]
      /\ calls' = IF idle THEN calls ELSE calls + 1
  BY <1>0, <1>1, UseDoes
<1>3. scene' = out.scene
  BY <1>0, <1>2, DispatchSound
<1> HIDE DEF out
<1>4. ~idle
  BY <1>0, <1>2
<1>5. last'.risk = a.risk /\ last'.sort = Sort(a.tool)
  BY <1>2, <1>4
<1>6. a.tool # "delete_object"
  BY <1>5, CallConsented DEF Consented
<1>7. \A o \in Objects(scene) \ Spares(scene, a).objects : Kind(scene', o) = Kind(scene, o)
  BY <1>2, <1>3 DEF Film, Keeps
<1>8. Spares(scene, a).objects = Taken(last'.sort, scene)
  <2>1. CASE a.tool = "join_objects"
    BY <1>5, <2>1 DEF Spares, Sort, Unsharing, Surfaces, Paints, Taken
  <2>2. CASE a.tool # "join_objects"
    BY <1>5, <1>6, <2>2 DEF Spares
  <2> QED
    BY <2>1, <2>2
<1> QED
  BY <1>7, <1>8 DEF Lost

\* A call that runs without the user's approval loses no object but a mesh merged into another or
\* one with the very name that the tool takes for its own: camera_move a ShotCamera that is no
\* camera, set_environment an AI_Sun that is no light, its lamps and its ground (_remove and
\* _ensure_object in cinema_mutator.py), and a film what these two may.
THEOREM LossAsksFirst == TaskSpec => LossNeedsConsent
<1>1. TaskInv /\ [TaskNext]_taskVars =>
        [Called /\ last'.risk # "MEDIUM" => Lost(scene, scene') \subseteq Taken(last'.sort, scene)]_taskVars
  BY LossConsented
<1> QED
  BY <1>1, TaskAlways, PTL DEF TaskSpec, LossNeedsConsent

-----------------------------------------------------------------------------
(* The steps of a task *)

\* While Blender has not dropped a step, it keeps the file it opened and every step that was
\* counted; as long as no call failed, the last one shows the scene and the one below the steps of
\* the task shows the scene that the task began with.
Accounts ==
  /\ Len(past) = pushed + 1
  /\ open => stepsAt <= pushed
  /\ window /\ ~failed =>
       Same(Present, scene) /\ (open => Same(past[Len(past) - Steps].scene, baseline))

LEMMA StepsCounted ==
  ASSUME SoundInv
  PROVE  stepsAt <= pushed => Steps = pushed - stepsAt
BY DEF SoundInv, Steps

LEMMA DispatchRecords ==
  ASSUME MaxPushed < UndoLimit, SoundInv, Len(past) = pushed + 1,
         NEW out, NEW but, Film(scene, out, but), Dispatch([scene |-> out.scene, steps |-> out.steps])
  PROVE  IF window /\ out.steps # <<>>
         THEN /\ pushed' = pushed + Len(out.steps) /\ Len(past') = Len(past) + Len(out.steps)
              /\ Len(out.steps) \in Nat \ {0}
              /\ past' = past \o [i \in DOMAIN out.steps |-> Step(out.steps[i], "tool")]
              /\ \A i \in 1..Len(past) : past'[i] = past[i]
              /\ past'[Len(past) + Len(out.steps)].scene = out.steps[Len(out.steps)]
         ELSE UNCHANGED <<past, pushed>>
<1> DEFINE r == [i \in DOMAIN out.steps |-> Step(out.steps[i], "tool")]
           k == Len(out.steps)
<1>1. CASE ~(window /\ out.steps # <<>>)
  BY <1>1 DEF Dispatch
<1>2. CASE window /\ out.steps # <<>>
  <2>1. past' = Recorded(r) /\ pushed' = pushed + k /\ pushed + k <= MaxPushed
    BY <1>2 DEF Dispatch
  <2>2. /\ k \in Nat \ {0} /\ Len(r) = k
        /\ \A i \in 1..k : r[i] = Step(out.steps[i], "tool")
    BY <1>2, FilmSteps
  <2>3. PICK T : r \in Seq(T) /\ \A x \in T : Sound(x.scene)
    BY FilmSteps
  <2>4. PICK S : past \in Seq(S) /\ \A x \in S : Sound(x.scene)
    BY DEF SoundInv, Stacked
  <2>5. Len(past) >= 1 /\ pushed \in Nat /\ Len(past) \in Nat \ {0} /\ UndoLimit \in Nat \ {0} /\ MaxPushed \in Nat
    BY StackProperties, LedgerAssumption DEF SoundInv, Stacked, LedgerAssumption
  <2> HIDE DEF r, k
  <2>6. past \in Seq(S \cup T) /\ r \in Seq(S \cup T)
    BY <2>3, <2>4, Wider
  <2>7. Len(past) + Len(r) <= UndoLimit
    BY <2>1, <2>2, <2>5
  <2>8. /\ Len(past') = Len(past) + k
        /\ \A i \in 1..Len(past) : past'[i] = past[i]
        /\ \A i \in 1..k : past'[Len(past) + i] = r[i]
    BY <2>1, <2>2, <2>5, <2>6, <2>7, RecordedSteps
  <2>9. past' = past \o r
    <3>1. Len(past \o r) = Len(past) + Len(r)
      BY <2>6, ConcatProperties
    <3>2. ~(Len(past \o r) > UndoLimit)
      BY <2>2, <2>5, <2>7, <3>1
    <3> QED
      BY <2>1, <3>2 DEF Recorded
  <2>10. past'[Len(past) + k].scene = out.steps[k]
    <3>1. k \in 1..k
      BY <2>2
    <3> QED
      BY <2>2, <2>8, <3>1 DEF Step
  <2> QED
    BY <1>2, <2>1, <2>2, <2>8, <2>9, <2>10 DEF r, k
<1> QED
  BY <1>1, <1>2

\* When a call begins, also the first one of a task, the steps of the task lie on its baseline.
LEMMA TaskStarts ==
  ASSUME SoundInv, Accounts, EnsureBaseline
  PROVE  /\ open' /\ stepsAt' \in Nat /\ stepsAt' <= pushed
         /\ window /\ ~failed => Same(past[Len(past) - (pushed - stepsAt')].scene, baseline')
<1>0. pushed \in Nat /\ stepsAt \in Nat /\ Len(past) \in Nat
  BY StackProperties DEF SoundInv
<1>1. CASE open
  BY <1>0, <1>1, StepsCounted DEF EnsureBaseline, ledger, Accounts
<1>2. CASE ~open
  <2>1. open' /\ stepsAt' = pushed /\ baseline' = scene
    BY <1>2 DEF EnsureBaseline
  <2>2. Len(past) - (pushed - pushed) = Len(past)
    BY <1>0
  <2> QED
    BY <1>0, <2>1, <2>2 DEF Accounts, Present
<1> QED
  BY <1>1, <1>2

LEMMA DispatchAccounts ==
  ASSUME MaxPushed < UndoLimit, SoundInv, Accounts,
         NEW out, NEW but, Film(scene, out, but), Dispatch([scene |-> out.scene, steps |-> out.steps]),
         failed' = (failed \/ (~(out.scene = scene /\ out.steps = <<>>) /\ out.error # None))
  PROVE  Accounts'
<1> DEFINE k    == Len(out.steps)
           idle == out.scene = scene /\ out.steps = <<>>
           base == pushed - stepsAt'
<1>1. SoundInv' /\ scene' = out.scene /\ window' = window /\ EnsureBaseline
  BY DispatchSound DEF Dispatch
<1>2. /\ open' /\ stepsAt' \in Nat /\ stepsAt' <= pushed
      /\ window /\ ~failed => Same(past[Len(past) - base].scene, baseline')
  BY <1>1, TaskStarts
<1>3. /\ Len(past) = pushed + 1 /\ pushed \in Nat
      /\ window /\ ~failed => Same(Present, scene)
  BY DEF Accounts, SoundInv
<1>4. stepsAt' <= pushed' => Steps' = pushed' - stepsAt'
  <2>1. pushed' \in Nat /\ stepsAt' \in Nat
    BY <1>1 DEF SoundInv
  <2>2. \A p, q \in Nat : q <= p => (IF p > q THEN p - q ELSE 0) = p - q
    OBVIOUS
  <2>3. Steps' = IF pushed' > stepsAt' THEN pushed' - stepsAt' ELSE 0
    BY DEF Steps
  <2> QED
    BY <2>1, <2>2, <2>3
<1>5. ~failed' => ~failed /\ (idle \/ out.error = None)
  OBVIOUS
<1>6. CASE window /\ out.steps # <<>>
  <2>1. /\ pushed' = pushed + k /\ Len(past') = Len(past) + k /\ k \in Nat \ {0}
        /\ \A i \in 1..Len(past) : past'[i] = past[i]
        /\ past'[Len(past) + k].scene = out.steps[k]
    BY <1>3, <1>6, DispatchRecords
  <2>2. ~idle
    BY <1>6
  <2>3. out.error = None => Same(out.steps[k], out.scene)
    BY <1>6 DEF Film
  <2> HIDE DEF k, idle
  <2>4. Len(past') = pushed' + 1 /\ stepsAt' <= pushed'
    BY <1>2, <1>3, <2>1
  <2>5. Steps' = base + k /\ Len(past') - Steps' = Len(past) - base /\ Len(past) - base \in 1..Len(past)
    <3>1. stepsAt' \in Nat /\ stepsAt' <= pushed /\ pushed \in Nat /\ k \in Nat /\ Len(past) = pushed + 1
      BY <1>2, <1>3, <2>1
    <3>2. Steps' = (pushed + k) - stepsAt' /\ Len(past') = Len(past) + k
      BY <1>4, <2>1, <2>4
    <3> DEFINE p == pushed
               q == stepsAt'
               l == Len(past)
    <3>3. p \in Nat /\ q \in Nat /\ q <= p /\ l = p + 1 /\ k \in Nat
      BY <3>1
    <3> HIDE DEF p, q, l
    <3>4. /\ (p + k) - q = (p - q) + k
          /\ (l + k) - ((p + k) - q) = l - (p - q)
          /\ l - (p - q) \in 1..l
      BY <3>3
    <3> USE DEF p, q, l
    <3> QED
      BY <3>2, <3>4
  <2>6. Present' = out.steps[k]
    BY <2>1 DEF Present
  <2>7. past'[Len(past') - Steps'].scene = past[Len(past) - base].scene
    BY <2>1, <2>5
  <2> HIDE DEF base
  <2> QED
    BY <1>1, <1>2, <1>5, <2>2, <2>3, <2>4, <2>6, <2>7 DEF Accounts
<1>7. CASE ~(window /\ out.steps # <<>>)
  <2>1. past' = past /\ pushed' = pushed
    BY <1>3, <1>7, DispatchRecords
  <2>2. Steps' = base /\ Present' = Present
    BY <1>2, <1>4, <2>1 DEF Present
  <2>3. window /\ ~failed' => Same(scene, out.scene)
    BY <1>5, <1>7, SameScene DEF Film
  <2>4. window /\ ~failed' => Same(Present, out.scene)
    BY <1>3, <1>5, <2>3, SameScene
  <2> HIDE DEF base
  <2> QED
    BY <1>1, <1>2, <1>3, <1>5, <2>1, <2>2, <2>4 DEF Accounts
<1> QED
  BY <1>6, <1>7

\* A rollback undoes what it counts.
LEMMA RollbackDoes ==
  ASSUME SoundInv, Accounts, Rollback
  PROVE  \/ RollbackNothing
         \/ \E m \in 0..Steps :
              /\ open /\ m <= pushed /\ told'.done = m /\ pushed' = pushed - m /\ window' = window
              /\ Len(past') = Len(past) - m
              /\ past'[Len(past) - m] = past[Len(past) - m]
              /\ scene' = (IF m = 0 THEN scene ELSE past[Len(past) - m].scene)
              /\ ~open'
<1> SUFFICES ASSUME NEW m \in 0..Steps, NEW n \in 0..Steps, RollbackSteps(m, n)
             PROVE  /\ open /\ m <= pushed /\ told'.done = m /\ pushed' = pushed - m /\ window' = window
                    /\ Len(past') = Len(past) - m
                    /\ past'[Len(past) - m] = past[Len(past) - m]
                    /\ scene' = (IF m = 0 THEN scene ELSE past[Len(past) - m].scene)
                    /\ ~open'
  BY DEF Rollback
<1>1. open /\ <<m, n>> \in Undoes(Steps)
  BY DEF RollbackSteps
<1>2. Steps \in Nat /\ Len(past) \in Nat \ {0} /\ Len(past) >= 1 /\ pushed \in Nat /\ stepsAt \in Nat
  BY StepsNatural, StackProperties DEF SoundInv, Stacked
<1>3. Steps = pushed - stepsAt /\ Len(past) = pushed + 1 /\ stepsAt <= pushed
  BY <1>1, StepsCounted DEF Accounts
<1>4. Steps <= pushed /\ Steps < Len(past)
  <2> HIDE DEF Steps
  <2> QED
    BY <1>2, <1>3
<1>5. m \in 0..Len(past) - 1 /\ n = m
  BY <1>1, <1>2, <1>4, MadeBounds
<1>6. m <= pushed
  BY <1>2, <1>3, <1>5
<1>7. pushed' = pushed - m
  <2>1. pushed' = IF m < pushed THEN pushed - m ELSE 0
    BY <1>5 DEF RollbackSteps
  <2> QED
    BY <1>2, <1>5, <1>6, <2>1
<1>8. PICK S : past \in Seq(S) /\ \A x \in S : Sound(x.scene)
  BY DEF SoundInv, Stacked
<1>9. Len(Undone(m)) = Len(past) - m /\ \A i \in 1..Len(past) - m : Undone(m)[i] = past[i]
  BY <1>2, <1>5, <1>8, UndoneSteps
<1>10. Len(past) - m \in 1..Len(past) - m
  BY <1>2, <1>5
<1> QED
  BY <1>1, <1>5, <1>6, <1>7, <1>9, <1>10 DEF RollbackSteps

LEMMA RollbackAccounts ==
  ASSUME SoundInv, Accounts, Rollback, UNCHANGED failed
  PROVE  Accounts'
<1>0. Len(past) = pushed + 1 /\ pushed \in Nat /\ (window /\ ~failed => Same(Present, scene))
  BY DEF SoundInv, Accounts
<1>1. CASE RollbackNothing
  BY <1>0, <1>1 DEF RollbackNothing, Accounts, Present, blender
<1>2. ASSUME NEW m \in 0..Steps,
             /\ open /\ m <= pushed /\ told'.done = m /\ pushed' = pushed - m /\ window' = window
             /\ Len(past') = Len(past) - m
             /\ past'[Len(past) - m] = past[Len(past) - m]
             /\ scene' = (IF m = 0 THEN scene ELSE past[Len(past) - m].scene)
             /\ ~open'
      PROVE  Accounts'
  <2>0. m \in Nat
    BY StepsNatural
  <2>1. Len(past') = pushed' + 1
    BY <1>0, <1>2, <2>0
  <2>2. Present' = past[Len(past) - m].scene
    BY <1>2 DEF Present
  <2>3. m = 0 => past[Len(past) - m].scene = Present
    BY <1>0 DEF Present
  <2>4. window /\ ~failed => Same(Present', scene')
    BY <1>0, <1>2, <2>2, <2>3, SameScene
  <2> QED
    BY <1>2, <2>1, <2>4 DEF Accounts
<1> QED
  BY <1>1, <1>2, RollbackDoes

LEMMA AccountsKept ==
  ASSUME MaxPushed < UndoLimit
  PROVE  TaskInv /\ Accounts /\ [TaskNext]_taskVars => Accounts'
<1> SUFFICES ASSUME TaskInv, Accounts, [TaskNext]_taskVars PROVE Accounts'
  OBVIOUS
<1>0. SoundInv
  BY DEF TaskInv
<1>1. ASSUME NEW a \in Calls, Use(a) PROVE Accounts'
  BY <1>0, <1>1, UseDoes, DispatchAccounts
<1>2. CASE Rollback /\ UNCHANGED failed
  BY <1>0, <1>2, RollbackAccounts
<1>3. CASE UNCHANGED taskVars
  BY <1>3 DEF Accounts, Present, Steps, taskVars, vars, blender, ledger
<1> QED
  BY <1>1, <1>2, <1>3 DEF TaskNext

LEMMA AccountsInit == ASSUME TaskInit PROVE Accounts
BY SameScene DEF TaskInit, Init, Accounts, Present, Step

LEMMA AccountsAlways ==
  ASSUME MaxPushed < UndoLimit
  PROVE  TaskSpec => [](TaskInv /\ Accounts)
<1>1. TaskInit => TaskInv /\ Accounts
  BY TaskInitSound, AccountsInit
<1>2. TaskInv /\ Accounts /\ [TaskNext]_taskVars => (TaskInv /\ Accounts)'
  BY TaskNextSound, AccountsKept
<1> QED
  BY <1>1, <1>2, PTL DEF TaskSpec

LEMMA RollbackReturns ==
  ASSUME TaskInv, Accounts, Rollback, window, open, ~failed, told'.done = Steps
  PROVE  Same(scene', baseline)
<1>0. SoundInv /\ Same(Present, scene) /\ Same(past[Len(past) - Steps].scene, baseline) /\ Len(past) \in Nat
  BY StackProperties DEF TaskInv, Accounts, SoundInv
<1>1. Steps = 0 => past[Len(past) - Steps].scene = Present
  BY <1>0 DEF Present
<1> HIDE DEF Steps
<1>2. CASE RollbackNothing
  BY <1>0, <1>1, <1>2, SameScene DEF RollbackNothing, Quiet0, blender
<1>3. CASE ~RollbackNothing
  <2>1. PICK m \in 0..Steps : /\ told'.done = m
                             /\ scene' = (IF m = 0 THEN scene ELSE past[Len(past) - m].scene)
    BY <1>0, <1>3, RollbackDoes
  <2>2. m = Steps
    BY <2>1
  <2>3. CASE m = 0
    BY <1>0, <1>1, <2>1, <2>2, <2>3, SameScene
  <2>4. CASE m # 0
    BY <1>0, <2>1, <2>2, <2>4
  <2> QED
    BY <2>3, <2>4
<1> QED
  BY <1>2, <1>3

\* As long as Blender drops no step, a rollback takes a task whose calls all went well back to the
\* scene it began with, also in what no snapshot shows (TaskLedger.rollback).
THEOREM TaskUndone ==
  ASSUME MaxPushed < UndoLimit
  PROVE  TaskSpec => TaskRollsBack
<1>1. TaskInv /\ Accounts /\ [TaskNext]_taskVars =>
        [Rollback /\ window /\ open /\ ~failed /\ told'.done = Steps => Same(scene', baseline)]_taskVars
  BY RollbackReturns
<1> QED
  BY <1>1, AccountsAlways, PTL DEF TaskSpec, TaskRollsBack

LEMMA CallRecords ==
  ASSUME MaxPushed < UndoLimit, TaskInv, Accounts, [TaskNext]_taskVars, Called, window, last'.sort # "film"
  PROVE  \/ past' = past /\ (~last'.failed => Same(scene, scene'))
         \/ past' = Append(past, Step(scene', "tool")) /\ ~last'.failed
<1>0. calls' = calls + 1 /\ last' # NoCall /\ calls \in Nat /\ SoundInv /\ Len(past) = pushed + 1
  BY DEF Called, TaskInv, Accounts
<1>1. PICK a \in Calls : Use(a)
  BY <1>0 DEF TaskNext, taskVars
<1> DEFINE out == Effect(scene, a)
           idle == out.scene = scene /\ out.steps = <<>>
<1>2. /\ Film(scene, out, Spares(scene, a)) /\ Dispatch([scene |-> out.scene, steps |-> out.steps])
      /\ last' = IF idle THEN last ELSE [sort |-> Sort(a.tool), risk |-> a.risk, failed |-> out.error # None]
      /\ calls' = IF idle THEN calls ELSE calls + 1
      /\ a.tool # "render_shots" => Good(scene, out, Spares(scene, a))
  BY <1>0, <1>1, UseDoes
<1> HIDE DEF out
<1>3. scene' = out.scene
  BY <1>0, <1>2, DispatchSound
<1>4. ~idle
  BY <1>0, <1>2
<1>5. last'.sort = Sort(a.tool) /\ last'.failed = (out.error # None)
  BY <1>2, <1>4
<1>6. a.tool # "render_shots"
  BY <1>5 DEF Sort, Unsharing
<1>7. CASE out.steps = <<>>
  <2>1. past' = past
    BY <1>0, <1>2, <1>7, DispatchRecords
  <2>2. ~last'.failed => Same(scene, scene')
    <3>1. <<out.scene>> # <<>>
      OBVIOUS
    <3>2. out.error = None => Same(scene, out.scene)
      BY <1>2, <1>6, <1>7, <3>1 DEF Good
    <3> QED
      BY <1>3, <1>5, <3>2
  <2> QED
    BY <2>1, <2>2
<1>8. CASE out.steps = <<out.scene>>
  <2> DEFINE r == [i \in DOMAIN out.steps |-> Step(out.steps[i], "tool")]
             x == Step(scene', "tool")
  <2>1. out.steps # <<>> /\ Len(out.steps) = 1 /\ DOMAIN out.steps = 1..1 /\ out.steps[1] = scene'
    BY <1>3, <1>8
  <2>2. past' = past \o r
    BY <1>0, <1>2, <2>1, DispatchRecords
  <2>3. r = <<x>>
    BY <2>1
  <2> HIDE DEF r, x
  <2>4. PICK S : past \in Seq(S)
    BY <1>0 DEF SoundInv, Stacked
  <2>5. past \in Seq(S \cup {x})
    BY <2>4, Wider
  <2>6. Append(past, x) = past \o <<x>>
    BY <2>5, AppendIsConcat
  <2>7. ~last'.failed
    BY <1>2, <1>5, <1>6, <2>1 DEF Good
  <2> QED
    BY <2>2, <2>3, <2>6, <2>7 DEF x
<1> QED
  BY <1>2, <1>6, <1>7, <1>8 DEF Good

\* As long as Blender drops no step, a call that succeeds records its own result once, or nothing
\* if only the samples of a render changed; a call that fails records nothing (undo_manager.push
\* is the last thing a mutator does).
THEOREM OneStepRecorded ==
  ASSUME MaxPushed < UndoLimit
  PROVE  TaskSpec => OneStepEach
<1>1. TaskInv /\ Accounts /\ [TaskNext]_taskVars =>
        [Called /\ window /\ last'.sort # "film" =>
           \/ past' = past /\ (~last'.failed => Same(scene, scene'))
           \/ past' = Append(past, Step(scene', "tool")) /\ ~last'.failed]_taskVars
  BY CallRecords
<1> QED
  BY <1>1, AccountsAlways, PTL DEF TaskSpec, OneStepEach


-----------------------------------------------------------------------------
(* What the others who use a mesh see of a call *)

LEMMA ManyUsers ==
  ASSUME NEW s, Sound(s), NEW d, Cardinality(Users(s, d)) > 1
  PROVE  Several(s, d)
<1>1. IsFiniteSet(Users(s, d)) /\ Users(s, d) \subseteq Objects(s)
  BY FS_Subset DEF Users, Meshes, Sound, Formed
<1>2. Cardinality(Users(s, d)) # 0 /\ Cardinality(Users(s, d)) # 1
  BY <1>1, FS_CardinalityType
<1>3. PICK x \in Users(s, d) : TRUE
  BY <1>1, <1>2, FS_EmptySet
<1>4. Users(s, d) # {x}
  BY <1>1, <1>2, FS_Singleton
<1>5. PICK y \in Users(s, d) : y # x
  BY <1>3, <1>4
<1> QED
  BY <1>3, <1>5 DEF Users, Several

\* The copies of a scattered object use its mesh, and nothing of it changes.
LEMMA ScatterLeaves ==
  ASSUME NEW s, Sound(s), NEW a, a.tool = "scatter", Room(s, Adds(a))
  PROVE  Effect(s, a).scene.data = s.data
<1> DEFINE out == Scatter(s, a)
<1>1. Effect(s, a) = Modeling(out)
  BY DEF Effect, Reads, Views, Sets, Moves, Builds, Filming
<1>2. Good(s, out, Spares(s, a)) /\ out.scene.data = s.data
  <2>1. Adds(a) = IF a.p = None THEN 1 ELSE 3
    BY DEF Adds, Makers
  <2>2. (DOMAIN s.data) \X Fields \subseteq Spares(s, a).fields
    BY SparesOf
  <2> QED
    BY <2>1, <2>2, ScatterGood
<1> HIDE DEF out
<1>3. Modeling(out).scene = out.scene
  BY <1>2, ToldSame, CodeTables DEF Modeling, None, Good
<1> QED
  BY <1>1, <1>2, <1>3

LEMMA CallShares ==
  ASSUME TaskInv, [TaskNext]_taskVars, Called
  PROVE  \A o \in Meshes(scene) :
           LET d == scene.obj[o].data
           IN  Cardinality(Users(scene, d)) > 1 /\ Cardinality(Users(scene', d)) > 1 =>
                 \A f \in Fields : <<d, f>> \notin Reached(last'.sort, scene) => scene'.data[d][f] = scene.data[d][f]
<1>0. calls' = calls + 1 /\ last' # NoCall /\ calls \in Nat /\ SoundInv
  BY DEF Called, TaskInv
<1>1. PICK a \in Calls : Use(a)
  BY <1>0 DEF TaskNext, taskVars
<1> DEFINE out == Effect(scene, a)
           idle == out.scene = scene /\ out.steps = <<>>
<1>2. /\ Film(scene, out, Spares(scene, a)) /\ Dispatch([scene |-> out.scene, steps |-> out.steps])
      /\ last' = IF idle THEN last ELSE [sort |-> Sort(a.tool), risk |-> a.risk, failed |-> out.error # None]
      /\ calls' = IF idle THEN calls ELSE calls + 1
  BY <1>0, <1>1, UseDoes
<1>3. Sound(scene) /\ Room(scene, Adds(a))
  BY <1>0, <1>1 DEF SoundInv, Use, Room
<1>4. a.tool = "scatter" => out.scene.data = scene.data
  BY <1>3, ScatterLeaves
<1> HIDE DEF out
<1>5. scene' = out.scene /\ Sound(out.scene)
  BY <1>0, <1>2, DispatchSound DEF Film, Keeps
<1>6. ~idle
  BY <1>0, <1>2
<1>7. last'.sort = Sort(a.tool)
  BY <1>2, <1>6
<1>8. Leaves(scene, scene', Spares(scene, a).fields) /\ Sound(scene')
  BY <1>2, <1>5 DEF Film, Keeps
<1>9. a.tool # "scatter" => Spares(scene, a).fields = Reached(last'.sort, scene)
  BY <1>7 DEF Spares
<1>10. ASSUME NEW o \in Meshes(scene), Cardinality(Users(scene', scene.obj[o].data)) > 1,
              NEW f \in Fields, <<scene.obj[o].data, f>> \notin Reached(last'.sort, scene)
       PROVE  scene'.data[scene.obj[o].data][f] = scene.data[scene.obj[o].data][f]
  <2> DEFINE t == scene'
             d == scene.obj[o].data
  <2>1. CASE a.tool = "scatter"
    BY <1>4, <1>5, <2>1
  <2>2. CASE a.tool # "scatter"
    <3>1. Sound(t) /\ Cardinality(Users(t, d)) > 1
      BY <1>8, <1>10
    <3>2. Leaves(scene, t, Reached(last'.sort, scene))
      BY <1>8, <1>9, <2>2
    <3> HIDE DEF t
    <3>3. Several(t, d)
      BY <3>1, ManyUsers
    <3>4. t.data[d][f] = scene.data[d][f]
      BY <1>10, <3>2, <3>3 DEF Leaves
    <3> QED
      BY <3>4 DEF t
  <2> QED
    BY <2>1, <2>2
<1> QED
  BY <1>10

\* Whatever tool is called, a mesh that several objects use before and after the call keeps every
\* field but those that the tool sets for all of its users: the modelling tools make theirs
\* single-user first (ModelingMutator._unique_mesh), set_shading and unwrap_uv change the surface,
\* the material tools the slot, and the environment the mesh of the ground.
THEOREM SharedStaysAlone == TaskSpec => SharedDataKept
<1>1. TaskInv /\ [TaskNext]_taskVars =>
        [Called => \A o \in Meshes(scene) :
           LET d == scene.obj[o].data
           IN  Cardinality(Users(scene, d)) > 1 /\ Cardinality(Users(scene', d)) > 1 =>
                 \A f \in Fields : <<d, f>> \notin Reached(last'.sort, scene) => scene'.data[d][f] = scene.data[d][f]]_taskVars
  BY CallShares
<1> QED
  BY <1>1, TaskAlways, PTL DEF TaskSpec, SharedDataKept
=============================================================================
