------------------------ MODULE ProviderStreamProofs ------------------------
(***************************************************************************)
(* A request has at most one outcome, and a reply is posted as it was sent *)
(* however it is cut into reads: for any replies, reads, providers and     *)
(* bounds.                                                                 *)
(***************************************************************************)
EXTENDS SoundReplies, SequenceTheorems, WellFoundedInduction, TLAPS

Terminal(e) == e.kind \in {"ready", "error"}
Free        == worker.at \in {"idle", "ended"}
ASequence(s) == \E S : s \in Seq(S)
ARecord(w)  == w = [at |-> w.at, request |-> w.request, by |-> w.by, text |-> w.text, wrote |-> w.wrote]

\* Requests are numbered as they come, and each is in one place: queued, with the worker, or over.
Shape ==
  /\ requests \in Nat /\ tasks \in Seq(Nat) /\ ASequence(events)
  /\ ARecord(worker) /\ worker.request \in 0..requests
  /\ \A i \in DOMAIN tasks : tasks[i] <= requests
  /\ \A i \in DOMAIN events : events[i].request \in 0..requests

OnePlace ==
  /\ \A i, j \in DOMAIN tasks : i # j => tasks[i] # tasks[j]
  /\ ~Free => \A i \in DOMAIN tasks : tasks[i] # worker.request
  /\ \A k \in DOMAIN events : Terminal(events[k]) =>
       /\ \A i \in DOMAIN tasks : tasks[i] # events[k].request
       /\ Free \/ worker.request # events[k].request

IInv == Shape /\ OnePlace /\ OneOutcome

\* Appending to a sequence of whatever there is.
LEMMA Appended ==
  ASSUME NEW s, ASequence(s), NEW e
  PROVE  /\ ASequence(Append(s, e)) /\ DOMAIN s = 1..Len(s) /\ Len(s) \in Nat
         /\ DOMAIN Append(s, e) = 1..Len(s) + 1
         /\ \A i \in 1..Len(s) : Append(s, e)[i] = s[i]
         /\ Append(s, e)[Len(s) + 1] = e
<1>1. PICK S : s \in Seq(S)
  BY DEF ASequence
<1>2. s \in Seq(S \cup {e}) /\ Append(s, e) \in Seq(S \cup {e})
  BY <1>1
<1> QED
  BY <1>2 DEF ASequence

LEMMA Starts == Init => IInv
<1> SUFFICES ASSUME Init PROVE IInv
  OBVIOUS
<1>1. events = <<>> /\ tasks = <<>> /\ requests = 0 /\ worker = Idle
  BY DEF Init
<1>2. ASequence(events)
  <2>1. events \in Seq({})
    BY <1>1
  <2> QED
    BY <2>1 DEF ASequence
<1> QED
  BY <1>1, <1>2 DEF IInv, Shape, OnePlace, OneOutcome, Idle, ARecord

\* What the worker does with its request: it goes on or gets free, and posts nothing or one
\* event of the request, after which it is free if the event is an outcome.
Serves ==
  /\ ~Free
  /\ requests' = requests /\ tasks' = tasks /\ cancelled' = cancelled
  /\ ARecord(worker') /\ worker'.request \in {worker.request, 0}
  /\ ~Free' => worker'.request = worker.request /\ worker'.by = worker.by
  /\ \/ events' = events
     \/ \E e : /\ events' = Append(events, e) /\ e.request = worker.request
               /\ Terminal(e) => Free'

LEMMA ServesKeeps == IInv /\ Serves => IInv'
<1> SUFFICES ASSUME IInv, Serves PROVE IInv'
  OBVIOUS
<1>1. CASE events' = events
  BY <1>1 DEF IInv, Shape, OnePlace, OneOutcome, Serves, Free, Terminal
<1>2. ASSUME NEW e, events' = Append(events, e), e.request = worker.request, Terminal(e) => Free'
      PROVE  IInv'
  <2>1. /\ ASequence(events') /\ DOMAIN events = 1..Len(events) /\ Len(events) \in Nat
        /\ DOMAIN events' = 1..Len(events) + 1
        /\ \A i \in 1..Len(events) : events'[i] = events[i]
        /\ events'[Len(events) + 1] = e
    BY <1>2, Appended DEF IInv, Shape
  <2>a. /\ ~Free /\ requests' = requests /\ tasks' = tasks /\ ARecord(worker')
        /\ worker'.request \in {worker.request, 0} /\ (~Free' => worker'.request = worker.request)
    BY DEF Serves
  <2>b. \A i \in DOMAIN events' : events'[i] = e \/ (i \in DOMAIN events /\ events'[i] = events[i])
    BY <2>1
  <2>2. Shape'
    <3>1. worker.request \in 0..requests /\ requests \in Nat /\ tasks \in Seq(Nat)
      BY DEF IInv, Shape
    <3>2. (\A i \in DOMAIN events : events[i].request \in 0..requests)'
      BY <1>2, <2>a, <2>b, <3>1 DEF IInv, Shape
    <3>3. worker'.request \in 0..requests
      BY <2>a, <3>1
    <3> QED
      BY <2>a, <2>1, <3>1, <3>2, <3>3 DEF IInv, Shape
  <2>3. OnePlace'
    <3>1. ASSUME NEW k \in DOMAIN events', Terminal(events'[k])
          PROVE  /\ \A i \in DOMAIN tasks' : tasks'[i] # events'[k].request
                 /\ Free' \/ worker'.request # events'[k].request
      BY <1>2, <2>a, <2>b, <3>1 DEF IInv, OnePlace
    <3> QED
      BY <2>a, <3>1 DEF IInv, OnePlace, Terminal
  <2>4. OneOutcome'
    <3>1. \A i \in DOMAIN events : Terminal(events[i]) => events[i].request # e.request
      BY <1>2 DEF IInv, OnePlace, Serves
    <3> QED
      BY <2>1, <3>1 DEF IInv, OneOutcome, Terminal
  <2> QED
    BY <2>2, <2>3, <2>4 DEF IInv
<1> QED
  BY <1>1, <1>2 DEF Serves

LEMMA Rests ==
  IInv /\ UNCHANGED <<requests, tasks, worker, events>> => IInv'
BY DEF IInv, Shape, OnePlace, OneOutcome, Free, Terminal, ASequence, ARecord

\* A record keeps its fields when one of them is set.
LEMMA SetAt ==
  ASSUME NEW w, ARecord(w), NEW v, NEW u, u = [w EXCEPT !.at = v]
  PROVE  ARecord(u) /\ u.request = w.request /\ u.by = w.by /\ u.at = v
BY DEF ARecord

LEMMA SetText ==
  ASSUME NEW w, ARecord(w), NEW v, NEW u, u = [w EXCEPT !.text = v]
  PROVE  ARecord(u) /\ u.request = w.request /\ u.by = w.by /\ u.at = w.at
BY DEF ARecord

LEMMA SetWrote ==
  ASSUME NEW w, ARecord(w), NEW v, NEW u, u = [w EXCEPT !.wrote = v]
  PROVE  ARecord(u) /\ u.request = w.request /\ u.by = w.by /\ u.at = w.at
BY DEF ARecord

\* What the worker does between taking a request and getting free.
Works ==
  \/ GiveUp \/ Refuse \/ Complete
  \/ Connect \/ (\E n \in ReadSizes : Read(n)) \/ EndOfStream \/ Payload \/ LastPayload \/ EndReply
  \/ OpenCli \/ SendPrompt \/ CancelCli \/ StartTimesOut \/ Hear

LEMMA WorksServes == IInv /\ Works => Serves
<1> SUFFICES ASSUME IInv, Works PROVE Serves
  OBVIOUS
<1>r. ARecord(worker)
  BY DEF IInv, Shape
<1>i. ARecord(Idle) /\ Idle.request = 0 /\ Idle.at = "idle"
  BY DEF ARecord, Idle
<1>f. Fail /\ ~Free /\ UNCHANGED <<requests, tasks, cancelled>> => Serves
  BY <1>r, <1>i DEF Fail, Answer, Serves, Free, Terminal
<1>1. CASE GiveUp \/ CancelCli
  BY <1>1, <1>i DEF GiveUp, CancelCli, Listening, Serves, Free, main
<1>2. CASE Refuse \/ StartTimesOut
  BY <1>2, <1>f DEF Refuse, StartTimesOut, Listening, Free, main
<1>3. CASE Complete
  BY <1>3, <1>i DEF Complete, Serves, Answer, Free, Terminal, main
<1>4. CASE Connect \/ EndOfStream \/ LastPayload \/ OpenCli
  <2>1. UNCHANGED <<requests, tasks, cancelled, events>> /\ ~Free
    BY <1>4 DEF Connect, EndOfStream, Reading, LastPayload, OpenCli, Free, main
  <2>2. \E a \in {"reading", "ending", "cli"} : worker' = [worker EXCEPT !.at = a]
    BY <1>4 DEF Connect, EndOfStream, LastPayload, OpenCli
  <2>3. ARecord(worker') /\ worker'.request = worker.request /\ worker'.by = worker.by
    BY <2>2, <1>r, SetAt
  <2> QED
    BY <2>1, <2>3 DEF Serves
<1>5. ASSUME NEW n \in ReadSizes, Read(n) PROVE Serves
  <2>1. UNCHANGED <<requests, tasks, cancelled>> /\ ~Free
    BY <1>5 DEF Read, Reading, Free, main
  <2>2. \/ worker' = Idle /\ UNCHANGED events
        \/ Fail
        \/ UNCHANGED <<worker, events>>
    BY <1>5 DEF Read
  <2> QED
    BY <2>1, <2>2, <1>f, <1>i, <1>r DEF Serves, Free
<1>6. CASE Payload
  <2>1. UNCHANGED <<requests, tasks, cancelled>> /\ ~Free /\ Heard(Head(stream.todo))
    BY <1>6 DEF Payload, Free, main
  <2>2. CASE Fail
    BY <2>1, <2>2, <1>f
  <2>3. CASE \E t : worker' = [worker EXCEPT !.text = t]
    <3>1. ARecord(worker') /\ worker'.request = worker.request /\ worker'.by = worker.by /\ worker'.at = worker.at
      BY <2>3, <1>r, SetText
    <3>2. events' = events \/ \E x : events' = Append(events, Answer("delta", x, <<>>))
      BY <2>1, <2>3, <3>1 DEF Heard, Fail, Idle, Free
    <3>a. \A x : Answer("delta", x, <<>>).request = worker.request /\ ~Terminal(Answer("delta", x, <<>>))
      BY DEF Answer, Terminal
    <3>3. events' = events \/ \E e : events' = Append(events, e) /\ e.request = worker.request /\ ~Terminal(e)
      BY <3>2, <3>a
    <3> QED
      BY <2>1, <3>1, <3>3 DEF Serves
  <2> QED
    BY <2>1, <2>2, <2>3 DEF Heard
<1>7. CASE EndReply
  <2>1. UNCHANGED <<requests, tasks, cancelled>> /\ ~Free
    BY <1>7 DEF EndReply, Free, main
  <2>2. (worker' = [worker EXCEPT !.at = "completed"] /\ UNCHANGED events) \/ Fail
    BY <1>7 DEF EndReply
  <2>3. worker' = [worker EXCEPT !.at = "completed"] => ARecord(worker') /\ worker'.request = worker.request
        /\ worker'.by = worker.by
    BY <1>r, SetAt
  <2> QED
    BY <2>1, <2>2, <2>3, <1>f DEF Serves
<1>8. CASE SendPrompt
  <2>1. UNCHANGED <<requests, tasks, cancelled>> /\ ~Free
    BY <1>8 DEF SendPrompt, Free, main
  <2>2. (worker' = [worker EXCEPT !.wrote = TRUE] /\ UNCHANGED events) \/ Fail
    BY <1>8 DEF SendPrompt
  <2>3. worker' = [worker EXCEPT !.wrote = TRUE] => ARecord(worker') /\ worker'.request = worker.request
        /\ worker'.by = worker.by
    BY <1>r, SetWrote
  <2> QED
    BY <2>1, <2>2, <2>3, <1>f DEF Serves
<1>9. CASE Hear
  <2>1. UNCHANGED <<requests, tasks, cancelled>> /\ ~Free
    BY <1>9 DEF Hear, Listening, Free, main
  <2> DEFINE completed(t) == [worker EXCEPT !.at = "completed", !.text = t]
  <2>2. \/ UNCHANGED <<worker, events>>
        \/ Fail
        \/ \E t : /\ worker' = completed(t)
                  /\ events' = events \/ events' = Append(events, Answer("delta", t, <<>>))
    BY <1>9 DEF Hear
  <2>3. ASSUME NEW t, worker' = completed(t)
        PROVE ARecord(worker') /\ worker'.request = worker.request /\ worker'.by = worker.by
    BY <2>3, <1>r DEF ARecord
  <2>4. Serves
    <3>1. CASE UNCHANGED <<worker, events>>
      BY <3>1, <2>1, <1>r DEF Serves
    <3>2. CASE Fail
      BY <3>2, <2>1, <1>f
    <3>3. ASSUME NEW t, worker' = completed(t), events' = events \/ events' = Append(events, Answer("delta", t, <<>>))
          PROVE  Serves
      <4>1. ARecord(worker') /\ worker'.request = worker.request /\ worker'.by = worker.by
        BY <2>3, <3>3
      <4>2. events' = events \/ \E e : events' = Append(events, e) /\ e.request = worker.request /\ ~Terminal(e)
        BY <3>3 DEF Answer, Terminal
      <4> QED
        BY <2>1, <4>1, <4>2 DEF Serves
    <3> QED
      BY <2>2, <3>1, <3>2, <3>3
  <2> QED
    BY <2>4
<1> QED
  BY <1>1, <1>2, <1>3, <1>4, <1>5, <1>6, <1>7, <1>8, <1>9 DEF Works

LEMMA Steps == IInv /\ [Next]_vars => IInv'
<1> SUFFICES ASSUME IInv, [Next]_vars PROVE IInv'
  OBVIOUS
<1>r. ARecord(worker)
  BY DEF IInv, Shape
<1>1. CASE Submit
  <2>1. requests \in Nat /\ tasks \in Seq(Nat) /\ requests' = requests + 1 /\ tasks' = Append(tasks, requests + 1)
    BY <1>1 DEF Submit, IInv, Shape
  <2>2. UNCHANGED <<worker, events>>
    BY <1>1 DEF Submit, history
  <2>3. /\ tasks' \in Seq(Nat) /\ Len(tasks) \in Nat /\ DOMAIN tasks = 1..Len(tasks) /\ DOMAIN tasks' = 1..Len(tasks) + 1
        /\ \A i \in 1..Len(tasks) : tasks'[i] = tasks[i] /\ tasks[i] \in Nat
        /\ tasks'[Len(tasks) + 1] = requests + 1
    BY <2>1
  <2>4. \A i \in DOMAIN tasks' : tasks'[i] = requests + 1 \/ (i \in DOMAIN tasks /\ tasks'[i] = tasks[i])
    BY <2>3
  <2>5. Shape'
    BY <2>1, <2>2, <2>3, <2>4 DEF IInv, Shape, ASequence, ARecord
  <2>6. \A i \in DOMAIN tasks : tasks[i] # requests + 1
    BY <2>1, <2>3 DEF IInv, Shape
  <2>7. worker.request # requests + 1 /\ \A k \in DOMAIN events : events[k].request # requests + 1
    BY <2>1 DEF IInv, Shape
  <2>8. (\A i, j \in DOMAIN tasks : i # j => tasks[i] # tasks[j])'
    BY <2>3, <2>6 DEF IInv, OnePlace
  <2>9. OnePlace'
    BY <2>2, <2>4, <2>7, <2>8 DEF IInv, OnePlace, Free, Terminal
  <2> QED
    BY <2>2, <2>5, <2>9 DEF IInv, OneOutcome
<1>2. CASE Cancel \/ Shutdown \/ \E kind \in Http \cup {Cli} : SwapProvider(kind)
  BY <1>2, Rests DEF Cancel, Shutdown, SwapProvider, main, history
<1>3. CASE Take
  <2>1. /\ requests' = requests /\ events' = events /\ Free /\ tasks # <<>> /\ tasks' = Tail(tasks)
        /\ requests \in Nat /\ tasks \in Seq(Nat)
    BY <1>3 DEF Take, IInv, Shape, Free, history
  <2>2. /\ worker' = worker
        \/ /\ ARecord(worker') /\ worker'.request = tasks[1] /\ ~Free'
    <3>1. Head(tasks) = tasks[1]
      BY <2>1
    <3> QED
      BY <1>3, <3>1 DEF Take, Idle, ARecord, Free
  <2>3. /\ tasks' \in Seq(Nat) /\ Len(tasks) \in Nat \ {0} /\ DOMAIN tasks = 1..Len(tasks) /\ DOMAIN tasks' = 1..Len(tasks) - 1
        /\ \A i \in DOMAIN tasks' : i + 1 \in DOMAIN tasks /\ tasks'[i] = tasks[i + 1]
        /\ tasks[1] \in 0..requests /\ 1 \in DOMAIN tasks
    BY <2>1 DEF IInv, Shape
  <2>4. Shape'
    BY <2>1, <2>2, <2>3 DEF IInv, Shape, ASequence, ARecord
  <2>5. \A i \in DOMAIN tasks' : tasks'[i] # tasks[1]
    BY <2>3 DEF IInv, OnePlace
  <2>6. (\A i, j \in DOMAIN tasks : i # j => tasks[i] # tasks[j])'
    BY <2>3 DEF IInv, OnePlace
  <2>7. \A k \in DOMAIN events : Terminal(events[k]) => \A i \in DOMAIN tasks : tasks[i] # events[k].request
    BY DEF IInv, OnePlace
  <2>8. Free' \/ worker'.request = tasks[1]
    BY <2>1, <2>2 DEF Free
  <2>9. OnePlace'
    BY <2>1, <2>3, <2>5, <2>6, <2>7, <2>8 DEF OnePlace, Terminal
  <2> QED
    BY <2>1, <2>4, <2>9 DEF IInv, OneOutcome
<1>4. CASE Exit
  <2>1. UNCHANGED <<requests, tasks, events>> /\ Free /\ worker' = [worker EXCEPT !.at = "ended"]
    BY <1>4 DEF Exit, Free, main
  <2>2. ARecord(worker') /\ worker'.request = worker.request /\ Free'
    BY <2>1, <1>r, SetAt DEF Free
  <2> QED
    BY <2>1, <2>2 DEF IInv, Shape, OnePlace, OneOutcome, Terminal, ASequence
<1>5. CASE Works
  BY <1>5, WorksServes, ServesKeeps
<1>6. CASE Process \/ UNCHANGED vars
  BY <1>6, Rests DEF Process, CliSays, CliDies, vars, main, history
<1> QED
  BY <1>1, <1>2, <1>3, <1>4, <1>5, <1>6 DEF Next, User, Run, Works

\* A request is over once: nothing of it is posted after its answer or its error (_run_loop).
THEOREM Outcome == Spec => []OneOutcome
<1>1. IInv => OneOutcome
  BY DEF IInv
<1> QED
  BY <1>1, Starts, Steps, PTL DEF Spec

-----------------------------------------------------------------------------
(* Counting up *)

LEMMA Smallest ==
  ASSUME NEW T, T \subseteq Nat, T # {}
  PROVE  \E x \in T : \A y \in T : ~(y < x)
<1>1. IsWellFoundedOn(OpToRel(<, Nat), Nat)
  BY NatLessThanWellFounded
<1>2. \E x \in T : \A y \in T : ~(<<y, x>> \in OpToRel(<, Nat))
  BY <1>1, WFMin
<1>3. \A x, y \in Nat : y < x => <<y, x>> \in OpToRel(<, Nat)
  BY DEF OpToRel
<1> QED
  BY <1>2, <1>3

LEMMA CountUp ==
  ASSUME NEW n \in Nat, NEW T, 0 \in T, \A i \in 1..n : i - 1 \in T => i \in T
  PROVE  0..n \subseteq T
<1> SUFFICES ASSUME (0..n) \ T # {} PROVE FALSE
  OBVIOUS
<1>0. (0..n) \ T \subseteq Nat
  OBVIOUS
<1>1. PICK x \in (0..n) \ T : \A y \in (0..n) \ T : ~(y < x)
  BY <1>0, Smallest
<1>2. x \in 1..n /\ x - 1 \in 0..n
  BY <1>1
<1>3. x - 1 \in T
  BY <1>1, <1>2
<1> QED
  BY <1>1, <1>2, <1>3

-----------------------------------------------------------------------------
(* The loops of the parser: r[i] is where a loop is after i rounds *)

Decodes(r, pend, s) ==
  /\ r[0] = [text |-> <<>>, pend |-> pend, ok |-> TRUE]
  /\ \A i \in 1..Len(s) : r[i] = DecodeByte(r[i - 1], s[i])

Splits(r, s) ==
  /\ r[0] = [done |-> <<>>, line |-> <<>>, last |-> "lf"]
  /\ \A i \in 1..Len(s) : r[i] = SplitChar(r[i - 1], s[i])

Processes(r, data, s) ==
  /\ r[0] = [events |-> <<>>, data |-> data, ok |-> TRUE]
  /\ \A i \in 1..Len(s) : r[i] = ProcessLine(r[i - 1], s[i])

LEMMA DecodeRun ==
  ASSUME NEW pend, NEW s, Len(s) \in Nat
  PROVE  \E r : Decodes(r, pend, s) /\ Decoded(pend, s) = r[Len(s)]
<1> DEFINE n == Len(s)
           start == [text |-> <<>>, pend |-> pend, ok |-> TRUE]
           Loop(r, k) == r = [i \in 0..k |-> IF i = 0 THEN start ELSE DecodeByte(r[i - 1], s[i])]
           T == {k \in 0..n : \E r : Loop(r, k)}
           r0 == CHOOSE r : Loop(r, n)
<1>1. 0 \in T
  <2> DEFINE h == [i \in 0..0 |-> start]
  <2>1. Loop(h, 0) /\ 0 \in 0..n
    OBVIOUS
  <2> HIDE DEF h, Loop
  <2> QED
    BY <2>1
<1>2. ASSUME NEW k \in 1..n, k - 1 \in T PROVE k \in T
  <2>1. PICK g : Loop(g, k - 1)
    BY <1>2
  <2> DEFINE h == [i \in 0..k |-> IF i = k THEN DecodeByte(g[k - 1], s[k]) ELSE g[i]]
  <2> HIDE DEF start
  <2>2. \A i \in 0..k : h[i] = IF i = 0 THEN start ELSE DecodeByte(h[i - 1], s[i])
    <3> SUFFICES ASSUME NEW i \in 0..k PROVE h[i] = IF i = 0 THEN start ELSE DecodeByte(h[i - 1], s[i])
      OBVIOUS
    <3>1. CASE i = k
      <4>1. h[k] = DecodeByte(g[k - 1], s[k]) /\ h[k - 1] = g[k - 1] /\ k # 0
        BY <1>2
      <4> QED
        BY <3>1, <4>1
    <3>2. CASE i # k
      <4>1. i \in 0..(k - 1) /\ h[i] = g[i] /\ (i # 0 => h[i - 1] = g[i - 1])
        BY <3>2
      <4>2. g[i] = IF i = 0 THEN start ELSE DecodeByte(g[i - 1], s[i])
        BY <2>1, <4>1
      <4> QED
        BY <4>1, <4>2
    <3> QED
      BY <3>1, <3>2
  <2>3. Loop(h, k)
    <3>1. h = [i \in 0..k |-> h[i]]
      OBVIOUS
    <3> HIDE DEF h
    <3> QED
      BY <2>2, <3>1
  <2> HIDE DEF h, Loop
  <2> QED
    BY <2>3
<1>3. n \in T
  <2> HIDE DEF T
  <2>1. 0..n \subseteq T
    BY <1>1, <1>2, CountUp
  <2> QED
    BY <2>1
<1>4. Loop(r0, n)
  <2> HIDE DEF Loop
  <2> QED
    BY <1>3
<1>5. r0[0] = start /\ \A i \in 1..n : r0[i] = DecodeByte(r0[i - 1], s[i])
  <2> HIDE DEF r0, start
  <2> QED
    BY <1>4
<1>6. Decoded(pend, s) = r0[n]
  BY DEF Decoded
<1> HIDE DEF r0
<1> QED
  BY <1>5, <1>6 DEF Decodes

LEMMA SplitRun ==
  ASSUME NEW s, Len(s) \in Nat
  PROVE  \E r : Splits(r, s) /\ Split(s) = r[Len(s)]
<1> DEFINE n == Len(s)
           start == [done |-> <<>>, line |-> <<>>, last |-> "lf"]
           Loop(r, k) == r = [i \in 0..k |-> IF i = 0 THEN start ELSE SplitChar(r[i - 1], s[i])]
           T == {k \in 0..n : \E r : Loop(r, k)}
           r0 == CHOOSE r : Loop(r, n)
<1>1. 0 \in T
  <2> DEFINE h == [i \in 0..0 |-> start]
  <2>1. Loop(h, 0) /\ 0 \in 0..n
    OBVIOUS
  <2> HIDE DEF h, Loop
  <2> QED
    BY <2>1
<1>2. ASSUME NEW k \in 1..n, k - 1 \in T PROVE k \in T
  <2>1. PICK g : Loop(g, k - 1)
    BY <1>2
  <2> DEFINE h == [i \in 0..k |-> IF i = k THEN SplitChar(g[k - 1], s[k]) ELSE g[i]]
  <2> HIDE DEF start
  <2>2. \A i \in 0..k : h[i] = IF i = 0 THEN start ELSE SplitChar(h[i - 1], s[i])
    <3> SUFFICES ASSUME NEW i \in 0..k PROVE h[i] = IF i = 0 THEN start ELSE SplitChar(h[i - 1], s[i])
      OBVIOUS
    <3>1. CASE i = k
      <4>1. h[k] = SplitChar(g[k - 1], s[k]) /\ h[k - 1] = g[k - 1] /\ k # 0
        BY <1>2
      <4> QED
        BY <3>1, <4>1
    <3>2. CASE i # k
      <4>1. i \in 0..(k - 1) /\ h[i] = g[i] /\ (i # 0 => h[i - 1] = g[i - 1])
        BY <3>2
      <4>2. g[i] = IF i = 0 THEN start ELSE SplitChar(g[i - 1], s[i])
        BY <2>1, <4>1
      <4> QED
        BY <4>1, <4>2
    <3> QED
      BY <3>1, <3>2
  <2>3. Loop(h, k)
    <3>1. h = [i \in 0..k |-> h[i]]
      OBVIOUS
    <3> HIDE DEF h
    <3> QED
      BY <2>2, <3>1
  <2> HIDE DEF h, Loop
  <2> QED
    BY <2>3
<1>3. n \in T
  <2> HIDE DEF T
  <2>1. 0..n \subseteq T
    BY <1>1, <1>2, CountUp
  <2> QED
    BY <2>1
<1>4. Loop(r0, n)
  <2> HIDE DEF Loop
  <2> QED
    BY <1>3
<1>5. r0[0] = start /\ \A i \in 1..n : r0[i] = SplitChar(r0[i - 1], s[i])
  <2> HIDE DEF r0, start
  <2> QED
    BY <1>4
<1>6. Split(s) = r0[n]
  BY DEF Split
<1> HIDE DEF r0
<1> QED
  BY <1>5, <1>6 DEF Splits

LEMMA ProcessRun ==
  ASSUME NEW data, NEW s, Len(s) \in Nat
  PROVE  \E r : Processes(r, data, s) /\ Processed(data, s) = r[Len(s)]
<1> DEFINE n == Len(s)
           start == [events |-> <<>>, data |-> data, ok |-> TRUE]
           Loop(r, k) == r = [i \in 0..k |-> IF i = 0 THEN start ELSE ProcessLine(r[i - 1], s[i])]
           T == {k \in 0..n : \E r : Loop(r, k)}
           r0 == CHOOSE r : Loop(r, n)
<1>1. 0 \in T
  <2> DEFINE h == [i \in 0..0 |-> start]
  <2>1. Loop(h, 0) /\ 0 \in 0..n
    OBVIOUS
  <2> HIDE DEF h, Loop
  <2> QED
    BY <2>1
<1>2. ASSUME NEW k \in 1..n, k - 1 \in T PROVE k \in T
  <2>1. PICK g : Loop(g, k - 1)
    BY <1>2
  <2> DEFINE h == [i \in 0..k |-> IF i = k THEN ProcessLine(g[k - 1], s[k]) ELSE g[i]]
  <2> HIDE DEF start
  <2>2. \A i \in 0..k : h[i] = IF i = 0 THEN start ELSE ProcessLine(h[i - 1], s[i])
    <3> SUFFICES ASSUME NEW i \in 0..k PROVE h[i] = IF i = 0 THEN start ELSE ProcessLine(h[i - 1], s[i])
      OBVIOUS
    <3>1. CASE i = k
      <4>1. h[k] = ProcessLine(g[k - 1], s[k]) /\ h[k - 1] = g[k - 1] /\ k # 0
        BY <1>2
      <4> QED
        BY <3>1, <4>1
    <3>2. CASE i # k
      <4>1. i \in 0..(k - 1) /\ h[i] = g[i] /\ (i # 0 => h[i - 1] = g[i - 1])
        BY <3>2
      <4>2. g[i] = IF i = 0 THEN start ELSE ProcessLine(g[i - 1], s[i])
        BY <2>1, <4>1
      <4> QED
        BY <4>1, <4>2
    <3> QED
      BY <3>1, <3>2
  <2>3. Loop(h, k)
    <3>1. h = [i \in 0..k |-> h[i]]
      OBVIOUS
    <3> HIDE DEF h
    <3> QED
      BY <2>2, <3>1
  <2> HIDE DEF h, Loop
  <2> QED
    BY <2>3
<1>3. n \in T
  <2> HIDE DEF T
  <2>1. 0..n \subseteq T
    BY <1>1, <1>2, CountUp
  <2> QED
    BY <2>1
<1>4. Loop(r0, n)
  <2> HIDE DEF Loop
  <2> QED
    BY <1>3
<1>5. r0[0] = start /\ \A i \in 1..n : r0[i] = ProcessLine(r0[i - 1], s[i])
  <2> HIDE DEF r0, start
  <2> QED
    BY <1>4
<1>6. Processed(data, s) = r0[n]
  BY DEF Processed
<1> HIDE DEF r0
<1> QED
  BY <1>5, <1>6 DEF Processes
-----------------------------------------------------------------------------
(* Decoding in two parts *)

Decoders(C, pend) == [text : Seq(C), pend : C \cup {pend, None}, ok : BOOLEAN]

\* The bytes are of characters in C.
Bytes(C) == C \X {0, 1, 2}

LEMMA DecodeByteTyped ==
  ASSUME NEW C, NEW pend, NEW d \in Decoders(C, pend), NEW b, b[1] \in C
  PROVE  DecodeByte(d, b) \in Decoders(C, pend)
<1> DEFINE e == DecodeByte(d, b)
<1>1. e = [text |-> e.text, pend |-> e.pend, ok |-> e.ok]
  BY DEF DecodeByte
<1>2. e.text \in Seq(C) /\ e.pend \in C \cup {pend, None}
  BY DEF Decoders, DecodeByte
<1>3. e.ok \in BOOLEAN
  <2> DEFINE fits == d.pend = IF b[2] = 2 THEN b[1] ELSE None
  <2>1. e.ok = IF fits THEN d.ok ELSE FALSE
    BY DEF DecodeByte
  <2>2. d.ok \in BOOLEAN
    BY DEF Decoders
  <2> HIDE DEF e, fits
  <2> QED
    BY <2>1, <2>2
<1> HIDE DEF e
<1>4. e \in Decoders(C, pend)
  BY <1>1, <1>2, <1>3 DEF Decoders
<1> QED
  BY <1>4 DEF e

LEMMA DecodeTyped ==
  ASSUME NEW C, NEW s \in Seq(Bytes(C)), NEW pend, NEW r, Decodes(r, pend, s)
  PROVE  \A i \in 0..Len(s) : r[i] \in Decoders(C, pend)
<1> DEFINE T == {k \in 0..Len(s) : r[k] \in Decoders(C, pend)}
<1>0. Len(s) \in Nat
  OBVIOUS
<1>1. 0 \in T
  <2>1. r[0] = [text |-> <<>>, pend |-> pend, ok |-> TRUE]
    BY DEF Decodes
  <2>2. r[0] \in Decoders(C, pend)
    BY <2>1 DEF Decoders
  <2> QED
    BY <1>0, <2>2
<1>2. ASSUME NEW k \in 1..Len(s), k - 1 \in T PROVE k \in T
  <2>1. r[k] = DecodeByte(r[k - 1], s[k]) /\ r[k - 1] \in Decoders(C, pend)
    BY <1>2 DEF Decodes
  <2>2. s[k][1] \in C
    <3>1. s[k] \in Bytes(C)
      OBVIOUS
    <3> QED
      BY <3>1 DEF Bytes
  <2> QED
    BY <2>1, <2>2, DecodeByteTyped
<1> HIDE DEF T
<1>3. 0..Len(s) \subseteq T
  BY <1>0, <1>1, <1>2, CountUp
<1> QED
  BY <1>3 DEF T

LEMMA DecodedTyped ==
  ASSUME NEW C, NEW s \in Seq(Bytes(C)), NEW pend
  PROVE  Decoded(pend, s) \in Decoders(C, pend)
<1>0. Len(s) \in Nat /\ Len(s) \in 0..Len(s)
  OBVIOUS
<1>1. PICK r : Decodes(r, pend, s) /\ Decoded(pend, s) = r[Len(s)]
  BY <1>0, DecodeRun
<1> QED
  BY <1>0, <1>1, DecodeTyped

\* What decoding a and then b comes to.
DecodedBoth(a, b) == [text |-> a.text \o b.text, pend |-> b.pend, ok |-> IF a.ok THEN b.ok ELSE FALSE]

LEMMA DecodeByteBoth ==
  ASSUME NEW C, NEW p, NEW q, NEW a \in Decoders(C, p), NEW b \in Decoders(C, q), NEW x, x[1] \in C
  PROVE  DecodeByte(DecodedBoth(a, b), x) = DecodedBoth(a, DecodeByte(b, x))
<1>1. Append(a.text \o b.text, x[1]) = a.text \o Append(b.text, x[1])
  BY SMTT(20) DEF Decoders
<1> QED
  BY <1>1 DEF DecodeByte, DecodedBoth, Decoders

LEMMA DecodedBothStart ==
  ASSUME NEW C, NEW p, NEW a \in Decoders(C, p)
  PROVE  DecodedBoth(a, [text |-> <<>>, pend |-> a.pend, ok |-> TRUE]) = a
<1> DEFINE b == [text |-> <<>>, pend |-> a.pend, ok |-> TRUE]
<1>1. a.text \o <<>> = a.text
  BY DEF Decoders
<1>2. a = [text |-> a.text, pend |-> a.pend, ok |-> a.ok] /\ a.ok \in BOOLEAN
  BY DEF Decoders
<1>3. a.ok = IF a.ok THEN TRUE ELSE FALSE
  BY <1>2
<1>4. DecodedBoth(a, b) = [text |-> a.text \o <<>>, pend |-> a.pend, ok |-> IF a.ok THEN TRUE ELSE FALSE]
  BY DEF DecodedBoth
<1> QED
  BY <1>1, <1>2, <1>3, <1>4, Zenon

LEMMA DecodedConcat ==
  ASSUME NEW C, NEW u \in Seq(Bytes(C)), NEW v \in Seq(Bytes(C)), NEW pend
  PROVE  Decoded(pend, u \o v) = DecodedBoth(Decoded(pend, u), Decoded(Decoded(pend, u).pend, v))
<1> DEFINE w == u \o v
           mid == Decoded(pend, u).pend
<1>0. Len(u) \in Nat /\ Len(v) \in Nat /\ Len(u) \in 0..Len(u)
  OBVIOUS
<1>1. PICK a : Decodes(a, pend, u) /\ Decoded(pend, u) = a[Len(u)]
  BY <1>0, DecodeRun
<1>2. PICK b : Decodes(b, mid, v) /\ Decoded(mid, v) = b[Len(v)]
  <2> HIDE DEF mid
  <2> QED
    BY <1>0, DecodeRun
<1>3. /\ w \in Seq(Bytes(C)) /\ Len(w) = Len(u) + Len(v)
      /\ \A i \in 1..Len(u) : w[i] = u[i]
      /\ \A i \in 1..Len(v) : w[Len(u) + i] = v[i]
  OBVIOUS
<1> HIDE DEF w
<1>l. Len(w) \in Nat
  BY <1>0, <1>3
<1>4. PICK c : Decodes(c, pend, w) /\ Decoded(pend, w) = c[Len(w)]
  BY <1>l, DecodeRun
<1>5. c[Len(u)] = a[Len(u)]
  <2> DEFINE T == {k \in 0..Len(u) : c[k] = a[k]}
  <2>1. 0 \in T
    BY <1>0, <1>1, <1>4 DEF Decodes
  <2>2. ASSUME NEW k \in 1..Len(u), k - 1 \in T PROVE k \in T
    <3>1. k \in 1..Len(w) /\ w[k] = u[k] /\ c[k - 1] = a[k - 1]
      BY <1>0, <1>3, <2>2
    <3> QED
      BY <1>1, <1>4, <3>1 DEF Decodes
  <2> HIDE DEF T
  <2>3. 0..Len(u) \subseteq T
    BY <1>0, <2>1, <2>2, CountUp
  <2> QED
    BY <1>0, <2>3 DEF T
<1>6. mid = a[Len(u)].pend /\ a[Len(u)] \in Decoders(C, pend)
  BY <1>0, <1>1, DecodeTyped
<1> HIDE DEF mid
<1>7. \A i \in 0..Len(v) : b[i] \in Decoders(C, mid)
  BY <1>2, DecodeTyped
<1> DEFINE T == {k \in 0..Len(v) : c[Len(u) + k] = DecodedBoth(a[Len(u)], b[k])}
<1>8. 0 \in T
  <2>1. b[0] = [text |-> <<>>, pend |-> mid, ok |-> TRUE] /\ Len(u) + 0 = Len(u)
    BY <1>0, <1>2 DEF Decodes
  <2>3. a[Len(u)] = DecodedBoth(a[Len(u)], b[0])
    BY <1>6, <2>1, DecodedBothStart
  <2> QED
    BY <1>0, <1>5, <2>1, <2>3
<1>9. ASSUME NEW k \in 1..Len(v), k - 1 \in T PROVE k \in T
  <2>1. b[k] = DecodeByte(b[k - 1], v[k]) /\ c[Len(u) + (k - 1)] = DecodedBoth(a[Len(u)], b[k - 1])
    BY <1>2, <1>9 DEF Decodes
  <2>2. c[Len(u) + k] = DecodeByte(c[Len(u) + (k - 1)], v[k])
    <3>1. Len(u) + k \in 1..Len(w) /\ (Len(u) + k) - 1 = Len(u) + (k - 1) /\ w[Len(u) + k] = v[k]
      BY <1>0, <1>3
    <3> QED
      BY <1>4, <3>1 DEF Decodes
  <2>3. b[k - 1] \in Decoders(C, mid) /\ v[k][1] \in C
    <3>1. v[k] \in Bytes(C) /\ k - 1 \in 0..Len(v)
      BY <1>0
    <3> QED
      BY <1>7, <3>1 DEF Bytes
  <2>4. c[Len(u) + k] = DecodedBoth(a[Len(u)], b[k])
    BY <1>6, <2>1, <2>2, <2>3, DecodeByteBoth
  <2> QED
    BY <2>4
<1> HIDE DEF T
<1>10. Len(v) \in T
  <2>1. 0..Len(v) \subseteq T
    BY <1>0, <1>8, <1>9, CountUp
  <2> QED
    BY <1>0, <2>1
<1>11. c[Len(u) + Len(v)] = DecodedBoth(a[Len(u)], b[Len(v)])
  BY <1>10 DEF T
<1>12. Decoded(pend, w) = DecodedBoth(Decoded(pend, u), Decoded(mid, v))
  BY <1>1, <1>2, <1>3, <1>4, <1>11
<1> QED
  BY <1>12 DEF w, mid
-----------------------------------------------------------------------------
(* Lines in two parts *)

Splitters(C) == [done : Seq(Seq(C)), line : Seq(C), last : C \cup {"lf"}]

Plain(s, n) == \A i \in 1..n : s[i] \notin {"cr", "lf"}

LEMMA SplitCharTyped ==
  ASSUME NEW C, NEW l \in Splitters(C), NEW x \in C, Plain(l.line, Len(l.line))
  PROVE  /\ SplitChar(l, x) \in Splitters(C)
         /\ Plain(SplitChar(l, x).line, Len(SplitChar(l, x).line))
         /\ SplitChar(l, x).last = x
<1> DEFINE r == SplitChar(l, x)
<1>1. l.done \in Seq(Seq(C)) /\ l.line \in Seq(C) /\ Append(l.done, l.line) \in Seq(Seq(C)) /\ Append(l.line, x) \in Seq(C)
  BY DEF Splitters
<1>2. CASE x = "lf" /\ l.last = "cr"
  <2>1. r = [done |-> l.done, line |-> l.line, last |-> x]
    BY <1>2 DEF SplitChar
  <2> HIDE DEF r
  <2>2. r \in Splitters(C) /\ r.line = l.line /\ r.last = x
    BY <1>1, <2>1 DEF Splitters
  <2> QED
    BY <2>2 DEF r
<1>3. CASE ~(x = "lf" /\ l.last = "cr") /\ x \in {"cr", "lf"}
  <2>1. r = [done |-> Append(l.done, l.line), line |-> <<>>, last |-> x]
    BY <1>3 DEF SplitChar
  <2> HIDE DEF r
  <2>2. r \in Splitters(C) /\ r.line = <<>> /\ r.last = x
    BY <1>1, <2>1 DEF Splitters
  <2>3. Plain(r.line, Len(r.line))
    BY <2>2 DEF Plain
  <2> QED
    BY <2>2, <2>3 DEF r
<1>4. CASE x \notin {"cr", "lf"}
  <2>1. r = [done |-> l.done, line |-> Append(l.line, x), last |-> x]
    BY <1>4 DEF SplitChar
  <2> HIDE DEF r
  <2>2. r \in Splitters(C) /\ r.line = Append(l.line, x) /\ r.last = x
    BY <1>1, <2>1 DEF Splitters
  <2>3. Plain(r.line, Len(r.line))
    BY <1>1, <1>4, <2>2 DEF Plain
  <2> QED
    BY <2>2, <2>3 DEF r
<1> QED
  BY <1>2, <1>3, <1>4

LEMMA SplitTyped ==
  ASSUME NEW C, NEW s \in Seq(C), NEW r, Splits(r, s)
  PROVE  /\ \A i \in 0..Len(s) : r[i] \in Splitters(C) /\ Plain(r[i].line, Len(r[i].line))
         /\ \A i \in 1..Len(s) : r[i].last = s[i]
<1> DEFINE P(k) == r[k] \in Splitters(C) /\ Plain(r[k].line, Len(r[k].line))
           T == {k \in 0..Len(s) : P(k)}
<1>0. Len(s) \in Nat
  OBVIOUS
<1>1. 0 \in T
  <2>1. r[0] = [done |-> <<>>, line |-> <<>>, last |-> "lf"]
    BY DEF Splits
  <2>2. r[0] \in Splitters(C)
    BY <2>1 DEF Splitters
  <2>3. Plain(r[0].line, Len(r[0].line))
    BY <2>1 DEF Plain
  <2> QED
    BY <1>0, <2>2, <2>3
<1>2. ASSUME NEW k \in 1..Len(s), P(k - 1) PROVE P(k) /\ r[k].last = s[k]
  <2>1. r[k] = SplitChar(r[k - 1], s[k]) /\ s[k] \in C
    BY DEF Splits
  <2> QED
    BY <1>2, <2>1, SplitCharTyped
<1>3. 0..Len(s) \subseteq T
  <2>1. \A k \in 1..Len(s) : k - 1 \in T => k \in T
    BY <1>2
  <2> HIDE DEF T
  <2> QED
    BY <1>0, <1>1, <2>1, CountUp
<1>4. \A k \in 0..Len(s) : P(k)
  BY <1>3
<1> HIDE DEF P
<1>5. \A k \in 1..Len(s) : r[k].last = s[k]
  BY <1>2, <1>4
<1> QED
  BY <1>4, <1>5 DEF P

\* The type of what Split returns, and its last character.
LEMMA SplitIs ==
  ASSUME NEW C, NEW s \in Seq(C)
  PROVE  /\ Split(s) \in Splitters(C) /\ Plain(Split(s).line, Len(Split(s).line))
         /\ Split(s).last = IF s = <<>> THEN "lf" ELSE s[Len(s)]
<1>0. Len(s) \in Nat /\ Len(s) \in 0..Len(s) /\ (s # <<>> => Len(s) \in 1..Len(s)) /\ (s = <<>> => Len(s) = 0)
  OBVIOUS
<1>1. PICK r : Splits(r, s) /\ Split(s) = r[Len(s)]
  BY <1>0, SplitRun
<1>2. Split(s) \in Splitters(C) /\ Plain(Split(s).line, Len(Split(s).line))
  BY <1>0, <1>1, SplitTyped
<1>3. CASE s = <<>>
  <2>1. Split(s) = [done |-> <<>>, line |-> <<>>, last |-> "lf"]
    BY <1>0, <1>1, <1>3 DEF Splits
  <2> QED
    BY <1>2, <1>3, <2>1
<1>4. CASE s # <<>>
  <2>1. r[Len(s)].last = s[Len(s)]
    BY <1>0, <1>1, <1>4, SplitTyped
  <2> QED
    BY <1>1, <1>2, <1>4, <2>1
<1> QED
  BY <1>3, <1>4

\* As long as no line ends, all goes to the line.
LEMMA SplitPlain ==
  ASSUME NEW C, NEW s \in Seq(C), NEW r, Splits(r, s), NEW n \in 0..Len(s), Plain(s, n)
  PROVE  r[n].done = <<>> /\ r[n].line = SubSeq(s, 1, n)
<1> DEFINE P(k) == r[k].done = <<>> /\ r[k].line = SubSeq(s, 1, k)
           T == {k \in 0..n : P(k)}
<1>0. n \in Nat /\ Len(s) \in Nat
  OBVIOUS
<1>1. 0 \in T
  <2>1. SubSeq(s, 1, 0) = <<>>
    OBVIOUS
  <2>2. P(0)
    BY <1>0, <2>1 DEF Splits
  <2> QED
    BY <1>0, <2>2
<1>2. ASSUME NEW k \in 1..n, k - 1 \in T PROVE k \in T
  <2>1. k \in 1..Len(s) /\ s[k] \notin {"cr", "lf"}
    BY <1>0 DEF Plain
  <2>2. r[k] = SplitChar(r[k - 1], s[k])
    BY <2>1 DEF Splits
  <2>3. P(k - 1)
    BY <1>2
  <2>4. Append(SubSeq(s, 1, k - 1), s[k]) = SubSeq(s, 1, k)
    BY <2>1
  <2>5. r[k] = [done |-> r[k - 1].done, line |-> Append(r[k - 1].line, s[k]), last |-> s[k]]
    BY <2>1, <2>2 DEF SplitChar
  <2>6. P(k)
    BY <2>3, <2>4, <2>5
  <2> HIDE DEF P
  <2> QED
    BY <1>0, <2>6
<1> HIDE DEF T
<1>3. 0..n \subseteq T
  BY <1>0, <1>1, <1>2, CountUp
<1> QED
  BY <1>0, <1>3 DEF T

\* Two loops that are in the same line: c began before b, and had finished the lines of a when b began.
Continues(c, a, b) == c.done = a.done \o b.done /\ c.line = b.line

LEMMA SplitCharContinues ==
  ASSUME NEW C, NEW a \in Splitters(C), NEW b \in Splitters(C), NEW c \in Splitters(C), NEW x \in C,
         Continues(c, a, b), x = "lf" => (c.last = "cr" <=> b.last = "cr")
  PROVE  Continues(SplitChar(c, x), a, SplitChar(b, x))
<1>1. /\ c.done = a.done \o b.done /\ c.line = b.line
      /\ a.done \in Seq(Seq(C)) /\ b.done \in Seq(Seq(C)) /\ b.line \in Seq(C)
  BY DEF Splitters, Continues
<1>2. CASE x = "lf" /\ c.last = "cr"
  BY <1>1, <1>2 DEF SplitChar, Continues
<1>3. CASE ~(x = "lf" /\ c.last = "cr") /\ x \in {"cr", "lf"}
  <2>1. Append(a.done \o b.done, b.line) = a.done \o Append(b.done, b.line)
    <3> DEFINE S == Seq(C)
    <3>1. a.done \in Seq(S) /\ b.done \in Seq(S) /\ b.line \in S
      BY <1>1
    <3> HIDE DEF S
    <3>2. \A s, t \in Seq(S), e \in S : Append(s \o t, e) = s \o Append(t, e)
      OBVIOUS
    <3> QED
      BY <3>1, <3>2, Zenon
  <2> QED
    BY <1>1, <1>3, <2>1 DEF SplitChar, Continues
<1>4. CASE x \notin {"cr", "lf"}
  BY <1>1, <1>4 DEF SplitChar, Continues
<1> QED
  BY <1>2, <1>3, <1>4

LEMMA SplitConcat ==
  ASSUME NEW C, NEW u \in Seq(C), NEW v \in Seq(C), v = <<>> \/ v[1] # "lf" \/ u = <<>> \/ u[Len(u)] # "cr"
  PROVE  Continues(Split(u \o v), Split(u), Split(Split(u).line \o v))
<1> DEFINE w == u \o v
           L == Split(u).line
           x == L \o v
<1>0. Len(u) \in Nat /\ Len(v) \in Nat /\ Len(u) \in 0..Len(u) /\ (u = <<>> => Len(u) = 0) /\ (v # <<>> <=> Len(v) # 0)
  OBVIOUS
<1>1. L \in Seq(C) /\ Plain(L, Len(L))
  BY SplitIs DEF Splitters
<1>2. PICK a : Splits(a, u) /\ Split(u) = a[Len(u)]
  BY <1>0, SplitRun
<1>3. L = a[Len(u)].line
  BY <1>2
<1> HIDE DEF L
<1>4. Len(L) \in Nat /\ Len(L) \in 0..Len(L)
  BY <1>1
<1>5. /\ w \in Seq(C) /\ Len(w) = Len(u) + Len(v)
      /\ \A i \in 1..Len(u) : w[i] = u[i]
      /\ \A i \in 1..Len(v) : w[Len(u) + i] = v[i]
  OBVIOUS
<1>6. /\ x \in Seq(C) /\ Len(x) = Len(L) + Len(v)
      /\ \A i \in 1..Len(L) : x[i] = L[i]
      /\ \A i \in 1..Len(v) : x[Len(L) + i] = v[i]
      /\ SubSeq(x, 1, Len(L)) = L
  BY <1>1
<1> HIDE DEF w, x
<1>7. Len(w) \in Nat /\ Len(x) \in Nat
  BY <1>0, <1>4, <1>5, <1>6
<1>8. PICK c : Splits(c, w) /\ Split(w) = c[Len(w)]
  BY <1>7, SplitRun
<1>9. PICK b : Splits(b, x) /\ Split(x) = b[Len(x)]
  BY <1>7, SplitRun
<1>10. c[Len(u)] = a[Len(u)]
  <2> DEFINE T == {k \in 0..Len(u) : c[k] = a[k]}
  <2>1. 0 \in T
    BY <1>0, <1>2, <1>8 DEF Splits
  <2>2. ASSUME NEW k \in 1..Len(u), k - 1 \in T PROVE k \in T
    <3>1. k \in 1..Len(w) /\ w[k] = u[k] /\ c[k - 1] = a[k - 1]
      BY <1>0, <1>5, <2>2
    <3> QED
      BY <1>2, <1>8, <3>1 DEF Splits
  <2> HIDE DEF T
  <2>3. 0..Len(u) \subseteq T
    BY <1>0, <2>1, <2>2, CountUp
  <2> QED
    BY <1>0, <2>3 DEF T
<1>11. b[Len(L)].done = <<>> /\ b[Len(L)].line = L
  <2>1. Len(L) \in 0..Len(x) /\ Plain(x, Len(L))
    BY <1>0, <1>1, <1>4, <1>6 DEF Plain
  <2>2. PICK n : n = Len(L) /\ n \in 0..Len(x)
    BY <2>1
  <2>3. x \in Seq(C) /\ Splits(b, x) /\ Plain(x, n)
    BY <1>6, <1>9, <2>1, <2>2
  <2>4. b[n].done = <<>> /\ b[n].line = SubSeq(x, 1, n)
    BY <2>2, <2>3, SplitPlain
  <2> QED
    BY <1>6, <2>2, <2>4
<1> DEFINE cc(k) == c[Len(u) + k]
           bb(k) == b[Len(L) + k]
           P(k) == Continues(cc(k), a[Len(u)], bb(k)) /\ (k # 0 => cc(k).last = bb(k).last)
           T == {k \in 0..Len(v) : P(k)}
<1>12. \A k \in 0..Len(v) : cc(k) \in Splitters(C) /\ bb(k) \in Splitters(C)
  <2>1. \A k \in 0..Len(v) : Len(u) + k \in 0..Len(w) /\ Len(L) + k \in 0..Len(x)
    BY <1>0, <1>4, <1>5, <1>6
  <2> QED
    BY <1>5, <1>6, <1>8, <1>9, <2>1, SplitTyped
<1>13. a[Len(u)] \in Splitters(C)
  BY <1>0, <1>2, SplitTyped
<1>14. P(0)
  <2>1. cc(0) = a[Len(u)] /\ bb(0) = b[Len(L)]
    BY <1>0, <1>4, <1>10
  <2>2. a[Len(u)].done \o <<>> = a[Len(u)].done
    BY <1>13 DEF Splitters
  <2> QED
    BY <1>3, <1>11, <2>1, <2>2 DEF Continues
<1>15. \A k \in 1..Len(v) : /\ cc(k) = SplitChar(cc(k - 1), v[k]) /\ bb(k) = SplitChar(bb(k - 1), v[k]) /\ v[k] \in C
  <2> SUFFICES ASSUME NEW k \in 1..Len(v)
               PROVE  cc(k) = SplitChar(cc(k - 1), v[k]) /\ bb(k) = SplitChar(bb(k - 1), v[k]) /\ v[k] \in C
    OBVIOUS
  <2>1. Len(u) + k \in 1..Len(w) /\ (Len(u) + k) - 1 = Len(u) + (k - 1) /\ w[Len(u) + k] = v[k]
    BY <1>0, <1>5
  <2>2. Len(L) + k \in 1..Len(x) /\ (Len(L) + k) - 1 = Len(L) + (k - 1) /\ x[Len(L) + k] = v[k]
    BY <1>0, <1>4, <1>6
  <2> QED
    BY <1>8, <1>9, <2>1, <2>2 DEF Splits
<1>16. ASSUME NEW k \in 1..Len(v), P(k - 1) PROVE P(k)
  <2>1. k - 1 \in 0..Len(v)
    BY <1>0
  <2>2. v[k] = "lf" => (cc(k - 1).last = "cr" <=> bb(k - 1).last = "cr")
    <3>1. CASE k # 1
      BY <1>16, <3>1
    <3>2. CASE k = 1
      <4>1. cc(0).last = IF u = <<>> THEN "lf" ELSE u[Len(u)]
        <5>1. cc(0) = Split(u)
          BY <1>0, <1>2, <1>10
        <5> QED
          BY <5>1, SplitIs
      <4>2. bb(0).last # "cr"
        <5>1. bb(0) = b[Len(L)]
          BY <1>4
        <5>2. CASE Len(L) = 0
          BY <1>9, <5>1, <5>2 DEF Splits
        <5>3. CASE Len(L) # 0
          <6>1. Len(L) \in 1..Len(x) /\ x[Len(L)] = L[Len(L)] /\ L[Len(L)] # "cr"
            BY <1>0, <1>1, <1>4, <1>6, <5>3 DEF Plain
          <6> QED
            BY <1>6, <1>9, <5>1, <6>1, SplitTyped
        <5> QED
          BY <5>2, <5>3
      <4>3. v # <<>>
        BY <1>0
      <4> QED
        BY <3>2, <4>1, <4>2, <4>3
    <3> QED
      BY <3>1, <3>2
  <2>3. Continues(cc(k), a[Len(u)], bb(k))
    <3> HIDE DEF cc, bb
    <3>1. cc(k - 1) \in Splitters(C) /\ bb(k - 1) \in Splitters(C) /\ v[k] \in C
      BY <1>12, <1>15, <2>1
    <3>2. Continues(SplitChar(cc(k - 1), v[k]), a[Len(u)], SplitChar(bb(k - 1), v[k]))
      BY <1>13, <1>16, <2>2, <3>1, SplitCharContinues
    <3> QED
      BY <1>15, <3>2
  <2>4. cc(k).last = bb(k).last
    <3> HIDE DEF cc, bb
    <3>1. cc(k) = SplitChar(cc(k - 1), v[k]) /\ bb(k) = SplitChar(bb(k - 1), v[k])
      BY <1>15
    <3>2. \A l : SplitChar(l, v[k]).last = v[k]
      BY DEF SplitChar
    <3> QED
      BY <3>1, <3>2
  <2> HIDE DEF cc, bb
  <2> QED
    BY <2>3, <2>4
<1> HIDE DEF P
<1>17. P(Len(v))
  <2>1. 0 \in T /\ \A k \in 1..Len(v) : k - 1 \in T => k \in T
    BY <1>0, <1>14, <1>16
  <2> HIDE DEF T
  <2>2. 0..Len(v) \subseteq T
    BY <1>0, <2>1, CountUp
  <2>3. Len(v) \in T
    BY <1>0, <2>2
  <2> QED
    BY <2>3 DEF T
<1>18. Continues(Split(w), Split(u), Split(x))
  BY <1>2, <1>5, <1>6, <1>8, <1>9, <1>17 DEF P
<1> QED
  BY <1>18 DEF w, x, L

\* A text is what can be split now and what waits.
LEMMA WaitingIs ==
  ASSUME NEW C, NEW u \in Seq(C)
  PROVE  /\ Waiting(u) \in Seq(C) /\ Len(Waiting(u)) \in {0, 1} /\ Len(Waiting(u)) <= Len(u)
         /\ Waiting(u) = <<>> => Len(Waiting(u)) = 0 /\ (u = <<>> \/ u[Len(u)] # "cr")
         /\ Waiting(u) # <<>> => Waiting(u) = <<"cr">> /\ Waiting(u)[1] = "cr" /\ Len(Waiting(u)) = 1 /\ u # <<>>
            /\ u[Len(u)] = "cr"
         /\ SubSeq(u, 1, Len(u) - Len(Waiting(u))) \in Seq(C)
         /\ u = SubSeq(u, 1, Len(u) - Len(Waiting(u))) \o Waiting(u)
<1>0. Len(u) \in Nat /\ (u # <<>> => Len(u) \in 1..Len(u))
  OBVIOUS
<1>1. CASE u # <<>> /\ u[Len(u)] = "cr"
  <2>1. Waiting(u) = <<"cr">> /\ "cr" \in C
    BY <1>0, <1>1 DEF Waiting, Last
  <2>2. <<"cr">> \in Seq(C) /\ Len(<<"cr">>) = 1 /\ <<"cr">>[1] = "cr" /\ <<"cr">> # <<>>
    BY <2>1
  <2>3. SubSeq(u, 1, Len(u) - 1) \in Seq(C) /\ u = SubSeq(u, 1, Len(u) - 1) \o <<"cr">>
    BY <1>0, <1>1, <2>1
  <2> DEFINE W == Waiting(u)
  <2>4. W = <<"cr">> /\ W \in Seq(C) /\ Len(W) = 1 /\ W[1] = "cr" /\ W # <<>> /\ Len(W) \in {0, 1}
    BY <2>1, <2>2
  <2> HIDE DEF W
  <2>5. SubSeq(u, 1, Len(u) - Len(W)) \in Seq(C) /\ u = SubSeq(u, 1, Len(u) - Len(W)) \o W
    BY <2>3, <2>4
  <2>6. Len(W) <= Len(u)
    BY <1>0, <1>1, <2>4
  <2> QED
    BY <1>1, <2>4, <2>5, <2>6 DEF W
<1>2. CASE ~(u # <<>> /\ u[Len(u)] = "cr")
  <2>1. Waiting(u) = <<>>
    BY <1>2 DEF Waiting, Last
  <2>2. Len(<<>>) = 0 /\ <<>> \in Seq(C) /\ SubSeq(u, 1, Len(u) - 0) = u /\ u \o <<>> = u
    BY <1>0
  <2> QED
    BY <1>0, <1>2, <2>1, <2>2
<1> QED
  BY <1>1, <1>2

\* How much waits is decided by what comes last.
LEMMA WaitingConcat ==
  ASSUME NEW C, NEW a \in Seq(C), NEW x \in Seq(C), x # <<>>
  PROVE  Waiting(a \o x) = Waiting(x)
<1>1. /\ a \o x # <<>> /\ Len(a) \in Nat /\ Len(x) \in Nat \ {0} /\ Len(a \o x) = Len(a) + Len(x)
      /\ (a \o x)[Len(a) + Len(x)] = x[Len(x)]
  OBVIOUS
<1> QED
  BY <1>1 DEF Waiting, Last

LEMMA FirstOfConcat ==
  ASSUME NEW C, NEW s \in Seq(C), NEW t \in Seq(C), Len(s) = 1
  PROVE  (s \o t)[1] = s[1] /\ Len(s \o t) \in Nat
OBVIOUS

LEMMA CutConcat ==
  ASSUME NEW C, NEW a \in Seq(C), NEW x \in Seq(C), NEW n \in 0..Len(x)
  PROVE  Split(SubSeq(a \o x, 1, Len(a \o x) - n)) = Split(a \o SubSeq(x, 1, Len(x) - n))
<1>1. Len(a) \in Nat /\ Len(x) \in Nat /\ Len(a \o x) = Len(a) + Len(x) /\ a \o x \in Seq(C)
      /\ SubSeq(x, 1, Len(x) - n) \in Seq(C)
  OBVIOUS
<1> DEFINE s == SubSeq(a \o x, 1, Len(a \o x) - n)
           t == a \o SubSeq(x, 1, Len(x) - n)
<1>2. s \in Seq(C) /\ t \in Seq(C) /\ Len(s) = Len(a) + Len(x) - n /\ Len(t) = Len(a) + Len(x) - n
  <2>1. Len(a) + Len(x) - n \in 0..Len(a \o x) /\ Len(x) - n \in 0..Len(x) /\ Len(a \o x) - n = Len(a) + Len(x) - n
    BY <1>1
  <2>2. s \in Seq(C) /\ Len(s) = Len(a) + Len(x) - n
    <3> DEFINE w == a \o x
               k == Len(a) + Len(x) - n
    <3>1. w \in Seq(C) /\ k \in 0..Len(w) /\ s = SubSeq(w, 1, k)
      BY <1>1, <2>1
    <3> HIDE DEF w, k, s
    <3>2. s \in Seq(C) /\ Len(s) = k
      BY <3>1
    <3> QED
      BY <3>2 DEF k
  <2>3. SubSeq(x, 1, Len(x) - n) \in Seq(C) /\ Len(SubSeq(x, 1, Len(x) - n)) = Len(x) - n
    BY <1>1, <2>1
  <2>4. t \in Seq(C) /\ Len(t) = Len(a) + (Len(x) - n)
    <3> DEFINE q == SubSeq(x, 1, Len(x) - n)
    <3> HIDE DEF q
    <3>1. a \o q \in Seq(C) /\ Len(a \o q) = Len(a) + Len(q)
      BY <2>3 DEF q
    <3> QED
      BY <2>3, <3>1 DEF q
  <2> HIDE DEF s, t
  <2> QED
    BY <1>1, <2>2, <2>4
<1>3. \A i \in 1..Len(a) + Len(x) - n : s[i] = t[i]
  BY <1>1
<1> HIDE DEF s, t
<1>4. s = t
  BY <1>2, <1>3
<1> QED
  BY <1>4 DEF s, t

\* What Extracted does with the rest of a text and what comes then.
LEMMA ExtractedConcat ==
  ASSUME NEW C, NEW u \in Seq(C), NEW v \in Seq(C)
  PROVE  /\ Extracted(u).rest \in Seq(C) /\ Extracted(u).lines \in Seq(Seq(C))
         /\ Extracted(u \o v).lines = Extracted(u).lines \o Extracted(Extracted(u).rest \o v).lines
         /\ Extracted(u \o v).rest = Extracted(Extracted(u).rest \o v).rest
<1> DEFINE a == SubSeq(u, 1, Len(u) - Len(Waiting(u)))
           L == Split(a).line
           x == Waiting(u) \o v
<1>1. a \in Seq(C) /\ Waiting(u) \in Seq(C) /\ u = a \o Waiting(u) /\ x \in Seq(C)
  BY WaitingIs
<1>2. Split(a) \in Splitters(C) /\ L \in Seq(C) /\ Plain(L, Len(L)) /\ Split(a).done \in Seq(Seq(C))
  <2> HIDE DEF a
  <2> QED
    BY <1>1, SplitIs DEF Splitters
<1>3. Extracted(u).rest = L \o Waiting(u) /\ Extracted(u).lines = Split(a).done
  BY DEF Extracted
<1> HIDE DEF L, a
<1>4. u \o v = a \o x /\ Extracted(u).rest \o v = L \o x
  <2> DEFINE W == Waiting(u)
  <2>1. a \in Seq(C) /\ L \in Seq(C) /\ W \in Seq(C) /\ u = a \o W /\ Extracted(u).rest = L \o W
    BY <1>1, <1>2, <1>3
  <2> HIDE DEF W
  <2>2. (a \o W) \o v = a \o (W \o v) /\ (L \o W) \o v = L \o (W \o v)
    <3>1. PICK w : w = W /\ w \in Seq(C)
      BY <2>1
    <3>2. a \in Seq(C) /\ L \in Seq(C)
      BY <2>1
    <3>3. (a \o w) \o v = a \o (w \o v)
      BY <3>1, <3>2, ConcatAssociative, SMTT(20)
    <3>4. (L \o w) \o v = L \o (w \o v)
      BY <3>1, <3>2, ConcatAssociative, SMTT(20)
    <3> QED
      BY <3>1, <3>3, <3>4, Zenon
  <2> QED
    BY <2>1, <2>2 DEF W
<1>5. Waiting(a \o x) = Waiting(L \o x) /\ Len(Waiting(a \o x)) \in 0..Len(x)
  <2>1. CASE x # <<>>
    <3>1. Waiting(a \o x) = Waiting(x) /\ Waiting(L \o x) = Waiting(x)
      BY <1>1, <1>2, <2>1, WaitingConcat
    <3>2. Len(Waiting(x)) \in 0..Len(x)
      <4> HIDE DEF x
      <4>1. Len(x) \in Nat /\ Len(Waiting(x)) \in {0, 1} /\ Len(Waiting(x)) <= Len(x)
        BY <1>1, WaitingIs
      <4> QED
        BY <4>1
    <3> QED
      BY <3>1, <3>2
  <2>2. CASE x = <<>>
    <3>1. Waiting(u) = <<>>
      BY <1>1, <2>2
    <3>2. u = a /\ a \o x = a /\ L \o x = L
      BY <1>1, <1>2, <2>2, <3>1
    <3>3. Waiting(L) = <<>>
      BY <1>2 DEF Waiting, Last, Plain
    <3> QED
      BY <2>2, <3>1, <3>2, <3>3
  <2> QED
    BY <2>1, <2>2
<1> DEFINE n == Len(Waiting(a \o x))
           y == SubSeq(x, 1, Len(x) - n)
<1>6. y \in Seq(C)
  BY <1>1, <1>5
<1>7. /\ Split(SubSeq(a \o x, 1, Len(a \o x) - n)) = Split(a \o y)
      /\ Split(SubSeq(L \o x, 1, Len(L \o x) - n)) = Split(L \o y)
  <2> HIDE DEF x, n
  <2>1. n \in 0..Len(x)
    BY <1>5 DEF n
  <2> QED
    BY <1>1, <1>2, <2>1, CutConcat
<1>8. y = <<>> \/ y[1] # "lf" \/ a = <<>> \/ a[Len(a)] # "cr"
  <2>1. CASE Waiting(u) = <<>>
    <3>1. u = a
      BY <1>1, <2>1
    <3> QED
      BY <2>1, <3>1, WaitingIs
  <2>2. CASE Waiting(u) # <<>>
    <3>1. Waiting(u)[1] = "cr" /\ Len(Waiting(u)) = 1
      BY <2>2, WaitingIs
    <3>2. x[1] = "cr" /\ Len(x) \in Nat
      <4> DEFINE W == Waiting(u)
      <4>1. W \in Seq(C) /\ Len(W) = 1 /\ W[1] = "cr" /\ x = W \o v
        BY <1>1, <3>1
      <4> HIDE DEF W, x
      <4> QED
        BY <4>1, FirstOfConcat
    <3>3. y # <<>> => y[1] = x[1]
      BY <1>1, <1>5, <3>2
    <3> QED
      BY <3>2, <3>3
  <2> QED
    BY <2>1, <2>2
<1> HIDE DEF y, x
<1>9. Continues(Split(a \o y), Split(a), Split(L \o y))
  BY <1>1, <1>6, <1>8, SplitConcat DEF L
<1>10. /\ Extracted(a \o x).lines = Split(a \o y).done /\ Extracted(a \o x).rest = Split(a \o y).line \o Waiting(a \o x)
       /\ Extracted(L \o x).lines = Split(L \o y).done /\ Extracted(L \o x).rest = Split(L \o y).line \o Waiting(L \o x)
  BY <1>5, <1>7 DEF Extracted
<1>11. /\ Extracted(a \o x).lines = Split(a).done \o Extracted(L \o x).lines
       /\ Extracted(a \o x).rest = Extracted(L \o x).rest
  BY <1>5, <1>9, <1>10 DEF Continues
<1>12. Extracted(u).rest \in Seq(C)
  BY <1>1, <1>2, <1>3
<1> QED
  BY <1>2, <1>3, <1>4, <1>11, <1>12

-----------------------------------------------------------------------------
(* Events in two parts *)

Payloads(C) == {FlattenSeq(data) : data \in Seq(Seq(C))}
Handlers(C) == [events : Seq(Payloads(C)), data : Seq(Seq(C)), ok : BOOLEAN]

LEMMA ProcessLineTyped ==
  ASSUME NEW C, NEW h \in Handlers(C), NEW line \in Seq(C)
  PROVE  ProcessLine(h, line) \in Handlers(C)
<1> DEFINE r == ProcessLine(h, line)
           data == Append(h.data, Tail(line))
<1>1. /\ h.events \in Seq(Payloads(C)) /\ h.data \in Seq(Seq(C)) /\ h.ok \in BOOLEAN
      /\ FlattenSeq(h.data) \in Payloads(C)
  BY DEF Handlers, Payloads
<1>2. CASE line = <<>>
  <2>1. r = [events |-> IF h.data = <<>> THEN h.events ELSE Append(h.events, FlattenSeq(h.data)), data |-> <<>>, ok |-> h.ok]
    BY <1>2 DEF ProcessLine
  <2>2. Append(h.events, FlattenSeq(h.data)) \in Seq(Payloads(C))
    BY <1>1
  <2> HIDE DEF r
  <2> QED
    BY <1>1, <2>1, <2>2 DEF Handlers, r
<1>3. CASE line # <<>> /\ line[1] # "data:"
  BY <1>3 DEF ProcessLine
<1>4. CASE line # <<>> /\ line[1] = "data:"
  <2>1. Tail(line) \in Seq(C)
    BY <1>4
  <2>2. data \in Seq(Seq(C))
    <3> DEFINE S == Seq(C)
    <3>1. h.data \in Seq(S) /\ Tail(line) \in S
      BY <1>1, <2>1
    <3> HIDE DEF S
    <3>2. data \in Seq(S)
      BY <3>1
    <3> QED
      BY <3>2 DEF S
  <2> DEFINE ok == IF Len(FlattenSeq(data)) <= MaxEvent THEN h.ok ELSE FALSE
  <2>3. r = [events |-> h.events, data |-> data, ok |-> ok]
    BY <1>4 DEF ProcessLine
  <2>4. ok \in BOOLEAN
    BY <1>1
  <2> HIDE DEF r, data, ok
  <2>5. r \in Handlers(C)
    BY <1>1, <2>2, <2>3, <2>4 DEF Handlers
  <2> QED
    BY <2>5 DEF r
<1> QED
  BY <1>2, <1>3, <1>4

LEMMA ProcessTyped ==
  ASSUME NEW C, NEW s \in Seq(Seq(C)), NEW data \in Seq(Seq(C)), NEW r, Processes(r, data, s)
  PROVE  \A i \in 0..Len(s) : r[i] \in Handlers(C)
<1> DEFINE T == {k \in 0..Len(s) : r[k] \in Handlers(C)}
<1>0. Len(s) \in Nat
  OBVIOUS
<1>1. 0 \in T
  <2>1. r[0] = [events |-> <<>>, data |-> data, ok |-> TRUE]
    BY DEF Processes
  <2>2. r[0] \in Handlers(C)
    BY <2>1 DEF Handlers
  <2> QED
    BY <1>0, <2>2
<1>2. ASSUME NEW k \in 1..Len(s), k - 1 \in T PROVE k \in T
  <2>1. r[k] = ProcessLine(r[k - 1], s[k]) /\ r[k - 1] \in Handlers(C)
    BY <1>2 DEF Processes
  <2>2. s[k] \in Seq(C)
    OBVIOUS
  <2> QED
    BY <2>1, <2>2, ProcessLineTyped
<1> HIDE DEF T
<1>3. 0..Len(s) \subseteq T
  BY <1>0, <1>1, <1>2, CountUp
<1> QED
  BY <1>3 DEF T

LEMMA ProcessedTyped ==
  ASSUME NEW C, NEW s \in Seq(Seq(C)), NEW data \in Seq(Seq(C))
  PROVE  Processed(data, s) \in Handlers(C)
<1>0. Len(s) \in Nat /\ Len(s) \in 0..Len(s)
  OBVIOUS
<1>1. PICK r : Processes(r, data, s) /\ Processed(data, s) = r[Len(s)]
  BY <1>0, ProcessRun
<1> QED
  BY <1>0, <1>1, ProcessTyped

\* What processing the lines a and then b comes to.
HeardBoth(a, b) == [events |-> a.events \o b.events, data |-> b.data, ok |-> IF a.ok THEN b.ok ELSE FALSE]

LEMMA ProcessLineBoth ==
  ASSUME NEW C, NEW a \in Handlers(C), NEW b \in Handlers(C), NEW x \in Seq(C)
  PROVE  ProcessLine(HeardBoth(a, b), x) = HeardBoth(a, ProcessLine(b, x))
<1> DEFINE P == Payloads(C)
           e == FlattenSeq(b.data)
           c == HeardBoth(a, b)
           data == Append(b.data, Tail(x))
           both == IF a.ok THEN b.ok ELSE FALSE
           before == a.events \o b.events
<1>1. a.events \in Seq(P) /\ b.events \in Seq(P) /\ e \in P
  BY DEF Handlers, Payloads
<1>2. Append(a.events \o b.events, e) = a.events \o Append(b.events, e)
  <2> HIDE DEF P, e
  <2>1. \A s, t \in Seq(P), y \in P : Append(s \o t, y) = s \o Append(t, y)
    BY SMTT(20)
  <2> QED
    BY <1>1, <2>1, Zenon
<1>3. c.events = before /\ c.data = b.data /\ c.ok = both
  <2>1. c = [events |-> before, data |-> b.data, ok |-> both]
    BY DEF HeardBoth
  <2> HIDE DEF c, before, both
  <2>2. c.events = before
    BY <2>1
  <2>3. c.data = b.data
    BY <2>1
  <2>4. c.ok = both
    BY <2>1, Zenon
  <2> QED
    BY <2>2, <2>3, <2>4
<1>4. CASE x = <<>>
  <2> DEFINE es == IF b.data = <<>> THEN b.events ELSE Append(b.events, e)
             d == ProcessLine(b, x)
             r == [events |-> IF b.data = <<>> THEN before ELSE Append(before, e), data |-> <<>>, ok |-> both]
  <2>1. d = [events |-> es, data |-> <<>>, ok |-> b.ok]
    BY <1>4 DEF ProcessLine
  <2>2. ProcessLine(c, x) = r
    <3>1. ProcessLine(c, x) = [events |-> IF c.data = <<>> THEN c.events ELSE Append(c.events, FlattenSeq(c.data)),
                               data |-> <<>>, ok |-> c.ok]
      BY <1>4 DEF ProcessLine
    <3> HIDE DEF c, before, both
    <3> QED
      BY <1>3, <3>1, Zenon
  <2>3. (IF b.data = <<>> THEN before ELSE Append(before, e)) = a.events \o es
    BY <1>2
  <2>4. d.events = es /\ d.data = <<>> /\ d.ok = b.ok
    <3> HIDE DEF d, es
    <3>1. d.events = es /\ d.data = <<>>
      BY <2>1
    <3>2. d.ok = b.ok
      BY <2>1, Zenon
    <3> QED
      BY <3>1, <3>2
  <2>5. HeardBoth(a, d) = [events |-> a.events \o es, data |-> <<>>, ok |-> both]
    <3>1. HeardBoth(a, d) = [events |-> a.events \o d.events, data |-> d.data, ok |-> IF a.ok THEN d.ok ELSE FALSE]
      BY DEF HeardBoth
    <3> HIDE DEF d, es
    <3> QED
      BY <2>4, <3>1, Zenon
  <2> HIDE DEF c, es, before, both, d
  <2>6. r = HeardBoth(a, d)
    BY <2>3, <2>5, Zenon
  <2> HIDE DEF r
  <2> QED
    BY <2>2, <2>6 DEF c, d
<1>5. CASE x # <<>> /\ x[1] # "data:"
  BY <1>5 DEF ProcessLine
<1>6. CASE x # <<>> /\ x[1] = "data:"
  <2> DEFINE fits == Len(FlattenSeq(data)) <= MaxEvent
             ok == IF fits THEN b.ok ELSE FALSE
             d == ProcessLine(b, x)
             ok1 == IF fits THEN both ELSE FALSE
             ok2 == IF a.ok THEN ok ELSE FALSE
  <2>1. d = [events |-> b.events, data |-> data, ok |-> ok]
    BY <1>6 DEF ProcessLine
  <2>2. ProcessLine(c, x) = [events |-> c.events, data |-> Append(c.data, Tail(x)),
                             ok |-> IF Len(FlattenSeq(Append(c.data, Tail(x)))) <= MaxEvent THEN c.ok ELSE FALSE]
    BY <1>6 DEF ProcessLine
  <2>3. ProcessLine(c, x) = [events |-> before, data |-> data, ok |-> ok1]
    <3> HIDE DEF c, before, both
    <3> QED
      BY <1>3, <2>2, Zenon
  <2>4. d.events = b.events /\ d.data = data /\ d.ok = ok
    <3> HIDE DEF d, data, ok
    <3>1. d.events = b.events /\ d.data = data
      BY <2>1
    <3>2. d.ok = ok
      BY <2>1, Zenon
    <3> QED
      BY <3>1, <3>2
  <2>5. HeardBoth(a, d) = [events |-> before, data |-> data, ok |-> ok2]
    <3>1. HeardBoth(a, d) = [events |-> a.events \o d.events, data |-> d.data, ok |-> IF a.ok THEN d.ok ELSE FALSE]
      BY DEF HeardBoth
    <3> HIDE DEF d, ok, data
    <3> QED
      BY <2>4, <3>1, Zenon
  <2>6. ok1 = ok2
    <3> HIDE DEF fits
    <3> QED
      OBVIOUS
  <2> HIDE DEF c, before, both, fits, ok, d, data, ok1, ok2
  <2>7. ProcessLine(c, x) = HeardBoth(a, d)
    BY <2>3, <2>5, <2>6, Zenon
  <2> QED
    BY <2>7 DEF c, d
<1> QED
  BY <1>4, <1>5, <1>6

LEMMA HeardBothStart ==
  ASSUME NEW C, NEW a \in Handlers(C)
  PROVE  HeardBoth(a, [events |-> <<>>, data |-> a.data, ok |-> TRUE]) = a
<1> DEFINE b == [events |-> <<>>, data |-> a.data, ok |-> TRUE]
<1>1. a.events \o <<>> = a.events
  BY DEF Handlers
<1>2. a = [events |-> a.events, data |-> a.data, ok |-> a.ok] /\ a.ok \in BOOLEAN
  BY DEF Handlers
<1>3. a.ok = IF a.ok THEN TRUE ELSE FALSE
  BY <1>2
<1>4. HeardBoth(a, b) = [events |-> a.events \o <<>>, data |-> a.data, ok |-> IF a.ok THEN TRUE ELSE FALSE]
  BY DEF HeardBoth
<1> QED
  BY <1>1, <1>2, <1>3, <1>4, Zenon

LEMMA ProcessedConcat ==
  ASSUME NEW C, NEW u \in Seq(Seq(C)), NEW v \in Seq(Seq(C)), NEW data \in Seq(Seq(C))
  PROVE  Processed(data, u \o v) = HeardBoth(Processed(data, u), Processed(Processed(data, u).data, v))
<1> DEFINE w == u \o v
           mid == Processed(data, u).data
<1>0. Len(u) \in Nat /\ Len(v) \in Nat /\ Len(u) \in 0..Len(u)
  OBVIOUS
<1>1. PICK a : Processes(a, data, u) /\ Processed(data, u) = a[Len(u)]
  BY <1>0, ProcessRun
<1>2. PICK b : Processes(b, mid, v) /\ Processed(mid, v) = b[Len(v)]
  <2> HIDE DEF mid
  <2> QED
    BY <1>0, ProcessRun
<1>3. /\ w \in Seq(Seq(C)) /\ Len(w) = Len(u) + Len(v)
      /\ \A i \in 1..Len(u) : w[i] = u[i]
      /\ \A i \in 1..Len(v) : w[Len(u) + i] = v[i]
  OBVIOUS
<1> HIDE DEF w
<1>l. Len(w) \in Nat
  BY <1>0, <1>3
<1>4. PICK c : Processes(c, data, w) /\ Processed(data, w) = c[Len(w)]
  BY <1>l, ProcessRun
<1>5. c[Len(u)] = a[Len(u)]
  <2> DEFINE T == {k \in 0..Len(u) : c[k] = a[k]}
  <2>1. 0 \in T
    BY <1>0, <1>1, <1>4 DEF Processes
  <2>2. ASSUME NEW k \in 1..Len(u), k - 1 \in T PROVE k \in T
    <3>1. k \in 1..Len(w) /\ w[k] = u[k] /\ c[k - 1] = a[k - 1]
      BY <1>0, <1>3, <2>2
    <3> QED
      BY <1>1, <1>4, <3>1 DEF Processes
  <2> HIDE DEF T
  <2>3. 0..Len(u) \subseteq T
    BY <1>0, <2>1, <2>2, CountUp
  <2> QED
    BY <1>0, <2>3 DEF T
<1>6. mid = a[Len(u)].data /\ a[Len(u)] \in Handlers(C)
  BY <1>0, <1>1, ProcessTyped
<1> HIDE DEF mid
<1>m. mid \in Seq(Seq(C))
  BY <1>6 DEF Handlers
<1>7. \A i \in 0..Len(v) : b[i] \in Handlers(C)
  BY <1>2, <1>m, ProcessTyped
<1> DEFINE T == {k \in 0..Len(v) : c[Len(u) + k] = HeardBoth(a[Len(u)], b[k])}
<1>8. 0 \in T
  <2>1. b[0] = [events |-> <<>>, data |-> mid, ok |-> TRUE] /\ Len(u) + 0 = Len(u)
    BY <1>0, <1>2 DEF Processes
  <2>3. a[Len(u)] = HeardBoth(a[Len(u)], b[0])
    BY <1>6, <2>1, HeardBothStart
  <2> QED
    BY <1>0, <1>5, <2>1, <2>3
<1>9. ASSUME NEW k \in 1..Len(v), k - 1 \in T PROVE k \in T
  <2>1. b[k] = ProcessLine(b[k - 1], v[k]) /\ c[Len(u) + (k - 1)] = HeardBoth(a[Len(u)], b[k - 1])
    BY <1>2, <1>9 DEF Processes
  <2>2. c[Len(u) + k] = ProcessLine(c[Len(u) + (k - 1)], v[k])
    <3>1. Len(u) + k \in 1..Len(w) /\ (Len(u) + k) - 1 = Len(u) + (k - 1) /\ w[Len(u) + k] = v[k]
      BY <1>0, <1>3
    <3> QED
      BY <1>4, <3>1 DEF Processes
  <2>3. b[k - 1] \in Handlers(C) /\ v[k] \in Seq(C)
    <3>1. v[k] \in Seq(C) /\ k - 1 \in 0..Len(v)
      BY <1>0
    <3> QED
      BY <1>7, <3>1
  <2>4. c[Len(u) + k] = HeardBoth(a[Len(u)], b[k])
    BY <1>6, <2>1, <2>2, <2>3, ProcessLineBoth
  <2> QED
    BY <2>4
<1> HIDE DEF T
<1>10. Len(v) \in T
  <2>1. 0..Len(v) \subseteq T
    BY <1>0, <1>8, <1>9, CountUp
  <2> QED
    BY <1>0, <2>1
<1>11. c[Len(u) + Len(v)] = HeardBoth(a[Len(u)], b[Len(v)])
  BY <1>10 DEF T
<1>12. Processed(data, w) = HeardBoth(Processed(data, u), Processed(mid, v))
  BY <1>1, <1>2, <1>3, <1>4, <1>11
<1> QED
  BY <1>12 DEF w, mid
-----------------------------------------------------------------------------
(* A reply in two reads *)

LEMMA ParsedTyped ==
  ASSUME NEW C, NEW u \in Seq(Bytes(C))
  PROVE  /\ Parsed(u).parser.buffer \in Seq(C) /\ Parsed(u).parser.data \in Seq(Seq(C))
         /\ Parsed(u).events \in Seq(Payloads(C)) /\ Parsed(u).ok \in BOOLEAN
<1> DEFINE d == Decoded(None, u)
           cut == Extracted(d.text)
           heard == Processed(<<>>, cut.lines)
<1>1. d.text \in Seq(C)
  BY DecodedTyped DEF Decoders
<1>2. cut.rest \in Seq(C) /\ cut.lines \in Seq(Seq(C))
  <2> HIDE DEF d
  <2> QED
    BY <1>1, ExtractedConcat
<1>3. heard \in Handlers(C)
  <2> HIDE DEF cut
  <2>1. <<>> \in Seq(Seq(C))
    OBVIOUS
  <2> QED
    BY <1>2, <2>1, ProcessedTyped
<1>4. Parsed(u) = [parser |-> [pend |-> d.pend, buffer |-> cut.rest, data |-> heard.data], events |-> heard.events,
                   ok |-> d.ok /\ heard.ok]
  BY DEF Parsed
<1> HIDE DEF d, cut, heard
<1>5. Parsed(u).parser.buffer = cut.rest /\ Parsed(u).parser.data = heard.data /\ Parsed(u).events = heard.events
  BY <1>4
<1>6. Parsed(u).ok \in BOOLEAN
  BY <1>4
<1> QED
  BY <1>2, <1>3, <1>5, <1>6 DEF Handlers

LEMMA FeedContinues ==
  ASSUME NEW C, NEW u \in Seq(Bytes(C)), NEW v \in Seq(Bytes(C))
  PROVE  LET was   == Parsed(u)
             d     == Decoded(was.parser.pend, v)
             cut   == Extracted(was.parser.buffer \o d.text)
             heard == Processed(was.parser.data, cut.lines)
         IN  /\ Parsed(u \o v).parser = [pend |-> d.pend, buffer |-> cut.rest, data |-> heard.data]
             /\ Parsed(u \o v).events = was.events \o heard.events
             /\ Parsed(u \o v).ok <=> was.ok /\ d.ok /\ heard.ok
<1> DEFINE d0 == Decoded(None, u)
           cut0 == Extracted(d0.text)
           heard0 == Processed(<<>>, cut0.lines)
           d1 == Decoded(d0.pend, v)
           cut1 == Extracted(cut0.rest \o d1.text)
           heard1 == Processed(heard0.data, cut1.lines)
           d2 == Decoded(None, u \o v)
           cut2 == Extracted(d2.text)
           heard2 == Processed(<<>>, cut2.lines)
           was == Parsed(u)
           now == Parsed(u \o v)
<1>0. d0 \in Decoders(C, None) /\ d1 \in Decoders(C, d0.pend)
  BY DecodedTyped
<1>1. d2 = [text |-> d0.text \o d1.text, pend |-> d1.pend, ok |-> IF d0.ok THEN d1.ok ELSE FALSE]
  BY DecodedConcat DEF DecodedBoth
<1>2. was = [parser |-> [pend |-> d0.pend, buffer |-> cut0.rest, data |-> heard0.data], events |-> heard0.events,
             ok |-> d0.ok /\ heard0.ok]
  BY DEF Parsed
<1>3. now = [parser |-> [pend |-> d2.pend, buffer |-> cut2.rest, data |-> heard2.data], events |-> heard2.events,
             ok |-> d2.ok /\ heard2.ok]
  BY DEF Parsed
<1>4. d0.text \in Seq(C) /\ d1.text \in Seq(C) /\ d0.ok \in BOOLEAN /\ d1.ok \in BOOLEAN
  BY <1>0 DEF Decoders
<1>5. d2.text = d0.text \o d1.text /\ d2.pend = d1.pend /\ (d2.ok <=> d0.ok /\ d1.ok)
  <2> HIDE DEF d0, d1, d2
  <2>1. d2.text = d0.text \o d1.text /\ d2.pend = d1.pend
    BY <1>1
  <2>2. d2.ok = IF d0.ok THEN d1.ok ELSE FALSE
    BY <1>1, Zenon
  <2> QED
    BY <1>4, <2>1, <2>2
<1>6. /\ cut0.rest \in Seq(C) /\ cut0.lines \in Seq(Seq(C)) /\ cut1.lines \in Seq(Seq(C))
      /\ cut2.lines = cut0.lines \o cut1.lines /\ cut2.rest = cut1.rest
  <2> DEFINE a == d0.text
             b == d1.text
  <2>1. /\ Extracted(a).rest \in Seq(C) /\ Extracted(a).lines \in Seq(Seq(C))
        /\ Extracted(a \o b).lines = Extracted(a).lines \o Extracted(Extracted(a).rest \o b).lines
        /\ Extracted(a \o b).rest = Extracted(Extracted(a).rest \o b).rest
    <3> HIDE DEF a, b
    <3>1. a \in Seq(C) /\ b \in Seq(C)
      BY <1>4 DEF a, b
    <3> QED
      BY <3>1, ExtractedConcat
  <2>2. Extracted(Extracted(a).rest \o b).lines \in Seq(Seq(C))
    <3> HIDE DEF a, b
    <3>1. Extracted(a).rest \o b \in Seq(C)
      BY <1>4, <2>1 DEF a, b
    <3> QED
      BY <3>1, ExtractedConcat
  <2>3. cut2 = Extracted(a \o b)
    BY <1>5
  <2> QED
    BY <2>1, <2>2, <2>3
<1>7. heard2 = [events |-> heard0.events \o heard1.events, data |-> heard1.data, ok |-> IF heard0.ok THEN heard1.ok ELSE FALSE]
  <2> HIDE DEF cut0, cut1, cut2
  <2>1. <<>> \in Seq(Seq(C))
    OBVIOUS
  <2>2. Processed(<<>>, cut0.lines \o cut1.lines) = HeardBoth(heard0, heard1)
    BY <1>6, <2>1, ProcessedConcat
  <2> QED
    BY <1>6, <2>2 DEF HeardBoth
<1>8. heard0 \in Handlers(C) /\ heard1 \in Handlers(C)
  <2> HIDE DEF cut0, cut1
  <2>1. <<>> \in Seq(Seq(C))
    OBVIOUS
  <2>2. heard0 \in Handlers(C)
    BY <1>6, <2>1, ProcessedTyped
  <2>3. heard0.data \in Seq(Seq(C))
    BY <2>2 DEF Handlers
  <2> HIDE DEF heard0
  <2>4. heard1 \in Handlers(C)
    BY <1>6, <2>3, ProcessedTyped
  <2> QED
    BY <2>2, <2>4
<1> HIDE DEF d0, d1, d2, cut0, cut1, cut2, heard0, heard1, heard2, was, now
<1>9. heard2.events = heard0.events \o heard1.events /\ heard2.data = heard1.data /\ (heard2.ok <=> heard0.ok /\ heard1.ok)
  <2>1. heard2.events = heard0.events \o heard1.events /\ heard2.data = heard1.data
    BY <1>7
  <2>2. heard2.ok = IF heard0.ok THEN heard1.ok ELSE FALSE
    BY <1>7, Zenon
  <2>3. heard0.ok \in BOOLEAN /\ heard1.ok \in BOOLEAN
    BY <1>8 DEF Handlers
  <2> QED
    BY <2>1, <2>2, <2>3
<1>10. was.parser.pend = d0.pend /\ was.parser.buffer = cut0.rest /\ was.parser.data = heard0.data
       /\ was.events = heard0.events /\ (was.ok <=> d0.ok /\ heard0.ok)
  BY <1>2
<1>11. now.parser = [pend |-> d1.pend, buffer |-> cut1.rest, data |-> heard1.data] /\ now.events = was.events \o heard1.events
  BY <1>3, <1>5, <1>6, <1>9, <1>10
<1>12. now.ok <=> was.ok /\ d1.ok /\ heard1.ok
  <2>1. now.ok <=> d2.ok /\ heard2.ok
    BY <1>3
  <2> QED
    BY <1>5, <1>9, <1>10, <2>1
<1>13. Decoded(was.parser.pend, v) = d1
  BY <1>10 DEF d1
<1>14. Extracted(was.parser.buffer \o d1.text) = cut1
  BY <1>10 DEF cut1
<1>15. Processed(was.parser.data, cut1.lines) = heard1
  BY <1>10 DEF heard1
<1>16. /\ now.parser = [pend |-> d1.pend, buffer |-> Extracted(was.parser.buffer \o d1.text).rest,
                        data |-> Processed(was.parser.data, Extracted(was.parser.buffer \o d1.text).lines).data]
       /\ now.events = was.events \o Processed(was.parser.data, Extracted(was.parser.buffer \o d1.text).lines).events
       /\ now.ok <=> was.ok /\ d1.ok /\ Processed(was.parser.data, Extracted(was.parser.buffer \o d1.text).lines).ok
  BY <1>11, <1>12, <1>14, <1>15
<1> QED
  BY <1>13, <1>16 DEF was, now

\* A parser that was given nothing is a new one.
LEMMA ParsedNothing ==
  Parsed(<<>>).parser = Fresh /\ Parsed(<<>>).events = <<>> /\ Parsed(<<>>).ok
<1>0. <<>> \in Seq({"lf"}) /\ Len(<<>>) = 0
  OBVIOUS
<1>1. Decoded(None, <<>>) = [text |-> <<>>, pend |-> None, ok |-> TRUE]
  <2>1. PICK r : Decodes(r, None, <<>>) /\ Decoded(None, <<>>) = r[Len(<<>>)]
    BY <1>0, DecodeRun
  <2> QED
    BY <1>0, <2>1 DEF Decodes
<1>2. Split(<<>>) = [done |-> <<>>, line |-> <<>>, last |-> "lf"]
  <2>1. PICK r : Splits(r, <<>>) /\ Split(<<>>) = r[Len(<<>>)]
    BY <1>0, SplitRun
  <2> QED
    BY <1>0, <2>1 DEF Splits
<1>3. Processed(<<>>, <<>>) = [events |-> <<>>, data |-> <<>>, ok |-> TRUE]
  <2>1. PICK r : Processes(r, <<>>, <<>>) /\ Processed(<<>>, <<>>) = r[Len(<<>>)]
    BY <1>0, ProcessRun
  <2> QED
    BY <1>0, <2>1 DEF Processes
<1>4. Waiting(<<>>) = <<>>
  BY DEF Waiting
<1>5. Extracted(<<>>).lines = <<>> /\ Extracted(<<>>).rest = <<>>
  <2>1. SubSeq(<<>>, 1, Len(<<>>) - Len(<<>>)) = <<>> /\ <<>> \o <<>> = <<>>
    OBVIOUS
  <2>2. Split(SubSeq(<<>>, 1, Len(<<>>) - Len(Waiting(<<>>)))) = [done |-> <<>>, line |-> <<>>, last |-> "lf"]
    BY <1>2, <1>4, <2>1, Zenon
  <2> DEFINE cut == Split(SubSeq(<<>>, 1, Len(<<>>) - Len(Waiting(<<>>))))
  <2>3. Extracted(<<>>).lines = cut.done /\ Extracted(<<>>).rest = cut.line \o Waiting(<<>>)
    BY DEF Extracted
  <2> HIDE DEF cut
  <2>4. cut.done = <<>> /\ cut.line = <<>>
    BY <2>2 DEF cut
  <2> QED
    BY <1>4, <2>1, <2>3, <2>4, Zenon
<1>6. Decoded(None, <<>>).text = <<>> /\ Decoded(None, <<>>).pend = None /\ Decoded(None, <<>>).ok
  BY <1>1
<1>7. Processed(<<>>, <<>>).events = <<>> /\ Processed(<<>>, <<>>).data = <<>> /\ Processed(<<>>, <<>>).ok
  BY <1>3
<1> QED
  BY <1>5, <1>6, <1>7 DEF Parsed, Fresh

-----------------------------------------------------------------------------
(* What the payloads say together *)

Gathers(r, payloads, k) ==
  /\ r[0] = [text |-> <<>>, acc |-> <<>>]
  /\ \A i \in 1..k : r[i] = Gather(r[i - 1], payloads[i])

LEMMA GatherRun ==
  ASSUME NEW payloads, NEW n \in Nat
  PROVE  \E r : Gathers(r, payloads, n) /\ Gathered(payloads, n) = r[n]
<1> DEFINE start == [text |-> <<>>, acc |-> <<>>]
           Loop(r, k) == r = [i \in 0..k |-> IF i = 0 THEN start ELSE Gather(r[i - 1], payloads[i])]
           T == {k \in 0..n : \E r : Loop(r, k)}
           r0 == CHOOSE r : Loop(r, n)
<1>1. 0 \in T
  <2> DEFINE h == [i \in 0..0 |-> start]
  <2>1. Loop(h, 0) /\ 0 \in 0..n
    OBVIOUS
  <2> HIDE DEF h, Loop
  <2> QED
    BY <2>1
<1>2. ASSUME NEW k \in 1..n, k - 1 \in T PROVE k \in T
  <2>1. PICK g : Loop(g, k - 1)
    BY <1>2
  <2> DEFINE h == [i \in 0..k |-> IF i = k THEN Gather(g[k - 1], payloads[k]) ELSE g[i]]
  <2> HIDE DEF start
  <2>2. \A i \in 0..k : h[i] = IF i = 0 THEN start ELSE Gather(h[i - 1], payloads[i])
    <3> SUFFICES ASSUME NEW i \in 0..k PROVE h[i] = IF i = 0 THEN start ELSE Gather(h[i - 1], payloads[i])
      OBVIOUS
    <3>1. CASE i = k
      <4>1. h[k] = Gather(g[k - 1], payloads[k]) /\ h[k - 1] = g[k - 1] /\ k # 0
        BY <1>2
      <4> QED
        BY <3>1, <4>1
    <3>2. CASE i # k
      <4>1. i \in 0..(k - 1) /\ h[i] = g[i] /\ (i # 0 => h[i - 1] = g[i - 1])
        BY <3>2
      <4>2. g[i] = IF i = 0 THEN start ELSE Gather(g[i - 1], payloads[i])
        BY <2>1, <4>1
      <4> QED
        BY <4>1, <4>2
    <3> QED
      BY <3>1, <3>2
  <2>3. Loop(h, k)
    <3>1. h = [i \in 0..k |-> h[i]]
      OBVIOUS
    <3> HIDE DEF h
    <3> QED
      BY <2>2, <3>1
  <2> HIDE DEF h, Loop
  <2> QED
    BY <2>3
<1>3. n \in T
  <2> HIDE DEF T
  <2>1. 0..n \subseteq T
    BY <1>1, <1>2, CountUp
  <2> QED
    BY <2>1
<1>4. Loop(r0, n)
  <2> HIDE DEF Loop
  <2> QED
    BY <1>3
<1>5. r0[0] = start /\ \A i \in 1..n : r0[i] = Gather(r0[i - 1], payloads[i])
  <2> HIDE DEF r0, start
  <2> QED
    BY <1>4
<1>6. Gathered(payloads, n) = r0[n]
  BY DEF Gathered
<1> HIDE DEF r0
<1> QED
  BY <1>5, <1>6 DEF Gathers

LEMMA GatheredSame ==
  ASSUME NEW p, NEW q, NEW n \in Nat, NEW k \in 0..n, \A i \in 1..k : p[i] = q[i],
         NEW r, Gathers(r, p, n)
  PROVE  Gathered(q, k) = r[k]
<1>1. PICK s : Gathers(s, q, k) /\ Gathered(q, k) = s[k]
  BY GatherRun
<1> DEFINE T == {j \in 0..k : r[j] = s[j]}
<1>2. 0 \in T
  BY <1>1 DEF Gathers
<1>3. ASSUME NEW j \in 1..k, j - 1 \in T PROVE j \in T
  <2>1. r[j - 1] = s[j - 1] /\ j \in 1..n
    BY <1>3
  <2> QED
    BY <1>1, <2>1 DEF Gathers
<1> HIDE DEF T
<1>4. 0..k \subseteq T
  BY <1>2, <1>3, CountUp
<1> QED
  BY <1>1, <1>4 DEF T

\* What was gathered does not depend on what follows.
LEMMA GatheredPrefix ==
  ASSUME NEW p, NEW q, NEW k \in Nat, \A i \in 1..k : p[i] = q[i]
  PROVE  Gathered(q, k) = Gathered(p, k)
<1>1. PICK r : Gathers(r, p, k) /\ Gathered(p, k) = r[k]
  BY GatherRun
<1>2. Gathered(q, k) = r[k]
  BY <1>1, GatheredSame
<1> QED
  BY <1>1, <1>2

LEMMA GatheredNext ==
  ASSUME NEW p, NEW k \in Nat
  PROVE  Gathered(p, k + 1) = Gather(Gathered(p, k), p[k + 1])
<1>1. PICK r : Gathers(r, p, k + 1) /\ Gathered(p, k + 1) = r[k + 1]
  BY GatherRun
<1>2. Gathered(p, k) = r[k]
  <2>1. k + 1 \in Nat /\ k \in 0..(k + 1) /\ \A i \in 1..k : p[i] = p[i]
    OBVIOUS
  <2> QED
    BY <1>1, <2>1, GatheredSame
<1>3. r[k + 1] = Gather(r[k], p[k + 1])
  <2>1. k + 1 \in 1..(k + 1) /\ (k + 1) - 1 = k
    OBVIOUS
  <2> QED
    BY <1>1, <2>1 DEF Gathers
<1> QED
  BY <1>1, <1>2, <1>3

LEMMA GatheredNone ==
  ASSUME NEW p
  PROVE  Gathered(p, 0) = [text |-> <<>>, acc |-> <<>>]
<1>1. PICK r : Gathers(r, p, 0) /\ Gathered(p, 0) = r[0]
  BY GatherRun
<1> QED
  BY <1>1 DEF Gathers

-----------------------------------------------------------------------------
(* The first bytes of a reply *)

Wired(reply, C) == reply.wire \in Seq(Bytes(C))

LEMMA PartTyped ==
  ASSUME NEW C, NEW reply, Wired(reply, C), NEW n \in 0..Len(reply.wire)
  PROVE  /\ SubSeq(reply.wire, 1, n) \in Seq(Bytes(C)) /\ Len(reply.wire) \in Nat
         /\ Part(reply, n).parser.buffer \in Seq(C) /\ Part(reply, n).parser.data \in Seq(Seq(C))
         /\ Part(reply, n).events \in Seq(Payloads(C)) /\ Part(reply, n).ok \in BOOLEAN
<1> DEFINE B == Bytes(C)
           w == reply.wire
           u == SubSeq(w, 1, n)
<1>1. w \in Seq(B)
  BY DEF Wired
<1>2. u \in Seq(B) /\ Len(w) \in Nat
  <2> HIDE DEF B, w
  <2> QED
    BY <1>1 DEF w
<1>3. Part(reply, n) = Parsed(u)
  BY DEF Part
<1> HIDE DEF u
<1>4. /\ Parsed(u).parser.buffer \in Seq(C) /\ Parsed(u).parser.data \in Seq(Seq(C))
      /\ Parsed(u).events \in Seq(Payloads(C)) /\ Parsed(u).ok \in BOOLEAN
  BY <1>2, ParsedTyped
<1> QED
  BY <1>2, <1>3, <1>4, Zenon DEF u

LEMMA Concatenated ==
  ASSUME NEW B, NEW a \in Seq(B), NEW b \in Seq(B), NEW x, x = a \o b
  PROVE  /\ x \in Seq(B) /\ Len(x) = Len(a) + Len(b)
         /\ \A i \in 1..Len(a) : x[i] = a[i]
         /\ \A i \in 1..Len(b) : x[Len(a) + i] = b[i]
OBVIOUS

LEMMA Cut ==
  ASSUME NEW B, NEW w \in Seq(B), NEW n \in 0..Len(w), NEW m \in Nat, n + m <= Len(w)
  PROVE  /\ n + m \in 0..Len(w) /\ SubSeq(w, 1, n) \in Seq(B) /\ SubSeq(w, n + 1, n + m) \in Seq(B)
         /\ SubSeq(w, 1, n + m) = SubSeq(w, 1, n) \o SubSeq(w, n + 1, n + m)
         /\ SubSeq(SubSeq(w, n + 1, Len(w)), 1, m) = SubSeq(w, n + 1, n + m)
         /\ SubSeq(SubSeq(w, n + 1, Len(w)), m + 1, Len(SubSeq(w, n + 1, Len(w)))) = SubSeq(w, n + m + 1, Len(w))
         /\ Len(SubSeq(w, n + 1, Len(w))) = Len(w) - n
<1> DEFINE a == SubSeq(w, 1, n)
           b == SubSeq(w, n + 1, n + m)
           c == SubSeq(w, 1, n + m)
           t == SubSeq(w, n + 1, Len(w))
<1>0. Len(w) \in Nat /\ n + m \in 0..Len(w)
  OBVIOUS
<1>1. a \in Seq(B) /\ Len(a) = n /\ \A i \in 1..n : a[i] = w[i]
  BY <1>0
<1>2. b \in Seq(B) /\ Len(b) = m /\ \A i \in 1..m : b[i] = w[n + i]
  BY <1>0
<1>3. c \in Seq(B) /\ Len(c) = n + m /\ \A i \in 1..(n + m) : c[i] = w[i]
  BY <1>0
<1>4. t \in Seq(B) /\ Len(t) = Len(w) - n /\ \A i \in 1..(Len(w) - n) : t[i] = w[n + i]
  BY <1>0
<1> HIDE DEF a, b, c, t
<1>5. c = a \o b
  <2> DEFINE x == a \o b
  <2>0. a \in Seq(B) /\ b \in Seq(B) /\ Len(a) = n /\ Len(b) = m
    BY <1>1, <1>2
  <2>c. x = a \o b
    OBVIOUS
  <2> HIDE DEF x
  <2>1. /\ x \in Seq(B) /\ Len(x) = Len(a) + Len(b)
        /\ \A i \in 1..Len(a) : x[i] = a[i]
        /\ \A i \in 1..Len(b) : x[Len(a) + i] = b[i]
    BY <2>0, <2>c, Concatenated
  <2>2. \A i \in 1..n : x[i] = a[i]
    BY <2>0, <2>1
  <2>3. \A i \in 1..m : x[n + i] = b[i]
    BY <2>0, <2>1
  <2>4. \A i \in 1..(n + m) : x[i] = c[i]
    <3> SUFFICES ASSUME NEW i \in 1..(n + m) PROVE x[i] = c[i]
      OBVIOUS
    <3>1. CASE i \in 1..n
      BY <1>1, <1>3, <2>2, <3>1
    <3>2. CASE i \notin 1..n
      <4>1. i - n \in 1..m /\ n + (i - n) = i
        BY <1>0, <3>2
      <4>2. x[i] = b[i - n] /\ b[i - n] = w[i]
        BY <1>2, <2>3, <4>1
      <4> QED
        BY <1>3, <4>2
    <3> QED
      BY <3>1, <3>2
  <2>5. x = c
    BY <1>1, <1>2, <1>3, <2>1, <2>4
  <2> QED
    BY <2>5 DEF x
<1>6. SubSeq(t, 1, m) = b
  <2> DEFINE x == SubSeq(t, 1, m)
  <2>1. x \in Seq(B) /\ Len(x) = m /\ \A i \in 1..m : x[i] = t[i]
    BY <1>0, <1>4
  <2>2. \A i \in 1..m : i \in 1..(Len(w) - n)
    BY <1>0
  <2> HIDE DEF x
  <2>3. \A i \in 1..m : x[i] = b[i]
    BY <1>2, <1>4, <2>1, <2>2
  <2>4. x = b
    BY <1>2, <2>1, <2>3
  <2> QED
    BY <2>4 DEF x
<1>7. SubSeq(t, m + 1, Len(t)) = SubSeq(w, n + m + 1, Len(w))
  <2> DEFINE x == SubSeq(t, m + 1, Len(t))
             y == SubSeq(w, n + m + 1, Len(w))
  <2>1. x \in Seq(B) /\ Len(x) = Len(w) - n - m /\ \A i \in 1..(Len(w) - n - m) : x[i] = t[m + i]
    BY <1>0, <1>4
  <2>2. y \in Seq(B) /\ Len(y) = Len(w) - n - m /\ \A i \in 1..(Len(w) - n - m) : y[i] = w[n + m + i]
    BY <1>0
  <2>3. \A i \in 1..(Len(w) - n - m) : t[m + i] = w[n + m + i]
    BY <1>0, <1>4
  <2> HIDE DEF x, y
  <2>5. Len(x) = Len(y) /\ \A i \in 1..Len(x) : x[i] = y[i]
    BY <2>1, <2>2, <2>3
  <2>4. x = y
    <3>1. x \in Seq(B) /\ y \in Seq(B)
      BY <2>1, <2>2
    <3> QED
      BY <3>1, <2>5
  <2> QED
    BY <2>4 DEF x, y
<1> QED
  BY <1>0, <1>1, <1>2, <1>4, <1>5, <1>6, <1>7 DEF a, b, c, t

\* The next m bytes.
LEMMA PartNext ==
  ASSUME NEW C, NEW reply, Wired(reply, C), NEW n \in 0..Len(reply.wire), NEW m \in Nat, n + m <= Len(reply.wire)
  PROVE  LET was   == Part(reply, n)
             d     == Decoded(was.parser.pend, SubSeq(reply.wire, n + 1, n + m))
             cut   == Extracted(was.parser.buffer \o d.text)
             heard == Processed(was.parser.data, cut.lines)
         IN  /\ Part(reply, n + m).parser = [pend |-> d.pend, buffer |-> cut.rest, data |-> heard.data]
             /\ Part(reply, n + m).events = was.events \o heard.events
             /\ Part(reply, n + m).ok <=> was.ok /\ d.ok /\ heard.ok
<1> DEFINE w == reply.wire
           u == SubSeq(w, 1, n)
           v == SubSeq(w, n + 1, n + m)
           B == Bytes(C)
<1>1. w \in Seq(B)
  BY DEF Wired
<1>2. u \in Seq(B) /\ v \in Seq(B) /\ SubSeq(w, 1, n + m) = u \o v
  <2> HIDE DEF B
  <2> QED
    BY <1>1, Cut
<1>3. Part(reply, n) = Parsed(u) /\ Part(reply, n + m) = Parsed(u \o v)
  BY <1>2 DEF Part
<1> HIDE DEF u, v
<1>4. LET was   == Parsed(u)
          d     == Decoded(was.parser.pend, v)
          cut   == Extracted(was.parser.buffer \o d.text)
          heard == Processed(was.parser.data, cut.lines)
      IN  /\ Parsed(u \o v).parser = [pend |-> d.pend, buffer |-> cut.rest, data |-> heard.data]
          /\ Parsed(u \o v).events = was.events \o heard.events
          /\ Parsed(u \o v).ok <=> was.ok /\ d.ok /\ heard.ok
  BY <1>2, FeedContinues
<1> QED
  BY <1>3, <1>4 DEF v

LEMMA HeardTyped ==
  ASSUME NEW C, NEW reply, Wired(reply, C), NEW n \in 0..Len(reply.wire), NEW m \in Nat, n + m <= Len(reply.wire),
         NEW d, d = Decoded(Part(reply, n).parser.pend, SubSeq(reply.wire, n + 1, n + m)),
         NEW cut, cut = Extracted(Part(reply, n).parser.buffer \o d.text),
         NEW heard, heard = Processed(Part(reply, n).parser.data, cut.lines)
  PROVE  heard.events \in Seq(Payloads(C))
<1> DEFINE was == Part(reply, n)
<1>2. was.parser.buffer \in Seq(C) /\ was.parser.data \in Seq(Seq(C))
  BY PartTyped
<1>3. SubSeq(reply.wire, n + 1, n + m) \in Seq(Bytes(C))
  <2> DEFINE B == Bytes(C)
             w == reply.wire
  <2>1. w \in Seq(B) /\ n + m <= Len(w) /\ n \in 0..Len(w)
    BY DEF Wired
  <2> HIDE DEF B, w
  <2>2. SubSeq(w, n + 1, n + m) \in Seq(B)
    BY <2>1, Cut
  <2> QED
    BY <2>2 DEF B, w
<1>4. d.text \in Seq(C)
  <2> DEFINE v == SubSeq(reply.wire, n + 1, n + m)
  <2> HIDE DEF v
  <2>1. v \in Seq(Bytes(C)) /\ d = Decoded(was.parser.pend, v)
    BY <1>3 DEF v
  <2> QED
    BY <2>1, DecodedTyped DEF Decoders
<1> HIDE DEF was
<1>5. was.parser.buffer \o d.text \in Seq(C)
  BY <1>2, <1>4
<1>6. cut.lines \in Seq(Seq(C))
  <2> DEFINE text == was.parser.buffer \o d.text
  <2>1. text \in Seq(C) /\ cut = Extracted(text)
    BY <1>5 DEF was
  <2> HIDE DEF text
  <2> QED
    BY <2>1, ExtractedConcat
<1>7. heard \in Handlers(C)
  <2>1. heard = Processed(was.parser.data, cut.lines)
    BY DEF was
  <2> QED
    BY <1>2, <1>6, <2>1, ProcessedTyped
<1> QED
  BY <1>7 DEF Handlers

\* What the whole reply comes to begins with what its first bytes come to.
LEMMA WholeHas ==
  ASSUME NEW C, NEW reply, Wired(reply, C), NEW n \in 0..Len(reply.wire)
  PROVE  LET whole == Part(reply, Len(reply.wire))
             part  == Part(reply, n)
         IN  /\ whole.ok => part.ok
             /\ Len(part.events) \in Nat /\ Len(whole.events) \in Nat /\ Len(part.events) <= Len(whole.events)
             /\ \A i \in 1..Len(part.events) : whole.events[i] = part.events[i]
<1> DEFINE N == Len(reply.wire)
           was == Part(reply, n)
           m == N - n
           whole == Part(reply, N)
           P == Payloads(C)
<1>0. N \in Nat /\ was.events \in Seq(P)
  BY PartTyped
<1>1. m \in Nat /\ n + m = N
  BY <1>0
<1>2. PICK d, cut, heard :
        /\ d = Decoded(was.parser.pend, SubSeq(reply.wire, n + 1, n + m))
        /\ cut = Extracted(was.parser.buffer \o d.text)
        /\ heard = Processed(was.parser.data, cut.lines)
  OBVIOUS
<1>3. whole.events = was.events \o heard.events /\ (whole.ok => was.ok)
  <2> HIDE DEF m
  <2>1. n + m <= Len(reply.wire)
    BY <1>0, <1>1
  <2>3. LET d0     == Decoded(was.parser.pend, SubSeq(reply.wire, n + 1, n + m))
            cut0   == Extracted(was.parser.buffer \o d0.text)
            heard0 == Processed(was.parser.data, cut0.lines)
        IN  /\ Part(reply, n + m).events = was.events \o heard0.events
            /\ Part(reply, n + m).ok <=> was.ok /\ d0.ok /\ heard0.ok
    BY <1>1, <2>1, PartNext, ZenonT(40)
  <2>2. /\ Part(reply, n + m).events = was.events \o heard.events
        /\ Part(reply, n + m).ok => was.ok
    <3> HIDE DEF was
    <3> QED
      BY <1>2, <2>3, Zenon
  <2> QED
    BY <1>1, <2>2
<1>4. whole.events \in Seq(P)
  <2>1. N \in 0..N
    BY <1>0
  <2> QED
    BY <2>1, PartTyped
<1> HIDE DEF was, whole, P
<1>5. heard.events \in Seq(P)
  <2> HIDE DEF m
  <2>1. n + m <= Len(reply.wire)
    BY <1>0, <1>1
  <2> QED
    BY <1>1, <1>2, <2>1, HeardTyped DEF was, P
<1>6. /\ Len(whole.events) = Len(was.events) + Len(heard.events)
      /\ \A i \in 1..Len(was.events) : whole.events[i] = was.events[i]
  <2> DEFINE a == was.events
             b == heard.events
             x == whole.events
  <2>1. a \in Seq(P) /\ b \in Seq(P) /\ x = a \o b
    BY <1>0, <1>3, <1>5
  <2> HIDE DEF a, b, x
  <2>2. Len(x) = Len(a) + Len(b) /\ \A i \in 1..Len(a) : x[i] = a[i]
    BY <2>1, Concatenated
  <2> QED
    BY <2>2 DEF a, b, x
<1>7. Len(was.events) \in Nat /\ Len(heard.events) \in Nat
  BY <1>0, <1>5
<1>8. /\ whole.ok => was.ok
      /\ Len(was.events) \in Nat /\ Len(whole.events) \in Nat /\ Len(was.events) <= Len(whole.events)
      /\ \A i \in 1..Len(was.events) : whole.events[i] = was.events[i]
  <2>1. Len(whole.events) \in Nat /\ Len(was.events) <= Len(whole.events)
    <3> DEFINE x == Len(was.events)
               y == Len(heard.events)
               z == Len(whole.events)
    <3>1. z = x + y /\ x \in Nat /\ y \in Nat
      BY <1>6, <1>7
    <3> HIDE DEF x, y, z, m, N
    <3>2. z \in Nat /\ x <= z
      BY <3>1
    <3> QED
      BY <3>2 DEF x, z
  <2> QED
    BY <1>3, <1>6, <1>7, <2>1, Zenon
<1> QED
  BY <1>8, Zenon DEF was, whole

LEMMA Suffix ==
  ASSUME NEW B, NEW x \in Seq(B), NEW p \in 0..Len(x), NEW y, y = SubSeq(x, p + 1, Len(x))
  PROVE  y \in Seq(B) /\ Len(y) = Len(x) - p /\ \A i \in 1..(Len(x) - p) : y[i] = x[p + i]
OBVIOUS

LEMMA SameSequence ==
  ASSUME NEW B, NEW s \in Seq(B), NEW t \in Seq(B), Len(s) = Len(t), \A i \in 1..Len(s) : s[i] = t[i]
  PROVE  s = t
OBVIOUS

LEMMA RestOf ==
  ASSUME NEW B, NEW a \in Seq(B), NEW b \in Seq(B), NEW x, x = a \o b
  PROVE  SubSeq(x, Len(a) + 1, Len(x)) = b
<1>1. /\ x \in Seq(B) /\ Len(x) = Len(a) + Len(b) /\ Len(a) \in Nat /\ Len(b) \in Nat
      /\ \A i \in 1..Len(b) : x[Len(a) + i] = b[i]
  BY Concatenated
<1>2. PICK y : y = SubSeq(x, Len(a) + 1, Len(x))
  OBVIOUS
<1>3. Len(a) \in 0..Len(x) /\ Len(x) - Len(a) = Len(b)
  BY <1>1
<1>4. y \in Seq(B) /\ Len(y) = Len(x) - Len(a) /\ \A i \in 1..(Len(x) - Len(a)) : y[i] = x[Len(a) + i]
  BY <1>1, <1>2, <1>3, Suffix
<1>5. Len(y) = Len(b) /\ \A i \in 1..Len(y) : y[i] = b[i]
  BY <1>1, <1>3, <1>4
<1>6. y = b
  BY <1>4, <1>5, SameSequence, Zenon
<1> QED
  BY <1>2, <1>6

\* Reading m bytes.
Takes(parser, wire, m, d, cut, heard, u) ==
  /\ d = Decoded(parser.pend, SubSeq(wire, 1, m))
  /\ cut = Extracted(parser.buffer \o d.text)
  /\ heard = Processed(parser.data, cut.lines)
  /\ u = [wire |-> SubSeq(wire, m + 1, Len(wire)),
          parser |-> [pend |-> d.pend, buffer |-> cut.rest, data |-> heard.data], todo |-> heard.events]

\* A worker that follows a reply and has handled all payloads reads on.
ReadTo(reply, n, m, d, heard, u) ==
  LET part == Part(reply, n)
      next == Part(reply, n + m)
      k    == Len(part.events)
  IN  /\ n + m \in 0..Len(reply.wire)
      /\ d = Decoded(part.parser.pend, SubSeq(reply.wire, n + 1, n + m))
      /\ next.ok <=> part.ok /\ d.ok /\ heard.ok
      /\ u = [wire |-> SubSeq(reply.wire, n + m + 1, Len(reply.wire)), parser |-> next.parser,
              todo |-> SubSeq(next.events, k + 1, Len(next.events))]
      /\ k \in 0..Len(next.events) /\ Reaches(reply.kind, next.events, k)
      /\ Gathered(next.events, k) = Gathered(part.events, k)

LEMMA ReadOn ==
  ASSUME NEW C, NEW reply, Wired(reply, C), NEW n \in 0..Len(reply.wire), NEW m \in Nat,
         Reaches(reply.kind, Part(reply, n).events, Len(Part(reply, n).events)),
         m <= Len(SubSeq(reply.wire, n + 1, Len(reply.wire))), NEW d, NEW cut, NEW heard, NEW u,
         Takes(Part(reply, n).parser, SubSeq(reply.wire, n + 1, Len(reply.wire)), m, d, cut, heard, u)
  PROVE  ReadTo(reply, n, m, d, heard, u)
<1>q. PICK part, next, kind, wire :
        part = Part(reply, n) /\ next = Part(reply, n + m) /\ kind = reply.kind
        /\ wire = SubSeq(reply.wire, n + 1, Len(reply.wire))
  OBVIOUS
<1>r. PICK k : k = Len(part.events)
  OBVIOUS
<1>p. /\ part = Part(reply, n) /\ next = Part(reply, n + m) /\ kind = reply.kind
      /\ wire = SubSeq(reply.wire, n + 1, Len(reply.wire)) /\ k = Len(part.events)
      /\ Reaches(kind, part.events, k) /\ m <= Len(wire) /\ Takes(part.parser, wire, m, d, cut, heard, u)
  BY <1>q, <1>r
<1> DEFINE P == Payloads(C)
<1>0. /\ d = Decoded(part.parser.pend, SubSeq(wire, 1, m))
      /\ cut = Extracted(part.parser.buffer \o d.text)
      /\ heard = Processed(part.parser.data, cut.lines)
      /\ u = [wire |-> SubSeq(wire, m + 1, Len(wire)),
              parser |-> [pend |-> d.pend, buffer |-> cut.rest, data |-> heard.data], todo |-> heard.events]
  BY <1>p DEF Takes
<1>1. /\ n + m \in 0..Len(reply.wire) /\ n + m <= Len(reply.wire)
      /\ SubSeq(wire, 1, m) = SubSeq(reply.wire, n + 1, n + m)
      /\ SubSeq(wire, m + 1, Len(wire)) = SubSeq(reply.wire, n + m + 1, Len(reply.wire))
  <2> DEFINE B == Bytes(C)
             w == reply.wire
  <2>1. w \in Seq(B) /\ n \in 0..Len(w) /\ wire = SubSeq(w, n + 1, Len(w)) /\ m <= Len(wire)
    BY <1>p DEF Wired
  <2> HIDE DEF B, w
  <2>2. Len(wire) = Len(w) - n /\ Len(w) \in Nat
    BY <1>p, <2>1
  <2>3. n + m <= Len(w) /\ n + m \in 0..Len(w)
    BY <1>p, <2>1, <2>2
  <2>4. /\ SubSeq(SubSeq(w, n + 1, Len(w)), 1, m) = SubSeq(w, n + 1, n + m)
        /\ SubSeq(SubSeq(w, n + 1, Len(w)), m + 1, Len(SubSeq(w, n + 1, Len(w)))) = SubSeq(w, n + m + 1, Len(w))
    BY <1>p, <2>1, <2>3, Cut
  <2>5. /\ SubSeq(wire, 1, m) = SubSeq(w, n + 1, n + m)
        /\ SubSeq(wire, m + 1, Len(wire)) = SubSeq(w, n + m + 1, Len(w))
    BY <1>p, <2>1, <2>4, Zenon
  <2> QED
    BY <1>p, <2>3, <2>5 DEF w
<1>2. d = Decoded(part.parser.pend, SubSeq(reply.wire, n + 1, n + m))
  BY <1>p, <1>0, <1>1
<1>3. /\ next.parser = [pend |-> d.pend, buffer |-> cut.rest, data |-> heard.data]
      /\ next.events = part.events \o heard.events
      /\ next.ok <=> part.ok /\ d.ok /\ heard.ok
  <2>1. LET was    == Part(reply, n)
            d0     == Decoded(was.parser.pend, SubSeq(reply.wire, n + 1, n + m))
            cut0   == Extracted(was.parser.buffer \o d0.text)
            heard0 == Processed(was.parser.data, cut0.lines)
        IN  /\ Part(reply, n + m).parser = [pend |-> d0.pend, buffer |-> cut0.rest, data |-> heard0.data]
            /\ Part(reply, n + m).events = was.events \o heard0.events
            /\ Part(reply, n + m).ok <=> was.ok /\ d0.ok /\ heard0.ok
    BY <1>p, <1>1, PartNext, Zenon
  <2> QED
    BY <1>p, <1>0, <1>2, <2>1, Zenon
<1>4. part.events \in Seq(P) /\ heard.events \in Seq(P)
  <2>1. part.events \in Seq(P)
    BY <1>p, PartTyped
  <2>2. heard.events \in Seq(P)
    <3> HIDE DEF P
    <3>1. d = Decoded(Part(reply, n).parser.pend, SubSeq(reply.wire, n + 1, n + m))
      BY <1>p, <1>2
    <3>2. cut = Extracted(Part(reply, n).parser.buffer \o d.text) /\ heard = Processed(Part(reply, n).parser.data, cut.lines)
      BY <1>p, <1>0
    <3> QED
      BY <1>p, <1>1, <3>1, <3>2, HeardTyped DEF P
  <2> QED
    BY <1>p, <2>1, <2>2
<1> HIDE DEF P
<1>5. SubSeq(next.events, k + 1, Len(next.events)) = heard.events
  <2> DEFINE a == part.events
             b == heard.events
             x == next.events
  <2>1. a \in Seq(P) /\ b \in Seq(P) /\ x = a \o b
    BY <1>p, <1>3, <1>4
  <2> HIDE DEF a, b, x
  <2>2. SubSeq(x, Len(a) + 1, Len(x)) = b
    BY <1>p, <2>1, RestOf, Zenon
  <2> QED
    BY <1>p, <2>2 DEF a, b, x
<1>6. k \in Nat /\ k \in 0..Len(next.events) /\ \A i \in 1..k : next.events[i] = part.events[i]
  <2> DEFINE a == part.events
             b == heard.events
             x == next.events
  <2>1. a \in Seq(P) /\ b \in Seq(P) /\ x = a \o b /\ k = Len(a)
    BY <1>p, <1>3, <1>4
  <2> HIDE DEF a, b, x
  <2>2. Len(a) \in Nat /\ Len(b) \in Nat /\ Len(x) = Len(a) + Len(b) /\ \A i \in 1..Len(a) : x[i] = a[i]
    BY <1>p, <2>1, Concatenated
  <2>3. k \in Nat /\ k \in 0..Len(x) /\ \A i \in 1..k : x[i] = a[i]
    BY <1>p, <2>1, <2>2
  <2> QED
    BY <1>p, <2>3 DEF a, x
<1>7. Reaches(kind, next.events, k)
  BY <1>p, <1>6 DEF Reaches
<1>8. Gathered(next.events, k) = Gathered(part.events, k)
  <2> DEFINE a == part.events
             x == next.events
  <2>1. \A i \in 1..k : a[i] = x[i]
    BY <1>p, <1>6
  <2> HIDE DEF a, x
  <2>2. Gathered(x, k) = Gathered(a, k)
    BY <1>p, <1>6, <2>1, GatheredPrefix
  <2> QED
    BY <1>p, <2>2 DEF a, x
<1>9. u = [wire |-> SubSeq(reply.wire, n + m + 1, Len(reply.wire)), parser |-> next.parser,
           todo |-> SubSeq(next.events, k + 1, Len(next.events))]
  BY <1>0, <1>1, <1>3, <1>5, Zenon
<1> QED
  BY <1>p, <1>1, <1>2, <1>3, <1>6, <1>7, <1>8, <1>9, Zenon DEF ReadTo

\* A sound reply is not refused while it is read.
LEMMA SoundReads ==
  ASSUME NEW C, NEW reply, Wired(reply, C), NEW n \in 0..Len(reply.wire), NEW m \in ReadSizes,
         n + m \in 0..Len(reply.wire), m \in Nat,
         Part(reply, Len(reply.wire)).ok, Fits(reply),
         NEW part, part = Part(reply, n),
         NEW d, d = Decoded(part.parser.pend, SubSeq(reply.wire, n + 1, n + m))
  PROVE  /\ Part(reply, n + m).ok
         /\ Extracted(part.parser.buffer \o d.text).ok
<1>1. Part(reply, n + m).ok
  <2>1. PICK i \in 0..Len(reply.wire) : i = n + m
    OBVIOUS
  <2>2. Part(reply, i).ok
    BY WholeHas
  <2> QED
    BY <2>1, <2>2
<1>2. n + m <= Len(reply.wire)
  OBVIOUS
<1>3. LET parser == Part(reply, n).parser
      IN  Extracted(parser.buffer \o Decoded(parser.pend, SubSeq(reply.wire, n + 1, n + m)).text).ok
  BY <1>2, Zenon DEF Fits
<1> QED
  BY <1>1, <1>3, Zenon

\* Nor is a payload of it.
LEMMA SoundHears ==
  ASSUME NEW C, NEW reply, Wired(reply, C), NEW n \in 0..Len(reply.wire), Readable(reply),
         NEW payloads, payloads = Part(reply, n).events, NEW k \in Nat, k < Len(payloads),
         Reaches(reply.kind, payloads, k), ~Ends(reply.kind, payloads[k + 1])
  PROVE  payloads[k + 1] \in DOMAIN Meaning /\ ~Odd(payloads[k + 1])
<1> DEFINE all == Part(reply, Len(reply.wire)).events
<1>1. /\ Len(payloads) \in Nat /\ Len(all) \in Nat /\ Len(payloads) <= Len(all)
      /\ \A i \in 1..Len(payloads) : all[i] = payloads[i]
  BY WholeHas
<1> HIDE DEF all
<1>2. k + 1 \in 1..Len(all) /\ k + 1 \in 1..Len(payloads) /\ (k + 1) - 1 = k
  BY <1>1
<1>3. \A i \in 1..k : all[i] = payloads[i]
  BY <1>1
<1>4. Reaches(reply.kind, all, (k + 1) - 1)
  BY <1>2, <1>3 DEF Reaches
<1>5. \A j \in 1..Len(all) : Reaches(reply.kind, all, j - 1) =>
        Ends(reply.kind, all[j]) \/ (all[j] \in DOMAIN Meaning /\ ~Odd(all[j]))
  BY DEF Readable, all
<1>6. all[k + 1] = payloads[k + 1]
  BY <1>1, <1>2
<1> QED
  BY <1>2, <1>4, <1>5, <1>6

-----------------------------------------------------------------------------
(* What keeps RepliesAsSent *)

\* Whose turn it is: a request that was not answered is the last one or it is cancelled, and
\* nothing was served to what still waits.
Counted ==
  /\ requests <= MaxRequests /\ DOMAIN served \subseteq 1..requests
  /\ \A i \in DOMAIN tasks : /\ tasks[i] \in 1..requests \ DOMAIN served
                             /\ tasks[i] = requests \/ tasks[i] \in cancelled
  /\ ~Free => /\ worker.request \in 1..requests
              /\ worker.request = requests \/ worker.request \in cancelled

Messages  == [kind : {"init", "update", "result", "eof"}, request : Nat]
CliStates == [open : BOOLEAN, alive : BOOLEAN, ready : BOOLEAN, say : Seq(Messages), out : Seq(Messages)]
AProvider(p) ==
  p = [kind |-> p.kind, acc |-> p.acc, calls |-> p.calls, cli |-> p.cli] /\ p.kind \in Http \cup {Cli} /\ p.cli \in CliStates

\* The worker's provider is the last one, or it was replaced and the last one has no calls.
Provided ==
  /\ ASequence(providers) /\ providers # <<>> /\ \A i \in DOMAIN providers : AProvider(providers[i])
  /\ ~Free => /\ worker.by \in DOMAIN providers
              /\ worker.by = Len(providers) \/ (worker.request \in swapped /\ Current.calls = <<>>)

\* A process that lives has not said that it ended, and what it says of a result comes last; a
\* result is due only while the worker waits for it.
Awaited(i) == worker.at = "cli" /\ worker.by = i /\ worker.wrote

Lively(cli, awaited) ==
  /\ \A i \in DOMAIN cli.say : cli.say[i].kind # "eof" /\ (cli.say[i].kind = "result" => awaited /\ i = Len(cli.say))
  /\ \A i \in DOMAIN cli.out : cli.out[i].kind # "eof"
     /\ (cli.out[i].kind = "result" => awaited /\ i = Len(cli.out) /\ cli.say = <<>>)

Mailed == \A i \in DOMAIN providers : providers[i].cli.alive => Lively(providers[i].cli, Awaited(i))

\* A prompt that was written is answered by the process that got it, or the request is lost.
OfRequest(s, r) == \A i \in DOMAIN s : s[i].kind = "result" => s[i].request = r

Asked ==
  /\ worker.at = "opening" => worker.text = <<>> /\ ~worker.wrote /\ worker.request \notin DOMAIN served
  /\ worker.at = "cli" =>
       /\ Mine.kind = Cli
       /\ ~worker.wrote => worker.request \notin DOMAIN served
       /\ worker.wrote =>
            /\ worker.request \in DOMAIN served /\ served[worker.request].kind = Cli
            /\ OfRequest(Mine.cli.say, worker.request) /\ OfRequest(Mine.cli.out, worker.request)
            /\ (Mine.cli.alive /\ Mine.cli.ready) \/ worker.request \in broken \cup swapped \cup cancelled

\* However it was cut: after n bytes and k payloads the stream, the text and the fragments are
\* what they would be, had these bytes been parsed in one piece.
Follows(reply, n, k, s, text, acc) ==
  LET part == Part(reply, n)
  IN  /\ part.ok /\ Reaches(reply.kind, part.events, k)
      /\ s = [wire |-> SubSeq(reply.wire, n + 1, Len(reply.wire)), parser |-> part.parser,
              todo |-> SubSeq(part.events, k + 1, Len(part.events))]
      /\ text = Gathered(part.events, k).text /\ acc = Gathered(part.events, k).acc

\* The worker follows the reply to its request, unless its connection is lost.
Reads(reply, s, text, acc, ended) ==
  \E n \in 0..Len(reply.wire) : \E k \in 0..Len(Part(reply, n).events) :
    Follows(reply, n, k, s, text, acc) /\ (ended => EndsAt(reply, n, k))

Followed ==
  worker.at \in {"reading", "ending"} =>
    /\ worker.request \in DOMAIN served /\ served[worker.request] \in Replies(worker.request)
    /\ served[worker.request].kind = Mine.kind /\ Mine.kind \in Http
    /\ \/ worker.request \in broken
       \/ Reads(served[worker.request], stream, worker.text, Mine.acc, worker.at = "ending")

Finished ==
  worker.at = "completed" =>
    /\ worker.request \in DOMAIN served
    /\ \/ worker.request \in broken
       \/ /\ served[worker.request].sound /\ worker.text = served[worker.request].text
          /\ Mine.calls = served[worker.request].calls

\* What RepliesAsSent says of an event.
Sent(e, reply, cut, replaced) ==
  /\ e.kind \in {"ready", "error", "delta"}
  /\ e.request \in DOMAIN reply \ cut =>
       /\ e.kind = "ready" => /\ reply[e.request].sound /\ e.text = reply[e.request].text
                              /\ e.calls = reply[e.request].calls \/ (e.request \in replaced /\ e.calls = <<>>)
       /\ e.kind = "error" => ~reply[e.request].sound \/ (e.request \in replaced /\ reply[e.request].kind = Cli)

AllSent == \A i \in DOMAIN events : Sent(events[i], served, broken, swapped)

Places == worker.at \in {"idle", "ended", "opening", "reading", "ending", "completed", "cli"} /\ worker.wrote \in BOOLEAN

RInv == Counted /\ Provided /\ Mailed /\ Places /\ Asked /\ Followed /\ Finished /\ AllSent

-----------------------------------------------------------------------------
(* The providers *)

\* Provider i has these fragments, calls and process now.
Becomes(i, acc, calls, cli) ==
  providers' = [providers EXCEPT ![i] = [kind |-> providers[i].kind, acc |-> acc, calls |-> calls, cli |-> cli]]

With(s, i, e) == [s EXCEPT ![i] = e]

LEMMA Exchanged ==
  ASSUME NEW s, ASequence(s), NEW i \in DOMAIN s, NEW e, NEW t, t = With(s, i, e)
  PROVE  /\ ASequence(t) /\ DOMAIN t = DOMAIN s /\ Len(t) = Len(s) /\ Len(s) \in Nat /\ DOMAIN s = 1..Len(s)
         /\ t[i] = e /\ \A j \in DOMAIN s : j # i => t[j] = s[j]
<1>1. PICK S : s \in Seq(S)
  BY DEF ASequence
<1>2. s \in Seq(S \cup {e}) /\ t \in Seq(S \cup {e}) /\ Len(t) = Len(s)
  BY <1>1 DEF With
<1> QED
  BY <1>1, <1>2 DEF ASequence, With

LEMMA BecomesIs ==
  ASSUME Provided, NEW i \in DOMAIN providers, NEW acc, NEW calls, NEW cli \in CliStates, Becomes(i, acc, calls, cli)
  PROVE  /\ ASequence(providers)' /\ (providers # <<>>)' /\ DOMAIN providers' = DOMAIN providers
         /\ Len(providers') = Len(providers) /\ Len(providers) \in DOMAIN providers /\ Len(providers) \in Nat
         /\ \A j \in DOMAIN providers : AProvider(providers'[j]) /\ providers'[j].kind = providers[j].kind
         /\ providers'[i].acc = acc /\ providers'[i].calls = calls /\ providers'[i].cli = cli
         /\ \A j \in DOMAIN providers : j # i => providers'[j] = providers[j]
<1> DEFINE p == [kind |-> providers[i].kind, acc |-> acc, calls |-> calls, cli |-> cli]
<1>1. AProvider(providers[i])
  BY DEF Provided
<1>2. AProvider(p) /\ p.kind = providers[i].kind /\ p.acc = acc /\ p.calls = calls /\ p.cli = cli
  BY <1>1 DEF AProvider
<1>3. providers' = With(providers, i, p) /\ ASequence(providers) /\ providers # <<>>
  BY DEF Becomes, Provided, With
<1> HIDE DEF p
<1>4. /\ ASequence(providers') /\ DOMAIN providers' = DOMAIN providers /\ Len(providers') = Len(providers)
      /\ Len(providers) \in Nat /\ DOMAIN providers = 1..Len(providers)
      /\ providers'[i] = p /\ \A j \in DOMAIN providers : j # i => providers'[j] = providers[j]
  BY <1>3, Exchanged
<1>5. Len(providers) \in DOMAIN providers /\ providers' # <<>>
  BY <1>4
<1> QED
  BY <1>2, <1>4, <1>5 DEF Provided

\* Setting one field or two.
LEMMA SetsCli ==
  ASSUME NEW i \in DOMAIN providers, AProvider(providers[i]), NEW v, providers' = [providers EXCEPT ![i].cli = v]
  PROVE  Becomes(i, providers[i].acc, providers[i].calls, v)
<1> DEFINE p == providers[i]
           q == [p EXCEPT !.cli = v]
<1>1. providers' = [providers EXCEPT ![i] = q]
  OBVIOUS
<1>2. p = [kind |-> p.kind, acc |-> p.acc, calls |-> p.calls, cli |-> p.cli]
  BY DEF AProvider
<1>3. q = [kind |-> p.kind, acc |-> p.acc, calls |-> p.calls, cli |-> v]
  <2> HIDE DEF p
  <2> QED
    BY <1>2
<1> HIDE DEF q
<1> QED
  BY <1>1, <1>3 DEF Becomes

LEMMA SetsAcc ==
  ASSUME NEW i \in DOMAIN providers, AProvider(providers[i]), NEW v, providers' = [providers EXCEPT ![i].acc = v]
  PROVE  Becomes(i, v, providers[i].calls, providers[i].cli)
<1> DEFINE p == providers[i]
           q == [p EXCEPT !.acc = v]
<1>1. providers' = [providers EXCEPT ![i] = q]
  OBVIOUS
<1>2. p = [kind |-> p.kind, acc |-> p.acc, calls |-> p.calls, cli |-> p.cli]
  BY DEF AProvider
<1>3. q = [kind |-> p.kind, acc |-> v, calls |-> p.calls, cli |-> p.cli]
  <2> HIDE DEF p
  <2> QED
    BY <1>2
<1> HIDE DEF q
<1> QED
  BY <1>1, <1>3 DEF Becomes

LEMMA SetsCalls ==
  ASSUME NEW i \in DOMAIN providers, AProvider(providers[i]), NEW v, providers' = [providers EXCEPT ![i].calls = v]
  PROVE  Becomes(i, providers[i].acc, v, providers[i].cli)
<1> DEFINE p == providers[i]
           q == [p EXCEPT !.calls = v]
<1>1. providers' = [providers EXCEPT ![i] = q]
  OBVIOUS
<1>2. p = [kind |-> p.kind, acc |-> p.acc, calls |-> p.calls, cli |-> p.cli]
  BY DEF AProvider
<1>3. q = [kind |-> p.kind, acc |-> p.acc, calls |-> v, cli |-> p.cli]
  <2> HIDE DEF p
  <2> QED
    BY <1>2
<1> HIDE DEF q
<1> QED
  BY <1>1, <1>3 DEF Becomes

Both(q, p, a, c) == q = [kind |-> p.kind, acc |-> p.acc, calls |-> a, cli |-> c]

LEMMA BothSet ==
  ASSUME NEW p, AProvider(p), NEW a, NEW c, NEW q, q = [p EXCEPT !.calls = a, !.cli = c] \/ q = [p EXCEPT !.cli = c, !.calls = a]
  PROVE  Both(q, p, a, c)
<1>1. PICK d, e : d = [p EXCEPT !.calls = a] /\ e = [p EXCEPT !.cli = c]
  OBVIOUS
<1>2. d = [kind |-> p.kind, acc |-> p.acc, calls |-> a, cli |-> p.cli]
  BY <1>1 DEF AProvider
<1>3. e = [kind |-> p.kind, acc |-> p.acc, calls |-> p.calls, cli |-> c]
  BY <1>1 DEF AProvider
<1>4. q = [d EXCEPT !.cli = c] \/ q = [e EXCEPT !.calls = a]
  BY <1>1
<1>5. CASE q = [d EXCEPT !.cli = c]
  BY <1>2, <1>5 DEF Both
<1>6. CASE q = [e EXCEPT !.calls = a]
  BY <1>3, <1>6 DEF Both
<1> QED
  BY <1>4, <1>5, <1>6

LEMMA SetsBoth ==
  ASSUME NEW i \in DOMAIN providers, AProvider(providers[i]), NEW a, NEW c,
         \/ providers' = [providers EXCEPT ![i].calls = a, ![i].cli = c]
         \/ providers' = [providers EXCEPT ![i].cli = c, ![i].calls = a]
  PROVE  Becomes(i, providers[i].acc, a, c)
<1> DEFINE p == providers[i]
<1>1. PICK q, u : q = [p EXCEPT !.calls = a, !.cli = c] /\ u = [p EXCEPT !.cli = c, !.calls = a]
  OBVIOUS
<1>2. providers' = [providers EXCEPT ![i] = q] \/ providers' = [providers EXCEPT ![i] = u]
  BY <1>1
<1>3. q = [kind |-> p.kind, acc |-> p.acc, calls |-> a, cli |-> c] /\ u = q
  <2>1. AProvider(p)
    OBVIOUS
  <2> HIDE DEF p
  <2>2. Both(q, p, a, c) /\ Both(u, p, a, c)
    BY <1>1, <2>1, BothSet
  <2> QED
    BY <2>2, Zenon DEF Both
<1> QED
  BY <1>2, <1>3, Zenon DEF Becomes

\* What the actions do to a process.
LEMMA CliIs ==
  ASSUME NEW cli \in CliStates
  PROVE  cli = [open |-> cli.open, alive |-> cli.alive, ready |-> cli.ready, say |-> cli.say, out |-> cli.out]
BY DEF CliStates

LEMMA ClosedIs ==
  ASSUME NEW cli \in CliStates
  PROVE  /\ Closed(cli) \in CliStates /\ ~Closed(cli).alive /\ ~Closed(cli).ready /\ Closed(cli).out = cli.out
         /\ Closed(cli).say = cli.say \/ Closed(cli).say = <<[kind |-> "eof", request |-> 0]>>
<1>1. [kind |-> "eof", request |-> 0] \in Messages
  BY DEF Messages
<1> DEFINE say == IF cli.alive THEN <<[kind |-> "eof", request |-> 0]>> ELSE cli.say
<1>2. Closed(cli) = [open |-> FALSE, alive |-> FALSE, ready |-> FALSE, say |-> say, out |-> cli.out]
  <2>1. Closed(cli) = [cli EXCEPT !.open = FALSE, !.ready = FALSE, !.alive = FALSE, !.say = say]
    BY DEF Closed
  <2> HIDE DEF say
  <2> QED
    BY <2>1, CliIs
<1>3. say \in Seq(Messages) /\ cli.out \in Seq(Messages)
  BY <1>1 DEF CliStates
<1>4. say = cli.say \/ say = <<[kind |-> "eof", request |-> 0]>>
  OBVIOUS
<1> HIDE DEF say
<1> QED
  BY <1>2, <1>3, <1>4 DEF CliStates

LEMMA SayOut ==
  ASSUME NEW cli \in CliStates, NEW a, NEW b, NEW d, d = [cli EXCEPT !.say = a, !.out = b]
  PROVE  d = [open |-> cli.open, alive |-> cli.alive, ready |-> cli.ready, say |-> a, out |-> b]
<1>1. PICK e : e = [cli EXCEPT !.say = a]
  OBVIOUS
<1>2. e = [open |-> cli.open, alive |-> cli.alive, ready |-> cli.ready, say |-> a, out |-> cli.out]
  BY <1>1, CliIs
<1>3. d = [e EXCEPT !.out = b]
  BY <1>1
<1> QED
  BY <1>2, <1>3, Zenon

LEMMA NotAlive ==
  ASSUME NEW cli \in CliStates, NEW a, NEW d, d = [cli EXCEPT !.alive = FALSE, !.say = a]
  PROVE  d = [open |-> cli.open, alive |-> FALSE, ready |-> cli.ready, say |-> a, out |-> cli.out]
<1>1. PICK e : e = [cli EXCEPT !.say = a]
  OBVIOUS
<1>2. e = [open |-> cli.open, alive |-> cli.alive, ready |-> cli.ready, say |-> a, out |-> cli.out]
  BY <1>1, CliIs
<1>3. d = [e EXCEPT !.alive = FALSE]
  BY <1>1
<1> QED
  BY <1>2, <1>3, Zenon

LEMMA SaysIs ==
  ASSUME NEW i \in DOMAIN providers, AProvider(providers[i]), NEW a, NEW b,
         providers' = [providers EXCEPT ![i].cli.say = a, ![i].cli.out = b]
  PROVE  Becomes(i, providers[i].acc, providers[i].calls,
                 [open |-> providers[i].cli.open, alive |-> providers[i].cli.alive, ready |-> providers[i].cli.ready,
                  say |-> a, out |-> b])
<1> DEFINE c == providers[i].cli
           d == [c EXCEPT !.say = a, !.out = b]
<1>1. providers' = [providers EXCEPT ![i].cli = d]
  OBVIOUS
<1>2. Becomes(i, providers[i].acc, providers[i].calls, d)
  <2> HIDE DEF d
  <2> QED
    BY <1>1, SetsCli
<1>3. c \in CliStates
  BY DEF AProvider
<1>4. d = [open |-> c.open, alive |-> c.alive, ready |-> c.ready, say |-> a, out |-> b]
  <2>1. d = [c EXCEPT !.say = a, !.out = b]
    OBVIOUS
  <2> HIDE DEF c, d
  <2> QED
    BY <1>3, <2>1, SayOut, Zenon
<1> HIDE DEF d
<1> QED
  BY <1>2, <1>4

LEMMA DiesIs ==
  ASSUME NEW i \in DOMAIN providers, AProvider(providers[i]), NEW a,
         providers' = [providers EXCEPT ![i].cli.alive = FALSE, ![i].cli.say = a]
  PROVE  Becomes(i, providers[i].acc, providers[i].calls,
                 [open |-> providers[i].cli.open, alive |-> FALSE, ready |-> providers[i].cli.ready, say |-> a,
                  out |-> providers[i].cli.out])
<1> DEFINE c == providers[i].cli
           d == [c EXCEPT !.alive = FALSE, !.say = a]
<1>1. providers' = [providers EXCEPT ![i].cli = d]
  OBVIOUS
<1>2. Becomes(i, providers[i].acc, providers[i].calls, d)
  <2> HIDE DEF d
  <2> QED
    BY <1>1, SetsCli
<1>3. c \in CliStates
  BY DEF AProvider
<1>4. d = [open |-> c.open, alive |-> FALSE, ready |-> c.ready, say |-> a, out |-> c.out]
  <2>1. d = [c EXCEPT !.alive = FALSE, !.say = a]
    OBVIOUS
  <2> HIDE DEF c, d
  <2> QED
    BY <1>3, <2>1, NotAlive, Zenon
<1> HIDE DEF d
<1> QED
  BY <1>2, <1>4

-----------------------------------------------------------------------------
(* What was served and whose turn it is *)

\* A reply that was given stays, and only the worker's request gets one.
Served ==
  /\ DOMAIN served \subseteq DOMAIN served' /\ DOMAIN served' \subseteq DOMAIN served \cup {worker.request}
  /\ \A r \in DOMAIN served : served'[r] = served[r]
  /\ broken \subseteq broken' /\ swapped \subseteq swapped'

LEMMA WorksServed == Asked /\ Works => Served /\ swapped' = swapped
<1> SUFFICES ASSUME Asked, Works PROVE Served /\ swapped' = swapped
  OBVIOUS
<1>1. ASSUME NEW reply, worker.request \notin DOMAIN served, UNCHANGED <<broken, swapped>>,
             served' = [r \in DOMAIN served \cup {worker.request} |-> IF r = worker.request THEN reply ELSE served[r]]
      PROVE  Served /\ swapped' = swapped
  BY <1>1 DEF Served
<1>2. CASE Connect
  <2>1. worker.request \notin DOMAIN served /\ UNCHANGED <<broken, swapped>>
    BY <1>2 DEF Connect, Asked
  <2>2. \E reply : served' = [r \in DOMAIN served \cup {worker.request} |-> IF r = worker.request THEN reply ELSE served[r]]
    BY <1>2 DEF Connect
  <2> QED
    BY <1>1, <2>1, <2>2
<1>3. CASE SendPrompt
  <2>1. worker.request \notin DOMAIN served /\ UNCHANGED <<broken, swapped>>
    BY <1>3 DEF SendPrompt, Asked
  <2>2. \/ served' = served
        \/ \E reply : served' = [r \in DOMAIN served \cup {worker.request} |-> IF r = worker.request THEN reply ELSE served[r]]
    BY <1>3 DEF SendPrompt
  <2>3. CASE served' = served
    BY <2>1, <2>3 DEF Served
  <2> QED
    BY <1>1, <2>1, <2>2, <2>3
<1>4. CASE EndOfStream \/ Payload
  BY <1>4 DEF EndOfStream, Payload, Served, history
<1>5. CASE GiveUp \/ Refuse \/ Complete \/ (\E n \in ReadSizes : Read(n)) \/ LastPayload \/ EndReply
           \/ OpenCli \/ CancelCli \/ StartTimesOut \/ Hear
  <2>1. UNCHANGED history
    BY <1>5 DEF GiveUp, Refuse, Complete, Read, LastPayload, EndReply, OpenCli, CancelCli, StartTimesOut, Hear
  <2> QED
    BY <2>1 DEF Served, history
<1> QED
  BY <1>2, <1>3, <1>4, <1>5 DEF Works

LEMMA CountedKept ==
  ASSUME IInv, RInv, [Next]_vars
  PROVE  Counted'
<1>0. /\ requests \in Nat /\ MaxRequests \in Nat /\ tasks \in Seq(Nat)
      /\ requests <= MaxRequests /\ DOMAIN served \subseteq 1..requests
      /\ \A i \in DOMAIN tasks : /\ tasks[i] \in 1..requests /\ tasks[i] \notin DOMAIN served
                                 /\ tasks[i] = requests \/ tasks[i] \in cancelled
      /\ ~Free => /\ worker.request \in 1..requests
                  /\ worker.request = requests \/ worker.request \in cancelled
  BY StreamAssumption DEF IInv, Shape, RInv, Counted
<1>1. CASE Submit
  <2>1. /\ requests' = requests + 1 /\ tasks' = Append(tasks, requests + 1) /\ requests < MaxRequests
        /\ UNCHANGED <<cancelled, worker, served>> /\ (requests = 0 \/ Over(requests))
    BY <1>1 DEF Submit, history
  <2>2. \A i \in DOMAIN tasks : tasks[i] \in cancelled
    <3> SUFFICES ASSUME NEW i \in DOMAIN tasks, tasks[i] = requests, requests \notin cancelled PROVE FALSE
      BY <1>0
    <3>1. Over(requests)
      BY <1>0, <2>1
    <3>2. PICK k \in DOMAIN events : events[k].request = requests /\ Terminal(events[k])
      BY <3>1 DEF Over, Terminal
    <3> QED
      BY <3>2 DEF IInv, OnePlace
  <2>3. ~Free => worker.request \in cancelled
    <3> SUFFICES ASSUME ~Free, worker.request = requests, requests \notin cancelled PROVE FALSE
      BY <1>0
    <3>1. Over(requests)
      BY <1>0, <2>1
    <3>2. PICK k \in DOMAIN events : events[k].request = requests /\ Terminal(events[k])
      BY <3>1 DEF Over, Terminal
    <3> QED
      BY <3>2 DEF IInv, OnePlace
  <2>4. \A i \in DOMAIN tasks' : tasks'[i] = requests + 1 \/ (i \in DOMAIN tasks /\ tasks'[i] = tasks[i])
    BY <1>0, <2>1
  <2>5. requests + 1 <= MaxRequests /\ 1..requests \subseteq 1..(requests + 1) /\ requests + 1 \in 1..(requests + 1)
        /\ requests + 1 \notin 1..requests
    BY <1>0, <2>1
  <2>6. requests' <= MaxRequests /\ DOMAIN served' \subseteq 1..requests'
    BY <1>0, <2>1, <2>5
  <2>7. (\A i \in DOMAIN tasks : /\ tasks[i] \in 1..requests \ DOMAIN served
                                 /\ tasks[i] = requests \/ tasks[i] \in cancelled)'
    <3> SUFFICES ASSUME NEW i \in DOMAIN tasks'
                 PROVE  /\ tasks'[i] \in 1..requests' \ DOMAIN served'
                        /\ tasks'[i] = requests' \/ tasks'[i] \in cancelled'
      OBVIOUS
    <3>1. CASE tasks'[i] = requests + 1
      BY <1>0, <2>1, <2>5, <3>1
    <3>2. CASE i \in DOMAIN tasks /\ tasks'[i] = tasks[i]
      BY <1>0, <2>1, <2>2, <2>5, <3>2
    <3> QED
      BY <2>4, <3>1, <3>2
  <2>8. (~Free => /\ worker.request \in 1..requests
                  /\ worker.request = requests \/ worker.request \in cancelled)'
    BY <1>0, <2>1, <2>3, <2>5 DEF Free
  <2> QED
    BY <2>6, <2>7, <2>8 DEF Counted
<1>2. CASE Cancel \/ Shutdown
  <2>1. UNCHANGED <<requests, tasks, served, worker>> /\ cancelled \subseteq cancelled'
    BY <1>2 DEF Cancel, Shutdown, history
  <2> QED
    BY <1>0, <2>1 DEF Counted, Free
<1>3. CASE Take
  <2>1. /\ UNCHANGED <<requests, cancelled, served>> /\ Free /\ tasks # <<>> /\ tasks' = Tail(tasks)
    BY <1>3 DEF Take, Free, history
  <2>2. worker' = worker \/ worker'.request = tasks[1]
    BY <1>0, <1>3 DEF Take, Idle
  <2>3. /\ 1 \in DOMAIN tasks
        /\ \A i \in DOMAIN tasks' : i + 1 \in DOMAIN tasks /\ tasks'[i] = tasks[i + 1]
    BY <1>0, <2>1
  <2>4. (\A i \in DOMAIN tasks : /\ tasks[i] \in 1..requests \ DOMAIN served
                                 /\ tasks[i] = requests \/ tasks[i] \in cancelled)'
    BY <1>0, <2>1, <2>3
  <2>5. (~Free => /\ worker.request \in 1..requests
                  /\ worker.request = requests \/ worker.request \in cancelled)'
    BY <1>0, <2>1, <2>2, <2>3 DEF Free
  <2> QED
    BY <1>0, <2>1, <2>4, <2>5 DEF Counted
<1>4. CASE Exit \/ (\E kind \in Http \cup {Cli} : SwapProvider(kind)) \/ Process \/ UNCHANGED vars
  <2>1. UNCHANGED <<requests, tasks, cancelled, served>> /\ (Free' \/ worker' = worker)
    <3>1. CASE Exit
      <4>1. UNCHANGED <<requests, tasks, cancelled, served>> /\ worker' = [worker EXCEPT !.at = "ended"]
        BY <3>1 DEF Exit, main, history
      <4>2. worker'.at = "ended"
        BY <4>1, SetAt DEF IInv, Shape
      <4> QED
        BY <4>1, <4>2 DEF Free
    <3>2. CASE \E kind \in Http \cup {Cli} : SwapProvider(kind)
      BY <3>2 DEF SwapProvider, main
    <3>3. CASE Process \/ UNCHANGED vars
      BY <3>3 DEF Process, CliSays, CliDies, vars, main, history
    <3> QED
      BY <1>4, <3>1, <3>2, <3>3
  <2> QED
    BY <1>0, <2>1 DEF Counted, Free
<1>5. CASE Works
  <2>1. /\ ~Free /\ UNCHANGED <<requests, tasks, cancelled>>
        /\ ~Free' => worker'.request = worker.request
        /\ DOMAIN served' \subseteq DOMAIN served \cup {worker.request}
    BY <1>5, WorksServes, WorksServed DEF RInv, Serves, Served
  <2>2. \A i \in DOMAIN tasks : tasks[i] # worker.request
    BY <2>1 DEF IInv, OnePlace
  <2> QED
    BY <1>0, <2>1, <2>2 DEF Counted
<1> QED
  BY <1>1, <1>2, <1>3, <1>4, <1>5 DEF Next, User, Run, Works

-----------------------------------------------------------------------------
(* What each action does to the providers *)

LEMMA MineIs ==
  ASSUME Provided, ~Free
  PROVE  worker.by \in DOMAIN providers /\ AProvider(Mine) /\ AProvider(providers[worker.by]) /\ Mine.cli \in CliStates
BY DEF Provided, Mine, AProvider

LEMMA ShutdownTo ==
  ASSUME Provided, Shutdown
  PROVE  LET n == Len(providers)
         IN  n \in DOMAIN providers /\ Becomes(n, providers[n].acc, providers[n].calls, Closed(providers[n].cli))
<1> DEFINE n == Len(providers)
<1>1. n \in DOMAIN providers
  BY DEF Provided, ASequence
<1>2. AProvider(providers[n])
  BY <1>1 DEF Provided
<1>3. providers' = [providers EXCEPT ![n].cli = Closed(providers[n].cli)]
  BY DEF Shutdown
<1> HIDE DEF n
<1>4. Becomes(n, providers[n].acc, providers[n].calls, Closed(providers[n].cli))
  BY <1>1, <1>2, <1>3, SetsCli
<1> QED
  BY <1>1, <1>4 DEF n

LEMMA ResetIs ==
  ASSUME NEW p, AProvider(p), NEW q, q = [p EXCEPT !.acc = <<>>, !.calls = <<>>]
  PROVE  q = [kind |-> p.kind, acc |-> <<>>, calls |-> <<>>, cli |-> p.cli]
<1>1. PICK e : e = [p EXCEPT !.acc = <<>>]
  OBVIOUS
<1>2. e = [kind |-> p.kind, acc |-> <<>>, calls |-> p.calls, cli |-> p.cli]
  BY <1>1 DEF AProvider
<1>3. q = [e EXCEPT !.calls = <<>>]
  BY <1>1
<1> QED
  BY <1>2, <1>3, Zenon

LEMMA ConnectTo ==
  ASSUME Provided, Connect
  PROVE  Becomes(worker.by, <<>>, <<>>, Mine.cli)
<1>1. ~Free
  BY DEF Connect, Free
<1> DEFINE i == worker.by
           p == providers[i]
<1>2. i \in DOMAIN providers /\ AProvider(p)
  BY <1>1, MineIs
<1>3. PICK q : q = [p EXCEPT !.acc = <<>>, !.calls = <<>>]
  OBVIOUS
<1>4. providers' = [providers EXCEPT ![i] = q]
  BY <1>3 DEF Connect, Reset
<1>5. q = [kind |-> p.kind, acc |-> <<>>, calls |-> <<>>, cli |-> p.cli]
  <2> HIDE DEF p
  <2> QED
    BY <1>2, <1>3, ResetIs, Zenon
<1> QED
  BY <1>4, <1>5, Zenon DEF Becomes, Mine

LEMMA PayloadTo ==
  ASSUME Provided, Payload
  PROVE  \/ Fail /\ UNCHANGED <<providers, broken>>
            /\ (Head(stream.todo) \notin DOMAIN Meaning \/ Odd(Head(stream.todo)))
         \/ /\ Head(stream.todo) \in DOMAIN Meaning
            /\ Becomes(worker.by, FoldLeft(FeedDelta, Mine.acc, Meaning[Head(stream.todo)].deltas), Mine.calls, Mine.cli)
            /\ worker' = [worker EXCEPT !.text = worker.text \o Meaning[Head(stream.todo)].text]
            /\ stream' = [stream EXCEPT !.todo = Tail(stream.todo)]
            /\ \/ events' = events
               \/ events' = Append(events, Answer("delta", Meaning[Head(stream.todo)].text, <<>>))
<1>1. ~Free
  BY DEF Payload, Free
<1> DEFINE i == worker.by
           p == Head(stream.todo)
<1>2. i \in DOMAIN providers /\ AProvider(providers[i])
  BY <1>1, MineIs
<1>3. CASE p \in DOMAIN Meaning /\ ~Odd(p)
  <2> DEFINE a == FoldLeft(FeedDelta, providers[i].acc, Meaning[p].deltas)
  <2>1. /\ providers' = [providers EXCEPT ![i].acc = a]
        /\ worker' = [worker EXCEPT !.text = worker.text \o Meaning[p].text]
        /\ stream' = [stream EXCEPT !.todo = Tail(stream.todo)]
        /\ events' = events \/ events' = Append(events, Answer("delta", Meaning[p].text, <<>>))
    BY <1>3 DEF Payload, Heard
  <2> HIDE DEF a, p, i
  <2>2. Becomes(i, a, providers[i].calls, providers[i].cli)
    BY <1>2, <2>1, SetsAcc
  <2> QED
    BY <1>3, <2>1, <2>2, Zenon DEF a, p, i, Mine
<1>4. CASE ~(p \in DOMAIN Meaning /\ ~Odd(p))
  <2>1. Fail /\ UNCHANGED providers
    BY <1>4 DEF Payload, Heard
  <2>2. p \notin Sorry
    BY <1>4 DEF Sorry, Odd
  <2>3. UNCHANGED broken
    BY <2>2 DEF Payload
  <2> QED
    BY <1>4, <2>1, <2>3
<1> QED
  BY <1>3, <1>4

LEMMA EndReplyTo ==
  ASSUME Provided, EndReply
  PROVE  LET whole == (Mine.kind = "openai" => Closes(stream.parser)) /\ Finalizes(Mine.acc)
         IN  \/ ~whole /\ Fail /\ UNCHANGED providers
             \/ /\ whole /\ Becomes(worker.by, Mine.acc, Finalized(Mine.acc), Mine.cli)
                /\ worker' = [worker EXCEPT !.at = "completed"] /\ UNCHANGED <<stream, events>>
<1>1. ~Free
  BY DEF EndReply, Free
<1> DEFINE i == worker.by
           whole == (Mine.kind = "openai" => Closes(stream.parser)) /\ Finalizes(Mine.acc)
<1>2. i \in DOMAIN providers /\ AProvider(providers[i])
  BY <1>1, MineIs
<1>3. CASE whole
  <2> DEFINE a == Finalized(providers[i].acc)
  <2>1. /\ providers' = [providers EXCEPT ![i].calls = a]
        /\ worker' = [worker EXCEPT !.at = "completed"] /\ UNCHANGED <<stream, events>>
    BY <1>3 DEF EndReply, Mine
  <2> HIDE DEF a, i
  <2>2. Becomes(i, providers[i].acc, a, providers[i].cli)
    BY <1>2, <2>1, SetsCalls
  <2> QED
    BY <1>3, <2>1, <2>2, Zenon DEF a, i, Mine
<1>4. CASE ~whole
  BY <1>4 DEF EndReply
<1> QED
  BY <1>3, <1>4

NewProcess == [open |-> TRUE, alive |-> TRUE, ready |-> FALSE, say |-> <<[kind |-> "init", request |-> 0]>>, out |-> <<>>]

LEMMA OpenCliTo ==
  ASSUME Provided, OpenCli
  PROVE  Becomes(worker.by, Mine.acc, <<>>, IF Mine.cli.open /\ Mine.cli.alive THEN Mine.cli ELSE NewProcess)
<1>1. ~Free
  BY DEF OpenCli, Free
<1> DEFINE i == worker.by
           c == IF providers[i].cli.open /\ providers[i].cli.alive THEN providers[i].cli ELSE NewProcess
<1>2. i \in DOMAIN providers /\ AProvider(providers[i])
  BY <1>1, MineIs
<1>3. providers' = [providers EXCEPT ![i].calls = <<>>, ![i].cli = c]
  BY DEF OpenCli, NewProcess
<1> HIDE DEF c, i
<1>4. Becomes(i, providers[i].acc, <<>>, c)
  BY <1>2, <1>3, SetsBoth
<1> QED
  BY <1>4, Zenon DEF c, i, Mine

Asking == <<[kind |-> "update", request |-> worker.request], [kind |-> "result", request |-> worker.request]>>

LEMMA SendPromptTo ==
  ASSUME Provided, SendPrompt
  PROVE  \/ /\ Mine.cli.alive /\ Mine.cli.ready /\ worker' = [worker EXCEPT !.wrote = TRUE] /\ UNCHANGED events
            /\ Becomes(worker.by, Mine.acc, Mine.calls,
                       [open |-> Mine.cli.open, alive |-> Mine.cli.alive, ready |-> Mine.cli.ready,
                        say |-> Mine.cli.say \o Asking, out |-> Mine.cli.out])
            /\ \E reply : /\ reply.kind = Cli
                          /\ served' = [r \in DOMAIN served \cup {worker.request} |->
                                         IF r = worker.request THEN reply ELSE served[r]]
         \/ /\ Fail /\ Becomes(worker.by, Mine.acc, Mine.calls, Closed(Mine.cli)) /\ UNCHANGED served
<1>1. ~Free
  BY DEF SendPrompt, Free
<1> DEFINE i == worker.by
           c == [Mine.cli EXCEPT !.say = Mine.cli.say \o Asking]
<1>2. i \in DOMAIN providers /\ AProvider(providers[i]) /\ Mine.cli \in CliStates
  BY <1>1, MineIs
<1>3. CASE Mine.cli.alive
  <2>1. /\ providers' = [providers EXCEPT ![i].cli = c]
        /\ worker' = [worker EXCEPT !.wrote = TRUE] /\ UNCHANGED events /\ Mine.cli.ready
        /\ \E reply : /\ reply.kind = Cli
                      /\ served' = [r \in DOMAIN served \cup {worker.request} |->
                                     IF r = worker.request THEN reply ELSE served[r]]
    BY <1>3 DEF SendPrompt, SetCli, Asking
  <2>2. c = [open |-> Mine.cli.open, alive |-> Mine.cli.alive, ready |-> Mine.cli.ready,
             say |-> Mine.cli.say \o Asking, out |-> Mine.cli.out]
    <3>1. PICK cli \in CliStates : cli = Mine.cli
      BY <1>2
    <3>2. PICK a : a = cli.say \o Asking
      OBVIOUS
    <3>3. PICK d : d = [cli EXCEPT !.say = a]
      OBVIOUS
    <3>4. d = [open |-> cli.open, alive |-> cli.alive, ready |-> cli.ready, say |-> a, out |-> cli.out]
      BY <3>3, CliIs
    <3> QED
      BY <3>1, <3>2, <3>3, <3>4, Zenon
  <2> HIDE DEF c, i
  <2>3. Becomes(i, providers[i].acc, providers[i].calls, c)
    BY <1>2, <2>1, SetsCli
  <2> QED
    BY <1>3, <2>1, <2>2, <2>3, Zenon DEF i, Mine
<1>4. CASE ~Mine.cli.alive
  <2>1. /\ providers' = [providers EXCEPT ![i].cli = Closed(Mine.cli)] /\ Fail /\ UNCHANGED served
    BY <1>4 DEF SendPrompt, SetCli
  <2> HIDE DEF i
  <2>2. Becomes(i, providers[i].acc, providers[i].calls, Closed(Mine.cli))
    BY <1>2, <2>1, SetsCli
  <2> QED
    BY <2>1, <2>2, Zenon DEF i, Mine
<1> QED
  BY <1>3, <1>4

LEMMA CloseTo ==
  ASSUME Provided, CancelCli \/ StartTimesOut
  PROVE  Becomes(worker.by, Mine.acc, Mine.calls, Closed(Mine.cli))
<1>1. ~Free
  BY DEF CancelCli, StartTimesOut, Listening, Free
<1> DEFINE i == worker.by
<1>2. i \in DOMAIN providers /\ AProvider(providers[i])
  BY <1>1, MineIs
<1>3. providers' = [providers EXCEPT ![i].cli = Closed(Mine.cli)]
  BY DEF CancelCli, StartTimesOut, SetCli
<1> HIDE DEF i
<1>4. Becomes(i, providers[i].acc, providers[i].calls, Closed(Mine.cli))
  BY <1>2, <1>3, SetsCli
<1> QED
  BY <1>4, Zenon DEF i, Mine

\* The process of the worker when its first message was heard.
Listened == [open |-> Mine.cli.open, alive |-> Mine.cli.alive, ready |-> Mine.cli.ready, say |-> Mine.cli.say,
             out |-> Tail(Mine.cli.out)]
Greeted  == [open |-> Mine.cli.open, alive |-> Mine.cli.alive, ready |-> TRUE, say |-> Mine.cli.say, out |-> Tail(Mine.cli.out)]

LEMMA HearTo ==
  ASSUME Provided, Hear
  PROVE  LET said == Head(Mine.cli.out)
         IN  \/ said.kind = "init" /\ Becomes(worker.by, Mine.acc, Mine.calls, Greeted) /\ UNCHANGED <<worker, events>>
             \/ said.kind = "eof" /\ Becomes(worker.by, Mine.acc, Mine.calls, Closed(Listened)) /\ Fail
             \/ /\ said.kind = "result" /\ worker.wrote /\ ~served[said.request].sound
                /\ Becomes(worker.by, Mine.acc, Mine.calls, Listened) /\ Fail
             \/ /\ said.kind = "result" /\ worker.wrote /\ served[said.request].sound
                /\ Becomes(worker.by, Mine.acc, served[said.request].calls, Listened)
                /\ worker' = [worker EXCEPT !.at = "completed", !.text = served[said.request].text]
                /\ \/ events' = events
                   \/ events' = Append(events, Answer("delta", served[said.request].text, <<>>))
             \/ /\ said.kind = "result" => ~worker.wrote
                /\ Becomes(worker.by, Mine.acc, Mine.calls, Listened) /\ UNCHANGED <<worker, events>>
<1>1. ~Free
  BY DEF Hear, Listening, Free
<1> DEFINE i == worker.by
           said == Head(Mine.cli.out)
<1>2. i \in DOMAIN providers /\ AProvider(providers[i]) /\ Mine.cli \in CliStates
  BY <1>1, MineIs
<1>3. PICK heard, ready : heard = [Mine.cli EXCEPT !.out = Tail(Mine.cli.out)] /\ ready = [heard EXCEPT !.ready = TRUE]
  OBVIOUS
<1>4. heard = Listened /\ ready = Greeted
  <2>1. PICK cli \in CliStates : cli = Mine.cli
    BY <1>2
  <2>2. PICK a : a = Tail(cli.out)
    OBVIOUS
  <2>3. heard = [cli EXCEPT !.out = a] /\ ready = [heard EXCEPT !.ready = TRUE]
    BY <1>3, <2>1, <2>2
  <2>4. heard = [open |-> cli.open, alive |-> cli.alive, ready |-> cli.ready, say |-> cli.say, out |-> a]
    BY <2>3, CliIs
  <2>5. ready = [open |-> cli.open, alive |-> cli.alive, ready |-> TRUE, say |-> cli.say, out |-> a]
    BY <2>3, <2>4, Zenon
  <2> QED
    BY <2>1, <2>2, <2>4, <2>5, Zenon DEF Listened, Greeted
<1>5. ASSUME NEW c, providers' = [providers EXCEPT ![i].cli = c] PROVE Becomes(i, Mine.acc, Mine.calls, c)
  <2> HIDE DEF i
  <2>1. Becomes(i, providers[i].acc, providers[i].calls, c)
    BY <1>2, <1>5, SetsCli
  <2> QED
    BY <2>1, Zenon DEF i, Mine
<1>6. ASSUME NEW c, NEW a, providers' = [providers EXCEPT ![i].cli = c, ![i].calls = a] PROVE Becomes(i, Mine.acc, a, c)
  <2> HIDE DEF i
  <2>1. Becomes(i, providers[i].acc, a, c)
    BY <1>2, <1>6, SetsBoth
  <2> QED
    BY <2>1, Zenon DEF i, Mine
<1>7. CASE said.kind = "init"
  <2>1. providers' = [providers EXCEPT ![i].cli = ready] /\ UNCHANGED <<worker, events>>
    BY <1>3, <1>7 DEF Hear, SetCli
  <2>2. Becomes(i, Mine.acc, Mine.calls, ready)
    BY <2>1, <1>5
  <2> QED
    BY <1>4, <1>7, <2>1, <2>2, Zenon
<1>8. CASE said.kind = "eof"
  <2>1. providers' = [providers EXCEPT ![i].cli = Closed(heard)] /\ Fail
    BY <1>3, <1>8 DEF Hear, SetCli
  <2>2. Becomes(i, Mine.acc, Mine.calls, Closed(heard))
    BY <2>1, <1>5
  <2> QED
    BY <1>4, <1>8, <2>1, <2>2, Zenon
<1>9. CASE said.kind = "result" /\ worker.wrote /\ ~served[said.request].sound
  <2>1. providers' = [providers EXCEPT ![i].cli = heard] /\ Fail
    BY <1>3, <1>9 DEF Hear, SetCli
  <2>2. Becomes(i, Mine.acc, Mine.calls, heard)
    BY <2>1, <1>5
  <2> QED
    BY <1>4, <1>9, <2>1, <2>2, Zenon
<1>10. CASE said.kind = "result" /\ worker.wrote /\ served[said.request].sound
  <2>1. /\ providers' = [providers EXCEPT ![i].cli = heard, ![i].calls = served[said.request].calls]
        /\ worker' = [worker EXCEPT !.at = "completed", !.text = served[said.request].text]
        /\ \/ events' = events
           \/ events' = Append(events, Answer("delta", served[said.request].text, <<>>))
    BY <1>3, <1>10 DEF Hear, SetCli
  <2>2. Becomes(i, Mine.acc, served[said.request].calls, heard)
    BY <2>1, <1>6
  <2> QED
    BY <1>4, <1>10, <2>1, <2>2, Zenon
<1>11. CASE said.kind \notin {"init", "eof"} /\ ~(said.kind = "result" /\ worker.wrote)
  <2>1. providers' = [providers EXCEPT ![i].cli = heard] /\ UNCHANGED <<worker, events>>
    BY <1>3, <1>11 DEF Hear, SetCli
  <2>2. Becomes(i, Mine.acc, Mine.calls, heard)
    BY <2>1, <1>5
  <2> QED
    BY <1>4, <1>11, <2>1, <2>2, Zenon
<1> QED
  BY <1>7, <1>8, <1>9, <1>10, <1>11, Zenon

LEMMA SaysTo ==
  ASSUME Provided, NEW i \in DOMAIN providers, CliSays(i)
  PROVE  LET c == providers[i].cli
         IN  /\ c.say # <<>>
             /\ Becomes(i, providers[i].acc, providers[i].calls,
                        [open |-> c.open, alive |-> c.alive, ready |-> c.ready, say |-> Tail(c.say),
                         out |-> Append(c.out, Head(c.say))])
<1>1. PICK a, b : a = Tail(providers[i].cli.say) /\ b = Append(providers[i].cli.out, Head(providers[i].cli.say))
  OBVIOUS
<1>2. providers[i].cli.say # <<>> /\ providers' = [providers EXCEPT ![i].cli.say = a, ![i].cli.out = b]
      /\ AProvider(providers[i])
  BY <1>1 DEF CliSays, Provided
<1>3. Becomes(i, providers[i].acc, providers[i].calls,
              [open |-> providers[i].cli.open, alive |-> providers[i].cli.alive, ready |-> providers[i].cli.ready,
               say |-> a, out |-> b])
  BY <1>2, SaysIs
<1> QED
  BY <1>1, <1>2, <1>3, Zenon

LEMMA DiesTo ==
  ASSUME Provided, NEW i \in DOMAIN providers, CliDies(i)
  PROVE  LET c == providers[i].cli
         IN  Becomes(i, providers[i].acc, providers[i].calls,
                     [open |-> c.open, alive |-> FALSE, ready |-> c.ready, say |-> <<[kind |-> "eof", request |-> 0]>>,
                      out |-> c.out])
<1>1. PICK a : a = <<[kind |-> "eof", request |-> 0]>>
  OBVIOUS
<1>2. providers' = [providers EXCEPT ![i].cli.alive = FALSE, ![i].cli.say = a] /\ AProvider(providers[i])
  BY <1>1 DEF CliDies, Provided
<1>3. Becomes(i, providers[i].acc, providers[i].calls,
              [open |-> providers[i].cli.open, alive |-> FALSE, ready |-> providers[i].cli.ready, say |-> a,
               out |-> providers[i].cli.out])
  BY <1>2, DiesIs
<1> QED
  BY <1>1, <1>3, Zenon

-----------------------------------------------------------------------------
(* The providers stay what they are *)

LEMMA ProvidedBy ==
  ASSUME Provided, NEW i \in DOMAIN providers, NEW acc, NEW calls, NEW cli \in CliStates, Becomes(i, acc, calls, cli),
         (~Free /\ i = worker.by) \/ calls = providers[i].calls,
         Free' \/ (~Free /\ worker'.by = worker.by /\ worker'.request = worker.request), swapped \subseteq swapped'
  PROVE  Provided'
<1>1. /\ ASequence(providers)' /\ (providers # <<>>)' /\ DOMAIN providers' = DOMAIN providers
      /\ Len(providers') = Len(providers) /\ Len(providers) \in DOMAIN providers
      /\ \A j \in DOMAIN providers : AProvider(providers'[j])
      /\ providers'[i].calls = calls
      /\ \A j \in DOMAIN providers : j # i => providers'[j] = providers[j]
  BY BecomesIs
<1>2. ASSUME ~Free'
      PROVE  /\ worker'.by \in DOMAIN providers'
             /\ worker'.by = Len(providers') \/ (worker'.request \in swapped' /\ Current'.calls = <<>>)
  <2>1. /\ worker'.by = worker.by /\ worker'.request = worker.request /\ worker.by \in DOMAIN providers
        /\ worker.by = Len(providers) \/ (worker.request \in swapped /\ Current.calls = <<>>)
    BY <1>2 DEF Provided
  <2>2. CASE worker.by = Len(providers)
    BY <1>1, <2>1, <2>2
  <2>3. CASE worker.by # Len(providers)
    <3>1. Current'.calls = Current.calls
      <4>1. CASE i = Len(providers)
        BY <1>1, <2>3, <4>1 DEF Current
      <4>2. CASE i # Len(providers)
        BY <1>1, <4>2 DEF Current
      <4> QED
        BY <4>1, <4>2
    <3> QED
      BY <1>1, <2>1, <2>3, <3>1
  <2> QED
    BY <2>2, <2>3
<1>3. (\A j \in DOMAIN providers : AProvider(providers[j]))'
  BY <1>1 DEF AProvider
<1> QED
  BY <1>1, <1>2, <1>3 DEF Provided

\* The processes after each action are processes.
LEMMA NewProcessIs == NewProcess \in CliStates
<1>1. [kind |-> "init", request |-> 0] \in Messages
  BY DEF Messages
<1> QED
  BY <1>1 DEF NewProcess, CliStates

LEMMA RecordIs ==
  ASSUME NEW o \in BOOLEAN, NEW a \in BOOLEAN, NEW r \in BOOLEAN, NEW s \in Seq(Messages), NEW q \in Seq(Messages)
  PROVE  [open |-> o, alive |-> a, ready |-> r, say |-> s, out |-> q] \in CliStates
BY DEF CliStates

LEMMA FieldsIs ==
  ASSUME NEW c \in CliStates
  PROVE  c.open \in BOOLEAN /\ c.alive \in BOOLEAN /\ c.ready \in BOOLEAN /\ c.say \in Seq(Messages) /\ c.out \in Seq(Messages)
BY DEF CliStates

LEMMA AskingIs ==
  ASSUME NEW c \in CliStates, worker.request \in Nat
  PROVE  [open |-> c.open, alive |-> c.alive, ready |-> c.ready, say |-> c.say \o Asking, out |-> c.out] \in CliStates
<1>1. Asking \in Seq(Messages)
  BY DEF Asking, Messages
<1>2. c.say \o Asking \in Seq(Messages)
  BY <1>1, FieldsIs
<1> QED
  BY <1>2, FieldsIs, RecordIs

LEMMA ListenedIs ==
  ASSUME Mine.cli \in CliStates, Mine.cli.out # <<>>
  PROVE  Listened \in CliStates /\ Greeted \in CliStates
<1> DEFINE c == Mine.cli
<1>1. c \in CliStates /\ c.out # <<>>
  OBVIOUS
<1>2. Listened = [open |-> c.open, alive |-> c.alive, ready |-> c.ready, say |-> c.say, out |-> Tail(c.out)]
  BY DEF Listened
<1>3. Greeted = [open |-> c.open, alive |-> c.alive, ready |-> TRUE, say |-> c.say, out |-> Tail(c.out)]
  BY DEF Greeted
<1> HIDE DEF c
<1>4. c.out \in Seq(Messages) /\ Tail(c.out) \in Seq(Messages)
  BY <1>1, FieldsIs
<1> QED
  BY <1>1, <1>2, <1>3, <1>4, FieldsIs, RecordIs

LEMMA SaidIs ==
  ASSUME NEW c \in CliStates, c.say # <<>>
  PROVE  [open |-> c.open, alive |-> c.alive, ready |-> c.ready, say |-> Tail(c.say),
          out |-> Append(c.out, Head(c.say))] \in CliStates
<1>1. Tail(c.say) \in Seq(Messages) /\ Append(c.out, Head(c.say)) \in Seq(Messages)
  <2>1. c.say \in Seq(Messages) /\ c.out \in Seq(Messages)
    BY FieldsIs
  <2> QED
    BY <2>1
<1> QED
  BY <1>1, FieldsIs, RecordIs

LEMMA DeadIs ==
  ASSUME NEW c \in CliStates
  PROVE  [open |-> c.open, alive |-> FALSE, ready |-> c.ready, say |-> <<[kind |-> "eof", request |-> 0]>>,
          out |-> c.out] \in CliStates
<1>1. <<[kind |-> "eof", request |-> 0]>> \in Seq(Messages)
  BY DEF Messages
<1> QED
  BY <1>1, FieldsIs, RecordIs

LEMMA ProvidedKept ==
  ASSUME IInv, RInv, [Next]_vars
  PROVE  Provided'
<1>p. Provided /\ Asked /\ worker.request \in Nat
  BY DEF RInv, IInv, Shape
<1>1. CASE Submit \/ Cancel \/ UNCHANGED vars
  <2>1. UNCHANGED <<providers, worker>> /\ swapped \subseteq swapped'
    BY <1>1 DEF Submit, Cancel, vars, history
  <2> QED
    BY <1>p, <2>1 DEF Provided, AProvider, ASequence, Free, Current
<1>2. CASE Take
  <2>1. UNCHANGED providers /\ (worker' = worker \/ worker'.by = Len(providers)) /\ swapped' = swapped /\ Free
    BY <1>2 DEF Take, Idle, history, Free
  <2>2. Len(providers) \in DOMAIN providers
    BY <1>p DEF Provided, ASequence
  <2> QED
    BY <1>p, <2>1, <2>2 DEF Provided, AProvider, ASequence, Free
<1>3. CASE Exit
  <2>1. UNCHANGED providers /\ worker' = [worker EXCEPT !.at = "ended"]
    BY <1>3 DEF Exit
  <2>2. Free'
    BY <2>1, SetAt DEF IInv, Shape, Free
  <2> QED
    BY <1>p, <2>1, <2>2 DEF Provided, AProvider, ASequence
<1>4. ASSUME NEW kind \in Http \cup {Cli}, SwapProvider(kind)
      PROVE  Provided'
  <2> DEFINE n == Len(providers)
             p == Retired(providers[n])
             q == Provider(kind)
             s == [providers EXCEPT ![n] = p]
  <2>1. n \in DOMAIN providers /\ ASequence(providers) /\ AProvider(providers[n])
    BY <1>p DEF Provided, ASequence
  <2>2. providers' = Append(s, q) /\ UNCHANGED worker /\ swapped' = swapped \cup {r \in 1..requests : Busy(r)}
    BY <1>4 DEF SwapProvider, main
  <2>3. AProvider(q) /\ q.calls = <<>>
    BY DEF Provider, AProvider, CliStates, NoProcess, Http, Cli
  <2>4. AProvider(p)
    <3>1. providers[n].cli \in CliStates /\ providers[n].kind \in Http \cup {Cli}
      BY <2>1 DEF AProvider
    <3>2. CASE worker.at # "idle"
      <4>1. Closed(providers[n].cli) \in CliStates
        BY <3>1, ClosedIs
      <4>2. p = [providers[n] EXCEPT !.cli = Closed(providers[n].cli)]
        BY <3>2 DEF Retired
      <4> HIDE DEF p
      <4> QED
        BY <2>1, <4>1, <4>2 DEF AProvider
    <3>3. CASE worker.at = "idle"
      <4>1. p = Provider(providers[n].kind)
        BY <3>3 DEF Retired
      <4>2. AProvider(Provider(providers[n].kind))
        BY <3>1 DEF Provider, AProvider, CliStates, NoProcess
      <4> QED
        BY <4>1, <4>2
    <3> QED
      BY <3>2, <3>3
  <2>5. PICK t : t = With(providers, n, p)
    OBVIOUS
  <2>6. s = t
    BY <2>5 DEF With
  <2> HIDE DEF n, p, q, s
  <2>7. /\ ASequence(t) /\ DOMAIN t = DOMAIN providers /\ Len(t) = Len(providers)
        /\ t[n] = p /\ \A j \in DOMAIN providers : j # n => t[j] = providers[j]
    BY <2>1, <2>5, Exchanged
  <2>8. /\ ASequence(providers') /\ DOMAIN t = 1..Len(t) /\ Len(t) \in Nat
        /\ DOMAIN providers' = 1..Len(t) + 1
        /\ \A j \in 1..Len(t) : providers'[j] = t[j]
        /\ providers'[Len(t) + 1] = q
    BY <2>2, <2>6, <2>7, Appended
  <2>9. \A j \in DOMAIN providers' : AProvider(providers'[j])
    BY <1>p, <2>3, <2>4, <2>7, <2>8 DEF Provided
  <2>10. Len(providers') = Len(t) + 1
    BY <2>2, <2>6, <2>7 DEF ASequence
  <2>11. Current'.calls = <<>> /\ providers' # <<>>
    BY <2>3, <2>8, <2>10 DEF Current
  <2>12. ~Free' => worker'.by \in DOMAIN providers' /\ worker'.request \in swapped'
    <3>1. ~Free => worker.by \in DOMAIN providers /\ worker.request \in 1..requests
      BY DEF RInv, Provided, Counted
    <3>2. ~Free => Busy(worker.request)
      BY DEF Free, Busy
    <3>3. ~Free => worker.by \in DOMAIN providers'
      BY <2>7, <2>8, <3>1
    <3> QED
      BY <2>2, <3>1, <3>2, <3>3 DEF Free
  <2> QED
    BY <2>8, <2>9, <2>11, <2>12 DEF Provided, AProvider
<1>5. CASE Shutdown
  <2>1. PICK n, c : /\ n \in DOMAIN providers /\ c = Closed(providers[n].cli)
                    /\ Becomes(n, providers[n].acc, providers[n].calls, c)
    BY <1>5, <1>p, ShutdownTo
  <2>2. c \in CliStates
    BY <1>p, <2>1, ClosedIs DEF Provided, AProvider
  <2>3. UNCHANGED <<worker, swapped>>
    BY <1>5 DEF Shutdown, history
  <2> QED
    BY <1>p, <2>1, <2>2, <2>3, ProvidedBy DEF Free
<1>6. CASE Works
  <2>1. /\ ~Free /\ (Free' \/ (~Free /\ worker'.by = worker.by /\ worker'.request = worker.request))
        /\ swapped \subseteq swapped'
    BY <1>6, <1>p, WorksServes, WorksServed DEF Serves, Served
  <2>2. worker.by \in DOMAIN providers /\ Mine.cli \in CliStates
    BY <1>p, <2>1, MineIs
  <2>3. ASSUME UNCHANGED providers PROVE Provided'
    BY <1>p, <2>1, <2>3 DEF Provided, AProvider, ASequence, Current
  <2>4. ASSUME NEW acc, NEW calls, NEW cli \in CliStates, Becomes(worker.by, acc, calls, cli) PROVE Provided'
    BY <1>p, <2>1, <2>2, <2>4, ProvidedBy
  <2>5. CASE GiveUp \/ Refuse \/ Complete \/ (\E n \in ReadSizes : Read(n)) \/ EndOfStream \/ LastPayload
    <3>1. UNCHANGED providers
      BY <2>5 DEF GiveUp, Refuse, Complete, Read, EndOfStream, LastPayload
    <3> QED
      BY <2>3, <3>1
  <2>6. CASE Connect
    BY <1>p, <2>2, <2>4, <2>6, ConnectTo
  <2>7. CASE Payload
    BY <1>p, <2>2, <2>3, <2>4, <2>7, PayloadTo
  <2>8. CASE EndReply
    BY <1>p, <2>2, <2>3, <2>4, <2>8, EndReplyTo
  <2>9. CASE OpenCli
    BY <1>p, <2>2, <2>4, <2>9, OpenCliTo, NewProcessIs
  <2>10. CASE SendPrompt
    BY <1>p, <2>2, <2>4, <2>10, SendPromptTo, AskingIs, ClosedIs
  <2>11. CASE CancelCli \/ StartTimesOut
    BY <1>p, <2>2, <2>4, <2>11, CloseTo, ClosedIs
  <2>12. CASE Hear
    <3>1. Listened \in CliStates /\ Greeted \in CliStates /\ Closed(Listened) \in CliStates
      BY <2>2, <2>12, ListenedIs, ClosedIs DEF Hear
    <3> QED
      BY <1>p, <2>4, <2>12, <3>1, HearTo
  <2> QED
    BY <1>6, <2>5, <2>6, <2>7, <2>8, <2>9, <2>10, <2>11, <2>12 DEF Works
<1>7. CASE Process
  <2>1. UNCHANGED <<worker, swapped>>
    BY <1>7 DEF Process, CliSays, CliDies, history
  <2>2. PICK i \in DOMAIN providers : CliSays(i) \/ CliDies(i)
    BY <1>7 DEF Process
  <2>3. providers[i].cli \in CliStates
    BY <1>p DEF Provided, AProvider
  <2>4. ASSUME NEW cli \in CliStates, Becomes(i, providers[i].acc, providers[i].calls, cli) PROVE Provided'
    BY <1>p, <2>1, <2>4, ProvidedBy DEF Free
  <2>5. CASE CliSays(i)
    BY <1>p, <2>3, <2>4, <2>5, SaysTo, SaidIs
  <2>6. CASE CliDies(i)
    BY <1>p, <2>3, <2>4, <2>6, DiesTo, DeadIs
  <2> QED
    BY <2>2, <2>5, <2>6
<1> QED
  BY <1>1, <1>2, <1>3, <1>4, <1>5, <1>6, <1>7 DEF Next, User, Run, Works

-----------------------------------------------------------------------------
(* What the processes still say *)

LEMMA TailIs ==
  ASSUME NEW S, NEW s \in Seq(S), s # <<>>, NEW t, t = Tail(s)
  PROVE  /\ Head(s) = s[1] /\ Len(s) \in Nat /\ DOMAIN s = 1..Len(s) /\ 1 \in DOMAIN s
         /\ Len(t) = Len(s) - 1 /\ DOMAIN t = 1..Len(s) - 1
         /\ \A i \in DOMAIN t : i \in Nat /\ i + 1 \in DOMAIN s /\ t[i] = s[i + 1]
         /\ Len(s) = 1 => t = <<>>
<1>1. Len(s) \in Nat /\ Len(s) # 0 /\ DOMAIN s = 1..Len(s)
  OBVIOUS
<1>2. t \in Seq(S) /\ Len(t) = Len(s) - 1
  BY <1>1
<1>3. DOMAIN t = 1..Len(s) - 1
  BY <1>2
<1>4. \A i \in 1..Len(s) - 1 : t[i] = s[i + 1]
  BY <1>1
<1>5. Len(s) = 1 => t = <<>>
  BY <1>2
<1> QED
  BY <1>1, <1>2, <1>3, <1>4, <1>5

LEMMA OneMore ==
  ASSUME NEW S, NEW s \in Seq(S), NEW e, NEW t, t = Append(s, e)
  PROVE  /\ Len(t) = Len(s) + 1 /\ DOMAIN t = 1..Len(s) + 1 /\ DOMAIN s = 1..Len(s)
         /\ \A i \in 1..Len(s) : t[i] = s[i]
         /\ t[Len(s) + 1] = e
<1>1. s \in Seq(S \cup {e}) /\ Len(s) \in Nat
  OBVIOUS
<1>2. t \in Seq(S \cup {e}) /\ Len(t) = Len(s) + 1 /\ DOMAIN t = 1..Len(s) + 1 /\ DOMAIN s = 1..Len(s)
  BY <1>1
<1> QED
  BY <1>1, <1>2

LEMMA TwoMore ==
  ASSUME NEW S, NEW s \in Seq(S), NEW x, NEW y, NEW t, t = s \o <<x, y>>
  PROVE  /\ Len(t) = Len(s) + 2 /\ DOMAIN t = 1..Len(s) + 2 /\ \A i \in 1..Len(s) : t[i] = s[i]
         /\ t[Len(s) + 1] = x /\ t[Len(s) + 2] = y
<1>1. s \in Seq(S \cup {x, y}) /\ <<x, y>> \in Seq(S \cup {x, y}) /\ Len(s) \in Nat /\ Len(<<x, y>>) = 2
  OBVIOUS
<1>2. t \in Seq(S \cup {x, y}) /\ Len(t) = Len(s) + 2
  BY <1>1
<1>3. \A i \in 1..Len(t) : t[i] = IF i <= Len(s) THEN s[i] ELSE <<x, y>>[i - Len(s)]
  BY <1>1, <1>2
<1>4. Len(s) + 1 \in 1..Len(t) /\ Len(s) + 2 \in 1..Len(t) /\ (Len(s) + 1) - Len(s) = 1 /\ (Len(s) + 2) - Len(s) = 2
      /\ ~(Len(s) + 1 <= Len(s)) /\ ~(Len(s) + 2 <= Len(s))
  BY <1>1, <1>2
<1>5. t[Len(s) + 1] = <<x, y>>[1] /\ t[Len(s) + 2] = <<x, y>>[2]
  BY <1>3, <1>4
<1> QED
  BY <1>1, <1>2, <1>3, <1>5

LEMMA LivelyNew ==
  ASSUME NEW a
  PROVE  Lively(NewProcess, a)
BY DEF Lively, NewProcess

LEMMA LivelyAsked ==
  ASSUME NEW c \in CliStates, Lively(c, FALSE), NEW d, d.say = c.say \o Asking, d.out = c.out
  PROVE  Lively(d, TRUE)
<1> DEFINE s == c.say
<1>1. s \in Seq(Messages) /\ Len(s) \in Nat
  BY FieldsIs
<1>2. \A i \in DOMAIN s : s[i].kind # "eof" /\ s[i].kind # "result"
  BY DEF Lively
<1>3. \A i \in DOMAIN c.out : c.out[i].kind # "eof" /\ c.out[i].kind # "result"
  BY DEF Lively
<1>4. d.say = s \o Asking
  OBVIOUS
<1> HIDE DEF s
<1>5. DOMAIN s = 1..Len(s) /\ Len(d.say) = Len(s) + 2 /\ DOMAIN d.say = 1..Len(s) + 2
  <2>1. PICK x, y : Asking = <<x, y>>
    BY DEF Asking
  <2> QED
    BY <1>1, <1>4, <2>1, TwoMore
<1>6. /\ \A i \in 1..Len(s) : d.say[i] = s[i]
      /\ d.say[Len(s) + 1].kind = "update" /\ d.say[Len(s) + 2].kind = "result"
  <2>1. PICK x, y : Asking = <<x, y>> /\ x.kind = "update" /\ y.kind = "result"
    BY DEF Asking
  <2>2. PICK t : t = s \o <<x, y>> /\ t = d.say
    BY <1>4, <2>1
  <2>3. (\A i \in 1..Len(s) : t[i] = s[i]) /\ t[Len(s) + 1] = x /\ t[Len(s) + 2] = y
    BY <1>1, <2>2, TwoMore
  <2> QED
    BY <2>1, <2>2, <2>3, Zenon
<1>7. ASSUME NEW i \in DOMAIN d.say PROVE d.say[i].kind # "eof" /\ (d.say[i].kind = "result" => i = Len(d.say))
  <2>1. i \in 1..Len(s) \/ i = Len(s) + 1 \/ i = Len(s) + 2
    BY <1>1, <1>5, <1>7
  <2> QED
    BY <2>1, <1>2, <1>5, <1>6
<1> QED
  BY <1>3, <1>7 DEF Lively

LEMMA LivelyHeard ==
  ASSUME NEW c \in CliStates, NEW a, Lively(c, a), c.out # <<>>, NEW d, d.say = c.say, d.out = Tail(c.out)
  PROVE  Lively(d, a) /\ Head(c.out).kind # "eof" /\ (Head(c.out).kind = "result" => Lively(d, FALSE))
<1> DEFINE s == c.out
<1>1. s \in Seq(Messages) /\ Len(s) \in Nat /\ s # <<>>
  BY FieldsIs
<1>2. \A i \in DOMAIN s : s[i].kind # "eof" /\ (s[i].kind = "result" => a /\ i = Len(s) /\ c.say = <<>>)
  BY DEF Lively
<1>3. \A i \in DOMAIN c.say : c.say[i].kind # "eof" /\ (c.say[i].kind = "result" => a /\ i = Len(c.say))
  BY DEF Lively
<1>4. Head(c.out) = Head(s) /\ d.out = Tail(s)
  OBVIOUS
<1> HIDE DEF s
<1>5. /\ Head(s) = s[1] /\ 1 \in DOMAIN s /\ Len(d.out) = Len(s) - 1 /\ DOMAIN d.out = 1..Len(s) - 1
      /\ \A i \in DOMAIN d.out : d.out[i] = s[i + 1] /\ i + 1 \in DOMAIN s /\ i \in Nat
  <2>1. PICK t : t = Tail(s) /\ t = d.out
    BY <1>4
  <2>2. /\ Head(s) = s[1] /\ Len(s) \in Nat /\ DOMAIN s = 1..Len(s) /\ 1 \in DOMAIN s
        /\ Len(t) = Len(s) - 1 /\ DOMAIN t = 1..Len(s) - 1
        /\ \A i \in DOMAIN t : i \in Nat /\ i + 1 \in DOMAIN s /\ t[i] = s[i + 1]
        /\ Len(s) = 1 => t = <<>>
    BY <1>1, <2>1, TailIs
  <2> QED
    BY <2>1, <2>2, Zenon
<1>6. ASSUME NEW i \in DOMAIN d.out
      PROVE d.out[i].kind # "eof" /\ (d.out[i].kind = "result" => a /\ i = Len(d.out) /\ c.say = <<>>)
  <2>1. d.out[i] = s[i + 1] /\ i + 1 \in DOMAIN s /\ i \in Nat
    BY <1>5
  <2>2. s[i + 1].kind # "eof" /\ (s[i + 1].kind = "result" => a /\ i + 1 = Len(s) /\ c.say = <<>>)
    BY <1>2, <2>1
  <2>3. i + 1 = Len(s) => i = Len(d.out)
    <3>1. PICK m, l : m \in Nat /\ m = Len(s) /\ l = Len(d.out) /\ l = m - 1
      BY <1>1, <1>5
    <3>2. i + 1 = m => i = l
      BY <2>1, <3>1
    <3> QED
      BY <3>1, <3>2
  <2> QED
    BY <2>1, <2>2, <2>3
<1>7. Lively(d, a)
  BY <1>3, <1>6 DEF Lively
<1>8. ASSUME Head(s).kind = "result" PROVE Lively(d, FALSE)
  <2>1. Len(s) = 1 /\ c.say = <<>>
    BY <1>2, <1>5, <1>8
  <2>2. DOMAIN d.out = {} /\ DOMAIN d.say = {}
    BY <1>5, <2>1
  <2> QED
    BY <2>2 DEF Lively
<1> QED
  BY <1>2, <1>4, <1>5, <1>7, <1>8

LEMMA LivelySaid ==
  ASSUME NEW c \in CliStates, NEW a, Lively(c, a), c.say # <<>>, NEW d, d.say = Tail(c.say), d.out = Append(c.out, Head(c.say))
  PROVE  Lively(d, a)
<1> DEFINE s == c.say
           o == c.out
<1>1. s \in Seq(Messages) /\ Len(s) \in Nat /\ s # <<>> /\ o \in Seq(Messages) /\ Len(o) \in Nat
  BY FieldsIs
<1>2. \A i \in DOMAIN s : s[i].kind # "eof" /\ (s[i].kind = "result" => a /\ i = Len(s))
  BY DEF Lively
<1>3. \A i \in DOMAIN o : o[i].kind # "eof" /\ o[i].kind # "result"
  BY DEF Lively
<1>4. d.say = Tail(s) /\ d.out = Append(o, Head(s))
  OBVIOUS
<1> HIDE DEF s, o
<1>5. /\ Head(s) = s[1] /\ 1 \in DOMAIN s /\ Len(d.say) = Len(s) - 1 /\ DOMAIN d.say = 1..Len(s) - 1
      /\ \A i \in DOMAIN d.say : d.say[i] = s[i + 1] /\ i + 1 \in DOMAIN s /\ i \in Nat
      /\ Len(s) = 1 => d.say = <<>>
  <2>1. PICK t : t = Tail(s) /\ t = d.say
    BY <1>4
  <2>2. /\ Head(s) = s[1] /\ Len(s) \in Nat /\ DOMAIN s = 1..Len(s) /\ 1 \in DOMAIN s
        /\ Len(t) = Len(s) - 1 /\ DOMAIN t = 1..Len(s) - 1
        /\ \A i \in DOMAIN t : i \in Nat /\ i + 1 \in DOMAIN s /\ t[i] = s[i + 1]
        /\ Len(s) = 1 => t = <<>>
    BY <1>1, <2>1, TailIs
  <2> QED
    BY <2>1, <2>2, Zenon
<1>6. /\ Len(d.out) = Len(o) + 1 /\ DOMAIN d.out = 1..Len(o) + 1 /\ DOMAIN o = 1..Len(o)
      /\ \A i \in 1..Len(o) : d.out[i] = o[i]
      /\ d.out[Len(o) + 1] = s[1]
  <2>1. PICK e : d.out = Append(o, e) /\ e = s[1]
    BY <1>4, <1>5
  <2>2. PICK t : t = Append(o, e)
    OBVIOUS
  <2>3. o \in Seq(Messages)
    BY <1>1
  <2>4. /\ Len(t) = Len(o) + 1 /\ DOMAIN t = 1..Len(o) + 1 /\ DOMAIN o = 1..Len(o)
        /\ \A i \in 1..Len(o) : t[i] = o[i]
        /\ t[Len(o) + 1] = e
    BY <2>2, <2>3, OneMore
  <2> QED
    BY <2>1, <2>2, <2>4, Zenon
<1>7. ASSUME NEW i \in DOMAIN d.say PROVE d.say[i].kind # "eof" /\ (d.say[i].kind = "result" => a /\ i = Len(d.say))
  <2>1. d.say[i] = s[i + 1] /\ i + 1 \in DOMAIN s /\ i \in Nat
    BY <1>5
  <2>2. s[i + 1].kind # "eof" /\ (s[i + 1].kind = "result" => a /\ i + 1 = Len(s))
    BY <1>2, <2>1
  <2>3. i + 1 = Len(s) => i = Len(d.say)
    <3>1. PICK m, l : m \in Nat /\ m = Len(s) /\ l = Len(d.say) /\ l = m - 1
      BY <1>1, <1>5
    <3>2. i + 1 = m => i = l
      BY <2>1, <3>1
    <3> QED
      BY <3>1, <3>2
  <2> QED
    BY <2>1, <2>2, <2>3
<1>8. s[1].kind = "result" => d.say = <<>>
  BY <1>2, <1>5
<1>9. ASSUME NEW i \in DOMAIN d.out
      PROVE  d.out[i].kind # "eof" /\ (d.out[i].kind = "result" => a /\ i = Len(d.out) /\ d.say = <<>>)
  <2>1. i \in 1..Len(o) \/ i = Len(o) + 1
    BY <1>1, <1>6, <1>9
  <2>2. CASE i \in 1..Len(o)
    BY <1>3, <1>6, <2>2
  <2>3. CASE i = Len(o) + 1
    BY <1>2, <1>5, <1>6, <1>8, <2>3
  <2> QED
    BY <2>1, <2>2, <2>3
<1> QED
  BY <1>7, <1>9 DEF Lively

LEMMA MailedBy ==
  ASSUME Provided, Mailed, NEW i \in DOMAIN providers, NEW acc, NEW calls, NEW cli \in CliStates, Becomes(i, acc, calls, cli),
         cli.alive => Lively(cli, Awaited(i)'), \A j : j # i /\ Awaited(j) => Awaited(j)'
  PROVE  Mailed'
<1>1. /\ DOMAIN providers' = DOMAIN providers /\ providers'[i].cli = cli
      /\ \A j \in DOMAIN providers : j # i => providers'[j] = providers[j]
  BY BecomesIs
<1>2. ASSUME NEW j \in DOMAIN providers, providers'[j].cli.alive PROVE Lively(providers'[j].cli, Awaited(j)')
  <2>1. CASE j = i
    BY <1>1, <1>2, <2>1
  <2>2. CASE j # i
    <3>1. Lively(providers[j].cli, Awaited(j))
      BY <1>1, <1>2, <2>2 DEF Mailed
    <3>2. Awaited(j) => Awaited(j)'
      BY <2>2
    <3>3. Lively(providers[j].cli, Awaited(j)')
      BY <3>1, <3>2 DEF Lively
    <3> QED
      BY <1>1, <2>2, <3>3
  <2> QED
    BY <2>1, <2>2
<1>3. (\A j \in DOMAIN providers : providers[j].cli.alive => Lively(providers[j].cli, Awaited(j)))'
  BY <1>1, <1>2 DEF Lively
<1> QED
  BY <1>3 DEF Mailed

LEMMA MailedSame ==
  ASSUME Mailed, UNCHANGED providers, \A j : Awaited(j) => Awaited(j)'
  PROVE  Mailed'
BY DEF Mailed, Lively

LEMMA ListenedAre ==
  /\ Listened.say = Mine.cli.say /\ Listened.out = Tail(Mine.cli.out) /\ Listened.alive = Mine.cli.alive
  /\ Greeted.say = Mine.cli.say /\ Greeted.out = Tail(Mine.cli.out) /\ Greeted.alive = Mine.cli.alive
BY Zenon DEF Listened, Greeted

\* What is still in the pipe of a live process belongs to the request that waits for it.
LEMMA MailedKept ==
  ASSUME IInv, RInv, [Next]_vars
  PROVE  Mailed'
<1>p. Provided /\ Mailed /\ worker.request \in Nat
  BY DEF RInv, IInv, Shape
<1>r. ARecord(worker)
  BY DEF IInv, Shape
<1>1. CASE Submit \/ Cancel \/ Take \/ Exit \/ UNCHANGED vars
  <2>1. UNCHANGED providers /\ (worker' = worker \/ worker.at = "idle")
    BY <1>1 DEF Submit, Cancel, Take, Exit, vars, history
  <2>2. \A j : Awaited(j) => Awaited(j)'
    BY <2>1 DEF Awaited
  <2> QED
    BY <1>p, <2>1, <2>2, MailedSame
<1>2. ASSUME NEW kind \in Http \cup {Cli}, SwapProvider(kind)
      PROVE  Mailed'
  <2> DEFINE n == Len(providers)
             p == Retired(providers[n])
             q == Provider(kind)
             s == [providers EXCEPT ![n] = p]
  <2>1. n \in DOMAIN providers /\ ASequence(providers) /\ AProvider(providers[n])
    BY <1>p DEF Provided, ASequence
  <2>2. providers' = Append(s, q) /\ UNCHANGED worker
    BY <1>2 DEF SwapProvider, main
  <2>3. ~q.cli.alive
    BY DEF Provider, NoProcess
  <2>4. ~p.cli.alive
    <3>1. providers[n].cli \in CliStates
      BY <2>1 DEF AProvider
    <3>2. CASE worker.at # "idle"
      <4>1. ~Closed(providers[n].cli).alive
        BY <3>1, ClosedIs
      <4>2. p = [providers[n] EXCEPT !.cli = Closed(providers[n].cli)]
        BY <3>2 DEF Retired
      <4> HIDE DEF p
      <4> QED
        BY <2>1, <4>1, <4>2 DEF AProvider
    <3>3. CASE worker.at = "idle"
      BY <3>3 DEF Retired, Provider, NoProcess
    <3> QED
      BY <3>2, <3>3
  <2>5. PICK t : t = With(providers, n, p)
    OBVIOUS
  <2>6. s = t
    BY <2>5 DEF With
  <2> HIDE DEF n, p, q, s
  <2>7. /\ ASequence(t) /\ DOMAIN t = DOMAIN providers /\ Len(t) = Len(providers)
        /\ t[n] = p /\ \A j \in DOMAIN providers : j # n => t[j] = providers[j]
    BY <2>1, <2>5, Exchanged
  <2>8. /\ DOMAIN t = 1..Len(t) /\ Len(t) \in Nat
        /\ DOMAIN providers' = 1..Len(t) + 1
        /\ \A j \in 1..Len(t) : providers'[j] = t[j]
        /\ providers'[Len(t) + 1] = q
    BY <2>2, <2>6, <2>7, Appended
  <2>9. ASSUME NEW j \in DOMAIN providers', providers'[j].cli.alive
        PROVE  Lively(providers'[j].cli, Awaited(j)')
    <3>1. j \in DOMAIN providers /\ j # n /\ providers'[j] = providers[j]
      <4>1. j \in 1..Len(t) \/ j = Len(t) + 1
        BY <2>8
      <4> QED
        BY <4>1, <2>3, <2>4, <2>7, <2>8, <2>9
    <3>2. Lively(providers[j].cli, Awaited(j)) /\ (Awaited(j) => Awaited(j)')
      BY <1>p, <2>2, <2>9, <3>1 DEF Mailed, Awaited
    <3> QED
      BY <3>1, <3>2 DEF Lively
  <2>10. (\A j \in DOMAIN providers : providers[j].cli.alive => Lively(providers[j].cli, Awaited(j)))'
    BY <2>9 DEF Lively
  <2> QED
    BY <2>10 DEF Mailed
<1>3. CASE Shutdown
  <2>1. PICK n, c : /\ n \in DOMAIN providers /\ c = Closed(providers[n].cli)
                    /\ Becomes(n, providers[n].acc, providers[n].calls, c)
    BY <1>3, <1>p, ShutdownTo
  <2>2. c \in CliStates /\ ~c.alive
    BY <1>p, <2>1, ClosedIs DEF Provided, AProvider
  <2>3. \A j : Awaited(j) => Awaited(j)'
    BY <1>3 DEF Shutdown, Awaited
  <2> QED
    BY <1>p, <2>1, <2>2, <2>3, MailedBy
<1>4. CASE Works
  <2>i. PICK i : i = worker.by
    OBVIOUS
  <2>1. /\ worker.by \in DOMAIN providers /\ Mine.cli \in CliStates
        /\ Mine.cli.alive => Lively(Mine.cli, Awaited(i))
    <3>1. ~Free
      BY <1>4, WorksServes DEF Serves
    <3> QED
      BY <1>p, <2>i, <3>1, MineIs DEF Mailed, Mine
  <2>2. i \in DOMAIN providers /\ \A j : j # i => ~Awaited(j)
    BY <2>i, <2>1 DEF Awaited
  <2>3. ASSUME NEW acc, NEW calls, NEW cli \in CliStates, Becomes(i, acc, calls, cli),
               cli.alive => Lively(cli, Awaited(i)')
        PROVE  Mailed'
    <3>1. \A j : j # i /\ Awaited(j) => Awaited(j)'
      BY <2>2
    <3> QED
      BY <1>p, <2>2, <2>3, <3>1, MailedBy
  <2>4. ASSUME NEW acc, NEW calls, NEW cli \in CliStates, Becomes(i, acc, calls, cli), ~cli.alive
        PROVE  Mailed'
    BY <2>3, <2>4
  <2>5. ASSUME worker.at # "cli", UNCHANGED providers PROVE Mailed'
    <3>1. \A j : Awaited(j) => Awaited(j)'
      BY <2>5 DEF Awaited
    <3> QED
      BY <1>p, <2>5, <3>1, MailedSame
  <2>6. ASSUME worker.at # "cli", Mine.cli.alive PROVE Lively(Mine.cli, Awaited(i)')
    <3>1. ~Awaited(i)
      BY <2>6 DEF Awaited
    <3>2. Lively(Mine.cli, Awaited(i))
      BY <2>1, <2>6
    <3> QED
      BY <3>1, <3>2 DEF Lively
  <2>7. CASE GiveUp \/ Refuse \/ Complete \/ (\E n \in ReadSizes : Read(n)) \/ EndOfStream \/ LastPayload
    <3>1. UNCHANGED providers /\ worker.at # "cli"
      BY <2>7 DEF GiveUp, Refuse, Complete, Read, Reading, EndOfStream, LastPayload
    <3> QED
      BY <2>5, <3>1
  <2>8. CASE Connect \/ Payload \/ EndReply
    <3>1. worker.at # "cli"
      BY <2>8 DEF Connect, Payload, EndReply
    <3>2. UNCHANGED providers \/ \E acc, calls : Becomes(i, acc, calls, Mine.cli)
      BY <1>p, <2>i, <2>8, ConnectTo, PayloadTo, EndReplyTo
    <3> QED
      BY <2>1, <2>3, <2>5, <2>6, <3>1, <3>2
  <2>9. CASE OpenCli
    <3>1. worker.at # "cli"
      BY <2>9 DEF OpenCli
    <3>2. PICK c : c = IF Mine.cli.open /\ Mine.cli.alive THEN Mine.cli ELSE NewProcess
      OBVIOUS
    <3>3. Becomes(i, Mine.acc, <<>>, c)
      BY <1>p, <2>i, <2>9, <3>2, OpenCliTo
    <3>4. c \in CliStates /\ (c.alive => Lively(c, Awaited(i)'))
      <4>1. CASE c = Mine.cli
        BY <2>1, <2>6, <3>1, <4>1
      <4>2. CASE c = NewProcess
        BY <4>2, NewProcessIs, LivelyNew
      <4> QED
        BY <3>2, <4>1, <4>2
    <3> QED
      BY <2>3, <3>3, <3>4
  <2>10. CASE SendPrompt
    <3>1. ~Awaited(i)
      BY <2>10 DEF SendPrompt, Awaited
    <3>2. ASSUME Mine.cli.alive, worker' = [worker EXCEPT !.wrote = TRUE], NEW d, NEW acc, NEW calls, Becomes(i, acc, calls, d),
                 d = [open |-> Mine.cli.open, alive |-> Mine.cli.alive, ready |-> Mine.cli.ready,
                      say |-> Mine.cli.say \o Asking, out |-> Mine.cli.out]
          PROVE  Mailed'
      <4>1. d \in CliStates
        BY <1>p, <2>1, <3>2, AskingIs
      <4>2. Lively(Mine.cli, FALSE)
        BY <2>1, <3>1, <3>2 DEF Lively
      <4>3. d.say = Mine.cli.say \o Asking /\ d.out = Mine.cli.out
        BY <3>2
      <4>4. Lively(d, TRUE)
        BY <2>1, <4>2, <4>3, LivelyAsked
      <4>5. Awaited(i)'
        BY <1>r, <2>i, <2>10, <3>2, SetWrote DEF SendPrompt, Awaited, ARecord
      <4>6. Lively(d, Awaited(i)')
        BY <4>4, <4>5 DEF Lively
      <4> QED
        BY <2>3, <3>2, <4>1, <4>6
    <3>3. ASSUME Becomes(i, Mine.acc, Mine.calls, Closed(Mine.cli)) PROVE Mailed'
      BY <2>1, <2>4, <3>3, ClosedIs
    <3> QED
      BY <1>p, <2>i, <2>10, <3>2, <3>3, SendPromptTo
  <2>11. CASE CancelCli \/ StartTimesOut
    BY <1>p, <2>1, <2>4, <2>i, <2>11, CloseTo, ClosedIs
  <2>12. CASE Hear
    <3> DEFINE said == Head(Mine.cli.out)
    <3>1. Mine.cli.out # <<>> /\ worker.at = "cli"
      BY <2>12 DEF Hear, Listening
    <3>2. Listened \in CliStates /\ Greeted \in CliStates /\ Closed(Listened) \in CliStates /\ ~Closed(Listened).alive
      BY <2>1, <3>1, ListenedIs, ClosedIs
    <3>3. ASSUME NEW d \in {Listened, Greeted}
          PROVE  /\ d.alive = Mine.cli.alive
                 /\ Mine.cli.alive => Lively(d, Awaited(i)) /\ (said.kind = "result" => Lively(d, FALSE))
      <4>1. d.say = Mine.cli.say /\ d.out = Tail(Mine.cli.out) /\ d.alive = Mine.cli.alive
        BY <3>3, ListenedAre, Zenon
      <4> QED
        BY <2>1, <3>1, <4>1, LivelyHeard
    <3>4. ASSUME NEW d \in {Listened, Greeted}, NEW acc, NEW calls, Becomes(i, acc, calls, d), UNCHANGED worker PROVE Mailed'
      <4>1. Mine.cli.alive => Lively(d, Awaited(i)')
        BY <3>3, <3>4 DEF Lively, Awaited
      <4> QED
        BY <2>3, <3>2, <3>3, <3>4, <4>1
    <3>5. ASSUME NEW acc, NEW calls, Becomes(i, acc, calls, Listened), said.kind = "result" PROVE Mailed'
      <4>1. Mine.cli.alive => Lively(Listened, Awaited(i)')
        BY <3>3, <3>5 DEF Lively
      <4> QED
        BY <2>3, <3>2, <3>3, <3>5, <4>1
    <3>6. ASSUME NEW acc, NEW calls, Becomes(i, acc, calls, Closed(Listened)) PROVE Mailed'
      BY <2>4, <3>2, <3>6
    <3> HIDE DEF said
    <3>7. \/ \E d \in {Listened, Greeted} : \E acc, calls : Becomes(i, acc, calls, d) /\ UNCHANGED worker
          \/ \E acc, calls : Becomes(i, acc, calls, Listened) /\ said.kind = "result"
          \/ \E acc, calls : Becomes(i, acc, calls, Closed(Listened))
      BY <1>p, <2>i, <2>12, HearTo DEF said
    <3> QED
      BY <3>4, <3>5, <3>6, <3>7
  <2> QED
    BY <1>4, <2>7, <2>8, <2>9, <2>10, <2>11, <2>12 DEF Works
<1>5. CASE Process
  <2>1. UNCHANGED worker
    BY <1>5 DEF Process, CliSays, CliDies
  <2>2. PICK i \in DOMAIN providers : CliSays(i) \/ CliDies(i)
    BY <1>5 DEF Process
  <2>3. providers[i].cli \in CliStates /\ (providers[i].cli.alive => Lively(providers[i].cli, Awaited(i)))
    BY <1>p DEF Provided, AProvider, Mailed
  <2>4. \A j : (Awaited(j) => Awaited(j)') /\ (Awaited(j)' => Awaited(j))
    BY <2>1 DEF Awaited
  <2>5. CASE CliSays(i)
    <3>1. PICK c, d : /\ c = providers[i].cli /\ c.say # <<>>
                      /\ d = [open |-> c.open, alive |-> c.alive, ready |-> c.ready, say |-> Tail(c.say),
                              out |-> Append(c.out, Head(c.say))]
                      /\ Becomes(i, providers[i].acc, providers[i].calls, d)
      BY <1>p, <2>5, SaysTo
    <3>2. d \in CliStates /\ d.alive = c.alive /\ d.say = Tail(c.say) /\ d.out = Append(c.out, Head(c.say))
      BY <2>3, <3>1, SaidIs
    <3>3. c.alive => Lively(d, Awaited(i))
      BY <2>3, <3>1, <3>2, LivelySaid
    <3>4. c.alive => Lively(d, Awaited(i)')
      BY <2>4, <3>3 DEF Lively
    <3> QED
      BY <1>p, <2>4, <3>1, <3>2, <3>4, MailedBy
  <2>6. CASE CliDies(i)
    <3>1. PICK c, d : /\ c = providers[i].cli
                      /\ d = [open |-> c.open, alive |-> FALSE, ready |-> c.ready,
                              say |-> <<[kind |-> "eof", request |-> 0]>>, out |-> c.out]
                      /\ Becomes(i, providers[i].acc, providers[i].calls, d)
      BY <1>p, <2>6, DiesTo
    <3>2. d \in CliStates
      BY <2>3, <3>1, DeadIs
    <3>3. ~d.alive
      BY <3>1
    <3> QED
      BY <1>p, <2>4, <3>1, <3>2, <3>3, MailedBy
  <2> QED
    BY <2>2, <2>5, <2>6
<1> QED
  BY <1>1, <1>2, <1>3, <1>4, <1>5 DEF Next, User, Run, Works

-----------------------------------------------------------------------------
(* Where the worker is and what it asked *)

LEMMA PlacesKept ==
  ASSUME IInv, RInv, [Next]_vars
  PROVE  Places'
<1>p. Places /\ ARecord(worker) /\ Provided
  BY DEF RInv, IInv, Shape
<1>i. worker' = Idle => Places'
  BY DEF Idle, Places
<1>u. worker' = worker => Places'
  BY <1>p DEF Places
<1>a. ASSUME NEW a \in {"ended", "opening", "reading", "ending", "completed", "cli"}, worker' = [worker EXCEPT !.at = a]
      PROVE  Places'
  BY <1>p, <1>a DEF Places, ARecord
<1>1. CASE User \/ Process \/ UNCHANGED vars
  <2>1. worker' = worker
    BY <1>1 DEF User, Submit, Cancel, SwapProvider, Shutdown, Process, CliSays, CliDies, vars
  <2> QED
    BY <1>u, <2>1
<1>2. CASE Take
  <2>1. worker' = worker \/ worker' = [Idle EXCEPT !.at = "opening", !.request = Head(tasks), !.by = Len(providers)]
    BY <1>2 DEF Take
  <2> QED
    BY <1>u, <2>1 DEF Idle, Places
<1>3. CASE Exit
  BY <1>3, <1>a DEF Exit
<1>4. CASE GiveUp \/ Refuse \/ Complete \/ CancelCli \/ StartTimesOut
  BY <1>4, <1>i DEF GiveUp, Refuse, Complete, CancelCli, StartTimesOut, Fail
<1>5. CASE Connect \/ EndOfStream \/ LastPayload \/ OpenCli
  BY <1>5, <1>a DEF Connect, EndOfStream, LastPayload, OpenCli
<1>6. ASSUME NEW n \in ReadSizes, Read(n) PROVE Places'
  <2>1. worker' = Idle \/ worker' = worker
    BY <1>6 DEF Read, Fail
  <2> QED
    BY <1>i, <1>u, <2>1
<1>7. CASE Payload
  <2>1. worker' = Idle \/ \E t : worker' = [worker EXCEPT !.text = t]
    BY <1>7, <1>p, PayloadTo DEF Fail
  <2>2. ASSUME NEW t, worker' = [worker EXCEPT !.text = t] PROVE Places'
    BY <1>p, <2>2 DEF Places, ARecord
  <2> QED
    BY <1>i, <2>1, <2>2
<1>8. CASE EndReply
  BY <1>8, <1>a, <1>i DEF EndReply, Fail
<1>9. CASE SendPrompt
  <2>1. worker' = Idle \/ worker' = [worker EXCEPT !.wrote = TRUE]
    BY <1>9 DEF SendPrompt, Fail
  <2>2. ASSUME worker' = [worker EXCEPT !.wrote = TRUE] PROVE Places'
    BY <1>p, <2>2 DEF Places, ARecord
  <2> QED
    BY <1>i, <2>1, <2>2
<1>10. CASE Hear
  <2>1. worker' = Idle \/ worker' = worker \/ \E t : worker' = [worker EXCEPT !.at = "completed", !.text = t]
    BY <1>10 DEF Hear, Fail
  <2>2. ASSUME NEW t, worker' = [worker EXCEPT !.at = "completed", !.text = t] PROVE Places'
    BY <1>p, <2>2 DEF Places, ARecord
  <2> QED
    BY <1>i, <1>u, <2>1, <2>2
<1> QED
  BY <1>1, <1>2, <1>3, <1>4, <1>5, <1>6, <1>7, <1>8, <1>9, <1>10 DEF Next, Run

\* Results of a request in a sequence of messages.
LEMMA OfTail ==
  ASSUME NEW s \in Seq(Messages), s # <<>>, NEW r, OfRequest(s, r)
  PROVE  OfRequest(Tail(s), r) /\ (Head(s).kind = "result" => Head(s).request = r)
<1>1. PICK t : t = Tail(s)
  OBVIOUS
<1>2. /\ Head(s) = s[1] /\ 1 \in DOMAIN s /\ \A i \in DOMAIN t : i + 1 \in DOMAIN s /\ t[i] = s[i + 1]
  BY <1>1, TailIs
<1>3. OfRequest(t, r) /\ (Head(s).kind = "result" => Head(s).request = r)
  BY <1>2 DEF OfRequest
<1> QED
  BY <1>1, <1>3, Zenon

LEMMA OfAppend ==
  ASSUME NEW s \in Seq(Messages), NEW e, NEW r, OfRequest(s, r), e.kind = "result" => e.request = r
  PROVE  OfRequest(Append(s, e), r)
<1>1. PICK t : t = Append(s, e)
  OBVIOUS
<1>2. \A i \in DOMAIN t : (i \in DOMAIN s /\ t[i] = s[i]) \/ t[i] = e
  <2>1. Len(s) \in Nat /\ DOMAIN t = 1..Len(s) + 1 /\ DOMAIN s = 1..Len(s) /\ t[Len(s) + 1] = e
        /\ \A i \in 1..Len(s) : t[i] = s[i]
    BY <1>1, OneMore
  <2> QED
    BY <2>1
<1>3. OfRequest(t, r)
  BY <1>2 DEF OfRequest
<1> QED
  BY <1>1, <1>3, Zenon

LEMMA OfAsking ==
  ASSUME NEW s \in Seq(Messages), \A i \in DOMAIN s : s[i].kind # "result"
  PROVE  OfRequest(s \o Asking, worker.request)
<1>1. PICK x, y : Asking = <<x, y>> /\ x.kind = "update" /\ y.request = worker.request
  <2>1. PICK x, y : x = [kind |-> "update", request |-> worker.request] /\ y = [kind |-> "result", request |-> worker.request]
    OBVIOUS
  <2>2. x.kind = "update" /\ y.request = worker.request
    BY <2>1
  <2> QED
    BY <2>1, <2>2, Zenon DEF Asking
<1>2. PICK t : t = s \o <<x, y>>
  OBVIOUS
<1>3. \A i \in DOMAIN t : (i \in DOMAIN s /\ t[i] = s[i]) \/ t[i] = x \/ t[i] = y
  <2>1. /\ Len(s) \in Nat /\ DOMAIN t = 1..Len(s) + 2 /\ DOMAIN s = 1..Len(s)
        /\ t[Len(s) + 1] = x /\ t[Len(s) + 2] = y /\ \A i \in 1..Len(s) : t[i] = s[i]
    BY <1>2, TwoMore
  <2>2. ASSUME NEW i \in DOMAIN t PROVE i \in 1..Len(s) \/ i = Len(s) + 1 \/ i = Len(s) + 2
    BY <2>1
  <2> QED
    BY <2>1, <2>2
<1>4. OfRequest(t, worker.request)
  BY <1>1, <1>3 DEF OfRequest
<1> QED
  BY <1>1, <1>2, <1>4, Zenon

LEMMA OfClosed ==
  ASSUME NEW c \in CliStates, NEW r, OfRequest(c.say, r), OfRequest(c.out, r)
  PROVE  OfRequest(Closed(c).say, r) /\ OfRequest(Closed(c).out, r)
<1>1. Closed(c).out = c.out /\ (Closed(c).say = c.say \/ Closed(c).say = <<[kind |-> "eof", request |-> 0]>>)
  BY ClosedIs
<1>2. OfRequest(<<[kind |-> "eof", request |-> 0]>>, r)
  BY DEF OfRequest
<1> QED
  BY <1>1, <1>2

\* The worker waits on as before.
LEMMA AskedStill ==
  ASSUME Asked, worker' = worker, served' = served,
         worker.at = "cli" =>
           /\ Mine'.kind = Mine.kind
           /\ worker.wrote =>
                /\ OfRequest(Mine'.cli.say, worker.request) /\ OfRequest(Mine'.cli.out, worker.request)
                /\ (Mine'.cli.alive /\ Mine'.cli.ready) \/ worker.request \in broken' \cup swapped' \cup cancelled'
  PROVE  Asked'
BY DEF Asked, OfRequest

LEMMA AskedSame ==
  ASSUME Asked, UNCHANGED <<worker, served>>, Mine' = Mine, broken \subseteq broken', swapped \subseteq swapped',
         cancelled \subseteq cancelled'
  PROVE  Asked'
<1>1. worker.at = "cli" =>
        /\ Mine'.kind = Mine.kind
        /\ worker.wrote =>
             /\ OfRequest(Mine'.cli.say, worker.request) /\ OfRequest(Mine'.cli.out, worker.request)
             /\ (Mine'.cli.alive /\ Mine'.cli.ready) \/ worker.request \in broken' \cup swapped' \cup cancelled'
  BY DEF Asked
<1> QED
  BY <1>1, AskedStill

\* A request is asked once, by the process that will answer it.
LEMMA AskedKept ==
  ASSUME IInv, RInv, [Next]_vars
  PROVE  Asked'
<1>p. Asked /\ ARecord(worker) /\ Provided /\ Mailed /\ Places /\ worker.request \in Nat
  BY DEF RInv, IInv, Shape
<1>a. ASSUME worker'.at \notin {"opening", "cli"} PROVE Asked'
  BY <1>a DEF Asked
<1>i. worker' = Idle => Asked'
  BY <1>a DEF Idle
<1>m. /\ worker.at = "cli" => worker.by \in DOMAIN providers /\ Mine.cli \in CliStates /\ Mine.kind = Cli
      /\ worker.at = "cli" /\ worker.wrote => OfRequest(Mine.cli.say, worker.request) /\ OfRequest(Mine.cli.out, worker.request)
  BY <1>p, MineIs DEF Free, Asked
<1>1. CASE Submit \/ Cancel \/ UNCHANGED vars
  <2>1. UNCHANGED <<worker, served, providers, broken, swapped>> /\ cancelled \subseteq cancelled'
    BY <1>1 DEF Submit, Cancel, vars, history
  <2> QED
    BY <1>p, <2>1, AskedSame DEF Mine
<1>2. CASE Take
  <2>1. UNCHANGED <<served>> /\ worker.at = "idle" /\ tasks # <<>> /\ tasks \in Seq(Nat)
    BY <1>2 DEF Take, history, IInv, Shape
  <2>2. CASE worker' = worker
    BY <1>a, <2>1, <2>2
  <2>3. CASE worker' # worker
    <3>1. worker' = [Idle EXCEPT !.at = "opening", !.request = Head(tasks), !.by = Len(providers)]
      BY <1>2, <2>3 DEF Take
    <3>2. worker'.at = "opening" /\ worker'.text = <<>> /\ ~worker'.wrote /\ worker'.request = Head(tasks)
      BY <3>1 DEF Idle
    <3>3. Head(tasks) \notin DOMAIN served
      BY <2>1 DEF RInv, Counted
    <3> QED
      BY <2>1, <3>2, <3>3 DEF Asked
  <2> QED
    BY <2>2, <2>3
<1>3. CASE Exit
  <2>1. worker'.at = "ended"
    BY <1>3, <1>p, SetAt DEF Exit
  <2> QED
    BY <1>a, <2>1
<1>4. ASSUME NEW kind \in Http \cup {Cli}, SwapProvider(kind) PROVE Asked'
  <2>1. /\ UNCHANGED <<worker, served>>
        /\ providers' = Append([providers EXCEPT ![Len(providers)] = Retired(@)], Provider(kind))
        /\ swapped' = swapped \cup {r \in 1..requests : Busy(r)}
    BY <1>4 DEF SwapProvider, main
  <2>2. SUFFICES ASSUME worker.at = "cli"
        PROVE  /\ Mine'.kind = Mine.kind
               /\ worker.wrote =>
                    /\ OfRequest(Mine'.cli.say, worker.request) /\ OfRequest(Mine'.cli.out, worker.request)
                    /\ (Mine'.cli.alive /\ Mine'.cli.ready) \/ worker.request \in broken' \cup swapped' \cup cancelled'
    BY <1>p, <2>1, AskedStill
  <2>3. worker.request \in swapped'
    BY <2>1, <2>2 DEF RInv, Counted, Free, Busy
  <2> DEFINE n == Len(providers)
             p == Retired(providers[n])
  <2>4. n \in DOMAIN providers /\ ASequence(providers) /\ AProvider(providers[n])
    BY <1>p DEF Provided, ASequence
  <2>5. PICK t : t = With(providers, n, p)
    OBVIOUS
  <2>6. [providers EXCEPT ![Len(providers)] = Retired(@)] = t
    BY <2>5 DEF With
  <2>7. p = [providers[n] EXCEPT !.cli = Closed(providers[n].cli)]
    BY <2>2 DEF Retired
  <2> HIDE DEF n, p
  <2>8. p.kind = providers[n].kind /\ p.cli = Closed(providers[n].cli)
    BY <2>4, <2>7 DEF AProvider
  <2>9. /\ ASequence(t) /\ DOMAIN t = DOMAIN providers
        /\ t[n] = p /\ \A j \in DOMAIN providers : j # n => t[j] = providers[j]
    BY <2>4, <2>5, Exchanged
  <2>10. \A j \in DOMAIN providers : providers'[j] = t[j]
    BY <2>1, <2>6, <2>9, Appended
  <2>11. Mine' = providers'[worker.by] /\ worker.by \in DOMAIN providers
    BY <1>m, <2>1, <2>2 DEF Mine
  <2>12. CASE worker.by = n
    <3>1. Mine' = p /\ Mine = providers[n] /\ Mine.cli \in CliStates
      BY <1>m, <2>2, <2>9, <2>10, <2>11, <2>12 DEF Mine
    <3> QED
      BY <1>m, <2>2, <2>3, <2>8, <3>1, OfClosed
  <2>13. CASE worker.by # n
    <3>1. Mine' = Mine
      BY <2>9, <2>10, <2>11, <2>13 DEF Mine
    <3> QED
      BY <1>m, <2>2, <2>3, <3>1
  <2> QED
    BY <2>12, <2>13
<1>5. CASE Shutdown
  <2>1. UNCHANGED <<worker, served, broken, swapped>> /\ cancelled \subseteq cancelled'
        /\ (requests # 0 => requests \in cancelled')
    BY <1>5 DEF Shutdown, history
  <2>2. SUFFICES ASSUME worker.at = "cli"
        PROVE  /\ Mine'.kind = Mine.kind
               /\ worker.wrote =>
                    /\ OfRequest(Mine'.cli.say, worker.request) /\ OfRequest(Mine'.cli.out, worker.request)
                    /\ (Mine'.cli.alive /\ Mine'.cli.ready) \/ worker.request \in broken' \cup swapped' \cup cancelled'
    BY <1>p, <2>1, AskedStill
  <2>3. worker.request \in cancelled'
    <3>1. worker.request \in 1..requests /\ (worker.request = requests \/ worker.request \in cancelled)
      BY <2>2 DEF RInv, Counted, Free
    <3> QED
      BY <2>1, <3>1
  <2>4. PICK n, c : /\ n \in DOMAIN providers /\ c = Closed(providers[n].cli)
                    /\ Becomes(n, providers[n].acc, providers[n].calls, c)
    BY <1>5, <1>p, ShutdownTo
  <2>5. c \in CliStates
    BY <1>p, <2>4, ClosedIs DEF Provided, AProvider
  <2>6. /\ \A j \in DOMAIN providers : providers'[j].kind = providers[j].kind
        /\ providers'[n].cli = c /\ \A j \in DOMAIN providers : j # n => providers'[j] = providers[j]
    BY <1>p, <2>4, <2>5, BecomesIs
  <2>7. Mine' = providers'[worker.by]
    BY <2>1 DEF Mine
  <2>8. CASE worker.by = n
    <3>1. Mine'.cli = Closed(Mine.cli) /\ Mine'.kind = Mine.kind
      BY <1>m, <2>2, <2>4, <2>6, <2>7, <2>8 DEF Mine
    <3> QED
      BY <1>m, <2>2, <2>3, <3>1, OfClosed
  <2>9. CASE worker.by # n
    <3>1. Mine' = Mine
      BY <1>m, <2>2, <2>6, <2>7, <2>9 DEF Mine
    <3> QED
      BY <1>m, <2>2, <2>3, <3>1
  <2> QED
    BY <2>8, <2>9
<1>6. CASE Process
  <2>1. UNCHANGED <<worker, served, swapped, cancelled>> /\ broken \subseteq broken'
    BY <1>6 DEF Process, CliSays, CliDies, main, history
  <2>2. SUFFICES ASSUME worker.at = "cli"
        PROVE  /\ Mine'.kind = Mine.kind
               /\ worker.wrote =>
                    /\ OfRequest(Mine'.cli.say, worker.request) /\ OfRequest(Mine'.cli.out, worker.request)
                    /\ (Mine'.cli.alive /\ Mine'.cli.ready) \/ worker.request \in broken' \cup swapped' \cup cancelled'
    BY <1>p, <2>1, AskedStill
  <2>3. PICK i \in DOMAIN providers : CliSays(i) \/ CliDies(i)
    BY <1>6 DEF Process
  <2>4. providers[i].cli \in CliStates
    BY <1>p DEF Provided, AProvider
  <2>5. worker.wrote => (Mine.cli.alive /\ Mine.cli.ready) \/ worker.request \in broken' \cup swapped' \cup cancelled'
    BY <1>p, <2>1, <2>2 DEF Asked
  <2>6. Mine' = providers'[worker.by]
    BY <2>1 DEF Mine
  <2>7. ASSUME NEW d \in CliStates, Becomes(i, providers[i].acc, providers[i].calls, d)
        PROVE  /\ Mine'.kind = Mine.kind
               /\ worker.by = i => Mine'.cli = d
               /\ worker.by # i => Mine' = Mine
    <3>1. /\ \A j \in DOMAIN providers : providers'[j].kind = providers[j].kind
          /\ providers'[i].cli = d /\ \A j \in DOMAIN providers : j # i => providers'[j] = providers[j]
      BY <1>p, <2>7, BecomesIs
    <3> QED
      BY <1>m, <2>2, <2>6, <3>1 DEF Mine
  <2>8. CASE CliSays(i)
    <3>1. PICK c, d : /\ c = providers[i].cli /\ c.say # <<>>
                      /\ d = [open |-> c.open, alive |-> c.alive, ready |-> c.ready, say |-> Tail(c.say),
                              out |-> Append(c.out, Head(c.say))]
                      /\ Becomes(i, providers[i].acc, providers[i].calls, d)
      BY <1>p, <2>8, SaysTo
    <3>2. d \in CliStates /\ d.say = Tail(c.say) /\ d.out = Append(c.out, Head(c.say)) /\ c \in CliStates
      BY <2>4, <3>1, SaidIs
    <3>3. d.alive = c.alive /\ d.ready = c.ready
      BY <3>1, Zenon
    <3>4. CASE worker.by = i
      <4>1. Mine'.kind = Mine.kind /\ Mine'.cli = d /\ Mine.cli = c
        BY <2>7, <3>1, <3>2, <3>4 DEF Mine
      <4>2. worker.wrote => OfRequest(d.say, worker.request) /\ OfRequest(d.out, worker.request)
        <5>1. c.say \in Seq(Messages) /\ c.out \in Seq(Messages) /\ c.say # <<>>
          BY <3>1, <3>2, FieldsIs
        <5>2. SUFFICES ASSUME worker.wrote
              PROVE OfRequest(Tail(c.say), worker.request) /\ OfRequest(Append(c.out, Head(c.say)), worker.request)
          BY <3>2
        <5>3. OfRequest(c.say, worker.request) /\ OfRequest(c.out, worker.request)
          BY <1>m, <2>2, <4>1, <5>2
        <5>4. OfRequest(Tail(c.say), worker.request) /\ (Head(c.say).kind = "result" => Head(c.say).request = worker.request)
          BY <5>1, <5>3, OfTail
        <5> QED
          BY <5>1, <5>3, <5>4, OfAppend
      <4>3. worker.wrote => (d.alive /\ d.ready) \/ worker.request \in broken' \cup swapped' \cup cancelled'
        BY <2>5, <3>3, <4>1
      <4> QED
        BY <4>1, <4>2, <4>3
    <3>5. CASE worker.by # i
      BY <1>m, <2>2, <2>5, <2>7, <3>1, <3>2, <3>5
    <3> QED
      BY <3>4, <3>5
  <2>9. CASE CliDies(i)
    <3>1. PICK c, d : /\ c = providers[i].cli
                      /\ d = [open |-> c.open, alive |-> FALSE, ready |-> c.ready,
                              say |-> <<[kind |-> "eof", request |-> 0]>>, out |-> c.out]
                      /\ Becomes(i, providers[i].acc, providers[i].calls, d)
      BY <1>p, <2>9, DiesTo
    <3>2. d \in CliStates /\ d.say = <<[kind |-> "eof", request |-> 0]>> /\ d.out = c.out
      BY <2>4, <3>1, DeadIs
    <3>3. CASE worker.by = i
      <4>1. Mine'.kind = Mine.kind /\ Mine'.cli = d /\ Mine.cli = c
        BY <2>7, <3>1, <3>2, <3>3 DEF Mine
      <4>2. worker.wrote => OfRequest(d.say, worker.request) /\ OfRequest(d.out, worker.request)
        <5>1. OfRequest(<<[kind |-> "eof", request |-> 0]>>, worker.request)
          BY DEF OfRequest
        <5> QED
          BY <1>m, <2>2, <3>2, <4>1, <5>1
      <4>3. worker.request \in broken'
        BY <2>2, <2>9, <3>3 DEF CliDies
      <4> QED
        BY <4>1, <4>2, <4>3
    <3>4. CASE worker.by # i
      BY <1>m, <2>2, <2>5, <2>7, <3>1, <3>2, <3>4
    <3> QED
      BY <3>3, <3>4
  <2> QED
    BY <2>3, <2>8, <2>9
<1>7. CASE GiveUp \/ Refuse \/ Complete \/ CancelCli \/ StartTimesOut
  BY <1>7, <1>i DEF GiveUp, Refuse, Complete, CancelCli, StartTimesOut, Fail
<1>8. CASE Connect \/ EndOfStream \/ LastPayload
  <2>1. \E a \in {"reading", "ending"} : worker' = [worker EXCEPT !.at = a]
    BY <1>8 DEF Connect, EndOfStream, LastPayload
  <2>2. worker'.at \notin {"opening", "cli"}
    BY <1>p, <2>1, SetAt
  <2> QED
    BY <1>a, <2>2
<1>9. CASE (\E n \in ReadSizes : Read(n)) \/ Payload \/ EndReply
  <2>1. worker.at \in {"reading", "ending"}
    BY <1>9 DEF Read, Reading, Payload, EndReply
  <2>2. worker' = Idle \/ worker' = worker \/ (\E t : worker' = [worker EXCEPT !.text = t])
        \/ worker' = [worker EXCEPT !.at = "completed"]
    <3>1. CASE \E n \in ReadSizes : Read(n)
      BY <3>1 DEF Read, Fail
    <3>2. CASE Payload
      BY <1>p, <3>2, PayloadTo DEF Fail
    <3>3. CASE EndReply
      BY <3>3 DEF EndReply, Fail
    <3> QED
      BY <1>9, <3>1, <3>2, <3>3
  <2>3. worker'.at \in {"idle", "reading", "ending", "completed"}
    BY <1>p, <2>1, <2>2, SetAt, SetText DEF Idle
  <2> QED
    BY <1>a, <2>3
<1>10. CASE OpenCli
  <2>1. /\ worker.at = "opening" /\ worker' = [worker EXCEPT !.at = "cli"] /\ UNCHANGED served /\ Mine.kind = Cli
    BY <1>10 DEF OpenCli, history
  <2>2. worker'.at = "cli" /\ worker'.wrote = worker.wrote /\ worker'.request = worker.request /\ worker'.by = worker.by
    BY <1>p, <2>1 DEF ARecord
  <2>3. PICK c : c \in CliStates /\ Becomes(worker.by, Mine.acc, <<>>, c)
    BY <1>p, <1>10, <2>1, OpenCliTo, NewProcessIs, MineIs DEF Free
  <2>4. worker.by \in DOMAIN providers
    BY <1>p, <2>1, MineIs DEF Free
  <2>5. providers'[worker.by].kind = providers[worker.by].kind
    BY <1>p, <2>3, <2>4, BecomesIs
  <2>6. Mine'.kind = Cli
    BY <2>1, <2>2, <2>5 DEF Mine
  <2>7. ~worker.wrote /\ worker.request \notin DOMAIN served
    BY <1>p, <2>1 DEF Asked
  <2> QED
    BY <2>1, <2>2, <2>6, <2>7 DEF Asked
<1>11. CASE SendPrompt
  <2>1. worker.at = "cli" /\ ~worker.wrote
    BY <1>11 DEF SendPrompt
  <2>2. CASE worker' = Idle
    BY <1>i, <2>2
  <2>3. CASE worker' # Idle
    <3>a. PICK d : d = [open |-> Mine.cli.open, alive |-> Mine.cli.alive, ready |-> Mine.cli.ready,
                        say |-> Mine.cli.say \o Asking, out |-> Mine.cli.out]
      OBVIOUS
    <3>b. ~Fail
      BY <2>3 DEF Fail
    <3>c. /\ Mine.cli.alive /\ Mine.cli.ready /\ worker' = [worker EXCEPT !.wrote = TRUE]
          /\ Becomes(worker.by, Mine.acc, Mine.calls, d)
      BY <1>p, <1>11, <3>a, <3>b, SendPromptTo
    <3>d. \E reply : /\ reply.kind = Cli
                     /\ served' = [r \in DOMAIN served \cup {worker.request} |->
                                    IF r = worker.request THEN reply ELSE served[r]]
      BY <1>p, <1>11, <3>b, SendPromptTo
    <3>1. PICK reply : /\ reply.kind = Cli
                       /\ served' = [r \in DOMAIN served \cup {worker.request} |->
                                      IF r = worker.request THEN reply ELSE served[r]]
      BY <3>d
    <3>2. d \in CliStates /\ d.say = Mine.cli.say \o Asking /\ d.out = Mine.cli.out
      BY <1>p, <1>m, <2>1, <3>a, AskingIs
    <3>3. d.alive /\ d.ready
      BY <3>a, <3>c, Zenon
    <3>4. worker'.at = "cli" /\ worker'.wrote /\ worker'.request = worker.request /\ worker'.by = worker.by
      BY <1>p, <2>1, <3>c, SetWrote DEF ARecord
    <3>5. providers'[worker.by].kind = providers[worker.by].kind /\ providers'[worker.by].cli = d
      BY <1>p, <1>m, <2>1, <3>c, <3>2, BecomesIs
    <3>6. Mine'.kind = Cli /\ Mine'.cli = d
      BY <1>m, <2>1, <3>4, <3>5 DEF Mine
    <3>7. worker'.request \in DOMAIN served' /\ served'[worker'.request].kind = Cli
      BY <3>1, <3>4
    <3>8. Lively(Mine.cli, FALSE)
      <4>1. Lively(Mine.cli, Awaited(worker.by)) /\ ~Awaited(worker.by)
        BY <1>p, <1>m, <2>1, <3>c DEF Mailed, Mine, Awaited
      <4> QED
        BY <4>1 DEF Lively
    <3>9. OfRequest(d.say, worker'.request) /\ OfRequest(d.out, worker'.request)
      <4>1. Mine.cli.say \in Seq(Messages) /\ \A i \in DOMAIN Mine.cli.say : Mine.cli.say[i].kind # "result"
        BY <1>m, <2>1, <3>8, FieldsIs DEF Lively
      <4>2. OfRequest(Mine.cli.say \o Asking, worker.request)
        BY <4>1, OfAsking
      <4>3. OfRequest(Mine.cli.out, worker.request)
        BY <3>8 DEF Lively, OfRequest
      <4> QED
        BY <3>2, <3>4, <4>2, <4>3
    <3> QED
      BY <3>3, <3>4, <3>6, <3>7, <3>9 DEF Asked, OfRequest
  <2> QED
    BY <2>2, <2>3
<1>12. CASE Hear
  <2>1. worker.at = "cli" /\ Mine.cli.out # <<>> /\ UNCHANGED <<served, cancelled, broken, swapped>>
    BY <1>12 DEF Hear, Listening, main, history
  <2>2. Listened \in CliStates /\ Greeted \in CliStates
    BY <1>m, <2>1, ListenedIs
  <2>3. ASSUME NEW d \in {Listened, Greeted}, NEW acc, NEW calls, Becomes(worker.by, acc, calls, d), UNCHANGED worker
        PROVE Asked'
    <3>1. d.say = Mine.cli.say /\ d.out = Tail(Mine.cli.out) /\ d.alive = Mine.cli.alive
      BY <2>3, ListenedAre, Zenon
    <3>2. Mine.cli.ready => d.ready
      <4>1. Listened.ready = Mine.cli.ready /\ Greeted.ready
        BY Zenon DEF Listened, Greeted
      <4> QED
        BY <2>3, <4>1, Zenon
    <3>3. providers'[worker.by].kind = providers[worker.by].kind /\ providers'[worker.by].cli = d
      BY <1>p, <1>m, <2>1, <2>2, <2>3, BecomesIs
    <3>4. Mine'.kind = Mine.kind /\ Mine'.cli = d
      BY <2>3, <3>3 DEF Mine
    <3>5. worker.wrote => OfRequest(d.say, worker.request) /\ OfRequest(d.out, worker.request)
      <4>1. Mine.cli.out \in Seq(Messages)
        BY <1>m, <2>1, FieldsIs
      <4> QED
        BY <1>m, <2>1, <3>1, <4>1, OfTail
    <3>6. worker.wrote => (d.alive /\ d.ready) \/ worker.request \in broken' \cup swapped' \cup cancelled'
      BY <1>p, <2>1, <3>1, <3>2 DEF Asked
    <3> QED
      BY <1>p, <2>1, <2>3, <3>4, <3>5, <3>6, AskedStill
  <2>4. CASE worker' = worker
    <3>1. worker' # Idle /\ \A t : worker' # [worker EXCEPT !.at = "completed", !.text = t]
      <4>1. worker' # Idle
        BY <2>1, <2>4 DEF Idle
      <4>2. ASSUME NEW t, worker' = [worker EXCEPT !.at = "completed", !.text = t] PROVE FALSE
        <5>1. worker'.at = "completed"
          BY <1>p, <4>2 DEF ARecord
        <5> QED
          BY <2>1, <2>4, <5>1
      <4> QED
        BY <4>1, <4>2
    <3>2. \E d \in {Listened, Greeted} : \E acc, calls : Becomes(worker.by, acc, calls, d) /\ UNCHANGED worker
      BY <1>p, <1>12, <3>1, HearTo DEF Fail
    <3> QED
      BY <2>3, <3>2
  <2>5. CASE worker' # worker
    <3>1. worker' = Idle \/ \E t : worker' = [worker EXCEPT !.at = "completed", !.text = t]
      BY <1>p, <1>12, <2>5, HearTo DEF Fail
    <3>2. ASSUME NEW t, worker' = [worker EXCEPT !.at = "completed", !.text = t] PROVE worker'.at = "completed"
      BY <1>p, <3>2 DEF ARecord
    <3> QED
      BY <1>a, <1>i, <3>1, <3>2
  <2> QED
    BY <2>4, <2>5
<1> QED
  BY <1>1, <1>2, <1>3, <1>4, <1>5, <1>6, <1>7, <1>8, <1>9, <1>10, <1>11, <1>12 DEF Next, User, Run

-----------------------------------------------------------------------------
(* Following a reply *)

LEMMA Characters ==
  ASSUME NEW r \in 1..MaxRequests, NEW reply \in Replies(r), reply.kind \in Http
  PROVE  Wired(reply, Chars(reply))
BY RepliesAssumption DEF Wired, Bytes

LEMMA TodoIs ==
  ASSUME NEW C, NEW reply, Wired(reply, C), NEW n \in 0..Len(reply.wire), NEW k \in 0..Len(Part(reply, n).events),
         NEW payloads, payloads = Part(reply, n).events, NEW todo, todo = SubSeq(payloads, k + 1, Len(payloads))
  PROVE  /\ Len(payloads) \in Nat
         /\ todo = <<>> => k = Len(payloads)
         /\ todo # <<>> => /\ k < Len(payloads) /\ Head(todo) = payloads[k + 1] /\ k + 1 \in 0..Len(payloads)
                           /\ Tail(todo) = SubSeq(payloads, (k + 1) + 1, Len(payloads))
<1> DEFINE P == Payloads(C)
<1>1. payloads \in Seq(P)
  BY PartTyped
<1> HIDE DEF P
<1>2. Len(payloads) \in Nat /\ k \in 0..Len(payloads)
  BY <1>1
<1>3. /\ todo \in Seq(P) /\ Len(todo) = Len(payloads) - k
      /\ \A i \in 1..(Len(payloads) - k) : todo[i] = payloads[k + i]
  BY <1>1, <1>2, Suffix
<1>4. todo = <<>> => k = Len(payloads)
  <2>1. PICK l : l = Len(payloads) /\ l \in Nat /\ k \in 0..l
    BY <1>2
  <2>2. todo = <<>> => l - k = 0
    BY <1>3, <2>1
  <2>3. l - k = 0 => k = l
    BY <2>1
  <2> QED
    BY <2>1, <2>2, <2>3
<1>5. ASSUME todo # <<>>
      PROVE  /\ k < Len(payloads) /\ Head(todo) = payloads[k + 1] /\ k + 1 \in 0..Len(payloads)
             /\ Tail(todo) = SubSeq(payloads, (k + 1) + 1, Len(payloads))
  <2>1. Len(todo) \in Nat \ {0}
    BY <1>3, <1>5
  <2>2. k < Len(payloads) /\ k + 1 \in 0..Len(payloads) /\ 1 \in 1..(Len(payloads) - k)
    BY <1>2, <1>3, <2>1
  <2>3. PICK t : t = Tail(todo)
    OBVIOUS
  <2>4. /\ Head(todo) = todo[1] /\ Len(t) = Len(todo) - 1 /\ DOMAIN t = 1..Len(todo) - 1
        /\ \A i \in DOMAIN t : i \in Nat /\ i + 1 \in DOMAIN todo /\ t[i] = todo[i + 1]
    BY <1>3, <1>5, <2>3, TailIs
  <2>5. t \in Seq(P)
    BY <1>3, <1>5, <2>3
  <2>6. PICK u : u = SubSeq(payloads, (k + 1) + 1, Len(payloads))
    OBVIOUS
  <2>7. PICK j : j = k + 1 /\ j \in 0..Len(payloads)
    BY <2>2
  <2>8. /\ u \in Seq(P) /\ Len(u) = Len(payloads) - j
        /\ \A i \in 1..(Len(payloads) - j) : u[i] = payloads[j + i]
    <3>1. u = SubSeq(payloads, j + 1, Len(payloads))
      BY <2>6, <2>7
    <3> QED
      BY <1>1, <2>7, <3>1, Suffix
  <2>9. Len(t) = Len(u)
    BY <1>2, <1>3, <2>1, <2>4, <2>7, <2>8
  <2>10. ASSUME NEW i \in 1..Len(t) PROVE t[i] = u[i]
    <3>1. t[i] = todo[i + 1] /\ i \in Nat
      BY <2>1, <2>4
    <3>2. i + 1 \in 1..(Len(payloads) - k) /\ i \in 1..(Len(payloads) - j) /\ k + (i + 1) = j + i
      BY <1>2, <1>3, <2>1, <2>4, <2>7
    <3> QED
      BY <1>3, <2>8, <3>1, <3>2
  <2>11. t = u
    BY <2>5, <2>8, <2>9, <2>10, SameSequence
  <2>12. Head(todo) = payloads[k + 1]
    BY <1>3, <2>2, <2>4
  <2> QED
    BY <2>2, <2>3, <2>6, <2>11, <2>12, Zenon
<1> QED
  BY <1>2, <1>4, <1>5

LEMMA SetsTodo ==
  ASSUME NEW a, NEW b, NEW c, NEW s, s = [wire |-> a, parser |-> b, todo |-> c], NEW t, NEW x, x = [s EXCEPT !.todo = t]
  PROVE  x = [wire |-> a, parser |-> b, todo |-> t]
OBVIOUS

LEMMA FollowsFirst ==
  ASSUME NEW C, NEW reply, Wired(reply, C), NEW s, s = [wire |-> reply.wire, parser |-> Fresh, todo |-> <<>>]
  PROVE  /\ 0 \in 0..Len(reply.wire) /\ 0 \in 0..Len(Part(reply, 0).events)
         /\ Follows(reply, 0, 0, s, <<>>, <<>>)
<1>1. reply.wire \in Seq(Bytes(C)) /\ Len(reply.wire) \in Nat
  BY DEF Wired
<1>2. SubSeq(reply.wire, 1, 0) = <<>> /\ SubSeq(reply.wire, 0 + 1, Len(reply.wire)) = reply.wire
  BY <1>1
<1>3. PICK part : part = Part(reply, 0)
  OBVIOUS
<1>4. part.parser = Fresh /\ part.events = <<>> /\ part.ok
  <2>1. part = Parsed(<<>>)
    BY <1>2, <1>3 DEF Part
  <2> QED
    BY <2>1, ParsedNothing
<1>5. Len(part.events) = 0 /\ SubSeq(part.events, 0 + 1, Len(part.events)) = <<>> /\ Reaches(reply.kind, part.events, 0)
  BY <1>4 DEF Reaches
<1>6. Gathered(part.events, 0).text = <<>> /\ Gathered(part.events, 0).acc = <<>>
  BY GatheredNone
<1>7. s = [wire |-> SubSeq(reply.wire, 0 + 1, Len(reply.wire)), parser |-> part.parser,
           todo |-> SubSeq(part.events, 0 + 1, Len(part.events))]
  BY <1>2, <1>4, <1>5, Zenon
<1>8. Follows(reply, 0, 0, s, <<>>, <<>>)
  BY <1>3, <1>4, <1>5, <1>6, <1>7, Zenon DEF Follows
<1> QED
  BY <1>1, <1>3, <1>5, <1>8

LEMMA FollowsAll ==
  ASSUME NEW C, NEW reply, Wired(reply, C), NEW n \in 0..Len(reply.wire), NEW k \in 0..Len(Part(reply, n).events),
         NEW s, NEW text, NEW acc, Follows(reply, n, k, s, text, acc), s.todo = <<>>
  PROVE  k = Len(Part(reply, n).events)
<1>1. PICK payloads, todo : payloads = Part(reply, n).events /\ todo = SubSeq(payloads, k + 1, Len(payloads))
  OBVIOUS
<1>2. s.todo = todo
  BY <1>1 DEF Follows
<1>3. payloads = Part(reply, n).events /\ k \in 0..Len(payloads) /\ todo = <<>>
  BY <1>1, <1>2
<1>4. k = Len(payloads)
  BY <1>1, <1>3, TodoIs
<1> QED
  BY <1>1, <1>4

LEMMA FollowsRead ==
  ASSUME NEW C, NEW reply, Wired(reply, C), NEW n \in 0..Len(reply.wire), NEW k \in 0..Len(Part(reply, n).events),
         NEW s, NEW text, NEW acc, Follows(reply, n, k, s, text, acc), s.todo = <<>>,
         NEW m \in Nat, m <= Len(s.wire), NEW d, NEW cut, NEW heard, NEW u, Takes(s.parser, s.wire, m, d, cut, heard, u)
  PROVE  /\ n + m \in 0..Len(reply.wire)
         /\ d.ok /\ heard.ok => k \in 0..Len(Part(reply, n + m).events) /\ Follows(reply, n + m, k, u, text, acc)
         /\ reply.sound /\ m \in ReadSizes /\ Part(reply, Len(reply.wire)).ok /\ Fits(reply) => d.ok /\ cut.ok /\ heard.ok
<1>1. PICK part, next, wire :
        part = Part(reply, n) /\ next = Part(reply, n + m) /\ wire = SubSeq(reply.wire, n + 1, Len(reply.wire))
  OBVIOUS
<1>2. /\ part.ok /\ Reaches(reply.kind, part.events, k)
      /\ s.wire = wire /\ s.parser = part.parser
      /\ text = Gathered(part.events, k).text /\ acc = Gathered(part.events, k).acc
  BY <1>1 DEF Follows
<1>3. k = Len(part.events)
  BY <1>1, FollowsAll
<1>4. ReadTo(reply, n, m, d, heard, u)
  <2>1. m <= Len(wire) /\ Takes(part.parser, wire, m, d, cut, heard, u) /\ Reaches(reply.kind, part.events, Len(part.events))
    BY <1>2, <1>3
  <2> QED
    BY <1>1, <2>1, ReadOn
<1>5. /\ n + m \in 0..Len(reply.wire)
      /\ d = Decoded(part.parser.pend, SubSeq(reply.wire, n + 1, n + m))
      /\ next.ok <=> part.ok /\ d.ok /\ heard.ok
      /\ u = [wire |-> SubSeq(reply.wire, n + m + 1, Len(reply.wire)), parser |-> next.parser,
              todo |-> SubSeq(next.events, k + 1, Len(next.events))]
      /\ k \in 0..Len(next.events) /\ Reaches(reply.kind, next.events, k)
      /\ Gathered(next.events, k) = Gathered(part.events, k)
  BY <1>1, <1>3, <1>4, Zenon DEF ReadTo
<1>6. ASSUME d.ok, heard.ok PROVE k \in 0..Len(Part(reply, n + m).events) /\ Follows(reply, n + m, k, u, text, acc)
  <2>1. next.ok
    BY <1>2, <1>5, <1>6
  <2>2. text = Gathered(next.events, k).text /\ acc = Gathered(next.events, k).acc
    BY <1>2, <1>5
  <2> QED
    BY <1>1, <1>5, <2>1, <2>2, Zenon DEF Follows
<1>7. ASSUME reply.sound, m \in ReadSizes, Part(reply, Len(reply.wire)).ok, Fits(reply) PROVE d.ok /\ cut.ok /\ heard.ok
  <2>1. Part(reply, n + m).ok /\ Extracted(part.parser.buffer \o d.text).ok
    BY <1>1, <1>5, <1>7, SoundReads
  <2>2. cut = Extracted(part.parser.buffer \o d.text)
    BY <1>2 DEF Takes
  <2> QED
    BY <1>1, <1>5, <2>1, <2>2
<1> QED
  BY <1>5, <1>6, <1>7, Zenon

LEMMA FollowsNext ==
  ASSUME NEW C, NEW reply, Wired(reply, C), NEW n \in 0..Len(reply.wire), NEW k \in 0..Len(Part(reply, n).events),
         NEW s, NEW text, NEW acc, Follows(reply, n, k, s, text, acc), s.todo # <<>>,
         NEW p, p = Head(s.todo)
  PROVE  /\ Ends(reply.kind, p) => EndsAt(reply, n, k)
         /\ ~Ends(reply.kind, p) /\ reply.sound /\ Readable(reply) => p \in DOMAIN Meaning /\ ~Odd(p)
         /\ Goes(reply.kind, p) =>
              /\ k + 1 \in 0..Len(Part(reply, n).events)
              /\ Follows(reply, n, k + 1, [s EXCEPT !.todo = Tail(s.todo)], text \o Meaning[p].text,
                         FoldLeft(FeedDelta, acc, Meaning[p].deltas))
<1>1. PICK part, payloads, todo : part = Part(reply, n) /\ payloads = part.events
                                  /\ todo = SubSeq(payloads, k + 1, Len(payloads))
  OBVIOUS
<1>2. /\ part.ok /\ Reaches(reply.kind, payloads, k)
      /\ s = [wire |-> SubSeq(reply.wire, n + 1, Len(reply.wire)), parser |-> part.parser, todo |-> todo]
      /\ text = Gathered(payloads, k).text /\ acc = Gathered(payloads, k).acc
  BY <1>1 DEF Follows
<1>3. s.todo = todo /\ todo # <<>> /\ p = Head(todo)
  <2>1. s.todo = todo
    BY <1>2
  <2> QED
    BY <2>1
<1>4. /\ Len(payloads) \in Nat /\ k \in Nat /\ k < Len(payloads) /\ p = payloads[k + 1] /\ k + 1 \in 0..Len(payloads)
      /\ Tail(todo) = SubSeq(payloads, (k + 1) + 1, Len(payloads))
  <2>1. payloads = Part(reply, n).events /\ k \in 0..Len(payloads)
    BY <1>1
  <2> QED
    BY <1>1, <1>3, <2>1, TodoIs, SMTT(20)
<1>5. ASSUME Ends(reply.kind, p) PROVE EndsAt(reply, n, k)
  BY <1>1, <1>2, <1>4, <1>5 DEF EndsAt
<1>6. ASSUME ~Ends(reply.kind, p), reply.sound, Readable(reply) PROVE p \in DOMAIN Meaning /\ ~Odd(p)
  <2>1. payloads = Part(reply, n).events /\ ~Ends(reply.kind, payloads[k + 1])
    BY <1>1, <1>4, <1>6
  <2> QED
    BY <1>2, <1>4, <1>6, <2>1, SoundHears
<1>7. ASSUME Goes(reply.kind, p)
      PROVE  Follows(reply, n, k + 1, [s EXCEPT !.todo = Tail(s.todo)], text \o Meaning[p].text,
                     FoldLeft(FeedDelta, acc, Meaning[p].deltas))
  <2>1. PICK j : j = k + 1
    OBVIOUS
  <2>2. Reaches(reply.kind, payloads, j)
    <3>1. \A i \in 1..j : i \in 1..k \/ i = k + 1
      BY <1>4, <2>1
    <3> QED
      BY <1>2, <1>4, <1>7, <2>1, <3>1 DEF Reaches
  <2>3. PICK all, now : all = Gathered(payloads, k) /\ now = Gathered(payloads, j)
    OBVIOUS
  <2>4. now = Gather(all, p)
    BY <1>4, <2>1, <2>3, GatheredNext
  <2>5. now.text = text \o Meaning[p].text /\ now.acc = FoldLeft(FeedDelta, acc, Meaning[p].deltas)
    <3>1. all.text = text /\ all.acc = acc
      BY <1>2, <2>3
    <3> QED
      BY <2>4, <3>1, Zenon DEF Gather
  <2>6. PICK t : t = Tail(todo)
    OBVIOUS
  <2>7. [s EXCEPT !.todo = t] = [wire |-> SubSeq(reply.wire, n + 1, Len(reply.wire)), parser |-> part.parser, todo |-> t]
    <3>1. PICK a, b : s = [wire |-> a, parser |-> b, todo |-> todo] /\ a = SubSeq(reply.wire, n + 1, Len(reply.wire))
                      /\ b = part.parser
      BY <1>2
    <3>2. PICK x : x = [s EXCEPT !.todo = t]
      OBVIOUS
    <3>3. x = [wire |-> a, parser |-> b, todo |-> t]
      BY <3>1, <3>2, SetsTodo, Zenon
    <3> QED
      BY <3>1, <3>2, <3>3, Zenon
  <2>8. t = SubSeq(payloads, j + 1, Len(payloads))
    BY <1>4, <2>1, <2>6, Zenon
  <2>9. [s EXCEPT !.todo = Tail(s.todo)] = [wire |-> SubSeq(reply.wire, n + 1, Len(reply.wire)), parser |-> part.parser,
                                             todo |-> SubSeq(payloads, j + 1, Len(payloads))]
    BY <1>3, <2>6, <2>7, <2>8, Zenon
  <2> QED
    BY <1>1, <1>2, <2>1, <2>2, <2>3, <2>5, <2>9, Zenon DEF Follows
<1> QED
  BY <1>1, <1>4, <1>5, <1>6, <1>7, Zenon

LEMMA FollowsEnd ==
  ASSUME NEW C, NEW reply, Wired(reply, C), NEW n \in 0..Len(reply.wire), NEW k \in 0..Len(Part(reply, n).events),
         NEW s, NEW text, NEW acc, Follows(reply, n, k, s, text, acc), s.todo = <<>>, s.wire = <<>>
  PROVE  EndsAt(reply, n, k)
<1>1. PICK part, payloads, todo : part = Part(reply, n) /\ payloads = part.events
                                  /\ todo = SubSeq(payloads, k + 1, Len(payloads))
  OBVIOUS
<1>2. /\ part.ok /\ Reaches(reply.kind, payloads, k) /\ s.todo = todo /\ s.wire = SubSeq(reply.wire, n + 1, Len(reply.wire))
  BY <1>1 DEF Follows
<1>3. k = Len(payloads)
  BY <1>1, FollowsAll
<1>4. n = Len(reply.wire)
  <2>1. PICK w, y : w = reply.wire /\ y = SubSeq(w, n + 1, Len(w))
    OBVIOUS
  <2>2. w \in Seq(Bytes(C)) /\ Len(w) \in Nat /\ n \in 0..Len(w) /\ y = <<>>
    BY <1>2, <2>1 DEF Wired
  <2>3. Len(y) = Len(w) - n
    BY <2>1, <2>2, Suffix
  <2>4. Len(y) = 0
    BY <2>2
  <2>5. PICK l : l = Len(w) /\ l \in Nat /\ n \in 0..l
    BY <2>2
  <2>6. l - n = 0
    BY <2>3, <2>4, <2>5
  <2>7. n = l
    BY <2>5, <2>6
  <2> QED
    BY <2>1, <2>5, <2>7
<1> QED
  BY <1>1, <1>2, <1>3, <1>4 DEF EndsAt

\* What is assumed of a reply.
LEMMA Assumed ==
  ASSUME NEW r \in 1..MaxRequests, NEW reply \in Replies(r), reply.kind \in Http
  PROVE  /\ Wired(reply, Chars(reply))
         /\ reply.sound => Part(reply, Len(reply.wire)).ok /\ Fits(reply) /\ Readable(reply)
         /\ \A n \in 0..Len(reply.wire) : \A k \in 0..Len(Part(reply, n).events) : EndsAt(reply, n, k) =>
              IF reply.sound THEN Completes(reply, n, k) /\ Says(reply, n, k) ELSE ~Completes(reply, n, k)
BY RepliesAssumption, Characters

\* Reads from the start, over a read, over a payload, at the end of the stream, and what it gives there.
LEMMA ReadsFirst ==
  ASSUME NEW C, NEW reply, Wired(reply, C), NEW s, s = [wire |-> reply.wire, parser |-> Fresh, todo |-> <<>>], NEW e, ~e
  PROVE  Reads(reply, s, <<>>, <<>>, e)
<1>1. /\ 0 \in 0..Len(reply.wire) /\ 0 \in 0..Len(Part(reply, 0).events)
      /\ Follows(reply, 0, 0, s, <<>>, <<>>)
  BY FollowsFirst
<1> QED
  BY <1>1 DEF Reads

LEMMA ReadsOn ==
  ASSUME NEW C, NEW reply, Wired(reply, C), NEW s, NEW text, NEW acc, NEW e, Reads(reply, s, text, acc, e), s.todo = <<>>,
         NEW m \in Nat, m <= Len(s.wire), NEW d, NEW cut, NEW heard, NEW u, Takes(s.parser, s.wire, m, d, cut, heard, u)
  PROVE  /\ d.ok /\ heard.ok => \A f : ~f => Reads(reply, u, text, acc, f)
         /\ reply.sound /\ m \in ReadSizes /\ Part(reply, Len(reply.wire)).ok /\ Fits(reply) => d.ok /\ cut.ok /\ heard.ok
<1>1. PICK n \in 0..Len(reply.wire), k \in Nat : k \in 0..Len(Part(reply, n).events) /\ Follows(reply, n, k, s, text, acc)
  BY DEF Reads
<1>2. /\ n + m \in 0..Len(reply.wire)
      /\ d.ok /\ heard.ok => k \in 0..Len(Part(reply, n + m).events) /\ Follows(reply, n + m, k, u, text, acc)
      /\ reply.sound /\ m \in ReadSizes /\ Part(reply, Len(reply.wire)).ok /\ Fits(reply) => d.ok /\ cut.ok /\ heard.ok
  BY <1>1, FollowsRead
<1>3. ASSUME d.ok, heard.ok, NEW f, ~f PROVE Reads(reply, u, text, acc, f)
  BY <1>2, <1>3 DEF Reads
<1> QED
  BY <1>2, <1>3

LEMMA ReadsNext ==
  ASSUME NEW C, NEW reply, Wired(reply, C), NEW s, NEW text, NEW acc, NEW e, Reads(reply, s, text, acc, e), s.todo # <<>>,
         NEW p, p = Head(s.todo), NEW kind, kind = reply.kind
  PROVE  /\ Ends(kind, p) => \A f : Reads(reply, s, text, acc, f)
         /\ ~Ends(kind, p) /\ reply.sound /\ Readable(reply) => p \in DOMAIN Meaning /\ ~Odd(p)
         /\ Goes(kind, p) => \A f : ~f =>
              Reads(reply, [s EXCEPT !.todo = Tail(s.todo)], text \o Meaning[p].text,
                    FoldLeft(FeedDelta, acc, Meaning[p].deltas), f)
<1>1. PICK n \in 0..Len(reply.wire), k \in Nat : k \in 0..Len(Part(reply, n).events) /\ Follows(reply, n, k, s, text, acc)
  BY DEF Reads
<1>2. PICK t, x, a : t = [s EXCEPT !.todo = Tail(s.todo)] /\ x = text \o Meaning[p].text
                     /\ a = FoldLeft(FeedDelta, acc, Meaning[p].deltas)
  OBVIOUS
<1>3. /\ Ends(kind, p) => EndsAt(reply, n, k)
      /\ ~Ends(kind, p) /\ reply.sound /\ Readable(reply) => p \in DOMAIN Meaning /\ ~Odd(p)
      /\ Goes(kind, p) => k + 1 \in 0..Len(Part(reply, n).events) /\ Follows(reply, n, k + 1, t, x, a)
  BY <1>1, <1>2, FollowsNext
<1>4. ASSUME Ends(kind, p), NEW f PROVE Reads(reply, s, text, acc, f)
  BY <1>1, <1>3, <1>4 DEF Reads
<1>5. ASSUME Goes(kind, p), NEW f, ~f PROVE Reads(reply, t, x, a, f)
  BY <1>3, <1>5 DEF Reads
<1> QED
  BY <1>2, <1>3, <1>4, <1>5, Zenon

LEMMA ReadsEnd ==
  ASSUME NEW C, NEW reply, Wired(reply, C), NEW s, NEW text, NEW acc, NEW e, Reads(reply, s, text, acc, e), s.todo = <<>>,
         s.wire = <<>>
  PROVE  \A f : Reads(reply, s, text, acc, f)
<1>1. PICK n \in 0..Len(reply.wire), k \in Nat : k \in 0..Len(Part(reply, n).events) /\ Follows(reply, n, k, s, text, acc)
  BY DEF Reads
<1>2. EndsAt(reply, n, k)
  BY <1>1, FollowsEnd
<1> QED
  BY <1>1, <1>2 DEF Reads

LEMMA ReadsWhole ==
  ASSUME NEW r \in 1..MaxRequests, NEW reply \in Replies(r), reply.kind \in Http,
         NEW s, NEW text, NEW acc, NEW e, Reads(reply, s, text, acc, e), e
  PROVE  LET whole == (reply.kind = "openai" => Closes(s.parser)) /\ Finalizes(acc)
         IN  IF reply.sound THEN whole /\ text = reply.text /\ Finalized(acc) = reply.calls ELSE ~whole
<1>1. PICK n \in 0..Len(reply.wire), k \in Nat : k \in 0..Len(Part(reply, n).events)
                                                 /\ Follows(reply, n, k, s, text, acc) /\ EndsAt(reply, n, k)
  BY DEF Reads
<1>2. IF reply.sound THEN Completes(reply, n, k) /\ Says(reply, n, k) ELSE ~Completes(reply, n, k)
  BY <1>1, Assumed
<1>3. PICK all, parser : all = Gathered(Part(reply, n).events, k) /\ parser = Part(reply, n).parser
  OBVIOUS
<1>4. s.parser = parser /\ text = all.text /\ acc = all.acc
  BY <1>1, <1>3 DEF Follows
<1>5. Completes(reply, n, k) <=> (reply.kind = "openai" => Closes(parser)) /\ Finalizes(all.acc)
  BY <1>3 DEF Completes
<1>6. Says(reply, n, k) <=> all.text = reply.text /\ Finalized(all.acc) = reply.calls
  BY <1>3 DEF Says
<1> QED
  BY <1>2, <1>4, <1>5, <1>6

\* Followed, from its parts after a step.
LEMMA FollowedBy ==
  ASSUME NEW r, NEW reply, r = worker'.request, r \in DOMAIN served', served'[r] = reply, reply \in Replies(r),
         NEW kind, kind = Mine'.kind, reply.kind = kind, reply.kind \in Http, NEW s, s = stream', NEW text, text = worker'.text,
         NEW acc, acc = Mine'.acc, NEW e \in BOOLEAN, e <=> worker'.at = "ending",
         r \in broken' \/ Reads(reply, s, text, acc, e)
  PROVE  Followed'
<1>1. ASSUME Reads(reply, s, text, acc, e) PROVE Reads(reply, stream', worker'.text, Mine'.acc, worker'.at = "ending")
  BY <1>1 DEF Reads
<1> QED
  BY <1>1 DEF Followed

\* The user and the processes do not touch what the worker gathers.
LEMMA Untouched ==
  ASSUME IInv, RInv, User \/ Process \/ UNCHANGED vars
  PROVE  /\ UNCHANGED <<worker, stream, events, served>> /\ broken \subseteq broken' /\ swapped \subseteq swapped'
         /\ ~Free => Mine'.acc = Mine.acc /\ Mine'.kind = Mine.kind /\ Mine'.calls = Mine.calls
<1>p. Provided
  BY DEF RInv
<1>1. UNCHANGED <<worker, stream, events, served>> /\ broken \subseteq broken' /\ swapped \subseteq swapped'
  BY DEF User, Submit, Cancel, SwapProvider, Shutdown, Process, CliSays, CliDies, vars, main, history
<1> SUFFICES ASSUME ~Free PROVE Mine'.acc = Mine.acc /\ Mine'.kind = Mine.kind /\ Mine'.calls = Mine.calls
  BY <1>1
<1>2. worker.by \in DOMAIN providers /\ Mine' = providers'[worker.by]
  BY <1>p, <1>1, MineIs DEF Mine
<1>3. ASSUME NEW i \in DOMAIN providers, NEW c \in CliStates, Becomes(i, providers[i].acc, providers[i].calls, c)
      PROVE  Mine'.acc = Mine.acc /\ Mine'.kind = Mine.kind /\ Mine'.calls = Mine.calls
  <2>1. /\ \A j \in DOMAIN providers : providers'[j].kind = providers[j].kind
        /\ providers'[i].acc = providers[i].acc /\ providers'[i].calls = providers[i].calls
        /\ \A j \in DOMAIN providers : j # i => providers'[j] = providers[j]
    BY <1>p, <1>3, BecomesIs
  <2> QED
    BY <1>2, <2>1 DEF Mine
<1>4. CASE Submit \/ Cancel \/ UNCHANGED vars
  BY <1>1, <1>4 DEF Submit, Cancel, vars, Mine
<1>5. ASSUME NEW kind \in Http \cup {Cli}, SwapProvider(kind)
      PROVE  Mine'.acc = Mine.acc /\ Mine'.kind = Mine.kind /\ Mine'.calls = Mine.calls
  <2> DEFINE n == Len(providers)
             p == Retired(providers[n])
  <2>1. providers' = Append([providers EXCEPT ![Len(providers)] = Retired(@)], Provider(kind))
    BY <1>5 DEF SwapProvider
  <2>2. n \in DOMAIN providers /\ ASequence(providers) /\ AProvider(providers[n])
    BY <1>p DEF Provided, ASequence
  <2>3. PICK t : t = With(providers, n, p)
    OBVIOUS
  <2>4. [providers EXCEPT ![Len(providers)] = Retired(@)] = t
    BY <2>3 DEF With
  <2>5. p = [providers[n] EXCEPT !.cli = Closed(providers[n].cli)]
    BY DEF Retired, Free
  <2> HIDE DEF n, p
  <2>6. p.kind = providers[n].kind /\ p.acc = providers[n].acc /\ p.calls = providers[n].calls
    BY <2>2, <2>5 DEF AProvider
  <2>7. /\ ASequence(t) /\ DOMAIN t = DOMAIN providers
        /\ t[n] = p /\ \A j \in DOMAIN providers : j # n => t[j] = providers[j]
    BY <2>2, <2>3, Exchanged
  <2>8. \A j \in DOMAIN providers : providers'[j] = t[j]
    BY <2>1, <2>4, <2>7, Appended
  <2> QED
    BY <1>2, <2>6, <2>7, <2>8 DEF Mine
<1>6. CASE Shutdown
  <2>1. PICK n, c : /\ n \in DOMAIN providers /\ c = Closed(providers[n].cli)
                    /\ Becomes(n, providers[n].acc, providers[n].calls, c)
    BY <1>6, <1>p, ShutdownTo
  <2>2. c \in CliStates
    BY <1>p, <2>1, ClosedIs DEF Provided, AProvider
  <2> QED
    BY <1>3, <2>1, <2>2
<1>7. CASE Process
  <2>1. PICK i \in DOMAIN providers : CliSays(i) \/ CliDies(i)
    BY <1>7 DEF Process
  <2>2. providers[i].cli \in CliStates
    BY <1>p DEF Provided, AProvider
  <2>3. CASE CliSays(i)
    BY <1>p, <1>3, <2>2, <2>3, SaysTo, SaidIs
  <2>4. CASE CliDies(i)
    BY <1>p, <1>3, <2>2, <2>4, DiesTo, DeadIs
  <2> QED
    BY <2>1, <2>3, <2>4
<1> QED
  BY <1>4, <1>5, <1>6, <1>7 DEF User

\* Every read, payload and end of a reply over HTTP leads where one reading of the same bytes would.
LEMMA FollowedKept ==
  ASSUME IInv, RInv, [Next]_vars
  PROVE  Followed'
<1>p. Asked /\ Followed /\ Provided /\ Counted /\ ARecord(worker)
  BY DEF RInv, IInv, Shape
<1>a. ASSUME worker'.at \notin {"reading", "ending"} PROVE Followed'
  BY <1>a DEF Followed
<1>i. worker' = Idle => Followed'
  BY <1>a DEF Idle
<1>d. PICK r, reply, kind, s, text, acc :
        r = worker.request /\ reply = served[r] /\ kind = Mine.kind /\ s = stream /\ text = worker.text /\ acc = Mine.acc
  OBVIOUS
<1>e. PICK e \in BOOLEAN : e <=> worker.at = "ending"
  OBVIOUS
<1>q. /\ r = worker.request /\ reply = served[r] /\ kind = Mine.kind /\ s = stream /\ text = worker.text /\ acc = Mine.acc
      /\ e <=> worker.at = "ending"
  BY <1>d, <1>e
<1>n. ~Free => r \in 1..MaxRequests
  <2>1. ~Free => r \in 1..requests /\ requests <= MaxRequests /\ requests \in Nat /\ MaxRequests \in Nat
    BY <1>p, <1>q, StreamAssumption DEF Counted, IInv, Shape
  <2> QED
    BY <2>1
<1>f. ASSUME worker.at \in {"reading", "ending"}
      PROVE  /\ ~Free /\ worker.by \in DOMAIN providers
             /\ r \in DOMAIN served /\ reply \in Replies(r) /\ reply.kind = kind /\ kind \in Http
             /\ r \in broken \/ Reads(reply, s, text, acc, e)
             /\ Wired(reply, Chars(reply))
  <2>1. ~Free
    BY <1>f DEF Free
  <2>2. r \in DOMAIN served /\ reply \in Replies(r) /\ reply.kind = kind /\ kind \in Http
    BY <1>f, <1>p, <1>q DEF Followed
  <2>3. r \in broken \/ Reads(reply, s, text, acc, e)
    <3>1. r \in broken \/ Reads(reply, s, text, acc, worker.at = "ending")
      BY <1>f, <1>p, <1>q DEF Followed
    <3> QED
      BY <1>q, <3>1 DEF Reads
  <2> QED
    BY <1>n, <1>p, <2>1, <2>2, <2>3, MineIs, Assumed
<1>1. CASE User \/ Process \/ UNCHANGED vars
  <2>1. UNCHANGED <<worker, stream, served>> /\ broken \subseteq broken'
        /\ (~Free => Mine'.acc = Mine.acc /\ Mine'.kind = Mine.kind)
    BY <1>1, Untouched
  <2>2. SUFFICES ASSUME worker.at \in {"reading", "ending"} PROVE Followed'
    BY <1>a, <2>1
  <2> QED
    BY <1>f, <1>q, <2>1, <2>2, FollowedBy
<1>2. CASE Take \/ Exit \/ GiveUp \/ Refuse \/ Complete \/ OpenCli \/ CancelCli \/ StartTimesOut
  <2>1. CASE Take
    <3>1. worker' = worker \/ worker' = [Idle EXCEPT !.at = "opening", !.request = Head(tasks), !.by = Len(providers)]
      BY <2>1 DEF Take
    <3>2. worker'.at \in {"idle", "opening"}
      BY <2>1, <3>1 DEF Take, Idle
    <3> QED
      BY <1>a, <3>2
  <2>2. CASE Exit \/ OpenCli
    <3>1. \E v \in {"ended", "cli"} : worker' = [worker EXCEPT !.at = v]
      BY <2>2 DEF Exit, OpenCli
    <3> QED
      BY <1>a, <1>p, <3>1, SetAt
  <2>3. CASE GiveUp \/ Refuse \/ Complete \/ CancelCli \/ StartTimesOut
    BY <1>i, <2>3 DEF GiveUp, Refuse, Complete, CancelCli, StartTimesOut, Fail
  <2> QED
    BY <1>2, <2>1, <2>2, <2>3
<1>3. CASE Connect
  <2>1. worker.at = "opening" /\ kind \in Http /\ worker' = [worker EXCEPT !.at = "reading"]
    BY <1>3, <1>q DEF Connect
  <2>2. PICK given \in Replies(r) :
          /\ given.kind = kind /\ stream' = [NoStream EXCEPT !.wire = given.wire]
          /\ served' = [x \in DOMAIN served \cup {r} |-> IF x = r THEN given ELSE served[x]]
    BY <1>3, <1>q DEF Connect
  <2>3. worker'.at = "reading" /\ worker'.request = r /\ worker'.by = worker.by /\ worker'.text = <<>>
    BY <1>p, <1>q, <2>1 DEF ARecord, Asked
  <2>4. ~Free /\ worker.by \in DOMAIN providers /\ Mine.cli \in CliStates
    BY <1>p, <2>1, MineIs DEF Free
  <2>5. providers'[worker.by].kind = providers[worker.by].kind /\ providers'[worker.by].acc = <<>>
    BY <1>3, <1>p, <2>4, ConnectTo, BecomesIs
  <2>6. Mine'.kind = kind /\ Mine'.acc = <<>>
    BY <1>q, <2>3, <2>5 DEF Mine
  <2>7. PICK u : u = [wire |-> given.wire, parser |-> Fresh, todo |-> <<>>]
    OBVIOUS
  <2>8. stream' = u
    BY <2>2, <2>7 DEF NoStream
  <2>9. r \in DOMAIN served' /\ served'[r] = given
    BY <2>2
  <2>10. Reads(given, u, <<>>, <<>>, FALSE)
    <3>1. Wired(given, Chars(given))
      BY <1>n, <2>1, <2>2, <2>4, Assumed
    <3> QED
      BY <2>7, <3>1, ReadsFirst
  <2> QED
    BY <2>1, <2>2, <2>3, <2>6, <2>8, <2>9, <2>10, FollowedBy
<1>4. ASSUME NEW n \in ReadSizes, Read(n) PROVE Followed'
  <2>1. worker.at = "reading" /\ s.todo = <<>> /\ n <= Len(s.wire) /\ UNCHANGED <<providers, served, broken>> /\ n \in Nat
    BY <1>4, <1>q, StreamAssumption DEF Read, Reading, history
  <2>2. SUFFICES ASSUME worker' # Idle PROVE Followed'
    BY <1>i
  <2>3. PICK d, cut, heard, u : Takes(s.parser, s.wire, n, d, cut, heard, u) /\ d.ok /\ heard.ok /\ stream' = u
                                /\ worker' = worker
    BY <1>4, <1>q, <2>2 DEF Read, Takes, Fail
  <2>4. r \in broken \/ Reads(reply, u, text, acc, FALSE)
    BY <1>f, <2>1, <2>3, ReadsOn
  <2>5. Mine' = Mine
    BY <2>1, <2>3 DEF Mine
  <2>6. r = worker'.request /\ r \in DOMAIN served' /\ served'[r] = reply /\ kind = Mine'.kind /\ text = worker'.text
        /\ acc = Mine'.acc
        /\ worker'.at = "reading"
    BY <1>f, <1>q, <2>1, <2>3, <2>5
  <2> QED
    BY <1>f, <2>1, <2>3, <2>4, <2>6, FollowedBy
<1>5. CASE EndOfStream \/ LastPayload
  <2>1. worker.at = "reading" /\ worker' = [worker EXCEPT !.at = "ending"] /\ UNCHANGED <<providers, stream, served>>
        /\ broken \subseteq broken'
    BY <1>5 DEF EndOfStream, LastPayload, Reading, history
  <2>2. worker'.at = "ending" /\ worker'.request = r /\ worker'.by = worker.by /\ worker'.text = text
    BY <1>p, <1>q, <2>1 DEF ARecord
  <2>3. Mine' = Mine
    BY <2>1, <2>2 DEF Mine
  <2>4. r \in broken' \/ Reads(reply, s, text, acc, TRUE)
    <3> SUFFICES ASSUME r \notin broken' PROVE Reads(reply, s, text, acc, TRUE)
      OBVIOUS
    <3>1. Wired(reply, Chars(reply)) /\ Reads(reply, s, text, acc, e)
      BY <1>f, <2>1
    <3>2. CASE EndOfStream
      <4>1. s.todo = <<>> /\ s.wire = <<>>
        BY <1>q, <3>2 DEF EndOfStream, Reading
      <4> QED
        BY <3>1, <4>1, ReadsEnd
    <3>3. CASE LastPayload
      <4>1. PICK p : p = Head(s.todo)
        OBVIOUS
      <4>2. s.todo # <<>> /\ Ends(kind, p)
        BY <1>q, <3>3, <4>1 DEF LastPayload
      <4> QED
        BY <1>f, <2>1, <3>1, <4>1, <4>2, ReadsNext
    <3> QED
      BY <1>5, <3>2, <3>3
  <2>5. r \in DOMAIN served' /\ served'[r] = reply /\ kind = Mine'.kind /\ acc = Mine'.acc /\ stream' = s
    BY <1>f, <1>q, <2>1, <2>3
  <2> QED
    BY <1>f, <2>1, <2>2, <2>4, <2>5, FollowedBy
<1>6. CASE Payload
  <2>1. PICK p : p = Head(s.todo)
    OBVIOUS
  <2>2. worker.at = "reading" /\ s.todo # <<>> /\ ~Ends(kind, p) /\ UNCHANGED served
        /\ broken' = (IF p \in Sorry THEN broken \cup {r} ELSE broken)
    BY <1>6, <1>q, <2>1 DEF Payload
  <2>3. SUFFICES ASSUME worker' # Idle PROVE Followed'
    BY <1>i
  <2>4. PICK u, x, a : u = [s EXCEPT !.todo = Tail(s.todo)] /\ x = text \o Meaning[p].text
                       /\ a = FoldLeft(FeedDelta, acc, Meaning[p].deltas)
    OBVIOUS
  <2>5. p \in DOMAIN Meaning /\ Becomes(worker.by, a, Mine.calls, Mine.cli) /\ worker' = [worker EXCEPT !.text = x]
        /\ stream' = u
    BY <1>6, <1>p, <1>q, <2>1, <2>3, <2>4, PayloadTo DEF Fail
  <2>6. ~Odd(p)
    BY <1>6, <1>q, <2>1, <2>3 DEF Payload, Heard, Fail
  <2>7. worker'.at = "reading" /\ worker'.request = r /\ worker'.by = worker.by /\ worker'.text = x
    BY <1>p, <1>q, <2>2, <2>5 DEF ARecord
  <2>8. ~Free /\ worker.by \in DOMAIN providers /\ Mine.cli \in CliStates
    BY <1>p, <2>2, MineIs DEF Free
  <2>9. providers'[worker.by].kind = providers[worker.by].kind /\ providers'[worker.by].acc = a
    BY <1>p, <2>5, <2>8, BecomesIs
  <2>10. Mine'.kind = kind /\ Mine'.acc = a
    BY <1>q, <2>7, <2>9 DEF Mine
  <2>11. r \in broken' \/ Reads(reply, u, x, a, FALSE)
    <3> SUFFICES ASSUME r \notin broken' PROVE Reads(reply, u, x, a, FALSE)
      OBVIOUS
    <3>1. Wired(reply, Chars(reply)) /\ Reads(reply, s, text, acc, e)
      BY <1>f, <2>2
    <3>2. Goes(kind, p)
      BY <2>2, <2>5, <2>6 DEF Goes
    <3>3. Reads(reply, [s EXCEPT !.todo = Tail(s.todo)], text \o Meaning[p].text,
                FoldLeft(FeedDelta, acc, Meaning[p].deltas), FALSE)
      BY <1>f, <2>1, <2>2, <3>1, <3>2, ReadsNext
    <3> QED
      BY <2>4, <3>3, Zenon
  <2>12. r \in DOMAIN served' /\ served'[r] = reply
    BY <1>f, <1>q, <2>2
  <2> QED
    BY <1>f, <2>2, <2>5, <2>7, <2>10, <2>11, <2>12, FollowedBy
<1>7. CASE EndReply
  <2>1. worker' = [worker EXCEPT !.at = "completed"] \/ worker' = Idle
    BY <1>7 DEF EndReply, Fail
  <2> QED
    BY <1>a, <1>i, <1>p, <2>1, SetAt
<1>8. CASE SendPrompt
  <2>1. worker.at = "cli" /\ (worker' = [worker EXCEPT !.wrote = TRUE] \/ worker' = Idle)
    BY <1>8 DEF SendPrompt, Fail
  <2> QED
    BY <1>a, <1>i, <1>p, <2>1, SetWrote
<1>9. CASE Hear
  <2>1. worker.at = "cli"
    BY <1>9 DEF Hear, Listening
  <2>2. worker' = worker \/ worker' = Idle \/ (\E t : worker' = [worker EXCEPT !.at = "completed", !.text = t])
    BY <1>9, <1>p, HearTo DEF Fail
  <2>3. (\E t : worker' = [worker EXCEPT !.at = "completed", !.text = t]) => worker'.at = "completed"
    BY <1>p DEF ARecord
  <2> QED
    BY <1>a, <1>i, <2>1, <2>2, <2>3
<1> QED
  BY <1>1, <1>2, <1>3, <1>4, <1>5, <1>6, <1>7, <1>8, <1>9 DEF Next, Run

\* Finished, from its parts after a step.
LEMMA FinishedBy ==
  ASSUME NEW r, NEW reply, r = worker'.request, r \in DOMAIN served', served'[r] = reply,
         r \in broken' \/ (reply.sound /\ worker'.text = reply.text /\ Mine'.calls = reply.calls)
  PROVE  Finished'
BY DEF Finished

\* A reply that came to its end says what it is to say.
LEMMA FinishedKept ==
  ASSUME IInv, RInv, [Next]_vars
  PROVE  Finished'
<1>p. Asked /\ Followed /\ Finished /\ Provided /\ Counted /\ ARecord(worker)
  BY DEF RInv, IInv, Shape
<1>a. ASSUME worker'.at # "completed" PROVE Finished'
  BY <1>a DEF Finished
<1>i. worker' = Idle => Finished'
  BY <1>a DEF Idle
<1>q. PICK r, reply : r = worker.request /\ reply = served[r]
  OBVIOUS
<1>n. ~Free => r \in 1..MaxRequests
  <2>1. ~Free => r \in 1..requests /\ requests <= MaxRequests /\ requests \in Nat /\ MaxRequests \in Nat
    BY <1>p, <1>q, StreamAssumption DEF Counted, IInv, Shape
  <2> QED
    BY <2>1
<1>1. CASE User \/ Process \/ UNCHANGED vars
  <2>1. UNCHANGED <<worker, stream, served>> /\ broken \subseteq broken' /\ (~Free => Mine'.calls = Mine.calls)
    BY <1>1, Untouched
  <2>2. SUFFICES ASSUME worker.at = "completed" PROVE Finished'
    BY <1>a, <2>1
  <2>3. ~Free
    BY <2>2 DEF Free
  <2>4. r \in DOMAIN served /\ (r \in broken \/ (reply.sound /\ worker.text = reply.text /\ Mine.calls = reply.calls))
    BY <1>p, <1>q, <2>2 DEF Finished
  <2> QED
    BY <1>q, <2>1, <2>3, <2>4, FinishedBy
<1>2. CASE Take \/ Exit \/ GiveUp \/ Refuse \/ Complete \/ OpenCli \/ CancelCli \/ StartTimesOut
  <2>1. CASE Take
    <3>1. worker' = worker \/ worker' = [Idle EXCEPT !.at = "opening", !.request = Head(tasks), !.by = Len(providers)]
      BY <2>1 DEF Take
    <3>2. worker'.at \in {"idle", "opening"}
      BY <2>1, <3>1 DEF Take, Idle
    <3> QED
      BY <1>a, <3>2
  <2>2. CASE Exit \/ OpenCli
    <3>1. \E v \in {"ended", "cli"} : worker' = [worker EXCEPT !.at = v]
      BY <2>2 DEF Exit, OpenCli
    <3> QED
      BY <1>a, <1>p, <3>1, SetAt
  <2>3. CASE GiveUp \/ Refuse \/ Complete \/ CancelCli \/ StartTimesOut
    BY <1>i, <2>3 DEF GiveUp, Refuse, Complete, CancelCli, StartTimesOut, Fail
  <2> QED
    BY <1>2, <2>1, <2>2, <2>3
<1>3. CASE Connect \/ EndOfStream \/ LastPayload
  <2>1. \E a \in {"reading", "ending"} : worker' = [worker EXCEPT !.at = a]
    BY <1>3 DEF Connect, EndOfStream, LastPayload
  <2> QED
    BY <1>a, <1>p, <2>1, SetAt
<1>4. CASE (\E n \in ReadSizes : Read(n)) \/ Payload
  <2>1. worker.at = "reading"
    BY <1>4 DEF Read, Reading, Payload
  <2>2. worker' = Idle \/ worker' = worker \/ \E t : worker' = [worker EXCEPT !.text = t]
    <3>1. CASE \E n \in ReadSizes : Read(n)
      BY <3>1 DEF Read, Fail
    <3>2. CASE Payload
      BY <1>p, <3>2, PayloadTo DEF Fail
    <3> QED
      BY <1>4, <3>1, <3>2
  <2> QED
    BY <1>a, <1>i, <1>p, <2>1, <2>2, SetText
<1>5. CASE EndReply
  <2>1. SUFFICES ASSUME worker' # Idle PROVE Finished'
    BY <1>i
  <2>2. PICK kind, s, acc : kind = Mine.kind /\ s = stream /\ acc = Mine.acc
    OBVIOUS
  <2>3. PICK calls : calls = Finalized(acc)
    OBVIOUS
  <2>4. /\ (kind = "openai" => Closes(s.parser)) /\ Finalizes(acc)
        /\ Becomes(worker.by, acc, calls, Mine.cli) /\ worker' = [worker EXCEPT !.at = "completed"]
    BY <1>5, <1>p, <2>1, <2>2, <2>3, EndReplyTo DEF Fail
  <2>5. worker.at = "ending" /\ UNCHANGED <<served, broken>>
    BY <1>5 DEF EndReply, history
  <2>6. worker'.request = r /\ worker'.by = worker.by /\ worker'.text = worker.text
    BY <1>p, <1>q, <2>4 DEF ARecord
  <2>7. ~Free /\ worker.by \in DOMAIN providers /\ Mine.cli \in CliStates
    BY <1>p, <2>5, MineIs DEF Free
  <2>8. providers'[worker.by].calls = calls
    BY <1>p, <2>4, <2>7, BecomesIs
  <2>9. Mine'.calls = calls
    BY <2>6, <2>8 DEF Mine
  <2>10. r \in DOMAIN served /\ reply \in Replies(r) /\ reply.kind = kind /\ kind \in Http
         /\ (r \in broken \/ Reads(reply, s, worker.text, acc, worker.at = "ending"))
    BY <1>p, <1>q, <2>2, <2>5 DEF Followed
  <2>11. r \in broken \/ Reads(reply, s, worker.text, acc, TRUE)
    BY <2>5, <2>10 DEF Reads
  <2>12. ASSUME r \notin broken PROVE reply.sound /\ worker.text = reply.text /\ calls = reply.calls
    <3>1. PICK text : text = worker.text
      OBVIOUS
    <3>2. Reads(reply, s, text, acc, TRUE)
      BY <2>11, <2>12, <3>1
    <3>3. LET whole == (reply.kind = "openai" => Closes(s.parser)) /\ Finalizes(acc)
          IN  IF reply.sound THEN whole /\ text = reply.text /\ Finalized(acc) = reply.calls ELSE ~whole
      BY <1>n, <2>7, <2>10, <3>2, ReadsWhole
    <3> QED
      BY <2>3, <2>4, <2>10, <3>1, <3>3
  <2> QED
    BY <1>q, <2>5, <2>6, <2>9, <2>10, <2>12, FinishedBy
<1>6. CASE SendPrompt
  <2>1. worker.at = "cli" /\ (worker' = [worker EXCEPT !.wrote = TRUE] \/ worker' = Idle)
    BY <1>6 DEF SendPrompt, Fail
  <2> QED
    BY <1>a, <1>i, <1>p, <2>1, SetWrote
<1>7. CASE Hear
  <2>1. worker.at = "cli" /\ Mine.cli.out # <<>> /\ UNCHANGED <<served, broken>>
    BY <1>7 DEF Hear, Listening, history
  <2>2. PICK said : said = Head(Mine.cli.out)
    OBVIOUS
  <2>3. SUFFICES ASSUME worker'.at = "completed" PROVE Finished'
    BY <1>a
  <2>4. worker' # worker /\ worker' # Idle
    BY <2>1, <2>3 DEF Idle
  <2>5. /\ said.kind = "result" /\ worker.wrote /\ served[said.request].sound
        /\ Becomes(worker.by, Mine.acc, served[said.request].calls, Listened)
        /\ worker' = [worker EXCEPT !.at = "completed", !.text = served[said.request].text]
    BY <1>7, <1>p, <2>2, <2>4, HearTo DEF Fail
  <2>6. ~Free /\ worker.by \in DOMAIN providers /\ Mine.cli \in CliStates
    BY <1>p, <2>1, MineIs DEF Free
  <2>7. said.request = r /\ r \in DOMAIN served
    <3>1. OfRequest(Mine.cli.out, r) /\ r \in DOMAIN served
      BY <1>p, <1>q, <2>1, <2>5 DEF Asked
    <3>2. Mine.cli.out \in Seq(Messages)
      BY <2>6, FieldsIs
    <3> QED
      BY <2>1, <2>2, <2>5, <3>1, <3>2, OfTail
  <2>8. worker'.request = r /\ worker'.by = worker.by /\ worker'.text = reply.text
    BY <1>p, <1>q, <2>5, <2>7 DEF ARecord
  <2>9. Listened \in CliStates
    BY <2>1, <2>6, ListenedIs
  <2>10. providers'[worker.by].calls = served[said.request].calls
    BY <1>p, <2>5, <2>6, <2>9, BecomesIs
  <2>11. Mine'.calls = reply.calls
    BY <1>q, <2>7, <2>8, <2>10 DEF Mine
  <2> QED
    BY <1>q, <2>1, <2>5, <2>7, <2>8, <2>11, FinishedBy
<1> QED
  BY <1>1, <1>2, <1>3, <1>4, <1>5, <1>6, <1>7 DEF Next, Run

\* What was posted stays right: nothing is served to a request that is over.
LEMMA SentKept ==
  ASSUME IInv, AllSent, Served, served' = served \/ ~Free
  PROVE  \A i \in DOMAIN events : Sent(events[i], served', broken', swapped')
<1> SUFFICES ASSUME NEW i \in DOMAIN events PROVE Sent(events[i], served', broken', swapped')
  OBVIOUS
<1>1. PICK e : e = events[i]
  OBVIOUS
<1>2. Sent(e, served, broken, swapped)
  BY <1>1 DEF AllSent
<1>3. CASE e.kind = "delta"
  BY <1>1, <1>3 DEF Sent
<1>4. CASE Terminal(e)
  <2>1. e.request \in DOMAIN served' => e.request \in DOMAIN served /\ served'[e.request] = served[e.request]
    <3>1. CASE served' = served
      BY <3>1
    <3>2. CASE ~Free
      <4>1. e.request # worker.request
        BY <1>1, <1>4, <3>2 DEF IInv, OnePlace
      <4> QED
        BY <4>1 DEF Served
    <3> QED
      BY <3>1, <3>2
  <2>2. broken \subseteq broken' /\ swapped \subseteq swapped'
    BY DEF Served
  <2> QED
    BY <1>1, <1>2, <2>1, <2>2 DEF Sent
<1> QED
  BY <1>1, <1>2, <1>3, <1>4 DEF Sent, Terminal

LEMMA AllSentBy ==
  ASSUME IInv, AllSent, Served, served' = served \/ ~Free,
         events' = events \/ \E e : events' = Append(events, e) /\ Sent(e, served', broken', swapped')
  PROVE  AllSent'
<1>1. \A i \in DOMAIN events : Sent(events[i], served', broken', swapped')
  BY SentKept
<1>2. CASE events' = events
  BY <1>1, <1>2 DEF AllSent, Sent
<1>3. ASSUME NEW e, events' = Append(events, e), Sent(e, served', broken', swapped') PROVE AllSent'
  <2>1. /\ DOMAIN events = 1..Len(events) /\ Len(events) \in Nat /\ DOMAIN events' = 1..Len(events) + 1
        /\ \A i \in 1..Len(events) : events'[i] = events[i]
        /\ events'[Len(events) + 1] = e
    BY <1>3, Appended DEF IInv, Shape
  <2>2. ASSUME NEW i \in DOMAIN events' PROVE Sent(events'[i], served', broken', swapped')
    <3>1. i \in DOMAIN events \/ i = Len(events) + 1
      BY <2>1
    <3> QED
      BY <1>1, <1>3, <2>1, <3>1
  <2>3. (\A i \in DOMAIN events : Sent(events[i], served, broken, swapped))'
    BY <2>2 DEF Sent
  <2> QED
    BY <2>3 DEF AllSent
<1> QED
  BY <1>2, <1>3

\* Text that is posted as it comes is not spoken of; an error is right when the reply is not
\* sound, or comes from a process that was replaced.
LEMMA DeltaIs ==
  ASSUME NEW text, NEW reply, NEW cut, NEW replaced
  PROVE  Sent(Answer("delta", text, <<>>), reply, cut, replaced)
BY DEF Sent, Answer

LEMMA ErrorIs ==
  ASSUME NEW reply, NEW cut, NEW replaced,
         worker.request \in DOMAIN reply \ cut =>
           ~reply[worker.request].sound \/ (worker.request \in replaced /\ reply[worker.request].kind = Cli)
  PROVE  Sent(Answer("error", <<>>, <<>>), reply, cut, replaced)
BY DEF Sent, Answer

LEMMA FailsRight ==
  ASSUME IInv, AllSent, Served, ~Free, Fail,
         worker.request \in DOMAIN served' \ broken' =>
           ~served'[worker.request].sound \/ (worker.request \in swapped' /\ served'[worker.request].kind = Cli)
  PROVE  AllSent'
<1>1. Sent(Answer("error", <<>>, <<>>), served', broken', swapped')
  BY ErrorIs
<1>2. events' = Append(events, Answer("error", <<>>, <<>>))
  BY DEF Fail
<1> QED
  BY <1>1, <1>2, AllSentBy

\* What is posted says what was sent, and an error is posted only where there is cause.
LEMMA AllSentKept ==
  ASSUME IInv, RInv, [Next]_vars
  PROVE  AllSent'
<1>p. Asked /\ Followed /\ Finished /\ Provided /\ Mailed /\ AllSent
  BY DEF RInv
<1>d. PICK r, reply : r = worker.request /\ reply = served[r]
  OBVIOUS
<1>n. ~Free => r \in 1..MaxRequests
  <2>1. ~Free => r \in 1..requests /\ requests <= MaxRequests /\ requests \in Nat /\ MaxRequests \in Nat
    BY <1>d, StreamAssumption DEF RInv, Counted, IInv, Shape
  <2> QED
    BY <2>1
<1>1. CASE User \/ Process \/ UNCHANGED vars
  <2>1. UNCHANGED <<events, served>> /\ broken \subseteq broken' /\ swapped \subseteq swapped'
    BY <1>1, Untouched
  <2>2. Served
    BY <2>1 DEF Served
  <2> QED
    BY <1>p, <2>1, <2>2, AllSentBy
<1>2. CASE Take \/ Exit
  <2>1. UNCHANGED <<events, served, broken, swapped>>
    BY <1>2 DEF Take, Exit, history
  <2>2. Served
    BY <2>1 DEF Served
  <2> QED
    BY <1>p, <2>1, <2>2, AllSentBy
<1>3. ASSUME Works PROVE Served /\ swapped' = swapped /\ ~Free
  BY <1>3, <1>p, WorksServed, WorksServes DEF Serves
<1>4. CASE GiveUp \/ CancelCli \/ Connect \/ EndOfStream \/ LastPayload \/ OpenCli
  <2>1. events' = events /\ Works
    BY <1>4 DEF GiveUp, CancelCli, Connect, EndOfStream, LastPayload, OpenCli, Works
  <2> QED
    BY <1>3, <1>p, <2>1, AllSentBy
<1>5. CASE Refuse
  <2>1. Fail /\ worker.at = "opening" /\ served' = served /\ Works
    BY <1>5 DEF Refuse, history, Works
  <2>2. worker.request \notin DOMAIN served'
    BY <1>p, <2>1 DEF Asked
  <2> QED
    BY <1>3, <1>p, <2>1, <2>2, FailsRight
<1>6. CASE Complete
  <2>1. worker.at = "completed" /\ UNCHANGED <<served, broken, swapped>> /\ Works
    BY <1>6 DEF Complete, history, Works
  <2>2. PICK text, calls : text = worker.text /\ calls = Current.calls
    OBVIOUS
  <2>3. r \in DOMAIN served /\ (r \in broken \/ (reply.sound /\ text = reply.text /\ Mine.calls = reply.calls))
    BY <1>d, <1>p, <2>1, <2>2 DEF Finished
  <2>4. Mine.calls = calls \/ (r \in swapped /\ calls = <<>>)
    BY <1>d, <1>p, <2>1, <2>2 DEF Provided, Free, Mine, Current
  <2>5. PICK e : e = Answer("ready", text, calls)
    OBVIOUS
  <2>6. events' = Append(events, e)
    BY <1>6, <2>2, <2>5 DEF Complete
  <2>7. e.kind = "ready" /\ e.request = r /\ e.text = text /\ e.calls = calls
    BY <1>d, <2>5 DEF Answer
  <2>8. Sent(e, served, broken, swapped)
    BY <1>d, <2>3, <2>4, <2>7 DEF Sent
  <2> QED
    BY <1>3, <1>p, <2>1, <2>6, <2>8, AllSentBy
<1>7. ASSUME worker.at \in {"reading", "ending"}
      PROVE  /\ r \in DOMAIN served /\ reply \in Replies(r) /\ reply.kind = Mine.kind /\ reply.kind \in Http
             /\ r \in 1..MaxRequests /\ Wired(reply, Chars(reply))
             /\ reply.sound => Part(reply, Len(reply.wire)).ok /\ Fits(reply) /\ Readable(reply)
             /\ r \in broken \/ Reads(reply, stream, worker.text, Mine.acc, worker.at = "ending")
  <2>1. /\ r \in DOMAIN served /\ reply \in Replies(r) /\ reply.kind = Mine.kind /\ reply.kind \in Http
        /\ r \in broken \/ Reads(reply, stream, worker.text, Mine.acc, worker.at = "ending")
    BY <1>7, <1>d, <1>p DEF Followed
  <2>2. r \in 1..MaxRequests
    BY <1>7, <1>n DEF Free
  <2> QED
    BY <2>1, <2>2, Assumed
<1>8. ASSUME NEW n \in ReadSizes, Read(n) PROVE AllSent'
  <2>1. /\ worker.at = "reading" /\ stream.todo = <<>> /\ n <= Len(stream.wire) /\ n \in Nat
        /\ UNCHANGED <<served, broken, swapped>> /\ Works
    BY <1>8, StreamAssumption DEF Read, Reading, history, Works
  <2>2. CASE events' = events
    BY <1>3, <1>p, <2>1, <2>2, AllSentBy
  <2>3. CASE events' # events
    <3>1. PICK s, text, acc, e : s = stream /\ text = worker.text /\ acc = Mine.acc /\ e = FALSE
      OBVIOUS
    <3>2. PICK d, cut, heard : /\ d = Decoded(s.parser.pend, SubSeq(s.wire, 1, n))
                               /\ cut = Extracted(s.parser.buffer \o d.text)
                               /\ heard = Processed(s.parser.data, cut.lines)
                               /\ ~(d.ok /\ cut.ok /\ heard.ok) /\ Fail
      BY <1>8, <2>3, <3>1 DEF Read
    <3>3. PICK u : u = [wire |-> SubSeq(s.wire, n + 1, Len(s.wire)),
                        parser |-> [pend |-> d.pend, buffer |-> cut.rest, data |-> heard.data], todo |-> heard.events]
      OBVIOUS
    <3>4. Takes(s.parser, s.wire, n, d, cut, heard, u)
      BY <3>2, <3>3, Zenon DEF Takes
    <3>5. r \in broken \/ ~reply.sound
      <4> SUFFICES ASSUME r \notin broken, reply.sound PROVE FALSE
        OBVIOUS
      <4>1. Reads(reply, s, text, acc, FALSE)
        BY <1>7, <2>1, <3>1 DEF Reads
      <4>2. d.ok /\ cut.ok /\ heard.ok
        BY <1>7, <2>1, <3>1, <3>4, <4>1, ReadsOn
      <4> QED
        BY <3>2, <4>2
    <3> QED
      BY <1>3, <1>d, <1>p, <2>1, <3>2, <3>5, FailsRight
  <2> QED
    BY <2>2, <2>3
<1>9. CASE Payload
  <2>1. PICK p, kind : p = Head(stream.todo) /\ kind = Mine.kind
    OBVIOUS
  <2>2. worker.at = "reading" /\ stream.todo # <<>> /\ ~Ends(kind, p) /\ UNCHANGED <<served, swapped>> /\ Works
    BY <1>9, <2>1 DEF Payload, Works
  <2>3. \/ Fail /\ UNCHANGED broken /\ (p \notin DOMAIN Meaning \/ Odd(p))
        \/ events' = events \/ \E t : events' = Append(events, Answer("delta", t, <<>>))
    BY <1>9, <1>p, <2>1, PayloadTo
  <2>4. CASE events' = events \/ \E t : events' = Append(events, Answer("delta", t, <<>>))
    <3>1. events' = events \/ \E e : events' = Append(events, e) /\ Sent(e, served', broken', swapped')
      BY <2>4, DeltaIs
    <3> QED
      BY <1>3, <1>p, <2>2, <3>1, AllSentBy
  <2>5. CASE Fail /\ UNCHANGED broken /\ (p \notin DOMAIN Meaning \/ Odd(p))
    <3>1. PICK s, text, acc : s = stream /\ text = worker.text /\ acc = Mine.acc
      OBVIOUS
    <3>2. r \in broken \/ ~reply.sound
      <4> SUFFICES ASSUME r \notin broken, reply.sound PROVE FALSE
        OBVIOUS
      <4>1. Reads(reply, s, text, acc, FALSE)
        BY <1>7, <2>2, <3>1 DEF Reads
      <4>2. p \in DOMAIN Meaning /\ ~Odd(p)
        BY <1>7, <2>1, <2>2, <3>1, <4>1, ReadsNext
      <4> QED
        BY <2>5, <4>2
    <3> QED
      BY <1>3, <1>d, <1>p, <2>2, <2>5, <3>2, FailsRight
  <2> QED
    BY <2>3, <2>4, <2>5
<1>10. CASE EndReply
  <2>1. worker.at = "ending" /\ UNCHANGED <<served, broken, swapped>> /\ Works
    BY <1>10 DEF EndReply, history, Works
  <2>2. CASE events' = events
    BY <1>3, <1>p, <2>1, <2>2, AllSentBy
  <2>3. CASE events' # events
    <3>1. PICK s, text, acc, kind : s = stream /\ text = worker.text /\ acc = Mine.acc /\ kind = Mine.kind
      OBVIOUS
    <3>2. Fail /\ ~((kind = "openai" => Closes(s.parser)) /\ Finalizes(acc))
      BY <1>10, <1>p, <2>3, <3>1, EndReplyTo
    <3>3. r \in broken \/ ~reply.sound
      <4> SUFFICES ASSUME r \notin broken, reply.sound PROVE FALSE
        OBVIOUS
      <4>1. Reads(reply, s, text, acc, TRUE)
        BY <1>7, <2>1, <3>1 DEF Reads
      <4>2. LET whole == (reply.kind = "openai" => Closes(s.parser)) /\ Finalizes(acc)
            IN  IF reply.sound THEN whole /\ text = reply.text /\ Finalized(acc) = reply.calls ELSE ~whole
        BY <1>7, <2>1, <4>1, ReadsWhole
      <4> QED
        BY <1>7, <2>1, <3>1, <3>2, <4>2
    <3> QED
      BY <1>3, <1>d, <1>p, <2>1, <3>2, <3>3, FailsRight
  <2> QED
    BY <2>2, <2>3
<1>11. CASE SendPrompt
  <2>1. worker.at = "cli" /\ ~worker.wrote /\ Works
    BY <1>11 DEF SendPrompt, Works
  <2>2. events' = events \/ (Fail /\ UNCHANGED served)
    BY <1>11 DEF SendPrompt
  <2>3. worker.request \notin DOMAIN served
    BY <1>p, <2>1 DEF Asked
  <2> QED
    BY <1>3, <1>p, <2>1, <2>2, <2>3, AllSentBy, FailsRight
<1>12. ASSUME worker.at = "cli"
       PROVE  /\ worker.by \in DOMAIN providers /\ Mine.cli \in CliStates /\ Mine.cli.out \in Seq(Messages)
              /\ ~worker.wrote => r \notin DOMAIN served
              /\ worker.wrote => /\ reply.kind = Cli /\ OfRequest(Mine.cli.out, r)
                                 /\ (Mine.cli.alive /\ Mine.cli.ready) \/ r \in broken \cup swapped \cup cancelled
  <2>1. worker.by \in DOMAIN providers /\ Mine.cli \in CliStates
    BY <1>12, <1>p, MineIs DEF Free
  <2> QED
    BY <1>12, <1>d, <1>p, <2>1, FieldsIs DEF Asked
<1>13. CASE StartTimesOut
  <2>1. worker.at = "cli" /\ ~Mine.cli.ready /\ r \notin cancelled /\ Fail /\ UNCHANGED <<served, broken, swapped>> /\ Works
    BY <1>13, <1>d DEF StartTimesOut, Listening, Stopped, history, Works
  <2>2. r \in DOMAIN served \ broken => r \in swapped /\ reply.kind = Cli
    BY <1>12, <2>1
  <2> QED
    BY <1>3, <1>d, <1>p, <2>1, <2>2, FailsRight
<1>14. CASE Hear
  <2>1. /\ worker.at = "cli" /\ r \notin cancelled /\ Mine.cli.out # <<>> /\ UNCHANGED <<served, broken, swapped>> /\ Works
        /\ Mine.cli.ready => worker.wrote
    BY <1>14, <1>d DEF Hear, Listening, Stopped, history, Works
  <2>2. PICK said : said = Head(Mine.cli.out)
    OBVIOUS
  <2>3. \/ said.kind = "eof" /\ Fail
        \/ said.kind = "result" /\ worker.wrote /\ ~served[said.request].sound /\ Fail
        \/ events' = events \/ \E t : events' = Append(events, Answer("delta", t, <<>>))
    BY <1>14, <1>p, <2>2, HearTo
  <2>4. CASE events' = events \/ \E t : events' = Append(events, Answer("delta", t, <<>>))
    <3>1. events' = events \/ \E e : events' = Append(events, e) /\ Sent(e, served', broken', swapped')
      BY <2>4, DeltaIs
    <3> QED
      BY <1>3, <1>p, <2>1, <3>1, AllSentBy
  <2>5. CASE said.kind = "result" /\ worker.wrote /\ ~served[said.request].sound /\ Fail
    <3>1. said.request = r
      BY <1>12, <2>1, <2>2, <2>5, OfTail
    <3> QED
      BY <1>3, <1>d, <1>p, <2>1, <2>5, <3>1, FailsRight
  <2>6. CASE said.kind = "eof" /\ Fail
    <3>1. ~Mine.cli.alive
      <4>1. PICK i, a : i = worker.by /\ a = Awaited(i)
        OBVIOUS
      <4>2. Mine.cli.alive => Lively(Mine.cli, a)
        BY <1>12, <1>p, <2>1, <4>1 DEF Mailed, Mine
      <4>3. PICK c : c = Mine.cli
        OBVIOUS
      <4>4. PICK d : d = [say |-> c.say, out |-> Tail(c.out)]
        OBVIOUS
      <4>5. d.say = c.say /\ d.out = Tail(c.out)
        BY <4>4
      <4>6. c.alive => Head(c.out).kind # "eof"
        BY <1>12, <2>1, <4>2, <4>3, <4>5, LivelyHeard
      <4> QED
        BY <2>2, <2>6, <4>3, <4>6
    <3>2. r \in DOMAIN served \ broken => r \in swapped /\ reply.kind = Cli
      BY <1>12, <2>1, <3>1
    <3> QED
      BY <1>3, <1>d, <1>p, <2>1, <2>6, <3>2, FailsRight
  <2> QED
    BY <2>3, <2>4, <2>5, <2>6
<1> QED
  BY <1>1, <1>2, <1>4, <1>5, <1>6, <1>8, <1>9, <1>10, <1>11, <1>13, <1>14 DEF Next, Run

\* At first nothing is asked.
LEMMA RStarts == Init => RInv
<1> SUFFICES ASSUME Init PROVE RInv
  OBVIOUS
<1>1. requests = 0 /\ tasks = <<>> /\ worker = Idle /\ events = <<>> /\ served = <<>>
  BY DEF Init
<1>2. PICK kind \in Http \cup {Cli} : providers = <<Provider(kind)>>
  BY DEF Init
<1>3. PICK p : p = Provider(kind)
  OBVIOUS
<1>4. AProvider(p) /\ p.cli = NoProcess
  <2>1. NoProcess \in CliStates
    BY DEF NoProcess, CliStates
  <2> HIDE DEF NoProcess
  <2> QED
    BY <1>3, <2>1 DEF Provider, AProvider
<1>5. /\ providers = <<p>> /\ DOMAIN providers = {1} /\ providers[1] = p /\ providers # <<>>
  BY <1>2, <1>3
<1>6. ASequence(providers)
  <2>1. providers \in Seq({p})
    BY <1>5
  <2> QED
    BY <2>1 DEF ASequence
<1>7. worker.at = "idle" /\ worker.wrote \in BOOLEAN
  BY <1>1 DEF Idle
<1>8. Counted
  BY <1>1, <1>7, StreamAssumption DEF Counted, Free
<1>9. Provided
  BY <1>4, <1>5, <1>6, <1>7 DEF Provided, Free
<1>10. Mailed
  BY <1>4, <1>5 DEF Mailed, NoProcess
<1>11. Places /\ Asked /\ Followed /\ Finished
  BY <1>7 DEF Places, Asked, Followed, Finished
<1>12. AllSent
  BY <1>1 DEF AllSent
<1> QED
  BY <1>8, <1>9, <1>10, <1>11, <1>12 DEF RInv

LEMMA RSteps == IInv /\ RInv /\ [Next]_vars => RInv'
BY CountedKept, ProvidedKept, MailedKept, PlacesKept, AskedKept, FollowedKept, FinishedKept, AllSentKept DEF RInv

LEMMA RGives == RInv => RepliesAsSent
<1> SUFFICES ASSUME RInv, NEW i \in DOMAIN events, events[i].request \in DOMAIN served \ broken
             PROVE  LET e     == events[i]
                        reply == served[e.request]
                    IN  CASE e.kind = "ready" -> /\ reply.sound /\ e.text = reply.text
                                                 /\ e.calls = reply.calls \/ (e.request \in swapped /\ e.calls = <<>>)
                          [] e.kind = "error" -> ~reply.sound \/ (e.request \in swapped /\ reply.kind = Cli)
                          [] e.kind = "delta" -> TRUE
  BY Zenon DEF RepliesAsSent
<1>1. Sent(events[i], served, broken, swapped)
  BY DEF RInv, AllSent
<1> QED
  BY <1>1 DEF Sent

\* A reply is posted exactly as it was sent, however it was cut into reads, and a sound one is
\* never refused (SSEParser, ToolCallAccumulator, stream_chat, _run_loop).
THEOREM AsSent == Spec => []RepliesAsSent
<1>1. Init => IInv /\ RInv
  BY Starts, RStarts
<1>2. IInv /\ RInv /\ [Next]_vars => (IInv /\ RInv)'
  BY Steps, RSteps
<1>3. IInv /\ RInv => RepliesAsSent
  BY RGives
<1> QED
  BY <1>1, <1>2, <1>3, PTL DEF Spec
=============================================================================
