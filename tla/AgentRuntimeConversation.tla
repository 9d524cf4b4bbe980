----------------------- MODULE AgentRuntimeConversation -----------------------
(***************************************************************************)
(* What holds of the conversation and of the decisions the user is asked   *)
(* for, for every value of the constants.                                  *)
(*                                                                         *)
(* All of it rests on the shape of the conversation: completed turns that  *)
(* validate, then the messages of the active turn, which end in the batch  *)
(* of calls that the loop or a card is working on.                         *)
(***************************************************************************)
EXTENDS AgentRuntimeTurns

-----------------------------------------------------------------------------
(* Open calls and valid prefixes *)

\* Message i stands where validate_sequence allows it.
Placed(msgs, i) ==
  IF msgs[i].role = "TOOL" THEN CallsOf(msgs[i]) \subseteq OpenCalls(msgs, i)
                           ELSE OpenCalls(msgs, i) = {}

SoundTo(msgs, n) == \A i \in 1..n : Placed(msgs, i)

\* A call is open when some message asked for it and none after answered it.
LEMMA OpenMembers ==
  ASSUME NEW msgs, NEW i \in Nat, NEW c
  PROVE  c \in OpenCalls(msgs, i) <=>
           \E j \in 1..(i - 1) :
             /\ msgs[j].role = "ASSISTANT" /\ c \in CallsOf(msgs[j])
             /\ \A k \in (j + 1)..(i - 1) : ~(msgs[k].role = "TOOL" /\ c \in CallsOf(msgs[k]))
BY DEF OpenCalls

\* What is open, and whether a message is in its place, depends only on the
\* messages before.
LEMMA OpenDependsOnPrefix ==
  ASSUME NEW a, NEW b, NEW i \in Nat, \A j \in 1..(i - 1) : a[j] = b[j]
  PROVE  OpenCalls(a, i) = OpenCalls(b, i)
<1> DEFINE asks(s) == {k \in 1..(i - 1) : s[k].role = "ASSISTANT"}
<1>1. asks(a) = asks(b)
  OBVIOUS
<1>2. {CallsOf(a[j]) : j \in asks(a)} = {CallsOf(b[j]) : j \in asks(b)}
  BY <1>1
<1>3. \A c, j : j \in 1..(i - 1) =>
        ((\A k \in (j + 1)..(i - 1) : ~(a[k].role = "TOOL" /\ c \in CallsOf(a[k])))
         <=> (\A k \in (j + 1)..(i - 1) : ~(b[k].role = "TOOL" /\ c \in CallsOf(b[k]))))
  OBVIOUS
<1> QED
  BY <1>2, <1>3 DEF OpenCalls

LEMMA SoundDependsOnPrefix ==
  ASSUME NEW a, NEW b, NEW n \in Nat, \A j \in 1..n : a[j] = b[j], SoundTo(a, n)
  PROVE  SoundTo(b, n)
<1> SUFFICES ASSUME NEW i \in 1..n PROVE Placed(b, i)
  BY DEF SoundTo
<1>1. OpenCalls(a, i) = OpenCalls(b, i)
  BY OpenDependsOnPrefix
<1>2. a[i] = b[i] /\ Placed(a, i)
  BY DEF SoundTo
<1> QED
  BY <1>1, <1>2 DEF Placed

LEMMA ValidIsSound ==
  ASSUME NEW msgs \in Seq(Message)
  PROVE  ValidSequence(msgs) <=> SoundTo(msgs, Len(msgs)) /\ OpenCalls(msgs, Len(msgs) + 1) = {}
<1>1. DOMAIN msgs = 1..Len(msgs)
  BY LenProperties
<1> QED
  BY <1>1 DEF ValidSequence, SoundTo, Placed

\* A conversation without messages validates (Conversation.validate_sequence).
LEMMA EmptyIsValid == ValidSequence(<<>>)
<1>1. OpenCalls(<<>>, Len(<<>>) + 1) = {}
  BY DEF OpenCalls
<1> QED
  BY <1>1 DEF ValidSequence

\* A prompt or a final answer after a valid conversation keeps it valid.
LEMMA PlainAppend ==
  ASSUME NEW msgs \in Seq(Message), ValidSequence(msgs), NEW m \in Message,
         m.role # "TOOL", m.calls = <<>>
  PROVE  ValidSequence(Append(msgs, m))
<1> DEFINE new == Append(msgs, m)
           n == Len(msgs)
<1>1. /\ new \in Seq(Message) /\ Len(new) = n + 1 /\ n \in Nat
      /\ \A j \in 1..n : new[j] = msgs[j]
      /\ new[n + 1] = m
  BY AppendProperties, LenProperties
<1> HIDE DEF new, n
<1>2. OpenCalls(new, n + 1) = {}
  <2>1. OpenCalls(msgs, n + 1) = {}
    BY ValidIsSound DEF n
  <2>2. n + 1 \in Nat /\ \A j \in 1..((n + 1) - 1) : msgs[j] = new[j]
    BY <1>1
  <2>3. OpenCalls(msgs, n + 1) = OpenCalls(new, n + 1)
    BY <2>2, OpenDependsOnPrefix
  <2> QED
    BY <2>1, <2>3
<1>3. SoundTo(new, n + 1)
  <2>1. SoundTo(new, n)
    BY <1>1, ValidIsSound, SoundDependsOnPrefix DEF n
  <2>2. Placed(new, n + 1)
    BY <1>1, <1>2 DEF Placed
  <2> QED
    BY <1>1, <2>1, <2>2 DEF SoundTo
<1>4. OpenCalls(new, (n + 1) + 1) = {}
  <2> SUFFICES ASSUME NEW c \in OpenCalls(new, (n + 1) + 1) PROVE FALSE
    OBVIOUS
  <2>1. PICK j \in 1..(n + 1) :
          /\ new[j].role = "ASSISTANT" /\ c \in CallsOf(new[j])
          /\ \A k \in (j + 1)..(n + 1) : ~(new[k].role = "TOOL" /\ c \in CallsOf(new[k]))
    <3>1. (n + 1) + 1 \in Nat /\ ((n + 1) + 1) - 1 = n + 1
      BY <1>1
    <3> QED
      BY <3>1, OpenMembers
  <2>2. j # n + 1
    BY <1>1, <2>1 DEF CallsOf
  <2>3. j \in 1..n /\ \A k \in (j + 1)..n : ~(new[k].role = "TOOL" /\ c \in CallsOf(new[k]))
    BY <1>1, <2>1, <2>2
  <2>4. c \in OpenCalls(new, n + 1)
    <3>1. n + 1 \in Nat /\ (n + 1) - 1 = n
      BY <1>1
    <3> QED
      BY <2>1, <2>3, <3>1, OpenMembers
  <2> QED
    BY <1>2, <2>4
<1> QED
  BY <1>1, <1>3, <1>4, ValidIsSound DEF new

-----------------------------------------------------------------------------
(* The batch that is being answered *)

\* Message a asks for calls, the messages after it answer the first of them in
\* order, and `rest' are the others.
Batch(msgs, a, rest) ==
  /\ a \in DOMAIN msgs /\ msgs[a].role = "ASSISTANT" /\ NoRepeat(msgs[a].calls)
  /\ Len(rest) = Len(msgs[a].calls) - (Len(msgs) - a)
  /\ \A k \in 1..(Len(msgs) - a) : msgs[a + k] = ToolMsg(msgs[a].calls[k])
  /\ \A k \in 1..Len(rest) : rest[k] = msgs[a].calls[(Len(msgs) - a) + k]

LEMMA BatchTypes ==
  ASSUME NEW msgs \in Seq(Message), NEW a, NEW rest \in Seq(Call), Batch(msgs, a, rest)
  PROVE  /\ a \in 1..Len(msgs) /\ Len(msgs) \in Nat /\ Len(rest) \in Nat
         /\ Len(msgs) - a \in Nat /\ a \in Nat
         /\ msgs[a].calls \in Seq(Call) /\ Len(msgs[a].calls) \in Nat
         /\ Len(msgs[a].calls) = (Len(msgs) - a) + Len(rest)
<1>1. a \in 1..Len(msgs) /\ Len(msgs) \in Nat /\ Len(rest) \in Nat
  BY LenProperties DEF Batch
<1>2. msgs[a] \in Message
  BY <1>1, ElementOfSeq
<1>3. msgs[a].calls \in Seq(Call) /\ Len(msgs[a].calls) \in Nat
  BY <1>2, LenProperties DEF Message
<1> QED
  BY <1>1, <1>3 DEF Batch

\* A reply with calls opens a batch.
LEMMA BatchBegins ==
  ASSUME NEW msgs \in Seq(Message), NEW t \in Nat, NEW cs \in Seq(Call), NoRepeat(cs)
  PROVE  Batch(Append(msgs, AssistantMsg(t, cs)), Len(msgs) + 1, cs)
<1> DEFINE new == Append(msgs, AssistantMsg(t, cs))
           a == Len(msgs) + 1
<1>1. AssistantMsg(t, cs) \in Message
  BY MessagesTyped
<1>2. /\ new \in Seq(Message) /\ Len(new) = a /\ a \in Nat /\ a >= 1
      /\ new[a] = AssistantMsg(t, cs)
  BY <1>1, AppendProperties, LenProperties
<1>3. a \in DOMAIN new /\ new[a].role = "ASSISTANT" /\ new[a].calls = cs
  BY <1>2, LenProperties DEF AssistantMsg
<1>4. Len(new) - a = 0 /\ Len(cs) \in Nat
  BY <1>2, LenProperties
<1> HIDE DEF new, a
<1>5. Batch(new, a, cs)
  BY <1>3, <1>4 DEF Batch
<1> QED
  BY <1>5 DEF new, a

\* The answer to the next call takes it out of the batch.
LEMMA BatchAnswered ==
  ASSUME NEW msgs \in Seq(Message), NEW a, NEW rest \in Seq(Call), Batch(msgs, a, rest),
         rest # <<>>
  PROVE  Batch(Append(msgs, ToolMsg(Head(rest))), a, Tail(rest))
<1> DEFINE new == Append(msgs, ToolMsg(Head(rest)))
           n == Len(msgs)
           cs == msgs[a].calls
<1>1. /\ a \in 1..n /\ n \in Nat /\ Len(rest) \in Nat /\ a \in Nat
      /\ cs \in Seq(Call) /\ Len(cs) \in Nat /\ Len(cs) = (n - a) + Len(rest)
  BY BatchTypes
<1>2. /\ Head(rest) \in Call /\ Head(rest) = rest[1]
      /\ Tail(rest) \in Seq(Call) /\ Len(Tail(rest)) = Len(rest) - 1 /\ Len(rest) >= 1
      /\ \A k \in 1..(Len(rest) - 1) : Tail(rest)[k] = rest[k + 1]
  <2>1. Len(rest) >= 1
    BY <1>1, EmptySeq
  <2> QED
    BY <2>1, HeadTailProperties
<1>3. ToolMsg(Head(rest)) \in Message
  BY <1>2, MessagesTyped
<1>4. /\ new \in Seq(Message) /\ Len(new) = n + 1
      /\ \A j \in 1..n : new[j] = msgs[j]
      /\ new[n + 1] = ToolMsg(Head(rest))
  BY <1>3, AppendProperties
<1>5. new[a] = msgs[a] /\ a \in DOMAIN new
  BY <1>1, <1>4, LenProperties
<1>6. rest[1] = cs[(n - a) + 1]
  BY <1>1, <1>2 DEF Batch
<1>7. \A k \in 1..((n + 1) - a) : new[a + k] = ToolMsg(cs[k])
  <2> SUFFICES ASSUME NEW k \in 1..((n + 1) - a) PROVE new[a + k] = ToolMsg(cs[k])
    OBVIOUS
  <2>1. CASE k = (n + 1) - a
    <3>1. a + k = n + 1 /\ k = (n - a) + 1
      BY <1>1, <2>1
    <3> QED
      BY <1>2, <1>4, <1>6, <3>1
  <2>2. CASE k # (n + 1) - a
    <3>1. k \in 1..(n - a) /\ a + k \in 1..n
      <4> HIDE DEF new, n, cs
      <4>1. n \in Nat /\ a \in 1..n /\ k \in 1..((n + 1) - a) /\ k # (n + 1) - a
        BY <1>1, <2>2
      <4> QED
        BY <4>1
    <3> QED
      BY <1>4, <3>1 DEF Batch
  <2> QED
    BY <2>1, <2>2
<1>8. \A k \in 1..Len(Tail(rest)) : Tail(rest)[k] = cs[((n + 1) - a) + k]
  <2> SUFFICES ASSUME NEW k \in 1..(Len(rest) - 1) PROVE Tail(rest)[k] = cs[((n + 1) - a) + k]
    BY <1>2
  <2>1. k + 1 \in 1..Len(rest) /\ (n - a) + (k + 1) = ((n + 1) - a) + k
    BY <1>1
  <2> QED
    BY <1>2, <2>1 DEF Batch
<1>9. Len(Tail(rest)) = Len(cs) - ((n + 1) - a)
  BY <1>1, <1>2
<1>10. msgs[a].role = "ASSISTANT" /\ NoRepeat(cs)
  BY DEF Batch
<1> HIDE DEF new
<1>11. Batch(new, a, Tail(rest))
  BY <1>4, <1>5, <1>7, <1>8, <1>9, <1>10 DEF Batch
<1> QED
  BY <1>11 DEF new

\* _fill_missing_tool_results finds the open batch and answers all of it.
LEMMA BatchFilled ==
  ASSUME NEW msgs \in Seq(Message), NEW a, NEW rest \in Seq(Call), Batch(msgs, a, rest),
         msgs[a].calls # <<>>, NEW i, IsLastAsk(msgs, i)
  PROVE  /\ Batch(FillFrom(msgs, i), a, <<>>)
         /\ FillFrom(msgs, i) = msgs \o [k \in 1..Len(rest) |-> ToolMsg(rest[k])]
<1> DEFINE n == Len(msgs)
           cs == msgs[a].calls
           fill == [k \in 1..Len(rest) |-> ToolMsg(rest[k])]
           new == msgs \o fill
<1>1. /\ a \in 1..n /\ n \in Nat /\ Len(rest) \in Nat /\ a \in Nat /\ n - a \in Nat
      /\ cs \in Seq(Call) /\ Len(cs) \in Nat /\ Len(cs) = (n - a) + Len(rest)
      /\ DOMAIN msgs = 1..n
  BY BatchTypes, LenProperties
<1>2. i = a
  <2> DEFINE asks == {k \in DOMAIN msgs : msgs[k].role = "ASSISTANT" /\ msgs[k].calls # <<>>}
  <2>1. a \in asks
    BY <1>1 DEF Batch
  <2>2. i \in asks /\ a <= i
    BY <2>1 DEF IsLastAsk
  <2>3. ASSUME a < i PROVE FALSE
    <3>1. i - a \in 1..(n - a) /\ a + (i - a) = i
      BY <1>1, <2>2, <2>3
    <3>2. msgs[i] = ToolMsg(cs[i - a])
      BY <3>1 DEF Batch
    <3> QED
      BY <2>2, <3>2 DEF ToolMsg
  <2> QED
    BY <1>1, <2>2, <2>3
<1>3. \A k \in 1..Len(rest) : rest[k] = cs[(n - a) + k]
  BY DEF Batch
<1>4. FillFrom(msgs, i) = new
  <2>1. Len(cs) - (n - a) = Len(rest)
    BY <1>1
  <2>2. [k \in 1..(Len(cs) - (n - a)) |-> ToolMsg(cs[(n - a) + k])] = fill
    BY <1>3, <2>1
  <2>3. i # 0
    BY <1>1, <1>2
  <2> HIDE DEF fill
  <2> QED
    BY <1>2, <2>2, <2>3 DEF FillFrom
<1>5. fill \in Seq(Message) /\ Len(fill) = Len(rest)
  <2>1. \A k \in 1..Len(rest) : ToolMsg(rest[k]) \in Message
    BY MessagesTyped, ElementOfSeq
  <2>2. fill \in [1..Len(rest) -> Message]
    BY <2>1
  <2> QED
    BY <1>1, <2>2, LenProperties
<1>6. /\ new \in Seq(Message) /\ Len(new) = n + Len(rest)
      /\ \A j \in 1..(n + Len(rest)) : new[j] = IF j <= n THEN msgs[j] ELSE fill[j - n]
  BY <1>5, ConcatProperties
<1> HIDE DEF new, fill
<1>7. new[a] = msgs[a] /\ a \in DOMAIN new
  BY <1>1, <1>6, LenProperties
<1>8. \A k \in 1..((n + Len(rest)) - a) : new[a + k] = ToolMsg(cs[k])
  <2> SUFFICES ASSUME NEW k \in 1..((n + Len(rest)) - a) PROVE new[a + k] = ToolMsg(cs[k])
    OBVIOUS
  <2>1. CASE a + k <= n
    <3>1. k \in 1..(n - a) /\ a + k \in 1..(n + Len(rest))
      BY <1>1, <2>1
    <3> QED
      BY <1>6, <2>1, <3>1 DEF Batch
  <2>2. CASE ~(a + k <= n)
    <3>1. /\ a + k \in 1..(n + Len(rest)) /\ (a + k) - n \in 1..Len(rest)
          /\ (n - a) + ((a + k) - n) = k
      <4>1. \A x, m, r, y \in Nat : 1 <= y /\ y <= (m + r) - x /\ ~(x + y <= m) =>
              x + y \in 1..(m + r) /\ (x + y) - m \in 1..r /\ (m - x) + ((x + y) - m) = y
        OBVIOUS
      <4>2. k \in Nat /\ 1 <= k /\ k <= (n + Len(rest)) - a
        BY <1>1
      <4> HIDE DEF n
      <4> QED
        BY <1>1, <2>2, <4>1, <4>2
    <3>2. new[a + k] = fill[(a + k) - n]
      BY <1>6, <2>2, <3>1
    <3>3. fill[(a + k) - n] = ToolMsg(rest[(a + k) - n])
      BY <3>1 DEF fill
    <3> QED
      BY <1>3, <3>1, <3>2, <3>3
  <2> QED
    BY <2>1, <2>2
<1>9. Len(<<>>) = Len(cs) - (Len(new) - a)
  BY <1>1, <1>6
<1>10. msgs[a].role = "ASSISTANT" /\ NoRepeat(cs)
  BY DEF Batch
<1>11. Batch(new, a, <<>>)
  BY <1>6, <1>7, <1>8, <1>9, <1>10 DEF Batch
<1> QED
  BY <1>4, <1>11 DEF new, fill

\* The calls that are left in the batch are open (validate_sequence).
LEMMA BatchIsOpen ==
  ASSUME NEW msgs \in Seq(Message), NEW a, NEW rest \in Seq(Call), Batch(msgs, a, rest)
  PROVE  Elements(rest) \subseteq OpenCalls(msgs, Len(msgs) + 1)
<1> DEFINE n == Len(msgs)
           cs == msgs[a].calls
<1>1. /\ a \in 1..n /\ n \in Nat /\ Len(rest) \in Nat /\ a \in Nat /\ n - a \in Nat
      /\ cs \in Seq(Call) /\ Len(cs) \in Nat /\ Len(cs) = (n - a) + Len(rest)
  BY BatchTypes
<1> SUFFICES ASSUME NEW k \in 1..Len(rest) PROVE rest[k] \in OpenCalls(msgs, n + 1)
  BY LenProperties DEF Elements
<1>2. rest[k] = cs[(n - a) + k] /\ (n - a) + k \in 1..Len(cs) /\ (n - a) + k \in DOMAIN cs
  <2>1. rest[k] = cs[(n - a) + k]
    BY DEF Batch
  <2>2. \A x, y, z \in Nat : 1 <= z /\ z <= y => x + z \in 1..(x + y)
    OBVIOUS
  <2>3. (n - a) + k \in 1..Len(cs)
    BY <1>1, <2>2
  <2> QED
    BY <1>1, <2>1, <2>3, LenProperties
<1>3. msgs[a].role = "ASSISTANT" /\ rest[k] \in CallsOf(msgs[a])
  BY <1>2 DEF Batch, CallsOf
<1>4. ASSUME NEW j \in (a + 1)..n, rest[k] \in CallsOf(msgs[j]) PROVE FALSE
  <2>1. j - a \in 1..(n - a) /\ a + (j - a) = j
    BY <1>1
  <2>2. msgs[j] = ToolMsg(cs[j - a])
    BY <2>1 DEF Batch
  <2>3. rest[k] = cs[j - a]
    BY <1>4, <2>2 DEF CallsOf, ToolMsg
  <2>4. j - a \in DOMAIN cs /\ j - a # (n - a) + k
    BY <1>1, <2>1, LenProperties
  <2> QED
    BY <1>2, <2>3, <2>4 DEF Batch, NoRepeat
<1>5. n + 1 \in Nat /\ (n + 1) - 1 = n
  BY <1>1
<1> QED
  BY <1>1, <1>3, <1>4, <1>5, OpenMembers

\* When the messages before the batch are in their places, its answers are, and
\* nothing else is open: once all calls are answered, the conversation validates.
LEMMA BatchIsSound ==
  ASSUME NEW msgs \in Seq(Message), NEW a, NEW rest \in Seq(Call), Batch(msgs, a, rest),
         SoundTo(msgs, a)
  PROVE  rest = <<>> => ValidSequence(msgs)
<1> DEFINE n == Len(msgs)
           cs == msgs[a].calls
<1>1. /\ a \in 1..n /\ n \in Nat /\ Len(rest) \in Nat /\ a \in Nat /\ n - a \in Nat
      /\ cs \in Seq(Call) /\ Len(cs) \in Nat /\ Len(cs) = (n - a) + Len(rest)
  BY BatchTypes
<1>2. /\ msgs[a].role = "ASSISTANT" /\ NoRepeat(cs)
      /\ \A j \in (a + 1)..n : j - a \in 1..(n - a) /\ msgs[j] = ToolMsg(cs[j - a])
  <2>1. \A j \in (a + 1)..n : j - a \in 1..(n - a) /\ a + (j - a) = j
    BY <1>1
  <2> QED
    BY <2>1 DEF Batch
<1>3. OpenCalls(msgs, a) = {}
  BY <1>1, <1>2 DEF SoundTo, Placed
\* A call open at place i of the batch is one of its later calls.
<1>4. ASSUME NEW i \in (a + 1)..(n + 1), NEW c \in OpenCalls(msgs, i)
      PROVE  \E k \in DOMAIN cs : c = cs[k] /\ k >= i - a
  <2>1. i \in Nat /\ i - 1 \in a..n
    BY <1>1
  <2>2. PICK j \in 1..(i - 1) :
          /\ msgs[j].role = "ASSISTANT" /\ c \in CallsOf(msgs[j])
          /\ \A k \in (j + 1)..(i - 1) : ~(msgs[k].role = "TOOL" /\ c \in CallsOf(msgs[k]))
    BY <2>1, OpenMembers
  <2>3. j <= a
    <3> SUFFICES ASSUME j > a PROVE FALSE
      BY <1>1, <2>1
    <3>1. j \in (a + 1)..n
      BY <1>1, <2>1
    <3>2. msgs[j] = ToolMsg(cs[j - a])
      BY <1>2, <3>1
    <3>3. msgs[j].role = "TOOL"
      BY <3>2 DEF ToolMsg
    <3> QED
      BY <2>2, <3>3
  <2>4. j = a
    <3>0. a \in Nat /\ j \in Nat /\ (j < a \/ j = a)
      BY <1>1, <2>1, <2>3
    <3> SUFFICES ASSUME j < a PROVE FALSE
      BY <3>0
    <3>1. j \in 1..(a - 1) /\ \A k \in (j + 1)..(a - 1) : k \in (j + 1)..(i - 1)
      BY <1>1, <2>1
    <3>2. c \in OpenCalls(msgs, a)
      BY <1>1, <2>2, <3>1, OpenMembers
    <3> QED
      BY <1>3, <3>2
  <2>5. PICK k \in DOMAIN cs : c = cs[k]
    BY <2>2, <2>4 DEF CallsOf
  <2>6. ~(k < i - a)
    <3> SUFFICES ASSUME k < i - a PROVE FALSE
      OBVIOUS
    <3>1. k \in 1..Len(cs)
      BY <1>1, LenProperties
    <3>2. a + k \in (a + 1)..(i - 1) /\ a + k \in (a + 1)..n /\ (a + k) - a = k
      <4>1. \A x, y, z, m \in Nat : 1 <= y /\ y < z - x /\ z - 1 <= m =>
              x + y \in (x + 1)..(z - 1) /\ x + y \in (x + 1)..m /\ (x + y) - x = y
        OBVIOUS
      <4>2. k \in Nat /\ 1 <= k /\ i - 1 <= n
        BY <1>1, <2>1, <3>1
      <4> QED
        BY <1>1, <2>1, <4>1, <4>2
    <3>3. msgs[a + k] = ToolMsg(cs[k])
      BY <1>2, <3>2
    <3>4. msgs[a + k].role = "TOOL" /\ c \in CallsOf(msgs[a + k])
      BY <2>5, <3>3 DEF ToolMsg, CallsOf
    <3> QED
      BY <2>2, <2>4, <3>2, <3>4
  <2>7. k \in Nat /\ i - a \in Nat
    BY <1>1, <2>1, LenProperties
  <2> QED
    BY <2>5, <2>6, <2>7
<1>5. ASSUME rest = <<>> PROVE ValidSequence(msgs)
  <2>1. Len(cs) = n - a
    BY <1>1, <1>5
  <2>2. OpenCalls(msgs, n + 1) = {}
    <3> SUFFICES ASSUME NEW c \in OpenCalls(msgs, n + 1) PROVE FALSE
      OBVIOUS
    <3>1. n + 1 \in (a + 1)..(n + 1)
      BY <1>1
    <3>2. PICK k \in DOMAIN cs : k >= (n + 1) - a
      BY <1>4, <3>1
    <3> QED
      BY <1>1, <2>1, <3>2, LenProperties
  <2>3. ASSUME NEW i \in (a + 1)..n PROVE Placed(msgs, i)
    <3>1. msgs[i] = ToolMsg(cs[i - a]) /\ i - a \in 1..(n - a)
      BY <1>2
    <3>2. msgs[i].role = "TOOL" /\ CallsOf(msgs[i]) = {cs[i - a]}
      BY <3>1 DEF ToolMsg, CallsOf
    <3>3. cs[i - a] \in OpenCalls(msgs, i)
      <4>1. i - a \in DOMAIN cs /\ cs[i - a] \in CallsOf(msgs[a])
        BY <1>1, <2>1, <3>1, LenProperties DEF CallsOf
      <4>2. ASSUME NEW k \in (a + 1)..(i - 1), cs[i - a] \in CallsOf(msgs[k]) PROVE FALSE
        <5>1. k \in (a + 1)..n /\ k - a # i - a
          BY <1>1
        <5>2. msgs[k] = ToolMsg(cs[k - a]) /\ k - a \in DOMAIN cs
          BY <1>1, <1>2, <2>1, <5>1, LenProperties
        <5>3. cs[i - a] = cs[k - a]
          BY <4>2, <5>2 DEF CallsOf, ToolMsg
        <5> QED
          BY <1>2, <4>1, <5>1, <5>2, <5>3 DEF NoRepeat
      <4>3. i \in Nat /\ a \in 1..(i - 1)
        BY <1>1
      <4> QED
        BY <1>2, <4>1, <4>2, <4>3, OpenMembers
    <3> QED
      BY <3>2, <3>3 DEF Placed
  <2>4. SoundTo(msgs, n)
    BY <1>1, <2>3 DEF SoundTo
  <2> QED
    BY <2>2, <2>4, ValidIsSound
<1> QED
  BY <1>5

-----------------------------------------------------------------------------
(* The messages of the active turn *)

OwnMessages(t) == {m \in Message : m.turn = t /\ \A c \in CallsOf(m) : c.turn = t}

\* The messages that the runtime adds in a turn are of the turn.
LEMMA OwnMessagesMade ==
  ASSUME NEW t \in Nat
  PROVE  /\ \A cs \in Seq(CallsOfTurn(t)) : AssistantMsg(t, cs) \in OwnMessages(t)
         /\ AssistantMsg(t, <<>>) \in OwnMessages(t)
         /\ UserMsg(t) \in OwnMessages(t)
         /\ \A c \in CallsOfTurn(t) : ToolMsg(c) \in OwnMessages(t)
<1>1. ASSUME NEW cs \in Seq(CallsOfTurn(t)) PROVE AssistantMsg(t, cs) \in OwnMessages(t)
  <2>1. cs \in Seq(Call) /\ \A k \in DOMAIN cs : cs[k].turn = t
    <3>1. \A k \in 1..Len(cs) : cs[k] \in CallsOfTurn(t)
      OBVIOUS
    <3>2. \A k \in 1..Len(cs) : cs[k] \in Call /\ cs[k].turn = t
      BY <3>1 DEF CallsOfTurn
    <3>3. CallsOfTurn(t) \subseteq Call
      BY DEF CallsOfTurn
    <3> QED
      BY <3>2, <3>3, LenProperties, SeqMonotonic
  <2> QED
    BY <2>1, MessagesTyped DEF OwnMessages, AssistantMsg, CallsOf
<1>2. <<>> \in Seq(CallsOfTurn(t))
  BY EmptySeq
<1>3. UserMsg(t) \in OwnMessages(t)
  BY MessagesTyped DEF OwnMessages, UserMsg, CallsOf
<1>4. ASSUME NEW c \in CallsOfTurn(t) PROVE ToolMsg(c) \in OwnMessages(t)
  <2>1. c \in Call /\ c.turn = t
    BY DEF CallsOfTurn
  <2> QED
    BY <2>1, MessagesTyped DEF OwnMessages, ToolMsg, CallsOf
<1> QED
  BY <1>1, <1>2, <1>3, <1>4

\* What _fill_missing_tool_results adds answers calls of the message it found.
LEMMA FillIsOwn ==
  ASSUME NEW msgs \in Seq(Message), NEW i \in 1..Len(msgs), NEW t, msgs[i] \in OwnMessages(t)
  PROVE  \E fill \in Seq(OwnMessages(t)) : FillFrom(msgs, i) = msgs \o fill
<1> DEFINE cs == msgs[i].calls
           answered == Len(msgs) - i
           fill == [k \in 1..(Len(cs) - answered) |-> ToolMsg(cs[answered + k])]
<1>1. cs \in Seq(Call) /\ Len(cs) \in Nat /\ answered \in Nat /\ i # 0
      /\ \A k \in 1..Len(cs) : cs[k] \in Call /\ cs[k].turn = t
  <2>1. cs \in Seq(Call) /\ answered \in Nat /\ i # 0
    BY LenProperties DEF OwnMessages, Message
  <2>2. \A k \in 1..Len(cs) : cs[k] \in CallsOf(msgs[i])
    BY <2>1, LenProperties DEF CallsOf
  <2>3. \A c \in CallsOf(msgs[i]) : c.turn = t
    BY DEF OwnMessages
  <2> HIDE DEF cs, answered
  <2> QED
    BY <2>1, <2>2, <2>3, LenProperties
<1>2. FillFrom(msgs, i) = msgs \o fill
  BY <1>1 DEF FillFrom
<1> HIDE DEF cs, answered
<1>3. ASSUME NEW k \in 1..(Len(cs) - answered) PROVE ToolMsg(cs[answered + k]) \in OwnMessages(t)
  <2>1. answered + k \in 1..Len(cs)
    BY <1>1
  <2>2. cs[answered + k] \in Call /\ cs[answered + k].turn = t
    BY <1>1, <2>1
  <2> QED
    BY <2>2, MessagesTyped DEF OwnMessages, ToolMsg, CallsOf
<1>4. fill \in Seq(OwnMessages(t))
  <2>1. CASE Len(cs) - answered \in Nat
    BY <1>3, <2>1, IsASeq
  <2>2. CASE Len(cs) - answered \notin Nat
    <3>1. 1..(Len(cs) - answered) = {}
      BY <1>1, <2>2
    <3>2. fill = <<>>
      BY <3>1
    <3> HIDE DEF fill
    <3> QED
      BY <3>2, EmptySeq
  <2> QED
    BY <2>1, <2>2
<1> QED
  BY <1>2, <1>4

\* Discarding keeps what stands before the start of the turn.
LEMMA DiscardIsPrefix ==
  ASSUME NEW msgs \in Seq(Message), NEW start \in Nat, start <= Len(msgs)
  PROVE  /\ Discard(msgs, start) = SubSeq(msgs, 1, start)
         /\ Discard(msgs, start) \in Seq(Message) /\ Len(Discard(msgs, start)) = start
         /\ \A i \in 1..start : Discard(msgs, start)[i] = msgs[i]
         /\ \A more \in Seq(Message) : Discard(msgs \o more, start) = Discard(msgs, start)
<1>1. start # NoStart
  BY DEF NoStart
<1>2. Len(msgs) \in Nat /\ \A i \in 1..start : msgs[i] \in Message
  BY LenProperties
<1>3. /\ SubSeq(msgs, 1, start) \in Seq(Message) /\ Len(SubSeq(msgs, 1, start)) = start
      /\ \A i \in 1..start : SubSeq(msgs, 1, start)[i] = msgs[i]
  BY <1>2, SubSeqProperties
<1>4. Discard(msgs, start) = SubSeq(msgs, 1, start)
  BY <1>1 DEF Discard
<1>5. ASSUME NEW more \in Seq(Message)
      PROVE  Discard(msgs \o more, start) = Discard(msgs, start)
  <2>1. Len(msgs \o more) = Len(msgs) + Len(more) /\ Len(more) \in Nat
    BY ConcatProperties, LenProperties
  <2>2. Discard(msgs \o more, start) = SubSeq(msgs \o more, 1, start)
    BY <1>1, <1>2, <2>1 DEF Discard
  <2>3. SubSeq(msgs \o more, 1, start) = SubSeq(msgs, 1, start)
    BY <1>2, SubSeqOfConcat1
  <2> QED
    BY <1>4, <2>2, <2>3
<1> QED
  BY <1>3, <1>4, <1>5

-----------------------------------------------------------------------------
(* How a step treats the conversation *)

\* Without a compaction, a cleared history and a .blend file opened in the middle
\* of a turn; the README shows what these do.
KeptEnv == Env \cap {"compact", "clear", "load"} = {}

ConversationKept ==
  UNCHANGED <<conversation, active_start, turn_counter>> /\ turn' \in {turn, 0}

\* The active turn adds its own messages.
ConversationGrows ==
  /\ turn # 0 /\ turn' \in {turn, 0} /\ UNCHANGED <<active_start, turn_counter>>
  /\ \E more \in Seq(OwnMessages(turn)) : conversation' = conversation \o more

TurnTakenBack ==
  /\ phase = "free" /\ (turn = 0 => "lateCancel" \in Env)
  /\ conversation' = Discard(conversation, active_start)
  /\ active_start' = NoStart /\ turn' = 0 /\ UNCHANGED turn_counter

\* A prompt follows the conversation, or what is left of it without a broken tail.
PromptFollows(kept) ==
  /\ turn_counter' = turn_counter + 1 /\ turn' = turn_counter + 1
  /\ conversation' = Append(kept, UserMsg(turn_counter + 1)) /\ active_start' = Len(kept)

TurnBegins ==
  /\ turn = 0
  /\ \/ ValidSequence(conversation) /\ PromptFollows(conversation)
     \/ active_start # NoStart /\ PromptFollows(Discard(conversation, active_start))

ConversationMoves ==
  ConversationKept \/ ConversationGrows \/ TurnTakenBack \/ TurnBegins

\* While the turn loops over calls, or waits for the user, it has asked for them
\* in the conversation; a card of an earlier turn may be left over.
Asked == \E j \in DOMAIN conversation :
  j > active_start /\ conversation[j].role = "ASSISTANT" /\ conversation[j].calls # <<>>

AskedInTurn ==
  /\ phase = "tools" => Asked
  /\ \A p \in {pending_approval, pending_plan} \ {None} :
       p.turn <= turn_counter /\ (p.turn = turn => Asked)

\* The messages of the active turn are those after its start.
OwnTail ==
  /\ \A i \in DOMAIN conversation : /\ conversation[i].turn <= turn_counter
                                      /\ conversation[i] \in OwnMessages(conversation[i].turn)
  /\ turn # 0 => \A i \in DOMAIN conversation : conversation[i].turn = turn <=> i > active_start

\* What a cancellation would leave validates.
PrefixValid ==
  /\ active_start # NoStart => active_start <= Len(conversation)
  /\ turn # 0 => active_start # NoStart
  /\ ValidSequence(Discard(conversation, active_start))

TailInv == TurnInv /\ PrefixValid /\ OwnTail /\ AskedInTurn

LEMMA PromptMoves ==
  ASSUME KeptEnv, turn = 0, StartPrompt
  PROVE  ConversationKept \/ TurnBegins
<1>1. CASE /\ state' = "IDLE"
           /\ UNCHANGED <<turn, turn_counter, conversation, active_start, loop, streaming,
                           event_queue, task_queue>>
  BY <1>1 DEF ConversationKept
<1>2. CASE /\ Validates \/ active_start # NoStart
           /\ PromptFollows(IF Validates THEN conversation ELSE Discard(conversation, active_start))
  BY <1>2 DEF TurnBegins, Validates
<1> QED
  BY <1>1, <1>2 DEF StartPrompt, PromptFollows, KeptEnv

\* An answer to the pending decision, with the calls after it filled in.
LEMMA FillMoves ==
  ASSUME TypeOK, PrefixValid, OwnTail, Asked, turn # 0, NEW c \in CallsOfTurn(turn),
         FillAndContinue(Append(conversation, ToolMsg(c)))
  PROVE  \E more \in Seq(OwnMessages(turn)) : conversation' = conversation \o more
<1> DEFINE answered == Append(conversation, ToolMsg(c))
           n == Len(conversation)
<1>1. conversation \in Seq(Message) /\ turn \in Nat /\ active_start \in Nat
  BY DEF TypeOK, PrefixValid
<1>2. ToolMsg(c) \in OwnMessages(turn) /\ ToolMsg(c) \in Message
  BY <1>1, OwnMessagesMade DEF OwnMessages
<1>3. /\ answered \in Seq(Message) /\ Len(answered) = n + 1 /\ n \in Nat
      /\ \A j \in 1..n : answered[j] = conversation[j]
      /\ answered[n + 1] = ToolMsg(c) /\ DOMAIN conversation = 1..n /\ DOMAIN answered = 1..(n + 1)
  BY <1>1, <1>2, AppendProperties, LenProperties
<1> HIDE DEF answered, n
<1>4. PICK i \in 0..Len(answered) : IsLastAsk(answered, i) /\ conversation' = FillFrom(answered, i)
  BY DEF FillAndContinue, answered
<1>5. i \in 1..n /\ conversation[i] \in OwnMessages(turn)
  <2> DEFINE asks == {k \in DOMAIN answered : answered[k].role = "ASSISTANT" /\ answered[k].calls # <<>>}
  <2>1. PICK j \in 1..n : /\ j > active_start /\ conversation[j].role = "ASSISTANT"
                          /\ conversation[j].calls # <<>>
    BY <1>3 DEF Asked
  <2>2. j \in asks
    BY <1>3, <2>1
  <2>3. j <= i /\ i \in asks
    BY <1>3, <1>4, <2>2 DEF IsLastAsk
  <2>4. i # n + 1
    BY <1>3, <2>3 DEF ToolMsg
  <2>5. i \in 1..n /\ i > active_start
    BY <1>1, <1>3, <2>1, <2>3, <2>4
  <2> QED
    BY <1>3, <2>5 DEF OwnTail
<1>6. PICK fill \in Seq(OwnMessages(turn)) : conversation' = answered \o fill
  <2>1. i \in 1..Len(answered) /\ answered[i] \in OwnMessages(turn)
    BY <1>3, <1>5
  <2> QED
    BY <1>3, <1>4, <2>1, FillIsOwn
<1>7. answered = conversation \o <<ToolMsg(c)>>
  BY <1>1, <1>2, AppendIsConcat DEF answered
<1>8. /\ <<ToolMsg(c)>> \in Seq(OwnMessages(turn)) /\ OwnMessages(turn) \subseteq Message
      /\ <<ToolMsg(c)>> \o fill \in Seq(OwnMessages(turn))
  <2> HIDE DEF OwnMessages
  <2>1. <<ToolMsg(c)>> \in Seq(OwnMessages(turn))
    BY <1>2
  <2>2. OwnMessages(turn) \subseteq Message
    BY DEF OwnMessages
  <2> QED
    BY <2>1, <2>2, ConcatProperties
<1>9. conversation' = conversation \o (<<ToolMsg(c)>> \o fill)
  <2>1. <<ToolMsg(c)>> \in Seq(Message) /\ fill \in Seq(Message)
    BY <1>8, SeqMonotonic
  <2> QED
    BY <1>1, <1>6, <1>7, <2>1, ConcatAssociative
<1> QED
  BY <1>8, <1>9

\* One message of the active turn.
LEMMA OneMore ==
  ASSUME TypeOK, turn # 0, NEW m \in OwnMessages(turn), conversation' = Append(conversation, m),
         UNCHANGED <<active_start, turn_counter>>, turn' \in {turn, 0}
  PROVE  ConversationGrows
<1>1. conversation \in Seq(Message) /\ m \in Message
  BY DEF TypeOK, OwnMessages
<1>2. conversation' = conversation \o <<m>>
  BY <1>1, AppendIsConcat
<1>3. <<m>> \in Seq(OwnMessages(turn))
  <2> HIDE DEF OwnMessages
  <2> QED
    OBVIOUS
<1> QED
  BY <1>2, <1>3 DEF ConversationGrows

LEMMA RequestKeepsTurn ==
  /\ FailTurn => turn' \in {turn, 0}
  /\ \A conv : SendRequest(conv) => turn' \in {turn, 0}
  /\ \A conv : FillAndContinue(conv) => turn' \in {turn, 0}
BY DEF FailTurn, SendRequest, FillAndContinue

\* The user's answer to the pending decision of the active turn.
LEMMA DecisionGrows ==
  ASSUME TailInv, NEW id, NEW seen,
         \/ Approve(id, seen) \/ Reject(id, seen)
         \/ ApprovePlan(id, seen) \/ RejectPlan(id, seen)
  PROVE  ConversationGrows
<1>1. TypeOK /\ CardsOwn /\ PrefixValid /\ OwnTail /\ AskedInTurn /\ turn \in Nat
  BY DEF TailInv, TurnInv, TypeInv, TypeOK
<1>2. PICK p \in {pending_approval, pending_plan} \ {None} :
        /\ p.turn = turn
        /\ \/ conversation' = Append(conversation, ToolMsg(p.call))
           \/ FillAndContinue(Append(conversation, ToolMsg(p.call)))
  BY DEF Approve, Reject, ApprovePlan, RejectPlan, Answers
<1>3. p \in Pending /\ turn # 0 /\ p.call \in CallsOfTurn(turn) /\ Asked
  BY <1>1, <1>2 DEF TypeOK, Pending, Ids, CardsOwn, CallsOfTurn, AskedInTurn
<1>4. UNCHANGED <<active_start, turn_counter>> /\ turn' \in {turn, 0}
  BY RequestKeepsTurn DEF Approve, Reject, ApprovePlan, RejectPlan
<1>5. CASE conversation' = Append(conversation, ToolMsg(p.call))
  <2>1. ToolMsg(p.call) \in OwnMessages(turn)
    BY <1>1, <1>3, OwnMessagesMade
  <2> QED
    BY <1>1, <1>3, <1>4, <1>5, <2>1, OneMore
<1>6. CASE FillAndContinue(Append(conversation, ToolMsg(p.call)))
  <2>1. \E more \in Seq(OwnMessages(turn)) : conversation' = conversation \o more
    BY <1>1, <1>3, <1>6, FillMoves
  <2> QED
    BY <1>3, <1>4, <2>1 DEF ConversationGrows
<1> QED
  BY <1>2, <1>5, <1>6

LEMMA NextMovesConversation == KeptEnv /\ TailInv /\ [Next]_vars => ConversationMoves
<1> SUFFICES ASSUME KeptEnv, TailInv, [Next]_vars PROVE ConversationMoves
  OBVIOUS
<1>1. TypeOK /\ LoopOwn /\ EventsOwn /\ turn \in Nat /\ (phase = "tools" => turn # 0)
  BY DEF TailInv, TurnInv, TypeInv, TypeOK
<1>2. CASE SubmitPrompt \/ EndTick
  <2>1. (turn = 0 /\ StartPrompt) \/ ConversationKept
    BY <1>2 DEF SubmitPrompt, EndTick, CanPump, ConversationKept, lifecycle
  <2> QED
    BY <2>1, PromptMoves DEF ConversationMoves
<1>3. CASE CancelTurn
  BY <1>3 DEF CancelTurn, ConversationMoves, TurnTakenBack
<1>4. CASE ClearHistory \/ LoadSession
  BY <1>4 DEF ClearHistory, LoadSession, KeptEnv
<1>5. ASSUME NEW id, NEW seen,
             \/ Approve(id, seen) \/ Reject(id, seen)
             \/ ApprovePlan(id, seen) \/ RejectPlan(id, seen)
      PROVE  ConversationMoves
  BY <1>5, DecisionGrows DEF ConversationMoves
<1>6. CASE WorkerStep
  BY <1>6 DEF WorkerStep, WorkerTake, WorkerReceive, WorkerPost, WorkerAbandon, ConversationMoves,
              ConversationKept, lifecycle
<1>7. CASE \/ BeginTick \/ DropStaleEvent \/ HandleDelta \/ HandleError \/ IllegalTransition
           \/ AskUser \/ ReviewPlan \/ UNCHANGED vars
  BY <1>7 DEF BeginTick, DropStaleEvent, HandleDelta, HandleError, IllegalTransition, AskUser,
              ReviewPlan, vars, ConversationMoves, ConversationKept, lifecycle
<1>8. CASE FinishLoop
  BY <1>8, RequestKeepsTurn DEF FinishLoop, ConversationMoves, ConversationKept
<1>9. CASE HandleFinalReply \/ HandleToolReply
  <2>1. batch # <<>> /\ Head(batch) \in OwnEvents /\ Head(batch).turn = turn
    BY <1>1, <1>9, HeadTailProperties DEF EventsOwn, HandleFinalReply, HandleToolReply, Handling
  <2>2. turn # 0 /\ Head(batch).calls \in Seq(CallsOfTurn(turn))
    BY <2>1, OwnEventsFacts DEF OwnEvents, Event, Ids
  <2>3. UNCHANGED <<active_start, turn_counter>> /\ turn' \in {turn, 0}
    BY <1>9, RequestKeepsTurn DEF HandleFinalReply, HandleToolReply
  <2>4. /\ AssistantMsg(turn, <<>>) \in OwnMessages(turn)
        /\ AssistantMsg(turn, Head(batch).calls) \in OwnMessages(turn)
    BY <1>1, <2>2, OwnMessagesMade
  <2>5. \/ UNCHANGED conversation
        \/ \E m \in OwnMessages(turn) : conversation' = Append(conversation, m)
    BY <1>9, <2>4 DEF HandleFinalReply, HandleToolReply
  <2> QED
    BY <1>1, <2>2, <2>3, <2>5, OneMore DEF ConversationMoves, ConversationKept
<1>10. CASE RunCall \/ RefusePlan \/ AutoApprovePlan
  <2>1. phase = "tools" /\ calls # <<>> /\ conversation' = Append(conversation, ToolMsg(Head(calls)))
    BY <1>10 DEF RunCall, RefusePlan, AutoApprovePlan
  <2>2. Head(calls) \in CallsOfTurn(turn)
    BY <1>1, <2>1, LoopHead DEF CallsOfTurn
  <2>3. ToolMsg(Head(calls)) \in OwnMessages(turn)
    BY <1>1, <2>2, OwnMessagesMade
  <2>4. UNCHANGED <<active_start, turn_counter>> /\ turn' \in {turn, 0}
    BY <1>10, RequestKeepsTurn DEF RunCall, RefusePlan, AutoApprovePlan
  <2> QED
    BY <1>1, <2>1, <2>3, <2>4, OneMore DEF ConversationMoves
<1> QED
  BY <1>2, <1>3, <1>4, <1>5, <1>6, <1>7, <1>8, <1>9, <1>10 DEF Next, User, Timer

-----------------------------------------------------------------------------
(* The parts of TailInv *)

LEMMA PrefixStep ==
  ASSUME TypeOK, TypeOK', PrefixValid, ConversationMoves
  PROVE  PrefixValid'
<1>1. /\ conversation \in Seq(Message) /\ turn \in Nat /\ turn_counter \in Nat
      /\ active_start \in Nat \cup {NoStart} /\ conversation' \in Seq(Message)
  BY DEF TypeOK
<1>2. CASE ConversationKept
  BY <1>2 DEF ConversationKept, PrefixValid
<1>3. CASE ConversationGrows
  <2>1. PICK more \in Seq(OwnMessages(turn)) : conversation' = conversation \o more
    BY <1>3 DEF ConversationGrows
  <2>2. more \in Seq(Message)
    BY SeqMonotonic DEF OwnMessages
  <2>3. /\ active_start \in Nat /\ active_start <= Len(conversation) /\ active_start' = active_start
    BY <1>1, <1>3 DEF ConversationGrows, PrefixValid
  <2>4. Discard(conversation', active_start') = Discard(conversation, active_start)
    BY <1>1, <2>1, <2>2, <2>3, DiscardIsPrefix
  <2>5. Len(conversation') >= Len(conversation)
    BY <1>1, <2>1, <2>2, ConcatProperties, LenProperties
  <2>6. Len(conversation) \in Nat /\ Len(conversation') \in Nat
    BY <1>1, LenProperties
  <2> QED
    BY <1>3, <2>3, <2>4, <2>5, <2>6 DEF PrefixValid, ConversationGrows
<1>4. CASE TurnTakenBack
  <2>1. Discard(conversation', active_start') = conversation'
    BY <1>4 DEF TurnTakenBack, Discard
  <2> QED
    BY <1>4, <2>1 DEF TurnTakenBack, PrefixValid
<1>5. CASE TurnBegins
  <2>1. PICK kept : PromptFollows(kept) /\ ValidSequence(kept) /\ kept \in Seq(Message)
    BY <1>1, <1>5, DiscardTyped DEF TurnBegins, PrefixValid
  <2>2. UserMsg(turn_counter + 1) \in Message
    BY <1>1, MessagesTyped
  <2>3. Discard(conversation', active_start') = kept
    <3>1. conversation' = kept \o <<UserMsg(turn_counter + 1)>>
      BY <2>1, <2>2, AppendIsConcat DEF PromptFollows
    <3>2. Len(kept) \in Nat /\ Len(kept) <= Len(kept) /\ <<UserMsg(turn_counter + 1)>> \in Seq(Message)
      BY <2>1, <2>2, LenProperties
    <3>3. Discard(conversation', Len(kept)) = SubSeq(kept, 1, Len(kept))
      BY <2>1, <3>1, <3>2, DiscardIsPrefix
    <3> QED
      BY <2>1, <3>3, SubSeqFull DEF PromptFollows
  <2>4. active_start' \in Nat /\ active_start' <= Len(conversation')
    BY <2>1, <2>2, AppendProperties, LenProperties DEF PromptFollows
  <2> QED
    BY <2>1, <2>3, <2>4 DEF PrefixValid, NoStart
<1> QED
  BY <1>2, <1>3, <1>4, <1>5 DEF ConversationMoves

LEMMA TailStep ==
  ASSUME TypeOK, TypeOK', turn <= turn_counter, PrefixValid, OwnTail, ConversationMoves
  PROVE  OwnTail'
<1>1. /\ conversation \in Seq(Message) /\ turn \in Nat /\ turn_counter \in Nat
      /\ active_start \in Nat \cup {NoStart} /\ conversation' \in Seq(Message)
      /\ Len(conversation) \in Nat /\ DOMAIN conversation = 1..Len(conversation)
  BY LenProperties DEF TypeOK
<1>2. CASE ConversationKept
  BY <1>2 DEF ConversationKept, OwnTail
<1>3. CASE ConversationGrows
  <2>1. PICK more \in Seq(OwnMessages(turn)) : conversation' = conversation \o more
    BY <1>3 DEF ConversationGrows
  <2> DEFINE n == Len(conversation)
  <2>2. more \in Seq(Message)
    BY SeqMonotonic DEF OwnMessages
  <2>3. /\ active_start \in Nat /\ active_start <= n /\ active_start' = active_start
        /\ turn_counter' = turn_counter /\ turn # 0
    BY <1>1, <1>3 DEF ConversationGrows, PrefixValid
  <2>4. /\ DOMAIN conversation' = 1..(n + Len(more)) /\ Len(more) \in Nat
        /\ \A i \in 1..(n + Len(more)) :
             conversation'[i] = IF i <= n THEN conversation[i] ELSE more[i - n]
    BY <1>1, <2>1, <2>2, ConcatProperties, LenProperties
  <2>5. ASSUME NEW i \in DOMAIN conversation'
        PROVE  /\ conversation'[i].turn <= turn_counter
               /\ conversation'[i] \in OwnMessages(conversation'[i].turn)
               /\ conversation'[i].turn = turn <=> i > active_start
    <3>1. CASE i <= n
      <4>1. i \in DOMAIN conversation /\ conversation'[i] = conversation[i]
        BY <1>1, <2>4, <3>1
      <4> QED
        BY <2>3, <4>1 DEF OwnTail
    <3>2. CASE ~(i <= n)
      <4>1. i - n \in 1..Len(more) /\ conversation'[i] = more[i - n] /\ i > active_start
        BY <1>1, <2>3, <2>4, <3>2
      <4>2. more[i - n] \in OwnMessages(turn)
        BY <4>1, ElementOfSeq
      <4> QED
        BY <4>1, <4>2 DEF OwnMessages
    <3> QED
      BY <3>1, <3>2
  <2>6. turn' \in {turn, 0}
    BY <1>3 DEF ConversationGrows
  <2> QED
    BY <2>3, <2>5, <2>6 DEF OwnTail
<1>4. ASSUME NEW kept \in {conversation, Discard(conversation, active_start)}
      PROVE  /\ kept \in Seq(Message)
             /\ \A i \in DOMAIN kept : /\ kept[i].turn <= turn_counter
                                      /\ kept[i] \in OwnMessages(kept[i].turn)
  <2>1. CASE kept = conversation
    BY <1>1, <2>1 DEF OwnTail
  <2>2. CASE kept # conversation
    <3>1. active_start \in Nat /\ active_start <= Len(conversation)
          /\ kept = Discard(conversation, active_start)
      BY <1>1, <2>2 DEF Discard
    <3>2. /\ kept \in Seq(Message) /\ Len(kept) = active_start
          /\ \A i \in 1..active_start : kept[i] = conversation[i]
      BY <1>1, <3>1, DiscardIsPrefix
    <3>3. \A i \in DOMAIN kept : i \in DOMAIN conversation /\ kept[i] = conversation[i]
      BY <1>1, <3>1, <3>2, LenProperties
    <3> QED
      BY <3>2, <3>3 DEF OwnTail
  <2> QED
    BY <2>1, <2>2
<1>5. CASE TurnTakenBack
  BY <1>4, <1>5 DEF TurnTakenBack, OwnTail
<1>6. CASE TurnBegins
  <2>1. PICK kept \in {conversation, Discard(conversation, active_start)} : PromptFollows(kept)
    BY <1>6 DEF TurnBegins
  <2> DEFINE t == turn_counter + 1
  <2>2. UserMsg(t) \in OwnMessages(t) /\ UserMsg(t) \in Message /\ UserMsg(t).turn = t
    BY <1>1, OwnMessagesMade DEF OwnMessages
  <2>3. /\ conversation' = Append(kept, UserMsg(t)) /\ active_start' = Len(kept)
        /\ turn_counter' = t /\ turn' = t
    BY <2>1 DEF PromptFollows
  <2>4. /\ DOMAIN conversation' = 1..(Len(kept) + 1) /\ Len(kept) \in Nat
        /\ \A i \in 1..Len(kept) : conversation'[i] = kept[i] /\ i \in DOMAIN kept
        /\ conversation'[Len(kept) + 1] = UserMsg(t)
    <3>1. kept \in Seq(Message)
      BY <1>4
    <3> HIDE DEF t
    <3> QED
      BY <2>2, <2>3, <3>1, AppendProperties, LenProperties
  <2>5. ASSUME NEW i \in DOMAIN conversation'
        PROVE  /\ conversation'[i].turn <= t
               /\ conversation'[i] \in OwnMessages(conversation'[i].turn)
               /\ conversation'[i].turn = t <=> i > Len(kept)
    <3>1. CASE i = Len(kept) + 1
      BY <1>1, <2>2, <2>4, <3>1
    <3>2. CASE i # Len(kept) + 1
      <4>1. i \in 1..Len(kept) /\ conversation'[i] = kept[i] /\ i \in DOMAIN kept
        BY <2>4, <3>2
      <4>2. kept[i].turn <= turn_counter /\ kept[i] \in OwnMessages(kept[i].turn)
        BY <1>4, <4>1
      <4>3. kept[i].turn \in Nat
        <5>1. kept[i] \in Message
          BY <1>4, <4>1, LenProperties
        <5> QED
          BY <5>1 DEF Message
      <4> QED
        BY <1>1, <4>1, <4>2, <4>3
    <3> QED
      BY <3>1, <3>2
  <2> QED
    BY <2>3, <2>5 DEF OwnTail
<1> QED
  BY <1>2, <1>3, <1>5, <1>6 DEF ConversationMoves

\* The turn that asked in the conversation goes on, or another one begins.
LEMMA AskedStep ==
  ASSUME TypeInv, TypeInv', PrefixValid, AskedInTurn, turn <= turn_counter, ConversationMoves,
         phase' = "tools" => phase = "tools" \/ Asked',
         \A p \in {pending_approval', pending_plan'} \ {None} :
            p \in {pending_approval, pending_plan} \/ (p.turn = turn /\ phase = "tools")
  PROVE  AskedInTurn'
<1>1. /\ conversation \in Seq(Message) /\ turn \in Nat /\ turn_counter \in Nat
      /\ turn_counter' \in {turn_counter, turn_counter + 1} /\ (phase = "tools" => turn # 0)
  BY DEF TypeInv, TypeOK, ConversationMoves, ConversationKept, ConversationGrows, TurnTakenBack,
         TurnBegins, PromptFollows
<1>2. ASSUME ConversationKept \/ ConversationGrows, Asked PROVE Asked'
  <2>1. CASE ConversationKept
    BY <1>2, <2>1 DEF ConversationKept, Asked
  <2>2. CASE ConversationGrows
    <3>1. PICK more \in Seq(OwnMessages(turn)) : conversation' = conversation \o more
      BY <2>2 DEF ConversationGrows
    <3>2. more \in Seq(Message)
      BY SeqMonotonic DEF OwnMessages
    <3>3. PICK j \in DOMAIN conversation :
            j > active_start /\ conversation[j].role = "ASSISTANT" /\ conversation[j].calls # <<>>
      BY <1>2 DEF Asked
    <3>4. j \in DOMAIN conversation' /\ conversation'[j] = conversation[j]
      BY <1>1, <3>1, <3>2, <3>3, ConcatProperties, LenProperties
    <3>5. active_start' = active_start
      BY <2>2 DEF ConversationGrows
    <3> QED
      BY <3>3, <3>4, <3>5 DEF Asked
  <2> QED
    BY <1>2, <2>1, <2>2
\* Whoever had asked has asked still, or is not the active turn any more.
<1>3. Asked /\ turn # 0 => Asked' \/ turn' = 0
  BY <1>2 DEF ConversationMoves, TurnTakenBack, TurnBegins
<1>4. phase' = "tools" => Asked'
  BY <1>1, <1>3 DEF AskedInTurn, TypeInv
<1>5. ASSUME NEW p \in {pending_approval', pending_plan'} \ {None}
      PROVE  p.turn <= turn_counter' /\ (p.turn = turn' => Asked')
  <2>1. p.turn \in Nat /\ p.turn # 0
    BY DEF TypeInv, TypeOK, Pending, Ids
  <2>2. p.turn <= turn_counter /\ (p.turn = turn => Asked)
    BY <1>1 DEF AskedInTurn
  <2>3. p.turn <= turn_counter'
    BY <1>1, <2>1, <2>2
  <2>4. turn' \in {turn, 0, turn_counter + 1}
    BY DEF ConversationMoves, ConversationKept, ConversationGrows, TurnTakenBack, TurnBegins,
           PromptFollows
  <2>5. p.turn = turn' => turn' = turn
    BY <1>1, <2>1, <2>2, <2>4
  <2> QED
    BY <1>3, <2>1, <2>2, <2>3, <2>5
<1> QED
  BY <1>4, <1>5 DEF AskedInTurn

LEMMA NextKeepsAsked ==
  KeptEnv /\ TailInv /\ TypeInv' /\ ConversationMoves /\ [Next]_vars => AskedInTurn'
<1> SUFFICES ASSUME KeptEnv, TailInv, TypeInv', ConversationMoves, [Next]_vars PROVE AskedInTurn'
  OBVIOUS
<1>0. /\ TypeInv /\ TypeOK /\ PrefixValid /\ AskedInTurn /\ turn <= turn_counter /\ EventsOwn
      /\ {pending_approval', pending_plan'} \ {None} \subseteq Pending
  BY DEF TailInv, TurnInv, TypeInv, ActiveTurn, TypeOK
<1>1. phase' = "tools" => phase = "tools" \/ Asked'
  <2>1. CASE HandleToolReply
    <3> SUFFICES ASSUME phase' = "tools", phase # "tools" PROVE Asked'
      OBVIOUS
    <3>1. /\ conversation' = Append(conversation, AssistantMsg(turn, Head(batch).calls))
          /\ Head(batch).calls # <<>> /\ active_start' = active_start /\ batch # <<>>
          /\ Head(batch).turn = turn
      BY <2>1 DEF HandleToolReply, Handling
    <3>2. Head(batch) \in Event /\ turn \in Ids
      <4>1. batch \in Seq(Event)
        BY <1>0 DEF TypeOK
      <4>2. Head(batch) \in Event
        BY <3>1, <4>1, HeadTailProperties
      <4> QED
        BY <3>1, <4>2 DEF Event
    <3>3. AssistantMsg(turn, Head(batch).calls) \in Message /\ conversation \in Seq(Message)
      BY <1>0, <3>2, MessagesTyped DEF Event, TypeOK, Ids
    <3>4. /\ Len(conversation) + 1 \in DOMAIN conversation'
          /\ conversation'[Len(conversation) + 1] = AssistantMsg(turn, Head(batch).calls)
      BY <3>1, <3>3, AppendProperties, LenProperties
    <3>5. Len(conversation) + 1 > active_start
      BY <1>0, <3>2, <3>3, LenProperties DEF PrefixValid, TypeOK, Ids
    <3> QED
      BY <3>1, <3>4, <3>5 DEF Asked, AssistantMsg
  <2>2. CASE SubmitPrompt \/ EndTick
    BY <2>2 DEF SubmitPrompt, EndTick, main
  <2>3. ASSUME NEW id, NEW seen,
               \/ Approve(id, seen) \/ Reject(id, seen)
               \/ ApprovePlan(id, seen) \/ RejectPlan(id, seen)
        PROVE  UNCHANGED phase
    BY <2>3 DEF Approve, Reject, ApprovePlan, RejectPlan, main
  <2>4. CASE CancelTurn \/ ClearHistory \/ LoadSession \/ WorkerStep \/ UNCHANGED vars
    BY <2>4 DEF CancelTurn, ClearHistory, LoadSession, WorkerStep, WorkerTake, WorkerReceive,
                WorkerPost, WorkerAbandon, vars, main
  <2>5. CASE \/ BeginTick \/ DropStaleEvent \/ HandleDelta \/ HandleError \/ IllegalTransition
             \/ HandleFinalReply \/ RunCall \/ AskUser \/ ReviewPlan \/ RefusePlan
             \/ AutoApprovePlan \/ FinishLoop
    BY <2>5 DEF BeginTick, DropStaleEvent, HandleDelta, HandleError, IllegalTransition,
                HandleFinalReply, Handling, RunCall, AskUser, ReviewPlan, RefusePlan,
                AutoApprovePlan, FinishLoop
  <2> QED
    BY <2>1, <2>2, <2>3, <2>4, <2>5 DEF Next, User, Timer
<1>2. ASSUME NEW p \in {pending_approval', pending_plan'} \ {None}
      PROVE  p \in {pending_approval, pending_plan} \/ (p.turn = turn /\ phase = "tools")
  <2>1. CASE AskUser \/ ReviewPlan
    BY <2>1 DEF AskUser, ReviewPlan, Decision
  <2>2. CASE SubmitPrompt \/ EndTick
    <3>1. UNCHANGED gate
      BY <2>2 DEF SubmitPrompt, EndTick, StartPrompt
    <3> QED
      BY <3>1 DEF gate
  <2>3. ASSUME NEW id, NEW seen,
               \/ Approve(id, seen) \/ Reject(id, seen)
               \/ ApprovePlan(id, seen) \/ RejectPlan(id, seen)
        PROVE  p \in {pending_approval, pending_plan}
    BY <2>3 DEF Approve, Reject, ApprovePlan, RejectPlan
  <2>4. CASE CancelTurn \/ ClearHistory \/ LoadSession \/ WorkerStep \/ UNCHANGED vars
    BY <2>4 DEF CancelTurn, ClearHistory, LoadSession, WorkerStep, WorkerTake, WorkerReceive,
                WorkerPost, WorkerAbandon, vars, gate
  <2>5. CASE \/ BeginTick \/ DropStaleEvent \/ HandleDelta \/ HandleError \/ IllegalTransition
             \/ HandleFinalReply \/ HandleToolReply \/ RunCall \/ RefusePlan
             \/ AutoApprovePlan \/ FinishLoop
    BY <2>5 DEF BeginTick, DropStaleEvent, HandleDelta, HandleError, IllegalTransition,
                HandleFinalReply, HandleToolReply, RunCall, RefusePlan, AutoApprovePlan,
                FinishLoop, gate
  <2> QED
    BY <2>1, <2>2, <2>3, <2>4, <2>5 DEF Next, User, Timer
<1> QED
  BY <1>0, <1>1, <1>2, AskedStep

LEMMA TailInit == Init => TailInv
<1> SUFFICES ASSUME Init PROVE TailInv
  OBVIOUS
<1>1. Discard(conversation, active_start) = <<>>
  BY DEF Init, Discard
<1>2. DOMAIN conversation = {}
  BY DEF Init
<1>3. PrefixValid /\ OwnTail /\ AskedInTurn
  BY <1>1, <1>2, EmptyIsValid DEF Init, PrefixValid, OwnTail, AskedInTurn
<1> QED
  BY <1>3, TurnInit DEF TailInv

LEMMA TailNext == KeptEnv /\ TailInv /\ [Next]_vars => TailInv'
<1> SUFFICES ASSUME KeptEnv, TailInv, [Next]_vars PROVE TailInv'
  OBVIOUS
<1>1. TurnInv /\ TypeInv /\ TypeOK /\ PrefixValid /\ OwnTail /\ turn <= turn_counter
  BY DEF TailInv, TurnInv, TypeInv, ActiveTurn
<1>2. TurnInv' /\ TypeInv' /\ TypeOK'
  BY <1>1, TurnNext DEF TurnInv, TypeInv
<1>3. ConversationMoves
  BY NextMovesConversation
<1>4. PrefixValid' /\ OwnTail'
  BY <1>1, <1>2, <1>3, PrefixStep, TailStep
<1>5. AskedInTurn'
  BY <1>2, <1>3, NextKeepsAsked
<1> QED
  BY <1>2, <1>4, <1>5 DEF TailInv

\* The conversation is never poisoned: after any end of a turn, the next prompt
\* finds a conversation that validates, or can discard what does not
\* (AgentRuntime._start_prompt).
THEOREM NextPromptCanStart == KeptEnv => (Spec => []NextPromptStarts)
<1> SUFFICES ASSUME KeptEnv PROVE Spec => []NextPromptStarts
  OBVIOUS
<1>1. TailInv => NextPromptStarts
  <2> SUFFICES ASSUME TailInv PROVE NextPromptStarts
    OBVIOUS
  <2>1. ValidSequence(Discard(conversation, active_start))
    BY DEF TailInv, PrefixValid
  <2>2. active_start = NoStart => Discard(conversation, active_start) = conversation
    BY DEF Discard
  <2> QED
    BY <2>1, <2>2 DEF NextPromptStarts
<1>2. TailInv /\ [Next]_vars => TailInv'
  BY TailNext
<1> QED
  BY <1>1, <1>2, TailInit, PTL DEF Spec

\* Only the user's Stop sets a cancel event (AgentRuntime.cancel_current_turn).
LEMMA OnlyStopCancels == [Next]_vars /\ cancelled' # cancelled => CancelTurn
<1> SUFFICES ASSUME [Next]_vars, ~CancelTurn PROVE UNCHANGED cancelled
  OBVIOUS
<1>1. CASE SubmitPrompt \/ EndTick
  BY <1>1 DEF SubmitPrompt, EndTick, StartPrompt
<1>2. ASSUME NEW id, NEW seen,
             \/ Approve(id, seen) \/ Reject(id, seen)
             \/ ApprovePlan(id, seen) \/ RejectPlan(id, seen)
      PROVE  UNCHANGED cancelled
  BY <1>2 DEF Approve, Reject, ApprovePlan, RejectPlan
<1>3. CASE ClearHistory \/ LoadSession \/ WorkerStep \/ UNCHANGED vars
  BY <1>3 DEF ClearHistory, LoadSession, WorkerStep, WorkerTake, WorkerReceive, WorkerPost,
              WorkerAbandon, vars
<1>4. CASE Timer /\ ~EndTick
  BY <1>4 DEF Timer, BeginTick, DropStaleEvent, HandleDelta, HandleError, IllegalTransition,
              HandleFinalReply, HandleToolReply, RunCall, AskUser, ReviewPlan, RefusePlan,
              AutoApprovePlan, FinishLoop
<1> QED
  BY <1>1, <1>2, <1>3, <1>4 DEF Next, User

LEMMA TakesBack ==
  ASSUME TailInv, [Next]_vars, turn # 0, turn \in cancelled'
  PROVE  \E n \in 0..Len(conversation) :
           /\ \A i \in DOMAIN conversation : conversation[i].turn = turn <=> i > n
           /\ conversation' = SubSeq(conversation, 1, n)
<1>1. /\ conversation \in Seq(Message) /\ active_start \in Nat
      /\ active_start <= Len(conversation) /\ turn \notin cancelled
  BY DEF TailInv, TurnInv, TypeInv, TypeOK, ActiveTurn, PrefixValid
<1>2. CancelTurn
  BY <1>1, OnlyStopCancels
<1>3. conversation' = SubSeq(conversation, 1, active_start)
  BY <1>1, <1>2, DiscardIsPrefix DEF CancelTurn
<1>4. \A i \in DOMAIN conversation : conversation[i].turn = turn <=> i > active_start
  BY DEF TailInv, OwnTail
<1>5. active_start \in 0..Len(conversation)
  BY <1>1, LenProperties
<1> QED
  BY <1>3, <1>4, <1>5

\* Cancelling the active turn takes back its messages and no other
\* (AgentRuntime.cancel_current_turn, _discard_active_turn_context).
THEOREM StopTakesBackTheTurn == KeptEnv => (Spec => CancelTakesBackTurn)
<1> SUFFICES ASSUME KeptEnv PROVE Spec => CancelTakesBackTurn
  OBVIOUS
<1>1. TailInv /\ [Next]_vars =>
        [turn # 0 /\ turn \in cancelled' =>
           \E n \in 0..Len(conversation) :
             /\ \A i \in DOMAIN conversation : conversation[i].turn = turn <=> i > n
             /\ conversation' = SubSeq(conversation, 1, n)]_vars
  BY TakesBack
<1>2. TailInv /\ [Next]_vars => TailInv'
  BY TailNext
<1> QED
  BY <1>1, <1>2, TailInit, PTL DEF Spec, CancelTakesBackTurn

\* Nothing but Stop, clicked after the turn has ended, changes a recorded
\* conversation; that this does is the disagreement that LateCancel shows.
THEOREM OnlyALateStopLosesHistory ==
  KeptEnv /\ "lateCancel" \notin Env => (Spec => CompletedHistoryKept)
<1> SUFFICES ASSUME KeptEnv, "lateCancel" \notin Env PROVE Spec => CompletedHistoryKept
  OBVIOUS
<1>1. TailInv /\ [Next]_vars =>
        [state = "IDLE" /\ turn = 0 /\ turn' = 0 => conversation' = conversation]_vars
  <2> SUFFICES ASSUME TailInv, [Next]_vars, turn = 0, turn' = 0
               PROVE  conversation' = conversation
    OBVIOUS
  <2>1. ConversationMoves /\ turn_counter \in Nat
    BY NextMovesConversation DEF TailInv, TurnInv, TypeInv, TypeOK
  <2>2. CASE ConversationKept
    BY <2>2 DEF ConversationKept
  <2>3. CASE TurnTakenBack
    BY <2>3 DEF TurnTakenBack
  <2> QED
    BY <2>1, <2>2, <2>3 DEF ConversationMoves, ConversationGrows, TurnBegins, PromptFollows
<1>2. TailInv /\ [Next]_vars => TailInv'
  BY TailNext
<1> QED
  BY <1>1, <1>2, TailInit, PTL DEF Spec, CompletedHistoryKept

-----------------------------------------------------------------------------
(* The batch of the active turn *)

\* Message a of the active turn asks for the batch, `rest' is not answered yet.
\* The messages before are in their places when a plan ends its reply.
OwnBatch(msgs, a, rest) ==
  /\ a > active_start /\ Batch(msgs, a, rest)
  /\ rest \in Seq(CallsOfTurn(turn))
  /\ PlansLast => SoundTo(msgs, a) /\ PlanAtEnd(msgs[a].calls)

LEMMA OwnBatchTypes ==
  ASSUME NEW msgs \in Seq(Message), NEW a, NEW rest, OwnBatch(msgs, a, rest)
  PROVE  /\ rest \in Seq(Call) /\ Batch(msgs, a, rest)
         /\ a \in 1..Len(msgs) /\ a \in Nat /\ Len(msgs) \in Nat
         /\ msgs[a].calls \in Seq(Call)
         /\ rest # <<>> => /\ Head(rest) \in CallsOfTurn(turn) /\ Head(rest) \in Call
                           /\ Tail(rest) \in Seq(CallsOfTurn(turn))
                           /\ msgs[a].calls # <<>>
<1>1. rest \in Seq(CallsOfTurn(turn)) /\ Batch(msgs, a, rest)
  BY DEF OwnBatch
<1>2. CallsOfTurn(turn) \subseteq Call
  BY DEF CallsOfTurn
<1>3. rest \in Seq(Call)
  BY <1>1, <1>2, SeqMonotonic
<1>4. /\ a \in 1..Len(msgs) /\ a \in Nat /\ Len(msgs) \in Nat /\ msgs[a].calls \in Seq(Call)
      /\ Len(msgs[a].calls) = (Len(msgs) - a) + Len(rest) /\ Len(msgs) - a \in Nat
      /\ Len(rest) \in Nat
  BY <1>1, <1>3, BatchTypes
<1>5. rest # <<>> => /\ Head(rest) \in CallsOfTurn(turn) /\ Tail(rest) \in Seq(CallsOfTurn(turn))
                     /\ Len(rest) # 0
  BY <1>1, HeadTailProperties, EmptySeq
<1>6. rest # <<>> => msgs[a].calls # <<>>
  <2> SUFFICES ASSUME rest # <<>>, msgs[a].calls = <<>> PROVE FALSE
    OBVIOUS
  <2>1. Len(msgs[a].calls) = 0
    OBVIOUS
  <2>2. \A x, y, z \in Nat : x = y + z /\ z # 0 => x # 0
    OBVIOUS
  <2> QED
    BY <1>4, <1>5, <2>1, <2>2
<1> QED
  BY <1>1, <1>2, <1>3, <1>4, <1>5, <1>6

\* The next call is answered.
LEMMA OwnBatchAnswered ==
  ASSUME NEW msgs \in Seq(Message), NEW a, NEW rest, OwnBatch(msgs, a, rest), rest # <<>>
  PROVE  /\ OwnBatch(Append(msgs, ToolMsg(Head(rest))), a, Tail(rest))
         /\ Append(msgs, ToolMsg(Head(rest))) \in Seq(Message)
<1> DEFINE new == Append(msgs, ToolMsg(Head(rest)))
<1>1. /\ rest \in Seq(Call) /\ Batch(msgs, a, rest)
      /\ a \in 1..Len(msgs) /\ a \in Nat /\ Len(msgs) \in Nat /\ Head(rest) \in Call
      /\ Tail(rest) \in Seq(CallsOfTurn(turn))
  BY OwnBatchTypes
<1>2. Batch(new, a, Tail(rest))
  BY <1>1, BatchAnswered
<1>3. ToolMsg(Head(rest)) \in Message
  BY <1>1, MessagesTyped
<1>4. new \in Seq(Message) /\ \A j \in 1..Len(msgs) : new[j] = msgs[j]
  BY <1>3, AppendProperties
<1>5. \A j \in 1..a : msgs[j] = new[j]
  BY <1>1, <1>4
<1> HIDE DEF new
<1>6. SoundTo(msgs, a) => SoundTo(new, a)
  BY <1>1, <1>5, SoundDependsOnPrefix
<1>7. OwnBatch(new, a, Tail(rest))
  BY <1>1, <1>2, <1>5, <1>6 DEF OwnBatch
<1> QED
  BY <1>4, <1>7 DEF new

\* All calls that are left are answered as not executed.
LEMMA OwnBatchFilled ==
  ASSUME NEW msgs \in Seq(Message), NEW a, NEW rest, OwnBatch(msgs, a, rest),
         msgs[a].calls # <<>>, NEW i, IsLastAsk(msgs, i)
  PROVE  OwnBatch(FillFrom(msgs, i), a, <<>>) /\ FillFrom(msgs, i) \in Seq(Message)
<1> DEFINE fill == [k \in 1..Len(rest) |-> ToolMsg(rest[k])]
           new == msgs \o fill
<1>1. /\ rest \in Seq(Call) /\ Batch(msgs, a, rest)
      /\ a \in 1..Len(msgs) /\ a \in Nat /\ Len(msgs) \in Nat
  BY OwnBatchTypes
<1>2. Batch(FillFrom(msgs, i), a, <<>>) /\ FillFrom(msgs, i) = new
  BY <1>1, BatchFilled
<1>3. fill \in Seq(Message)
  <2>1. \A k \in 1..Len(rest) : ToolMsg(rest[k]) \in Message
    BY <1>1, MessagesTyped, ElementOfSeq
  <2>2. Len(rest) \in Nat
    BY <1>1, LenProperties
  <2> QED
    BY <2>1, <2>2
<1>4. new \in Seq(Message) /\ \A j \in 1..a : msgs[j] = new[j]
  <2>1. /\ new \in Seq(Message) /\ Len(new) = Len(msgs) + Len(fill) /\ Len(fill) \in Nat
        /\ \A j \in 1..(Len(msgs) + Len(fill)) :
             new[j] = IF j <= Len(msgs) THEN msgs[j] ELSE fill[j - Len(msgs)]
    BY <1>3, ConcatProperties, LenProperties
  <2> HIDE DEF new, fill
  <2> QED
    BY <1>1, <2>1
<1> HIDE DEF new
<1>5. SoundTo(msgs, a) => SoundTo(new, a)
  BY <1>1, <1>4, SoundDependsOnPrefix
<1>6. new[a] = msgs[a]
  BY <1>1, <1>4
<1>7. <<>> \in Seq(CallsOfTurn(turn))
  BY EmptySeq
<1>8. OwnBatch(new, a, <<>>)
  BY <1>2, <1>5, <1>6, <1>7 DEF OwnBatch
<1> QED
  BY <1>2, <1>4, <1>8

\* When all calls are answered, the conversation validates; a plan is the last one.
LEMMA OwnBatchDone ==
  ASSUME PlansLast, NEW msgs \in Seq(Message), NEW a, NEW rest, OwnBatch(msgs, a, rest)
  PROVE  /\ rest = <<>> => ValidSequence(msgs)
         /\ rest # <<>> /\ Head(rest).kind \in PlanKinds => Tail(rest) = <<>>
<1>1. /\ rest \in Seq(Call) /\ Batch(msgs, a, rest) /\ SoundTo(msgs, a) /\ PlanAtEnd(msgs[a].calls)
  BY OwnBatchTypes DEF OwnBatch
<1>2. rest = <<>> => ValidSequence(msgs)
  BY <1>1, BatchIsSound
<1>3. ASSUME rest # <<>>, Head(rest).kind \in PlanKinds PROVE Tail(rest) = <<>>
  <2> DEFINE cs == msgs[a].calls
             d == Len(msgs) - a
  <2>1. cs \in Seq(Call) /\ Len(cs) = d + Len(rest) /\ d \in Nat /\ Len(rest) \in Nat
    BY <1>1, BatchTypes
  <2>2. Len(rest) >= 1 /\ Head(rest) = rest[1] /\ Tail(rest) \in Seq(Call)
        /\ Len(Tail(rest)) = Len(rest) - 1
    BY <1>1, <1>3, <2>1, HeadTailProperties, EmptySeq
  <2>3. rest[1] = cs[d + 1]
    BY <1>1, <2>2 DEF Batch
  <2> HIDE DEF d
  <2>4. d + 1 \in DOMAIN cs
    BY <2>1, <2>2, LenProperties
  <2>5. d + 1 = Len(cs)
    BY <1>1, <1>3, <2>2, <2>3, <2>4 DEF PlanAtEnd
  <2>6. Len(Tail(rest)) = 0
    BY <2>1, <2>2, <2>5
  <2> QED
    BY <2>2, <2>6, EmptySeq
<1> QED
  BY <1>2, <1>3

\* A reply to a conversation that validates opens a batch.
LEMMA OwnBatchBegins ==
  ASSUME TypeOK, PrefixValid, turn # 0, PlansLast => ValidSequence(conversation),
         NEW e \in OwnEvents, e.turn = turn,
         conversation' = Append(conversation, AssistantMsg(turn, e.calls))
  PROVE  OwnBatch(conversation', Len(conversation) + 1, e.calls)
<1> DEFINE a == Len(conversation) + 1
           m == AssistantMsg(turn, e.calls)
<1>1. /\ conversation \in Seq(Message) /\ turn \in Nat /\ Len(conversation) \in Nat
      /\ active_start \in Nat /\ active_start <= Len(conversation)
  BY LenProperties DEF TypeOK, PrefixValid
<1>2. /\ e.calls \in Seq(Call) /\ NoRepeat(e.calls) /\ (PlansLast => PlanAtEnd(e.calls))
      /\ e.calls \in Seq(CallsOfTurn(turn))
  BY OwnEventsFacts DEF OwnEvents, Event
<1>3. Batch(conversation', a, e.calls)
  BY <1>1, <1>2, BatchBegins
<1>4. m \in Message /\ m.calls = e.calls /\ m.role = "ASSISTANT"
  BY <1>1, <1>2, MessagesTyped DEF AssistantMsg
<1>5. /\ \A j \in 1..Len(conversation) : conversation'[j] = conversation[j]
      /\ conversation'[a] = m
  BY <1>1, <1>4, AppendProperties
<1> HIDE DEF m
<1>6. ASSUME PlansLast PROVE SoundTo(conversation', a)
  <2>1. SoundTo(conversation, Len(conversation)) /\ OpenCalls(conversation, a) = {}
    BY <1>1, <1>6, ValidIsSound
  <2>2. SoundTo(conversation', Len(conversation))
    BY <1>1, <1>5, <2>1, SoundDependsOnPrefix
  <2>3. OpenCalls(conversation', a) = {}
    <3>1. a \in Nat /\ \A j \in 1..(a - 1) : conversation'[j] = conversation[j]
      BY <1>1, <1>5
    <3>2. OpenCalls(conversation', a) = OpenCalls(conversation, a)
      BY <3>1, OpenDependsOnPrefix
    <3> QED
      BY <2>1, <3>2
  <2>4. Placed(conversation', a)
    BY <1>4, <1>5, <2>3 DEF Placed
  <2> QED
    BY <1>1, <2>2, <2>4 DEF SoundTo
<1>7. a > active_start
  BY <1>1
<1> QED
  BY <1>2, <1>3, <1>4, <1>5, <1>6, <1>7 DEF OwnBatch

-----------------------------------------------------------------------------
(* The invariant behind DecisionAnswerable and RequestsWellFormed *)

SteadyEnv == CalmEnv /\ KeptEnv

\* The loop, or the card of the active turn, works on the batch; otherwise the
\* conversation of an active turn validates.
LoopShape == phase = "tools" => \E a \in Nat : OwnBatch(conversation, a, calls)

CardShape ==
  \A p \in {pending_approval, pending_plan} \ {None} :
    /\ state = "PENDING_APPROVAL" /\ p.turn = turn
    /\ \E a \in Nat, rest \in Seq(CallsOfTurn(turn)) :
         rest # <<>> /\ Head(rest) = p.call /\ OwnBatch(conversation, a, rest)

OneCard == pending_approval = None \/ pending_plan = None
PlanCard == pending_plan # None => pending_plan.call.kind \in PlanKinds

Settled == turn # 0 /\ phase # "tools" /\ ~DecisionPending /\ PlansLast => ValidSequence(conversation)

Shape == LoopShape /\ CardShape /\ OneCard /\ PlanCard /\ Settled

\* No decision was taken on the card that waits.
CardsFresh ==
  /\ consumed_tokens \cup approved \cup rejected \subseteq DOMAIN cards
  /\ \A p \in {pending_approval, pending_plan} \ {None} :
       p.id \in DOMAIN cards /\ p.id \notin consumed_tokens \cup approved \cup rejected

TasksValid == PlansLast => \A n \in DOMAIN task_queue : task_queue[n].valid

ShapeInv == OneInv /\ TailInv /\ Shape

\* A card never waits while the main thread loops, nor without an active turn,
\* nor when the outcome of the turn arrives.
LEMMA NoCard ==
  ASSUME OneInv, CardShape
  PROVE  /\ phase = "tools" \/ turn = 0 => ~DecisionPending
         /\ batch # <<>> /\ IsOutcome(Head(batch), turn) => ~DecisionPending
<1>1. /\ TypeOK /\ Line /\ (phase = "tools" => turn # 0)
      /\ {pending_approval, pending_plan} \ {None} \subseteq Pending
  BY DEF OneInv, TurnInv, TypeInv, TypeOK
<1>2. ASSUME DecisionPending PROVE Awaiting /\ turn # 0
  <2>1. PICK p \in {pending_approval, pending_plan} \ {None} : TRUE
    BY <1>2 DEF DecisionPending
  <2>2. p.turn # 0
    BY <1>1 DEF Pending, Ids
  <2>3. state = "PENDING_APPROVAL" /\ p.turn = turn
    BY DEF CardShape
  <2> QED
    BY <1>2, <2>2, <2>3 DEF Awaiting
<1>3. ASSUME DecisionPending PROVE phase # "tools"
  BY <1>1, <1>2, <1>3, WorkerIdle
<1>4. ASSUME DecisionPending, batch # <<>>, IsOutcome(Head(batch), turn) PROVE FALSE
  BY <1>1, <1>2, <1>4, OutcomeFound
<1> QED
  BY <1>2, <1>3, <1>4

\* The conversation and the decisions stay as they are.
QuietShape ==
  /\ UNCHANGED <<conversation, active_start, turn, state, calls, pending_approval, pending_plan>>
  /\ phase' = "tools" <=> phase = "tools"

LEMMA ShapeQuiet == Shape /\ QuietShape => Shape'
BY DEF QuietShape, Shape, LoopShape, CardShape, OneCard, PlanCard, Settled, OwnBatch, DecisionPending

\* The turn ends, or its conversation validates again, or a turn begins.
SettledShape ==
  /\ phase' # "tools" /\ ~DecisionPending'
  /\ PlansLast => turn' = 0 \/ ValidSequence(conversation')

LEMMA ShapeSettled == SettledShape => Shape'
BY DEF SettledShape, Shape, LoopShape, CardShape, OneCard, PlanCard, Settled, DecisionPending

LEMMA EnterShape ==
  ASSUME ShapeInv, HandleToolReply
  PROVE  Shape'
<1>1. /\ TypeOK /\ OneInv /\ CardShape /\ PrefixValid /\ Settled /\ batch \in Seq(OwnEvents)
  BY DEF ShapeInv, OneInv, TurnInv, TypeInv, EventsOwn, TailInv, Shape
<1>2. /\ batch # <<>> /\ Head(batch).turn = turn /\ phase = "tick"
      /\ IsOutcome(Head(batch), turn)
      /\ UNCHANGED <<active_start, pending_approval, pending_plan>>
  BY DEF HandleToolReply, Handling, IsOutcome, gate
<1>3. Head(batch) \in OwnEvents /\ turn # 0
  BY <1>1, <1>2, HeadTailProperties DEF OwnEvents, Event, Ids
<1>4. ~DecisionPending /\ ~DecisionPending'
  BY <1>1, <1>2, NoCard DEF DecisionPending
<1>5. CASE FailTurn /\ UNCHANGED phase
  BY <1>2, <1>4, <1>5, ShapeSettled DEF FailTurn, SettledShape
<1>6. CASE /\ conversation' = Append(conversation, AssistantMsg(turn, Head(batch).calls))
           /\ phase' = "tools" /\ calls' = Head(batch).calls /\ UNCHANGED turn
  <2>1. PlansLast => ValidSequence(conversation)
    BY <1>2, <1>3, <1>4 DEF Settled, ShapeInv, Shape
  <2>2. OwnBatch(conversation', Len(conversation) + 1, calls')
    BY <1>1, <1>2, <1>3, <1>6, <2>1, OwnBatchBegins
  <2>3. Len(conversation) + 1 \in Nat
    BY <1>1, LenProperties DEF TypeOK
  <2>4. \E a \in Nat : OwnBatch(conversation, a, calls)'
    BY <1>2, <1>6, <2>2, <2>3 DEF OwnBatch
  <2> QED
    BY <1>4, <1>6, <2>4 DEF Shape, LoopShape, CardShape, OneCard, PlanCard, Settled, DecisionPending
<1> QED
  BY <1>5, <1>6 DEF HandleToolReply

\* The loop over the batch: the next call runs, or a card is shown for it, or
\* the loop is left.
LEMMA LoopShapes ==
  ASSUME ShapeInv, RunCall \/ AskUser \/ ReviewPlan \/ RefusePlan \/ AutoApprovePlan \/ FinishLoop
  PROVE  Shape'
<1>1. /\ TypeOK /\ OneInv /\ CardShape /\ phase = "tools" /\ conversation \in Seq(Message)
      /\ UNCHANGED active_start /\ turn # 0 /\ turn \in Nat
  BY DEF ShapeInv, OneInv, TurnInv, TypeInv, Shape, RunCall, AskUser, ReviewPlan, RefusePlan,
         AutoApprovePlan, FinishLoop, TypeOK
<1>2. ~DecisionPending
  BY <1>1, NoCard
<1>3. PICK a \in Nat : OwnBatch(conversation, a, calls)
  BY <1>1 DEF ShapeInv, Shape, LoopShape
<1>4. /\ calls \in Seq(CallsOfTurn(turn))
      /\ calls # <<>> => OwnBatch(Append(conversation, ToolMsg(Head(calls))), a, Tail(calls))
  BY <1>1, <1>3, OwnBatchAnswered DEF OwnBatch
<1>5. CASE RunCall /\ phase' = "tools"
  <2>1. /\ conversation' = Append(conversation, ToolMsg(Head(calls))) /\ calls # <<>>
        /\ calls' = Tail(calls) /\ UNCHANGED <<turn, pending_approval, pending_plan>>
    BY <1>5 DEF RunCall, LeaveLoop, gate
  <2>2. OwnBatch(conversation, a, calls)'
    BY <1>1, <1>4, <2>1 DEF OwnBatch
  <2> QED
    BY <1>2, <1>5, <2>1, <2>2
       DEF Shape, LoopShape, CardShape, OneCard, PlanCard, Settled, DecisionPending
<1>6. CASE RunCall /\ phase' # "tools"
  <2>1. turn' = 0 /\ UNCHANGED <<pending_approval, pending_plan>>
    BY <1>1, <1>6 DEF RunCall, FailTurn, gate
  <2> QED
    BY <1>2, <1>6, <2>1, ShapeSettled DEF SettledShape, DecisionPending
<1>7. CASE AskUser \/ ReviewPlan
  <2>1. /\ phase' # "tools" /\ state' = "PENDING_APPROVAL" /\ UNCHANGED <<conversation, turn>>
        /\ calls # <<>>
        /\ \/ /\ pending_approval' = Decision(Head(calls)) /\ UNCHANGED pending_plan
           \/ /\ pending_plan' = Decision(Head(calls)) /\ UNCHANGED pending_approval
              /\ Head(calls).kind \in PlanKinds
    BY <1>7 DEF AskUser, ReviewPlan, LeaveLoop, ShowCard, PlanKinds
  <2>2. pending_approval = None /\ pending_plan = None
    BY <1>2 DEF DecisionPending
  <2>3. Decision(Head(calls)) \in Pending /\ Decision(Head(calls)) # None
    <3>1. Head(calls) \in Call
      BY <1>1, <1>3, <2>1, OwnBatchTypes
    <3> QED
      BY <1>1, <3>1, HistoriesTyped, NoneAssumption
  <2>4. DecisionPending'
    BY <2>1, <2>3 DEF DecisionPending
  <2>5. \A p \in {pending_approval', pending_plan'} \ {None} : p = Decision(Head(calls))
    BY <2>1, <2>2
  <2>6. /\ Decision(Head(calls)).turn = turn /\ Decision(Head(calls)).call = Head(calls)
    BY DEF Decision
  <2>7. \A rest : OwnBatch(conversation, a, rest) => OwnBatch(conversation, a, rest)'
    BY <1>1, <2>1 DEF OwnBatch
  <2>8. CardShape'
    BY <1>3, <1>4, <2>1, <2>5, <2>6, <2>7 DEF CardShape
  <2> QED
    BY <2>1, <2>2, <2>4, <2>6, <2>8 DEF Shape, LoopShape, OneCard, PlanCard, Settled
<1>8. CASE RefusePlan
  BY <1>2, <1>8, ShapeSettled DEF RefusePlan, LeaveLoop, FailTurn, gate, SettledShape, DecisionPending
<1>9. CASE AutoApprovePlan \/ FinishLoop
  <2>1. phase' # "tools" /\ ~DecisionPending'
    BY <1>2, <1>9 DEF AutoApprovePlan, FinishLoop, LeaveLoop, gate, DecisionPending
  <2>2. ASSUME PlansLast PROVE ValidSequence(conversation')
    <3>1. CASE FinishLoop
      BY <1>1, <1>3, <2>2, <3>1, OwnBatchDone DEF FinishLoop
    <3>2. CASE AutoApprovePlan
      <4>1. /\ conversation' = Append(conversation, ToolMsg(Head(calls))) /\ calls # <<>>
            /\ Head(calls).kind \in PlanKinds
        BY <3>2 DEF AutoApprovePlan, PlanKinds
      <4>2. Tail(calls) = <<>>
        BY <1>1, <1>3, <2>2, <4>1, OwnBatchDone
      <4>3. OwnBatch(conversation', a, <<>>) /\ conversation' \in Seq(Message)
        BY <1>1, <1>3, <4>1, <4>2, OwnBatchAnswered
      <4> QED
        BY <2>2, <4>3, OwnBatchDone
    <3> QED
      BY <1>9, <3>1, <3>2
  <2> QED
    BY <2>1, <2>2, ShapeSettled DEF SettledShape
<1> QED
  BY <1>5, <1>6, <1>7, <1>8, <1>9

\* The decision on a card answers the batch: its call and, as not executed, the
\* calls after it.
LEMMA DecisionShape ==
  ASSUME ShapeInv, NEW id, NEW seen,
         \/ Approve(id, seen) \/ Reject(id, seen)
         \/ ApprovePlan(id, seen) \/ RejectPlan(id, seen)
  PROVE  SettledShape
<1>1. /\ TypeOK /\ CardShape /\ OneCard /\ PlanCard /\ conversation \in Seq(Message)
      /\ UNCHANGED phase /\ phase = "free"
  BY DEF ShapeInv, OneInv, TurnInv, TypeInv, Shape, Approve, Reject, ApprovePlan, RejectPlan,
         Answers, main, TypeOK
<1>2. ~DecisionPending'
  BY <1>1 DEF Approve, Reject, ApprovePlan, RejectPlan, Answers, OneCard, DecisionPending
<1>3. PICK p \in {pending_approval, pending_plan} \ {None} :
        \/ turn' = 0
        \/ FillAndContinue(Append(conversation, ToolMsg(p.call)))
        \/ /\ conversation' = Append(conversation, ToolMsg(p.call))
           /\ p.call.kind \in PlanKinds
  <2>1. CASE Approve(id, seen) \/ Reject(id, seen)
    <3>1. pending_approval \in {pending_approval, pending_plan} \ {None}
      BY <2>1 DEF Approve, Reject, Answers
    <3>2. \/ turn' = 0
          \/ FillAndContinue(Append(conversation, ToolMsg(pending_approval.call)))
      BY <2>1 DEF Approve, Reject, FailTurn
    <3> QED
      BY <3>1, <3>2
  <2>2. CASE ApprovePlan(id, seen) \/ RejectPlan(id, seen)
    <3>1. pending_plan \in {pending_approval, pending_plan} \ {None} /\ pending_plan.call.kind \in PlanKinds
      BY <1>1, <2>2 DEF ApprovePlan, RejectPlan, Answers, PlanCard
    <3>2. conversation' = Append(conversation, ToolMsg(pending_plan.call))
      BY <2>2 DEF ApprovePlan, RejectPlan
    <3> QED
      BY <3>1, <3>2
  <2> QED
    BY <2>1, <2>2
<1>4. PICK a \in Nat, rest \in Seq(CallsOfTurn(turn)) :
        rest # <<>> /\ Head(rest) = p.call /\ OwnBatch(conversation, a, rest)
  BY <1>1 DEF CardShape
<1> DEFINE answered == Append(conversation, ToolMsg(p.call))
<1>5. /\ OwnBatch(answered, a, Tail(rest)) /\ answered \in Seq(Message)
      /\ conversation[a].calls # <<>>
      /\ answered[a] = conversation[a]
  <2>1. OwnBatch(answered, a, Tail(rest)) /\ answered \in Seq(Message)
    BY <1>1, <1>4, OwnBatchAnswered
  <2>2. a \in 1..Len(conversation) /\ conversation[a].calls # <<>> /\ p.call \in Call
    BY <1>1, <1>4, OwnBatchTypes
  <2>3. ToolMsg(p.call) \in Message
    BY <2>2, MessagesTyped
  <2> QED
    BY <1>1, <2>1, <2>2, <2>3, AppendProperties
<1> HIDE DEF answered
<1>6. ASSUME PlansLast PROVE turn' = 0 \/ ValidSequence(conversation')
  <2>1. CASE FillAndContinue(answered)
    <3>1. PICK i : IsLastAsk(answered, i) /\ conversation' = FillFrom(answered, i)
      BY <2>1 DEF FillAndContinue
    <3>2. OwnBatch(conversation', a, <<>>) /\ conversation' \in Seq(Message)
      BY <1>5, <3>1, OwnBatchFilled
    <3> QED
      BY <1>6, <3>2, OwnBatchDone
  <2>2. CASE conversation' = answered /\ p.call.kind \in PlanKinds
    <3>1. Tail(rest) = <<>>
      BY <1>1, <1>4, <1>6, <2>2, OwnBatchDone
    <3> QED
      BY <1>5, <1>6, <2>2, <3>1, OwnBatchDone
  <2> QED
    BY <1>3, <2>1, <2>2 DEF answered
<1> QED
  BY <1>1, <1>2, <1>6 DEF SettledShape

\* A prompt that starts finds a conversation that validates, or makes it so.
LEMMA PromptShape ==
  ASSUME ShapeInv, TurnBegins, UNCHANGED gate, phase' # "tools"
  PROVE  SettledShape
<1>1. /\ turn = 0 /\ ~DecisionPending /\ conversation \in Seq(Message) /\ turn_counter \in Nat
      /\ active_start \in Nat \cup {NoStart} /\ PrefixValid
  BY NoCard DEF TurnBegins, ShapeInv, Shape, OneInv, TurnInv, TypeInv, TypeOK, TailInv
<1>2. PICK kept : kept \in Seq(Message) /\ ValidSequence(kept) /\ PromptFollows(kept)
  BY <1>1, DiscardTyped DEF TurnBegins, PrefixValid
<1>3. UserMsg(turn_counter + 1) \in Message
  BY <1>1, MessagesTyped
<1>4. ValidSequence(conversation')
  BY <1>2, <1>3, PlainAppend DEF PromptFollows, UserMsg
<1> QED
  BY <1>1, <1>4 DEF SettledShape, DecisionPending, gate

LEMMA NextKeepsShape == SteadyEnv /\ ShapeInv /\ [Next]_vars => Shape'
<1> SUFFICES ASSUME SteadyEnv, ShapeInv, [Next]_vars PROVE Shape'
  OBVIOUS
<1>0. KeptEnv /\ Shape /\ OneInv /\ CardShape
  BY DEF SteadyEnv, ShapeInv, Shape
<1>1. CASE SubmitPrompt \/ EndTick
  <2>1. \/ turn = 0 /\ StartPrompt /\ phase' = "free"
        \/ QuietShape
    BY <1>1 DEF SubmitPrompt, EndTick, CanPump, main, lifecycle, gate, QuietShape
  <2>2. ASSUME turn = 0, StartPrompt, phase' = "free" PROVE Shape'
    <3>1. UNCHANGED gate
      BY <2>2 DEF StartPrompt
    <3>2. CASE TurnBegins
      BY <2>2, <3>1, <3>2, PromptShape, ShapeSettled
    <3>3. CASE ConversationKept
      <4>1. ~DecisionPending /\ turn' = 0
        BY <1>0, <2>2, <3>3, NoCard DEF ConversationKept
      <4> QED
        BY <2>2, <3>1, <4>1, ShapeSettled DEF SettledShape, DecisionPending, gate
    <3> QED
      BY <1>0, <2>2, <3>2, <3>3, PromptMoves
  <2> QED
    BY <1>0, <2>1, <2>2, ShapeQuiet
<1>2. CASE CancelTurn
  BY <1>2, ShapeSettled DEF CancelTurn, SettledShape, DecisionPending, main
<1>3. CASE ClearHistory \/ LoadSession
  BY <1>0, <1>3 DEF ClearHistory, LoadSession, KeptEnv
<1>4. ASSUME NEW id, NEW seen,
             \/ Approve(id, seen) \/ Reject(id, seen)
             \/ ApprovePlan(id, seen) \/ RejectPlan(id, seen)
      PROVE  Shape'
  BY <1>4, DecisionShape, ShapeSettled
<1>5. CASE WorkerStep \/ UNCHANGED vars
  BY <1>0, <1>5, ShapeQuiet
  DEF WorkerStep, WorkerTake, WorkerReceive, WorkerPost, WorkerAbandon, vars, lifecycle, gate, main,
      QuietShape
<1>6. CASE BeginTick \/ DropStaleEvent \/ HandleDelta \/ IllegalTransition
  BY <1>0, <1>6, ShapeQuiet
  DEF BeginTick, DropStaleEvent, HandleDelta, IllegalTransition, Handling, lifecycle, gate, QuietShape
<1>7. CASE HandleError \/ HandleFinalReply
  <2>1. batch # <<>> /\ IsOutcome(Head(batch), turn) /\ UNCHANGED gate /\ turn' = 0 /\ phase' # "tools"
    BY <1>7 DEF HandleError, HandleFinalReply, Handling, IsOutcome
  <2>2. ~DecisionPending'
    BY <1>0, <2>1, NoCard DEF DecisionPending, gate
  <2> QED
    BY <2>1, <2>2, ShapeSettled DEF SettledShape
<1>8. CASE HandleToolReply
  BY <1>8, EnterShape
<1>9. CASE RunCall \/ AskUser \/ ReviewPlan \/ RefusePlan \/ AutoApprovePlan \/ FinishLoop
  BY <1>9, LoopShapes
<1> QED
  BY <1>1, <1>2, <1>3, <1>4, <1>5, <1>6, <1>7, <1>8, <1>9 DEF Next, User, Timer

-----------------------------------------------------------------------------
(* The requests, and the answers to the cards *)

\* A step leaves the tasks, takes the first one, or adds the request for a
\* conversation that validates.
TaskMoves ==
  \/ UNCHANGED task_queue
  \/ task_queue # <<>> /\ task_queue' = Tail(task_queue)
  \/ task_queue' = Append(task_queue, [turn |-> turn', valid |-> ValidSequence(conversation')])
       /\ (PlansLast => ValidSequence(conversation'))

LEMMA TasksStep == TypeOK /\ TypeOK' /\ TasksValid /\ TaskMoves => TasksValid'
<1> SUFFICES ASSUME TypeOK, TasksValid, TaskMoves, PlansLast, NEW n \in DOMAIN task_queue', TypeOK'
             PROVE  task_queue'[n].valid
  BY DEF TasksValid
<1>1. /\ task_queue \in Seq(Task) /\ DOMAIN task_queue = 1..Len(task_queue) /\ Len(task_queue) \in Nat
      /\ task_queue' \in Seq(Task) /\ DOMAIN task_queue' = 1..Len(task_queue')
  BY LenProperties DEF TypeOK
<1>2. CASE UNCHANGED task_queue
  BY <1>2 DEF TasksValid
<1>3. CASE task_queue # <<>> /\ task_queue' = Tail(task_queue)
  <2>1. n + 1 \in DOMAIN task_queue /\ task_queue'[n] = task_queue[n + 1]
    BY <1>1, <1>3, HeadTailProperties
  <2> QED
    BY <2>1 DEF TasksValid
<1>4. ASSUME ValidSequence(conversation'),
             task_queue' = Append(task_queue, [turn |-> turn', valid |-> ValidSequence(conversation')])
      PROVE  task_queue'[n].valid
  <2> DEFINE x == [turn |-> turn', valid |-> ValidSequence(conversation')]
  <2>1. x.valid
    BY <1>4
  <2>2. task_queue' = Append(task_queue, x)
    BY <1>4
  <2> HIDE DEF x
  <2>3. (n \in DOMAIN task_queue /\ task_queue'[n] = task_queue[n]) \/ task_queue'[n] = x
    BY <1>1, <2>2
  <2> QED
    BY <2>1, <2>3 DEF TasksValid
<1> QED
  BY <1>2, <1>3, <1>4 DEF TaskMoves

\* The requests that are sent without a lost image.
LEMMA RequestMoves ==
  ASSUME SteadyEnv, PlansLast => turn' = 0 \/ ValidSequence(conversation')
  PROVE  /\ FailTurn => TaskMoves
         /\ turn # 0 /\ SendRequest(conversation') => TaskMoves
<1>1. FailTurn => TaskMoves
  BY DEF FailTurn, TaskMoves
<1>2. turn # 0 /\ SendRequest(conversation') => TaskMoves
  BY DEF SendRequest, SteadyEnv, CalmEnv, TaskMoves
<1> QED
  BY <1>1, <1>2

LEMMA NextMovesTasks == SteadyEnv /\ ShapeInv /\ ShapeInv' /\ [Next]_vars => TaskMoves
<1> SUFFICES ASSUME SteadyEnv, ShapeInv, ShapeInv', [Next]_vars PROVE TaskMoves
  OBVIOUS
<1>0. KeptEnv /\ TypeOK /\ Shape' /\ TypeInv /\ turn_counter \in Nat
  BY DEF SteadyEnv, ShapeInv, OneInv, TurnInv, TypeInv, TypeOK
<1>1. CASE SubmitPrompt \/ EndTick
  <2>1. (turn = 0 /\ StartPrompt /\ UNCHANGED gate /\ phase' # "tools") \/ UNCHANGED task_queue
    BY <1>1 DEF SubmitPrompt, EndTick, CanPump, StartPrompt, main
  <2>2. ASSUME turn = 0, StartPrompt, UNCHANGED gate, phase' # "tools" PROVE TaskMoves
    <3>1. CASE UNCHANGED task_queue
      BY <3>1 DEF TaskMoves
    <3>2. CASE ~UNCHANGED task_queue
      <4>1. task_queue' = Append(task_queue, [turn |-> turn', valid |-> ValidSequence(conversation')])
            /\ turn' = turn_counter + 1
        BY <2>2, <3>2 DEF StartPrompt, SteadyEnv, CalmEnv
      <4>2. TurnBegins
        BY <1>0, <2>2, <4>1, PromptMoves DEF ConversationKept
      <4>3. PlansLast => ValidSequence(conversation')
        BY <1>0, <2>2, <4>1, <4>2, PromptShape DEF SettledShape
      <4> QED
        BY <4>1, <4>3 DEF TaskMoves
    <3> QED
      BY <3>1, <3>2
  <2> QED
    BY <2>1, <2>2 DEF TaskMoves
<1>2. CASE CancelTurn \/ ClearHistory \/ LoadSession \/ UNCHANGED vars
  BY <1>2 DEF CancelTurn, ClearHistory, LoadSession, vars, TaskMoves
<1>3. ASSUME NEW id, NEW seen,
             \/ Approve(id, seen) \/ Reject(id, seen)
             \/ ApprovePlan(id, seen) \/ RejectPlan(id, seen)
      PROVE  TaskMoves
  <2>1. PlansLast => turn' = 0 \/ ValidSequence(conversation')
    BY <1>3, DecisionShape DEF SettledShape
  <2>2. turn # 0 /\ (FailTurn \/ SendRequest(conversation'))
    BY <1>0, <1>3 DEF Approve, Reject, ApprovePlan, RejectPlan, FillAndContinue, Answers, TypeOK,
                      Pending, Ids
  <2> QED
    BY <2>1, <2>2, RequestMoves
<1>4. CASE WorkerStep
  BY <1>4 DEF WorkerStep, WorkerTake, WorkerReceive, WorkerPost, WorkerAbandon, TaskMoves
<1>5. CASE \/ BeginTick \/ DropStaleEvent \/ HandleDelta \/ IllegalTransition \/ HandleError
           \/ HandleFinalReply \/ HandleToolReply \/ RunCall \/ AskUser \/ ReviewPlan \/ RefusePlan
  BY <1>5 DEF BeginTick, DropStaleEvent, HandleDelta, IllegalTransition, HandleError,
              HandleFinalReply, HandleToolReply, RunCall, AskUser, ReviewPlan, RefusePlan, FailTurn,
              TaskMoves
<1>6. CASE AutoApprovePlan \/ FinishLoop
  <2>1. /\ phase = "tools" /\ phase' # "tools" /\ SendRequest(conversation') /\ turn # 0
    BY <1>0, <1>6 DEF AutoApprovePlan, FinishLoop, LeaveLoop, TypeInv
  <2>2. ~DecisionPending'
    <3>1. ~DecisionPending
      BY <2>1, NoCard DEF ShapeInv, Shape
    <3> QED
      BY <1>6, <3>1 DEF AutoApprovePlan, FinishLoop, gate, DecisionPending
  <2>3. PlansLast => turn' = 0 \/ ValidSequence(conversation')
    BY <1>0, <2>1, <2>2 DEF Shape, Settled
  <2> QED
    BY <2>1, <2>3, RequestMoves
<1> QED
  BY <1>1, <1>2, <1>3, <1>4, <1>5, <1>6 DEF Next, User, Timer

LEMMA ShapeInit == Init => ShapeInv
<1> SUFFICES ASSUME Init PROVE ShapeInv
  OBVIOUS
<1>1. OneInv /\ TailInv
  BY OneInit, TailInit
<1>2. Shape
  BY DEF Init, Shape, LoopShape, CardShape, OneCard, PlanCard, Settled
<1> QED
  BY <1>1, <1>2 DEF ShapeInv

LEMMA ShapeNext == SteadyEnv /\ ShapeInv /\ [Next]_vars => ShapeInv'
BY OneNext, TailNext, NextKeepsShape DEF SteadyEnv, ShapeInv

\* Every request satisfies the tool-call protocol (Conversation.validate_sequence):
\* the loop, a decision and the fill of what never ran answer every call of a
\* reply before the model is asked again.  The calls after a plan are the
\* exception, so plans come last.
THEOREM RequestsAreWellFormed == SteadyEnv /\ PlansLast => (Spec => []RequestsWellFormed)
<1> SUFFICES ASSUME SteadyEnv, PlansLast PROVE Spec => []RequestsWellFormed
  OBVIOUS
<1>1. Init => ShapeInv /\ TasksValid
  <2>1. Init => TasksValid
    BY DEF Init, TasksValid
  <2> QED
    BY <2>1, ShapeInit
<1>2. ShapeInv /\ TasksValid /\ [Next]_vars => (ShapeInv /\ TasksValid)'
  <2> SUFFICES ASSUME ShapeInv, TasksValid, [Next]_vars PROVE (ShapeInv /\ TasksValid)'
    OBVIOUS
  <2>1. ShapeInv'
    BY ShapeNext
  <2>2. TaskMoves
    BY <2>1, NextMovesTasks
  <2>3. TypeOK /\ TypeOK'
    BY <2>1 DEF ShapeInv, OneInv, TurnInv, TypeInv
  <2> QED
    BY <2>1, <2>2, <2>3, TasksStep
<1>3. ShapeInv /\ TasksValid => RequestsWellFormed
  BY DEF TasksValid, RequestsWellFormed
<1> QED
  BY <1>1, <1>2, <1>3, PTL DEF Spec

-----------------------------------------------------------------------------
(* The answers to the cards *)

Decided == consumed_tokens \cup approved \cup rejected

\* A step takes no decision and shows no card; or a decision is taken and no card
\* is left; or the first card is shown, under a new id.
CardsKept ==
  /\ UNCHANGED <<cards, consumed_tokens, approved, rejected>>
  /\ pending_approval' \in {pending_approval, None}
  /\ pending_plan' \in {pending_plan, None}
CardDecided ==
  /\ ~DecisionPending'
  /\ DOMAIN cards \subseteq DOMAIN cards'
  /\ Decided' \subseteq Decided \cup DOMAIN cards'
CardAsked ==
  \E c : /\ cards' = Append(cards, c)
         /\ UNCHANGED <<consumed_tokens, approved, rejected>>
         /\ {pending_approval', pending_plan'} \subseteq {None, Decision(c)}
CardMoves == CardsKept \/ CardDecided \/ CardAsked

LEMMA FreshStep ==
  ASSUME TypeOK, CardsFresh, CardMoves
  PROVE  CardsFresh'
<1>1. CASE CardsKept
  BY <1>1 DEF CardsKept, CardsFresh
<1>2. CASE CardDecided
  BY <1>2 DEF CardDecided, CardsFresh, Decided, DecisionPending
<1>3. CASE CardAsked
  <2>1. PICK c : /\ cards' = Append(cards, c)
                 /\ UNCHANGED <<consumed_tokens, approved, rejected>>
                 /\ {pending_approval', pending_plan'} \subseteq {None, Decision(c)}
    BY <1>3 DEF CardAsked
  <2>2. /\ cards \in Seq(Call) /\ Len(cards) \in Nat /\ DOMAIN cards = 1..Len(cards)
    BY LenProperties DEF TypeOK
  <2>3. DOMAIN cards' = 1..(Len(cards) + 1)
    BY <2>1, <2>2
  <2>4. Len(cards) + 1 \in DOMAIN cards' /\ Len(cards) + 1 \notin DOMAIN cards
        /\ DOMAIN cards \subseteq DOMAIN cards'
    BY <2>2, <2>3
  <2>5. Decision(c).id = Len(cards) + 1
    BY DEF Decision
  <2> QED
    BY <2>1, <2>4, <2>5 DEF CardsFresh
<1> QED
  BY <1>1, <1>2, <1>3 DEF CardMoves

LEMMA NextMovesCards == SteadyEnv /\ ShapeInv /\ [Next]_vars => CardMoves
<1> SUFFICES ASSUME SteadyEnv, ShapeInv, [Next]_vars PROVE CardMoves
  OBVIOUS
<1>0. TypeOK /\ OneInv /\ CardShape /\ cards \in Seq(Call) /\ DOMAIN cards = 1..Len(cards)
  BY LenProperties DEF ShapeInv, OneInv, TurnInv, TypeInv, Shape, TypeOK
<1>1. CASE SubmitPrompt \/ EndTick
  <2>1. StartPrompt \/ UNCHANGED <<gate, history>>
    BY <1>1 DEF SubmitPrompt, EndTick
  <2> QED
    BY <2>1 DEF StartPrompt, gate, history, CardMoves, CardsKept
<1>2. CASE CancelTurn \/ ClearHistory \/ LoadSession \/ WorkerStep \/ UNCHANGED vars
  BY <1>2 DEF CancelTurn, ClearHistory, LoadSession, WorkerStep, WorkerTake, WorkerReceive,
              WorkerPost, WorkerAbandon, vars, gate, history, CardMoves, CardsKept
<1>3. ASSUME NEW seen \in 1..Len(cards), NEW id \in 1..Len(cards),
             \/ Approve(id, seen) \/ Reject(id, seen)
             \/ ApprovePlan(id, seen) \/ RejectPlan(id, seen)
      PROVE  CardMoves
  <2>1. ~DecisionPending'
    BY <1>3, DecisionShape DEF SettledShape
  <2>2. UNCHANGED cards /\ Decided' \subseteq Decided \cup {id, seen}
    BY <1>3 DEF Approve, Reject, ApprovePlan, RejectPlan, ExecutePlan, Decided
  <2> QED
    BY <1>0, <2>1, <2>2 DEF CardMoves, CardDecided
<1>4. CASE \/ BeginTick \/ DropStaleEvent \/ HandleDelta \/ IllegalTransition \/ HandleError
           \/ HandleFinalReply \/ HandleToolReply \/ RunCall \/ RefusePlan \/ FinishLoop
  BY <1>4 DEF BeginTick, DropStaleEvent, HandleDelta, IllegalTransition, HandleError,
              HandleFinalReply, HandleToolReply, RunCall, RefusePlan, FinishLoop, gate, history,
              CardMoves, CardsKept
<1>5. CASE AskUser \/ ReviewPlan \/ AutoApprovePlan
  <2>1. phase = "tools" /\ pending_approval = None /\ pending_plan = None
    BY <1>0, <1>5, NoCard DEF AskUser, ReviewPlan, AutoApprovePlan, DecisionPending
  <2>2. CASE AskUser \/ ReviewPlan
    BY <2>1, <2>2 DEF AskUser, ReviewPlan, ShowCard, CardMoves, CardAsked
  <2>3. CASE AutoApprovePlan
    <3>1. /\ cards' = Append(cards, Head(calls)) /\ UNCHANGED <<pending_approval, approved, rejected>>
          /\ pending_plan' = None /\ consumed_tokens' = consumed_tokens \cup {Len(cards) + 1}
      BY <2>3 DEF AutoApprovePlan, ExecutePlan
    <3>2. DOMAIN cards' = 1..(Len(cards) + 1) /\ Len(cards) \in Nat
      BY <1>0, <3>1
    <3> QED
      BY <1>0, <2>1, <3>1, <3>2 DEF CardMoves, CardDecided, Decided, DecisionPending
  <2> QED
    BY <1>5, <2>2, <2>3
<1> QED
  BY <1>1, <1>2, <1>3, <1>4, <1>5 DEF Next, User, Timer

\* A card on the screen can be answered: it is of the active turn, its id was never
\* used, and the call it shows is still open in the conversation.
THEOREM DecisionsAreAnswerable == SteadyEnv => (Spec => []DecisionAnswerable)
<1> SUFFICES ASSUME SteadyEnv PROVE Spec => []DecisionAnswerable
  OBVIOUS
<1>1. Init => ShapeInv /\ CardsFresh
  BY ShapeInit DEF Init, CardsFresh
<1>2. ShapeInv /\ CardsFresh /\ [Next]_vars => (ShapeInv /\ CardsFresh)'
  BY ShapeNext, NextMovesCards, FreshStep DEF ShapeInv, OneInv, TurnInv, TypeInv
<1>3. ShapeInv /\ CardsFresh => DecisionAnswerable
  <2> SUFFICES ASSUME ShapeInv, CardsFresh, NEW p \in {pending_approval, pending_plan} \ {None}
               PROVE  /\ state = "PENDING_APPROVAL" /\ p.turn = turn /\ turn \notin cancelled
                      /\ p.id \notin consumed_tokens \cup approved \cup rejected
                      /\ p.call \in OpenCalls(conversation, Len(conversation) + 1)
    BY DEF DecisionAnswerable
  <2>1. /\ state = "PENDING_APPROVAL" /\ p.turn = turn /\ turn \notin cancelled
        /\ p.id \notin consumed_tokens \cup approved \cup rejected
    BY DEF ShapeInv, Shape, CardShape, CardsFresh, OneInv, TurnInv, ActiveTurn
  <2>2. PICK a \in Nat, rest \in Seq(CallsOfTurn(turn)) :
          rest # <<>> /\ Head(rest) = p.call /\ OwnBatch(conversation, a, rest)
    BY DEF ShapeInv, Shape, CardShape
  <2>3. p.call \in OpenCalls(conversation, Len(conversation) + 1)
    <3>1. conversation \in Seq(Message)
      BY DEF ShapeInv, OneInv, TurnInv, TypeInv, TypeOK
    <3>2. rest \in Seq(Call) /\ Batch(conversation, a, rest)
      BY <2>2, <3>1, OwnBatchTypes
    <3>3. 1 \in DOMAIN rest /\ rest[1] = p.call
      BY <2>2, <3>2, LenProperties, EmptySeq
    <3> QED
      BY <3>1, <3>2, <3>3, BatchIsOpen DEF Elements
  <2> QED
    BY <2>1, <2>3
<1> QED
  BY <1>1, <1>2, <1>3, PTL DEF Spec

=============================================================================
