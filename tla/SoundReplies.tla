---------------------------- MODULE SoundReplies ----------------------------
(***************************************************************************)
(* What it means that a reply over HTTP is sound and says a text and some  *)
(* calls: what comes out when as much of it as has come is parsed at once, *)
(* by a new parser, from its first byte.  Nothing is said of how the bytes *)
(* are cut into reads; that this makes no difference is for the proof.     *)
(***************************************************************************)
EXTENDS ProviderStream

\* The first n bytes, given to a new parser in one piece.
Parsed(bytes) ==
  LET d     == Decoded(None, bytes)
      cut   == Extracted(d.text)
      heard == Processed(<<>>, cut.lines)
  IN  [parser |-> [pend |-> d.pend, buffer |-> cut.rest, data |-> heard.data],
       events |-> heard.events,
       ok     |-> d.ok /\ heard.ok]

Part(reply, n) == Parsed(SubSeq(reply.wire, 1, n))

\* The text and the fragments of calls in the first k payloads.
Gather(all, p) ==
  [text |-> all.text \o Meaning[p].text, acc |-> FoldLeft(FeedDelta, all.acc, Meaning[p].deltas)]

Gathered(payloads, k) ==
  LET run[i \in 0..k] ==
        IF i = 0 THEN [text |-> <<>>, acc |-> <<>>] ELSE Gather(run[i - 1], payloads[i])
  IN  run[k]

\* The stream goes on after such a payload, and the server does not say in it that it failed.
Goes(kind, p) == p \in DOMAIN Meaning /\ ~Odd(p) /\ ~Ends(kind, p) /\ p \notin Sorry

Reaches(kind, payloads, k) == \A i \in 1..k : Goes(kind, payloads[i])

\* The stream ends when n bytes were read and k payloads handled: nothing more comes, or the
\* next payload is the last.
EndsAt(reply, n, k) ==
  LET payloads == Part(reply, n).events
  IN  /\ Part(reply, n).ok /\ Reaches(reply.kind, payloads, k)
      /\ \/ n = Len(reply.wire) /\ k = Len(payloads)
         \/ k < Len(payloads) /\ Ends(reply.kind, payloads[k + 1])

Completes(reply, n, k) ==
  /\ reply.kind = "openai" => Closes(Part(reply, n).parser)
  /\ Finalizes(Gathered(Part(reply, n).events, k).acc)

Says(reply, n, k) ==
  LET all == Gathered(Part(reply, n).events, k)
  IN  all.text = reply.text /\ Finalized(all.acc) = reply.calls

\* A byte is a character or a half of one.
Chars(reply) == {reply.wire[i][1] : i \in DOMAIN reply.wire}

\* No read takes the buffer over its limit.
Fits(reply) ==
  \A n \in 0..Len(reply.wire), size \in ReadSizes :
    n + size <= Len(reply.wire) =>
      LET parser == Part(reply, n).parser
      IN  Extracted(parser.buffer \o Decoded(parser.pend, SubSeq(reply.wire, n + 1, n + size)).text).ok

\* The payloads up to the last one are JSON objects.
Readable(reply) ==
  LET payloads == Part(reply, Len(reply.wire)).events
  IN  \A k \in 1..Len(payloads) :
        Reaches(reply.kind, payloads, k - 1) =>
          Ends(reply.kind, payloads[k]) \/ (payloads[k] \in DOMAIN Meaning /\ ~Odd(payloads[k]))

\* A sound reply is whole, fits and can be read, and wherever it ends it is complete and says what
\* it is to say; an unsound one is nowhere complete.
ASSUME RepliesAssumption ==
  \A r \in 1..MaxRequests : \A reply \in Replies(r) : reply.kind \in Http =>
    /\ reply.wire \in Seq(Chars(reply) \X {0, 1, 2})
    /\ reply.sound => Part(reply, Len(reply.wire)).ok /\ Fits(reply) /\ Readable(reply)
    /\ \A n \in 0..Len(reply.wire) : \A k \in 0..Len(Part(reply, n).events) : EndsAt(reply, n, k) =>
         IF reply.sound THEN Completes(reply, n, k) /\ Says(reply, n, k) ELSE ~Completes(reply, n, k)
=============================================================================
