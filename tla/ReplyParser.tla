----------------------------- MODULE ReplyParser -----------------------------
(***************************************************************************)
(* SSEParser and ToolCallAccumulator: how the bytes of a streamed reply    *)
(* become payloads, and the fragments in them tool calls.                  *)
(*                                                                         *)
(* A character is a name: "data:" and ":" begin a line of data and a       *)
(* comment, "cr" and "lf" end a line, the others are what a payload is     *)
(* made of.  A byte is a whole character, <<c, 0>>, or one of the two      *)
(* halves of one, <<c, 1>> and <<c, 2>>.                                   *)
(***************************************************************************)
EXTENDS Naturals, Sequences, SequencesExt

CONSTANTS
  None,
  MaxEvent,    \* SSEParser.max_event_size, in characters
  Meaning,     \* what a payload says, for each payload that is JSON
  Loads(_)     \* whether lenient_json_loads reads an "object" from a text, something else or nothing

Fresh == [pend |-> None, buffer |-> <<>>, data |-> <<>>]

\* The incremental UTF-8 decoder: half a character waits for the other half.
DecodeByte(d, b) ==
  [text |-> IF b[2] = 1 THEN d.text ELSE Append(d.text, b[1]),
   pend |-> IF b[2] = 1 THEN b[1] ELSE None,
   ok   |-> IF d.pend = (IF b[2] = 2 THEN b[1] ELSE None) THEN d.ok ELSE FALSE]

Decoded(pend, chunk) ==
  LET run[i \in 0..Len(chunk)] ==
        IF i = 0 THEN [text |-> <<>>, pend |-> pend, ok |-> TRUE] ELSE DecodeByte(run[i - 1], chunk[i])
  IN  run[Len(chunk)]

\* CR LF, CR and LF all end a line: the lines that are complete and the one that is not.
SplitChar(l, c) ==
  IF c = "lf" /\ l.last = "cr" THEN [done |-> l.done, line |-> l.line, last |-> c]
  ELSE IF c \in {"cr", "lf"} THEN [done |-> Append(l.done, l.line), line |-> <<>>, last |-> c]
  ELSE [done |-> l.done, line |-> Append(l.line, c), last |-> c]

Split(text) ==
  LET run[i \in 0..Len(text)] ==
        IF i = 0 THEN [done |-> <<>>, line |-> <<>>, last |-> "lf"] ELSE SplitChar(run[i - 1], text[i])
  IN  run[Len(text)]

\* _process_lines: an empty line ends an event; comments and fields other than data are ignored.
ProcessLine(h, line) ==
  LET data == Append(h.data, Tail(line))
  IN  IF line = <<>>
      THEN [events |-> IF h.data = <<>> THEN h.events ELSE Append(h.events, FlattenSeq(h.data)), data |-> <<>>, ok |-> h.ok]
      ELSE IF line[1] # "data:" THEN h
      ELSE [events |-> h.events, data |-> data, ok |-> IF Len(FlattenSeq(data)) <= MaxEvent THEN h.ok ELSE FALSE]

Processed(data, lines) ==
  LET run[i \in 0..Len(lines)] ==
        IF i = 0 THEN [events |-> <<>>, data |-> data, ok |-> TRUE] ELSE ProcessLine(run[i - 1], lines[i])
  IN  run[Len(lines)]

\* Mutant of Waiting: a CR at the end of what came ends its line at once.
Waiting_Nothing(text) == <<>>

\* _extract_lines keeps a CR at the end, as the LF may come with the next chunk.
Waiting(text) == IF text # <<>> /\ Last(text) = "cr" THEN <<"cr">> ELSE <<>>

\* _extract_lines, after the check of the buffer's size.
Extracted(text) ==
  LET cut == Split(SubSeq(text, 1, Len(text) - Len(Waiting(text))))
  IN  [lines |-> cut.done, rest |-> cut.line \o Waiting(text), ok |-> Len(text) <= MaxEvent]

\* close: whether the stream may end here.  What it returns is looked at for usage only.
Closes(parser) ==
  LET cut == Split(parser.buffer)
  IN  parser.pend = None /\ Processed(parser.data, Append(cut.done, cut.line)).ok

-----------------------------------------------------------------------------
\* feed_delta: an id that differs from the one so far continues it.
Joined(entry, delta) ==
  [id   |-> IF entry.id = delta.id THEN entry.id ELSE entry.id \o delta.id,
   name |-> entry.name \o delta.name,
   args |-> entry.args \o delta.args]

FeedDelta(acc, delta) ==
  LET entry == IF delta.idx \in DOMAIN acc THEN acc[delta.idx]
               ELSE [id |-> <<>>, name |-> <<>>, args |-> <<>>]
  IN  [i \in DOMAIN acc \cup {delta.idx} |-> IF i = delta.idx THEN Joined(entry, delta) ELSE acc[i]]

\* finalize raises at the first call that is not complete.
Finalizes(acc) ==
  \A i \in DOMAIN acc :
    /\ acc[i].id # <<>> /\ acc[i].name # <<>>
    /\ acc[i].args = <<>> \/ Loads(acc[i].args) = "object"

Finalized(acc) ==
  LET order == SetToSortSeq(DOMAIN acc, LAMBDA i, j : i < j)
  IN  [k \in DOMAIN order |-> acc[order[k]]]
=============================================================================
