-------------------------- MODULE MCProviderStream --------------------------
(* The payloads and the replies of the runs of ProviderStream. *)
EXTENDS SoundReplies, TLC

Delta(idx, id, name, args) == [idx |-> idx, id |-> id, name |-> name, args |-> args]
Chunk(text, deltas) == [kind |-> "chunk", text |-> text, deltas |-> deltas]
Only(kind) == [kind |-> kind, text |-> <<>>, deltas |-> <<>>]

\* Two pieces of text; a call in three fragments, one whose id and name come in two, one in a
\* single payload, fragments that miss something, and payloads with nothing to read.
Named ==
  [t1 |-> Chunk(<<"Let">>, <<>>), t2 |-> Chunk(<<"me">>, <<>>), role |-> Chunk(<<>>, <<>>),
   a1 |-> Chunk(<<>>, <<Delta(0, <<"call_a">>, <<"move">>, <<>>)>>),
   a2 |-> Chunk(<<>>, <<Delta(0, <<>>, <<>>, <<"{x:">>)>>),
   a3 |-> Chunk(<<>>, <<Delta(0, <<"call_a">>, <<>>, <<"1}">>)>>),
   b1 |-> Chunk(<<>>, <<Delta(1, <<"call">>, <<"de">>, <<>>)>>),
   b2 |-> Chunk(<<>>, <<Delta(1, <<"_b">>, <<"lete">>, <<>>)>>),
   c1 |-> Chunk(<<"Done">>, <<Delta(0, <<"call_c">>, <<"look">>, <<"{}">>)>>),
   noid |-> Chunk(<<>>, <<Delta(1, <<>>, <<"look">>, <<>>)>>),
   list |-> Chunk(<<>>, <<Delta(1, <<"call_l">>, <<"look">>, <<"[]">>)>>),
   stop |-> Only("stop"), error |-> Only("error"), odd |-> Only("odd")]

MCMeaning == [p \in {<<x>> : x \in DOMAIN Named} |-> Named[p[1]]] @@ (<<"m1", "m2">> :> Named.t1)
MCLoads(args) == CASE args \in {<<"{x:", "1}">>, <<"{x:">>, <<"{}">>} -> "object" [] args = <<"[]">> -> "other" [] OTHER -> "none"

CallA == [id |-> <<"call_a">>, name |-> <<"move">>, args |-> <<"{x:", "1}">>]
CallB == [id |-> <<"call", "_b">>, name |-> <<"de", "lete">>, args |-> <<>>]
CallC == [id |-> <<"call_c">>, name |-> <<"look">>, args |-> <<"{}">>]

\* A character of one byte and one of two.
Short(c) == <<<<c, 0>>>>
Long(c)  == <<<<c, 1>>, <<c, 2>>>>

Text(chars) == FlattenSeq([i \in DOMAIN chars |-> IF chars[i] \in {"t1", "m2"} THEN Long(chars[i]) ELSE Short(chars[i])])
Line(chars, eol) == Short("data:") \o Text(chars) \o eol
\* m1 stands for a payload in two lines of data.
Event(x, eol) == (IF x = "m1" THEN Line(<<"m1">>, eol) \o Line(<<"m2">>, eol) ELSE Line(<<x>>, eol)) \o eol
Wire(names, eol) == FlattenSeq([i \in DOMAIN names |-> Event(names[i], eol)])

Lf   == Short("lf")
Cr   == Short("cr")
CrLf == Cr \o Lf

Reply(kind, text, calls, sound, wire) == [kind |-> kind, text |-> text, calls |-> calls, sound |-> sound, wire |-> wire]

\* The fragments of two calls mixed, and the second call first.
TwoCalls == {<<"a1", "b1", "a2", "t1", "b2", "a3">>, <<"b1", "a1", "b2", "a2", "a3", "t1">>}

Sound ==
  {Reply("openai", <<"Let">>, <<CallA, CallB>>, TRUE, Wire(Append(o, "[DONE]"), Lf)) : o \in TwoCalls}
  \cup {Reply("openai", <<"Let", "me">>, <<>>, TRUE, Short(":") \o eol \o eol \o Wire(<<"m1", "t2", "role">>, eol)) : eol \in {Lf, CrLf, Cr}}
  \cup {Reply("anthropic", <<"Let">>, <<CallA>>, TRUE, Wire(<<"t1", "a1", "a2", "a3", "stop", "t2">>, CrLf))}

Unsound ==
  {Reply("openai", <<>>, <<>>, FALSE, w) :
     w \in {Wire(<<"t1", "???", "t2">>, Lf), Wire(<<"odd", "t2">>, Lf), Wire(<<"a1", "noid">>, CrLf), Wire(<<"list">>, Lf),
            Wire(<<"t2">>, Lf) \o SubSeq(Long("t1"), 1, 1), SubSeq(Long("t1"), 2, 2),
            FlattenSeq([i \in 1..2 |-> Line(<<"x", "x", "x", "x", "x">>, Lf)])}}

Later ==
  {Reply(kind, <<"Done">>, <<CallC>>, TRUE, Wire(<<"c1">>, Lf)) : kind \in Http}

Agy ==
  {Reply(Cli, <<"Done">>, <<CallC>>, TRUE, <<>>), Reply(Cli, <<>>, <<>>, FALSE, <<>>)}

MCReplies(request) == (IF request = 1 THEN Sound \cup Unsound ELSE Later) \cup Agy

\* A reply that the server takes back.
BrokenReplies(request) == {Reply("openai", <<"Let">>, <<CallA>>, TRUE, Wire(<<"t1", "a1", "a2", "error">>, Lf))}
=============================================================================
