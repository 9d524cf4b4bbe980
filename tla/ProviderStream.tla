--------------------------- MODULE ProviderStream ---------------------------
(***************************************************************************)
(* One reply of the model, from the bytes on the wire to the events that   *)
(* AgentWorker posts, through OpenAICompatibleProvider,                    *)
(* AnthropicCompatibleProvider or AgyCliProvider, while the user on the    *)
(* main thread cancels, replaces the provider or closes the add-on.        *)
(*                                                                         *)
(* A request is one WorkerTask.  The tool rounds of a turn share its       *)
(* cancel event; here each request has its own.                            *)
(***************************************************************************)
EXTENDS ReplyParser, FiniteSets

CONSTANTS
  Replies(_),   \* what may be answered to a request: its text, its calls, whether it is sound, its bytes
  ReadSizes,    \* how many bytes one read of the response may return
  MaxRequests,  \* bound: requests in a behaviour
  MaxSwaps      \* bound: times the provider is replaced

ASSUME StreamAssumption ==
  /\ ReadSizes \subseteq Nat \ {0} /\ MaxRequests \in Nat /\ MaxSwaps \in Nat

VARIABLES
  requests,    \* how many tasks were submitted
  tasks,       \* AgentWorker._task_queue
  cancelled,   \* the requests whose cancel event is set
  stopped,     \* AgentWorker._stop_event
  providers,   \* the provider objects made so far; the last one is worker.provider
  worker,      \* where _run_loop is: its request, the provider that streams, streamed_text
  stream,      \* the HTTP response: the bytes to come, the parser, the payloads to handle
  events,      \* history: everything that was posted to the event queue
  served,      \* history: the reply to each request, once the server gives one
  broken,      \* history: requests whose connection or process ended before the reply did
  swapped      \* history: requests during which the provider was replaced

vars == <<requests, tasks, cancelled, stopped, providers, worker, stream, events, served, broken, swapped>>
main    == <<requests, tasks, cancelled, stopped>>
history == <<served, broken, swapped>>

-----------------------------------------------------------------------------
Http == {"openai", "anthropic"}   \* the kinds of provider that stream over HTTP
Cli  == "agy"                     \* the kind that drives the agy process

NoProcess == [open |-> FALSE, alive |-> FALSE, ready |-> FALSE, say |-> <<>>, out |-> <<>>]
Provider(kind) == [kind |-> kind, acc |-> <<>>, calls |-> <<>>, cli |-> NoProcess]

Idle     == [at |-> "idle", request |-> 0, by |-> 0, text |-> <<>>, wrote |-> FALSE]
NoStream == [wire |-> <<>>, parser |-> Fresh, todo |-> <<>>]

Init ==
  /\ requests = 0 /\ tasks = <<>> /\ cancelled = {} /\ stopped = FALSE
  /\ \E kind \in Http \cup {Cli} : providers = <<Provider(kind)>>
  /\ worker = Idle /\ stream = NoStream
  /\ events = <<>> /\ served = <<>> /\ broken = {} /\ swapped = {}

Busy(r)   == worker.at \notin {"idle", "ended"} /\ worker.request = r
Current   == providers[Len(providers)]
Mine      == providers[worker.by]
Stopped   == worker.request \in cancelled
Answer(kind, text, calls) == [request |-> worker.request, kind |-> kind, text |-> text, calls |-> calls]

\* A process that is killed says nothing more; its reader thread then sees the end of the pipe.
Closed(cli) ==
  [cli EXCEPT !.open = FALSE, !.ready = FALSE, !.alive = FALSE,
              !.say = IF cli.alive THEN <<[kind |-> "eof", request |-> 0]>> ELSE @]

-----------------------------------------------------------------------------
(* The main thread *)

Over(r) == r \in cancelled \/ \E i \in DOMAIN events : events[i].request = r /\ events[i].kind \in {"ready", "error"}

\* submit_task: the runtime has one request at a time.
Submit ==
  /\ ~stopped /\ requests < MaxRequests
  /\ requests = 0 \/ Over(requests)
  /\ requests' = requests + 1
  /\ tasks' = Append(tasks, requests')
  /\ UNCHANGED <<cancelled, stopped, providers, worker, stream, events, history>>

Cancel ==
  /\ requests # 0 /\ ~Over(requests)
  /\ cancelled' = cancelled \cup {requests}
  /\ UNCHANGED <<requests, tasks, stopped, providers, worker, stream, events, history>>

\* Nobody but the worker, if it streams, has a provider that was replaced.
Retired(provider) ==
  IF worker.at # "idle" THEN [provider EXCEPT !.cli = Closed(@)] ELSE Provider(provider.kind)

\* update_runtime_config with another kind of provider.
SwapProvider(kind) ==
  /\ ~stopped /\ Len(providers) <= MaxSwaps /\ kind # Current.kind
  /\ providers' = Append([providers EXCEPT ![Len(providers)] = Retired(@)], Provider(kind))
  /\ swapped' = swapped \cup {r \in 1..requests : Busy(r)}
  /\ UNCHANGED <<main, worker, stream, events, served, broken>>

\* unregister: AgentRuntime.shutdown, AgentWorker.stop and the provider's close.
Shutdown ==
  /\ ~stopped /\ stopped' = TRUE
  /\ cancelled' = IF requests # 0 THEN cancelled \cup {requests} ELSE cancelled
  /\ providers' = [providers EXCEPT ![Len(providers)].cli = Closed(@)]
  /\ UNCHANGED <<requests, tasks, worker, stream, events, history>>

User == Submit \/ Cancel \/ (\E kind \in Http \cup {Cli} : SwapProvider(kind)) \/ Shutdown

-----------------------------------------------------------------------------
(* The worker: taking a request and leaving it *)

Take ==
  /\ worker.at = "idle" /\ tasks # <<>>
  /\ tasks' = Tail(tasks)
  /\ worker' = IF Head(tasks) \in cancelled THEN worker
               ELSE [Idle EXCEPT !.at = "opening", !.request = Head(tasks), !.by = Len(providers)]
  /\ UNCHANGED <<requests, cancelled, stopped, providers, stream, events, history>>

Exit ==
  /\ worker.at = "idle" /\ stopped
  /\ worker' = [worker EXCEPT !.at = "ended"]
  /\ UNCHANGED <<main, providers, stream, events, history>>

\* After every event of the provider the worker looks at the cancel event and leaves.
GiveUp ==
  /\ Stopped /\ worker.at \in {"opening", "reading", "ending", "completed"}
  /\ worker' = Idle /\ stream' = NoStream
  /\ UNCHANGED <<main, providers, events, history>>

\* A ProviderError, or an exception that _run_loop turns into WORKER_EXCEPTION.
Fail == worker' = Idle /\ stream' = NoStream /\ events' = Append(events, Answer("error", <<>>, <<>>))

\* No configuration, no network, no vision, an image that is gone, a refused connection, an
\* HTTP status; no agy command.
Refuse ==
  /\ worker.at = "opening" /\ ~Stopped
  /\ Fail
  /\ UNCHANGED <<main, providers, history>>

\* The calls are read from the provider that the worker has now.
Complete ==
  /\ worker.at = "completed" /\ ~Stopped
  /\ events' = Append(events, Answer("ready", worker.text, Current.calls))
  /\ worker' = Idle /\ stream' = NoStream
  /\ UNCHANGED <<main, providers, history>>

-----------------------------------------------------------------------------
(* A reply over HTTP *)

\* Mutant of Reset: the fragments of the last reply stay in the accumulator.
Reset_CallsOnly(provider) == [provider EXCEPT !.calls = <<>>]

Reset(provider) == [provider EXCEPT !.acc = <<>>, !.calls = <<>>]

Connect ==
  /\ worker.at = "opening" /\ ~Stopped /\ Mine.kind \in Http
  /\ providers' = [providers EXCEPT ![worker.by] = Reset(@)]
  /\ \E reply \in Replies(worker.request) :
       /\ reply.kind = Mine.kind
       /\ stream' = [NoStream EXCEPT !.wire = reply.wire]
       /\ served' = [r \in DOMAIN served \cup {worker.request} |-> IF r = worker.request THEN reply ELSE served[r]]
  /\ worker' = [worker EXCEPT !.at = "reading"]
  /\ UNCHANGED <<main, events, broken, swapped>>

Reading == worker.at = "reading" /\ stream.todo = <<>>

\* read1 and SSEParser.feed of what it returned, for n bytes.
Read(n) ==
  /\ Reading /\ n <= Len(stream.wire)
  /\ \E d    \in {Decoded(stream.parser.pend, SubSeq(stream.wire, 1, n))} :
     \E cut  \in {Extracted(stream.parser.buffer \o d.text)} :
     \E heard \in {Processed(stream.parser.data, cut.lines)} :
       IF Stopped THEN worker' = Idle /\ stream' = NoStream /\ UNCHANGED events
       ELSE IF ~(d.ok /\ cut.ok /\ heard.ok) THEN Fail
       ELSE /\ stream' = [wire   |-> SubSeq(stream.wire, n + 1, Len(stream.wire)),
                          parser |-> [pend |-> d.pend, buffer |-> cut.rest, data |-> heard.data],
                          todo   |-> heard.events]
            /\ UNCHANGED <<worker, events>>
  /\ UNCHANGED <<main, providers, history>>

\* The server closes the connection, a read times out or fails: __iter__ ends alike.
EndOfStream ==
  /\ Reading
  /\ worker' = [worker EXCEPT !.at = "ending"]
  /\ broken' = IF stream.wire = <<>> THEN broken ELSE broken \cup {worker.request}
  /\ UNCHANGED <<main, providers, stream, events, served, swapped>>

\* The server says that it failed; the code looks at nothing in such a payload.
Sorry == {p \in DOMAIN Meaning : Meaning[p].kind = "error"}

\* "[DONE]", or message_stop of Anthropic, ends the reply before the connection does.
Ends(kind, payload) ==
  \/ payload = <<"[DONE]">>
  \/ payload \in DOMAIN Meaning /\ Meaning[payload].kind = "stop" /\ kind = "anthropic"

\* JSON that is no object raises, and what _run_loop catches is posted even for a cancelled request.
Odd(p) == p \in DOMAIN Meaning /\ Meaning[p].kind = "odd"

\* Mutant of Heard: an error is posted and the stream goes on.
Heard_GoesOn(p) ==
  /\ stream' = [stream EXCEPT !.todo = Tail(@)]
  /\ IF p \in DOMAIN Meaning /\ ~Odd(p)
     THEN /\ worker' = [worker EXCEPT !.text = @ \o Meaning[p].text]
          /\ events' = IF Meaning[p].text = <<>> THEN events ELSE Append(events, Answer("delta", Meaning[p].text, <<>>))
          /\ providers' = [providers EXCEPT ![worker.by].acc = FoldLeft(FeedDelta, @, Meaning[p].deltas)]
     ELSE events' = Append(events, Answer("error", <<>>, <<>>)) /\ UNCHANGED <<worker, providers>>

\* The text of a payload is posted, its fragments go to the accumulator.  A payload that is no
\* JSON is an error, and so is JSON that is no object.
Heard(p) ==
  IF p \in DOMAIN Meaning /\ ~Odd(p)
  THEN /\ stream' = [stream EXCEPT !.todo = Tail(@)]
       /\ worker' = [worker EXCEPT !.text = @ \o Meaning[p].text]
       /\ events' = IF Meaning[p].text = <<>> THEN events ELSE Append(events, Answer("delta", Meaning[p].text, <<>>))
       /\ providers' = [providers EXCEPT ![worker.by].acc = FoldLeft(FeedDelta, @, Meaning[p].deltas)]
  ELSE Fail /\ UNCHANGED providers

Payload ==
  /\ worker.at = "reading" /\ stream.todo # <<>> /\ ~Ends(Mine.kind, Head(stream.todo))
  /\ Stopped => Odd(Head(stream.todo))
  /\ Heard(Head(stream.todo))
  /\ broken' = IF Head(stream.todo) \in Sorry THEN broken \cup {worker.request} ELSE broken
  /\ UNCHANGED <<main, served, swapped>>

LastPayload ==
  /\ worker.at = "reading" /\ stream.todo # <<>> /\ ~Stopped /\ Ends(Mine.kind, Head(stream.todo))
  /\ worker' = [worker EXCEPT !.at = "ending"]
  /\ UNCHANGED <<main, providers, stream, events, history>>

\* Mutant of EndReply: calls that are not complete are dropped without a word.
EndReply_Silent ==
  /\ worker.at = "ending" /\ ~Stopped
  /\ IF (Mine.kind = "openai" => Closes(stream.parser)) /\ Finalizes(Mine.acc)
     THEN /\ providers' = [providers EXCEPT ![worker.by].calls = Finalized(Mine.acc)]
          /\ worker' = [worker EXCEPT !.at = "completed"]
          /\ UNCHANGED <<stream, events>>
     ELSE worker' = Idle /\ stream' = NoStream /\ UNCHANGED <<providers, events>>
  /\ UNCHANGED <<main, history>>

\* The end of stream_chat: only the OpenAI provider closes its parser.
EndReply ==
  /\ worker.at = "ending" /\ ~Stopped
  /\ IF (Mine.kind = "openai" => Closes(stream.parser)) /\ Finalizes(Mine.acc)
     THEN /\ providers' = [providers EXCEPT ![worker.by].calls = Finalized(Mine.acc)]
          /\ worker' = [worker EXCEPT !.at = "completed"]
          /\ UNCHANGED <<stream, events>>
     ELSE Fail /\ UNCHANGED providers
  /\ UNCHANGED <<main, history>>

-----------------------------------------------------------------------------
(* A reply of the agy process *)

SetCli(cli) == providers' = [providers EXCEPT ![worker.by].cli = cli]

\* A process that is still there is used again; a new one first says "init".
OpenCli ==
  /\ worker.at = "opening" /\ ~Stopped /\ Mine.kind = Cli
  /\ providers' = [providers EXCEPT ![worker.by].calls = <<>>,
       ![worker.by].cli = IF @.open /\ @.alive THEN @
                          ELSE [open |-> TRUE, alive |-> TRUE, ready |-> FALSE,
                                say |-> <<[kind |-> "init", request |-> 0]>>, out |-> <<>>]]
  /\ worker' = [worker EXCEPT !.at = "cli"]
  /\ UNCHANGED <<main, stream, events, history>>

\* The prompt is written once; writing to a process that is gone is an error.
SendPrompt ==
  /\ worker.at = "cli" /\ Mine.cli.ready /\ ~worker.wrote
  /\ IF Mine.cli.alive
     THEN /\ \E reply \in Replies(worker.request) :
               /\ reply.kind = Cli
               /\ served' = [r \in DOMAIN served \cup {worker.request} |-> IF r = worker.request THEN reply ELSE served[r]]
          /\ SetCli([Mine.cli EXCEPT !.say = @ \o <<[kind |-> "update", request |-> worker.request],
                                                    [kind |-> "result", request |-> worker.request]>>])
          /\ worker' = [worker EXCEPT !.wrote = TRUE]
          /\ UNCHANGED <<stream, events>>
     ELSE Fail /\ SetCli(Closed(Mine.cli)) /\ UNCHANGED served
  /\ UNCHANGED <<main, broken, swapped>>

Listening == worker.at = "cli" /\ (Mine.cli.ready => worker.wrote)

\* Mutant of CancelCli: the wait for the process has no timeout.
CancelCli_Waits ==
  /\ Listening /\ Stopped /\ Mine.cli.out # <<>>
  /\ SetCli(Closed(Mine.cli))
  /\ worker' = Idle
  /\ UNCHANGED <<main, stream, events, history>>

CancelCli ==
  /\ Listening /\ Stopped
  /\ SetCli(Closed(Mine.cli))
  /\ worker' = Idle
  /\ UNCHANGED <<main, stream, events, history>>

\* Only the handshake has a deadline.
StartTimesOut ==
  /\ Listening /\ ~Stopped /\ Mine.cli.out = <<>> /\ ~Mine.cli.ready
  /\ SetCli(Closed(Mine.cli))
  /\ Fail
  /\ UNCHANGED <<main, history>>

\* What the process said: its greeting, a part of the answer, the result, its end.  With
\* tools in the request, and there are always some, nothing is posted before the result.
Hear ==
  /\ Listening /\ ~Stopped /\ Mine.cli.out # <<>>
  /\ LET said  == Head(Mine.cli.out)
         heard == [Mine.cli EXCEPT !.out = Tail(@)]
     IN  CASE said.kind = "init" ->
                SetCli([heard EXCEPT !.ready = TRUE]) /\ UNCHANGED <<worker, stream, events>>
           [] said.kind = "eof" ->
                SetCli(Closed(heard)) /\ Fail
           [] said.kind = "result" /\ worker.wrote /\ ~served[said.request].sound ->
                SetCli(heard) /\ Fail
           [] said.kind = "result" /\ worker.wrote /\ served[said.request].sound ->
                \E reply \in {served[said.request]} :
                  /\ providers' = [providers EXCEPT ![worker.by].cli = heard, ![worker.by].calls = reply.calls]
                  /\ worker' = [worker EXCEPT !.at = "completed", !.text = reply.text]
                  /\ events' = IF reply.text = <<>> THEN events ELSE Append(events, Answer("delta", reply.text, <<>>))
                  /\ UNCHANGED stream
           [] OTHER ->
                SetCli(heard) /\ UNCHANGED <<worker, stream, events>>
  /\ UNCHANGED <<main, history>>

\* The process and the thread that reads its output.  A line is said when it is written: it is then
\* in `out', which stands for the pipe and the reader's queue.  What dies with the process is what it
\* has not written yet.
CliSays(i) ==
  /\ providers[i].cli.say # <<>>
  /\ providers' = [providers EXCEPT ![i].cli.say = Tail(@), ![i].cli.out = Append(@, Head(providers[i].cli.say))]
  /\ UNCHANGED <<main, worker, stream, events, history>>

CliDies(i) ==
  /\ providers[i].cli.alive
  /\ providers' = [providers EXCEPT ![i].cli.alive = FALSE, ![i].cli.say = <<[kind |-> "eof", request |-> 0]>>]
  /\ broken' = IF worker.at = "cli" /\ worker.by = i THEN broken \cup {worker.request} ELSE broken
  /\ UNCHANGED <<main, worker, stream, events, served, swapped>>

-----------------------------------------------------------------------------
Run == \/ Take \/ Exit \/ GiveUp \/ Refuse \/ Complete
       \/ Connect \/ (\E n \in ReadSizes : Read(n)) \/ EndOfStream \/ Payload \/ LastPayload \/ EndReply
       \/ OpenCli \/ SendPrompt \/ CancelCli \/ StartTimesOut \/ Hear

Process == \E i \in DOMAIN providers : CliSays(i) \/ CliDies(i)

Next == User \/ Run \/ Process

\* The worker goes on: an HTTP read returns, as the socket has a timeout, and the wait for the
\* process wakes up ten times a second.  Nothing is assumed of the process or of the user.
Spec == Init /\ [][Next]_vars
FairSpec == Spec /\ WF_vars(Run)

-----------------------------------------------------------------------------
(* Properties *)

\* A reply is posted exactly as it was sent, however it was cut into fragments, events, lines
\* and chunks and whatever was left of an earlier request; a sound reply is never refused and
\* an unsound one is never answered with.  The calls may be missing if the provider was replaced
\* meanwhile (SSEParser, ToolCallAccumulator, stream_chat, _run_loop).
RepliesAsSent ==
  \A i \in DOMAIN events : LET e == events[i] IN
    e.request \in DOMAIN served \ broken =>
      LET reply == served[e.request]
      IN  CASE e.kind = "ready" -> /\ reply.sound /\ e.text = reply.text
                                   /\ e.calls = reply.calls \/ (e.request \in swapped /\ e.calls = <<>>)
            [] e.kind = "error" -> ~reply.sound \/ (e.request \in swapped /\ reply.kind = Cli)
            [] e.kind = "delta" -> TRUE

\* Nothing of a request is posted after its answer or its error, so it has at most one of them,
\* and no request is run twice.
OneOutcome ==
  \A i, j \in DOMAIN events :
    i < j /\ events[i].kind \in {"ready", "error"} => events[j].request # events[i].request

\* Every request is answered, refused or cancelled in the end, unless it waits for the agy
\* process, which has no deadline after its greeting (_run_loop, stream_chat).
RequestSettles ==
  \A r \in 1..MaxRequests : requests >= r ~> Over(r) \/ (Busy(r) /\ Mine.kind = Cli)

\* A cancelled request does not hold the worker up, whatever the server or the agy process does
\* (the checks of cancel_event in _run_loop, _StreamResponse and AgyCliProvider.stream_chat).
CancelFreesWorker ==
  \A r \in 1..MaxRequests : r \in cancelled ~> ~Busy(r)

\* A reply that the connection cut off is not taken for the whole reply.
OnlyWholeReplies ==
  \A i \in DOMAIN events : events[i].kind = "ready" => events[i].request \notin broken
=============================================================================
