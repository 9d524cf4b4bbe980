---------------------------- MODULE SessionMemory ----------------------------
(***************************************************************************)
(* What the agent remembers of old turns (agent/memory.py).  When the      *)
(* conversation gets long, the turns before the last ones become a text in *)
(* the place of the first message.  The next time, that text is parsed and *)
(* its lines go on into the new one.  Saving the .blend file puts the same *)
(* memory into the scene, and opening the file makes it the conversation   *)
(* (adapter/session_persistence.py, AgentRuntime.restore_session_memory).  *)
(*                                                                         *)
(* A turn is the sequence of its tool results.  Of a memory we keep which  *)
(* names it lists, and for every other section whether it has a line,      *)
(* because what stands under which heading decides how a text is parsed.   *)
(* A name is not always read as it was written: the parser ends it at the  *)
(* first colon, and a save replaces what looks like a credential.          *)
(* Turns are compacted at the start of a turn, as submit_prompt does it;   *)
(* an open or a clear in the middle of one is in AgentRuntime.             *)
(***************************************************************************)
EXTENDS Integers, Sequences, SequencesExt

CONSTANTS
  Objects,      \* objects of the scene that the tools change
  Names,        \* what may stand for an object in a list: their names, and what is left of them
  NotAnObject,  \* a line that stands among the deleted objects and names none
  Reread,       \* what the parser makes of a name: the text before the first colon, without quotes
  Redacted,     \* what sanitize_persisted_text makes of a name
  None,         \* no summary, no payload; nothing is left of a name
  Retained,     \* RETAINED_TURNS_COUNT
  MaxPrompts,   \* bound: prompts in a behaviour
  MaxResults    \* bound: tool results of a turn

ASSUME MemoryAssumption ==
  /\ Objects \cup {NotAnObject} \subseteq Names /\ NotAnObject \notin Objects
  /\ None \notin Names /\ Reread \in [Names -> Names \cup {None}] /\ Redacted \in [Names -> Names]
  /\ Retained \in Nat \ {0} /\ MaxPrompts \in Nat /\ MaxResults \in Nat

VARIABLES
  summary,   \* what the first message tells of the turns before `turns'
  turns,     \* the turns whose messages are in the conversation
  active,    \* "no", or the turn in progress was "asked", or "compacted" at its start
  payload,   \* the session in the .blend file
  absorbed,  \* history: what the turns behind the summary did
  prompts    \* prompts so far

vars == <<summary, turns, active, payload, absorbed, prompts>>

\* A verified change or deletion, one that failed its verification, an error,
\* a screenshot that failed or a long error of an inspection, a long error of
\* another tool that changes nothing, an inspection, one with a visual verdict,
\* and a result of which no line is kept.
Results == [kind : {"changed", "deleted", "failed"}, obj : Objects]
             \cup [kind : {"error", "noShot", "longError", "looked", "judged", "quiet"}]
Errors == {"failed", "error", "noShot", "longError"}

-----------------------------------------------------------------------------
(* RollingMemory *)

Memory == [tasks : BOOLEAN, living : SUBSET Names, deleted : SUBSET Names,
           inspected : BOOLEAN, visual : BOOLEAN, errors : BOOLEAN]
NoMemory == [tasks |-> FALSE, living |-> {}, deleted |-> {},
             inspected |-> FALSE, visual |-> FALSE, errors |-> FALSE]

\* Mutant of Extracted: an object made anew stays among the deleted.
Extracted_StaysDeleted(m, r) ==
  CASE r.kind = "changed" -> [m EXCEPT !.living = @ \cup {r.obj}]
    [] r.kind = "deleted" -> [m EXCEPT !.living = @ \ {r.obj}, !.deleted = @ \cup {r.obj}]
    [] r.kind \in Errors -> [m EXCEPT !.errors = TRUE]
    [] r.kind \in {"looked", "judged"} ->
         [m EXCEPT !.inspected = TRUE, !.visual = @ \/ r.kind = "judged"]
    [] r.kind = "quiet" -> m

\* An object is in one of the two lists; a result that is not PASS moves none.
Extracted(m, r) ==
  CASE r.kind = "changed" -> [m EXCEPT !.living = @ \cup {r.obj}, !.deleted = @ \ {r.obj}]
    [] r.kind = "deleted" -> [m EXCEPT !.living = @ \ {r.obj}, !.deleted = @ \cup {r.obj}]
    [] r.kind \in Errors -> [m EXCEPT !.errors = TRUE]
    [] r.kind \in {"looked", "judged"} ->
         [m EXCEPT !.inspected = TRUE, !.visual = @ \/ r.kind = "judged"]
    [] r.kind = "quiet" -> m

Absorbed(m, turn) ==
  LET mem[j \in 0..Len(turn)] ==
        IF j = 0 THEN [m EXCEPT !.tasks = TRUE] ELSE Extracted(mem[j - 1], turn[j])
  IN  mem[Len(turn)]

\* The parser does not know the heading of the errors, which come last: their
\* lines count to the last section before.  Under the deleted objects every
\* line names one.
Misfiled(s) ==
  IF s.errors /\ s.deleted # {} /\ ~s.inspected /\ ~s.visual THEN {NotAnObject} ELSE {}

\* Mutant of Merged: the deleted objects are forgotten like the living ones.
Merged_NoDeleted(m, s) ==
  [m EXCEPT !.tasks = @ \/ s.tasks, !.inspected = @ \/ s.inspected, !.visual = @ \/ s.visual]

\* The names of the deleted objects as the parser finds them.
DeletedLines(s) == ({Reread[n] : n \in s.deleted} \ {None}) \cup Misfiled(s)

\* The lines of the verified scene state and of the errors go nowhere.
Merged(m, s) ==
  [m EXCEPT !.tasks = @ \/ s.tasks,
            !.deleted = @ \cup (DeletedLines(s) \ m.living),
            !.inspected = @ \/ s.inspected,
            !.visual = @ \/ s.visual]

Recalled(s) == IF s = None THEN NoMemory ELSE Merged(NoMemory, s)

\* A fresh memory of a summary, if there is one, and the turns after it.
MemoryOf(s, ts) ==
  LET mem[i \in 0..Len(ts)] == IF i = 0 THEN Recalled(s) ELSE Absorbed(mem[i - 1], ts[i])
  IN  mem[Len(ts)]

\* to_dict and from_dict: names are sanitized when written and when read.
Sanitized(m) ==
  [m EXCEPT !.living = {Redacted[n] : n \in @}, !.deleted = {Redacted[n] : n \in @}]

\* No summary is not a summary.
ASSUME NoneAssumption == None \notin Memory

-----------------------------------------------------------------------------
(* prune_conversation_tool_results *)

\* Results of tools that change nothing are cut down to what an inspection
\* found; no error is among the keys they keep.
PrunedResult(r) ==
  CASE r.kind = "noShot" -> [kind |-> "looked"]
    [] r.kind = "longError" -> [kind |-> "quiet"]
    [] OTHER -> r

Older(ts) == SubSeq(ts, 1, Len(ts) - Retained)
Kept(ts) == SubSeq(ts, Len(ts) - Retained + 1, Len(ts))

Pruned(ts) ==
  IF Len(ts) <= Retained THEN ts
  ELSE [i \in DOMAIN Older(ts) |-> [j \in DOMAIN ts[i] |-> PrunedResult(ts[i][j])]] \o Kept(ts)

-----------------------------------------------------------------------------
(* History: the last verified change of every object, independent of the memory *)

Nothing == [last |-> [o \in Objects |-> "none"], fresh |-> {}]

\* Result j of turn i is at <<i, j>>.
Places(ts) == UNION {{i} \X DOMAIN ts[i] : i \in DOMAIN ts}
At(ts, p) == ts[p[1]][p[2]]
Before(p, q) == p[1] < q[1] \/ (p[1] = q[1] /\ p[2] < q[2])

Changes(ts, o) ==
  {p \in Places(ts) : At(ts, p).kind \in {"changed", "deleted"} /\ At(ts, p).obj = o}

LastChange(ts, o) ==
  At(ts, CHOOSE p \in Changes(ts, o) : \A q \in Changes(ts, o) : ~Before(p, q)).kind

\* `fresh': the objects that the turns absorbed last have changed.
After(a, ts) ==
  [last  |-> [o \in Objects |-> IF Changes(ts, o) = {} THEN a.last[o] ELSE LastChange(ts, o)],
   fresh |-> {o \in Objects : Changes(ts, o) # {}}]

-----------------------------------------------------------------------------
Init ==
  /\ summary = None
  /\ turns = <<>>
  /\ active = "no"
  /\ payload = [memory |-> None, absorbed |-> Nothing]
  /\ absorbed = Nothing
  /\ prompts = 0

\* A prompt arrives and old results are pruned; if that leaves more text than
\* COMPACTION_TRIGGER_CHARS (`long'), the older turns become a summary.
Ask(long) ==
  LET ts == Pruned(Append(turns, <<>>))
  IN  /\ active = "no" /\ prompts < MaxPrompts
      /\ prompts' = prompts + 1
      /\ IF long /\ Len(ts) > Retained
           THEN /\ summary' = MemoryOf(summary, Older(ts))
                /\ turns' = Kept(ts)
                /\ active' = "compacted"
                /\ absorbed' = After(absorbed, Older(ts))
           ELSE /\ turns' = ts
                /\ active' = "asked"
                /\ UNCHANGED <<summary, absorbed>>
      /\ UNCHANGED payload

ToolResult(r) ==
  /\ active # "no" /\ Len(Last(turns)) < MaxResults
  /\ turns' = [turns EXCEPT ![Len(turns)] = Append(@, r)]
  /\ UNCHANGED <<summary, active, payload, absorbed, prompts>>

EndTurn ==
  /\ active # "no"
  /\ active' = "no"
  /\ UNCHANGED <<summary, turns, payload, absorbed, prompts>>

\* The messages from the start of the turn on are discarded, with the results
\* of tools that ran.  A compaction leaves that index behind, further down the
\* turn or past its end (AgentRuntime shows what a call cut off from its answer does).
CancelTurn ==
  /\ active # "no"
  /\ IF active = "asked"
       THEN turns' = Front(turns)
       ELSE \E n \in 0..Len(Last(turns)) : turns' = [turns EXCEPT ![Len(turns)] = SubSeq(@, 1, n)]
  /\ active' = "no"
  /\ UNCHANGED <<summary, payload, absorbed, prompts>>

\* save_pre, at any moment: the memory of all turns.  An empty one removes the property.
Save ==
  LET m == MemoryOf(summary, turns)
  IN  /\ payload' = IF m = NoMemory THEN [memory |-> None, absorbed |-> Nothing]
                    ELSE [memory |-> Sanitized(m), absorbed |-> After(absorbed, turns)]
      /\ UNCHANGED <<summary, turns, active, absorbed, prompts>>

\* load_post.  A file without a session leaves the conversation as it is.
Open ==
  /\ active = "no" /\ payload.memory # None
  /\ summary' = Sanitized(payload.memory)
  /\ turns' = <<>>
  /\ absorbed' = payload.absorbed
  /\ UNCHANGED <<active, payload, prompts>>

Clear ==
  /\ active = "no"
  /\ summary' = None
  /\ turns' = <<>>
  /\ absorbed' = Nothing
  /\ UNCHANGED <<active, payload, prompts>>

Next ==
  \/ \E long \in BOOLEAN : Ask(long)
  \/ \E r \in Results : ToolResult(r)
  \/ EndTurn
  \/ CancelTurn
  \/ Save
  \/ Open
  \/ Clear

Spec == Init /\ [][Next]_vars

-----------------------------------------------------------------------------
(* Properties *)

\* Names that may be what was left of another one.
Remainders == UNION {{Reread[n], Redacted[n]} \ {n} : n \in Names}

\* Objects that only their own name stands for, and objects whose name lasts.
Unmistakable == Objects \ Remainders
Lasting == {o \in Objects : Reread[o] = o /\ Redacted[o] = o}

\* What memory m tells of the objects os is what the absorbed turns a did last.
Truthful(m, a, os) ==
  m # None =>
    /\ \A o \in os \cap m.living : a.last[o] = "changed"
    /\ \A o \in os \cap m.deleted : a.last[o] = "deleted"

Complete(m, a, os) ==
  \A o \in os :
    /\ a.last[o] = "deleted" => m # None /\ o \in m.deleted
    /\ a.last[o] = "changed" /\ o \in a.fresh => m # None /\ o \in m.living

\* No summary and no saved session lists an object as living that the turns
\* behind it deleted last, or as deleted one that they made or changed after:
\* through any compactions, saves and loads, deleted objects are never shown
\* as living and those created again never as deleted (RollingMemory).  This is
\* for the objects whose name nothing else is cut down to: once 'token:left' is
\* deleted, its second summary says that 'token' is.
SummaryTrue ==
  /\ Truthful(summary, absorbed, Unmistakable)
  /\ Truthful(payload.memory, payload.absorbed, Unmistakable)

\* A deletion that was absorbed is told for as long as the object is not made
\* again, however often the text is parsed and saved; a living object is told
\* by the summary that its last change went into.  (By the next one it no
\* longer is: see _merge_previous_summary.)  This is for the objects whose name
\* has no colon, no quote at its ends and nothing that is redacted.
FactsKept ==
  /\ Complete(summary, absorbed, Lasting)
  /\ Complete(payload.memory, payload.absorbed, Lasting)

\* Does not hold: the same for every object.  The message that carries a summary
\* says that turns were compacted "while preserving verified state"
\* (memory.py:572).  A deleted 'mixamorig:Hips' is forgotten by the second
\* compaction, which tells that 'mixamorig' was deleted.
VerifiedStateKept ==
  /\ Truthful(summary, absorbed, Objects) /\ Truthful(payload.memory, payload.absorbed, Objects)
  /\ Complete(summary, absorbed, Objects) /\ Complete(payload.memory, payload.absorbed, Objects)
=============================================================================
