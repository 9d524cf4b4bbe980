------------------------------ MODULE CallService ------------------------------
(***************************************************************************)
(* What the MCP bridge promises a client: a tool call takes effect at most *)
(* once; its result is reported only after it ran; a call that is refused  *)
(* never runs.  After a timeout or a lost connection the client does not   *)
(* know: the call may run later or may have run.                           *)
(***************************************************************************)
CONSTANT Requests

VARIABLES
  reply,     \* what the client was told
  scene      \* how far the call has got in changing the scene

Results  == {"ok", "failed", "BRIDGE_ERROR"}
Refusals == {"rejected", "served", "unknown", "APPROVAL_REQUIRED"}
Unknowns == {"TIMEOUT", "lost"}
Replies  == {"none"} \cup Results \cup Refusals \cup Unknowns
Progress == {"none", "begun", "done"}

Init ==
  /\ reply = [r \in Requests |-> "none"]
  /\ scene = [r \in Requests |-> "none"]

\* A call may begin while nobody was answered, or after the client gave up.
Begin(r) ==
  /\ scene[r] = "none"
  /\ reply[r] \in {"none", "TIMEOUT"}
  /\ scene' = [scene EXCEPT ![r] = "begun"]
  /\ UNCHANGED reply

Finish(r) ==
  /\ scene[r] = "begun"
  /\ scene' = [scene EXCEPT ![r] = "done"]
  /\ UNCHANGED reply

Told(r, a) ==
  /\ a \in Results  => scene[r] = "done"
  /\ a \in Refusals => scene[r] = "none"

Answer(r) ==
  \E a \in Replies \ {"none", "lost"} :
    /\ reply[r] = "none"
    /\ Told(r, a)
    /\ reply' = [reply EXCEPT ![r] = a]
    /\ UNCHANGED scene

\* Blender goes away: every client that waits loses its connection.
Vanish ==
  /\ \E W \in SUBSET {r \in Requests : reply[r] = "none"} :
       reply' = [r \in Requests |-> IF r \in W THEN "lost" ELSE reply[r]]
  /\ UNCHANGED scene

Next == Vanish \/ \E r \in Requests : Begin(r) \/ Finish(r) \/ Answer(r)

Spec == Init /\ [][Next]_<<reply, scene>>
=============================================================================
