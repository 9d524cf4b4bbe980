--------------------------- MODULE MCSessionMemory ---------------------------
(* A small instance of SessionMemory: an object whose name lasts, `cube', and *)
(* two of which one may be taken for the other.  If `part' is "token:front",  *)
(* a saved session has "token:[REDACTED_SECRET]" in its place (`blot'), and   *)
(* the parser finds "token" (`stem') for both.                                *)
EXTENDS SessionMemory

CONSTANTS cube, part, stem, blot
MCObjects == {cube, part, stem}
MCNames == MCObjects \cup {blot, NotAnObject}
MCReread == [n \in MCNames |-> IF n \in {part, blot} THEN stem ELSE n]
MCRedacted == [n \in MCNames |-> IF n = part THEN blot ELSE n]
=============================================================================
