---------------------------- MODULE MCTaskLedger ----------------------------
(* A small instance of TaskLedger: a scene has a part that a snapshot shows and one that
   it does not. *)
EXTENDS TaskLedger

MCScenes == {s \in [seen : 0..1, unseen : 0..1] : s.seen + s.unseen < 2}
MCSnapshot(s) == s.seen
=============================================================================
