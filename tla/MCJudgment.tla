---------------------------- MODULE MCJudgment -----------------------------
(* Judgment for model checking; the .cfg files give the bounds.            *)
EXTENDS Judgment
=============================================================================
