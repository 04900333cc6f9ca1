------------------------------ MODULE MCWorker ------------------------------
(* Worker.tla for TLC: what the user may send in each run.                 *)
EXTENDS Worker

AllKinds == {"chat", "command", "end", "new"}
=============================================================================
