----------------------------- MODULE MCProvider -----------------------------
(* Instances of Provider: one helper, and limits set or, as main.ts has     *)
(* it, not set.  They are in the .cfg files.                               *)
EXTENDS Provider
=============================================================================
