------------------------------ MODULE MCMemory ------------------------------
(* Memory for model checking; the .cfg files give the bounds.              *)
EXTENDS Memory

(* One item, which the agent inferred.                                     *)
OlderItems == <<FALSE>>
=============================================================================
