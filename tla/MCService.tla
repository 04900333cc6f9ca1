----------------------------- MODULE MCService ------------------------------
(* Service.tla for TLC: a database that is new or was left by the old       *)
(* build, which has five migrations.                                       *)
EXTENDS Service

NewOrOld == {0, 5}
=============================================================================
