------------------------------ MODULE MCAnswer ------------------------------
(* Answer.tla for TLC: texts of a few units and of so many that the marker  *)
(* of a chunk has one, two or three digits.                                *)
EXTENDS Answer

SomeLines == [kind : {"text", "plain"}, len : {3, 60}]
               \union [kind : {"end", "meta", "list", "blank"}, len : {0}]
OneOnStderr == [s \in Streams |-> IF s = "stdout" THEN 2 ELSE 1]
=============================================================================
