----------------------------- MODULE MCOutbound -----------------------------
(* Outbound.tla for TLC.                                                   *)
EXTENDS Outbound
=============================================================================
