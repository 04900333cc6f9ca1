----------------------------- MODULE MCInbound ------------------------------
(* Inbound.tla for TLC.                                                    *)
EXTENDS Inbound
=============================================================================
