----------------------------- MODULE MCAutopoll -----------------------------
(* Two devices that each request service a few times. *)
EXTENDS Autopoll

CONSTANTS d1, d2
=============================================================================
