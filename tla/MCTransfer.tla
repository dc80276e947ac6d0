----------------------------- MODULE MCTransfer -----------------------------
(* Four bytes through a buffer of three, disturbed a few times. *)
EXTENDS AccelTransfer
=============================================================================
