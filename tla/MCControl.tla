----------------------------- MODULE MCControl -----------------------------
(* Commands of a few bytes that need more than one buffer load. *)
EXTENDS Control
=============================================================================
