------------------------------ MODULE MCAsyncIo ------------------------------
(* Two descriptors of a program, and two asynchronous transfers. *)
EXTENDS AsyncIo

CONSTANTS c1, c2, i1, i2
=============================================================================
