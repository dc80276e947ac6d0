---------------------------- MODULE MCDeviceList ----------------------------
(* Two files with three handles each and two addresses, one of them the      *)
(* address that every handle 0 carries.                                      *)
EXTENDS DeviceList, TLC

CONSTANTS f1, f2, a0, a1

\* The files are interchangeable.
Symmetry == Permutations({f1, f2})

\* Bound: what follows a race on the list, or the closing of a handle 0, is not
\* explored: the properties do not speak of it.
Explored == ~raced /\ ~zero_closed
=============================================================================
