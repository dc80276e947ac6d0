---------------------------- MODULE MCBoardLocks ----------------------------
(* A program of two threads, p1 and the thread p3 of an asynchronous         *)
(* transfer, and a second program p2, each with a descriptor.                *)
EXTENDS BoardLocks, TLC

CONSTANTS p1, p2, p3, f1, f2

TwoPrograms == (f1 :> {p1, p3}) @@ (f2 :> {p2})

\* p1 runs a program that has autopolling enabled until it closes the board, and
\* p3 transfers for it; p2 uses the library too, disables autopolling by
\* IBAUTOSPOLL, and is the administrator who brings the board online and offline.
UserAndAdmin ==
  (p1 :> {"spoll_on"})
    @@ (p2 :> {"lock", "ctl", "online", "offline", "spoll_on", "spoll_off"})
    @@ (p3 :> {"lock", "unlock", "io", "wait"})
=============================================================================
