------------------------------ MODULE UsbSteps ------------------------------
(***************************************************************************)
(* The vocabulary in which modules NiUsb, AgilentUsb, Xyphro and LpvoUsb   *)
(* write the functions of the USB board drivers, as sequences of steps     *)
(* that module UsbBoard executes.                                          *)
(*                                                                         *)
(* What a task holds (locks, memory, the urb it has submitted) is apart    *)
(* from what the board owns.  A step that fails releases undo, and then    *)
(* either the whole operation fails or, if skip is not 0, execution goes   *)
(* on that many steps further.                                             *)
(***************************************************************************)
EXTENDS Sequences, Integers

Step ==
  [ waits  |-> {},     \* what no task may hold
    intr   |-> FALSE,  \* a signal ends the wait
    tests  |-> {},     \* it fails if another task holds one of these,
    needs  |-> {},     \* if the board does not own these,
    absent |-> {},     \* if it owns one of these,
    may    |-> FALSE,  \* and for reasons of its own
    takes  |-> {}, frees |-> {},  \* what the task holds
    keeps  |-> {}, drops |-> {},  \* what the board owns
    uses   |-> {},     \* what it relies on the board to own
    data   |-> "",     \* "sent", "received", "matched", "drained"
    error  |-> TRUE,   \* to fail is an error, and not a test's other outcome
    undo   |-> {},
    skip   |-> 0 ]

Check == [Step EXCEPT !.may = TRUE]
Never == [Step EXCEPT !.needs = {"nothing"}]
Has(r) == [Step EXCEPT !.needs = {r}]
\* The pointer to the interface is in the private data of the board.
Present == [Has("interface") EXCEPT !.uses = {"private"}]
\* It is followed, to name the device in messages, whether a lock is held or not.
Names == [Step EXCEPT !.uses = {"private", "device"}]
Naming(p) == [p EXCEPT ![1].uses = @ \cup Names.uses]

Lock(m) == [Step EXCEPT !.waits = {m}, !.takes = {m}]
LockOrSignal(m) == [Lock(m) EXCEPT !.intr = TRUE, !.may = TRUE]
TryLock(m) == [Step EXCEPT !.tests = {m}, !.takes = {m}]
Unlock(m) == [Step EXCEPT !.frees = {m}]
Take(r) == [Check EXCEPT !.takes = {r}]
Free(r) == [Step EXCEPT !.frees = {r}]
Keep(r) == [Check EXCEPT !.keeps = {r}]
Set(r) == [Step EXCEPT !.keeps = {r}]
Drop(r) == [Step EXCEPT !.drops = {r}]

\* A transfer: it is submitted, and over when the urb is freed.
Submit == [Check EXCEPT !.takes = {"urb"}, !.uses = {"interface"}]
Control == [Check EXCEPT !.uses = {"interface"}]
Over(d) == [Check EXCEPT !.frees = {"urb"}, !.undo = {"urb"}, !.data = d]
Sent == Over("sent")
\* The answer must be to the message.
Matched == [Step EXCEPT !.data = "matched"]

\* The interrupt urb is on its way to the device; it is taken back.
Listen == [Keep("listening") EXCEPT !.uses = {"interface"}]
Kill == Drop("listening")

-----------------------------------------------------------------------------
(* Programs *)

\* Op of p, which is evaluated once.
Apply(Op(_), p) == CHOOSE r \in {Op(q) : q \in {p}} : TRUE
Each(Op(_, _), p) ==
  Apply(LAMBDA q :
          [i \in DOMAIN q |-> IF q[i].skip = 0 THEN Op(q[i], Len(q) + 1 - i) ELSE q[i]], p)
Prefixed(Op(_), p) == Apply(LAMBDA q : <<Op(Len(q))>> \o q, p)

\* An error that leaves p releases R.
Undoing(R, p) == Each(LAMBDA s, left : [s EXCEPT !.undo = @ \cup R], p)
\* An error that leaves p ends it, and execution goes on behind it.
Ignoring(p) == Each(LAMBDA s, left : [s EXCEPT !.skip = left], p)
\* The operation fails, whoever handles errors.
Leave == [Never EXCEPT !.skip = -1000]
Jump(n) == [Never EXCEPT !.error = FALSE, !.skip = n]
Branch(n) == [Check EXCEPT !.error = FALSE, !.skip = n]
\* h or q is passed over.
Otherwise(q) == Prefixed(LAMBDA n : Jump(n + 1), q)
\* An error that leaves p goes on with h, and only an error does.
Handling(p, h) == Each(LAMBDA s, left : [s EXCEPT !.skip = left + 1], p) \o Otherwise(h)
\* The same of one step, which is followed by what comes next: h does not come back.
HandlingBy(h, s) == Apply(LAMBDA q : Otherwise(q) \o <<[s EXCEPT !.skip = -Len(q)]>>, h)
Maybe(p) == Prefixed(LAMBDA n : Branch(n + 1), p)
Choose(p, q) == Prefixed(LAMBDA n : Branch(n + 2), p) \o Otherwise(q)
If(r, p) == Prefixed(LAMBDA n : [Has(r) EXCEPT !.error = FALSE, !.skip = n + 1], p)
Repeated(p) == Apply(LAMBDA q : q \o <<Branch(-Len(q))>>, p)
\* m is held around p, whichever way it ends.
Holding(m, p) == <<Lock(m)>> \o Undoing({m}, p) \o <<Unlock(m)>>
\* r is allocated for p, and freed whichever way it ends.
With(r, p) == <<Take(r)>> \o Undoing({r}, p) \o <<Free(r)>>
=============================================================================
