---------------------------- MODULE LibrarySteps ----------------------------
(***************************************************************************)
(* The vocabulary in which module LibraryPrograms writes the calls of the  *)
(* user library, as sequences of steps that module LibraryCalls executes.  *)
(*                                                                         *)
(* A step that fails is an error the call meets; execution goes on skip    *)
(* steps further, or, if skip is 0, the call leaves with exit_library(ud,  *)
(* 1).  IBTMO, whose result nobody looks at, is left out.                  *)
(***************************************************************************)
EXTENDS Sequences, Integers

Step ==
  [ op   |-> "step",   \* what it does
    name |-> "step",   \* the error it meets when it fails,
    may  |-> FALSE,    \* for reasons of its own
    addr |-> "keep",   \* who talks and who listens then: "talk", "listen", "none"; "any"
    says |-> "",       \* the command that is for the device
    skip |-> 0 ]

Can(name) == [Step EXCEPT !.name = name, !.may = TRUE]
Does(op, name) == [Can(name) EXCEPT !.op = op]
Never == [Step EXCEPT !.op = "never"]
Jump(n) == [Step EXCEPT !.op = "jump", !.skip = n]
Branch(n) == [Jump(n) EXCEPT !.may = TRUE]

-----------------------------------------------------------------------------
(* Combining programs *)

\* An error in p goes on with h, and only an error does.
Handling(p, h) ==
  [i \in DOMAIN p |-> IF p[i].skip = 0 THEN [p[i] EXCEPT !.skip = Len(p) + 2 - i] ELSE p[i]]
    \o <<Jump(Len(h) + 1)>> \o h
\* Nobody looks at the result of p, or it is overwritten.
Ignoring(p) ==
  [i \in DOMAIN p |-> IF p[i].skip = 0 THEN [p[i] EXCEPT !.skip = Len(p) + 1 - i] ELSE p[i]]
Choose(p, q) == <<Branch(Len(p) + 2)>> \o p \o <<Jump(Len(q) + 1)>> \o q
Maybe(p) == <<Branch(Len(p) + 1)>> \o p
Repeated(p) == p \o <<Branch(-Len(p))>>

-----------------------------------------------------------------------------
(* Steps *)

Argument == Can("argument")
Memory == Can("memory")
File == Can("file")
Eoip == Can("in progress")
Ioctl == Can("ioctl")
Query == Can("query")
IsCic == Can("not in charge")
IsSystemController == Can("not system controller")

\* The message tells addr to talk or listen and then says something to it.
Command(addr, says) == [Does("command", "command") EXCEPT !.addr = addr, !.says = says]
Says(says) == Command("keep", says)
\* A query that fails leaves the setup empty, and the command is sent without.
Build == [Does("build", "query") EXCEPT !.skip = 1]
Read(addr) == [Does("read", "read") EXCEPT !.addr = addr]
Send(addr) == [Does("send", "send") EXCEPT !.addr = addr]
Poll == Does("poll", "poll")

Exit == [Does("exit", "status") EXCEPT !.skip = 1]
ExitError == [Step EXCEPT !.op = "exit with error"]
ReturnError == [Step EXCEPT !.op = "return error"]
=============================================================================
