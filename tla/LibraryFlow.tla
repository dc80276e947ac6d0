----------------------------- MODULE LibraryFlow -----------------------------
(***************************************************************************)
(* What a call does to its own descriptor, whatever other threads do: the  *)
(* flow of a program is the set of states that one thread can reach in it. *)
(* The states know of the bus only what other threads cannot change, and   *)
(* nothing of the boards but whether the descriptor's own one is locked.   *)
(*                                                                         *)
(* The flow of each call is a constant that TLC computes.  That it shows   *)
(* no mistake is an assumption about the programs, which TLC evaluates;    *)
(* that the flows hold of any number of threads is proved in module        *)
(* LibraryCalls_proofs.                                                    *)
(***************************************************************************)
EXTENDS LibraryCalls

FlowState ==
  [ at : Int, met : SUBSET STRING, missed : SUBSET STRING, result : {"ok", "ERR"},
    built : BOOLEAN, there : BOOLEAN, open : BOOLEAN, handle : BOOLEAN, lock : BOOLEAN,
    home : BOOLEAN,                  \* the descriptor is of the board Home,
    addr : {"talk", "listen", "?"},  \* on which the partner has been addressed
    kept : BOOLEAN,   \* the kernel's handle is the descriptor's
    sound : BOOLEAN ]

StepType ==
  [ op : STRING, name : STRING, may : BOOLEAN, says : STRING, skip : Int,
    addr : {"keep", "talk", "listen", "none", "board", "any"} ]

Names(device) == IF device THEN DOMAIN OpeningCalls \cup DOMAIN DeviceCalls ELSE DOMAIN BoardCalls
CallOf(device, n) ==
  IF ~device THEN BoardCalls[n]
  ELSE IF n \in DOMAIN OpeningCalls THEN OpeningCalls[n] ELSE DeviceCalls[n]

Entered(device, n) ==
  {l \in [ at : {1}, met : {{}}, missed : {{}}, result : {"ok"}, built : {FALSE},
           there : BOOLEAN, open : BOOLEAN, handle : BOOLEAN, lock : {FALSE},
           home : {TRUE}, addr : {"?"}, kept : BOOLEAN, sound : BOOLEAN ] :
     /\ l.sound = ((l.open => l.handle) /\ l.kept)
     /\ IF ~device THEN l.there
        ELSE IF l.there THEN n \in DOMAIN DeviceCalls ELSE n \in DOMAIN OpeningCalls \cup {"ibeos"}}

-----------------------------------------------------------------------------
(* Steps *)

FlowRefused(l, s) ==
  \/ s.op = "never"
  \/ s.op = "check" /\ ~l.there
  \/ s.op \in Handle /\ ~l.handle
FlowVoid(l, s) ==
  \/ s.op = "online" /\ l.open
  \/ s.op = "reopen" /\ l.handle
  \/ s.op = "close" /\ ~l.handle

FlowAddressed(l, s) ==
  CASE s.addr = "talk" -> "talk"
    [] s.addr = "listen" /\ l.built -> "listen"
    [] s.addr = "none" \/ (s.addr = "board" /\ l.addr = "talk") -> "?"
    [] OTHER -> l.addr
FlowHears(l, s) ==
  \/ s.says \in Universal \cup {""}
  \/ s.op = "command" /\ FlowAddressed(l, s) = IF s.says = "TCT" THEN "talk" ELSE "listen"

FlowLeaves(l, r) ==
  IF l.there /\ l.lock THEN [l EXCEPT !.result = r, !.lock = FALSE, !.home = TRUE, !.addr = "?"]
                       ELSE [l EXCEPT !.result = r]
FlowLocks(l) == IF l.lock THEN l ELSE [l EXCEPT !.lock = TRUE, !.addr = "?"]
\* A handle that is there is no longer told from none.
Loses(l) == l.there /\ l.handle
FlowMoves(l) == [l EXCEPT !.home = FALSE, !.addr = "?", !.kept = @ /\ ~Loses(l)]
FlowOverruns(l, s) == [l EXCEPT !.addr = "?", !.missed = @ \cup {s.says}]
FlowResets(device, l, there) ==
  [l EXCEPT !.there = there, !.open = FALSE, !.handle = ~device, !.lock = FALSE, !.home = TRUE,
            !.addr = "?", !.kept = @ /\ ~Loses(l)]
FlowOpens(l) == [l EXCEPT !.open = TRUE, !.handle = @ \/ ~l.open, !.kept = @ /\ l.there]
FlowReopens(l) == [l EXCEPT !.handle = TRUE, !.kept = @ /\ l.there]
FlowSends(l, s) ==
  [l EXCEPT !.addr = FlowAddressed(l, s),
            !.missed = IF FlowHears(l, s) THEN @ ELSE @ \cup {s.says}]

FlowEffect(device, l, s) ==
  CASE s.op = "lock" -> FlowLocks(l)
    [] s.op = "online" -> FlowOpens(l)
    [] s.op = "reopen" -> FlowReopens(l)
    [] s.op = "close" -> [l EXCEPT !.handle = FALSE]
    [] s.op = "move" -> FlowMoves(l)
    [] s.op = "insert" -> FlowResets(device, l, TRUE)
    [] s.op = "release" -> IF device THEN FlowResets(device, l, FALSE) ELSE l
    [] s.op \in {"command", "empty command"} -> FlowSends(l, s)
    [] s.op = "overrun" -> FlowOverruns(l, s)
    [] s.op = "build" -> [l EXCEPT !.built = TRUE]
    [] s.op \in {"poll", "clear"} -> [l EXCEPT !.addr = "?"]
    [] s.op = "exit" -> FlowLeaves(l, "ok")
    [] s.op = "exit with error" -> FlowLeaves(l, "ERR")
    [] s.op = "return error" -> [l EXCEPT !.result = "ERR"]
    [] s.op = "unlock" -> FlowLeaves(l, l.result)
    [] OTHER -> l

FlowTarget(l, s) == IF s.skip = 0 THEN 0 ELSE l.at + s.skip
FlowFailure(l, s) ==
  LET m == [l EXCEPT !.met = @ \cup {s.name},
                     !.built = @ /\ s.op # "build",
                     !.addr = IF s.op \in {"command", "overrun"} THEN "?" ELSE @,
                     !.result = IF s.op \in {"exit", "status"} THEN "ERR" ELSE @]
  IN  IF s.op = "exit" THEN FlowLeaves(m, "ERR") ELSE m

FlowDone(device, l, s) ==
  [FlowEffect(device, l, s) EXCEPT !.at = IF s.op = "return error" THEN -1 ELSE l.at + 1]
FlowPassed(l, s) == [l EXCEPT !.at = FlowTarget(l, s)]
FlowFailed(l, s) == [FlowFailure(l, s) EXCEPT !.at = FlowTarget(l, s)]

\* A step is done, done in part, passed over or failed.
FlowStep(device, l, s) ==
  (IF ~FlowRefused(l, s) /\ (s.op = "jump" => s.may) THEN {FlowDone(device, l, s)} ELSE {})
    \cup (IF s.op = "send" THEN {l} ELSE {})
    \cup (IF s.op = "jump" THEN {FlowPassed(l, s)} ELSE {})
    \cup (IF s.op # "jump" /\ ((s.may /\ ~FlowVoid(l, s)) \/ FlowRefused(l, s))
            THEN {FlowFailed(l, s)} ELSE {})
FlowNext(device, p, l) ==
  IF l.at = 0 THEN {[FlowLeaves(l, "ERR") EXCEPT !.at = -1]}
  ELSE IF l.at \in 1..Len(p) THEN FlowStep(device, l, p[l.at]) ELSE {}

\* A bound on the steps of a call that lead to a state for the first time.
MaxSteps == 60
Flow(device, n) ==
  LET p == CallOf(device, n)
      entered == Entered(device, n)
      reached[i \in 0..MaxSteps] ==
        IF i = 0 THEN [all |-> entered, new |-> entered]
        ELSE LET r == reached[i - 1]
                 new == (UNION {FlowNext(device, p, l) : l \in r.new}) \ r.all
             IN  [all |-> r.all \cup new, new |-> new]
  IN  reached[MaxSteps].all

DeviceFlows == [n \in Names(TRUE) |-> Flow(TRUE, n)]
BoardFlows == [n \in Names(FALSE) |-> Flow(FALSE, n)]
FlowOf(t, n) == IF IsDevice(t) THEN DeviceFlows[n] ELSE BoardFlows[n]

-----------------------------------------------------------------------------
(* Mistakes *)

\* A lock is not taken twice, nor left behind, nor is anybody addressed without
\* it; data goes to who has been addressed.
Minds(n, l, s) ==
  /\ s.op = "lock" => l.home /\ (l.lock => n \in Aborting)
  /\ s.op \in {"command", "empty command", "overrun", "poll", "clear"} => l.lock /\ l.home
  /\ s.op \in {"insert", "release"} => ~l.lock
  /\ s.op \in {"read", "send"} /\ s.addr # "any" => l.addr = s.addr \/ "query" \in l.met
Careful(n, p, l) ==
  /\ l.at \in -1..60
  /\ l.lock => l.home \/ n \in Aborting
  /\ l.addr # "?" => l.lock /\ l.home
  /\ l.at \in 1..Len(p) => Minds(n, l, p[l.at])

Past(p, l) == l.at = -1 \/ l.at > Len(p)
Honest(n, l) ==
  l.result = "ok" =>
    /\ l.missed = {} \/ "query" \in l.met \/ n \in Deafening
    /\ \A e \in l.met : <<n, e>> \in Silent
Tidy(t, n, l) ==
  l.sound =>
    \/ <<t, n>> \in Losing
    \/ (l.open => l.handle) /\ l.kept /\ (n \in DOMAIN OpeningCalls /\ l.at = -1 => ~l.there)

Left(t, n, l) ==
  /\ ~l.lock /\ l.home /\ (~IsDevice(t) => l.there)
  /\ Honest(n, l) /\ Tidy(t, n, l)

FlowAssumption ==
  /\ Nobody \notin Threads
  /\ \A t \in Threads : \A n \in Names(IsDevice(t)) :
       LET p == CallOf(IsDevice(t), n)
           f == FlowOf(t, n)
       IN  /\ p \in Seq(StepType) /\ f \subseteq FlowState
           /\ Entered(IsDevice(t), n) \subseteq f
           /\ \A l \in f :
                /\ FlowNext(IsDevice(t), p, l) \subseteq f
                /\ Careful(n, p, l)
                /\ Past(p, l) => Left(t, n, l)

ASSUME ProgramsAreCareful == FlowAssumption

-----------------------------------------------------------------------------
(* The invariant *)

\* What thread t knows, wherever it is in its call.
Kept(t) ==
  IsDevice(t) => handles[t] = IF desc[t].there /\ desc[t].handle THEN {desc[t].board} ELSE {}
Knows(t, l) ==
  /\ l.met = met[t] /\ missed[t] \subseteq l.missed /\ l.result = result[t]
  /\ l.built <=> built[t]
  /\ l.there <=> desc[t].there
  /\ l.open <=> desc[t].open
  /\ l.handle <=> desc[t].handle
  /\ l.lock <=> desc[t].lock
  /\ l.sound <=> call[t].sound
  /\ l.home /\ (asserts = {} \/ l.lock) => desc[t].board = Home
  /\ l.addr # "?" => bus[desc[t].board] = [as |-> l.addr, device |-> call[t].to]
  /\ l.kept => Kept(t)

InFlow(t) ==
  /\ call[t].name \in Names(IsDevice(t))
  /\ \E l \in FlowOf(t, call[t].name) : l.at = at[t] /\ Knows(t, l)
AtRest(t) ==
  /\ at[t] = 0 /\ met[t] = {} /\ missed[t] = {} /\ ~built[t] /\ result[t] = "ok"
  /\ ~desc[t].lock /\ desc[t].board = Home /\ (~IsDevice(t) => desc[t].there)

\* has_lock means that the thread has locked its board; and boards are locked for
\* nobody else, unless an assert has failed.
LockIsOwned ==
  /\ asserts \subseteq Aborting
  /\ \A t \in Threads : desc[t].lock => lock[Home] = t
  /\ asserts = {} =>
       \A t \in Threads, b \in Boards : lock[b] = t => b = Home /\ desc[t].lock

Followed ==
  /\ LockIsOwned
  /\ \A t \in Threads : IF Idle(t) THEN AtRest(t) ELSE InFlow(t)

\* Each thread is in the flow of its call, and has_lock, which conf_lock_board
\* sets, tells whose the user_mutex of a board is; and every variable has its type.
FlowInv == TypeOK /\ Followed
=============================================================================
