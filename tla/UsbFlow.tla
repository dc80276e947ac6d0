------------------------------- MODULE UsbFlow -------------------------------
(***************************************************************************)
(* What one task can come to know, whatever the others do: a view is what  *)
(* it does itself and what the tasks share.  The views of a driver are the *)
(* views that its tasks can reach, where a task may do at any time what    *)
(* another one does in a view that agrees with its own: in the same world, *)
(* without a lock in common, and in an operation that may run beside.      *)
(*                                                                         *)
(* The views of each driver are a constant that TLC computes.  That they   *)
(* show no mistake, but for those that are known, is an assumption about   *)
(* the programs, which TLC evaluates; that all tasks together keep to them *)
(* is proved in module UsbBoard_proofs.                                    *)
(***************************************************************************)
EXTENDS UsbBoard

\* What the tasks share; a board that is being attached is "coming", and one that
\* is being detached is "leaving".
World(has, line, bound, supply) ==
  [owned |-> has, line |-> line, plugged |-> bound, power |-> supply]
Line ==
  CASE run["other"] = "attach" -> "coming"
    [] run["other"] = "detach" -> "leaving"
    [] OTHER -> online
TheWorld == World(owned, Line, plugged, power)

\* It owes an answer to none of its messages (0), or one at most; or there may be
\* more (2).  It is clear that nobody else has the urb.
View(t, op, i, has, n, free, w) ==
  [task |-> t, run |-> op, at |-> i, held |-> has, owes |-> n, clear |-> free, world |-> w]
AtFirst(t) == View(t, "none", 0, {}, 0, FALSE, World({}, "off", FALSE, "up"))

Operations(t) ==
  CASE t = "owner" -> Unlocked \cup Settings
    [] t = "other" -> Open \cup {"attach", "detach"}
    [] t = "hub" -> {"probe", "disconnect", "suspend", "resume"}

\* Settings are changed with big_gpib_mutex, a board is attached when nothing is
\* left running, and the USB core suspends when user tasks are frozen.
Alone(op, with) ==
  \/ op \in {"suspend", "resume"}
  \/ op \in Settings /\ with \in Operations("other")
  \/ op = "attach" /\ with \in Unlocked
Together(op, with) == "none" \in {op, with} \/ ~(Alone(op, with) \/ Alone(with, op))

\* What nobody takes who has not waited for it, or tried it.
Steps(d) ==
  UNION {{Programs[d][op][i] : i \in DOMAIN Programs[d][op]} : op \in DOMAIN Programs[d]}
Locks ==
  [d \in Drivers |-> LET steps == Steps(d)
                     IN  {r \in UNION {s.takes : s \in steps} :
                            \A s \in steps : r \in s.takes => r \in s.waits \cup s.tests}]

-----------------------------------------------------------------------------
(* A task's own steps *)

FlowNow(d, v) ==
  IF v.run = "none" THEN {}
  ELSE LET p == Programs[d][v.run] IN {p[i] : i \in {v.at} \cap DOMAIN p}
FlowFinished(d, v) == v.run # "none" /\ FlowNow(d, v) = {}

OneMore(n) == IF n = 0 THEN 1 ELSE 2
OneLess(n) == IF n \in {0, 1} THEN 0 ELSE 2

FlowCan(v, s) ==
  s.waits \cap v.held = {} /\ s.needs \subseteq v.world.owned /\ s.absent \cap v.world.owned = {}
FlowMayFail(v, s) ==
  \/ s.may \/ s.tests # {} \/ s.data \in {"received", "matched"}
  \/ ~(s.needs \subseteq v.world.owned) \/ s.absent \cap v.world.owned # {}

FlowDone(v, s) ==
  View(v.task, v.run, v.at + 1, (v.held \cup s.takes) \ s.frees,
       CASE s.data = "sent" -> OneMore(v.owes)
         [] s.data = "received" -> OneLess(v.owes)
         [] s.data = "drained" -> 0
         [] OTHER -> v.owes,
       v.clear \/ "urb" \in s.waits \cup s.tests,
       World((v.world.owned \cup s.keeps) \ s.drops, v.world.line, v.world.plugged, v.world.power))
FlowFailed(v, s) ==
  View(v.task, v.run, IF s.skip = 0 \/ v.at + s.skip < 1 THEN 0 ELSE v.at + s.skip,
       v.held \ s.undo,
       IF s.error THEN 0 ELSE IF s.data = "sent" THEN OneMore(v.owes) ELSE v.owes,
       v.clear, v.world)
FlowReturned(v, next) ==
  LET w == v.world
  IN  View(v.task, next, IF next = "none" THEN 0 ELSE 1, {}, 0, FALSE,
           World(IF v.run = "disconnect" THEN w.owned \ {"intfdata"} ELSE w.owned,
                 CASE v.run = "attach" -> (IF next = "detach" THEN "leaving" ELSE "on")
                   [] v.run = "detach" -> "off"
                   [] OTHER -> w.line,
                 w.plugged \/ (v.run = "probe" /\ v.at # 0),
                 CASE v.run = "suspend" /\ v.at # 0 -> "down"
                   [] v.run = "resume" -> "up"
                   [] OTHER -> w.power))

Begins(d, v) ==
  LET w == v.world
  IN  CASE v.task = "owner" ->
             IF w.line = "on" /\ w.power # "down" THEN Distinct(d, Unlocked \cup Settings) ELSE {}
        [] v.task = "other" ->
             IF w.power = "down" THEN {}
             ELSE IF w.line = "on" THEN Distinct(d, Open) \cup {"detach"}
             ELSE IF w.line = "off" THEN {"attach"} ELSE {}
        [] v.task = "hub" ->
             IF w.power = "down" THEN {"resume"}
             ELSE IF ~w.plugged THEN {"probe"}
             ELSE {"disconnect"} \cup (IF w.line \in {"on", "off"} THEN {"suspend"} ELSE {})
FlowBegun(v, op) ==
  LET w == v.world
  IN  View(v.task, op, 1, {}, 0, FALSE,
           World(w.owned,
                 CASE op = "attach" -> "coming" [] op = "detach" -> "leaving" [] OTHER -> w.line,
                 IF op = "disconnect" THEN FALSE ELSE w.plugged, w.power))

FlowSteps(d, v) ==
  (UNION {(IF FlowCan(v, s) THEN {FlowDone(v, s)} ELSE {})
            \cup (IF FlowMayFail(v, s) THEN {FlowFailed(v, s)} ELSE {}) : s \in FlowNow(d, v)})
    \cup (IF FlowFinished(d, v)
          THEN {FlowReturned(v, next) : next \in Follow(d, v.task, v.run, v.at)} ELSE {})
    \cup (IF v.run = "none" THEN {FlowBegun(v, op) : op \in Begins(d, v)} ELSE {})

-----------------------------------------------------------------------------
(* What others do *)

Agree(d, v, m) ==
  /\ v.task # m.task /\ v.world = m.world
  /\ Together(v.run, m.run)
  /\ v.held \cap m.held \cap (Locks[d] \cup {"urb"}) = {}
  /\ v.clear => "urb" \notin m.held
  /\ m.clear => "urb" \notin v.held

Permits(d, v, m, after) == Agree(d, v, m) /\ Together(v.run, after.run)
Submits(m, after) == "urb" \in after.held \ m.held
Matters(m, after) == after.world # m.world \/ Submits(m, after)
Disturbed(v, after) ==
  View(v.task, v.run, v.at, v.held, v.owes, v.clear /\ "urb" \notin after.held, after.world)
TimedOut(v) ==
  LET w == v.world
  IN  View(v.task, v.run, v.at, v.held, v.owes, v.clear,
           World(w.owned \ {"timer"}, w.line, w.plugged, w.power))

-----------------------------------------------------------------------------
(* The views of a driver *)

\* What others notice of a view, and what the views vs become when others take
\* the steps as.
Gist(d, v) == View(v.task, v.run, 0, v.held \cap (Locks[d] \cup {"urb"}), 0, v.clear, v.world)
Noticed(d, vs, as) ==
  LET During(here, steps) ==
        UNION {{Disturbed(v, a[2]) : v \in {x \in here : Permits(d, x, a[1], a[2])}} : a \in steps}
  IN  UNION {During({v \in vs : v.world = w}, {a \in as : a[1].world = w}) :
               w \in {v.world : v \in vs} \cap {a[1].world : a \in as}}

\* Views that were reached, the last ones, and the steps that others notice.
Round(d, r) ==
  LET Acts(m) == {<<Gist(d, m), Gist(d, a)>> : a \in {a \in FlowSteps(d, m) : Matters(m, a)}}
      acts == UNION {Acts(m) : m \in r.new} \ r.acts
      next == UNION {FlowSteps(d, v) \cup {TimedOut(v)} : v \in r.new}
                \cup Noticed(d, r.new, r.acts \cup acts) \cup Noticed(d, r.all, acts)
  IN  [all |-> r.all \cup next, new |-> next \ r.all, acts |-> r.acts \cup acts]

\* Bounds on the rounds that lead to a view for the first time.
MaxRounds == 20
Rounds(d, first) ==
  LET reached[i \in 0..MaxRounds] ==
        IF i = 0 THEN first
        ELSE LET r == reached[i - 1] IN IF r.new = {} THEN r ELSE Round(d, r)
  IN  reached[MaxRounds]
AllRounds(d) ==
  LET first == {AtFirst(t) : t \in Tasks}
      reached[i \in 0..MaxRounds] ==
        IF i = 0 THEN [all |-> first, new |-> first, acts |-> {}]
        ELSE LET r == reached[i - 1] IN IF r.new = {} THEN r ELSE Rounds(d, r)
  IN  reached[MaxRounds].all

Views == [d \in Drivers |-> AllRounds(d)]
InWorld ==
  [d \in Drivers |-> [w \in {v.world : v \in Views[d]} |-> {v \in Views[d] : v.world = w}]]

-----------------------------------------------------------------------------
(* Mistakes *)

Except(d, known) == {r \in {e[2] : e \in known} : <<d, r>> \in known}

\* It uses what is there.
Minds(d, v, s) ==
  LET has == v.world.owned
  IN  /\ "private" \in s.uses \/ s.waits \cap PrivateLocks[d] # {}
         => "private" \in has \/ <<d, v.run>> \in Careless
      /\ "interface" \in s.uses => "interface" \in has \/ <<d, v.run>> \in Unguarded
      /\ "device" \in s.uses => "interface" \in has \/ <<d, v.run>> \in Hasty

Careful(d, v) ==
  LET w == v.world
  IN  /\ v.task \in Tasks /\ v.run \in Operations(v.task) \cup {"none"}
      /\ v.run = "none" => v.held = {} /\ v.owes = 0
      /\ v.run \in Settings => w.line = "on"
      /\ v.task # "hub" /\ v.run # "none" => w.power = "up"
      /\ v.task = "other" /\ v.run = "none" => w.line \in {"on", "off"}
      /\ FlowFinished(d, v) => v.owes = 0 \/ <<d, v.run>> \in Crossing
      /\ FlowFinished(d, v) => v.held \subseteq Except(d, Leaky)
      /\ v.task = "other" /\ v.run = "none" /\ w.line = "off" =>
           w.owned \subseteq Except(d, Littering) \cup AdapterData[d]
                       \cup (IF w.plugged THEN {} ELSE {"intfdata"})
      /\ "listening" \in w.owned => {"private", "interface"} \subseteq w.owned
      /\ "timer" \in w.owned => "private" \in w.owned \/ "timer" \in Except(d, Littering)
      /\ \A s \in FlowNow(d, v) : Minds(d, v, s)

\* Others find it possible, and submit no second urb.
Expected(d, m, after) ==
  Matters(m, after) =>
    \A v \in InWorld[d][m.world] :
      Permits(d, v, m, after) => /\ Disturbed(v, after) \in Views[d]
                                 /\ Submits(m, after) => "urb" \notin v.held
\* It takes no other's answer, and compares what it takes where others forget.
FlowCompares(d, v) ==
  LET p == Programs[d][v.run] IN v.at + 1 \in DOMAIN p /\ p[v.at + 1].data = "matched"
TakesItsOwn(d, m) ==
  (\E s \in FlowNow(d, m) : s.data = "received") =>
    /\ d \in Forgetful \/ FlowCompares(d, m) \/ <<d, m.run>> \in Crossing
    /\ \A v \in InWorld[d][m.world] :
         Agree(d, v, m) /\ v.owes # 0 => <<d, m.run>> \in Crossing \/ <<d, v.run>> \in Crossing

FlowAssumption ==
  \A d \in Drivers :
    /\ \A t \in Tasks : Operations(t) \subseteq DOMAIN Programs[d]
    /\ "hotplug" \in Locks[d]
    /\ \A t \in Tasks : AtFirst(t) \in Views[d]
    /\ \A v \in Views[d] :
         /\ Careful(d, v) /\ TakesItsOwn(d, v)
         /\ "timer" \in v.world.owned => TimedOut(v) \in Views[d]
         /\ \A after \in FlowSteps(d, v) : after \in Views[d] /\ Expected(d, v, after)

ASSUME DriversAreCareful == FlowAssumption

-----------------------------------------------------------------------------
(* The invariant *)

\* What a view says of task t.
Owes(as, t, n) ==
  /\ n = 0 => \A i \in DOMAIN as : as[i] # t
  /\ n = 1 => \A i, j \in DOMAIN as : as[i] = t /\ as[j] = t => i = j
Knows(t, v) ==
  /\ v.task = t /\ v.run = run[t] /\ v.at = at[t] /\ v.held = held[t]
  /\ Owes(answers, t, v.owes)
  /\ v.clear => \A u \in Tasks \ {t} : "urb" \notin held[u]
  /\ v.world = TheWorld

TypeOK ==
  /\ driver \in Drivers
  /\ DOMAIN run = Tasks /\ DOMAIN at = Tasks /\ DOMAIN held = Tasks /\ DOMAIN got = Tasks
  /\ answers \in Seq(Tasks \cup {"late"})

\* Two tasks may run together, and have no lock in common.
Beside(t, u) ==
  Together(run[t], run[u]) /\ held[t] \cap held[u] \cap (Locks[driver] \cup {"urb"}) = {}

\* Who is given another's answer is in an operation.
Given(t) == Rightful(t) /\ (Idle(t) => got[t] = "nothing")

FlowInv ==
  /\ TypeOK
  /\ \A t \in Tasks : (\E v \in Views[driver] : Knows(t, v)) /\ Given(t)
  /\ \A t, u \in Tasks : t # u => Beside(t, u)
=============================================================================
