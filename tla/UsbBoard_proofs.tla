--------------------------- MODULE UsbBoard_proofs ---------------------------
(***************************************************************************)
(* Proofs about UsbBoard, for any bounds.                                  *)
(*                                                                         *)
(* Each task has one of the views of its driver.  When a task takes a      *)
(* step, its own view goes to one of its FlowSteps, and what the others    *)
(* notice of it is again a view, because their views agree with it.        *)
(* OthersKnow and StepKept say so of any step, and need of each action     *)
(* only that the step is in the flow, that its function may run beside the *)
(* others', and that it takes no lock that another task has.               *)
(***************************************************************************)
EXTENDS UsbFlow, SequenceTheorems, TLAPS

\* What a message for the host can be: for a task, or late.
Whom == Tasks \cup {"late"}

\* The view of a task tells its step.
LEMMA NowIs ==
  ASSUME NEW t, NEW v, Knows(t, v)
  PROVE  Now(t) = FlowNow(driver, v)
<1> DEFINE p == Program(t)
           now == {p[i] : i \in {at[t]} \cap DOMAIN p}
<1>1. {{q[i] : i \in {at[t]} \cap DOMAIN q} : q \in {p}} = {now}
  BY Zenon
<1>2. \A x : (CHOOSE r \in {x} : TRUE) = x
  BY Zenon
<1>3. Now(t) = IF Idle(t) THEN {} ELSE now
  BY <1>1, <1>2 DEF Now, Apply
<1> QED
  BY <1>3 DEF FlowNow, Knows, Idle, Program

-----------------------------------------------------------------------------
(* Answers *)

\* Nobody is owed an abandoned answer, and nobody else is owed more.
LEMMA AbandonedAnswers ==
  ASSUME NEW as \in Seq(Whom), NEW t \in Tasks
  PROVE  /\ Abandon(t, as) \in Seq(Whom)
         /\ \A n : Owes(Abandon(t, as), t, n)
         /\ \A u \in Tasks \ {t} : \A n : Owes(as, u, n) => Owes(Abandon(t, as), u, n)
<1> DEFINE bs == Abandon(t, as)
<1>1. DOMAIN bs = DOMAIN as /\ \A i \in DOMAIN as : bs[i] = IF as[i] = t THEN "late" ELSE as[i]
  BY DEF Abandon
<1>2. bs \in Seq(Whom)
  <2>1. DOMAIN as = 1..Len(as) /\ Len(as) \in Nat /\ \A i \in DOMAIN as : as[i] \in Whom
    BY ElementOfSeq, LenProperties
  <2>2. \A i \in DOMAIN as : (IF as[i] = t THEN "late" ELSE as[i]) \in Whom
    BY <2>1 DEF Whom
  <2>3. bs \in [1..Len(as) -> Whom]
    BY <2>1, <2>2 DEF Abandon
  <2> QED
    BY <2>1, <2>3, SeqDef
<1>3. "late" \notin Tasks
  BY DEF Tasks
<1> QED
  BY <1>1, <1>2, <1>3 DEF Owes

\* A message may be lost, or its answer is one more.
LEMMA NewAnswer ==
  ASSUME answers \in Seq(Whom), NEW t \in Tasks
  PROVE  /\ Answered(t) \in Seq(Whom)
         /\ \A n : Owes(answers, t, n) => Owes(Answered(t), t, OneMore(n))
         /\ \A u \in Tasks \ {t} : \A n : Owes(answers, u, n) => Owes(Answered(t), u, n)
<1>1. CASE Answered(t) = answers
  BY <1>1 DEF Owes, OneMore
<1>2. CASE Answered(t) = Append(answers, t)
  <2> DEFINE bs == Append(answers, t)
             k == Len(answers)
  <2>1. bs \in Seq(Whom) /\ DOMAIN bs = 1..(k + 1) /\ DOMAIN answers = 1..k
    BY DEF Whom
  <2>2. \A i \in 1..(k + 1) : bs[i] = IF i \in 1..k THEN answers[i] ELSE t
    BY <2>1
  <2>3. \A n : Owes(answers, t, n) => Owes(bs, t, OneMore(n))
    BY <2>1, <2>2 DEF Owes, OneMore
  <2>4. \A u \in Tasks \ {t} : \A n : Owes(answers, u, n) => Owes(bs, u, n)
    BY <2>1, <2>2 DEF Owes
  <2> QED
    BY <1>2, <2>1, <2>3, <2>4
<1> QED
  BY <1>1, <1>2 DEF Answered

\* Whom the next message is for is owed one less, and nobody is owed more.
LEMMA NextAnswer ==
  ASSUME NEW as \in Seq(Whom), as # <<>>
  PROVE  /\ Tail(as) \in Seq(Whom)
         /\ \A u, n : Owes(as, u, n) => Owes(Tail(as), u, n)
         /\ \A n : Owes(as, Head(as), n) => Owes(Tail(as), Head(as), OneLess(n))
         /\ \A u : Owes(as, u, 0) => Head(as) # u
<1> DEFINE bs == Tail(as)
           k == Len(as)
<1>1. /\ bs \in Seq(Whom) /\ k \in Nat \ {0} /\ DOMAIN as = 1..k /\ DOMAIN bs = 1..(k - 1)
      /\ \A i \in 1..(k - 1) : i + 1 \in 1..k /\ bs[i] = as[i + 1]
      /\ Head(as) = as[1] /\ 1 \in 1..k
  <2>0. bs \in Seq(Whom) /\ Len(bs) = k - 1 /\ \A i \in 1..Len(bs) : bs[i] = as[i + 1]
    BY HeadTailProperties
  <2>1. Head(as) = as[1]
    OBVIOUS
  <2>2. k \in Nat \ {0} /\ DOMAIN as = 1..k /\ DOMAIN bs = 1..Len(bs)
    BY <2>0, LenProperties, EmptySeq
  <2> HIDE DEF bs, k
  <2>3. DOMAIN bs = 1..(k - 1) /\ 1 \in 1..k
    BY <2>0, <2>2
  <2>4. ASSUME NEW i \in 1..(k - 1)
        PROVE  i \in 1..Len(bs) /\ i + 1 \in 1..k /\ bs[i] = as[i + 1]
    <3>1. i \in 1..Len(bs) /\ i + 1 \in 1..k
      BY <2>0, <2>2
    <3> QED
      BY <2>0, <3>1
  <2> QED
    BY <2>0, <2>1, <2>2, <2>3, <2>4
<1> HIDE DEF bs, k
<1>5. ASSUME NEW i \in DOMAIN bs
      PROVE  i \in Int /\ i + 1 \in DOMAIN as /\ i + 1 # 1 /\ bs[i] = as[i + 1] /\ 1 \in DOMAIN as
  <2>1. i \in 1..(k - 1)
    BY <1>1
  <2>2. i + 1 \in 1..k /\ bs[i] = as[i + 1] /\ DOMAIN as = 1..k /\ 1 \in 1..k /\ k \in Nat
    BY <1>1, <2>1
  <2>3. i \in Int /\ i + 1 # 1
    BY <2>1, <2>2
  <2> QED
    BY <2>2, <2>3
<1>2. ASSUME NEW u, NEW n, Owes(as, u, n)
      PROVE  Owes(bs, u, n)
  <2>1. n = 0 => \A i \in DOMAIN bs : bs[i] # u
    BY <1>2, <1>5 DEF Owes
  <2>2. ASSUME n = 1, NEW i \in DOMAIN bs, NEW j \in DOMAIN bs, bs[i] = u, bs[j] = u
        PROVE  i = j
    <3>1. i + 1 = j + 1
      BY <1>2, <1>5, <2>2 DEF Owes
    <3> QED
      BY <1>5, <3>1
  <2> QED
    BY <2>1, <2>2 DEF Owes
<1>3. ASSUME NEW n, Owes(as, Head(as), n)
      PROVE  Owes(bs, Head(as), OneLess(n))
  <2>1. CASE n \notin {0, 1}
    BY <2>1 DEF Owes, OneLess
  <2>2. ASSUME n \in {0, 1}, NEW i \in DOMAIN bs
        PROVE  bs[i] # Head(as)
    BY <1>1, <1>3, <1>5, <2>2 DEF Owes
  <2> QED
    BY <2>1, <2>2 DEF Owes, OneLess
<1>4. \A u : Owes(as, u, 0) => Head(as) # u
  BY <1>1 DEF Owes
<1> QED
  BY <1>1, <1>2, <1>3, <1>4 DEF bs

-----------------------------------------------------------------------------
(* A step of one task, and the others *)

\* What a task does to the others.
Leaves(u) ==
  /\ driver' = driver /\ TypeOK'
  /\ \A t \in Tasks \ {u} :
       /\ run'[t] = run[t] /\ at'[t] = at[t] /\ held'[t] = held[t]
       /\ \A n : Owes(answers, t, n) => Owes(answers', t, n)

LEMMA TogetherIsSymmetric ==
  ASSUME NEW op, NEW with
  PROVE  Together(op, with) <=> Together(with, op)
BY DEF Together

LEMMA ViewFields ==
  ASSUME NEW t, NEW op, NEW i, NEW h, NEW n, NEW f, NEW w
  PROVE  LET v == View(t, op, i, h, n, f, w)
         IN  /\ v.task = t /\ v.run = op /\ v.at = i /\ v.held = h /\ v.owes = n
             /\ v.clear = f /\ v.world = w
BY DEF View

\* What another task notices of a step of u is one of its views.
LEMMA OthersKnow ==
  ASSUME FlowInv, NEW u \in Tasks, NEW m \in Views[driver], Knows(u, m),
         NEW after \in FlowSteps(driver, m), Leaves(u),
         after.run = run'[u], after.held = held'[u], after.world = TheWorld',
         NEW t \in Tasks \ {u}, Together(run[t], run'[u])
  PROVE  /\ \E v \in Views[driver] : Knows(t, v)'
         /\ Submits(m, after) => "urb" \notin held[t]
<1>1. PICK v \in Views[driver] : Knows(t, v)
  BY DEF FlowInv
<1>2. Beside(t, u)
  BY DEF FlowInv
<1>3. Permits(driver, v, m, after)
  BY <1>1, <1>2 DEF Permits, Agree, Knows, Beside
<1>4. driver \in Drivers
  BY DEF FlowInv, TypeOK
<1>5. Expected(driver, m, after)
  BY <1>4, DriversAreCareful DEF FlowAssumption
<1>6. v \in InWorld[driver][m.world]
  BY <1>1, <1>4 DEF InWorld, Knows
<1>7. CASE Matters(m, after)
  <2> DEFINE w == Disturbed(v, after)
  <2>1. w \in Views[driver] /\ (Submits(m, after) => "urb" \notin v.held)
    BY <1>3, <1>5, <1>6, <1>7 DEF Expected
  <2>2. /\ w.task = v.task /\ w.run = v.run /\ w.at = v.at /\ w.held = v.held /\ w.owes = v.owes
        /\ w.clear = (v.clear /\ "urb" \notin after.held) /\ w.world = after.world
    BY ViewFields DEF Disturbed
  <2>3. w.clear => \A x \in Tasks \ {t} : "urb" \notin held'[x]
    BY <1>1, <2>2 DEF Knows, Leaves
  <2>4. Knows(t, w)'
    BY <1>1, <2>2, <2>3 DEF Knows, Leaves
  <2> QED
    BY <1>1, <2>1, <2>4 DEF Knows
<1>8. CASE ~Matters(m, after)
  <2>1. v.clear => \A x \in Tasks \ {t} : "urb" \notin held'[x]
    BY <1>1, <1>8 DEF Knows, Leaves, Matters, Submits
  <2>2. Knows(t, v)'
    BY <1>1, <1>8, <2>1 DEF Knows, Leaves, Matters
  <2> QED
    BY <1>8, <2>2 DEF Matters
<1> QED
  BY <1>7, <1>8

\* A step of task u that another cannot object to keeps the invariant.
LEMMA StepKept ==
  ASSUME FlowInv, NEW u \in Tasks, NEW m \in Views[driver], Knows(u, m),
         NEW after \in FlowSteps(driver, m), Leaves(u), Knows(u, after)',
         \A t \in Tasks \ {u} :
           /\ Together(run[t], run'[u])
           /\ held[t] \cap held'[u] \cap Locks[driver] = {},
         \A t \in Tasks : Given(t)'
  PROVE  FlowInv'
<1>1. /\ after.run = run'[u] /\ after.held = held'[u] /\ after.world = TheWorld'
      /\ m.held = held[u]
  BY DEF Knows
<1>2. driver \in Drivers /\ after \in Views[driver]
  BY DriversAreCareful DEF FlowInv, TypeOK, FlowAssumption
<1>3. \A t \in Tasks \ {u} :
        /\ \E v \in Views[driver] : Knows(t, v)'
        /\ "urb" \in held'[u] \ held[u] => "urb" \notin held[t]
  BY <1>1, OthersKnow DEF Submits
<1>4. \A t \in Tasks : \E v \in Views[driver] : Knows(t, v)'
  BY <1>2, <1>3
<1>5. ASSUME NEW t \in Tasks \ {u}
      PROVE  Beside(t, u)' /\ Beside(u, t)'
  <2>1. held[t] \cap held[u] \cap {"urb"} = {}
    BY DEF FlowInv, Beside
  <2>2. held'[t] \cap held'[u] \cap (Locks[driver] \cup {"urb"}) = {}
    BY <1>3, <2>1 DEF Leaves
  <2>3. Together(run'[t], run'[u]) /\ Together(run'[u], run'[t])
    BY TogetherIsSymmetric DEF Leaves
  <2> QED
    BY <2>2, <2>3 DEF Beside, Leaves
<1>6. ASSUME NEW t \in Tasks \ {u}, NEW w \in Tasks \ {u}, t # w
      PROVE  Beside(t, w)'
  BY <1>6 DEF FlowInv, Beside, Leaves
<1>7. \A t, w \in Tasks : t # w => Beside(t, w)'
  BY <1>5, <1>6
<1>8. TypeOK' /\ driver' = driver
  BY DEF Leaves
<1> QED
  BY <1>4, <1>7, <1>8 DEF FlowInv

\* The four ways of a task's view.
LEMMA FlowStepKinds ==
  ASSUME NEW d, NEW v
  PROVE  /\ \A s \in FlowNow(d, v) : FlowCan(v, s) => FlowDone(v, s) \in FlowSteps(d, v)
         /\ \A s \in FlowNow(d, v) : FlowMayFail(v, s) => FlowFailed(v, s) \in FlowSteps(d, v)
         /\ FlowFinished(d, v) =>
              \A next \in Follow(d, v.task, v.run, v.at) : FlowReturned(v, next) \in FlowSteps(d, v)
         /\ v.run = "none" => \A op \in Begins(d, v) : FlowBegun(v, op) \in FlowSteps(d, v)
<1> DEFINE After(s) == (IF FlowCan(v, s) THEN {FlowDone(v, s)} ELSE {})
                         \cup (IF FlowMayFail(v, s) THEN {FlowFailed(v, s)} ELSE {})
           steps == UNION {After(s) : s \in FlowNow(d, v)}
           returns == IF FlowFinished(d, v)
                      THEN {FlowReturned(v, next) : next \in Follow(d, v.task, v.run, v.at)} ELSE {}
           begins == IF v.run = "none" THEN {FlowBegun(v, op) : op \in Begins(d, v)} ELSE {}
<1>0. FlowSteps(d, v) = steps \cup returns \cup begins
  BY DEF FlowSteps
<1> HIDE DEF steps, returns, begins
<1>1. UNION {After(s) : s \in FlowNow(d, v)} \subseteq FlowSteps(d, v)
  BY <1>0 DEF steps
<1>2. \A s \in FlowNow(d, v) : After(s) \subseteq FlowSteps(d, v)
  BY <1>1
<1>3. \A s \in FlowNow(d, v) : FlowCan(v, s) => FlowDone(v, s) \in FlowSteps(d, v)
  BY <1>2
<1>4. \A s \in FlowNow(d, v) : FlowMayFail(v, s) => FlowFailed(v, s) \in FlowSteps(d, v)
  BY <1>2
<1>5. FlowFinished(d, v) =>
        \A next \in Follow(d, v.task, v.run, v.at) : FlowReturned(v, next) \in FlowSteps(d, v)
  BY <1>0 DEF returns
<1>6. v.run = "none" => \A op \in Begins(d, v) : FlowBegun(v, op) \in FlowSteps(d, v)
  BY <1>0 DEF begins
<1> QED
  BY <1>3, <1>4, <1>5, <1>6

\* What is known of a task that has a view.
LEMMA ViewIsCareful ==
  ASSUME FlowInv, NEW t \in Tasks, NEW v \in Views[driver], Knows(t, v)
  PROVE  /\ Careful(driver, v) /\ TakesItsOwn(driver, v)
         /\ "timer" \in v.world.owned => TimedOut(v) \in Views[driver]
         /\ run[t] \in Operations(t) \cup {"none"}
         /\ Idle(t) => held[t] = {} /\ v.owes = 0
         /\ run[t] \in Settings => Line = "on"
         /\ t # "hub" /\ ~Idle(t) => power = "up"
         /\ t = "other" /\ Idle(t) => Line \in {"on", "off"}
<1>1. /\ Careful(driver, v) /\ TakesItsOwn(driver, v)
      /\ ("timer" \in v.world.owned => TimedOut(v) \in Views[driver])
  BY DriversAreCareful DEF FlowInv, TypeOK, FlowAssumption
<1>2. v.world.line = Line /\ v.world.power = power
  BY DEF Knows, TheWorld, World
<1> QED
  BY <1>1, <1>2 DEF Careful, Knows, Idle

-----------------------------------------------------------------------------
(* Operations begin *)

\* Who has not moved, or has been given nothing, has been given what it may be.
LEMMA StillRightful ==
  ASSUME NEW t, driver' = driver
  PROVE  /\ got'[t] = "nothing" => Rightful(t)'
         /\ Rightful(t) /\ got'[t] = got[t] /\ run'[t] = run[t] /\ at'[t] = at[t] => Rightful(t)'
BY DEF Rightful, Compares, Program

\* A function that may begin in a view, beside the others', begins.
LEMMA StartKept ==
  ASSUME FlowInv, NEW u \in Tasks, NEW op, Starts(u, op),
         NEW m \in Views[driver], Knows(u, m), op \in Begins(driver, m),
         Line' = CASE op = "attach" -> "coming" [] op = "detach" -> "leaving" [] OTHER -> Line,
         plugged' = IF op = "disconnect" THEN FALSE ELSE plugged,
         \A t \in Tasks \ {u} : Together(run[t], op)
  PROVE  FlowInv'
<1> DEFINE after == FlowBegun(m, op)
<1>1. m.run = "none" /\ Idle(u) /\ held[u] = {} /\ Owes(answers, u, 0)
  <2>1. Idle(u) /\ m.run = run[u] /\ Owes(answers, u, m.owes)
    BY DEF Starts, Knows
  <2>2. Idle(u) => held[u] = {} /\ m.owes = 0
    BY ViewIsCareful
  <2> QED
    BY <2>1, <2>2 DEF Idle
<1>2. after \in FlowSteps(driver, m)
  BY <1>1, FlowStepKinds
<1>3. /\ after.task = m.task /\ after.run = op /\ after.at = 1 /\ after.held = {} /\ after.owes = 0
      /\ after.clear = FALSE
      /\ after.world = World(m.world.owned,
                             CASE op = "attach" -> "coming" [] op = "detach" -> "leaving"
                               [] OTHER -> m.world.line,
                             IF op = "disconnect" THEN FALSE ELSE m.world.plugged, m.world.power)
  BY DEF FlowBegun, View
<1>4. /\ run' = [run EXCEPT ![u] = op] /\ at' = [at EXCEPT ![u] = 1]
      /\ driver' = driver /\ held' = held /\ owned' = owned /\ answers' = answers /\ got' = got
      /\ power' = power
  BY DEF Starts
<1>5. TypeOK'
  BY <1>4 DEF FlowInv, TypeOK
<1>6. Leaves(u)
  BY <1>4, <1>5 DEF FlowInv, TypeOK, Leaves
<1>7. after.world = TheWorld'
  BY <1>3, <1>4 DEF Knows, TheWorld, World
<1>8. Knows(u, after)'
  BY <1>1, <1>3, <1>4, <1>7 DEF FlowInv, TypeOK, Knows
<1>9. \A t \in Tasks : Given(t)'
  BY <1>1, <1>4, StillRightful DEF FlowInv, TypeOK, Given, Idle
<1>10. \A t \in Tasks \ {u} :
         /\ Together(run[t], run'[u])
         /\ held[t] \cap held'[u] \cap Locks[driver] = {}
  BY <1>1, <1>4 DEF FlowInv, TypeOK
<1> QED
  BY <1>2, <1>6, <1>8, <1>9, <1>10, StepKept

\* Distinct leaves out functions, and adds none.
LEMMA DistinctAreOps ==
  ASSUME NEW d, NEW ops
  PROVE  Distinct(d, ops) \subseteq ops
<1> DEFINE Chosen(ps) == {op \in ops : op = CHOOSE p \in ops : ps[p] = ps[op]}
<1>1. {Chosen(ps) : ps \in {Programs[d]}} = {Chosen(Programs[d])}
  BY Zenon
<1>2. \A x : (CHOOSE r \in {x} : TRUE) = x
  BY Zenon
<1>3. Distinct(d, ops) = Chosen(Programs[d])
  BY <1>1, <1>2 DEF Distinct, Apply
<1> QED
  BY <1>3

\* The operations that a task may be in.
LEMMA RunIs ==
  ASSUME FlowInv, NEW t \in Tasks
  PROVE  /\ run[t] \in Operations(t) \cup {"none"}
         /\ Idle(t) => held[t] = {}
         /\ t # "hub" /\ ~Idle(t) => power = "up"
         /\ t = "other" /\ Idle(t) => Line \in {"on", "off"}
<1>1. PICK v \in Views[driver] : Knows(t, v)
  BY DEF FlowInv
<1> QED
  BY <1>1, ViewIsCareful

LEMMA OperationsAre ==
  /\ Operations("owner") = Unlocked \cup Settings
  /\ Operations("other") = Open \cup {"attach", "detach"}
  /\ Operations("hub") = {"probe", "disconnect", "suspend", "resume"}
BY DEF Operations

LEMMA OwnerStartsKept == FlowInv /\ OwnerStarts => FlowInv'
<1> SUFFICES ASSUME FlowInv, OwnerStarts
             PROVE  FlowInv'
  OBVIOUS
<1>1. PICK op \in Distinct(driver, Unlocked \cup Settings) : Starts("owner", op)
  BY DEF OwnerStarts
<1>2. "owner" \in Tasks /\ "other" \in Tasks /\ "hub" \in Tasks
  BY DEF Tasks
<1>3. PICK m \in Views[driver] : Knows("owner", m)
  BY <1>2 DEF FlowInv
<1>4. op \in Unlocked \cup Settings
  BY <1>1, DistinctAreOps
<1>5. op \notin {"attach", "detach", "disconnect"}
  BY <1>4 DEF Unlocked, Settings
<1>6. /\ online = "on" /\ online' = online /\ plugged' = plugged /\ Idle("other")
      /\ power # "down" /\ run["hub"] \notin {"suspend", "resume"}
      /\ run' = [run EXCEPT !["owner"] = op]
  BY <1>1 DEF OwnerStarts, BigMutexFree, Frozen, Starts
<1>7. Line = "on" /\ Line' = "on"
  BY <1>2, <1>6 DEF Line, FlowInv, TypeOK, Idle
<1>8. op \in Begins(driver, m)
  BY <1>1, <1>3, <1>6, <1>7 DEF Begins, Knows, TheWorld, World
<1>9. Together(run["other"], op)
  BY <1>6 DEF Together, Idle
<1>10. Together(run["hub"], op)
  <2>1. run["hub"] \in {"none", "probe", "disconnect"}
    BY <1>2, <1>6, RunIs, OperationsAre
  <2> QED
    BY <1>4, <2>1, OperationsAre DEF Together, Alone, Open, Unlocked, Settings
<1>11. \A t \in Tasks \ {"owner"} : Together(run[t], op)
  BY <1>9, <1>10 DEF Tasks
<1> QED
  BY <1>1, <1>2, <1>3, <1>5, <1>6, <1>7, <1>8, <1>11, StartKept

LEMMA TasksAre ==
  /\ "owner" \in Tasks /\ "other" \in Tasks /\ "hub" \in Tasks
  /\ \A t \in Tasks : t = "owner" \/ t = "other" \/ t = "hub"
BY DEF Tasks

LEMMA OtherStartsKept == FlowInv /\ OtherStarts => FlowInv'
<1> SUFFICES ASSUME FlowInv, OtherStarts
             PROVE  FlowInv'
  OBVIOUS
<1>1. PICK op \in Distinct(driver, Open) : Starts("other", op)
  BY DEF OtherStarts
<1>2. PICK m \in Views[driver] : Knows("other", m)
  BY TasksAre DEF FlowInv
<1>3. op \in Open
  BY <1>1, DistinctAreOps
<1>4. op \notin {"attach", "detach", "disconnect"}
  BY <1>3 DEF Open
<1>5. /\ online = "on" /\ online' = online /\ plugged' = plugged
      /\ Idle("other") /\ run["owner"] \notin Settings
      /\ power # "down" /\ run["hub"] \notin {"suspend", "resume"}
      /\ run' = [run EXCEPT !["other"] = op]
  BY <1>1 DEF OtherStarts, BigMutexFree, Frozen, Starts
<1>6. Line = "on" /\ Line' = "on"
  BY <1>4, <1>5, TasksAre DEF Line, FlowInv, TypeOK, Idle
<1>7. op \in Begins(driver, m)
  BY <1>1, <1>2, <1>5, <1>6 DEF Begins, Knows, TheWorld, World
<1>8. Together(run["owner"], op)
  <2>1. run["owner"] \in Unlocked \cup {"none"}
    BY <1>5, TasksAre, RunIs, OperationsAre
  <2> QED
    BY <1>3, <2>1, OperationsAre DEF Together, Alone, Open, Unlocked, Settings
<1>9. Together(run["hub"], op)
  <2>1. run["hub"] \in {"none", "probe", "disconnect"}
    BY <1>5, TasksAre, RunIs, OperationsAre
  <2> QED
    BY <1>3, <2>1, OperationsAre DEF Together, Alone, Open, Unlocked, Settings
<1>10. \A t \in Tasks \ {"other"} : Together(run[t], op)
  BY <1>8, <1>9, TasksAre
<1> QED
  BY <1>1, <1>2, <1>4, <1>5, <1>6, <1>7, <1>10, StartKept, TasksAre

LEMMA GoesOnlineKept == FlowInv /\ GoesOnline => FlowInv'
<1> SUFFICES ASSUME FlowInv, GoesOnline
             PROVE  FlowInv'
  OBVIOUS
<1>1. /\ Starts("other", "attach") /\ Idle("other") /\ Idle("owner") /\ online = "off"
      /\ online' = online /\ plugged' = plugged
      /\ power # "down" /\ run["hub"] \notin {"suspend", "resume"}
      /\ run' = [run EXCEPT !["other"] = "attach"]
  BY DEF GoesOnline, BigMutexFree, Starts, Frozen
<1>2. PICK m \in Views[driver] : Knows("other", m)
  BY TasksAre DEF FlowInv
<1>3. Line = "off" /\ Line' = "coming"
  BY <1>1, TasksAre DEF Line, FlowInv, TypeOK, Idle
<1>4. "attach" \in Begins(driver, m)
  BY <1>1, <1>2, <1>3 DEF Begins, Knows, TheWorld, World
<1>5. Together(run["owner"], "attach")
  BY <1>1 DEF Idle, Together
<1>6. Together(run["hub"], "attach")
  <2>1. run["hub"] \in {"none", "probe", "disconnect"}
    BY <1>1, TasksAre, RunIs, OperationsAre
  <2> QED
    BY <2>1, OperationsAre DEF Together, Alone, Open, Unlocked, Settings
<1>7. \A t \in Tasks \ {"other"} : Together(run[t], "attach")
  BY <1>5, <1>6, TasksAre
<1> QED
  BY <1>1, <1>2, <1>3, <1>4, <1>7, StartKept, TasksAre

LEMMA GoesOfflineKept == FlowInv /\ GoesOffline => FlowInv'
<1> SUFFICES ASSUME FlowInv, GoesOffline
             PROVE  FlowInv'
  OBVIOUS
<1>1. /\ Starts("other", "detach") /\ Idle("other") /\ online = "on"
      /\ run["owner"] \notin Settings /\ online' = online /\ plugged' = plugged
      /\ power # "down" /\ run["hub"] \notin {"suspend", "resume"}
      /\ run' = [run EXCEPT !["other"] = "detach"]
  BY DEF GoesOffline, BigMutexFree, Starts, Frozen
<1>2. PICK m \in Views[driver] : Knows("other", m)
  BY TasksAre DEF FlowInv
<1>3. Line = "on" /\ Line' = "leaving"
  BY <1>1, TasksAre DEF Line, FlowInv, TypeOK, Idle
<1>4. "detach" \in Begins(driver, m)
  BY <1>1, <1>2, <1>3 DEF Begins, Knows, TheWorld, World
<1>5. Together(run["owner"], "detach")
  <2>1. run["owner"] \in Unlocked \cup {"none"}
    BY <1>1, TasksAre, RunIs, OperationsAre
  <2> QED
    BY <2>1, OperationsAre DEF Together, Alone, Open, Unlocked, Settings
<1>6. Together(run["hub"], "detach")
  <2>1. run["hub"] \in {"none", "probe", "disconnect"}
    BY <1>1, TasksAre, RunIs, OperationsAre
  <2> QED
    BY <2>1, OperationsAre DEF Together, Alone, Open, Unlocked, Settings
<1>7. \A t \in Tasks \ {"other"} : Together(run[t], "detach")
  BY <1>5, <1>6, TasksAre
<1> QED
  BY <1>1, <1>2, <1>3, <1>4, <1>7, StartKept, TasksAre

\* What the USB core begins.
LEMMA HubStartsKept ==
  ASSUME FlowInv, NEW op, Starts("hub", op), online' = online,
         plugged' = IF op = "disconnect" THEN FALSE ELSE plugged,
         \/ power # "down" /\ ~plugged /\ op = "probe"
         \/ power # "down" /\ plugged /\ op = "disconnect"
         \/ power # "down" /\ plugged /\ op = "suspend" /\ Idle("owner") /\ Idle("other")
         \/ power = "down" /\ op = "resume"
  PROVE  FlowInv'
<1>1. PICK m \in Views[driver] : Knows("hub", m)
  BY TasksAre DEF FlowInv
<1>2. op \in Begins(driver, m)
  <2>1. op = "suspend" => Line \in {"on", "off"}
    BY RunIs, TasksAre
  <2> QED
    BY <1>1, <2>1 DEF Begins, Knows, TheWorld, World
<1>3. run' = [run EXCEPT !["hub"] = op]
  BY DEF Starts
<1>4. op \notin {"attach", "detach"} /\ Line' = Line
  BY <1>3 DEF Line, FlowInv, TypeOK
<1>5. ASSUME NEW t \in {"owner", "other"}
      PROVE  Together(run[t], op)
  <2>1. CASE op \in {"suspend", "resume"}
    <3>1. Idle(t)
      BY <2>1, RunIs, TasksAre
    <3> QED
      BY <3>1 DEF Together, Idle
  <2>2. CASE op \in {"probe", "disconnect"}
    <3>1. run[t] \in Unlocked \cup Settings \cup Open \cup {"attach", "detach", "none"}
      BY RunIs, TasksAre, OperationsAre
    <3> QED
      BY <2>2, <3>1, OperationsAre DEF Together, Alone, Open, Unlocked, Settings
  <2> QED
    BY <2>1, <2>2
<1>6. \A t \in Tasks \ {"hub"} : Together(run[t], op)
  BY <1>5, TasksAre
<1> QED
  BY <1>1, <1>2, <1>4, <1>6, StartKept, TasksAre

LEMMA HubStarts ==
  FlowInv /\ (Plugs \/ Unplugs \/ Suspends \/ Resumes) => FlowInv'
<1>1. FlowInv /\ Plugs => FlowInv'
  BY HubStartsKept DEF Plugs
<1>2. FlowInv /\ Unplugs => FlowInv'
  BY HubStartsKept DEF Unplugs
<1>3. FlowInv /\ Suspends => FlowInv'
  BY HubStartsKept DEF Suspends
<1>4. FlowInv /\ Resumes => FlowInv'
  BY HubStartsKept DEF Resumes
<1> QED
  BY <1>1, <1>2, <1>3, <1>4

-----------------------------------------------------------------------------
(* Steps *)

\* The views of two tasks agree.
LEMMA OthersAgree ==
  ASSUME FlowInv, NEW u \in Tasks, NEW t \in Tasks \ {u},
         NEW m \in Views[driver], Knows(u, m), NEW v \in Views[driver], Knows(t, v)
  PROVE  v \in InWorld[driver][m.world] /\ Agree(driver, v, m)
<1>1. Beside(t, u) /\ driver \in Drivers
  BY DEF FlowInv, TypeOK
<1>2. Agree(driver, v, m)
  BY <1>1 DEF Agree, Knows, Beside
<1> QED
  BY <1>1, <1>2 DEF InWorld, Knows

\* What a step does to the answers, as the views count them.
LEMMA AnswersDone ==
  ASSUME FlowInv, NEW u \in Tasks, NEW m, Knows(u, m), NEW s, NEW bs,
         s.data = "received" => answers # <<>>,
         bs = CASE s.data = "sent" -> Answered(u)
                [] s.data = "received" ->
                      IF Head(answers) = u THEN Tail(answers) ELSE Abandon(u, Tail(answers))
                [] s.data = "drained" -> <<>>
                [] OTHER -> answers
  PROVE  /\ bs \in Seq(Whom)
         /\ Owes(bs, u, FlowDone(m, s).owes)
         /\ \A t \in Tasks \ {u} : \A n : Owes(answers, t, n) => Owes(bs, t, n)
<1>1. answers \in Seq(Whom) /\ Owes(answers, u, m.owes)
  BY DEF FlowInv, TypeOK, Knows, Whom
<1>2. FlowDone(m, s).owes = CASE s.data = "sent" -> OneMore(m.owes)
                              [] s.data = "received" -> OneLess(m.owes)
                              [] s.data = "drained" -> 0
                              [] OTHER -> m.owes
  BY DEF FlowDone, View
<1>3. CASE s.data = "sent"
  <2>1. bs = Answered(u) /\ FlowDone(m, s).owes = OneMore(m.owes)
    BY <1>2, <1>3
  <2> QED
    BY <1>1, <2>1, NewAnswer
<1>4. CASE s.data = "received"
  <2>1. FlowDone(m, s).owes = OneLess(m.owes) /\ answers # <<>>
    BY <1>2, <1>4
  <2>2. /\ Tail(answers) \in Seq(Whom)
        /\ \A t, n : Owes(answers, t, n) => Owes(Tail(answers), t, n)
        /\ \A n : Owes(answers, Head(answers), n) => Owes(Tail(answers), Head(answers), OneLess(n))
    BY <1>1, <2>1, NextAnswer
  <2>3. CASE Head(answers) = u
    BY <1>1, <1>4, <2>1, <2>2, <2>3
  <2>4. CASE Head(answers) # u
    <3>1. bs = Abandon(u, Tail(answers))
      BY <1>4, <2>4
    <3> QED
      BY <2>2, <3>1, AbandonedAnswers
  <2> QED
    BY <2>3, <2>4
<1>5. CASE s.data = "drained"
  <2>1. FlowDone(m, s).owes = 0 /\ bs = <<>>
    BY <1>2, <1>5
  <2>2. <<>> \in Seq(Whom) /\ DOMAIN <<>> = {}
    OBVIOUS
  <2> QED
    BY <2>1, <2>2 DEF Owes
<1>6. CASE s.data \notin {"sent", "received", "drained"}
  BY <1>1, <1>2, <1>6
<1> QED
  BY <1>3, <1>4, <1>5, <1>6

LEMMA DoesKept == \A u \in Tasks : FlowInv /\ Does(u) => FlowInv'
<1> SUFFICES ASSUME FlowInv, NEW u \in Tasks, Does(u)
             PROVE  FlowInv'
  OBVIOUS
<1>1. PICK s \in Now(u) :
        /\ ~Blocked(s) /\ ~Refused(u, s)
        /\ held' = [held EXCEPT ![u] = (@ \cup s.takes) \ s.frees]
        /\ owned' = (owned \cup s.keeps) \ s.drops
        /\ answers' = CASE s.data = "sent" -> Answered(u)
                        [] s.data = "received" ->
                              IF Head(answers) = u THEN Tail(answers) ELSE Abandon(u, Tail(answers))
                        [] s.data = "drained" -> <<>>
                        [] OTHER -> answers
        /\ got' = [got EXCEPT ![u] = IF s.data = "received" THEN Origin(u) ELSE "nothing"]
  BY DEF Does
<1>2. /\ at' = [at EXCEPT ![u] = @ + 1]
      /\ driver' = driver /\ run' = run /\ online' = online /\ plugged' = plugged /\ power' = power
  BY DEF Does
<1>3. PICK m \in Views[driver] : Knows(u, m)
  BY DEF FlowInv
<1>4. s \in FlowNow(driver, m)
  BY <1>1, <1>3, NowIs
<1> DEFINE after == FlowDone(m, s)
<1>5. /\ s.waits \cap held[u] = {}
      /\ \A t \in Tasks \ {u} : (s.waits \cup s.tests) \cap held[t] = {}
      /\ s.needs \subseteq owned /\ s.absent \cap owned = {}
      /\ s.data = "received" => answers # <<>>
  BY <1>1 DEF Blocked, Refused
<1>6. after \in FlowSteps(driver, m)
  <2>1. FlowCan(m, s)
    BY <1>3, <1>5 DEF FlowCan, Knows, TheWorld, World
  <2> QED
    BY <1>4, <2>1, FlowStepKinds
<1>7. /\ after.task = m.task /\ after.run = m.run /\ after.at = m.at + 1
      /\ after.held = (m.held \cup s.takes) \ s.frees
      /\ after.clear = (m.clear \/ "urb" \in s.waits \cup s.tests)
      /\ after.world = World((m.world.owned \cup s.keeps) \ s.drops, m.world.line,
                             m.world.plugged, m.world.power)
  BY DEF FlowDone, View
<1>8. /\ answers' \in Seq(Whom) /\ Owes(answers', u, after.owes)
      /\ \A t \in Tasks \ {u} : \A n : Owes(answers, t, n) => Owes(answers', t, n)
  BY <1>1, <1>3, <1>5, AnswersDone
<1>9. TypeOK'
  BY <1>1, <1>2, <1>8 DEF FlowInv, TypeOK, Whom
<1>10. Leaves(u)
  BY <1>1, <1>2, <1>8, <1>9 DEF FlowInv, TypeOK, Leaves
<1>11. after.world = TheWorld'
  BY <1>1, <1>2, <1>3, <1>7 DEF Knows, TheWorld, World, Line
<1>12. held'[u] = (held[u] \cup s.takes) \ s.frees /\ at'[u] = at[u] + 1
  BY <1>1, <1>2 DEF FlowInv, TypeOK
<1>13. after.clear => \A t \in Tasks \ {u} : "urb" \notin held'[t]
  BY <1>3, <1>5, <1>7, <1>10 DEF Knows, Leaves
<1> HIDE DEF after
<1>14. Knows(u, after)'
  BY <1>2, <1>3, <1>7, <1>8, <1>11, <1>12, <1>13 DEF Knows
<1>15. driver \in Drivers /\ s \in Steps(driver)
  <2>1. driver \in Drivers
    BY DEF FlowInv, TypeOK
  <2>2. run[u] # "none" /\ run[u] \in DOMAIN Programs[driver]
    BY <1>3, <1>4, <2>1, RunIs, DriversAreCareful DEF FlowNow, Knows, FlowAssumption
  <2>3. PICK i \in DOMAIN Programs[driver][run[u]] : s = Programs[driver][run[u]][i]
    BY <1>3, <1>4, <2>2 DEF FlowNow, Knows
  <2> QED
    BY <2>1, <2>2, <2>3 DEF Steps
<1>16. \A t \in Tasks \ {u} :
         /\ Together(run[t], run'[u])
         /\ held[t] \cap held'[u] \cap Locks[driver] = {}
  <2>1. \A r \in Locks[driver] : r \in s.takes => r \in s.waits \cup s.tests
    BY <1>15 DEF Locks
  <2> QED
    BY <1>2, <1>5, <1>12, <2>1 DEF FlowInv, Beside
<1>17. ASSUME NEW t \in Tasks
       PROVE  Given(t)'
  <2>1. CASE t # u
    BY <1>1, <1>2, <2>1, StillRightful DEF FlowInv, TypeOK, Given, Idle
  <2>2. CASE t = u
    <3>1. ~Idle(u)'
      BY <1>1, <1>2 DEF Now, Idle
    <3>2. CASE s.data # "received"
      <4>1. got'[u] = "nothing"
        BY <1>1, <3>2 DEF FlowInv, TypeOK
      <4> QED
        BY <1>2, <2>2, <3>1, <4>1, StillRightful DEF Given
    <3>3. CASE s.data = "received"
      <4> DEFINE x == Head(answers)
      <4>1. got'[u] = Origin(u) /\ answers # <<>> /\ answers \in Seq(Whom)
        BY <1>1, <1>5, <3>3 DEF FlowInv, TypeOK, Whom
      <4>2. TakesItsOwn(driver, m)
        BY <1>3, ViewIsCareful
      <4>3. CASE x = u
        BY <2>2, <3>1, <4>1, <4>3 DEF Given, Rightful, Origin
      <4>4. CASE x \in Tasks \ {u}
        <5>1. PICK v \in Views[driver] : Knows(x, v)
          BY <4>4 DEF FlowInv
        <5>2. v.owes # 0
          BY <4>1, <5>1, NextAnswer DEF Knows
        <5>3. v \in InWorld[driver][m.world] /\ Agree(driver, v, m)
          BY <1>3, <4>4, <5>1, OthersAgree
        <5>4. <<driver, run[u]>> \in Crossing \/ <<driver, run[x]>> \in Crossing
          BY <1>3, <1>4, <3>3, <4>2, <5>1, <5>2, <5>3 DEF TakesItsOwn, Knows
        <5>5. got'[u] = run[x]
          BY <4>1, <4>4 DEF Origin
        <5> QED
          BY <1>2, <2>2, <3>1, <5>4, <5>5 DEF Given, Rightful
      <4>5. CASE x \notin Tasks
        <5>1. got'[u] = "late"
          BY <4>1, <4>5 DEF Origin
        <5>2. driver \in Forgetful \/ FlowCompares(driver, m) \/ <<driver, run[u]>> \in Crossing
          BY <1>3, <1>4, <3>3, <4>2 DEF TakesItsOwn, Knows
        <5>3. FlowCompares(driver, m) => Compares(u)'
          BY <1>2, <1>3, <1>12 DEF FlowCompares, Compares, Program, Knows
        <5> QED
          BY <1>2, <2>2, <3>1, <5>1, <5>2, <5>3 DEF Given, Rightful
      <4> QED
        BY <4>3, <4>4, <4>5
    <3> QED
      BY <3>2, <3>3
  <2> QED
    BY <2>1, <2>2
<1> QED
  BY <1>3, <1>6, <1>10, <1>14, <1>16, <1>17, StepKept

LEMMA FailsKept == \A u \in Tasks : FlowInv /\ Fails(u) => FlowInv'
<1> SUFFICES ASSUME FlowInv, NEW u \in Tasks, Fails(u)
             PROVE  FlowInv'
  OBVIOUS
<1>1. PICK s \in Now(u) :
        /\ s.may \/ Refused(u, s)
        /\ held' = [held EXCEPT ![u] = @ \ s.undo]
        /\ at' = [at EXCEPT ![u] = IF s.skip = 0 \/ @ + s.skip < 1 THEN 0 ELSE @ + s.skip]
        /\ \E as \in {answers, IF s.data = "sent" THEN Answered(u) ELSE answers} :
             answers' = IF s.error THEN Abandon(u, as) ELSE as
        /\ got' = [got EXCEPT ![u] = "nothing"]
  BY DEF Fails
<1>2. PICK as \in {answers, IF s.data = "sent" THEN Answered(u) ELSE answers} :
        answers' = IF s.error THEN Abandon(u, as) ELSE as
  BY <1>1
<1>3. /\ driver' = driver /\ run' = run /\ owned' = owned /\ online' = online
      /\ plugged' = plugged /\ power' = power
  BY DEF Fails
<1>4. PICK m \in Views[driver] : Knows(u, m)
  BY DEF FlowInv
<1>5. s \in FlowNow(driver, m)
  BY <1>1, <1>4, NowIs
<1> DEFINE after == FlowFailed(m, s)
<1>6. after \in FlowSteps(driver, m)
  <2>1. s.tests = {} => \A t \in Tasks \ {u} : s.tests \cap held[t] = {}
    OBVIOUS
  <2>2. FlowMayFail(m, s)
    BY <1>1, <1>4, <2>1 DEF FlowMayFail, Refused, Knows, TheWorld, World
  <2> QED
    BY <1>5, <2>2, FlowStepKinds
<1>7. /\ after.task = m.task /\ after.run = m.run
      /\ after.at = (IF s.skip = 0 \/ m.at + s.skip < 1 THEN 0 ELSE m.at + s.skip)
      /\ after.held = m.held \ s.undo
      /\ after.owes = (IF s.error THEN 0 ELSE IF s.data = "sent" THEN OneMore(m.owes) ELSE m.owes)
      /\ after.clear = m.clear /\ after.world = m.world
  BY DEF FlowFailed, View
<1>8. /\ answers' \in Seq(Whom) /\ Owes(answers', u, after.owes)
      /\ \A t \in Tasks \ {u} : \A n : Owes(answers, t, n) => Owes(answers', t, n)
  <2>1. answers \in Seq(Whom) /\ Owes(answers, u, m.owes)
    BY <1>4 DEF FlowInv, TypeOK, Knows, Whom
  <2>2. Owes(answers, u, OneMore(m.owes))
    BY <2>1 DEF Owes, OneMore
  <2>3. /\ as \in Seq(Whom)
        /\ Owes(as, u, IF s.data = "sent" THEN OneMore(m.owes) ELSE m.owes)
        /\ \A t \in Tasks \ {u} : \A n : Owes(answers, t, n) => Owes(as, t, n)
    BY <2>1, <2>2, NewAnswer
  <2>4. CASE s.error
    <3>1. answers' = Abandon(u, as)
      BY <1>2, <2>4
    <3> QED
      BY <2>3, <3>1, AbandonedAnswers
  <2>5. CASE ~s.error
    BY <1>2, <1>7, <2>3, <2>5
  <2> QED
    BY <2>4, <2>5
<1>9. TypeOK'
  BY <1>1, <1>3, <1>8 DEF FlowInv, TypeOK, Whom
<1>10. Leaves(u)
  BY <1>1, <1>3, <1>8, <1>9 DEF FlowInv, TypeOK, Leaves
<1>11. after.world = TheWorld'
  BY <1>3, <1>4, <1>7 DEF Knows, TheWorld, World, Line
<1>12. /\ held'[u] = held[u] \ s.undo
       /\ at'[u] = IF s.skip = 0 \/ at[u] + s.skip < 1 THEN 0 ELSE at[u] + s.skip
  BY <1>1 DEF FlowInv, TypeOK
<1>13. after.clear => \A t \in Tasks \ {u} : "urb" \notin held'[t]
  BY <1>4, <1>7, <1>10 DEF Knows, Leaves
<1> HIDE DEF after
<1>14. Knows(u, after)'
  BY <1>3, <1>4, <1>7, <1>8, <1>11, <1>12, <1>13 DEF Knows
<1>15. \A t \in Tasks \ {u} :
         /\ Together(run[t], run'[u])
         /\ held[t] \cap held'[u] \cap Locks[driver] = {}
  BY <1>3, <1>12 DEF FlowInv, Beside
<1>16. ASSUME NEW t \in Tasks
       PROVE  Given(t)'
  <2>1. CASE t = u
    <3>1. got'[u] = "nothing"
      BY <1>1 DEF FlowInv, TypeOK
    <3> QED
      BY <1>3, <2>1, <3>1, StillRightful DEF Given
  <2>2. CASE t # u
    <3>1. got'[t] = got[t] /\ run'[t] = run[t] /\ at'[t] = at[t]
      BY <1>1, <1>3, <2>2 DEF FlowInv, TypeOK
    <3> QED
      BY <1>3, <3>1, StillRightful DEF FlowInv, Given, Idle
  <2> QED
    BY <2>1, <2>2
<1> QED
  BY <1>4, <1>6, <1>10, <1>14, <1>15, <1>16, StepKept

LEMMA ReturnsKept == \A u \in Tasks : FlowInv /\ Returns(u) => FlowInv'
<1> SUFFICES ASSUME FlowInv, NEW u \in Tasks, Returns(u)
             PROVE  FlowInv'
  OBVIOUS
<1>1. PICK next \in Follow(driver, u, run[u], at[u]) :
        /\ run' = [run EXCEPT ![u] = next]
        /\ at' = [at EXCEPT ![u] = IF next = "none" THEN 0 ELSE 1]
        /\ online' = CASE run[u] = "attach" -> (IF next = "detach" THEN "failed" ELSE "on")
                       [] run[u] = "detach" -> "off"
                       [] OTHER -> online
  BY DEF Returns
<1>2. PICK m \in Views[driver] : Knows(u, m)
  BY DEF FlowInv
<1>3. /\ run' = [run EXCEPT ![u] = next]
      /\ at' = [at EXCEPT ![u] = IF next = "none" THEN 0 ELSE 1]
      /\ plugged' = (plugged \/ (run[u] = "probe" /\ at[u] # 0))
      /\ power' = CASE run[u] = "suspend" /\ at[u] # 0 -> "down"
                    [] run[u] = "resume" -> "up"
                    [] OTHER -> power
      /\ answers' = IF run[u] = "disconnect" THEN <<>> ELSE Abandon(u, answers)
      /\ got' = [got EXCEPT ![u] = "nothing"]
      /\ held' = [held EXCEPT ![u] = {}]
      /\ owned' = IF run[u] = "disconnect" THEN owned \ {"intfdata"} ELSE owned
      /\ driver' = driver
  BY <1>1 DEF Returns, Succeeded
<1>4. /\ run'[u] = next /\ at'[u] = (IF next = "none" THEN 0 ELSE 1)
      /\ held'[u] = {} /\ got'[u] = "nothing"
      /\ \A t \in Tasks \ {u} :
           run'[t] = run[t] /\ at'[t] = at[t] /\ held'[t] = held[t] /\ got'[t] = got[t]
  BY <1>3 DEF FlowInv, TypeOK
<1> DEFINE after == FlowReturned(m, next)
<1>5. after \in FlowSteps(driver, m)
  <2>1. Finished(u) /\ Now(u) = FlowNow(driver, m)
    BY <1>2, NowIs DEF Returns
  <2>2. FlowFinished(driver, m)
    BY <1>2, <2>1 DEF Finished, FlowFinished, Idle, Knows
  <2>3. next \in Follow(driver, m.task, m.run, m.at)
    BY <1>1, <1>2 DEF Knows
  <2> QED
    BY <2>2, <2>3, FlowStepKinds
<1>6. /\ after.task = m.task /\ after.held = {} /\ after.owes = 0 /\ after.clear = FALSE
      /\ after.run = next /\ after.at = (IF next = "none" THEN 0 ELSE 1)
  BY DEF FlowReturned, View
<1>0. /\ run[u] = "attach" => next \in {"none", "detach"}
      /\ u # "owner" /\ run[u] # "attach" => next = "none"
      /\ run[u] # "attach" =>
           next = "none" \/ (u = "owner" /\ run[u] \in Unlocked /\ next \in Unlocked)
  BY <1>1, DistinctAreOps DEF Follow
<1>7. Line' = CASE run[u] = "attach" -> (IF next = "detach" THEN "leaving" ELSE "on")
                [] run[u] = "detach" -> "off"
                [] OTHER -> Line
  <2>2. CASE u = "other"
    <3>1. CASE run[u] = "attach"
      BY <1>0, <1>1, <1>4, <2>2, <3>1 DEF Line
    <3>2. CASE run[u] # "attach"
      BY <1>0, <1>1, <1>4, <2>2, <3>2 DEF Line
    <3> QED
      BY <3>1, <3>2
  <2>3. CASE u # "other"
    <3>1. run[u] \notin {"attach", "detach"}
      BY <2>3, RunIs, TasksAre, OperationsAre DEF Unlocked, Settings
    <3>2. run'["other"] = run["other"]
      BY <1>4, <2>3, TasksAre
    <3> QED
      BY <1>1, <3>1, <3>2 DEF Line
  <2> QED
    BY <2>2, <2>3
<1>8. after.world = TheWorld'
  <2>1. /\ m.run = run[u] /\ m.at = at[u] /\ m.world.owned = owned /\ m.world.line = Line
        /\ m.world.plugged = plugged /\ m.world.power = power
    BY <1>2 DEF Knows, TheWorld, World
  <2>2. after.world =
          World(IF run[u] = "disconnect" THEN owned \ {"intfdata"} ELSE owned,
                CASE run[u] = "attach" -> (IF next = "detach" THEN "leaving" ELSE "on")
                  [] run[u] = "detach" -> "off"
                  [] OTHER -> Line,
                plugged \/ (run[u] = "probe" /\ at[u] # 0),
                CASE run[u] = "suspend" /\ at[u] # 0 -> "down"
                  [] run[u] = "resume" -> "up"
                  [] OTHER -> power)
    BY <2>1 DEF FlowReturned, View
  <2> QED
    BY <1>3, <1>7, <2>2 DEF TheWorld
<1>9. /\ answers' \in Seq(Whom) /\ Owes(answers', u, 0)
      /\ \A t \in Tasks \ {u} : \A n : Owes(answers, t, n) => Owes(answers', t, n)
  <2>1. answers \in Seq(Whom)
    BY DEF FlowInv, TypeOK, Whom
  <2>2. CASE run[u] = "disconnect"
    <3>1. answers' = <<>> /\ <<>> \in Seq(Whom) /\ DOMAIN <<>> = {}
      BY <1>3, <2>2
    <3> QED
      BY <3>1 DEF Owes
  <2>3. CASE run[u] # "disconnect"
    <3>1. answers' = Abandon(u, answers)
      BY <1>3, <2>3
    <3> QED
      BY <2>1, <3>1, AbandonedAnswers
  <2> QED
    BY <2>2, <2>3
<1>10. TypeOK'
  BY <1>3, <1>9 DEF FlowInv, TypeOK, Whom
<1>11. Leaves(u)
  BY <1>3, <1>4, <1>9, <1>10 DEF Leaves
<1> HIDE DEF after
<1>12. Knows(u, after)'
  BY <1>2, <1>4, <1>6, <1>8, <1>9 DEF Knows
<1>13. ASSUME NEW t \in Tasks \ {u}
       PROVE  Together(run[t], run'[u])
  <2>1. CASE next = "none"
    BY <1>4, <2>1 DEF Together
  <2>2. CASE next # "none" /\ run[u] = "attach"
    <3>1. Together(run[t], "attach") /\ next = "detach"
      BY <1>0, <2>2 DEF FlowInv, Beside
    <3> QED
      BY <1>4, <3>1, OperationsAre DEF Together, Alone, Open, Unlocked, Settings
  <2>3. CASE next # "none" /\ run[u] # "attach"
    <3>1. /\ u = "owner" /\ run[u] \in Unlocked /\ next \in Unlocked
          /\ Together(run[t], run[u])
      BY <1>0, <2>3 DEF FlowInv, Beside
    <3>2. run[t] \in Open \cup {"attach", "detach", "probe", "disconnect", "suspend", "resume",
                                "none"}
      BY <3>1, RunIs, TasksAre, OperationsAre
    <3> QED
      BY <1>4, <3>1, <3>2, OperationsAre DEF Together, Alone, Open, Unlocked, Settings
  <2> QED
    BY <2>1, <2>2, <2>3
<1>14. \A t \in Tasks \ {u} :
         /\ Together(run[t], run'[u])
         /\ held[t] \cap held'[u] \cap Locks[driver] = {}
  BY <1>4, <1>13
<1>15. ASSUME NEW t \in Tasks
       PROVE  Given(t)'
  <2>1. CASE t = u
    BY <1>3, <1>4, <2>1, StillRightful DEF Given
  <2>2. CASE t # u
    BY <1>3, <1>4, <2>2, StillRightful DEF FlowInv, Given, Idle
  <2> QED
    BY <2>1, <2>2
<1> QED
  BY <1>2, <1>5, <1>11, <1>12, <1>14, <1>15, StepKept

LEMMA TimerFiresKept == FlowInv /\ TimerFires => FlowInv'
<1> SUFFICES ASSUME FlowInv, TimerFires
             PROVE  FlowInv'
  OBVIOUS
<1>1. /\ "timer" \in owned /\ owned' = owned \ {"timer"}
      /\ driver' = driver /\ run' = run /\ at' = at /\ held' = held /\ answers' = answers
      /\ got' = got /\ online' = online /\ plugged' = plugged /\ power' = power
  BY DEF TimerFires
<1>2. ASSUME NEW t \in Tasks
      PROVE  \E v \in Views[driver] : Knows(t, v)'
  <2>1. PICK v \in Views[driver] : Knows(t, v)
    BY DEF FlowInv
  <2> DEFINE w == TimedOut(v)
  <2>2. w \in Views[driver]
    BY <1>1, <2>1, ViewIsCareful DEF Knows, TheWorld, World
  <2>3. /\ w.task = v.task /\ w.run = v.run /\ w.at = v.at /\ w.held = v.held /\ w.owes = v.owes
        /\ w.clear = v.clear
        /\ w.world = World(v.world.owned \ {"timer"}, v.world.line, v.world.plugged, v.world.power)
    BY DEF TimedOut, View
  <2>4. w.world = TheWorld'
    BY <1>1, <2>1, <2>3 DEF Knows, TheWorld, World, Line
  <2> HIDE DEF w
  <2>5. Knows(t, w)'
    BY <1>1, <2>1, <2>3, <2>4 DEF Knows
  <2> QED
    BY <2>2, <2>5
<1>3. \A t \in Tasks : Given(t)'
  BY <1>1, StillRightful DEF FlowInv, Given, Idle
<1> QED
  BY <1>1, <1>2, <1>3 DEF FlowInv, TypeOK, Beside

LEMMA NothingHappens == FlowInv /\ UNCHANGED vars => FlowInv'
<1> SUFFICES ASSUME FlowInv, UNCHANGED vars
             PROVE  FlowInv'
  OBVIOUS
<1>1. /\ driver' = driver /\ run' = run /\ at' = at /\ held' = held /\ owned' = owned
      /\ answers' = answers /\ got' = got /\ online' = online /\ plugged' = plugged
      /\ power' = power
  BY DEF vars
<1>2. TheWorld' = TheWorld
  BY <1>1 DEF TheWorld, Line
<1>3. \A t \in Tasks : Given(t)'
  BY <1>1, StillRightful DEF FlowInv, Given, Idle
<1> QED
  BY <1>1, <1>2, <1>3 DEF FlowInv, TypeOK, Beside, Knows

LEMMA InitFlows == Init => FlowInv
<1> SUFFICES ASSUME Init
             PROVE  FlowInv
  OBVIOUS
<1>1. TypeOK
  BY DEF Init, TypeOK
<1>2. ASSUME NEW t \in Tasks
      PROVE  AtFirst(t) \in Views[driver] /\ Knows(t, AtFirst(t)) /\ Given(t)
  <2> DEFINE v == AtFirst(t)
  <2>1. v \in Views[driver]
    BY <1>1, DriversAreCareful DEF TypeOK, FlowAssumption
  <2>2. /\ v.task = t /\ v.run = "none" /\ v.at = 0 /\ v.held = {} /\ v.owes = 0 /\ v.clear = FALSE
        /\ v.world = World({}, "off", FALSE, "up")
    BY DEF AtFirst, View
  <2>3. /\ run[t] = "none" /\ run["other"] = "none" /\ at[t] = 0 /\ held[t] = {}
        /\ got[t] = "nothing" /\ owned = {} /\ answers = <<>> /\ online = "off" /\ plugged = FALSE /\ power = "up"
    BY TasksAre DEF Init
  <2>4. v.world = TheWorld
    BY <2>2, <2>3 DEF TheWorld, Line
  <2>5. Owes(answers, t, 0)
    BY <2>3 DEF Owes
  <2> HIDE DEF v
  <2>6. Knows(t, v)
    BY <2>2, <2>3, <2>4, <2>5 DEF Knows
  <2>7. Given(t)
    BY <2>3 DEF Given, Rightful
  <2> QED
    BY <2>1, <2>6, <2>7 DEF v
<1>3. \A t, u \in Tasks : Beside(t, u)
  BY DEF Init, Beside, Together
<1> QED
  BY <1>1, <1>2, <1>3 DEF FlowInv

LEMMA FlowsKept == FlowInv /\ [Next]_vars => FlowInv'
BY OwnerStartsKept, OtherStartsKept, GoesOnlineKept, GoesOfflineKept, HubStarts, TimerFiresKept,
   DoesKept, FailsKept, ReturnsKept, NothingHappens DEF Next

-----------------------------------------------------------------------------
(* The properties *)

\* The views of all tasks, in every state: a task has one of the views of the
\* driver, and what the tasks hold and may do together is as the views expect.
THEOREM FlowsAreCareful == Spec => []FlowInv
<1> QED
  BY InitFlows, FlowsKept, PTL DEF Spec

\* The exceptions, as the properties and as the views name them.
LEMMA KnownIs ==
  ASSUME NEW exceptions
  PROVE  Known(exceptions) = Except(driver, exceptions)
BY DEF Known, Except

\* No task takes for its own the answer to another message, but for the drivers
\* and the operations that are known to, and no operation leaves one behind that
\* has met no error.
THEOREM AnswersNotCrossed == Spec => []NotCrossed
<1>1. ASSUME FlowInv, NEW t \in Tasks, Finished(t)
      PROVE  <<driver, run[t]>> \in Crossing \/ \A i \in DOMAIN answers : answers[i] # t
  <2>1. PICK v \in Views[driver] : Knows(t, v)
    BY <1>1 DEF FlowInv
  <2>2. FlowFinished(driver, v)
    BY <1>1, <2>1, NowIs DEF Finished, FlowFinished, Idle, Knows
  <2>3. Careful(driver, v)
    BY <1>1, <2>1, ViewIsCareful
  <2>4. v.owes = 0 \/ <<driver, v.run>> \in Crossing
    BY <2>2, <2>3 DEF Careful
  <2> QED
    BY <2>1, <2>4 DEF Knows, Owes
<1>2. FlowInv => NotCrossed
  BY <1>1 DEF FlowInv, Given, NotCrossed
<1> QED
  BY <1>2, FlowsAreCareful, PTL

\* An operation that is over has given back what it took, and two operations
\* never have the urb, or hotplug's lock, at once.
THEOREM OperationsKeepNothing == Spec => []NothingKept
<1>1. ASSUME FlowInv, NEW t \in Tasks, Finished(t)
      PROVE  held[t] \subseteq Known(Leaky)
  <2>1. PICK v \in Views[driver] : Knows(t, v)
    BY <1>1 DEF FlowInv
  <2>2. FlowFinished(driver, v)
    BY <1>1, <2>1, NowIs DEF Finished, FlowFinished, Idle, Knows
  <2>3. Careful(driver, v)
    BY <1>1, <2>1, ViewIsCareful
  <2> QED
    BY <2>1, <2>2, <2>3, KnownIs DEF Careful, Knows
<1>2. ASSUME FlowInv, NEW t \in Tasks, NEW u \in Tasks, t # u
      PROVE  held[t] \cap held[u] \cap {"urb", "hotplug"} = {}
  <2>1. "hotplug" \in Locks[driver]
    BY <1>2, DriversAreCareful DEF FlowInv, TypeOK, FlowAssumption
  <2> QED
    BY <1>2, <2>1 DEF FlowInv, Beside
<1>3. FlowInv => NothingKept
  BY <1>1, <1>2 DEF NothingKept
<1> QED
  BY <1>3, FlowsAreCareful, PTL

\* A board that is offline has nothing that a later attach would trip over, nor
\* memory or an urb that nobody will free.
THEOREM OfflineBoardsReleased == Spec => []Released
<1>1. ASSUME FlowInv, online = "off", Idle("other")
      PROVE  owned \subseteq Known(Littering) \cup AdapterData[driver]
                         \cup (IF plugged THEN {} ELSE {"intfdata"})
  <2>1. PICK v \in Views[driver] : Knows("other", v)
    BY <1>1, TasksAre DEF FlowInv
  <2>2. Careful(driver, v)
    BY <1>1, <2>1, TasksAre, ViewIsCareful
  <2>3. /\ v.task = "other" /\ v.run = "none"
        /\ v.world.line = "off" /\ v.world.owned = owned /\ v.world.plugged = plugged
    BY <1>1, <2>1 DEF Knows, Idle, TheWorld, World, Line
  <2>4. owned \subseteq Except(driver, Littering) \cup AdapterData[driver]
                   \cup (IF plugged THEN {} ELSE {"intfdata"})
    BY <2>2, <2>3 DEF Careful
  <2> QED
    BY <2>4, KnownIs
<1>2. FlowInv => Released
  BY <1>1 DEF Released
<1> QED
  BY <1>2, FlowsAreCareful, PTL

\* The private data, its locks and the interface are used while they are there,
\* by the completion handler and the timer, and by each function that is not known
\* to run while detach or disconnect takes them away.
THEOREM BoardUsedWhileThere == Spec => []UsedWhileThere
<1>1. ASSUME FlowInv, NEW t \in Tasks
      PROVE  /\ "listening" \in owned => {"private", "interface"} \subseteq owned
             /\ "timer" \in owned => "private" \in owned \/ "timer" \in Known(Littering)
             /\ \A s \in Now(t) :
                  /\ "private" \in s.uses \/ s.waits \cap PrivateLocks[driver] # {}
                     => "private" \in owned \/ <<driver, run[t]>> \in Careless
                  /\ "interface" \in s.uses =>
                       "interface" \in owned \/ <<driver, run[t]>> \in Unguarded
                  /\ "device" \in s.uses => "interface" \in owned \/ <<driver, run[t]>> \in Hasty
  <2>1. PICK v \in Views[driver] : Knows(t, v)
    BY <1>1 DEF FlowInv
  <2>2. Careful(driver, v)
    BY <1>1, <2>1, ViewIsCareful
  <2>3. v.world.owned = owned /\ v.run = run[t]
    BY <2>1 DEF Knows, TheWorld, World
  <2>4. /\ "listening" \in owned => {"private", "interface"} \subseteq owned
        /\ "timer" \in owned => "private" \in owned \/ "timer" \in Known(Littering)
    BY <2>2, <2>3, KnownIs DEF Careful
  <2>5. \A s \in Now(t) : Minds(driver, v, s)
    BY <2>1, <2>2, NowIs DEF Careful
  <2> QED
    BY <2>3, <2>4, <2>5 DEF Minds
<1>2. FlowInv => UsedWhileThere
  BY <1>1, TasksAre DEF UsedWhileThere
<1> QED
  BY <1>2, FlowsAreCareful, PTL
=============================================================================
