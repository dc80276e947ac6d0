------------------------------ MODULE BoardFlow ------------------------------
(***************************************************************************)
(* What becomes of one board, whatever the others do: the flow of a driver *)
(* is the set of states that a board of it can reach.  A board that is not *)
(* alone may be refused what only one board can have, and may find the     *)
(* fields changed that boards share.                                       *)
(*                                                                         *)
(* The flow of each driver is a constant that TLC computes.  That it shows *)
(* no mistake, but for those that are known, is an assumption about the    *)
(* tables, which TLC evaluates; that any number of boards stay in their    *)
(* flows is proved in module Boards_proofs.                                *)
(***************************************************************************)
EXTENDS BoardAttach

\* A board, and the fields that it shares with others.
State(label, n, resources, fields, shared) ==
  [stage |-> label, step |-> n, held |-> resources, marks |-> fields, static |-> shared]
View(b) == State(stage[b], step[b], held[b], marks[b], static)

Stages == {"offline", "attach", "online", "failed", "detach"}
FlowState ==
  [stage : Stages, step : Nat \ {0}, held : SUBSET STRING, marks : SUBSET STRING, static : SUBSET STRING]
AtStart == State("offline", 1, {}, {}, {})

AttachType ==
  [ get : SUBSET STRING, mark : SUBSET STRING, when : SUBSET STRING, absent : SUBSET STRING,
    need : SUBSET STRING, drop : SUBSET STRING, fail : SUBSET STRING, undo : SUBSET STRING,
    leaves : SUBSET STRING ]
DetachType ==
  [if : SUBSET STRING, need : SUBSET STRING, free : SUBSET STRING, clear : SUBSET STRING]

\* The fields that a driver's boards share.
Statics(d) == (UNION {Tables[d].attach[i].mark : i \in DOMAIN Tables[d].attach}) \cap StaticFields

-----------------------------------------------------------------------------
(* Steps *)

FlowSteps(d, l) == IF l.stage = "attach" THEN Tables[d].attach ELSE Tables[d].detach
FlowFields(l) == l.marks \cup l.static
FlowFaults(l, s) == (s.need \cap Mapped) \ l.held # {}

\* Refused because the board has it, or, with others about, because one of them may.
FlowRefused(l, s) ==
  \/ s.get \cap l.held \cap (Exclusive \cup {"pseudo_irq"}) # {}
  \/ s.absent \cap FlowFields(l) # {}
FlowMayRefuse(shared, l, s) == FlowRefused(l, s) \/ (shared /\ s.get \cap Exclusive # {})

FlowGoto(l, label) == State(label, 1, l.held, l.marks, l.static)
FlowBegins(l) == State("attach", 1, l.held, l.marks \ BoardFields, l.static)
FlowDone(l, s) ==
  State(l.stage, l.step + 1, (l.held \cup s.get) \ s.drop,
        l.marks \cup (s.mark \ StaticFields), l.static \cup (s.mark \cap StaticFields))
FlowFails(l, s) ==
  State("failed", 1, l.held \ s.undo, l.marks \cup s.leaves, l.static \ s.undo)
FlowReleases(l, s) ==
  State(l.stage, l.step + 1, l.held \ s.free,
        IF "private" \in s.free THEN l.marks \cap BoardFields ELSE l.marks, l.static \ s.clear)
FlowSkips(l) == State(l.stage, l.step + 1, l.held, l.marks, l.static)

AttachNext(shared, l, s) ==
  LET tried == s.when \subseteq FlowFields(l)
      able == tried /\ ~FlowFaults(l, s)
  IN  (IF able /\ ~FlowRefused(l, s) THEN {FlowDone(l, s)} ELSE {})
        \cup (IF ~tried \/ "skip" \in s.fail THEN {FlowSkips(l)} ELSE {})
        \cup (IF able /\ ("error" \in s.fail \/ FlowMayRefuse(shared, l, s))
                      /\ "isapnp_cfg" \notin s.get
                THEN {FlowFails(l, s)} ELSE {})
DetachNext(l, s) ==
  IF ~(s.if \subseteq FlowFields(l)) THEN {FlowSkips(l)}
  ELSE IF FlowFaults(l, s) THEN {} ELSE {FlowReleases(l, s)}

\* Whatever the board does next, or others do to the fields they share with it.
FlowNext(d, shared, l) ==
  (IF l.stage = "offline" THEN {FlowBegins(l)}
   ELSE IF l.stage = "online" THEN {FlowGoto(l, "detach")}
   ELSE IF l.step <= Len(FlowSteps(d, l))
   THEN IF l.stage = "attach" THEN AttachNext(shared, l, Tables[d].attach[l.step])
                           ELSE DetachNext(l, Tables[d].detach[l.step])
   ELSE IF l.stage = "attach" THEN {FlowGoto(l, "online"), FlowGoto(l, "failed")}
   ELSE {FlowGoto(l, "offline")})
    \cup (IF shared THEN {[l EXCEPT !.static = fields] : fields \in SUBSET Statics(d)} ELSE {})

\* A bound on the steps that lead to a state for the first time.
MaxSteps == 80
Flow(d, shared) ==
  LET reached[i \in 0..MaxSteps] ==
        IF i = 0 THEN [all |-> {AtStart}, new |-> {AtStart}]
        ELSE LET r == reached[i - 1]
                 new == (UNION {FlowNext(d, shared, l) : l \in r.new}) \ r.all
             IN  [all |-> r.all \cup new, new |-> new]
  IN  reached[MaxSteps].all

\* Boards that are alone, and boards that are not and do not rob each other.
LoneFlows == [d \in Drivers |-> Flow(d, FALSE)]
SharedFlows == [d \in Drivers \ Greedy |-> Flow(d, TRUE)]
FlowOf(d, shared) == IF shared THEN SharedFlows[d] ELSE LoneFlows[d]

-----------------------------------------------------------------------------
(* Mistakes *)

\* Nothing is released that another board may have.
Considerate(l, resources) == resources \cap (Exclusive \cup SharedMaps) \subseteq l.held

AttachIsCareful(d, shared, l, s) ==
  /\ d \notin Wild /\ s.when \subseteq FlowFields(l) => s.need \subseteq l.held
  /\ shared => Considerate(l, s.undo)
DetachIsCareful(d, shared, l, s) ==
  s.if \subseteq FlowFields(l) =>
    /\ d \notin Wild => s.need \subseteq l.held
    /\ d \notin Rash => s.free \ Harmless \subseteq l.held
    /\ shared => Considerate(l, s.free)
Careful(d, shared, l) ==
  /\ l.stage = "offline" /\ d \notin Leaky => l.held = {}
  /\ d \notin Wild /\ l.held \cap {"irq", "pseudo_irq"} # {} => Tables[d].handler \subseteq l.held
  /\ l.step <= Len(FlowSteps(d, l)) =>
       /\ l.stage = "attach" => AttachIsCareful(d, shared, l, Tables[d].attach[l.step])
       /\ l.stage \in {"failed", "detach"} =>
            DetachIsCareful(d, shared, l, Tables[d].detach[l.step])

FlowAssumption ==
  \A d \in Drivers :
    /\ Tables[d].attach \in Seq(AttachType) /\ Tables[d].detach \in Seq(DetachType)
    /\ \A shared \in IF d \in Greedy THEN {FALSE} ELSE BOOLEAN :
         /\ AtStart \in FlowOf(d, shared)
         /\ \A l \in FlowOf(d, shared) :
              /\ l \in FlowState /\ l.static \subseteq Statics(d)
              /\ FlowNext(d, shared, l) \subseteq FlowOf(d, shared)
              /\ Careful(d, shared, l)

ASSUME TablesAreCareful == FlowAssumption

-----------------------------------------------------------------------------
(* The invariant *)

Shared == \E b, c \in Configured : b # c
BoardsTypeOK ==
  /\ \E d \in Drivers : driver \in [Boards -> {d, None}]
  /\ stage \in [Boards -> Stages] /\ step \in [Boards -> Nat \ {0}]
  /\ held \in [Boards -> SUBSET STRING] /\ marks \in [Boards -> SUBSET STRING]
  /\ static \subseteq StaticFields /\ buffer \in [Boards -> BOOLEAN]

\* A board that is not configured has nothing.
Unused == \A b \in Boards \ Configured : stage[b] = "offline" /\ held[b] = {}

\* A board is in its driver's flow, unless boards rob each other.
Followed ==
  Robbed = {} => \A b \in Configured : View(b) \in FlowOf(driver[b], Shared)

FlowInv == BoardsTypeOK /\ Unused /\ Followed
=============================================================================
