------------------------- MODULE LibraryCalls_proofs -------------------------
(***************************************************************************)
(* Proofs about LibraryCalls, for any number of threads and boards, and    *)
(* for calls that overlap without a bound.                                 *)
(***************************************************************************)
EXTENDS LibraryFlow, TLAPS

Partner == DeviceThreads \cup Others \cup {Nobody}
Descriptor ==
  [there : BOOLEAN, open : BOOLEAN, handle : BOOLEAN, lock : BOOLEAN, board : Boards]
OnBus == [as : {"none", "talk", "listen"}, device : Partner]

\* The types that the steps rely on.
Types ==
  /\ DOMAIN met = Threads /\ DOMAIN missed = Threads
  /\ built \in [Threads -> BOOLEAN] /\ result \in [Threads -> {"ok", "ERR"}]
  /\ desc \in [Threads -> Descriptor]
  /\ handles \in [Threads -> SUBSET Boards]
  /\ lock \in [Boards -> Threads \cup {Nobody}]
  /\ bus \in [Boards -> OnBus]
CallTypes ==
  /\ DOMAIN call = Threads /\ DOMAIN at = Threads
  /\ \A t \in Threads :
       call[t] \in [name : {call[t].name}, to : Partner, board : Boards, rest : {call[t].rest},
                    sound : BOOLEAN]

LEMMA ItsProgram ==
  ASSUME NEW t \in Threads
  PROVE  /\ NoCall.name = "none"
         /\ Program(t) = CallOf(IsDevice(t), call[t].name)
BY DEF NoCall, Program, CallOf, Tables

\* A step of thread t leaves the others alone.
Alone(t) ==
  /\ \A u \in Threads \ {t} :
       /\ met'[u] = met[u] /\ missed'[u] = missed[u] /\ built'[u] = built[u]
       /\ result'[u] = result[u] /\ desc'[u] = desc[u] /\ handles'[u] = handles[u]
  /\ \A b \in Boards : lock'[b] = lock[b] \/ (lock[b] \in {Nobody, t} /\ lock'[b] \in {Nobody, t})
  /\ \A b \in Boards : bus'[b] = bus[b] \/ lock[b] = t

\* A part of a step that leaves thread t in the state m of its flow.
Keeps(t, m) == Types' /\ LockIsOwned' /\ Alone(t) /\ Knows(t, m)'

\* Before it: nothing has failed, and t is in l.
Ready(t, l) ==
  /\ t \in Threads /\ l \in FlowState
  /\ Types /\ CallTypes /\ LockIsOwned /\ asserts = {} /\ Knows(t, l)

-----------------------------------------------------------------------------
(* What steps do *)

LEMMA DescriptorTypes ==
  ASSUME NEW d \in Descriptor, NEW x \in BOOLEAN, NEW b \in Boards
  PROVE  /\ [d EXCEPT !.lock = x] \in Descriptor
         /\ [d EXCEPT !.handle = x] \in Descriptor
         /\ [d EXCEPT !.board = b] \in Descriptor
         /\ [d EXCEPT !.open = TRUE, !.handle = x] \in Descriptor
BY DEF Descriptor

LEMMA LocksKept ==
  ASSUME NEW t, NEW l, Ready(t, l), UNCHANGED call, Locks(t), l.home,
         l.lock => call[t].name \in Aborting,
         lock[desc[t].board] = Nobody \/ desc[t].lock
  PROVE  Keeps(t, FlowLocks(l))
<1> DEFINE m == FlowLocks(l)
<1> USE DEF Ready
<1>1. CASE l.lock
  <2>1. desc[t].lock /\ m = l
    BY <1>1 DEF Knows, FlowLocks
  <2>2. /\ asserts' = asserts \cup {call[t].name}
        /\ UNCHANGED <<lock, desc, met, missed, built, result, handles, bus, call>>
    BY <2>1 DEF Locks
  <2>3. Types' /\ Alone(t)
    BY <2>2 DEF Types, Alone
  <2>4. LockIsOwned'
    BY <1>1, <2>2 DEF LockIsOwned
  <2>5. Knows(t, m)'
    BY <1>1, <2>1, <2>2 DEF Knows, Kept, IsDevice
  <2> QED
    BY <2>3, <2>4, <2>5 DEF Keeps
<1>2. CASE ~l.lock
  <2>1. /\ ~desc[t].lock /\ desc[t].board = Home
        /\ m = [l EXCEPT !.lock = TRUE, !.addr = "?"]
    BY <1>2 DEF Knows, FlowLocks
  <2>2. /\ lock' = [lock EXCEPT ![Home] = t]
        /\ desc' = [desc EXCEPT ![t].lock = TRUE]
        /\ UNCHANGED <<asserts, met, missed, built, result, handles, bus, call>>
    BY <2>1 DEF Locks
  <2>3. lock[Home] = Nobody /\ Home \in Boards
    BY <2>1, LibraryAssumption
  <2>4. Types'
    <3>1. desc' \in [Threads -> Descriptor]
      BY <2>2 DEF Types, Descriptor
    <3>2. lock' \in [Boards -> Threads \cup {Nobody}]
      BY <2>2 DEF Types
    <3> QED
      BY <2>2, <3>1, <3>2 DEF Types
  <2>5. Alone(t)
    BY <2>2, <2>3 DEF Types, Alone
  <2>6. LockIsOwned'
    BY <2>2, <2>3, <2>1, ProgramsAreCareful DEF LockIsOwned, Types, FlowAssumption
  <2>7. Knows(t, m)'
    BY <2>1, <2>2 DEF Knows, Kept, IsDevice, Types, Descriptor, FlowState
  <2> QED
    BY <2>4, <2>5, <2>6, <2>7 DEF Keeps
<1> QED
  BY <1>1, <1>2

\* What thread t knows, once it has counted its errors, of the rest.
Counts(t, k) ==
  /\ k.met = met'[t] /\ missed'[t] \subseteq k.missed /\ (k.built <=> built'[t])
  /\ DOMAIN met' = Threads /\ DOMAIN missed' = Threads /\ built' \in [Threads -> BOOLEAN]
  /\ \A u \in Threads \ {t} : met'[u] = met[u] /\ missed'[u] = missed[u] /\ built'[u] = built[u]

\* k has what l has but for the errors.
Like(k, l) ==
  /\ k.there = l.there /\ k.open = l.open /\ k.handle = l.handle /\ k.lock = l.lock
  /\ k.sound = l.sound /\ k.home = l.home /\ k.addr = l.addr /\ k.kept = l.kept

LEMMA LeavesKept ==
  ASSUME NEW t, NEW l, Ready(t, l), NEW r \in {"ok", "ERR"},
         NEW k \in FlowState, Like(k, l), Counts(t, k), l.lock => l.home \/ call[t].name \in Aborting,
         UNCHANGED <<call, handles, bus>>, result' = [result EXCEPT ![t] = r],
         IF desc[t].there /\ desc[t].lock
           THEN Unlocks(t) /\ desc' = [desc EXCEPT ![t].lock = FALSE]
           ELSE UNCHANGED <<lock, desc, asserts>>
  PROVE  Keeps(t, FlowLeaves(k, r))
<1> DEFINE m == FlowLeaves(k, r)
<1> USE DEF Ready
<1>0. /\ k.there = l.there /\ k.open = l.open /\ k.handle = l.handle /\ k.lock = l.lock
      /\ k.sound = l.sound /\ k.home = l.home /\ k.addr = l.addr /\ k.kept = l.kept
  BY DEF Like
<1>1. CASE ~(l.there /\ l.lock)
  <2>1. UNCHANGED <<lock, desc, asserts>>
    BY <1>1 DEF Knows
  <2>2. m = [k EXCEPT !.result = r]
    BY <1>0, <1>1 DEF FlowLeaves
  <2>3. Types' /\ Alone(t)
    BY <2>1 DEF Types, Alone, Counts
  <2>4. LockIsOwned'
    BY <2>1 DEF LockIsOwned
  <2>5. Knows(t, m)'
    BY <1>0, <2>1, <2>2 DEF Knows, Kept, IsDevice, Types, Counts, FlowState
  <2> QED
    BY <2>3, <2>4, <2>5 DEF Keeps
<1>2. CASE l.there /\ l.lock
  <2>1. /\ lock[Home] = t /\ Home \in Boards /\ desc[t].there /\ desc[t].lock
        /\ Unlocks(t) /\ desc' = [desc EXCEPT ![t].lock = FALSE]
    BY <1>2, LibraryAssumption DEF Knows, LockIsOwned
  <2>2. m = [k EXCEPT !.result = r, !.lock = FALSE, !.home = TRUE, !.addr = "?"]
    BY <1>0, <1>2 DEF FlowLeaves
  <2>3. CASE lock[desc[t].board] = t
    <3>1. /\ desc[t].board = Home /\ UNCHANGED asserts
          /\ lock' = [lock EXCEPT ![Home] = Nobody]
      BY <2>1, <2>3 DEF Unlocks, LockIsOwned, Types, Descriptor
    <3>2. Types'
      <4>1. desc' \in [Threads -> Descriptor]
        BY <2>1, DescriptorTypes DEF Types
      <4>2. lock' \in [Boards -> Threads \cup {Nobody}]
        BY <3>1 DEF Types
      <4> QED
        BY <4>1, <4>2 DEF Types, Counts
    <3>3. Alone(t)
      BY <2>1, <3>1 DEF Types, Alone, Counts
    <3>4. LockIsOwned'
      BY <2>1, <3>1, ProgramsAreCareful DEF LockIsOwned, Types, Descriptor, FlowAssumption
    <3>5. Knows(t, m)'
      BY <1>0, <2>1, <2>2, <3>1 DEF Knows, Kept, IsDevice, Types, Counts, FlowState, Descriptor
    <3> QED
      BY <3>2, <3>3, <3>4, <3>5 DEF Keeps
  <2>4. CASE lock[desc[t].board] # t
    <3>1. /\ call[t].name \in Aborting /\ UNCHANGED lock
          /\ asserts' = asserts \cup {call[t].name}
      BY <2>1, <2>4, <1>2 DEF Unlocks, Knows
    <3>2. Types'
      <4>1. desc' \in [Threads -> Descriptor]
        BY <2>1, DescriptorTypes DEF Types
      <4> QED
        BY <3>1, <4>1 DEF Types, Counts
    <3>3. Alone(t)
      BY <2>1, <3>1 DEF Types, Alone, Counts
    <3>4. LockIsOwned'
      BY <2>1, <3>1 DEF LockIsOwned, Types, Descriptor
    <3>5. Knows(t, m)'
      <4>1. /\ m.met = k.met /\ m.missed = k.missed /\ m.built = k.built /\ m.result = r
            /\ m.there = l.there /\ m.open = l.open /\ m.handle = l.handle /\ m.lock = FALSE
            /\ m.sound = l.sound /\ m.home = TRUE /\ m.addr = "?" /\ m.kept = l.kept
        BY <1>0, <2>2 DEF FlowState
      <4>2. /\ desc'[t] = [desc[t] EXCEPT !.lock = FALSE] /\ desc[t] \in Descriptor
            /\ desc'[t].there = desc[t].there /\ desc'[t].open = desc[t].open
            /\ desc'[t].handle = desc[t].handle /\ desc'[t].lock = FALSE
            /\ desc'[t].board = desc[t].board
        BY <2>1 DEF Types, Descriptor
      <4>3. Kept(t) => Kept(t)'
        BY <4>2 DEF Kept, IsDevice
      <4>4. asserts' # {} /\ result'[t] = r
        BY <3>1 DEF Types
      <4> QED
        BY <4>1, <4>2, <4>3, <4>4 DEF Knows, Counts
    <3> QED
      BY <3>2, <3>3, <3>4, <3>5 DEF Keeps
  <2> QED
    BY <2>3, <2>4
<1> QED
  BY <1>1, <1>2

\* The descriptor gets a field, and locks stay as they are.
LEMMA DescriptorKept ==
  ASSUME NEW t, NEW l, Ready(t, l), NEW d \in Descriptor, d.lock = desc[t].lock,
         desc' = [desc EXCEPT ![t] = d],
         handles' \in [Threads -> SUBSET Boards],
         \A u \in Threads \ {t} : handles'[u] = handles[u],
         UNCHANGED <<call, met, missed, built, result, lock, bus, asserts>>
  PROVE  Types' /\ LockIsOwned' /\ Alone(t)
<1> USE DEF Ready
<1>1. Types'
  BY DEF Types
<1>2. LockIsOwned'
  BY DEF LockIsOwned, Types
<1>3. Alone(t)
  BY DEF Alone, Types
<1> QED
  BY <1>1, <1>2, <1>3

LEMMA OpensKept ==
  ASSUME NEW t, NEW l, Ready(t, l), UNCHANGED call, Opens(t)
  PROVE  Keeps(t, FlowOpens(l))
<1> DEFINE m == FlowOpens(l)
           d == [desc[t] EXCEPT !.open = TRUE, !.handle = @ \/ ~desc[t].open]
<1> USE DEF Ready
<1>1. /\ d \in Descriptor /\ d.lock = desc[t].lock /\ d.there = desc[t].there /\ d.board = desc[t].board
      /\ d.open = TRUE /\ (d.handle <=> desc[t].handle \/ ~desc[t].open) /\ desc[t].board \in Boards
  BY DEF Types, Descriptor
<1>2. desc' = [desc EXCEPT ![t] = d]
  BY DEF Opens, Types
<1>3. /\ handles' \in [Threads -> SUBSET Boards] /\ \A u \in Threads \ {t} : handles'[u] = handles[u]
      /\ handles'[t] = IF desc[t].open \/ desc[t].handle THEN handles[t] ELSE handles[t] \cup {desc[t].board}
  BY <1>1 DEF Opens, Types
<1>4. UNCHANGED <<met, missed, built, result, lock, bus, asserts>>
  BY DEF Opens
<1>5. Types' /\ LockIsOwned' /\ Alone(t)
  BY <1>1, <1>2, <1>3, <1>4, DescriptorKept
<1>6. Knows(t, m)'
  <2>1. /\ m.met = l.met /\ m.missed = l.missed /\ m.built = l.built /\ m.result = l.result
        /\ m.there = l.there /\ m.open = TRUE /\ (m.handle <=> l.handle \/ ~l.open) /\ m.lock = l.lock
        /\ m.sound = l.sound /\ m.home = l.home /\ m.addr = l.addr /\ (m.kept <=> l.kept /\ l.there)
    BY DEF FlowState, FlowOpens, FlowReopens
  <2>2. desc'[t] = d
    BY <1>2 DEF Types
  <2>3. l.kept /\ l.there => Kept(t)'
    BY <1>1, <1>3, <2>2 DEF Kept, IsDevice, Knows
  <2> HIDE DEF m, d
  <2> QED
    BY <1>1, <1>4, <2>1, <2>2, <2>3 DEF Knows
<1> QED
  BY <1>5, <1>6 DEF Keeps

LEMMA ReopensKept ==
  ASSUME NEW t, NEW l, Ready(t, l), UNCHANGED call, Reopens(t)
  PROVE  Keeps(t, FlowReopens(l))
<1> DEFINE m == FlowReopens(l)
           d == [desc[t] EXCEPT !.handle = TRUE]
<1> USE DEF Ready
<1>1. /\ d \in Descriptor /\ d.lock = desc[t].lock /\ d.there = desc[t].there /\ d.board = desc[t].board
      /\ d.open = desc[t].open /\ d.handle = TRUE /\ desc[t].board \in Boards
  BY DEF Types, Descriptor
<1>2. desc' = [desc EXCEPT ![t] = d]
  BY DEF Reopens, Types
<1>3. /\ handles' \in [Threads -> SUBSET Boards] /\ \A u \in Threads \ {t} : handles'[u] = handles[u]
      /\ handles'[t] = handles[t] \cup {desc[t].board}
  BY <1>1 DEF Reopens, Types
<1>4. UNCHANGED <<met, missed, built, result, lock, bus, asserts>>
  BY DEF Reopens
<1>5. Types' /\ LockIsOwned' /\ Alone(t)
  BY <1>1, <1>2, <1>3, <1>4, DescriptorKept
<1>6. Knows(t, m)'
  <2>1. /\ m.met = l.met /\ m.missed = l.missed /\ m.built = l.built /\ m.result = l.result
        /\ m.there = l.there /\ m.open = l.open /\ m.handle = TRUE /\ m.lock = l.lock
        /\ m.sound = l.sound /\ m.home = l.home /\ m.addr = l.addr /\ (m.kept <=> l.kept /\ l.there)
    BY DEF FlowState, FlowOpens, FlowReopens
  <2>2. desc'[t] = d
    BY <1>2 DEF Types
  <2>3. l.kept /\ l.there => Kept(t)'
    BY <1>1, <1>3, <2>2 DEF Kept, IsDevice, Knows
  <2> HIDE DEF m, d
  <2> QED
    BY <1>1, <1>4, <2>1, <2>2, <2>3 DEF Knows
<1> QED
  BY <1>5, <1>6 DEF Keeps

LEMMA ClosesKept ==
  ASSUME NEW t, NEW l, Ready(t, l), UNCHANGED call, Closes(t)
  PROVE  Keeps(t, [l EXCEPT !.handle = FALSE])
<1> DEFINE m == [l EXCEPT !.handle = FALSE]
           d == [desc[t] EXCEPT !.handle = FALSE]
<1> USE DEF Ready
<1>1. /\ d \in Descriptor /\ d.lock = desc[t].lock /\ d.there = desc[t].there /\ d.board = desc[t].board
      /\ d.open = desc[t].open /\ d.handle = FALSE /\ desc[t].board \in Boards
  BY DEF Types, Descriptor
<1>2. desc' = [desc EXCEPT ![t] = d]
  BY DEF Closes, Types
<1>3. /\ handles' \in [Threads -> SUBSET Boards] /\ \A u \in Threads \ {t} : handles'[u] = handles[u]
      /\ handles'[t] = IF desc[t].handle THEN handles[t] \ {desc[t].board} ELSE handles[t]
  BY <1>1 DEF Closes, Types
<1>4. UNCHANGED <<met, missed, built, result, lock, bus, asserts>>
  BY DEF Closes
<1>5. Types' /\ LockIsOwned' /\ Alone(t)
  BY <1>1, <1>2, <1>3, <1>4, DescriptorKept
<1>6. Knows(t, m)'
  <2>1. /\ m.met = l.met /\ m.missed = l.missed /\ m.built = l.built /\ m.result = l.result
        /\ m.there = l.there /\ m.open = l.open /\ m.handle = FALSE /\ m.lock = l.lock
        /\ m.sound = l.sound /\ m.home = l.home /\ m.addr = l.addr /\ m.kept = l.kept
    BY DEF FlowState
  <2>2. desc'[t] = d
    BY <1>2 DEF Types
  <2>3. l.kept => Kept(t)'
    BY <1>1, <1>3, <2>2 DEF Kept, IsDevice, Knows
  <2> HIDE DEF m, d
  <2> QED
    BY <1>1, <1>4, <2>1, <2>2, <2>3 DEF Knows
<1> QED
  BY <1>5, <1>6 DEF Keeps

LEMMA MovesKept ==
  ASSUME NEW t, NEW l, Ready(t, l), UNCHANGED call, NEW b \in Boards, Moves(t, b)
  PROVE  Keeps(t, FlowMoves(l))
<1> DEFINE m == FlowMoves(l)
           d == [desc[t] EXCEPT !.board = b]
<1> USE DEF Ready
<1>1. /\ d \in Descriptor /\ d.lock = desc[t].lock /\ d.there = desc[t].there /\ d.board = b
      /\ d.open = desc[t].open /\ d.handle = desc[t].handle
  BY DEF Types, Descriptor
<1>2. desc' = [desc EXCEPT ![t] = d]
  BY DEF Moves, Types
<1>3. handles' \in [Threads -> SUBSET Boards] /\ UNCHANGED handles
  BY DEF Moves, Types
<1>4. UNCHANGED <<met, missed, built, result, lock, bus, asserts>>
  BY DEF Moves
<1>5. Types' /\ LockIsOwned' /\ Alone(t)
  BY <1>1, <1>2, <1>3, <1>4, DescriptorKept
<1>6. desc'[t] = d
  BY <1>2 DEF Types
<1>7. Knows(t, m)'
  <2>1. /\ m.met = l.met /\ m.missed = l.missed /\ m.built = l.built /\ m.result = l.result
        /\ m.there = l.there /\ m.open = l.open /\ m.handle = l.handle /\ m.lock = l.lock
        /\ m.sound = l.sound /\ m.home = FALSE /\ m.addr = "?"
        /\ (m.kept <=> l.kept /\ ~(l.there /\ l.handle))
    BY DEF FlowState, FlowMoves, Loses
  <2>2. l.kept /\ ~(l.there /\ l.handle) => Kept(t)'
    BY <1>1, <1>3, <1>6 DEF Kept, IsDevice, Knows
  <2> HIDE DEF m, d
  <2> QED
    BY <1>1, <1>4, <1>6, <2>1, <2>2 DEF Knows
<1> QED
  BY <1>5, <1>7 DEF Keeps

LEMMA ResetsKept ==
  ASSUME NEW t, NEW l, Ready(t, l), UNCHANGED call, ~l.lock, NEW there \in BOOLEAN,
         NEW d, desc' = [desc EXCEPT ![t] = d],
         \/ d = [Closed(t) EXCEPT !.there = TRUE] /\ there = TRUE
         \/ d = Closed(t) /\ IsDevice(t) /\ there = FALSE,
         UNCHANGED <<met, missed, built, result, handles, lock, bus, asserts>>
  PROVE  Keeps(t, FlowResets(IsDevice(t), l, there))
<1> DEFINE m == FlowResets(IsDevice(t), l, there)
<1> USE DEF Ready
<1>1. /\ d \in Descriptor /\ d.lock = FALSE /\ (d.there <=> there) /\ d.board = Home
      /\ d.open = FALSE /\ (d.handle <=> ~IsDevice(t))
  <2>1. PICK h \in BOOLEAN : h = (~IsDevice(t))
    BY DEF IsDevice
  <2>2. Closed(t) = [there |-> h, open |-> FALSE, handle |-> h, lock |-> FALSE, board |-> Home]
    BY <2>1 DEF Closed
  <2>3. PICK x \in BOOLEAN : x = there /\
          d = [there |-> x, open |-> FALSE, handle |-> h, lock |-> FALSE, board |-> Home]
    <3>1. CASE d = [Closed(t) EXCEPT !.there = TRUE] /\ there = TRUE
      <4>1. d = [there |-> TRUE, open |-> FALSE, handle |-> h, lock |-> FALSE, board |-> Home]
        BY <2>1, <3>1 DEF Closed
      <4> QED
        BY <3>1, <4>1
    <3>2. CASE d = Closed(t) /\ IsDevice(t) /\ there = FALSE
      <4>1. h = FALSE
        BY <2>1, <3>2
      <4> QED
        BY <2>2, <3>2, <4>1
    <3> QED
      BY <3>1, <3>2
  <2>4. d \in Descriptor /\ d.lock = FALSE /\ d.board = Home /\ d.open = FALSE
    BY <2>3, LibraryAssumption DEF Descriptor
  <2>5. (d.there <=> there) /\ (d.handle <=> ~IsDevice(t))
    BY <2>1, <2>3
  <2> QED
    BY <2>4, <2>5
<1>2. d.lock = desc[t].lock
  BY <1>1 DEF Knows, Types, Descriptor
<1>3. Types' /\ LockIsOwned' /\ Alone(t)
  BY <1>1, <1>2, DescriptorKept DEF Types
<1>4. desc'[t] = d
  BY DEF Types
<1>5. Knows(t, m)'
  <2>1. /\ m.met = l.met /\ m.missed = l.missed /\ m.built = l.built /\ m.result = l.result
        /\ m.there = there /\ m.open = FALSE /\ (m.handle <=> ~IsDevice(t)) /\ m.lock = FALSE
        /\ m.sound = l.sound /\ m.home = TRUE /\ m.addr = "?"
        /\ (m.kept <=> l.kept /\ ~(l.there /\ l.handle))
    BY DEF FlowState, FlowResets, Loses
  <2>2. l.kept /\ ~(l.there /\ l.handle) => Kept(t)'
    BY <1>1, <1>4 DEF Kept, IsDevice, Knows
  <2> HIDE DEF m
  <2> QED
    BY <1>1, <1>4, <2>1, <2>2 DEF Knows
<1> QED
  BY <1>3, <1>5 DEF Keeps

\* Nothing that a thread knows of itself but its result, its setup and its errors.
LEMMA SameKept ==
  ASSUME NEW t, NEW l, Ready(t, l), UNCHANGED <<call, desc, handles, lock, asserts>>,
         NEW k, Counts(t, k),
         k.there = l.there, k.open = l.open, k.handle = l.handle, k.lock = l.lock,
         k.sound = l.sound, k.home = l.home, k.kept = l.kept,
         result' \in [Threads -> {"ok", "ERR"}], k.result = result'[t],
         \A u \in Threads \ {t} : result'[u] = result[u],
         bus' \in [Boards -> OnBus], \A b \in Boards : bus'[b] = bus[b] \/ lock[b] = t,
         k.addr # "?" => bus'[desc[t].board] = [as |-> k.addr, device |-> call[t].to]
  PROVE  Keeps(t, k)
<1> USE DEF Ready
<1>1. Types'
  BY DEF Types, Counts
<1>2. LockIsOwned'
  BY DEF LockIsOwned
<1>3. Alone(t)
  BY DEF Alone, Counts
<1>4. Knows(t, k)'
  <2>1. Kept(t) => Kept(t)'
    BY DEF Kept, IsDevice
  <2> QED
    BY <2>1 DEF Knows, Counts
<1> QED
  BY <1>1, <1>2, <1>3, <1>4 DEF Keeps

\* The message that t sends reaches a board that nobody else has locked.
LEMMA SendsKept ==
  ASSUME NEW t, NEW l, Ready(t, l), UNCHANGED call, NEW s \in StepType, Sends(t, s),
         l.lock, l.home
  PROVE  Keeps(t, FlowSends(l, s))
<1> DEFINE k == FlowSends(l, s)
<1> USE DEF Ready
<1>1. desc[t].board = Home /\ Home \in Boards /\ lock[Home] = t
  BY LibraryAssumption DEF Knows, LockIsOwned
<1>2. /\ bus' = [bus EXCEPT ![Home] = Addressed(t, s)]
      /\ missed' = IF Hears(t, s) THEN missed ELSE [missed EXCEPT ![t] = @ \cup {s.says}]
      /\ UNCHANGED <<met, built, result, desc, handles, lock, asserts>>
  BY <1>1 DEF Sends
<1>3. Addressed(t, s) \in OnBus
  <2>1. bus[Home] \in OnBus /\ call[t].to \in Partner /\ Nobody \in Partner
    BY <1>1 DEF Types, CallTypes, Partner
  <2> QED
    BY <1>1, <2>1 DEF Addressed, OnBus, Unaddressed
<1>4. FlowAddressed(l, s) # "?" =>
        Addressed(t, s) = [as |-> FlowAddressed(l, s), device |-> call[t].to]
  BY <1>1 DEF FlowAddressed, Addressed, Knows, StepType, FlowState, Unaddressed
<1>5. FlowHears(l, s) => Hears(t, s)
  BY <1>4 DEF FlowHears, Hears
<1>6. /\ k.met = l.met /\ k.built = l.built /\ k.result = l.result
      /\ k.there = l.there /\ k.open = l.open /\ k.handle = l.handle /\ k.lock = l.lock
      /\ k.sound = l.sound /\ k.home = l.home /\ k.kept = l.kept
      /\ k.addr = FlowAddressed(l, s)
      /\ k.missed = IF FlowHears(l, s) THEN l.missed ELSE l.missed \cup {s.says}
  BY DEF FlowState, FlowSends
<1> HIDE DEF k
<1>7. Counts(t, k)
  <2>1. DOMAIN missed' = Threads /\ \A u \in Threads \ {t} : missed'[u] = missed[u]
    BY <1>2 DEF Types
  <2>2. missed'[t] \subseteq k.missed
    BY <1>2, <1>5, <1>6 DEF Types, Knows
  <2> QED
    BY <1>2, <1>6, <2>1, <2>2 DEF Counts, Types, Knows
<1>8. /\ bus' \in [Boards -> OnBus] /\ bus'[desc[t].board] = Addressed(t, s)
      /\ \A b \in Boards : bus'[b] = bus[b] \/ lock[b] = t
  BY <1>1, <1>2, <1>3 DEF Types
<1>9. result' \in [Threads -> {"ok", "ERR"}] /\ k.result = result'[t]
  BY <1>2, <1>6 DEF Types, Knows
<1> QED
  BY <1>2, <1>4, <1>6, <1>7, <1>8, <1>9, SameKept DEF k

LEMMA AddressingTypes == Addressings \subseteq OnBus
BY DEF Addressings, OnBus, Partner, Unaddressed

LEMMA OverrunsKept ==
  ASSUME NEW t, NEW l, Ready(t, l), UNCHANGED call, NEW s \in StepType, Overruns(t, s),
         l.lock, l.home
  PROVE  Keeps(t, FlowOverruns(l, s))
<1> DEFINE k == FlowOverruns(l, s)
<1> USE DEF Ready
<1>1. desc[t].board = Home /\ Home \in Boards /\ lock[Home] = t
  BY LibraryAssumption DEF Knows, LockIsOwned
<1>2. PICK b \in OnBus :
        /\ bus' = [bus EXCEPT ![Home] = b]
        /\ missed' = [missed EXCEPT ![t] = @ \cup {s.says}]
        /\ UNCHANGED <<met, built, result, desc, handles, lock, asserts>>
  BY <1>1, AddressingTypes DEF Overruns
<1>3. /\ k.met = l.met /\ k.built = l.built /\ k.result = l.result
      /\ k.there = l.there /\ k.open = l.open /\ k.handle = l.handle /\ k.lock = l.lock
      /\ k.sound = l.sound /\ k.home = l.home /\ k.kept = l.kept
      /\ k.addr = "?" /\ k.missed = l.missed \cup {s.says}
  BY DEF FlowState, FlowOverruns
<1> HIDE DEF k
<1>4. Counts(t, k)
  <2>1. DOMAIN missed' = Threads /\ \A u \in Threads \ {t} : missed'[u] = missed[u]
    BY <1>2 DEF Types
  <2>2. missed'[t] \subseteq k.missed
    BY <1>2, <1>3 DEF Types, Knows
  <2> QED
    BY <1>2, <1>3, <2>1, <2>2 DEF Counts, Types, Knows
<1>5. bus' \in [Boards -> OnBus] /\ \A c \in Boards : bus'[c] = bus[c] \/ lock[c] = t
  BY <1>1, <1>2 DEF Types
<1>6. result' \in [Threads -> {"ok", "ERR"}] /\ k.result = result'[t]
  BY <1>2, <1>3 DEF Types, Knows
<1> QED
  BY <1>2, <1>3, <1>4, <1>5, <1>6, SameKept DEF k

LEMMA BuildsKept ==
  ASSUME NEW t, NEW l, Ready(t, l), UNCHANGED call, Builds(t)
  PROVE  Keeps(t, [l EXCEPT !.built = TRUE])
<1> DEFINE k == [l EXCEPT !.built = TRUE]
<1> USE DEF Ready
<1>1. /\ k.met = l.met /\ k.missed = l.missed /\ k.built = TRUE /\ k.result = l.result
      /\ k.there = l.there /\ k.open = l.open /\ k.handle = l.handle /\ k.lock = l.lock
      /\ k.sound = l.sound /\ k.home = l.home /\ k.kept = l.kept /\ k.addr = l.addr
  BY DEF FlowState
<1> HIDE DEF k
<1>2. UNCHANGED <<met, missed, result, desc, handles, lock, bus, asserts>>
  BY DEF Builds
<1>3. Counts(t, k)
  BY <1>1, <1>2 DEF Counts, Types, Knows, Builds
<1>4. /\ result' \in [Threads -> {"ok", "ERR"}] /\ k.result = result'[t] /\ bus' \in [Boards -> OnBus]
      /\ k.addr # "?" => bus'[desc[t].board] = [as |-> k.addr, device |-> call[t].to]
  BY <1>1, <1>2 DEF Types, Knows
<1> QED
  BY <1>1, <1>2, <1>3, <1>4, SameKept DEF k

LEMMA ClearsKept ==
  ASSUME NEW t, NEW l, Ready(t, l), UNCHANGED call, Clears(t), l.lock, l.home
  PROVE  Keeps(t, [l EXCEPT !.addr = "?"])
<1> DEFINE k == [l EXCEPT !.addr = "?"]
<1> USE DEF Ready
<1>1. /\ k.met = l.met /\ k.missed = l.missed /\ k.built = l.built /\ k.result = l.result
      /\ k.there = l.there /\ k.open = l.open /\ k.handle = l.handle /\ k.lock = l.lock
      /\ k.sound = l.sound /\ k.home = l.home /\ k.kept = l.kept /\ k.addr = "?"
  BY DEF FlowState
<1> HIDE DEF k
<1>2. desc[t].board = Home /\ Home \in Boards /\ lock[Home] = t
  BY LibraryAssumption DEF Knows, LockIsOwned
<1>3. /\ bus' = [bus EXCEPT ![Home] = Unaddressed] /\ Unaddressed \in OnBus
      /\ UNCHANGED <<met, missed, built, result, desc, handles, lock, asserts>>
  BY <1>2 DEF Clears, Unaddressed, OnBus, Partner
<1>4. Counts(t, k)
  BY <1>1, <1>3 DEF Counts, Types, Knows
<1>5. /\ result' \in [Threads -> {"ok", "ERR"}] /\ k.result = result'[t] /\ bus' \in [Boards -> OnBus]
      /\ \A b \in Boards : bus'[b] = bus[b] \/ lock[b] = t
  BY <1>1, <1>2, <1>3 DEF Types, Knows
<1> QED
  BY <1>1, <1>3, <1>4, <1>5, SameKept DEF k

LEMMA GivesUpKept ==
  ASSUME NEW t, NEW l, Ready(t, l), UNCHANGED call, GivesUp(t)
  PROVE  Keeps(t, [l EXCEPT !.result = "ERR"])
<1> DEFINE k == [l EXCEPT !.result = "ERR"]
<1> USE DEF Ready
<1>1. /\ k.met = l.met /\ k.missed = l.missed /\ k.built = l.built /\ k.result = "ERR"
      /\ k.there = l.there /\ k.open = l.open /\ k.handle = l.handle /\ k.lock = l.lock
      /\ k.sound = l.sound /\ k.home = l.home /\ k.kept = l.kept /\ k.addr = l.addr
  BY DEF FlowState
<1> HIDE DEF k
<1>2. UNCHANGED <<met, missed, built, desc, handles, lock, bus, asserts>>
  BY DEF GivesUp
<1>3. Counts(t, k)
  BY <1>1, <1>2 DEF Counts, Types, Knows
<1>4. /\ result' \in [Threads -> {"ok", "ERR"}] /\ k.result = result'[t] /\ bus' \in [Boards -> OnBus]
      /\ \A u \in Threads \ {t} : result'[u] = result[u]
      /\ k.addr # "?" => bus'[desc[t].board] = [as |-> k.addr, device |-> call[t].to]
  BY <1>1, <1>2 DEF Types, Knows, GivesUp
<1> QED
  BY <1>1, <1>2, <1>3, <1>4, SameKept DEF k

LEMMA NothingKept ==
  ASSUME NEW t, NEW l, Ready(t, l), Nothing, call'[t].to = call[t].to, call'[t].sound = call[t].sound
  PROVE  Keeps(t, l)
<1> USE DEF Ready
<1>1. Types' /\ LockIsOwned' /\ Alone(t)
  BY DEF Types, LockIsOwned, Alone, Nothing
<1>2. Knows(t, l)'
  BY DEF Knows, Kept, IsDevice, Nothing
<1> QED
  BY <1>1, <1>2 DEF Keeps

-----------------------------------------------------------------------------
(* The steps of one thread *)

LEMMA EffectTypes ==
  ASSUME NEW device \in BOOLEAN, NEW l \in FlowState, NEW s \in StepType, NEW r \in {"ok", "ERR"}
  PROVE  /\ FlowLeaves(l, r) \in FlowState
         /\ FlowEffect(device, l, s) \in FlowState
<1>1. FlowLeaves(l, "ok") \in FlowState /\ FlowLeaves(l, "ERR") \in FlowState
  BY DEF FlowLeaves, FlowState
<1>2. FlowLeaves(l, r) \in FlowState /\ FlowLeaves(l, l.result) \in FlowState
  BY <1>1 DEF FlowState
<1>3. FlowAddressed(l, s) \in {"talk", "listen", "?"}
  BY DEF FlowAddressed, FlowState, StepType
<1>4. FlowSends(l, s) \in FlowState
  <2>1. (IF FlowHears(l, s) THEN l.missed ELSE l.missed \cup {s.says}) \in SUBSET STRING
    BY DEF FlowState, StepType
  <2> QED
    BY <1>3, <2>1 DEF FlowSends, FlowState
<1>5. FlowLocks(l) \in FlowState
  BY DEF FlowLocks, FlowState
<1>6. FlowMoves(l) \in FlowState
  BY DEF FlowMoves, Loses, FlowState
<1>9. FlowOverruns(l, s) \in FlowState
  BY DEF FlowOverruns, FlowState, StepType
<1>8. \A x \in BOOLEAN : FlowResets(device, l, x) \in FlowState
  <2> SUFFICES ASSUME NEW x \in BOOLEAN, NEW y \in BOOLEAN, NEW z \in BOOLEAN, y = (~device),
                      z = (l.kept /\ ~Loses(l))
               PROVE  FlowResets(device, l, x) \in FlowState
    OBVIOUS
  <2>1. FlowResets(device, l, x) =
          [l EXCEPT !.there = x, !.open = FALSE, !.handle = y, !.lock = FALSE, !.home = TRUE,
                    !.addr = "?", !.kept = z]
    BY DEF FlowResets, FlowState
  <2> QED
    BY <2>1 DEF FlowState
<1>7. /\ FlowOpens(l) \in FlowState
      /\ FlowReopens(l) \in FlowState
      /\ [l EXCEPT !.handle = FALSE] \in FlowState
      /\ [l EXCEPT !.built = TRUE] \in FlowState
      /\ [l EXCEPT !.addr = "?"] \in FlowState
      /\ [l EXCEPT !.result = "ERR"] \in FlowState
  BY DEF FlowState, FlowOpens, FlowReopens
<1> QED
  BY <1>1, <1>2, <1>4, <1>5, <1>6, <1>7, <1>8, <1>9 DEF FlowEffect

LEMMA EffectKept ==
  ASSUME NEW t, NEW l, Ready(t, l), UNCHANGED call, NEW s \in StepType, Effect(t, s),
         Minds(call[t].name, l, s), ~Blocked(t, s), l.lock => l.home \/ call[t].name \in Aborting
  PROVE  Keeps(t, FlowEffect(IsDevice(t), l, s))
<1> DEFINE e == FlowEffect(IsDevice(t), l, s)
<1>0. /\ t \in Threads /\ l \in FlowState /\ call[t].board \in Boards /\ Home \in Boards
      /\ l.result \in {"ok", "ERR"} /\ l.result = result[t]
  BY LibraryAssumption DEF Ready, CallTypes, FlowState, Knows
<1>1. CASE s.op = "lock"
  <2>1. Locks(t) /\ e = FlowLocks(l)
    BY <1>1 DEF Effect, FlowEffect
  <2>2. /\ l.home /\ (l.lock => call[t].name \in Aborting)
        /\ lock[desc[t].board] = Nobody \/ desc[t].lock
    BY <1>1 DEF Minds, Blocked
  <2> QED
    BY <2>1, <2>2, LocksKept
<1>2. CASE s.op = "online"
  <2>1. Opens(t) /\ e = FlowOpens(l)
    BY <1>2 DEF Effect, FlowEffect
  <2> QED
    BY <2>1, OpensKept
<1>3. CASE s.op = "reopen"
  <2>1. Reopens(t) /\ e = FlowReopens(l)
    BY <1>3 DEF Effect, FlowEffect
  <2> QED
    BY <2>1, ReopensKept
<1>4. CASE s.op = "close"
  <2>1. Closes(t) /\ e = [l EXCEPT !.handle = FALSE]
    BY <1>4 DEF Effect, FlowEffect
  <2> QED
    BY <2>1, ClosesKept
<1>5. CASE s.op = "move"
  <2>1. Moves(t, call[t].board) /\ e = FlowMoves(l)
    BY <1>5 DEF Effect, FlowEffect
  <2> QED
    BY <1>0, <2>1, MovesKept
<1>6. CASE s.op = "overrun"
  <2>1. Overruns(t, s) /\ e = FlowOverruns(l, s) /\ l.lock /\ l.home
    BY <1>6 DEF Effect, FlowEffect, Minds
  <2> QED
    BY <2>1, OverrunsKept
<1>7. CASE s.op = "insert"
  <2>1. Inserts(t) /\ e = FlowResets(IsDevice(t), l, TRUE) /\ ~l.lock
    BY <1>7 DEF Effect, FlowEffect, Minds
  <2> QED
    BY <2>1, ResetsKept DEF Inserts
<1>8. CASE s.op = "release"
  <2>1. Releases(t) /\ e = (IF IsDevice(t) THEN FlowResets(IsDevice(t), l, FALSE) ELSE l) /\ ~l.lock
    BY <1>8 DEF Effect, FlowEffect, Minds
  <2>2. CASE IsDevice(t)
    <3>1. e = FlowResets(IsDevice(t), l, FALSE)
      BY <2>1, <2>2
    <3> QED
      BY <2>1, <2>2, <3>1, ResetsKept DEF Releases
  <2>3. CASE ~IsDevice(t)
    <3>1. Nothing /\ e = l
      BY <2>1, <2>3 DEF Releases, Nothing
    <3> QED
      BY <3>1, NothingKept
  <2> QED
    BY <2>2, <2>3
<1>9. CASE s.op \in {"command", "empty command"}
  <2>1. Sends(t, s) /\ e = FlowSends(l, s) /\ l.lock /\ l.home
    BY <1>9 DEF Effect, FlowEffect, Minds
  <2> QED
    BY <2>1, SendsKept
<1>10. CASE s.op = "build"
  <2>1. Builds(t) /\ e = [l EXCEPT !.built = TRUE]
    BY <1>10 DEF Effect, FlowEffect
  <2> QED
    BY <2>1, BuildsKept
<1>11. CASE s.op \in {"poll", "clear"}
  <2>1. Clears(t) /\ e = [l EXCEPT !.addr = "?"] /\ l.lock /\ l.home
    BY <1>11 DEF Effect, FlowEffect, Minds
  <2> QED
    BY <2>1, ClearsKept
<1>12. CASE s.op \in {"exit", "exit with error", "unlock"}
  <2>1. PICK r \in {"ok", "ERR"} : Leaves(t, r) /\ e = FlowLeaves(l, r)
    BY <1>0, <1>12 DEF Effect, FlowEffect
  <2>2. Like(l, l) /\ Counts(t, l)
    BY <2>1 DEF Like, Counts, Leaves, Ready, Types, Knows
  <2> QED
    BY <1>0, <2>1, <2>2, LeavesKept DEF Leaves
<1>13. CASE s.op = "return error"
  <2>1. GivesUp(t) /\ e = [l EXCEPT !.result = "ERR"]
    BY <1>13 DEF Effect, FlowEffect
  <2> QED
    BY <2>1, GivesUpKept
<1>14. CASE s.op \notin {"lock", "online", "reopen", "close", "move", "overrun", "insert", "release",
                         "command", "empty command", "build", "poll", "clear", "exit",
                         "exit with error", "return error", "unlock"}
  <2>1. Nothing /\ e = l
    BY <1>14 DEF Effect, FlowEffect
  <2> QED
    BY <2>1, NothingKept
<1> QED
  BY <1>1, <1>2, <1>3, <1>4, <1>5, <1>6, <1>7, <1>8, <1>9, <1>10, <1>11, <1>12, <1>13, <1>14

\* The state m of the flow does not depend on where the thread is.
LEMMA AtIsApart ==
  ASSUME NEW t, NEW e \in FlowState, NEW x, Keeps(t, e)
  PROVE  Keeps(t, [e EXCEPT !.at = x]) /\ [e EXCEPT !.at = x].at = x
<1> DEFINE m == [e EXCEPT !.at = x]
<1>1. /\ m.met = e.met /\ m.missed = e.missed /\ m.built = e.built /\ m.result = e.result
      /\ m.there = e.there /\ m.open = e.open /\ m.handle = e.handle /\ m.lock = e.lock
      /\ m.sound = e.sound /\ m.home = e.home /\ m.addr = e.addr /\ m.kept = e.kept /\ m.at = x
  BY DEF FlowState
<1> HIDE DEF m
<1>2. Knows(t, m)'
  BY <1>1 DEF Keeps, Knows
<1> QED
  BY <1>1, <1>2 DEF Keeps, m

\* What is known of a call under way.
LEMMA Known ==
  ASSUME NEW t \in Threads, NEW l, NEW n, n \in Names(IsDevice(t)), l \in FlowOf(t, n)
  PROVE  /\ CallOf(IsDevice(t), n) \in Seq(StepType) /\ l \in FlowState
         /\ FlowNext(IsDevice(t), CallOf(IsDevice(t), n), l) \subseteq FlowOf(t, n)
         /\ Careful(n, CallOf(IsDevice(t), n), l)
         /\ Past(CallOf(IsDevice(t), n), l) => Left(t, n, l)
BY ProgramsAreCareful DEF FlowAssumption

\* Thread t is in the state l of its flow.
In(t, l) ==
  /\ Ready(t, l) /\ l.at = at[t] /\ ~Idle(t)
  /\ call[t].name \in Names(IsDevice(t)) /\ l \in FlowOf(t, call[t].name)
\* A step has taken it to m.
Goes(t, l, m) ==
  /\ m \in FlowNext(IsDevice(t), Program(t), l) /\ m.at = at'[t]
  /\ Keeps(t, m)
  /\ \A u \in Threads \ {t} : at'[u] = at[u] /\ call'[u] = call[u]
  /\ CallTypes' /\ call'[t].name = call[t].name

LEMMA AtTypes ==
  ASSUME CallTypes, NEW t \in Threads, NEW x, at' = [at EXCEPT ![t] = x], UNCHANGED call
  PROVE  /\ CallTypes' /\ at'[t] = x /\ call'[t].name = call[t].name
         /\ \A u \in Threads \ {t} : at'[u] = at[u] /\ call'[u] = call[u]
BY DEF CallTypes

LEMMA Here ==
  ASSUME NEW t, NEW l, In(t, l), Running(t)
  PROVE  /\ t \in Threads /\ l \in FlowState /\ CallTypes /\ IsDevice(t) \in BOOLEAN
         /\ Now(t) \in StepType /\ Minds(call[t].name, l, Now(t))
         /\ l.lock => l.home \/ call[t].name \in Aborting
         /\ FlowNext(IsDevice(t), Program(t), l) = FlowStep(IsDevice(t), l, Now(t))
<1>1. t \in Threads /\ l \in FlowState /\ CallTypes /\ IsDevice(t) \in BOOLEAN
  BY DEF In, Ready, IsDevice
<1> DEFINE p == Program(t)
<1>2. p \in Seq(StepType) /\ Careful(call[t].name, p, l)
  BY <1>1, Known, ItsProgram DEF In
<1>3. l.at \in 1..Len(p) /\ l.at # 0 /\ Now(t) = p[l.at]
  BY <1>2 DEF Running, In, Now
<1>4. Now(t) \in StepType
  BY <1>2, <1>3
<1> HIDE DEF p
<1>5. Minds(call[t].name, l, Now(t)) /\ (l.lock => l.home \/ call[t].name \in Aborting)
  BY <1>2, <1>3 DEF Careful
<1>6. FlowNext(IsDevice(t), p, l) = FlowStep(IsDevice(t), l, Now(t))
  BY <1>3 DEF FlowNext
<1> QED
  BY <1>1, <1>4, <1>5, <1>6 DEF p

LEMMA Refusal ==
  ASSUME NEW t, NEW l, Ready(t, l), NEW s
  PROVE  (Refused(t, s) <=> FlowRefused(l, s)) /\ (Void(t, s) <=> FlowVoid(l, s))
BY DEF Ready, Knows, Refused, FlowRefused, Void, FlowVoid

LEMMA StepsGo ==
  ASSUME NEW t, NEW l, In(t, l), Steps(t)
  PROVE  \E m : Goes(t, l, m)
<1> DEFINE s == Now(t)
           e == FlowEffect(IsDevice(t), l, s)
           x == IF s.op = "return error" THEN -1 ELSE l.at + 1
           m == [e EXCEPT !.at = x]
<1>1. /\ Running(t) /\ ~Refused(t, s) /\ ~Blocked(t, s) /\ (s.op = "jump" => s.may)
      /\ Effect(t, s) /\ UNCHANGED call
      /\ at' = [at EXCEPT ![t] = IF s.op = "return error" THEN -1 ELSE @ + 1]
  BY DEF Steps
<1>2. /\ t \in Threads /\ l \in FlowState /\ CallTypes /\ IsDevice(t) \in BOOLEAN
      /\ s \in StepType /\ Minds(call[t].name, l, s)
      /\ l.lock => l.home \/ call[t].name \in Aborting
      /\ FlowNext(IsDevice(t), Program(t), l) = FlowStep(IsDevice(t), l, s)
  BY <1>1, Here
<1> HIDE DEF s
<1>3. Keeps(t, e)
  BY <1>1, <1>2, EffectKept DEF In
<1>4. e \in FlowState
  BY <1>2, EffectTypes
<1>5. m = FlowDone(IsDevice(t), l, s)
  BY DEF FlowDone
<1>8. at' = [at EXCEPT ![t] = x]
  BY <1>1 DEF In
<1> HIDE DEF e, x
<1>6. Keeps(t, m) /\ m.at = x
  BY <1>3, <1>4, AtIsApart
<1> HIDE DEF m
<1>7. m \in FlowStep(IsDevice(t), l, s)
  BY <1>1, <1>5, Refusal DEF FlowStep, In
<1> QED
  BY <1>1, <1>2, <1>6, <1>7, <1>8, AtTypes DEF Goes

LEMMA JumpsGo ==
  ASSUME NEW t, NEW l, In(t, l), Jumps(t)
  PROVE  \E m : Goes(t, l, m)
<1> DEFINE s == Now(t)
           x == FlowTarget(l, s)
           m == [l EXCEPT !.at = x]
<1>1. /\ Running(t) /\ s.op = "jump" /\ UNCHANGED call /\ Nothing
      /\ at' = [at EXCEPT ![t] = Target(t, s)]
  BY DEF Jumps, Nothing
<1>2. /\ t \in Threads /\ l \in FlowState /\ CallTypes
      /\ FlowNext(IsDevice(t), Program(t), l) = FlowStep(IsDevice(t), l, s)
  BY <1>1, Here
<1> HIDE DEF s
<1>3. Keeps(t, l)
  BY <1>1, NothingKept DEF In
<1>4. m = FlowPassed(l, s)
  BY DEF FlowPassed
<1>5. at' = [at EXCEPT ![t] = x]
  BY <1>1 DEF In, Target, FlowTarget
<1> HIDE DEF x
<1>6. Keeps(t, m) /\ m.at = x
  BY <1>2, <1>3, AtIsApart
<1> HIDE DEF m
<1>7. m \in FlowStep(IsDevice(t), l, s)
  BY <1>1, <1>4 DEF FlowStep
<1> QED
  BY <1>1, <1>2, <1>5, <1>6, <1>7, AtTypes DEF Goes

\* What is left of a message does not matter to the flow.
LEMMA SendsBlockGo ==
  ASSUME NEW t, NEW l, In(t, l), SendsBlock(t)
  PROVE  \E m : Goes(t, l, m)
<1> DEFINE s == Now(t)
           m == FlowDone(IsDevice(t), l, s)
<1>1. /\ Running(t) /\ s.op = "send" /\ ~Refused(t, s) /\ Nothing
      /\ call' = [call EXCEPT ![t].rest = Rest(@)]
      /\ at' = IF Rest(call[t].rest) = <<>> THEN [at EXCEPT ![t] = @ + 1] ELSE at
  BY DEF SendsBlock, Nothing
<1>2. /\ t \in Threads /\ l \in FlowState /\ CallTypes
      /\ FlowNext(IsDevice(t), Program(t), l) = FlowStep(IsDevice(t), l, s)
  BY <1>1, Here
<1> HIDE DEF s
<1>3. /\ call'[t].name = call[t].name /\ call'[t].to = call[t].to /\ call'[t].sound = call[t].sound
      /\ \A u \in Threads \ {t} : at'[u] = at[u] /\ call'[u] = call[u]
      /\ CallTypes'
  <2>1. PICK c : c = Rest(call[t].rest)
    OBVIOUS
  <2>2. call' = [call EXCEPT ![t] = [call[t] EXCEPT !.rest = c]]
    BY <1>1, <1>2, <2>1 DEF CallTypes
  <2>3. DOMAIN call' = Threads /\ DOMAIN at' = Threads
    BY <1>1, <1>2 DEF CallTypes
  <2> QED
    BY <1>1, <1>2, <2>2, <2>3 DEF CallTypes
<1>4. Keeps(t, l)
  BY <1>1, <1>3, NothingKept DEF In
<1>5. m = [l EXCEPT !.at = l.at + 1]
  BY <1>1 DEF FlowDone, FlowEffect
<1>6. Keeps(t, m) /\ m.at = l.at + 1
  BY <1>2, <1>4, <1>5, AtIsApart
<1>7. l \in FlowStep(IsDevice(t), l, s) /\ m \in FlowStep(IsDevice(t), l, s)
  BY <1>1, Refusal DEF FlowStep, In
<1> HIDE DEF m
<1>8. CASE Rest(call[t].rest) = <<>>
  <2>1. at'[t] = m.at
    BY <1>1, <1>2, <1>6, <1>8 DEF In, CallTypes
  <2> QED
    BY <1>2, <1>3, <1>6, <1>7, <2>1 DEF Goes
<1>9. CASE Rest(call[t].rest) # <<>>
  <2>1. at'[t] = l.at
    BY <1>1, <1>9 DEF In
  <2> QED
    BY <1>2, <1>3, <1>4, <1>7, <2>1 DEF Goes
<1> QED
  BY <1>8, <1>9

LEMMA ExitsGo ==
  ASSUME NEW t, NEW l, In(t, l), ExitsWithError(t)
  PROVE  \E m : Goes(t, l, m)
<1> DEFINE e == FlowLeaves(l, "ERR")
           m == [e EXCEPT !.at = -1]
<1>1. at[t] = 0 /\ Leaves(t, "ERR") /\ at' = [at EXCEPT ![t] = -1] /\ UNCHANGED call
  BY DEF ExitsWithError, Failing
<1>2. /\ t \in Threads /\ l \in FlowState /\ CallTypes /\ Ready(t, l) /\ l.at = 0
      /\ l.lock => l.home \/ call[t].name \in Aborting
  <2>1. Careful(call[t].name, Program(t), l)
    BY Known, ItsProgram DEF In, Ready
  <2> QED
    BY <1>1, <2>1 DEF In, Ready, Careful
<1>3. Like(l, l) /\ Counts(t, l)
  BY <1>1, <1>2 DEF Like, Counts, Leaves, Ready, Types, Knows
<1>4. Keeps(t, e)
  BY <1>1, <1>2, <1>3, LeavesKept DEF Leaves
<1>5. e \in FlowState
  <2>1. FlowLeaves(l, "ERR") \in FlowState
    BY <1>2 DEF FlowLeaves, FlowState
  <2> QED
    BY <2>1
<1>6. m \in FlowNext(IsDevice(t), Program(t), l)
  BY <1>2 DEF FlowNext
<1> HIDE DEF e
<1>7. Keeps(t, m) /\ m.at = -1
  BY <1>4, <1>5, AtIsApart
<1> HIDE DEF m
<1> QED
  BY <1>1, <1>2, <1>6, <1>7, AtTypes DEF Goes

LEMMA FailsGo ==
  ASSUME NEW t, NEW l, In(t, l), Fails(t)
  PROVE  \E m : Goes(t, l, m)
<1> DEFINE s == Now(t)
           k == [l EXCEPT !.met = @ \cup {s.name},
                          !.built = @ /\ s.op # "build",
                          !.addr = IF s.op \in {"command", "overrun"} THEN "?" ELSE @,
                          !.result = IF s.op \in {"exit", "status"} THEN "ERR" ELSE @]
           e == FlowFailure(l, s)
           x == FlowTarget(l, s)
           m == [e EXCEPT !.at = x]
<1>1. /\ Running(t) /\ s.op # "jump" /\ ((s.may /\ ~Void(t, s)) \/ Refused(t, s))
      /\ at' = [at EXCEPT ![t] = Target(t, s)]
      /\ met' = [met EXCEPT ![t] = @ \cup {s.name}]
      /\ built' = IF s.op = "build" THEN [built EXCEPT ![t] = FALSE] ELSE built
      /\ \E b \in CASE s.op = "command" -> {bus[desc[t].board], Addressed(t, s), Unaddressed}
                    [] s.op = "overrun" -> Addressings
                    [] OTHER -> {bus[desc[t].board]} : bus' = [bus EXCEPT ![desc[t].board] = b]
      /\ result' = IF s.op \in {"exit", "status"} THEN [result EXCEPT ![t] = "ERR"] ELSE result
      /\ IF s.op = "exit" /\ desc[t].there /\ desc[t].lock
           THEN Unlocks(t) /\ desc' = [desc EXCEPT ![t].lock = FALSE]
           ELSE UNCHANGED <<lock, desc, asserts>>
      /\ UNCHANGED <<call, missed, handles>>
  BY DEF Fails
<1>2. /\ t \in Threads /\ l \in FlowState /\ CallTypes /\ Ready(t, l)
      /\ s \in StepType /\ Minds(call[t].name, l, s)
      /\ l.lock => l.home \/ call[t].name \in Aborting
      /\ FlowNext(IsDevice(t), Program(t), l) = FlowStep(IsDevice(t), l, s)
  BY <1>1, Here DEF In
<1>3. FlowStep(IsDevice(t), l, s) = FlowStep(IsDevice(t), l, s) \cup {FlowFailed(l, s)}
  BY <1>1, <1>2, Refusal DEF FlowStep
<1> HIDE DEF s
<1>4. at' = [at EXCEPT ![t] = x]
  BY <1>1 DEF Target, FlowTarget, In
<1>5. m = FlowFailed(l, s)
  BY DEF FlowFailed
<1>6. e = IF s.op = "exit" THEN FlowLeaves(k, "ERR") ELSE k
  BY DEF FlowFailure
<1>7. /\ k.met = l.met \cup {s.name} /\ k.missed = l.missed
      /\ (k.built <=> l.built /\ s.op # "build")
      /\ k.addr = IF s.op \in {"command", "overrun"} THEN "?" ELSE l.addr
      /\ k.result = IF s.op \in {"exit", "status"} THEN "ERR" ELSE l.result
      /\ k.there = l.there /\ k.open = l.open /\ k.handle = l.handle /\ k.lock = l.lock
      /\ k.sound = l.sound /\ k.home = l.home /\ k.kept = l.kept
  BY <1>2 DEF FlowState
<1>8. k \in FlowState
  <2>1. PICK z \in BOOLEAN : z = (l.built /\ s.op # "build")
    OBVIOUS
  <2>2. l.met \cup {s.name} \in SUBSET STRING
    BY <1>2 DEF FlowState, StepType
  <2>3. k = [l EXCEPT !.met = l.met \cup {s.name}, !.built = z,
                      !.addr = IF s.op \in {"command", "overrun"} THEN "?" ELSE l.addr,
                      !.result = IF s.op \in {"exit", "status"} THEN "ERR" ELSE l.result]
    BY <1>2, <2>1 DEF FlowState
  <2> QED
    BY <1>2, <2>2, <2>3 DEF FlowState
<1> HIDE DEF k, x, e
<1>9. Counts(t, k)
  <2>1. DOMAIN met' = Threads /\ met'[t] = k.met /\ \A u \in Threads \ {t} : met'[u] = met[u]
    BY <1>1, <1>2, <1>7 DEF Ready, Types, Knows
  <2>2. /\ built' \in [Threads -> BOOLEAN] /\ \A u \in Threads \ {t} : built'[u] = built[u]
        /\ k.built <=> built'[t]
    BY <1>1, <1>2, <1>7 DEF Ready, Types, Knows
  <2> QED
    BY <1>1, <1>2, <1>7, <2>1, <2>2 DEF Counts, Ready, Types, Knows
<1>10. e \in FlowState
  BY <1>2, <1>6, <1>8, EffectTypes
<1>11. ASSUME s.op = "exit" PROVE Keeps(t, e)
  <2>1. UNCHANGED bus /\ result' = [result EXCEPT ![t] = "ERR"]
    BY <1>1, <1>2, <1>11 DEF Ready, Types
  <2>2. Like(k, l)
    BY <1>7, <1>11 DEF Like
  <2>3. e = FlowLeaves(k, "ERR")
    BY <1>6, <1>11
  <2>4. IF desc[t].there /\ desc[t].lock
          THEN Unlocks(t) /\ desc' = [desc EXCEPT ![t].lock = FALSE]
          ELSE UNCHANGED <<lock, desc, asserts>>
    BY <1>1, <1>11
  <2> QED
    BY <1>1, <1>2, <1>8, <1>9, <2>1, <2>2, <2>3, <2>4, LeavesKept
<1>12. ASSUME s.op # "exit" PROVE Keeps(t, e)
  <2>1. UNCHANGED <<lock, desc, asserts>> /\ e = k
    BY <1>1, <1>6, <1>12
  <2>2. /\ result' \in [Threads -> {"ok", "ERR"}] /\ k.result = result'[t]
        /\ \A u \in Threads \ {t} : result'[u] = result[u]
    BY <1>1, <1>2, <1>7 DEF Ready, Types, Knows
  <2>3. UNCHANGED <<call, desc, handles, lock, asserts>>
    BY <1>1, <2>1
  <2>4. CASE s.op \in {"command", "overrun"}
    <3>1. desc[t].board = Home /\ Home \in Boards /\ lock[Home] = t
      BY <1>2, <2>4, LibraryAssumption DEF Minds, Ready, Knows, LockIsOwned
    <3>2. Addressed(t, s) \in OnBus /\ Unaddressed \in OnBus /\ bus[Home] \in OnBus
      <4>1. bus[Home] \in OnBus /\ call[t].to \in Partner /\ Nobody \in Partner
        BY <1>2, <3>1 DEF Ready, Types, CallTypes, Partner
      <4> QED
        BY <3>1, <4>1 DEF Addressed, OnBus, Unaddressed
    <3>3. PICK b \in OnBus : bus' = [bus EXCEPT ![Home] = b]
      <4>1. CASE s.op = "command"
        BY <1>1, <3>1, <3>2, <4>1
      <4>2. CASE s.op = "overrun"
        BY <1>1, <3>1, <4>2, AddressingTypes
      <4> QED
        BY <2>4, <4>1, <4>2
    <3>4. bus' \in [Boards -> OnBus] /\ \A c \in Boards : bus'[c] = bus[c] \/ lock[c] = t
      BY <1>2, <3>1, <3>3 DEF Ready, Types
    <3>5. k.addr = "?"
      BY <1>7, <2>4
    <3> QED
      BY <1>2, <1>7, <1>9, <2>1, <2>2, <2>3, <3>4, <3>5, SameKept
  <2>5. CASE s.op \notin {"command", "overrun"}
    <3>1. UNCHANGED bus /\ bus \in [Boards -> OnBus]
      BY <1>1, <1>2, <2>5 DEF Ready, Types
    <3>2. k.addr = l.addr
      BY <1>7, <2>5
    <3>3. k.addr # "?" => bus'[desc[t].board] = [as |-> k.addr, device |-> call[t].to]
      BY <1>2, <3>1, <3>2 DEF Ready, Knows
    <3> QED
      BY <1>1, <1>2, <1>7, <1>9, <2>1, <2>2, <3>1, <3>3, SameKept
  <2> QED
    BY <2>4, <2>5
<1>13. Keeps(t, m) /\ m.at = x
  BY <1>2, <1>10, <1>11, <1>12, AtIsApart
<1> HIDE DEF m
<1>14. m \in FlowNext(IsDevice(t), Program(t), l)
  BY <1>2, <1>3, <1>5 DEF m
<1>15. /\ CallTypes' /\ at'[t] = x /\ call'[t].name = call[t].name
       /\ \A u \in Threads \ {t} : at'[u] = at[u] /\ call'[u] = call[u]
  <2>1. UNCHANGED call
    BY <1>1
  <2> QED
    BY <1>2, <1>4, <2>1, AtTypes
<1> QED
  BY <1>13, <1>14, <1>15 DEF Goes

-----------------------------------------------------------------------------
(* The invariant *)

LibraryInv == Types /\ CallTypes /\ Followed

LEMMA CallNames ==
  ASSUME NEW device \in BOOLEAN
  PROVE  /\ "none" \notin Names(device)
         /\ "ibeos" \in DOMAIN DeviceCalls
<1>1. "none" \notin DOMAIN OpeningCalls
  BY DEF OpeningCalls
<1>2. "none" \notin DOMAIN DeviceCalls /\ "ibeos" \in DOMAIN DeviceCalls
  BY DEF DeviceCalls
<1>3. "none" \notin DOMAIN BoardCalls
  BY DEF BoardCalls
<1> QED
  BY <1>1, <1>2, <1>3 DEF Names

\* What a thread knows stays true while another one takes a step.
LEMMA GoesKept ==
  ASSUME LibraryInv, NEW t, NEW l, In(t, l), NEW m, Goes(t, l, m)
  PROVE  LibraryInv'
<1>1. Types' /\ CallTypes' /\ LockIsOwned' /\ t \in Threads /\ Home \in Boards
  BY LibraryAssumption DEF Goes, Keeps, In, Ready
<1>2. call'[t].name = call[t].name /\ call[t].name \in Names(IsDevice(t)) /\ call[t].name # "none"
  <2>1. IsDevice(t) \in BOOLEAN
    BY DEF IsDevice
  <2>2. "none" \notin Names(IsDevice(t))
    BY <2>1, CallNames
  <2> QED
    BY <2>2 DEF Goes, In
<1>3. ~Idle(t)' /\ InFlow(t)'
  <2>1. call'[t] # NoCall
    BY <1>2, ItsProgram, <1>1
  <2>2. m \in FlowOf(t, call[t].name)
    BY <1>1, Known, ItsProgram DEF Goes, In
  <2>3. m.at = at'[t] /\ Knows(t, m)'
    BY DEF Goes, Keeps
  <2> QED
    BY <1>2, <2>1, <2>2, <2>3 DEF Idle, InFlow, FlowOf, IsDevice
<1>4. ASSUME NEW u \in Threads, u # t PROVE IF Idle(u)' THEN AtRest(u)' ELSE InFlow(u)'
  <2>1. /\ call'[u] = call[u] /\ at'[u] = at[u] /\ met'[u] = met[u] /\ missed'[u] = missed[u]
        /\ built'[u] = built[u] /\ result'[u] = result[u] /\ desc'[u] = desc[u]
        /\ handles'[u] = handles[u]
    BY <1>4 DEF Goes, Keeps, Alone
  <2>2. IF Idle(u) THEN AtRest(u) ELSE InFlow(u)
    BY DEF LibraryInv, Followed
  <2>3. CASE Idle(u)
    <3>1. Idle(u)' /\ AtRest(u)'
      BY <2>1, <2>2, <2>3 DEF Idle, AtRest, IsDevice
    <3> QED
      BY <3>1
  <2>4. CASE ~Idle(u)
    <3>1. PICK k \in FlowOf(u, call[u].name) : k.at = at[u] /\ Knows(u, k)
      BY <2>2, <2>4 DEF InFlow
    <3>2. call[u].name \in Names(IsDevice(u)) /\ asserts = {} /\ LockIsOwned
      BY <2>2, <2>4 DEF InFlow, In, Ready
    <3>3. k.addr # "?" => k.lock /\ k.home
      BY <3>1, <3>2, Known DEF Careful
    <3>4. k.addr # "?" => bus'[desc[u].board] = bus[desc[u].board]
      <4>1. SUFFICES ASSUME k.addr # "?" PROVE bus'[desc[u].board] = bus[desc[u].board]
        OBVIOUS
      <4>2. desc[u].board = Home /\ lock[Home] = u
        BY <3>1, <3>2, <3>3, <4>1 DEF Knows, LockIsOwned
      <4> QED
        BY <1>1, <1>4, <4>2 DEF Goes, Keeps, Alone
    <3>5. k.home => desc[u].board = Home
      BY <3>1, <3>2 DEF Knows
    <3>6. Kept(u) => Kept(u)'
      BY <2>1 DEF Kept, IsDevice
    <3>7. Knows(u, k)'
      BY <2>1, <3>1, <3>4, <3>5, <3>6 DEF Knows
    <3>8. ~Idle(u)' /\ InFlow(u)'
      BY <2>1, <2>4, <3>1, <3>2, <3>7 DEF Idle, InFlow, FlowOf, IsDevice
    <3> QED
      BY <3>8
  <2> QED
    BY <2>3, <2>4
<1> QED
  BY <1>1, <1>3, <1>4 DEF LibraryInv, Followed

LEMMA StepKept ==
  ASSUME LibraryInv, NEW t \in Threads,
         Steps(t) \/ SendsBlock(t) \/ Jumps(t) \/ Fails(t) \/ ExitsWithError(t)
  PROVE  LibraryInv'
<1>1. ~Idle(t) /\ asserts = {}
  BY DEF Steps, SendsBlock, Jumps, Fails, ExitsWithError, Running, Failing, Turn
<1>2. InFlow(t)
  BY <1>1 DEF LibraryInv, Followed
<1>3. PICK l \in FlowOf(t, call[t].name) : l.at = at[t] /\ Knows(t, l)
  BY <1>2 DEF InFlow
<1>4. l \in FlowState
  BY <1>2, <1>3, Known DEF InFlow
<1>5. In(t, l)
  BY <1>1, <1>2, <1>3, <1>4 DEF In, Ready, LibraryInv, Followed, InFlow
<1>6. \E m : Goes(t, l, m)
  BY <1>5, StepsGo, SendsBlockGo, JumpsGo, FailsGo, ExitsGo
<1> QED
  BY <1>5, <1>6, GoesKept

LEMMA AutopollsKept ==
  ASSUME LibraryInv, NEW b \in Boards, Autopolls(b)
  PROVE  LibraryInv'
<1>1. /\ lock[b] = Nobody /\ bus' = [bus EXCEPT ![b] = Unaddressed]
      /\ UNCHANGED <<call, at, met, missed, built, result, desc, handles, lock, asserts>>
  BY DEF Autopolls
<1>2. Types' /\ CallTypes' /\ LockIsOwned'
  <2>1. Unaddressed \in OnBus
    BY DEF Unaddressed, OnBus, Partner
  <2>2. bus' \in [Boards -> OnBus]
    BY <1>1, <2>1 DEF LibraryInv, Types
  <2> QED
    BY <1>1, <2>2 DEF LibraryInv, Followed, Types, CallTypes, LockIsOwned
<1>3. ASSUME NEW u \in Threads PROVE IF Idle(u)' THEN AtRest(u)' ELSE InFlow(u)'
  <2>1. IF Idle(u) THEN AtRest(u) ELSE InFlow(u)
    BY DEF LibraryInv, Followed
  <2>2. CASE Idle(u)
    <3>1. Idle(u)' /\ AtRest(u)'
      BY <1>1, <2>1, <2>2 DEF Idle, AtRest, IsDevice
    <3> QED
      BY <3>1
  <2>3. CASE ~Idle(u)
    <3>1. PICK k \in FlowOf(u, call[u].name) : k.at = at[u] /\ Knows(u, k)
      BY <2>1, <2>3 DEF InFlow
    <3>2. call[u].name \in Names(IsDevice(u)) /\ LockIsOwned
      BY <2>1, <2>3 DEF InFlow, LibraryInv, Followed
    <3>3. k.addr # "?" => k.lock /\ k.home
      BY <3>1, <3>2, Known DEF Careful
    <3>4. k.addr # "?" => bus'[desc[u].board] = bus[desc[u].board]
      <4>1. SUFFICES ASSUME k.addr # "?" PROVE bus'[desc[u].board] = bus[desc[u].board]
        OBVIOUS
      <4>2. desc[u].board = Home /\ lock[Home] = u
        BY <3>1, <3>2, <3>3, <4>1 DEF Knows, LockIsOwned
      <4>3. Home # b
        BY <1>1, <4>2, ProgramsAreCareful DEF FlowAssumption
      <4> QED
        BY <1>1, <4>2, <4>3, LibraryAssumption DEF LibraryInv, Types
    <3>5. Kept(u) => Kept(u)'
      BY <1>1 DEF Kept, IsDevice
    <3>6. Knows(u, k)'
      BY <1>1, <3>1, <3>4, <3>5 DEF Knows
    <3>7. ~Idle(u)' /\ InFlow(u)'
      BY <1>1, <2>3, <3>1, <3>2, <3>6 DEF Idle, InFlow, FlowOf, IsDevice
    <3> QED
      BY <3>7
  <2> QED
    BY <2>2, <2>3
<1> QED
  BY <1>2, <1>3 DEF LibraryInv, Followed

LEMMA ClosedTypes ==
  ASSUME NEW t
  PROVE  /\ Closed(t) \in Descriptor /\ Closed(t).lock = FALSE /\ Closed(t).board = Home
         /\ ~IsDevice(t) => Closed(t).there
<1>1. PICK h \in BOOLEAN : h = (~IsDevice(t))
  BY DEF IsDevice
<1>2. Closed(t) = [there |-> h, open |-> FALSE, handle |-> h, lock |-> FALSE, board |-> Home]
  BY <1>1 DEF Closed
<1>3. Closed(t) \in Descriptor /\ Closed(t).lock = FALSE /\ Closed(t).board = Home
  BY <1>2, LibraryAssumption DEF Descriptor
<1>4. Closed(t).there = h
  BY <1>2
<1>5. ~IsDevice(t) => Closed(t).there
  BY <1>1, <1>4
<1> QED
  BY <1>3, <1>5

\* A program that starts, for the first time or after a failed assert.
LEMMA StartsKept ==
  ASSUME call' = [t \in Threads |-> NoCall], at' = [t \in Threads |-> 0],
         met' = [t \in Threads |-> {}], missed' = [t \in Threads |-> {}],
         built' = [t \in Threads |-> FALSE], result' = [t \in Threads |-> "ok"],
         desc' = [t \in Threads |-> Closed(t)], handles' = [t \in Threads |-> {}],
         lock' = [b \in Boards |-> Nobody], asserts' = {}, bus' \in [Boards -> OnBus]
  PROVE  LibraryInv'
<1>1. ASSUME NEW t \in Threads
      PROVE  /\ Closed(t) \in Descriptor /\ Closed(t).lock = FALSE /\ Closed(t).board = Home
             /\ ~IsDevice(t) => Closed(t).there
  BY ClosedTypes
<1>2. Types'
  BY <1>1 DEF Types
<1>3. CallTypes'
  BY LibraryAssumption DEF CallTypes, NoCall, Partner
<1>4. LockIsOwned'
  BY <1>1, LibraryAssumption, ProgramsAreCareful DEF LockIsOwned, FlowAssumption
<1>5. ASSUME NEW t \in Threads PROVE Idle(t)' /\ AtRest(t)'
  BY <1>1 DEF Idle, AtRest, IsDevice
<1> QED
  BY <1>2, <1>3, <1>4, <1>5 DEF LibraryInv, Followed

LEMMA RestartsKept ==
  ASSUME LibraryInv, Restarts
  PROVE  LibraryInv'
BY StartsKept DEF Restarts, LibraryInv, Types

LEMMA ReturnsKept ==
  ASSUME LibraryInv, NEW t \in Threads, Returns(t)
  PROVE  LibraryInv'
<1>1. /\ ~Idle(t) /\ (at[t] = -1 \/ at[t] > Len(Program(t))) /\ asserts = {}
      /\ desc' = IF call[t].name \in DOMAIN OpeningCalls /\ at[t] = -1
                   THEN [desc EXCEPT ![t] = Closed(t)] ELSE desc
      /\ call' = [call EXCEPT ![t] = NoCall]
      /\ at' = [at EXCEPT ![t] = 0]
      /\ met' = [met EXCEPT ![t] = {}]
      /\ missed' = [missed EXCEPT ![t] = {}]
      /\ built' = [built EXCEPT ![t] = FALSE]
      /\ result' = [result EXCEPT ![t] = "ok"]
      /\ UNCHANGED <<handles, lock, bus, asserts>>
  BY DEF Returns, Over, Turn
<1>2. InFlow(t)
  BY <1>1 DEF LibraryInv, Followed
<1>3. PICK l \in FlowOf(t, call[t].name) : l.at = at[t] /\ Knows(t, l)
  BY <1>2 DEF InFlow
<1>4. ~l.lock /\ l.home /\ (~IsDevice(t) => l.there)
  BY <1>1, <1>2, <1>3, Known, ItsProgram DEF InFlow, Past, Left
<1>5. /\ ~desc[t].lock /\ desc[t].board = Home /\ (~IsDevice(t) => desc[t].there)
      /\ desc[t] \in Descriptor
  BY <1>1, <1>3, <1>4 DEF Knows, LibraryInv, Types
<1>6. /\ Closed(t) \in Descriptor /\ Closed(t).lock = FALSE /\ Closed(t).board = Home
      /\ ~IsDevice(t) => Closed(t).there
  BY ClosedTypes
<1>7. PICK d \in Descriptor : /\ desc' = [desc EXCEPT ![t] = d]
                              /\ d.lock = FALSE /\ d.board = Home /\ (~IsDevice(t) => d.there)
  <2>1. CASE call[t].name \in DOMAIN OpeningCalls /\ at[t] = -1
    BY <1>1, <1>6, <2>1
  <2>2. CASE ~(call[t].name \in DOMAIN OpeningCalls /\ at[t] = -1)
    <3>1. desc' = [desc EXCEPT ![t] = desc[t]]
      BY <1>1, <2>2 DEF LibraryInv, Types
    <3>2. desc[t].lock = FALSE
      BY <1>5 DEF Descriptor
    <3> QED
      BY <1>5, <3>1, <3>2
  <2> QED
    BY <2>1, <2>2
<1>8. Types'
  <2>1. desc' \in [Threads -> Descriptor]
    BY <1>7 DEF LibraryInv, Types
  <2> QED
    BY <1>1, <2>1 DEF LibraryInv, Types
<1>9. CallTypes'
  <2>1. NoCall \in [name : {NoCall.name}, to : Partner, board : Boards, rest : {NoCall.rest},
                     sound : BOOLEAN]
    BY LibraryAssumption DEF NoCall, Partner
  <2>2. DOMAIN call' = Threads /\ DOMAIN at' = Threads
    BY <1>1 DEF LibraryInv, CallTypes
  <2>3. \A u \in Threads : call'[u] = IF u = t THEN NoCall ELSE call[u]
    BY <1>1 DEF LibraryInv, CallTypes
  <2> HIDE DEF NoCall
  <2> QED
    BY <2>1, <2>2, <2>3 DEF LibraryInv, CallTypes
<1>10. LockIsOwned'
  BY <1>1, <1>5, <1>7 DEF LibraryInv, Followed, LockIsOwned, Types
<1>11. Idle(t)' /\ AtRest(t)'
  BY <1>1, <1>7 DEF Idle, AtRest, IsDevice, LibraryInv, Types, CallTypes
<1>12. ASSUME NEW u \in Threads, u # t PROVE IF Idle(u)' THEN AtRest(u)' ELSE InFlow(u)'
  <2>1. /\ call'[u] = call[u] /\ at'[u] = at[u] /\ met'[u] = met[u] /\ missed'[u] = missed[u]
        /\ built'[u] = built[u] /\ result'[u] = result[u] /\ desc'[u] = desc[u]
        /\ handles'[u] = handles[u] /\ bus' = bus /\ asserts' = asserts
    BY <1>1, <1>7, <1>12 DEF LibraryInv, Types, CallTypes
  <2>2. IF Idle(u) THEN AtRest(u) ELSE InFlow(u)
    BY DEF LibraryInv, Followed
  <2>3. CASE Idle(u)
    <3>1. Idle(u)' /\ AtRest(u)'
      BY <2>1, <2>2, <2>3 DEF Idle, AtRest, IsDevice
    <3> QED
      BY <3>1
  <2>4. CASE ~Idle(u)
    <3>1. PICK k \in FlowOf(u, call[u].name) : k.at = at[u] /\ Knows(u, k)
      BY <2>2, <2>4 DEF InFlow
    <3>2. Kept(u) => Kept(u)'
      BY <2>1 DEF Kept, IsDevice
    <3>3. Knows(u, k)'
      BY <2>1, <3>1, <3>2 DEF Knows
    <3>4. ~Idle(u)' /\ InFlow(u)'
      BY <2>1, <2>2, <2>4, <3>1, <3>3 DEF Idle, InFlow, FlowOf, IsDevice
    <3> QED
      BY <3>4
  <2> QED
    BY <2>3, <2>4
<1> QED
  BY <1>8, <1>9, <1>10, <1>11, <1>12 DEF LibraryInv, Followed

LEMMA BeginsKept ==
  ASSUME LibraryInv, NEW t \in Threads, Begins(t)
  PROVE  LibraryInv'
<1>1. PICK n \in IF ~IsDevice(t) THEN Distinct(t, BoardCalls)
                 ELSE IF desc[t].there THEN Distinct(t, DeviceCalls)
                 ELSE Calls[t] \cap (DOMAIN OpeningCalls \cup {"ibeos"}) :
        \E d \in IF IsDevice(t) THEN {t} ELSE Others, b \in Boards, m \in Messages :
          call' = [call EXCEPT ![t] =
                     [name |-> n, to |-> d, board |-> b, rest |-> m, sound |-> Sound(t)]]
  BY DEF Begins
<1>2. PICK d \in IF IsDevice(t) THEN {t} ELSE Others, b \in Boards, m \in Messages :
        call' = [call EXCEPT ![t] =
                   [name |-> n, to |-> d, board |-> b, rest |-> m, sound |-> Sound(t)]]
  BY <1>1
<1>3. /\ Idle(t) /\ asserts = {} /\ at' = [at EXCEPT ![t] = 1]
      /\ UNCHANGED <<met, missed, built, result, desc, handles, lock, bus, asserts>>
  BY DEF Begins, Turn
<1>4. AtRest(t) /\ desc[t] \in Descriptor
  BY <1>3 DEF LibraryInv, Followed, Types
<1>5. PICK kept \in BOOLEAN : kept <=> Kept(t)
  BY DEF Kept
<1>6. PICK sound \in BOOLEAN : sound = Sound(t) /\ sound = ((desc[t].open => desc[t].handle) /\ kept)
  <2>1. Sound(t) = ((desc[t].open => desc[t].handle) /\ kept)
    BY <1>5 DEF Sound, Kept
  <2> QED
    BY <2>1
<1>7. /\ n \in Names(IsDevice(t)) /\ n # "none"
      /\ IF ~IsDevice(t) THEN desc[t].there
         ELSE IF desc[t].there THEN n \in DOMAIN DeviceCalls ELSE n \in DOMAIN OpeningCalls \cup {"ibeos"}
  <2>1. IsDevice(t) \in BOOLEAN
    BY DEF IsDevice
  <2>2. "none" \notin Names(IsDevice(t)) /\ "ibeos" \in DOMAIN DeviceCalls
    BY <2>1, CallNames
  <2> QED
    BY <1>1, <1>4, <2>2 DEF Distinct, Names, AtRest
<1> DEFINE l == [ at |-> 1, met |-> {}, missed |-> {}, result |-> "ok", built |-> FALSE,
                  there |-> desc[t].there, open |-> desc[t].open, handle |-> desc[t].handle,
                  lock |-> FALSE, home |-> TRUE, addr |-> "?", kept |-> kept, sound |-> sound ]
<1>8. l \in Entered(IsDevice(t), n)
  <2>1. /\ desc[t].there \in BOOLEAN /\ desc[t].open \in BOOLEAN /\ desc[t].handle \in BOOLEAN
    BY <1>4 DEF Descriptor
  <2>2. l \in [ at : {1}, met : {{}}, missed : {{}}, result : {"ok"}, built : {FALSE},
                there : BOOLEAN, open : BOOLEAN, handle : BOOLEAN, lock : {FALSE},
                home : {TRUE}, addr : {"?"}, kept : BOOLEAN, sound : BOOLEAN ]
    BY <2>1
  <2>3. l.sound = ((l.open => l.handle) /\ l.kept)
    BY <1>6
  <2>4. IF ~IsDevice(t) THEN l.there
        ELSE IF l.there THEN n \in DOMAIN DeviceCalls ELSE n \in DOMAIN OpeningCalls \cup {"ibeos"}
    BY <1>7
  <2> QED
    BY <2>2, <2>3, <2>4 DEF Entered
<1>9. l \in FlowOf(t, n)
  BY <1>7, <1>8, ProgramsAreCareful DEF FlowAssumption
<1>10. /\ call'[t].name = n /\ call'[t].sound = Sound(t) /\ at'[t] = 1
       /\ \A u \in Threads \ {t} : call'[u] = call[u] /\ at'[u] = at[u]
  BY <1>2, <1>3 DEF LibraryInv, CallTypes
<1>11. Types' /\ CallTypes' /\ LockIsOwned'
  <2>1. d \in Partner
    BY DEF Partner, IsDevice
  <2>2. DOMAIN call' = Threads /\ DOMAIN at' = Threads
    BY <1>2, <1>3 DEF LibraryInv, CallTypes
  <2>3. call'[t] \in [name : {call'[t].name}, to : Partner, board : Boards, rest : {call'[t].rest},
                      sound : BOOLEAN]
    <3>1. call'[t] = [name |-> n, to |-> d, board |-> b, rest |-> m, sound |-> sound]
      BY <1>2, <1>6 DEF LibraryInv, CallTypes
    <3> QED
      BY <2>1, <3>1
  <2>4. CallTypes'
    BY <1>10, <2>2, <2>3 DEF LibraryInv, CallTypes
  <2> QED
    BY <1>3, <2>4 DEF LibraryInv, Followed, Types, LockIsOwned
<1>12. ~Idle(t)' /\ InFlow(t)'
  <2>1. call'[t] # NoCall
    BY <1>7, <1>10 DEF NoCall
  <2>2. Kept(t) => Kept(t)'
    BY <1>3 DEF Kept, IsDevice
  <2>3. PICK k \in FlowOf(t, n) :
          /\ k.met = {} /\ k.missed = {} /\ k.result = "ok" /\ k.built = FALSE
          /\ k.there = desc[t].there /\ k.open = desc[t].open /\ k.handle = desc[t].handle
          /\ k.lock = FALSE /\ k.home = TRUE /\ k.addr = "?" /\ k.kept = kept /\ k.sound = sound
          /\ k.at = 1
    BY <1>9
  <2>4. /\ k.met = met'[t] /\ missed'[t] \subseteq k.missed /\ k.result = result'[t]
        /\ (k.built <=> built'[t])
    BY <1>3, <1>4, <2>3 DEF AtRest
  <2>5. /\ (k.there <=> desc'[t].there)
        /\ (k.open <=> desc'[t].open)
        /\ (k.handle <=> desc'[t].handle)
    BY <1>3, <2>3
  <2>6. (k.lock <=> desc'[t].lock) /\ desc'[t].board = Home
    BY <1>3, <1>4, <2>3 DEF AtRest
  <2>7. k.sound <=> call'[t].sound
    BY <1>6, <1>10, <2>3
  <2>8. k.kept => Kept(t)'
    BY <1>5, <2>2, <2>3
  <2>9. k.addr = "?"
    BY <2>3
  <2>10. Knows(t, k)'
    BY <2>4, <2>5, <2>6, <2>7, <2>8, <2>9 DEF Knows
  <2>11. k.at = at'[t]
    BY <1>10, <2>3
  <2>12. ~Idle(t)'
    BY <2>1 DEF Idle
  <2>13. call'[t].name \in Names(IsDevice(t))
    BY <1>7, <1>10
  <2>14. k \in FlowOf(t, call'[t].name)
    BY <1>10, <2>3
  <2>15. InFlow(t)'
    BY <2>10, <2>11, <2>13, <2>14 DEF InFlow, FlowOf, IsDevice
  <2> QED
    BY <2>12, <2>15
<1>13. ASSUME NEW u \in Threads, u # t PROVE IF Idle(u)' THEN AtRest(u)' ELSE InFlow(u)'
  <2>1. IF Idle(u) THEN AtRest(u) ELSE InFlow(u)
    BY DEF LibraryInv, Followed
  <2>2. call'[u] = call[u] /\ at'[u] = at[u]
    BY <1>10, <1>13
  <2>3. CASE Idle(u)
    <3>1. Idle(u)' /\ AtRest(u)'
      BY <1>3, <2>1, <2>2, <2>3 DEF Idle, AtRest, IsDevice
    <3> QED
      BY <3>1
  <2>4. CASE ~Idle(u)
    <3>1. PICK k \in FlowOf(u, call[u].name) : k.at = at[u] /\ Knows(u, k)
      BY <2>1, <2>4 DEF InFlow
    <3>2. Kept(u) => Kept(u)'
      BY <1>3 DEF Kept, IsDevice
    <3>3. Knows(u, k)'
      BY <1>3, <2>2, <3>1, <3>2 DEF Knows
    <3>4. ~Idle(u)' /\ InFlow(u)'
      BY <2>1, <2>2, <2>4, <3>1, <3>3 DEF Idle, InFlow, FlowOf, IsDevice
    <3> QED
      BY <3>4
  <2> QED
    BY <2>3, <2>4
<1> QED
  BY <1>11, <1>12, <1>13 DEF LibraryInv, Followed

-----------------------------------------------------------------------------
(* The specification *)

LEMMA InitStarts == Init => LibraryInv
<1> SUFFICES ASSUME Init PROVE LibraryInv
  OBVIOUS
<1>1. ASSUME NEW t \in Threads
      PROVE  /\ Closed(t) \in Descriptor /\ Closed(t).lock = FALSE /\ Closed(t).board = Home
             /\ ~IsDevice(t) => Closed(t).there
  BY ClosedTypes
<1>2. Types
  BY <1>1 DEF Init, Types, Unaddressed, OnBus, Partner
<1>3. CallTypes
  BY LibraryAssumption DEF Init, CallTypes, NoCall, Partner
<1>4. LockIsOwned
  BY <1>1, LibraryAssumption, ProgramsAreCareful DEF Init, LockIsOwned, FlowAssumption
<1>5. ASSUME NEW t \in Threads PROVE Idle(t) /\ AtRest(t)
  BY <1>1 DEF Init, Idle, AtRest, IsDevice
<1> QED
  BY <1>2, <1>3, <1>4, <1>5 DEF LibraryInv, Followed

LEMMA StaysKept ==
  ASSUME LibraryInv, UNCHANGED vars
  PROVE  LibraryInv'
<1> USE DEF vars
<1>1. Types' /\ CallTypes' /\ LockIsOwned'
  BY DEF LibraryInv, Followed, Types, CallTypes, LockIsOwned
<1>2. ASSUME NEW u \in Threads PROVE IF Idle(u)' THEN AtRest(u)' ELSE InFlow(u)'
  <2>1. IF Idle(u) THEN AtRest(u) ELSE InFlow(u)
    BY DEF LibraryInv, Followed
  <2>2. Idle(u)' <=> Idle(u)
    BY DEF Idle
  <2>3. AtRest(u) => AtRest(u)'
    BY DEF AtRest, IsDevice
  <2>4. ASSUME InFlow(u) PROVE InFlow(u)'
    <3>1. PICK k \in FlowOf(u, call[u].name) : k.at = at[u] /\ Knows(u, k)
      BY <2>4 DEF InFlow
    <3>2. Kept(u) => Kept(u)'
      BY DEF Kept, IsDevice
    <3>3. Knows(u, k)'
      BY <3>1, <3>2 DEF Knows
    <3> QED
      BY <2>4, <3>1, <3>3 DEF InFlow, FlowOf, IsDevice
  <2> QED
    BY <2>1, <2>2, <2>3, <2>4
<1> QED
  BY <1>1, <1>2 DEF LibraryInv, Followed

LEMMA NextKept == LibraryInv /\ [Next]_vars => LibraryInv'
<1> SUFFICES ASSUME LibraryInv, [Next]_vars PROVE LibraryInv'
  OBVIOUS
<1>1. CASE UNCHANGED vars
  BY <1>1, StaysKept
<1>2. ASSUME NEW t \in Threads, Begins(t) PROVE LibraryInv'
  BY <1>2, BeginsKept
<1>3. ASSUME NEW t \in Threads,
             Steps(t) \/ SendsBlock(t) \/ Jumps(t) \/ Fails(t) \/ ExitsWithError(t)
      PROVE  LibraryInv'
  BY <1>3, StepKept
<1>4. ASSUME NEW t \in Threads, Returns(t) PROVE LibraryInv'
  BY <1>4, ReturnsKept
<1>5. ASSUME NEW b \in Boards, Autopolls(b) PROVE LibraryInv'
  BY <1>5, AutopollsKept
<1>6. CASE Restarts
  BY <1>6, RestartsKept
<1> QED
  BY <1>1, <1>2, <1>3, <1>4, <1>5, <1>6 DEF Next

THEOREM InvariantKept == Spec => []LibraryInv
<1>1. Init => LibraryInv
  BY InitStarts
<1>2. LibraryInv /\ [Next]_vars => LibraryInv'
  BY NextKept
<1> QED
  BY <1>1, <1>2, PTL DEF Spec

-----------------------------------------------------------------------------
(* Properties *)

\* What a thread in a call knows of itself, and that it makes no mistake.
LEMMA InCall ==
  ASSUME LibraryInv, NEW t \in Threads, ~Idle(t)
  PROVE  \E l \in FlowState :
           /\ Program(t) \in Seq(StepType)
           /\ l.at = at[t] /\ Knows(t, l) /\ Careful(call[t].name, Program(t), l)
           /\ Past(Program(t), l) => Left(t, call[t].name, l)
<1>1. InFlow(t)
  BY DEF LibraryInv, Followed
<1>2. PICK l \in FlowOf(t, call[t].name) : l.at = at[t] /\ Knows(t, l)
  BY <1>1 DEF InFlow
<1>3. call[t].name \in Names(IsDevice(t))
  BY <1>1 DEF InFlow
<1>4. l \in FlowState /\ Program(t) \in Seq(StepType) /\ Careful(call[t].name, Program(t), l)
      /\ (Past(Program(t), l) => Left(t, call[t].name, l))
  BY <1>2, <1>3, Known, ItsProgram
<1> QED
  BY <1>2, <1>3, <1>4

\* A thread's place in ibConfigs, and who has been replaced there.
PlaceTypes == ud \in [Threads -> Places \cup {0}] /\ clashes \subseteq DeviceThreads

LEMMA PlacesKept == Spec => []PlaceTypes
<1>1. Init => PlaceTypes
  BY DEF Init, PlaceTypes
<1>2. PlaceTypes /\ [Next]_vars => PlaceTypes'
  <2> SUFFICES ASSUME PlaceTypes, [Next]_vars PROVE PlaceTypes'
    OBVIOUS
  <2>1. ASSUME NEW t \in Threads, Steps(t) PROVE PlaceTypes'
    <3>1. Fills(t, Now(t))
      BY <2>1 DEF Steps
    <3>2. ud' \in [Threads -> Places \cup {0}]
      BY <3>1 DEF Fills, Finds, PlaceTypes
    <3>3. clashes' \subseteq DeviceThreads
      BY <3>1 DEF Fills, Replaced, PlaceTypes
    <3> QED
      BY <3>2, <3>3 DEF PlaceTypes
  <2>2. ASSUME NEW t \in Threads, Returns(t) PROVE PlaceTypes'
    BY <2>2 DEF Returns, PlaceTypes
  <2>3. CASE Restarts
    BY <2>3 DEF Restarts, PlaceTypes
  <2>4. ASSUME NEW t \in Threads,
               Begins(t) \/ SendsBlock(t) \/ Jumps(t) \/ Fails(t) \/ ExitsWithError(t)
        PROVE  PlaceTypes'
    <3>1. UNCHANGED <<ud, clashes>>
      BY <2>4 DEF Begins, SendsBlock, Jumps, Fails, ExitsWithError
    <3> QED
      BY <3>1 DEF PlaceTypes
  <2>5. ASSUME NEW b \in Boards, Autopolls(b) PROVE PlaceTypes'
    BY <2>5 DEF Autopolls, PlaceTypes
  <2>6. CASE UNCHANGED vars
    BY <2>6 DEF vars, PlaceTypes
  <2> QED
    BY <2>1, <2>2, <2>3, <2>4, <2>5, <2>6 DEF Next
<1> QED
  BY <1>1, <1>2, PTL DEF Spec

\* At any number of threads the variables keep their types; and whenever has_lock
\* is set the thread has locked the user_mutex of its descriptor's board, unless
\* it is in ibbna, ibconfig(IbcBNA) or ibonl, which move descriptors.
THEOREM TypeCorrect == Spec => []TypeOK
<1>1. ASSUME LibraryInv, PlaceTypes PROVE TypeOK
  <2>1. lock \in [Boards -> Threads \cup {Nobody}] /\ bus \in [Boards -> OnBus] /\ LockIsOwned
    BY <1>1 DEF LibraryInv, Followed, Types
  <2>2. ASSUME NEW b \in Boards, lock[b] # Nobody, asserts = {} PROVE desc[lock[b]].lock
    BY <2>1, <2>2 DEF LockIsOwned
  <2>3. ASSUME NEW t \in Threads
        PROVE  /\ at[t] \in -1..60 /\ result[t] \in {"ok", "ERR"} /\ built[t] \in BOOLEAN
               /\ desc[t].lock /\ lock[desc[t].board] # t => call[t].name \in Aborting
    <3>1. result[t] \in {"ok", "ERR"} /\ built[t] \in BOOLEAN
      BY <1>1 DEF LibraryInv, Types
    <3>2. CASE Idle(t)
      <4>1. at[t] = 0 /\ ~desc[t].lock
        BY <1>1, <3>2 DEF LibraryInv, Followed, AtRest
      <4>2. at[t] \in -1..60
        BY <4>1
      <4> QED
        BY <3>1, <4>1, <4>2
    <3>3. CASE ~Idle(t)
      <4>1. PICK l \in FlowState :
              l.at = at[t] /\ Knows(t, l) /\ Careful(call[t].name, Program(t), l)
        BY <1>1, <3>3, InCall
      <4>2. at[t] \in -1..60 /\ (l.lock => l.home \/ call[t].name \in Aborting)
        BY <4>1 DEF Careful
      <4>3. desc[t].lock /\ lock[desc[t].board] # t => call[t].name \in Aborting
        BY <2>1, <4>1, <4>2 DEF Knows, LockIsOwned
      <4> QED
        BY <3>1, <4>2, <4>3
    <3> QED
      BY <3>2, <3>3
  <2>4. PlaceTypes
    BY <1>1
  <2> QED
    BY <2>1, <2>2, <2>3, <2>4 DEF TypeOK, PlaceTypes, OnBus, Partner
<1> QED
  BY <1>1, InvariantKept, PlacesKept, PTL

\* Every thread that is in a call of the library is in a state that the flow
\* of its program, followed alone, has; and has_lock tells who has locked which
\* board in the kernel.
THEOREM FollowsFlow == Spec => []FlowInv
<1>1. LibraryInv => Followed
  BY DEF LibraryInv
<1> QED
  BY <1>1, InvariantKept, TypeCorrect, PTL DEF FlowInv

\* Whatever calls overlap, when my_ibrd or my_ibwrt moves data on a board the
\* device of its own call is addressed there, or the query of the board's
\* address has failed.
THEOREM DataGoesToPartner == Spec => []RightPartner
<1>1. ASSUME LibraryInv PROVE RightPartner
  <2>1. SUFFICES ASSUME NEW t \in Threads, Running(t), Now(t).op \in {"read", "send"},
                        Now(t).addr # "any"
                 PROVE  \/ bus[desc[t].board] = [as |-> Now(t).addr, device |-> call[t].to]
                        \/ "query" \in met[t]
    BY DEF RightPartner
  <2>2. PICK l \in FlowState :
          /\ Program(t) \in Seq(StepType)
          /\ l.at = at[t] /\ Knows(t, l) /\ Careful(call[t].name, Program(t), l)
    BY <1>1, <2>1, InCall DEF Running
  <2>3. Minds(call[t].name, l, Now(t)) /\ Now(t) \in StepType
    <3>1. Program(t) \in Seq(StepType)
      BY <2>2
    <3>2. at[t] \in 1..Len(Program(t))
      BY <2>1 DEF Running
    <3>3. Now(t) \in StepType
      BY <3>1, <3>2 DEF Now
    <3> QED
      BY <2>2, <3>2, <3>3 DEF Careful, Now
  <2>4. l.addr = Now(t).addr \/ "query" \in l.met
    BY <2>1, <2>3 DEF Minds
  <2>5. Now(t).addr # "?" /\ (l.met = met[t])
    BY <2>2, <2>3 DEF StepType, Knows
  <2>6. l.addr # "?" => bus[desc[t].board] = [as |-> l.addr, device |-> call[t].to]
    BY <2>2 DEF Knows
  <2> QED
    BY <2>4, <2>5, <2>6
<1> QED
  BY <1>1, InvariantKept, PTL

\* A call that is over has unlocked every board, and the only calls that fail
\* an assert of conf_lock_board or conf_unlock_board are those of Aborting: TLC
\* evaluates FlowAssumption, and with it this theorem, with ibbna,
\* ibconfig(IbcBNA) and ibonl on a device.
THEOREM LocksAreReturned == Spec => []LockReturned
<1>1. ASSUME LibraryInv PROVE LockReturned
  <2>1. LockIsOwned
    BY <1>1 DEF LibraryInv, Followed
  <2>2. ASSUME NEW t \in Threads, Over(t), asserts = {}, NEW b \in Boards PROVE lock[b] # t
    <3>1. PICK l \in FlowState :
            /\ l.at = at[t] /\ Knows(t, l) /\ (Past(Program(t), l) => Left(t, call[t].name, l))
      BY <1>1, <2>2, InCall DEF Over
    <3>2. ~desc[t].lock
      BY <2>2, <3>1 DEF Over, Past, Left, Knows
    <3> QED
      BY <2>1, <2>2, <3>2 DEF LockIsOwned
  <2> QED
    BY <2>1, <2>2 DEF LockReturned, LockIsOwned
<1> QED
  BY <1>1, InvariantKept, PTL

\* A call that returns without ERR has met no error but those it is known to
\* keep to itself, and its device has heard its commands.
THEOREM ErrorsAreReported == Spec => []ErrorReported
<1>1. ASSUME LibraryInv PROVE ErrorReported
  <2>1. SUFFICES ASSUME NEW t \in Threads, Over(t), result[t] = "ok"
                 PROVE  /\ missed[t] = {} \/ "query" \in met[t] \/ call[t].name \in Deafening
                        /\ \A e \in met[t] : <<call[t].name, e>> \in Silent
    BY DEF ErrorReported
  <2>2. PICK l \in FlowState :
          /\ l.at = at[t] /\ Knows(t, l) /\ (Past(Program(t), l) => Left(t, call[t].name, l))
    BY <1>1, <2>1, InCall DEF Over
  <2>3. Honest(call[t].name, l)
    BY <2>1, <2>2 DEF Over, Past, Left
  <2> QED
    BY <2>1, <2>2, <2>3 DEF Honest, Knows
<1> QED
  BY <1>1, InvariantKept, PTL

\* A call made with a sound descriptor leaves it sound: opened with a handle,
\* and the kernel's handle is its own; or ibdev gives up and leaves none.  The
\* exceptions are the calls of Losing, and two threads to whose descriptors
\* insert_descriptor has given the same place.
THEOREM NothingIsLost == Spec => []NothingLost
<1>1. ASSUME LibraryInv PROVE NothingLost
  <2>1. SUFFICES ASSUME NEW t \in Threads, Over(t), call[t].sound, <<t, call[t].name>> \notin Losing
                 PROVE  /\ Sound(t)
                        /\ call[t].name \in DOMAIN OpeningCalls /\ at[t] = -1 => ~desc[t].there
    BY DEF NothingLost
  <2>2. PICK l \in FlowState :
          /\ l.at = at[t] /\ Knows(t, l) /\ (Past(Program(t), l) => Left(t, call[t].name, l))
    BY <1>1, <2>1, InCall DEF Over
  <2>3. Tidy(t, call[t].name, l)
    BY <2>1, <2>2 DEF Over, Past, Left
  <2>4. /\ l.open => l.handle
        /\ l.kept
        /\ call[t].name \in DOMAIN OpeningCalls /\ l.at = -1 => ~l.there
    BY <2>1, <2>2, <2>3 DEF Tidy, Knows
  <2>5. Kept(t) /\ (desc[t].open => desc[t].handle)
    BY <2>2, <2>4 DEF Knows
  <2>6. Sound(t)
    BY <2>5 DEF Sound, Kept
  <2>7. call[t].name \in DOMAIN OpeningCalls /\ at[t] = -1 => ~desc[t].there
    BY <2>2, <2>4 DEF Knows
  <2> QED
    BY <2>6, <2>7
<1> QED
  BY <1>1, InvariantKept, PTL
=============================================================================
