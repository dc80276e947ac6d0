-------------------------- MODULE DeviceList_proofs --------------------------
(***************************************************************************)
(* Proofs about DeviceList, for any number of files, handles and           *)
(* addresses.                                                              *)
(***************************************************************************)
EXTENDS DeviceList, FiniteSetTheorems, TLAPS

Flags == alloc_failed \in BOOLEAN /\ zero_closed \in BOOLEAN /\ raced \in BOOLEAN

Tables ==
  /\ refs \in [Addrs -> Nat] /\ leaked \in [Addrs -> Nat]
  /\ desc \in [Files -> [Handles -> Descriptor \cup {NoDesc}]]
  /\ opened \subseteq Files
  /\ closing \in [Files -> 0 .. NHandles]
  /\ update \in [Files -> Update \cup {Idle}]

\* A file in the middle of an update is open, and in the update of an ioctl or in
\* one of its own ibclose; the update is for a descriptor it has.
FileOk(f) ==
  /\ f \notin opened => closing[f] = NHandles /\ \A h \in Handles : desc[f][h] = NoDesc
  /\ update[f] # Idle => /\ f \in opened /\ desc[f][update[f].handle] # NoDesc
                         /\ update[f].op = "clean" <=> closing[f] < NHandles

Updating == \A f \in Files : FileOk(f)

TypeInv == Flags /\ Tables /\ Updating

\* One file at a time is in the middle of an update.
OneUpdate == \A f, g \in Files : update[f] # Idle /\ update[g] # Idle => f = g

\* What an update in flight knows of its handle and of the count is still so.
PendingOk(f) ==
  update[f] # Idle =>
    LET u == update[f] IN
    /\ desc[f][u.handle].addr = u.addr
    /\ u.op \in {"close", "move", "clean"} => refs[u.addr] = u.count + 1
    /\ u.op = "open" => u.count = refs[u.addr] + 1
    /\ u.op = "recount" => u.to = u.addr
    /\ u.op # "close" => u.handle # 0
    /\ u.op = "clean" => u.handle = closing[f]

\* Handle 0 of an open file is the board's own until ibclose has passed it, and
\* ibclose has freed the handles that it has passed.
HandlesOk(f) ==
  /\ f \in opened /\ closing[f] \in {0, NHandles} => desc[f][0] # NoDesc /\ desc[f][0].is_board
  /\ closing[f] < NHandles => \A h \in Handles : h < closing[f] => desc[f][h] = NoDesc

Steady == \A f \in Files : PendingOk(f) /\ HandlesOk(f)

Exact == \A a \in Addrs : refs[a] = Cardinality(OpenOn(a)) + leaked[a]

\* Counted is inductive with what the updates in flight will write.
CountInv == Regular => OneUpdate /\ Steady /\ Exact

-----------------------------------------------------------------------------
Ops == {"open", "close", "move", "recount", "clean"}

\* What the beginning of an update makes of the table of updates.
LEMMA BeginUpdate ==
  ASSUME Tables, NEW f \in Files, NEW op \in Ops, NEW h \in Handles, NEW a \in Addrs,
         NEW to \in Addrs, NEW n \in Nat, Begin(f, op, h, a, to, n)
  PROVE  /\ update' \in [Files -> Update \cup {Idle}] /\ update'[f] # Idle
         /\ update'[f].op = op /\ update'[f].addr = a /\ update'[f].to = to
         /\ update'[f].handle = h /\ update'[f].count = n
         /\ \A g \in Files : g # f => update'[g] = update[g]
<1>1. [op |-> op, addr |-> a, to |-> to, handle |-> h, count |-> n] \in Update
  BY DEF Update, Ops
<1> QED
  BY <1>1, NullAssumption DEF Begin, Tables

LEMMA HandlesType == NHandles \in Nat /\ Handles \subseteq Nat /\ 0 \in Handles
                     /\ \A i \in 0..NHandles : i < NHandles => i \in Handles
BY HandleAssumption DEF Handles

LEMMA UpdateType ==
  ASSUME Tables, NEW f \in Files, update[f] # Idle
  PROVE  /\ update[f] \in Update /\ update[f].op \in Ops /\ update[f].addr \in Addrs
         /\ update[f].to \in Addrs /\ update[f].handle \in Handles /\ update[f].count \in Nat
BY DEF Tables, Update, Ops

LEMMA DescType ==
  ASSUME Tables, NEW f \in Files, NEW h \in Handles, desc[f][h] # NoDesc
  PROVE  desc[f][h] \in Descriptor /\ desc[f][h].addr \in Addrs
BY DEF Tables, Descriptor

\* The same for decrement_open_device_count and increment_open_device_count.
LEMMA DecrementUpdate ==
  ASSUME Tables, NEW f \in Files, NEW op \in Ops, NEW h \in Handles, NEW to \in Addrs,
         desc[f][h] # NoDesc, Decrement(f, op, h, to)
  PROVE  /\ desc[f][h].addr \in Addrs /\ refs[desc[f][h].addr] \in Nat \ {0}
         /\ update' \in [Files -> Update \cup {Idle}] /\ update'[f] # Idle
         /\ update'[f].op = op /\ update'[f].addr = desc[f][h].addr /\ update'[f].to = to
         /\ update'[f].handle = h /\ update'[f].count = refs[desc[f][h].addr] - 1
         /\ \A g \in Files : g # f => update'[g] = update[g]
<1> DEFINE a == desc[f][h].addr
<1>1. a \in Addrs
  BY DescType
<1>2. refs[a] > 0 /\ refs[a] \in Nat /\ Begin(f, op, h, a, to, refs[a] - 1)
  BY <1>1 DEF Decrement, Tables
<1>3. refs[a] - 1 \in Nat
  BY <1>2
<1> HIDE DEF a
<1> DEFINE n == refs[a] - 1
<1>4. n \in Nat /\ Begin(f, op, h, a, to, n)
  BY <1>2, <1>3
<1> HIDE DEF n
<1>5. /\ update' \in [Files -> Update \cup {Idle}] /\ update'[f] # Idle
      /\ update'[f].op = op /\ update'[f].addr = a /\ update'[f].to = to
      /\ update'[f].handle = h /\ update'[f].count = n
      /\ \A g \in Files : g # f => update'[g] = update[g]
  BY <1>1, <1>4, BeginUpdate
<1> QED
  BY <1>1, <1>2, <1>5 DEF a, n

LEMMA IncrementUpdate ==
  ASSUME Tables, NEW f \in Files, NEW h \in Handles, NEW a \in Addrs, Increment(f, h, a)
  PROVE  /\ update' \in [Files -> Update \cup {Idle}]
         /\ \A g \in Files : g # f => update'[g] = update[g]
         /\ \/ /\ update'[f] # Idle /\ Begin(f, "open", h, a, a, refs[a] + 1)
               /\ update'[f].op = "open" /\ update'[f].addr = a /\ update'[f].to = a
               /\ update'[f].handle = h /\ update'[f].count = refs[a] + 1
            \/ update'[f] = Idle /\ alloc_failed'
<1>1. CASE Begin(f, "open", h, a, a, refs[a] + 1)
  <2> DEFINE n == refs[a] + 1
  <2>1. n \in Nat /\ "open" \in Ops /\ Begin(f, "open", h, a, a, n)
    BY <1>1 DEF Ops, Tables
  <2> HIDE DEF n
  <2>2. /\ update' \in [Files -> Update \cup {Idle}] /\ update'[f] # Idle
        /\ update'[f].op = "open" /\ update'[f].addr = a /\ update'[f].to = a
        /\ update'[f].handle = h /\ update'[f].count = n
        /\ \A g \in Files : g # f => update'[g] = update[g]
    BY <2>1, BeginUpdate
  <2> QED
    BY <1>1, <2>2 DEF n
<1>2. CASE update' = [update EXCEPT ![f] = Idle] /\ alloc_failed' = TRUE
  BY <1>2 DEF Tables
<1> QED
  BY <1>1, <1>2 DEF Increment

\* The next handle, or the end of the file.
LEMMA AdvanceType ==
  ASSUME Tables, Updating, NEW f \in opened, closing[f] < NHandles, Advance(f)
  PROVE  /\ desc' \in [Files -> [Handles -> Descriptor \cup {NoDesc}]]
         /\ opened' \subseteq Files /\ closing' \in [Files -> 0 .. NHandles]
         /\ f \notin opened' => closing'[f] = NHandles /\ \A h \in Handles : desc'[f][h] = NoDesc
         /\ f \in opened' => closing'[f] < NHandles
         /\ \A g \in Files : g # f => /\ closing'[g] = closing[g] /\ desc'[g] = desc[g]
                                      /\ g \in opened' <=> g \in opened
<1>1. f \in Files /\ closing[f] \in 0..NHandles /\ closing[f] \in Nat /\ closing[f] \in Handles
  BY HandlesType DEF Tables
<1>2. CASE Gone(f)
  BY <1>1, <1>2, HandlesType DEF Gone, NoDescs, Tables
<1>3. CASE /\ closing[f] # NHandles - 1 /\ closing' = [closing EXCEPT ![f] = @ + 1]
           /\ desc' = [desc EXCEPT ![f][closing[f]] = NoDesc] /\ UNCHANGED opened
  <2>1. closing[f] + 1 \in 0..NHandles /\ closing[f] + 1 < NHandles
    BY <1>1, <1>3, HandlesType
  <2>2. /\ desc' \in [Files -> [Handles -> Descriptor \cup {NoDesc}]]
        /\ closing' \in [Files -> 0 .. NHandles] /\ opened' = opened
    BY <1>1, <1>3, <2>1 DEF Tables
  <2> QED
    BY <1>1, <1>3, <2>1, <2>2 DEF Tables
<1> QED
  BY <1>2, <1>3 DEF Advance

\* A step of one file leaves the others as they are.
Others(f) ==
  \A g \in Files : g # f => /\ update'[g] = update[g] /\ closing'[g] = closing[g]
                           /\ desc'[g] = desc[g] /\ (g \in opened' <=> g \in opened)

LEMMA FileStep ==
  ASSUME Updating, NEW f \in Files, Others(f), FileOk(f)'
  PROVE  Updating'
<1>1. ASSUME NEW g \in Files, g # f PROVE FileOk(g)'
  <2>1. FileOk(g)
    BY DEF Updating
  <2>2. /\ update'[g] = update[g] /\ closing'[g] = closing[g]
        /\ desc'[g] = desc[g] /\ (g \in opened' <=> g \in opened)
    BY <1>1 DEF Others
  <2> QED
    BY <2>1, <2>2 DEF FileOk
<1> QED
  BY <1>1 DEF Updating

LEMMA InitType == Init => TypeInv
<1> SUFFICES ASSUME Init PROVE TypeInv
  OBVIOUS
<1>1. Flags
  BY DEF Init, Flags
<1>2. Tables
  BY HandlesType DEF Init, Tables, NoDescs
<1>3. Updating
  BY DEF Init, Updating, FileOk, NoDescs
<1> QED
  BY <1>1, <1>2, <1>3 DEF TypeInv

LEMMA NextFlags == Flags /\ [Next]_vars => Flags'
<1> SUFFICES ASSUME Flags, [Next]_vars PROVE Flags'
  OBVIOUS
<1> USE DEF Flags, history
<1>1. ASSUME NEW f \in Files,
             \/ Open(f) \/ Close(f) \/ CleanupBoard(f) \/ CleanupDevice(f) \/ CleanupDone(f)
             \/ OpenDone(f) \/ CloseDone(f) \/ Uncounted(f) \/ Recount(f)
      PROVE  Flags'
  BY <1>1 DEF Open, Close, CleanupBoard, CleanupDevice, CleanupDone, OpenDone, CloseDone,
              Uncounted, Recount, Increment, Decrement, Begin, Write
<1>2. ASSUME NEW f \in Files, NEW a \in Addrs, NEW board \in BOOLEAN, OpenDev(f, a, board)
      PROVE  Flags'
  BY <1>2 DEF OpenDev, Increment, Begin
<1>3. ASSUME NEW f \in Files, NEW h \in Handles, NEW a \in Addrs,
             CloseDev(f, h) \/ Readdress(f, h, a)
      PROVE  Flags'
  BY <1>3 DEF CloseDev, Readdress, Decrement, Begin
<1>4. CASE UNCHANGED vars
  BY <1>4 DEF vars
<1> QED
  BY <1>1, <1>2, <1>3, <1>4, AddrAssumption DEF Next

LEMMA NextTables == Tables /\ Updating /\ [Next]_vars => Tables' /\ Updating'
<1> SUFFICES ASSUME Tables, Updating, [Next]_vars PROVE Tables' /\ Updating'
  OBVIOUS
<1> USE DEF history
<1>1. ASSUME NEW f \in Files, Open(f) PROVE Tables' /\ Updating'
  <2>1. [addr |-> Addr0, is_board |-> TRUE] \in Descriptor
    BY AddrAssumption DEF Descriptor
  <2>2. Tables'
    BY <1>1, <2>1, HandlesType DEF Open, Tables
  <2>3. Updating'
    BY <1>1, HandlesType DEF Open, Updating, FileOk, Tables
  <2> QED
    BY <2>2, <2>3
<1>2. ASSUME NEW f \in Files, NEW a \in Addrs, NEW board \in BOOLEAN, OpenDev(f, a, board)
      PROVE  Tables' /\ Updating'
  <2>1. PICK h \in Handles :
          /\ f \in Live /\ desc' = [desc EXCEPT ![f][h] = [addr |-> a, is_board |-> board]]
          /\ Increment(f, h, a) /\ UNCHANGED <<refs, opened, closing, leaked>>
    BY <1>2 DEF OpenDev
  <2>2. /\ update' \in [Files -> Update \cup {Idle}]
        /\ \A g \in Files : g # f => update'[g] = update[g]
        /\ update'[f] # Idle => update'[f].op = "open" /\ update'[f].handle = h
    BY <2>1, IncrementUpdate
  <2>3. [addr |-> a, is_board |-> board] \in Descriptor
    BY DEF Descriptor
  <2>4. Tables'
    BY <2>1, <2>2, <2>3 DEF Tables
  <2>5. Others(f) /\ FileOk(f)'
    BY <2>1, <2>2, <2>3, HandlesType, NullAssumption DEF Live, Updating, FileOk, Others, Tables
  <2> QED
    BY <2>4, <2>5, FileStep
<1>3. ASSUME NEW f \in Files, NEW h \in Handles, CloseDev(f, h) PROVE Tables' /\ Updating'
  <2>1. f \in Live /\ Decrement(f, "close", h, Addr0) /\ desc[f][h] # NoDesc
        /\ UNCHANGED <<refs, desc, opened, closing, leaked>>
    BY <1>3 DEF CloseDev
  <2>2. /\ update' \in [Files -> Update \cup {Idle}] /\ update'[f] # Idle
        /\ update'[f].op = "close" /\ update'[f].handle = h
        /\ \A g \in Files : g # f => update'[g] = update[g]
    BY <2>1, AddrAssumption, DecrementUpdate DEF Ops
  <2>3. Tables'
    BY <2>1, <2>2 DEF Tables
  <2>4. Others(f) /\ FileOk(f)'
    BY <2>1, <2>2, HandlesType DEF Live, Updating, FileOk, Others
  <2> QED
    BY <2>3, <2>4, FileStep
<1>4. ASSUME NEW f \in Files, NEW h \in Handles, NEW a \in Addrs, Readdress(f, h, a)
      PROVE  Tables' /\ Updating'
  <2>1. f \in Live /\ Decrement(f, "move", h, a) /\ desc[f][h] # NoDesc
        /\ UNCHANGED <<refs, desc, opened, closing, leaked>>
    BY <1>4 DEF Readdress
  <2>2. /\ update' \in [Files -> Update \cup {Idle}] /\ update'[f] # Idle
        /\ update'[f].op = "move" /\ update'[f].handle = h
        /\ \A g \in Files : g # f => update'[g] = update[g]
    BY <2>1, DecrementUpdate DEF Ops
  <2>3. Tables'
    BY <2>1, <2>2 DEF Tables
  <2>4. Others(f) /\ FileOk(f)'
    BY <2>1, <2>2, HandlesType DEF Live, Updating, FileOk, Others
  <2> QED
    BY <2>3, <2>4, FileStep
<1>5. ASSUME NEW f \in Files, OpenDone(f) PROVE Tables' /\ Updating'
  <2>1. Tables'
    BY <1>5, UpdateType DEF OpenDone, In, Done, Write, Tables
  <2>2. Updating'
    BY <1>5 DEF OpenDone, In, Done, Updating, FileOk, Tables
  <2> QED
    BY <2>1, <2>2
<1>6. ASSUME NEW f \in Files, CloseDone(f) PROVE Tables' /\ Updating'
  <2>1. Tables'
    BY <1>6, UpdateType DEF CloseDone, In, Done, Write, Tables
  <2>2. Updating'
    BY <1>6, UpdateType DEF CloseDone, In, Done, Updating, FileOk, Tables
  <2> QED
    BY <2>1, <2>2
<1>7. ASSUME NEW f \in Files, Uncounted(f) PROVE Tables' /\ Updating'
  <2> DEFINE u == update[f]
  <2>1. /\ u # Idle /\ u.op = "move" /\ Write(f) /\ UNCHANGED <<opened, closing, leaked>>
        /\ desc' = [desc EXCEPT ![f][u.handle].addr = u.to]
        /\ update' = [update EXCEPT ![f].op = "recount", ![f].addr = u.to]
    BY <1>7 DEF Uncounted, In
  <2>2. u \in Update /\ u.addr \in Addrs /\ u.to \in Addrs /\ u.handle \in Handles /\ u.count \in Nat
    BY <2>1, UpdateType
  <2> DEFINE v == [u EXCEPT !.op = "recount", !.addr = u.to]
  <2>3. v \in Update /\ v # Idle /\ v.op = "recount"
    BY <2>2, NullAssumption DEF Update
  <2>4. update' = [update EXCEPT ![f] = v]
    BY <2>1 DEF Tables
  <2>5. desc[f][u.handle] # NoDesc /\ f \in opened /\ ~(closing[f] < NHandles)
    BY <2>1 DEF Updating, FileOk
  <2>6. [desc[f][u.handle] EXCEPT !.addr = u.to] \in Descriptor
    BY <2>2, <2>5, DescType DEF Descriptor
  <2>7. desc' \in [Files -> [Handles -> Descriptor \cup {NoDesc}]]
    BY <2>1, <2>2, <2>6 DEF Tables
  <2> HIDE DEF v
  <2>8. Tables'
    BY <2>1, <2>2, <2>3, <2>4, <2>7 DEF Write, Tables
  <2>9. Others(f) /\ FileOk(f)'
    <3>1. desc'[f][v.handle] = [desc[f][u.handle] EXCEPT !.addr = u.to]
      <4>1. v.handle = u.handle
        BY <2>2 DEF Update, v
      <4> HIDE DEF u
      <4> QED
        BY <2>1, <2>2, <4>1 DEF Tables
    <3>2. update'[f] = v
      BY <2>4 DEF Tables
    <3>3. Others(f)
      BY <2>1, <2>2, <2>4 DEF Others, Tables
    <3> QED
      BY <2>1, <2>3, <2>5, <2>6, <3>1, <3>2, <3>3, NullAssumption DEF FileOk
  <2> QED
    BY <2>8, <2>9, FileStep
<1>8. ASSUME NEW f \in Files, Recount(f) PROVE Tables' /\ Updating'
  <2>1. update[f] # Idle /\ update[f].op = "recount"
        /\ Increment(f, update[f].handle, update[f].to)
        /\ UNCHANGED <<refs, desc, opened, closing, leaked>>
    BY <1>8 DEF Recount, In
  <2>2. /\ update' \in [Files -> Update \cup {Idle}]
        /\ \A g \in Files : g # f => update'[g] = update[g]
        /\ update'[f] # Idle => /\ update'[f].op = "open"
                               /\ update'[f].handle = update[f].handle
    BY <2>1, UpdateType, IncrementUpdate
  <2>3. Tables'
    BY <2>1, <2>2 DEF Tables
  <2>4. Others(f) /\ FileOk(f)'
    BY <2>1, <2>2 DEF Updating, FileOk, Others
  <2> QED
    BY <2>3, <2>4, FileStep
<1>9. ASSUME NEW f \in Files, Close(f) PROVE Tables' /\ Updating'
  <2>1. Tables'
    BY <1>9, HandlesType DEF Close, Live, Tables
  <2>2. Others(f) /\ FileOk(f)'
    BY <1>9, HandlesType DEF Close, Live, Tables, Updating, FileOk, Others
  <2> QED
    BY <2>1, <2>2, FileStep
<1>10. ASSUME NEW f \in Files, CleanupBoard(f) PROVE Tables' /\ Updating'
  <2>1. /\ f \in opened /\ closing[f] < NHandles /\ update[f] = Idle /\ Advance(f)
        /\ UNCHANGED <<refs, update>>
    BY <1>10 DEF CleanupBoard, Reached
  <2>2. leaked' \in [Addrs -> Nat]
    <3>1. closing[f] \in Handles
      BY <2>1, HandlesType DEF Tables
    <3> QED
      BY <1>10, <3>1, DescType DEF CleanupBoard, Tables
  <2>3. Tables'
    BY <2>1, <2>2, AdvanceType DEF Tables
  <2>4. /\ f \notin opened' => closing'[f] = NHandles /\ \A h \in Handles : desc'[f][h] = NoDesc
        /\ f \in opened' => closing'[f] < NHandles
        /\ \A g \in Files : g # f => /\ closing'[g] = closing[g] /\ desc'[g] = desc[g]
                                     /\ g \in opened' <=> g \in opened
    BY <2>1, AdvanceType
  <2>5. Others(f) /\ FileOk(f)'
    BY <2>1, <2>4 DEF Others, FileOk
  <2> QED
    BY <2>3, <2>5, FileStep
<1>11. ASSUME NEW f \in Files, CleanupDevice(f) PROVE Tables' /\ Updating'
  <2> DEFINE d == desc[f][closing[f]]
  <2>1. /\ f \in opened /\ closing[f] < NHandles /\ closing[f] \in Handles /\ d # NoDesc
        /\ UNCHANGED <<refs, leaked>>
    BY <1>11, HandlesType DEF CleanupDevice, Reached, Tables
  <2>2. CASE Decrement(f, "clean", closing[f], Addr0) /\ UNCHANGED <<desc, opened, closing>>
    <3>1. /\ update' \in [Files -> Update \cup {Idle}] /\ update'[f] # Idle
          /\ update'[f].op = "clean" /\ update'[f].handle = closing[f]
          /\ \A g \in Files : g # f => update'[g] = update[g]
      BY <2>1, <2>2, AddrAssumption, DecrementUpdate DEF Ops
    <3>2. Tables'
      BY <2>1, <2>2, <3>1 DEF Tables
    <3>3. Others(f) /\ FileOk(f)'
      BY <2>1, <2>2, <3>1 DEF Updating, FileOk, Others
    <3> QED
      BY <3>2, <3>3, FileStep
  <2>3. CASE Gone(f) /\ UNCHANGED update
    <3>1. update[f] = Idle
      BY <1>11 DEF CleanupDevice, Reached
    <3>2. Tables'
      BY <2>1, <2>3, HandlesType DEF Gone, NoDescs, Tables
    <3>3. Others(f) /\ FileOk(f)'
      BY <2>1, <2>3, <3>1, HandlesType DEF Gone, NoDescs, Tables, FileOk, Others
    <3> QED
      BY <3>2, <3>3, FileStep
  <2> QED
    BY <1>11, <2>2, <2>3 DEF CleanupDevice
<1>12. ASSUME NEW f \in Files, CleanupDone(f) PROVE Tables' /\ Updating'
  <2>1. /\ update[f] # Idle /\ update[f].op = "clean" /\ Write(f) /\ Advance(f)
        /\ update' = [update EXCEPT ![f] = Idle] /\ UNCHANGED leaked
    BY <1>12 DEF CleanupDone, In, Done
  <2>2. f \in opened /\ closing[f] < NHandles
    BY <2>1 DEF Updating, FileOk
  <2>3. update' \in [Files -> Update \cup {Idle}] /\ update'[f] = Idle
        /\ \A g \in Files : g # f => update'[g] = update[g]
    BY <2>1 DEF Tables
  <2>4. refs' \in [Addrs -> Nat]
    BY <2>1, UpdateType DEF Write, Tables
  <2>5. Tables'
    BY <2>1, <2>2, <2>3, <2>4, AdvanceType DEF Tables
  <2>6. /\ f \notin opened' => closing'[f] = NHandles /\ \A h \in Handles : desc'[f][h] = NoDesc
        /\ f \in opened' => closing'[f] < NHandles
        /\ \A g \in Files : g # f => /\ closing'[g] = closing[g] /\ desc'[g] = desc[g]
                                     /\ g \in opened' <=> g \in opened
    BY <2>1, <2>2, <2>3, AdvanceType
  <2>7. Others(f) /\ FileOk(f)'
    BY <2>3, <2>6 DEF Others, FileOk
  <2> QED
    BY <2>5, <2>7, FileStep
<1>13. CASE UNCHANGED vars
  BY <1>13 DEF vars, Tables, Updating, FileOk
<1> QED
  BY <1>1, <1>2, <1>3, <1>4, <1>5, <1>6, <1>7, <1>8, <1>9, <1>10, <1>11, <1>12, <1>13 DEF Next

LEMMA NextType == TypeInv /\ [Next]_vars => TypeInv'
BY NextFlags, NextTables DEF TypeInv

\* Every variable of the device list stays within its type, whatever races;
\* reference counts stay natural numbers, and a file that is gone has no
\* descriptors and no update in flight.
THEOREM TypeCorrect == Spec => []TypeOK
<1>1. TypeInv => TypeOK
  BY DEF TypeInv, Flags, Tables, Updating, FileOk, TypeOK
<1> QED
  BY InitType, NextType, <1>1, PTL DEF Spec

-----------------------------------------------------------------------------
\* How the handles that count change, and the counts with them.
On(f, h, a) == desc[f][h] # NoDesc /\ desc[f][h].addr = a /\ ~NotYet(f, h)

LEMMA OpenOnFinite ==
  \A a \in Addrs : IsFiniteSet(OpenOn(a)) /\ Cardinality(OpenOn(a)) \in Nat
<1>1. IsFiniteSet(Handles)
  BY HandleAssumption, FS_Interval DEF Handles
<1>2. IsFiniteSet(Handles \ {0})
  BY <1>1, FS_Subset
<1>3. IsFiniteSet(Files \X (Handles \ {0}))
  BY <1>2, FiniteAssumption, FS_Product
<1>4. \A a \in Addrs : OpenOn(a) \in SUBSET (Files \X (Handles \ {0}))
  BY DEF OpenOn
<1> QED
  BY <1>3, <1>4, FS_Subset, FS_CardinalityType

LEMMA OnSame ==
  ASSUME NEW f \in Files, Others(f), NEW a \in Addrs,
         \A h \in Handles \ {0} : On(f, h, a)' <=> On(f, h, a)
  PROVE  OpenOn(a)' = OpenOn(a)
<1>1. \A g \in Files, h \in Handles \ {0} : On(g, h, a)' <=> On(g, h, a)
  BY DEF Others, On, NotYet
<1> QED
  BY <1>1 DEF OpenOn, On

LEMMA OnLost ==
  ASSUME NEW f \in Files, Others(f), NEW a \in Addrs, NEW k \in Handles \ {0},
         On(f, k, a), ~On(f, k, a)',
         \A h \in Handles \ {0, k} : On(f, h, a)' <=> On(f, h, a)
  PROVE  Cardinality(OpenOn(a)') = Cardinality(OpenOn(a)) - 1
<1>1. \A g \in Files, h \in Handles \ {0} :
        <<g, h>> # <<f, k>> => (On(g, h, a)' <=> On(g, h, a))
  BY DEF Others, On, NotYet
<1>2. OpenOn(a)' = OpenOn(a) \ {<<f, k>>} /\ <<f, k>> \in OpenOn(a)
  BY <1>1 DEF OpenOn, On
<1>3. IsFiniteSet(OpenOn(a)) /\ Cardinality(OpenOn(a)) \in Nat
  BY OpenOnFinite
<1>4. Cardinality(OpenOn(a) \ {<<f, k>>}) = Cardinality(OpenOn(a)) - 1
  BY <1>2, <1>3, FS_RemoveElement
<1> QED
  BY <1>2, <1>4

LEMMA OnGained ==
  ASSUME NEW f \in Files, Others(f), NEW a \in Addrs, NEW k \in Handles \ {0},
         ~On(f, k, a), On(f, k, a)',
         \A h \in Handles \ {0, k} : On(f, h, a)' <=> On(f, h, a)
  PROVE  Cardinality(OpenOn(a)') = Cardinality(OpenOn(a)) + 1
<1>1. \A g \in Files, h \in Handles \ {0} :
        <<g, h>> # <<f, k>> => (On(g, h, a)' <=> On(g, h, a))
  BY DEF Others, On, NotYet
<1>2. OpenOn(a)' = OpenOn(a) \cup {<<f, k>>} /\ <<f, k>> \notin OpenOn(a)
  BY <1>1 DEF OpenOn, On
<1> QED
  BY <1>2, OpenOnFinite, FS_AddElement

\* The three ways in which a step changes the counts.
LEMMA ExactSame ==
  ASSUME Tables, Tables', Exact, NEW f \in Files, Others(f), refs' = refs, leaked' = leaked,
         \A a \in Addrs : \A h \in Handles \ {0} : On(f, h, a)' <=> On(f, h, a)
  PROVE  Exact'
<1>1. \A a \in Addrs : OpenOn(a)' = OpenOn(a)
  BY OnSame
<1> QED
  BY <1>1 DEF Exact

LEMMA ExactLost ==
  ASSUME Tables, Tables', Exact, NEW f \in Files, Others(f), NEW b \in Addrs,
         NEW k \in Handles \ {0}, On(f, k, b), \A a \in Addrs : ~On(f, k, a)',
         \A a \in Addrs : \A h \in Handles \ {0, k} : On(f, h, a)' <=> On(f, h, a),
         \/ refs' = [refs EXCEPT ![b] = @ - 1] /\ leaked' = leaked
         \/ refs' = refs /\ leaked' = [leaked EXCEPT ![b] = @ + 1]
  PROVE  Exact'
<1>1. ASSUME NEW a \in Addrs, a # b PROVE refs'[a] = Cardinality(OpenOn(a)') + leaked'[a]
  <2>1. \A h \in Handles \ {0} : On(f, h, a)' <=> On(f, h, a)
    BY <1>1 DEF On
  <2>2. OpenOn(a)' = OpenOn(a)
    BY <2>1, OnSame
  <2> QED
    BY <1>1, <2>2 DEF Exact, Tables
<1>2. refs'[b] = Cardinality(OpenOn(b)') + leaked'[b]
  <2>1. Cardinality(OpenOn(b)') = Cardinality(OpenOn(b)) - 1
    BY OnLost
  <2>2. /\ Cardinality(OpenOn(b)) \in Nat /\ refs[b] \in Nat /\ leaked[b] \in Nat
        /\ refs[b] = Cardinality(OpenOn(b)) + leaked[b]
    BY OpenOnFinite DEF Exact, Tables
  <2>3. \/ refs'[b] = refs[b] - 1 /\ leaked'[b] = leaked[b]
        \/ refs'[b] = refs[b] /\ leaked'[b] = leaked[b] + 1
    BY DEF Tables
  <2> QED
    BY <2>1, <2>2, <2>3
<1> QED
  BY <1>1, <1>2 DEF Exact

LEMMA ExactGained ==
  ASSUME Tables, Tables', Exact, NEW f \in Files, Others(f), NEW b \in Addrs,
         NEW k \in Handles \ {0}, On(f, k, b)', \A a \in Addrs : ~On(f, k, a),
         \A a \in Addrs : \A h \in Handles \ {0, k} : On(f, h, a)' <=> On(f, h, a),
         refs' = [refs EXCEPT ![b] = @ + 1], leaked' = leaked
  PROVE  Exact'
<1>1. ASSUME NEW a \in Addrs, a # b PROVE refs'[a] = Cardinality(OpenOn(a)') + leaked'[a]
  <2>1. \A h \in Handles \ {0} : On(f, h, a)' <=> On(f, h, a)
    BY <1>1 DEF On
  <2>2. OpenOn(a)' = OpenOn(a)
    BY <2>1, OnSame
  <2> QED
    BY <1>1, <2>2 DEF Exact, Tables
<1>2. refs'[b] = Cardinality(OpenOn(b)') + leaked'[b]
  <2>1. Cardinality(OpenOn(b)') = Cardinality(OpenOn(b)) + 1
    BY OnGained
  <2>2. /\ Cardinality(OpenOn(b)) \in Nat /\ refs[b] \in Nat /\ leaked[b] \in Nat
        /\ refs[b] = Cardinality(OpenOn(b)) + leaked[b]
    BY OpenOnFinite DEF Exact, Tables
  <2>3. refs'[b] = refs[b] + 1
    BY DEF Tables
  <2> QED
    BY <2>1, <2>2, <2>3
<1> QED
  BY <1>1, <1>2 DEF Exact

-----------------------------------------------------------------------------
\* While nothing has raced, a file that begins or ends an update is alone.
Alone(f) == \A g \in Files : g # f => update[g] = Idle

LEMMA CountStep ==
  ASSUME OneUpdate, Steady, NEW f \in Files, Others(f),
         refs' = refs \/ Alone(f), update'[f] = Idle \/ Alone(f),
         PendingOk(f)', HandlesOk(f)'
  PROVE  OneUpdate' /\ Steady'
<1>1. OneUpdate'
  BY DEF OneUpdate, Others, Alone
<1>2. ASSUME NEW g \in Files, g # f PROVE PendingOk(g)' /\ HandlesOk(g)'
  <2>1. PendingOk(g) /\ HandlesOk(g)
    BY DEF Steady
  <2>2. /\ update'[g] = update[g] /\ closing'[g] = closing[g] /\ desc'[g] = desc[g]
        /\ (g \in opened' <=> g \in opened)
    BY <1>2 DEF Others
  <2>3. refs' = refs \/ update[g] = Idle
    BY <1>2 DEF Alone
  <2>4. PendingOk(g)'
    BY <2>1, <2>2, <2>3 DEF PendingOk
  <2>5. HandlesOk(g)'
    BY <2>1, <2>2 DEF HandlesOk
  <2> QED
    BY <2>4, <2>5
<1> QED
  BY <1>1, <1>2 DEF Steady

\* Before and after a step in the regular case.
Both(f) ==
  /\ Tables /\ Updating /\ Tables' /\ Others(f) /\ OneUpdate /\ Steady /\ Exact
  /\ Regular /\ Regular'

LEMMA OpenCounts ==
  ASSUME NEW f \in Files, Both(f), Open(f) PROVE OneUpdate' /\ Steady' /\ Exact'
<1> USE DEF Both
<1>1. /\ closing[f] = NHandles /\ update[f] = Idle /\ f \in Files
      /\ UNCHANGED <<refs, closing, update, leaked>> /\ desc'[f][0].is_board /\ desc'[f][0] # NoDesc
      /\ \A h \in Handles \ {0} : desc'[f][h] = desc[f][h]
  <2>1. [addr |-> Addr0, is_board |-> TRUE] \in Descriptor
    BY AddrAssumption DEF Descriptor
  <2>2. closing[f] = NHandles /\ update[f] = Idle
    BY DEF Open, Updating, FileOk
  <2> DEFINE r == [addr |-> Addr0, is_board |-> TRUE]
  <2>3. r.is_board /\ r # NoDesc
    BY <2>1, NullAssumption
  <2>4. desc' = [desc EXCEPT ![f][0] = r] /\ UNCHANGED <<refs, closing, update, leaked>>
    BY DEF Open, history
  <2> HIDE DEF r
  <2>5. desc'[f][0] = r /\ \A h \in Handles \ {0} : desc'[f][h] = desc[f][h]
    BY <2>4, HandlesType DEF Tables
  <2> QED
    BY <2>2, <2>3, <2>4, <2>5
<1>2. PendingOk(f)' /\ HandlesOk(f)'
  BY <1>1, HandlesType DEF PendingOk, HandlesOk
<1>3. Exact'
  BY <1>1, ExactSame DEF On, NotYet
<1> QED
  BY <1>1, <1>2, <1>3, CountStep

LEMMA OpenDevCounts ==
  ASSUME NEW f \in Files, NEW a \in Addrs, NEW board \in BOOLEAN, Both(f), OpenDev(f, a, board)
  PROVE  OneUpdate' /\ Steady' /\ Exact'
<1> USE DEF Both
<1>1. PICK h \in Handles :
        /\ f \in Live /\ BigIsFree /\ FirstFree(f, h)
        /\ desc' = [desc EXCEPT ![f][h] = [addr |-> a, is_board |-> board]]
        /\ Increment(f, h, a) /\ UNCHANGED <<refs, opened, closing, leaked>>
  BY DEF OpenDev
<1>2. /\ update'[f] # Idle /\ Begin(f, "open", h, a, a, refs[a] + 1)
      /\ update'[f].op = "open" /\ update'[f].addr = a /\ update'[f].to = a
      /\ update'[f].handle = h /\ update'[f].count = refs[a] + 1
  BY <1>1, IncrementUpdate DEF Regular
<1>3. Alone(f)
  BY <1>2 DEF Begin, Regular, Alone
<1>4. /\ update[f] = Idle /\ desc[f][h] = NoDesc /\ closing[f] = NHandles /\ f \in opened
      /\ h \in Nat
  BY <1>1, HandlesType DEF Live, BigIsFree, FirstFree
<1>5. desc[f][0] # NoDesc /\ desc[f][0].is_board /\ h # 0
  BY <1>4 DEF Steady, HandlesOk
<1>6. /\ desc'[f][h].addr = a /\ \A k \in Handles : k # h => desc'[f][k] = desc[f][k]
  BY <1>1 DEF Tables
<1>7. PendingOk(f)'
  BY <1>1, <1>2, <1>5, <1>6 DEF PendingOk
<1>8. HandlesOk(f)'
  BY <1>1, <1>4, <1>5, <1>6, HandlesType DEF HandlesOk
<1>9. Exact'
  <2>1. \A b \in Addrs : \A k \in Handles \ {0} : On(f, k, b)' <=> On(f, k, b)
    BY <1>2, <1>4, <1>6 DEF On, NotYet
  <2> QED
    BY <1>1, <2>1, ExactSame
<1> QED
  BY <1>3, <1>7, <1>8, <1>9, CountStep

\* A decrement of an ioctl begins.
LEMMA DecrementCounts ==
  ASSUME NEW f \in Files, NEW op \in {"close", "move"}, NEW h \in Handles, NEW to \in Addrs, Both(f),
         f \in Live, update[f] = Idle, desc[f][h] # NoDesc, op = "move" => h # 0,
         Decrement(f, op, h, to), UNCHANGED <<refs, desc, opened, closing, leaked>>
  PROVE  OneUpdate' /\ Steady' /\ Exact'
<1> USE DEF Both
<1>1. op \in Ops
  BY DEF Ops
<1>2. /\ refs[desc[f][h].addr] \in Nat \ {0} /\ update'[f] # Idle
      /\ update'[f].op = op /\ update'[f].addr = desc[f][h].addr
      /\ update'[f].handle = h /\ update'[f].count = refs[desc[f][h].addr] - 1
  BY <1>1, DecrementUpdate
<1>3. Alone(f)
  BY DEF Decrement, Begin, Regular, Alone
<1>4. PendingOk(f)'
  BY <1>2 DEF PendingOk
<1>5. HandlesOk(f)'
  BY DEF Steady, HandlesOk
<1>6. \A b \in Addrs : \A k \in Handles \ {0} : On(f, k, b)' <=> On(f, k, b)
  BY <1>2 DEF On, NotYet
<1>7. Exact'
  BY <1>6, ExactSame
<1> QED
  BY <1>3, <1>4, <1>5, <1>7, CountStep

LEMMA OpenDoneCounts ==
  ASSUME NEW f \in Files, Both(f), OpenDone(f) PROVE OneUpdate' /\ Steady' /\ Exact'
<1> USE DEF Both
<1> DEFINE u == update[f]
<1>1. /\ u # Idle /\ u.op = "open" /\ update'[f] = Idle
      /\ refs' = [refs EXCEPT ![u.addr] = u.count] /\ UNCHANGED <<desc, opened, closing, leaked>>
  BY DEF OpenDone, In, Write, Done, Tables
<1>2. u.addr \in Addrs /\ u.handle \in Handles \ {0} /\ u.count = refs[u.addr] + 1
      /\ desc[f][u.handle].addr = u.addr /\ desc[f][u.handle] # NoDesc
  BY <1>1, UpdateType DEF Steady, PendingOk, Updating, FileOk
<1>3. Alone(f)
  BY <1>1 DEF OneUpdate, Alone
<1>4. PendingOk(f)' /\ HandlesOk(f)'
  BY <1>1 DEF Steady, PendingOk, HandlesOk
<1>5. Exact'
  <2>1. PICK k \in Handles \ {0}, b \in Addrs : k = u.handle /\ b = u.addr
    BY <1>2
  <2>2. On(f, k, b)' /\ \A a \in Addrs : ~On(f, k, a)
    BY <1>1, <1>2, <2>1 DEF On, NotYet
  <2>3. \A a \in Addrs : \A h \in Handles \ {0, k} : On(f, h, a)' <=> On(f, h, a)
    BY <1>1, <2>1 DEF On, NotYet
  <2>4. refs' = [refs EXCEPT ![b] = @ + 1] /\ leaked' = leaked
    BY <1>1, <1>2, <2>1
  <2> QED
    BY <2>2, <2>3, <2>4, ExactGained
<1> QED
  BY <1>1, <1>3, <1>4, <1>5, CountStep

\* An uncounted handle: it goes, or keeps its place with its next address.
LEMMA UncountExact ==
  ASSUME NEW f \in Files, Both(f), update[f] # Idle, update[f].op \in {"close", "move", "clean"},
         Write(f), leaked' = leaked, NEW k \in Handles \ {0}, update[f].handle = k,
         \A a \in Addrs : ~On(f, k, a)',
         \A a \in Addrs : \A h \in Handles \ {0, k} : On(f, h, a)' <=> On(f, h, a)
  PROVE  Exact'
<1> USE DEF Both
<1>1. PICK b \in Addrs : b = update[f].addr
  BY UpdateType
<1>2. /\ refs[b] = update[f].count + 1 /\ update[f].count \in Nat
      /\ desc[f][k].addr = b /\ desc[f][k] # NoDesc
  BY <1>1, UpdateType DEF Steady, PendingOk, Updating, FileOk
<1>3. On(f, k, b)
  BY <1>2 DEF On, NotYet
<1>4. refs' = [refs EXCEPT ![b] = @ - 1]
  <2>1. refs[b] - 1 = update[f].count
    BY <1>2
  <2> QED
    BY <1>1, <2>1 DEF Write
<1> QED
  BY <1>3, <1>4, ExactLost

LEMMA CloseDoneCounts ==
  ASSUME NEW f \in Files, Both(f), CloseDone(f) PROVE OneUpdate' /\ Steady' /\ Exact'
<1> USE DEF Both
<1> DEFINE u == update[f]
<1>1. /\ u # Idle /\ u.op = "close" /\ update'[f] = Idle /\ Write(f)
      /\ desc' = [desc EXCEPT ![f][u.handle] = NoDesc] /\ UNCHANGED <<opened, closing, leaked>>
      /\ u.handle # 0
  BY DEF CloseDone, In, Done, Regular, Tables
<1>2. u.handle \in Handles /\ desc'[f][u.handle] = NoDesc
      /\ \A h \in Handles : h # u.handle => desc'[f][h] = desc[f][h]
  BY <1>1, UpdateType DEF Tables
<1>3. Alone(f)
  BY <1>1 DEF OneUpdate, Alone
<1>4. PendingOk(f)' /\ HandlesOk(f)'
  <2>1. PendingOk(f)'
    BY <1>1 DEF PendingOk
  <2>2. HandlesOk(f)'
    BY <1>1, <1>2, HandlesType DEF Steady, HandlesOk
  <2> QED
    BY <2>1, <2>2
<1>5. Exact'
  <2>0. PICK k \in Handles \ {0} : k = u.handle
    BY <1>1, <1>2
  <2>1. \A a \in Addrs : ~On(f, k, a)'
    BY <1>2, <2>0 DEF On
  <2>2. \A a \in Addrs : \A h \in Handles \ {0, k} : On(f, h, a)' <=> On(f, h, a)
    BY <1>1, <1>2, <2>0 DEF On, NotYet
  <2> QED
    BY <1>1, <2>0, <2>1, <2>2, UncountExact
<1> QED
  BY <1>1, <1>3, <1>4, <1>5, CountStep

LEMMA UncountedCounts ==
  ASSUME NEW f \in Files, Both(f), Uncounted(f) PROVE OneUpdate' /\ Steady' /\ Exact'
<1> USE DEF Both
<1> DEFINE u == update[f]
<1>1. /\ u # Idle /\ u.op = "move" /\ Write(f)
      /\ desc' = [desc EXCEPT ![f][u.handle].addr = u.to] /\ UNCHANGED <<opened, closing, leaked>>
      /\ update' = [update EXCEPT ![f].op = "recount", ![f].addr = u.to]
  BY DEF Uncounted, In
<1>2. u \in Update /\ u.handle \in Handles \ {0} /\ u.to \in Addrs /\ desc[f][u.handle] # NoDesc
  BY <1>1, UpdateType DEF Steady, PendingOk, Updating, FileOk
<1>3. /\ update'[f].op = "recount" /\ update'[f].addr = u.to /\ update'[f].to = u.to
      /\ update'[f].handle = u.handle /\ update'[f] # Idle
  <2> DEFINE v == [u EXCEPT !.op = "recount", !.addr = u.to]
  <2>1. /\ v \in Update /\ v.op = "recount" /\ v.addr = u.to /\ v.to = u.to /\ v.handle = u.handle
    BY <1>2 DEF Update
  <2>2. update'[f] = v
    BY <1>1 DEF Tables
  <2> QED
    BY <2>1, <2>2, NullAssumption
<1>4. /\ desc'[f][u.handle].addr = u.to
      /\ \A h \in Handles : h # u.handle => desc'[f][h] = desc[f][h]
  <2>1. desc[f][u.handle] \in Descriptor
    BY <1>2, DescType
  <2> HIDE DEF u
  <2> QED
    BY <1>1, <1>2, <2>1 DEF Descriptor, Tables
<1>5. Alone(f)
  BY <1>1 DEF OneUpdate, Alone
<1>6. PendingOk(f)'
  BY <1>2, <1>3, <1>4 DEF PendingOk
<1>7. HandlesOk(f)'
  BY <1>1, <1>2, <1>4, HandlesType DEF Steady, HandlesOk, Updating, FileOk
<1>8. Exact'
  <2>0. PICK k \in Handles \ {0} : k = u.handle
    BY <1>2
  <2>1. \A a \in Addrs : ~On(f, k, a)'
    BY <1>3, <2>0 DEF On, NotYet
  <2>2. \A a \in Addrs : \A h \in Handles \ {0, k} : On(f, h, a)' <=> On(f, h, a)
    BY <1>1, <1>3, <1>4, <2>0 DEF On, NotYet
  <2> QED
    BY <1>1, <2>0, <2>1, <2>2, UncountExact
<1> QED
  BY <1>5, <1>6, <1>7, <1>8, CountStep

LEMMA RecountCounts ==
  ASSUME NEW f \in Files, Both(f), Recount(f) PROVE OneUpdate' /\ Steady' /\ Exact'
<1> USE DEF Both
<1> DEFINE u == update[f]
<1>1. /\ u # Idle /\ u.op = "recount" /\ Increment(f, u.handle, u.to)
      /\ UNCHANGED <<refs, desc, opened, closing, leaked>>
  BY DEF Recount, In
<1>2. /\ u.handle \in Handles \ {0} /\ u.to \in Addrs /\ u.to = u.addr
      /\ desc[f][u.handle].addr = u.to
  BY <1>1, UpdateType DEF Steady, PendingOk
<1>3. /\ update'[f] # Idle /\ update'[f].op = "open" /\ update'[f].addr = u.to
      /\ update'[f].handle = u.handle /\ update'[f].count = refs[u.to] + 1
  BY <1>1, <1>2, IncrementUpdate DEF Regular
<1>4. Alone(f)
  BY <1>1 DEF OneUpdate, Alone
<1>5. PendingOk(f)'
  BY <1>1, <1>2, <1>3 DEF PendingOk
<1>6. HandlesOk(f)'
  BY <1>1 DEF Steady, HandlesOk
<1>7. \A a \in Addrs : \A h \in Handles \ {0} : On(f, h, a)' <=> On(f, h, a)
  BY <1>1, <1>3 DEF On, NotYet
<1>8. Exact'
  BY <1>1, <1>7, ExactSame
<1> QED
  BY <1>4, <1>5, <1>6, <1>8, CountStep

LEMMA CloseCounts ==
  ASSUME NEW f \in Files, Both(f), Close(f) PROVE OneUpdate' /\ Steady' /\ Exact'
<1> USE DEF Both
<1>1. /\ f \in opened /\ closing[f] = NHandles /\ update[f] = Idle /\ closing'[f] = 0
      /\ UNCHANGED <<refs, desc, opened, update, leaked>>
  BY HandlesType DEF Close, Live, Tables, history
<1>2. PendingOk(f)'
  BY <1>1 DEF PendingOk
<1>3. HandlesOk(f)'
  <2>1. desc[f][0] # NoDesc /\ desc[f][0].is_board
    BY <1>1 DEF Steady, HandlesOk
  <2>2. \A h \in Handles : ~(h < 0)
    BY HandlesType
  <2> QED
    BY <1>1, <2>1, <2>2 DEF HandlesOk
<1>4. \A a \in Addrs : \A h \in Handles \ {0} : On(f, h, a)' <=> On(f, h, a)
  BY <1>1 DEF On, NotYet
<1>5. Exact'
  BY <1>1, <1>4, ExactSame
<1> QED
  BY <1>1, <1>2, <1>3, <1>5, CountStep

\* Of the handles only the one that ibclose has reached goes, the last one with
\* the file.
LEMMA AdvanceCounts ==
  ASSUME Tables, NEW f \in opened, HandlesOk(f), closing[f] < NHandles, Advance(f)
  PROVE  /\ closing[f] \in Handles /\ desc'[f][closing[f]] = NoDesc
         /\ \A h \in Handles : h # closing[f] => desc'[f][h] = desc[f][h]
         /\ HandlesOk(f)'
<1>1. /\ f \in Files /\ closing[f] \in 0..NHandles /\ closing[f] \in Nat /\ closing[f] \in Handles
  BY HandlesType DEF Tables
<1>2. CASE closing[f] = NHandles - 1
  <2>1. Gone(f)
    BY <1>2 DEF Advance
  <2>2. \A h \in Handles : h # closing[f] => desc[f][h] = NoDesc
    <3>1. \A h \in Handles : h # closing[f] => h < closing[f]
      BY <1>1, <1>2, HandlesType DEF Handles
    <3> QED
      BY <3>1 DEF HandlesOk
  <2>3. /\ f \notin opened' /\ closing'[f] = NHandles
        /\ \A h \in Handles : desc'[f][h] = NoDesc
    BY <1>1, <2>1 DEF Gone, NoDescs, Tables
  <2> QED
    BY <1>1, <2>2, <2>3, HandlesType DEF HandlesOk
<1>3. CASE closing[f] # NHandles - 1
  <2>1. /\ closing' = [closing EXCEPT ![f] = @ + 1] /\ opened' = opened
        /\ desc' = [desc EXCEPT ![f][closing[f]] = NoDesc]
    BY <1>3 DEF Advance
  <2>2. /\ closing'[f] = closing[f] + 1 /\ desc'[f][closing[f]] = NoDesc
        /\ \A h \in Handles : h # closing[f] => desc'[f][h] = desc[f][h]
    BY <1>1, <2>1 DEF Tables
  <2>3. closing'[f] # 0 /\ closing'[f] # NHandles
    BY <1>1, <1>3, <2>2, HandlesType
  <2>4. \A h \in Handles : h < closing'[f] => desc'[f][h] = NoDesc
    <3>1. \A h \in Handles : h < closing'[f] => h < closing[f] \/ h = closing[f]
      <4>1. \A h \in Nat : h < closing[f] + 1 => h < closing[f] \/ h = closing[f]
        BY <1>1
      <4> QED
        BY <2>2, <4>1, HandlesType
    <3> QED
      BY <2>2, <3>1 DEF HandlesOk
  <2> QED
    BY <1>1, <2>2, <2>3, <2>4 DEF HandlesOk
<1> QED
  BY <1>2, <1>3

LEMMA CleanupBoardCounts ==
  ASSUME NEW f \in Files, Both(f), CleanupBoard(f) PROVE OneUpdate' /\ Steady' /\ Exact'
<1> USE DEF Both
<1>1. /\ f \in opened /\ closing[f] < NHandles /\ update[f] = Idle /\ Advance(f)
      /\ UNCHANGED <<refs, update>> /\ HandlesOk(f)
  BY DEF CleanupBoard, Reached, Steady
<1>2. PICK k \in Handles : k = closing[f]
  BY <1>1, AdvanceCounts
<1>3. /\ desc'[f][k] = NoDesc /\ \A h \in Handles : h # k => desc'[f][h] = desc[f][h]
      /\ HandlesOk(f)'
  BY <1>1, <1>2, AdvanceCounts
<1>4. PendingOk(f)'
  BY <1>1 DEF PendingOk
<1>5. \A a \in Addrs : /\ ~On(f, k, a)'
                      /\ \A h \in Handles : h # k => (On(f, h, a)' <=> On(f, h, a))
  BY <1>1, <1>3 DEF On, NotYet
<1>6. Exact'
  <2>1. CASE desc[f][k] = NoDesc \/ k = 0
    <3>1. leaked' = leaked
      BY <1>2, <2>1 DEF CleanupBoard
    <3>2. \A a \in Addrs : \A h \in Handles \ {0} : On(f, h, a)' <=> On(f, h, a)
      BY <1>5, <2>1 DEF On
    <3> QED
      BY <1>1, <3>1, <3>2, ExactSame
  <2>2. CASE desc[f][k] # NoDesc /\ k # 0
    <3>1. PICK b \in Addrs : b = desc[f][k].addr
      BY <2>2, DescType
    <3>2. leaked' = [leaked EXCEPT ![b] = @ + 1]
      BY <1>2, <2>2, <3>1 DEF CleanupBoard
    <3>3. On(f, k, b)
      BY <1>1, <2>2, <3>1 DEF On, NotYet
    <3> QED
      BY <1>1, <1>5, <2>2, <3>2, <3>3, ExactLost
  <2> QED
    BY <2>1, <2>2
<1> QED
  BY <1>1, <1>3, <1>4, <1>6, CountStep

LEMMA CleanupDeviceCounts ==
  ASSUME NEW f \in Files, Both(f), CleanupDevice(f) PROVE OneUpdate' /\ Steady' /\ Exact'
<1> USE DEF Both
<1>1. /\ f \in opened /\ closing[f] < NHandles /\ update[f] = Idle
      /\ UNCHANGED <<refs, leaked>> /\ HandlesOk(f)
  BY DEF CleanupDevice, Reached, Steady
<1>2. PICK k \in Handles : k = closing[f]
  BY <1>1, HandlesType DEF Tables
<1>3. desc[f][k] # NoDesc /\ ~desc[f][k].is_board /\ k # 0
  BY <1>1, <1>2 DEF CleanupDevice, HandlesOk
<1>4. PICK b \in Addrs : b = desc[f][k].addr
  BY <1>3, DescType
<1>5. refs[b] # 0
  <2>1. On(f, k, b)
    BY <1>1, <1>3, <1>4 DEF On, NotYet
  <2>2. <<f, k>> \in OpenOn(b)
    BY <1>3, <2>1 DEF On, OpenOn
  <2>3. Cardinality(OpenOn(b)) # 0
    BY <2>2, OpenOnFinite, FS_EmptySet
  <2> QED
    BY <2>3, OpenOnFinite DEF Exact, Tables
<1>6. Decrement(f, "clean", k, Addr0) /\ UNCHANGED <<desc, opened, closing>>
  BY <1>2, <1>4, <1>5 DEF CleanupDevice
<1>7. /\ refs[b] \in Nat \ {0} /\ update'[f] # Idle
      /\ update'[f].op = "clean" /\ update'[f].addr = b
      /\ update'[f].handle = k /\ update'[f].count = refs[b] - 1
  BY <1>3, <1>4, <1>6, AddrAssumption, DecrementUpdate DEF Ops
<1>8. Alone(f)
  BY <1>6 DEF Decrement, Begin, Regular, Alone
<1>9. PendingOk(f)'
  BY <1>1, <1>2, <1>3, <1>4, <1>6, <1>7 DEF PendingOk
<1>10. HandlesOk(f)'
  BY <1>1, <1>6 DEF HandlesOk
<1>11. \A a \in Addrs : \A h \in Handles \ {0} : On(f, h, a)' <=> On(f, h, a)
  BY <1>1, <1>6, <1>7 DEF On, NotYet
<1>12. Exact'
  BY <1>1, <1>11, ExactSame
<1> QED
  BY <1>8, <1>9, <1>10, <1>12, CountStep

LEMMA CleanupDoneCounts ==
  ASSUME NEW f \in Files, Both(f), CleanupDone(f) PROVE OneUpdate' /\ Steady' /\ Exact'
<1> USE DEF Both
<1> DEFINE u == update[f]
<1>1. /\ u # Idle /\ u.op = "clean" /\ Write(f) /\ Advance(f) /\ update'[f] = Idle
      /\ leaked' = leaked /\ HandlesOk(f)
  BY DEF CleanupDone, In, Done, Steady, Tables
<1>2. f \in opened /\ closing[f] < NHandles /\ u.handle = closing[f] /\ u.handle # 0
  BY <1>1 DEF Updating, FileOk, Steady, PendingOk
<1>3. PICK k \in Handles \ {0} : k = closing[f]
  BY <1>1, <1>2, AdvanceCounts
<1>4. /\ desc'[f][k] = NoDesc /\ \A h \in Handles : h # k => desc'[f][h] = desc[f][h]
      /\ HandlesOk(f)'
  BY <1>1, <1>2, <1>3, AdvanceCounts
<1>5. Alone(f)
  BY <1>1 DEF OneUpdate, Alone
<1>6. PendingOk(f)'
  BY <1>1 DEF PendingOk
<1>7. Exact'
  <2>1. \A a \in Addrs : ~On(f, k, a)'
    BY <1>4 DEF On
  <2>2. \A a \in Addrs : \A h \in Handles \ {0, k} : On(f, h, a)' <=> On(f, h, a)
    BY <1>1, <1>2, <1>3, <1>4 DEF On, NotYet
  <2> QED
    BY <1>1, <1>2, <1>3, <2>1, <2>2, UncountExact
<1> QED
  BY <1>4, <1>5, <1>6, <1>7, CountStep

-----------------------------------------------------------------------------
\* What the operations of a file leave alone, and that history is never undone.
LEMMA OthersKept ==
  ASSUME Tables, NEW f \in Files,
         \/ Open(f) \/ Close(f) \/ CleanupBoard(f) \/ CleanupDevice(f) \/ CleanupDone(f)
         \/ OpenDone(f) \/ CloseDone(f) \/ Uncounted(f) \/ Recount(f)
         \/ \E a \in Addrs, board \in BOOLEAN : OpenDev(f, a, board)
         \/ \E h \in Handles : CloseDev(f, h)
         \/ \E h \in Handles, a \in Addrs : Readdress(f, h, a)
  PROVE  Others(f)
<1> USE DEF Others, Tables
<1>1. ASSUME Advance(f), \A g \in Files : g # f => update'[g] = update[g] PROVE Others(f)
  BY <1>1 DEF Advance, Gone
<1>2. CASE Open(f) \/ Close(f) \/ OpenDone(f) \/ CloseDone(f)
  BY <1>2 DEF Open, Close, OpenDone, CloseDone, Done
<1>3. CASE Uncounted(f)
  BY <1>3 DEF Uncounted
<1>4. CASE Recount(f)
  BY <1>4 DEF Recount, Increment, Begin
<1>5. CASE CleanupBoard(f)
  BY <1>1, <1>5 DEF CleanupBoard
<1>6. CASE CleanupDevice(f)
  BY <1>6 DEF CleanupDevice, Decrement, Begin, Gone
<1>7. CASE CleanupDone(f)
  BY <1>1, <1>7 DEF CleanupDone, Done
<1>8. CASE \E a \in Addrs, board \in BOOLEAN : OpenDev(f, a, board)
  BY <1>8 DEF OpenDev, Increment, Begin
<1>9. CASE \/ \E h \in Handles : CloseDev(f, h)
           \/ \E h \in Handles, a \in Addrs : Readdress(f, h, a)
  BY <1>9 DEF CloseDev, Readdress, Decrement, Begin
<1> QED
  BY <1>2, <1>3, <1>4, <1>5, <1>6, <1>7, <1>8, <1>9

LEMMA RegularBefore == Flags /\ [Next]_vars /\ Regular' => Regular
<1> SUFFICES ASSUME Flags, [Next]_vars PROVE Regular' => Regular
  OBVIOUS
<1> USE DEF Flags, Regular, history
<1>1. ASSUME NEW f \in Files,
             \/ Open(f) \/ Close(f) \/ CleanupBoard(f) \/ CleanupDevice(f) \/ CleanupDone(f)
             \/ OpenDone(f) \/ CloseDone(f) \/ Uncounted(f) \/ Recount(f)
      PROVE  Regular' => Regular
  BY <1>1 DEF Open, Close, CleanupBoard, CleanupDevice, CleanupDone, OpenDone, CloseDone,
              Uncounted, Recount, Increment, Decrement, Begin, Write
<1>2. ASSUME NEW f \in Files, NEW a \in Addrs, NEW board \in BOOLEAN, OpenDev(f, a, board)
      PROVE  Regular' => Regular
  BY <1>2 DEF OpenDev, Increment, Begin
<1>3. ASSUME NEW f \in Files, NEW h \in Handles, NEW a \in Addrs,
             CloseDev(f, h) \/ Readdress(f, h, a)
      PROVE  Regular' => Regular
  BY <1>3 DEF CloseDev, Readdress, Decrement, Begin
<1>4. CASE UNCHANGED vars
  BY <1>4 DEF vars
<1> QED
  BY <1>1, <1>2, <1>3, <1>4, AddrAssumption DEF Next

LEMMA InitCount == Init => CountInv
<1> SUFFICES ASSUME Init PROVE OneUpdate /\ Steady /\ Exact
  BY DEF CountInv
<1>1. OneUpdate /\ Steady
  BY HandlesType DEF Init, OneUpdate, Steady, PendingOk, HandlesOk
<1>2. ASSUME NEW a \in Addrs PROVE refs[a] = Cardinality(OpenOn(a)) + leaked[a]
  <2>1. OpenOn(a) = {}
    BY DEF Init, OpenOn, NoDescs
  <2> QED
    BY <2>1, FS_EmptySet DEF Init
<1> QED
  BY <1>1, <1>2 DEF Exact

LEMMA NextCount == TypeInv /\ CountInv /\ [Next]_vars => CountInv'
<1> SUFFICES ASSUME TypeInv, TypeInv', OneUpdate, Steady, Exact, Regular, Regular', [Next]_vars
             PROVE  OneUpdate' /\ Steady' /\ Exact'
  BY NextType, RegularBefore DEF CountInv, TypeInv
<1>1. CASE UNCHANGED vars
  <2>1. OneUpdate' /\ Steady'
    BY <1>1 DEF vars, OneUpdate, Steady, PendingOk, HandlesOk
  <2>2. Exact'
    BY <1>1 DEF vars, history, Exact, OpenOn, NotYet
  <2> QED
    BY <2>1, <2>2
<1>2. ASSUME NEW f \in Files,
             \/ Open(f) \/ Close(f) \/ CleanupBoard(f) \/ CleanupDevice(f) \/ CleanupDone(f)
             \/ \E a \in Addrs, board \in BOOLEAN : OpenDev(f, a, board)
             \/ \E h \in Handles : CloseDev(f, h)
             \/ \E h \in Handles, a \in Addrs : Readdress(f, h, a)
             \/ OpenDone(f) \/ CloseDone(f) \/ Uncounted(f) \/ Recount(f)
      PROVE  OneUpdate' /\ Steady' /\ Exact'
  <2>1. Both(f)
    BY <1>2, OthersKept DEF Both, TypeInv
  <2>2. CASE Open(f) \/ Close(f)
    BY <2>1, <2>2, OpenCounts, CloseCounts
  <2>3. CASE CleanupBoard(f) \/ CleanupDevice(f) \/ CleanupDone(f)
    BY <2>1, <2>3, CleanupBoardCounts, CleanupDeviceCounts, CleanupDoneCounts
  <2>4. CASE OpenDone(f) \/ CloseDone(f) \/ Uncounted(f) \/ Recount(f)
    BY <2>1, <2>4, OpenDoneCounts, CloseDoneCounts, UncountedCounts, RecountCounts
  <2>5. CASE \E a \in Addrs, board \in BOOLEAN : OpenDev(f, a, board)
    BY <2>1, <2>5, OpenDevCounts
  <2>6. ASSUME NEW h \in Handles, CloseDev(f, h) PROVE OneUpdate' /\ Steady' /\ Exact'
    <3>1. /\ f \in Live /\ update[f] = Idle /\ desc[f][h] # NoDesc
          /\ Decrement(f, "close", h, Addr0) /\ UNCHANGED <<refs, desc, opened, closing, leaked>>
      BY <2>6 DEF CloseDev, BigIsFree
    <3> QED
      BY <2>1, <3>1, AddrAssumption, DecrementCounts
  <2>7. ASSUME NEW h \in Handles, NEW a \in Addrs, Readdress(f, h, a)
        PROVE  OneUpdate' /\ Steady' /\ Exact'
    <3>1. /\ f \in Live /\ update[f] = Idle /\ desc[f][h] # NoDesc /\ ~desc[f][h].is_board
          /\ Decrement(f, "move", h, a) /\ UNCHANGED <<refs, desc, opened, closing, leaked>>
      BY <2>7 DEF Readdress, BigIsFree
    <3>2. h # 0
      BY <3>1 DEF Live, Steady, HandlesOk
    <3> QED
      BY <2>1, <3>1, <3>2, DecrementCounts
  <2> QED
    BY <1>2, <2>2, <2>3, <2>4, <2>5, <2>6, <2>7
<1> QED
  BY <1>1, <1>2 DEF Next

\* While no allocation fails, nobody closes a handle 0 and no ibclose runs into
\* another update, each address's reference count is the number of handles that
\* all files have open on it, and of the board handles that were leaked: no
\* entry goes while somebody uses it, and none outlives its last user.
THEOREM ReferencesCounted == Spec => []Counted
<1>1. CountInv => Counted
  BY DEF CountInv, Exact, Counted
<1> QED
  BY InitType, NextType, InitCount, NextCount, <1>1, PTL DEF Spec

\* Then the address of every device that a program has open is in the list: the
\* autospoll thread polls it, its status bytes have a queue, and no ibclose ends
\* with the "bug!" message of subtract_open_device_count.
Listed ==
  \A f \in Files, h \in Handles \ {0} :
    desc[f][h] # NoDesc /\ ~NotYet(f, h) => refs[desc[f][h].addr] > 0

THEOREM OpenDeviceIsListed == Spec => [](Regular => Listed)
<1>1. TypeInv /\ Counted => (Regular => Listed)
  <2> SUFFICES ASSUME Tables, Exact, NEW f \in Files, NEW h \in Handles \ {0},
                      desc[f][h] # NoDesc, ~NotYet(f, h)
               PROVE  refs[desc[f][h].addr] > 0
    BY DEF TypeInv, Counted, Exact, Listed
  <2>1. PICK a \in Addrs : a = desc[f][h].addr
    BY DescType
  <2>2. <<f, h>> \in OpenOn(a)
    BY <2>1 DEF OpenOn
  <2>3. Cardinality(OpenOn(a)) \in Nat \ {0}
    BY <2>2, OpenOnFinite, FS_EmptySet
  <2> QED
    BY <2>1, <2>3 DEF Exact, Tables
<1> QED
  BY InitType, NextType, ReferencesCounted, <1>1, PTL DEF Spec
=============================================================================
