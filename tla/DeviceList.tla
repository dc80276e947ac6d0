----------------------------- MODULE DeviceList -----------------------------
(***************************************************************************)
(* The descriptors of the open files of a board, and the board's list of   *)
(* opened addresses with their reference counts (board->device_list),      *)
(* which is what autospolling polls and where status bytes are queued.     *)
(*                                                                         *)
(* An entry of the list with reference count n is refs[a] = n; an address  *)
(* without an entry has refs[a] = 0.  The order of the list is abstracted. *)
(* A count is read in one step and written in a later one.  IBOPENDEV,     *)
(* IBCLOSEDEV, IBPAD and IBSAD do both under big_gpib_mutex; ibclose takes *)
(* no lock, and its loop over the handles runs among the steps of others.  *)
(***************************************************************************)
EXTENDS Integers, FiniteSets

CONSTANTS
  Files,        \* open file descriptions
  Addrs,        \* GPIB addresses (pad and sad together)
  Addr0,        \* the address in a file's handle 0: pad 0, no sad
  NHandles,     \* GPIB_MAX_NUM_DESCRIPTORS
  NoDesc,       \* a null pointer in the descriptors of a file
  Idle,         \* no update in flight
  MaxRefs       \* bound: no address is opened beyond this count

ASSUME AddrAssumption == Addr0 \in Addrs
ASSUME HandleAssumption == NHandles \in Nat \ {0}
ASSUME RefsAssumption == MaxRefs \in Nat
ASSUME FiniteAssumption == IsFiniteSet(Files)

Handles == 0 .. NHandles - 1
Descriptor == [addr : Addrs, is_board : BOOLEAN]

\* An update of an address's count for one handle: the count to be written, and
\* what the update is part of; "recount" has still to read the count.
Update == [op : {"open", "close", "move", "recount", "clean"},
           addr : Addrs, to : Addrs, handle : Handles, count : Nat]

ASSUME NullAssumption == NoDesc \notin Descriptor /\ Idle \notin Update

VARIABLES
  refs,         \* reference_count of the entry of each address
  desc,         \* file_priv->descriptors
  opened,       \* files that are open, those inside ibclose included
  closing,      \* the handle ibclose has reached; NHandles when it is not running
  update,       \* the update that each file is in the middle of
  alloc_failed, \* history: an entry could not be allocated
  zero_closed,  \* history: IBCLOSEDEV was applied to a handle 0
  raced,        \* history: two files used the list at the same time
  leaked        \* history: board handles that ended with their file, by address,
                \* counted while the other three are FALSE

history == <<alloc_failed, zero_closed, raced, leaked>>
vars == <<refs, desc, opened, closing, update, history>>

\* Every variable stays within its type; a closed file has no descriptors.
TypeOK ==
  /\ refs \in [Addrs -> Nat]
  /\ desc \in [Files -> [Handles -> Descriptor \cup {NoDesc}]]
  /\ opened \subseteq Files
  /\ closing \in [Files -> 0 .. NHandles]
  /\ update \in [Files -> Update \cup {Idle}]
  /\ alloc_failed \in BOOLEAN /\ zero_closed \in BOOLEAN /\ raced \in BOOLEAN
  /\ leaked \in [Addrs -> Nat]
  /\ \A f \in Files \ opened :
       /\ closing[f] = NHandles /\ update[f] = Idle
       /\ \A h \in Handles : desc[f][h] = NoDesc

NoDescs == [h \in Handles |-> NoDesc]

Init ==
  /\ refs = [a \in Addrs |-> 0]
  /\ desc = [f \in Files |-> NoDescs]
  /\ opened = {}
  /\ closing = [f \in Files |-> NHandles]
  /\ update = [f \in Files |-> Idle]
  /\ alloc_failed = FALSE /\ zero_closed = FALSE /\ raced = FALSE
  /\ leaked = [a \in Addrs |-> 0]

\* No allocation has failed, nobody has closed a handle 0, and no ibclose ran
\* into an ioctl or another ibclose: what the list promises, it promises then.
Regular == ~alloc_failed /\ ~zero_closed /\ ~raced

\* Files that can issue an ioctl; one of them at a time holds big_gpib_mutex.
Live == {f \in opened : closing[f] = NHandles}
BigIsFree == \A f \in Live : update[f] = Idle

-----------------------------------------------------------------------------
\* ibopen: handle 0 is the board's own descriptor, and is not counted.
Open(f) ==
  /\ f \notin opened
  /\ opened' = opened \cup {f}
  /\ desc' = [desc EXCEPT ![f][0] = [addr |-> Addr0, is_board |-> TRUE]]
  /\ UNCHANGED <<refs, closing, update, history>>

\* The list is searched and the count of an address read.
Begin(f, op, h, a, to, n) ==
  /\ update' = [update EXCEPT ![f] =
                  [op |-> op, addr |-> a, to |-> to, handle |-> h, count |-> n]]
  /\ raced' = (raced \/ \E g \in Files \ {f} : update[g] # Idle)

\* The count is written; at 0 the entry is freed.
Write(f) ==
  /\ refs' = [refs EXCEPT ![update[f].addr] = update[f].count]
  /\ raced' = (raced \/ \E g \in Files \ {f} : update[g] # Idle)

\* decrement_open_device_count begins; an address without an entry is a "bug!".
Decrement(f, op, h, to) ==
  LET a == desc[f][h].addr IN
  refs[a] > 0 /\ Begin(f, op, h, a, to, refs[a] - 1)

\* increment_open_device_count begins.  An address without an entry gets one,
\* or there is no memory for it.
Increment(f, h, a) ==
  \/ Begin(f, "open", h, a, a, refs[a] + 1) /\ UNCHANGED alloc_failed
  \/ /\ refs[a] = 0 /\ update' = [update EXCEPT ![f] = Idle]
     /\ alloc_failed' = TRUE /\ UNCHANGED raced

\* The handle that IBOPENDEV chooses: the first free one.
FirstFree(f, h) ==
  /\ h \in Handles /\ desc[f][h] = NoDesc
  /\ \A g \in 0 .. h - 1 : desc[f][g] # NoDesc

\* IBOPENDEV.  The descriptor is filled in before the address is counted, and
\* stays when counting fails.
OpenDev(f, a, board) ==
  \E h \in Handles :
    /\ f \in Live /\ BigIsFree /\ FirstFree(f, h)
    /\ refs[a] < MaxRefs
    /\ desc' = [desc EXCEPT ![f][h] = [addr |-> a, is_board |-> board]]
    /\ Increment(f, h, a)
    /\ UNCHANGED <<refs, opened, closing, zero_closed, leaked>>

\* IBCLOSEDEV, which uncounts the descriptor's address whatever it is.
CloseDev(f, h) ==
  /\ f \in Live /\ BigIsFree /\ desc[f][h] # NoDesc
  /\ Decrement(f, "close", h, Addr0)
  /\ UNCHANGED <<refs, desc, opened, closing, alloc_failed, zero_closed, leaked>>

\* IBPAD and IBSAD on a device: the old address is uncounted before the new
\* one is counted, which may fail.  On a board they leave the list alone.
Readdress(f, h, a) ==
  /\ f \in Live /\ BigIsFree /\ desc[f][h] # NoDesc /\ ~desc[f][h].is_board
  /\ refs[a] < MaxRefs
  /\ Decrement(f, "move", h, a)
  /\ UNCHANGED <<refs, desc, opened, closing, alloc_failed, zero_closed, leaked>>

In(f, op) == update[f] # Idle /\ update[f].op = op
Done(f) == update' = [update EXCEPT ![f] = Idle]

OpenDone(f) ==
  /\ In(f, "open") /\ Write(f) /\ Done(f)
  /\ UNCHANGED <<desc, opened, closing, alloc_failed, zero_closed, leaked>>

CloseDone(f) ==
  /\ In(f, "close") /\ Write(f) /\ Done(f)
  /\ desc' = [desc EXCEPT ![f][update[f].handle] = NoDesc]
  /\ zero_closed' = (zero_closed \/ update[f].handle = 0)
  /\ UNCHANGED <<opened, closing, alloc_failed, leaked>>

\* Mutant: the old address stays counted.
MutantUncounted(f) ==
  /\ In(f, "move")
  /\ desc' = [desc EXCEPT ![f][update[f].handle].addr = update[f].to]
  /\ update' = [update EXCEPT ![f].op = "recount", ![f].addr = update[f].to]
  /\ UNCHANGED <<refs, opened, closing, history>>

Uncounted(f) ==
  /\ In(f, "move") /\ Write(f)
  /\ desc' = [desc EXCEPT ![f][update[f].handle].addr = update[f].to]
  /\ update' = [update EXCEPT ![f].op = "recount", ![f].addr = update[f].to]
  /\ UNCHANGED <<opened, closing, alloc_failed, zero_closed, leaked>>

Recount(f) ==
  /\ In(f, "recount")
  /\ Increment(f, update[f].handle, update[f].to)
  /\ UNCHANGED <<refs, desc, opened, closing, zero_closed, leaked>>

-----------------------------------------------------------------------------
\* ibclose begins: cleanup_open_devices starts at handle 0.
Close(f) ==
  /\ f \in Live /\ update[f] = Idle
  /\ closing' = [closing EXCEPT ![f] = 0]
  /\ UNCHANGED <<refs, desc, opened, update, history>>

\* The file is gone, with the descriptors its cleanup has not reached.
Gone(f) ==
  /\ opened' = opened \ {f}
  /\ closing' = [closing EXCEPT ![f] = NHandles]
  /\ desc' = [desc EXCEPT ![f] = NoDescs]

Advance(f) ==
  IF closing[f] = NHandles - 1 THEN Gone(f)
  ELSE /\ closing' = [closing EXCEPT ![f] = @ + 1]
       /\ desc' = [desc EXCEPT ![f][closing[f]] = NoDesc]
       /\ UNCHANGED opened

Reached(f) == f \in opened /\ closing[f] < NHandles /\ update[f] = Idle

\* An empty handle, or a board's descriptor, which is freed without being
\* uncounted.
CleanupBoard(f) ==
  LET d == desc[f][closing[f]] IN
  /\ Reached(f) /\ (d # NoDesc => d.is_board) /\ Advance(f)
  /\ leaked' = IF d = NoDesc \/ closing[f] = 0 \/ ~Regular THEN leaked
               ELSE [leaked EXCEPT ![d.addr] = @ + 1]
  /\ UNCHANGED <<refs, update, alloc_failed, zero_closed, raced>>

\* Mutant: the count is not compared with 0 first.
MutantCleanupDevice(f) ==
  LET d == desc[f][closing[f]] IN
  /\ Reached(f) /\ d # NoDesc /\ ~d.is_board
  /\ Begin(f, "clean", closing[f], d.addr, d.addr, refs[d.addr] - 1)
  /\ UNCHANGED <<refs, desc, opened, closing, alloc_failed, zero_closed, leaked>>

\* A device's descriptor is uncounted; one whose address has no entry ends the
\* loop.
CleanupDevice(f) ==
  LET d == desc[f][closing[f]] IN
  /\ Reached(f) /\ d # NoDesc /\ ~d.is_board
  /\ \/ /\ Decrement(f, "clean", closing[f], Addr0)
        /\ UNCHANGED <<desc, opened, closing>>
     \/ refs[d.addr] = 0 /\ Gone(f) /\ UNCHANGED <<update, raced>>
  /\ UNCHANGED <<refs, alloc_failed, zero_closed, leaked>>

CleanupDone(f) ==
  /\ In(f, "clean") /\ Write(f) /\ Done(f) /\ Advance(f)
  /\ UNCHANGED <<alloc_failed, zero_closed, leaked>>

Next ==
  \E f \in Files :
    \/ Open(f) \/ Close(f) \/ CleanupBoard(f) \/ CleanupDevice(f) \/ CleanupDone(f)
    \/ \E a \in Addrs, board \in BOOLEAN : OpenDev(f, a, board)
    \/ \E h \in Handles : CloseDev(f, h)
    \/ \E h \in Handles, a \in Addrs : Readdress(f, h, a)
    \/ OpenDone(f) \/ CloseDone(f) \/ Uncounted(f) \/ Recount(f)

Spec == Init /\ [][Next]_vars

-----------------------------------------------------------------------------
\* The handle has its address, but its update has not counted it yet.
NotYet(f, h) ==
  update[f] # Idle /\ update[f].op \in {"open", "recount"} /\ update[f].handle = h

\* The handles, other than handle 0, that are open on an address.
OpenOn(a) ==
  {fh \in Files \X (Handles \ {0}) :
     LET d == desc[fh[1]][fh[2]] IN
     d # NoDesc /\ d.addr = a /\ ~NotYet(fh[1], fh[2])}

\* reference_count is the "number of times this address is opened": it counts
\* the handles open on the address by every file, in the middle of ibclose
\* too, and the board handles that ibclose has lost.  So no operation meets an
\* address that was never opened (the "bug!" messages of
\* subtract_open_device_count), an opened device stays in the list that
\* autospolling polls, whatever other files close, and its entry is freed, with
\* the status bytes queued in it, with the last handle only.
Counted == Regular => \A a \in Addrs : refs[a] = Cardinality(OpenOn(a)) + leaked[a]

=============================================================================
