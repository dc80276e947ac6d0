---------------------------- MODULE LibraryCalls ----------------------------
(***************************************************************************)
(* Threads of one program that make calls of the user library, interleaved *)
(* step by step with each other and with the kernel, whose autopoll        *)
(* addresses devices whenever nobody has locked the board.                 *)
(*                                                                         *)
(* Each thread has a descriptor of its own.  What may fail does: every     *)
(* ioctl, allocation and test of arguments.  A failed assert ends the      *)
(* program, and the kernel takes everything back.                          *)
(*                                                                         *)
(* A bound: what threads do once insert_descriptor has put the descriptor  *)
(* of one in the place of another's is left out, and the program starts    *)
(* again.                                                                  *)
(***************************************************************************)
EXTENDS LibraryPrograms, FiniteSets

CONSTANTS
  DeviceThreads,  \* threads with a device descriptor: of the device of the same name
  BoardThreads,   \* threads with a board descriptor
  Others,         \* the devices that they address
  Boards, Home,   \* boards, and the one that the descriptors are of
  Messages,       \* what is written, each a sequence of "x" and "eos"
  Places,         \* of device descriptors in ibConfigs
  Calls,          \* the calls that each thread makes,
  Partners,       \* those of them that may be made while another one is,
  Openers,        \* and those that open and close descriptors
  Aborting,       \* calls known to end in a failed assert,
  Deafening,      \* to succeed though their command has not reached the device,
  Silent,         \* pairs of a call and an error that it is known to hide,
  Losing          \* and, with the thread, calls known to lose the descriptor or its handle

ASSUME LibraryAssumption ==
  DeviceThreads \cap BoardThreads = {} /\ Home \in Boards /\ Places \subseteq Nat \ {0}

VARIABLES
  call,     \* of each thread: what it calls, for which device or board, what it writes,
            \* and whether its descriptor was sound
  at,       \* the step; 0 when it has to leave with an error, -1 when it has left with one
  met,      \* the errors the call has met
  missed,   \* what it has said and the device has not heard
  built,    \* the setup has been made
  result,   \* "ERR" or "ok"
  desc,     \* of each thread's descriptor: in ibConfigs, board_is_open, handle, has_lock, board
  ud,       \* the place it has found in ibConfigs
  clashes,  \* threads whose descriptor another one's has replaced there
  handles,  \* the boards on which the kernel has a handle of the descriptor
  lock,     \* user_mutex of each board
  bus,      \* who is addressed: to "talk" or to "listen"
  asserts   \* asserts that fail

vars == <<call, at, met, missed, built, result, desc, ud, clashes, handles, lock, bus, asserts>>

Threads == DeviceThreads \cup BoardThreads
Nobody == "nobody"
Unaddressed == [as |-> "none", device |-> Nobody]
NoCall == [name |-> "none", to |-> Nobody, board |-> Home, rest |-> <<>>, sound |-> TRUE]

IsDevice(t) == t \in DeviceThreads
Tables(t) == IF ~IsDevice(t) THEN BoardCalls
             ELSE IF call[t].name \in DOMAIN OpeningCalls THEN OpeningCalls ELSE DeviceCalls
Program(t) == Tables(t)[call[t].name]
Idle(t) == call[t] = NoCall
Running(t) == ~Idle(t) /\ at[t] \in 1..Len(Program(t))
Now(t) == Program(t)[at[t]]
Failing(t) == ~Idle(t) /\ at[t] = 0
Over(t) == ~Idle(t) /\ (at[t] = -1 \/ at[t] > Len(Program(t)))
\* A step that touches nothing others can see is taken at once: it commutes with
\* theirs.
Shared == {"lock", "command", "empty command", "overrun", "read", "send", "poll", "clear",
           "find", "insert", "release", "exit", "exit with error", "unlock"}
Private(t) == Over(t) \/ (Running(t) /\ Now(t).op \notin Shared)
Turn(t) == asserts = {} /\ clashes = {} /\ \A u \in Threads \ {t} : ~Private(u)

\* A device descriptor is in ibConfigs after ibdev; board descriptors always.
Closed(t) == [there |-> ~IsDevice(t), open |-> FALSE, handle |-> ~IsDevice(t), lock |-> FALSE, board |-> Home]
\* The descriptor can be used, or is gone with its handle.
Sound(t) ==
  /\ desc[t].open => desc[t].handle
  /\ IsDevice(t) => handles[t] = IF desc[t].there /\ desc[t].handle THEN {desc[t].board} ELSE {}

Init ==
  /\ call = [t \in Threads |-> NoCall]
  /\ at = [t \in Threads |-> 0]
  /\ met = [t \in Threads |-> {}]
  /\ missed = [t \in Threads |-> {}]
  /\ built = [t \in Threads |-> FALSE]
  /\ result = [t \in Threads |-> "ok"]
  /\ desc = [t \in Threads |-> Closed(t)]
  /\ ud = [t \in Threads |-> 0]
  /\ clashes = {}
  /\ handles = [t \in Threads |-> {}]
  /\ lock = [b \in Boards |-> Nobody]
  /\ bus = [b \in Boards |-> Unaddressed]
  /\ asserts = {}

\* One of the calls with the same program stands for all of them.
Distinct(t, table) ==
  LET calls == Calls[t] \cap DOMAIN table
  IN  {n \in calls : n = CHOOSE m \in calls : table[m] = table[n]}

\* Bounds: two calls overlap, with sound descriptors, one of which is of Partners,
\* or both of which are of Openers and of device threads.  A thread that makes no
\* others makes them while nobody is addressed, and they alone are made while it
\* makes one or has a descriptor.
Overlaps(t, n) ==
  LET busy == {u \in Threads : ~Idle(u)}
      two == {call[u].name : u \in busy} \cup {n}
  IN  \/ busy = {}
      \/ /\ Cardinality(busy) = 1 /\ \A u \in busy : call[u].sound /\ Sound(t)
         /\ \/ two \cap Partners # {}
            \/ two \subseteq Openers /\ busy \cup {t} \subseteq DeviceThreads
JustOpens(t) == Calls[t] \subseteq Openers
Bounded(t, n) ==
  /\ Overlaps(t, n)
  /\ JustOpens(t) => \A b \in Boards : bus[b] = Unaddressed
  /\ n \in Openers \/ \A u \in DeviceThreads :
       JustOpens(u) => Idle(u) /\ ~desc[u].there /\ handles[u] = {}

Begins(t) ==
  /\ Idle(t) /\ Turn(t)
  /\ \E n \in IF ~IsDevice(t) THEN Distinct(t, BoardCalls)
              ELSE IF desc[t].there THEN Distinct(t, DeviceCalls)
              ELSE Calls[t] \cap (DOMAIN OpeningCalls \cup {"ibeos"}) :
     \E d \in IF IsDevice(t) THEN {t} ELSE Others, b \in Boards, m \in Messages :
       /\ b # Home => n \in Movers
       /\ Bounded(t, n)
       /\ call' = [call EXCEPT ![t] =
                     [name |-> n, to |-> d, board |-> b, rest |-> m, sound |-> Sound(t)]]
  /\ at' = [at EXCEPT ![t] = 1]
  /\ UNCHANGED <<met, missed, built, result, desc, ud, clashes, handles, lock, bus, asserts>>

-----------------------------------------------------------------------------
(* Steps *)

\* After a message the device talks or listens.
Addressed(t, s) ==
  LET b == bus[desc[t].board] IN
    CASE s.addr = "talk" -> [as |-> "talk", device |-> call[t].to]
      [] s.addr = "listen" /\ built[t] -> [as |-> "listen", device |-> call[t].to]
      [] s.addr = "none" -> Unaddressed
      [] s.addr = "board" /\ b.as = "talk" -> Unaddressed
      [] OTHER -> b
Universal == {"DCL", "LLO", "PPU", "CFG"}
Hears(t, s) ==
  \/ s.says \in Universal \cup {""}
  \/ s.op = "command"
     /\ Addressed(t, s) = [as |-> IF s.says = "TCT" THEN "talk" ELSE "listen", device |-> call[t].to]

\* A message ends before the byte that is looked for.
Eos(m) == {i \in DOMAIN m : m[i] = "eos"}
Block(m) == IF Eos(m) = {} THEN m ELSE SubSeq(m, 1, (CHOOSE i \in Eos(m) : \A j \in Eos(m) : i <= j) - 1)
Rest(m) == SubSeq(m, Len(Block(m)) + 1, Len(m))

Addressings == {Unaddressed} \cup [as : {"talk", "listen"}, device : DeviceThreads \cup Others]

Handle == {"command", "empty command", "overrun", "read", "send"}
Refused(t, s) ==
  \/ s.op = "never"
  \/ s.op = "check" /\ ~desc[t].there
  \/ s.op \in Handle /\ ~desc[t].handle
\* What has nothing to do cannot fail.
Void(t, s) ==
  \/ s.op = "online" /\ desc[t].open
  \/ s.op = "reopen" /\ desc[t].handle
  \/ s.op = "close" /\ ~desc[t].handle
\* A mistake: the lock of a thread keeps only other programs from the board.
MutantBlocked(t, s) ==
  s.op = "lock" /\ lock[desc[t].board] \notin Threads \cup {Nobody} /\ ~desc[t].lock
Blocked(t, s) == s.op = "lock" /\ lock[desc[t].board] # Nobody /\ ~desc[t].lock

\* conf_unlock_board asserts that the kernel unlocks the board.
Unlocks(t) ==
  LET b == desc[t].board IN
    IF lock[b] = t THEN lock' = [lock EXCEPT ![b] = Nobody] /\ UNCHANGED asserts
                   ELSE asserts' = asserts \cup {call[t].name} /\ UNCHANGED lock
\* A mistake: has_lock stays set.
MutantLeaves(t, r) ==
  /\ result' = [result EXCEPT ![t] = r]
  /\ IF desc[t].there /\ desc[t].lock THEN Unlocks(t) ELSE UNCHANGED <<lock, asserts>>
  /\ UNCHANGED <<met, missed, built, desc, handles, bus>>
Leaves(t, r) ==
  /\ result' = [result EXCEPT ![t] = r]
  /\ IF desc[t].there /\ desc[t].lock
       THEN Unlocks(t) /\ desc' = [desc EXCEPT ![t].lock = FALSE]
       ELSE UNCHANGED <<lock, desc, asserts>>
  /\ UNCHANGED <<met, missed, built, handles, bus>>

Locks(t) ==
  /\ IF desc[t].lock
       THEN asserts' = asserts \cup {call[t].name} /\ UNCHANGED <<lock, desc>>
       ELSE /\ lock' = [lock EXCEPT ![desc[t].board] = t]
            /\ desc' = [desc EXCEPT ![t].lock = TRUE]
            /\ UNCHANGED asserts
  /\ UNCHANGED <<met, missed, built, result, handles, bus>>

\* The descriptor is opened: unless it has one, it gets a handle.
Opens(t) ==
  /\ desc' = [desc EXCEPT ![t].open = TRUE, ![t].handle = @ \/ ~desc[t].open]
  /\ handles' = IF desc[t].open \/ desc[t].handle THEN handles
                ELSE [handles EXCEPT ![t] = @ \cup {desc[t].board}]
  /\ UNCHANGED <<met, missed, built, result, lock, bus, asserts>>
Reopens(t) ==
  /\ desc' = [desc EXCEPT ![t].handle = TRUE]
  /\ handles' = [handles EXCEPT ![t] = @ \cup {desc[t].board}]
  /\ UNCHANGED <<met, missed, built, result, lock, bus, asserts>>
\* A mistake: the library forgets its handle without IBCLOSEDEV.
MutantCloses(t) ==
  /\ desc' = [desc EXCEPT ![t].handle = FALSE]
  /\ UNCHANGED <<met, missed, built, result, handles, lock, bus, asserts>>
Closes(t) ==
  /\ desc' = [desc EXCEPT ![t].handle = FALSE]
  /\ handles' = IF desc[t].handle THEN [handles EXCEPT ![t] = @ \ {desc[t].board}] ELSE handles
  /\ UNCHANGED <<met, missed, built, result, lock, bus, asserts>>
Moves(t, b) ==
  /\ desc' = [desc EXCEPT ![t].board = b]
  /\ UNCHANGED <<met, missed, built, result, handles, lock, bus, asserts>>
\* insert_descriptor looks for the first place that is free, and takes it
\* afterwards, whether it still is free or not.
Free(i) == \A u \in DeviceThreads : desc[u].there => ud[u] # i
Finds(t) ==
  \E i \in Places :
    /\ Free(i) /\ \A j \in Places : Free(j) => i <= j
    /\ ud' = [ud EXCEPT ![t] = i]
Replaced(t) == {u \in DeviceThreads \ {t} : desc[u].there /\ ud[u] = ud[t]}
Fills(t, s) ==
  /\ IF s.op = "find" THEN Finds(t) ELSE UNCHANGED ud
  /\ clashes' = IF s.op = "insert" THEN clashes \cup Replaced(t) ELSE clashes
\* Boards stay in ibConfigs.
Inserts(t) ==
  /\ desc' = [desc EXCEPT ![t] = [Closed(t) EXCEPT !.there = TRUE]]
  /\ UNCHANGED <<met, missed, built, result, handles, lock, bus, asserts>>
Releases(t) ==
  /\ desc' = IF IsDevice(t) THEN [desc EXCEPT ![t] = Closed(t)] ELSE desc
  /\ UNCHANGED <<met, missed, built, result, handles, lock, bus, asserts>>

Sends(t, s) ==
  /\ bus' = [bus EXCEPT ![desc[t].board] = Addressed(t, s)]
  /\ missed' = IF Hears(t, s) THEN missed ELSE [missed EXCEPT ![t] = @ \cup {s.says}]
  /\ UNCHANGED <<met, built, result, desc, handles, lock, asserts>>
\* Commands that nobody has chosen address anybody.
Overruns(t, s) ==
  /\ \E b \in Addressings : bus' = [bus EXCEPT ![desc[t].board] = b]
  /\ missed' = [missed EXCEPT ![t] = @ \cup {s.says}]
  /\ UNCHANGED <<met, built, result, desc, handles, lock, asserts>>
Builds(t) ==
  /\ built' = [built EXCEPT ![t] = TRUE]
  /\ UNCHANGED <<met, missed, result, desc, handles, lock, bus, asserts>>
\* A serial poll and IFC leave nobody addressed.
Clears(t) ==
  /\ bus' = [bus EXCEPT ![desc[t].board] = Unaddressed]
  /\ UNCHANGED <<met, missed, built, result, desc, handles, lock, asserts>>
\* It returns without leaving the library.
GivesUp(t) ==
  /\ result' = [result EXCEPT ![t] = "ERR"]
  /\ UNCHANGED <<met, missed, built, desc, handles, lock, bus, asserts>>
Nothing == UNCHANGED <<met, missed, built, result, desc, handles, lock, bus, asserts>>

Effect(t, s) ==
  CASE s.op = "lock" -> Locks(t)
    [] s.op = "online" -> Opens(t)
    [] s.op = "reopen" -> Reopens(t)
    [] s.op = "close" -> Closes(t)
    [] s.op = "move" -> Moves(t, call[t].board)
    [] s.op = "insert" -> Inserts(t)
    [] s.op = "release" -> Releases(t)
    [] s.op \in {"command", "empty command"} -> Sends(t, s)
    [] s.op = "overrun" -> Overruns(t, s)
    [] s.op = "build" -> Builds(t)
    [] s.op \in {"poll", "clear"} -> Clears(t)
    [] s.op = "exit" -> Leaves(t, "ok")
    [] s.op = "exit with error" -> Leaves(t, "ERR")
    [] s.op = "return error" -> GivesUp(t)
    [] s.op = "unlock" -> Leaves(t, result[t])
    [] OTHER -> Nothing

\* my_ibwrt sends blocks as long as there are bytes left.
SendsBlock(t) ==
  /\ Running(t) /\ Now(t).op = "send" /\ ~Refused(t, Now(t)) /\ Turn(t)
  /\ call' = [call EXCEPT ![t].rest = Rest(@)]
  /\ at' = IF Rest(call[t].rest) = <<>> THEN [at EXCEPT ![t] = @ + 1] ELSE at
  /\ Nothing /\ UNCHANGED <<ud, clashes>>

Steps(t) ==
  /\ Running(t) /\ Turn(t)
  /\ LET s == Now(t) IN
       /\ s.op # "send" /\ ~Refused(t, s) /\ ~Blocked(t, s)
       /\ s.op = "jump" => s.may
       /\ Effect(t, s) /\ Fills(t, s)
       /\ at' = [at EXCEPT ![t] = IF s.op = "return error" THEN -1 ELSE @ + 1]
  /\ UNCHANGED call

\* A mistake: a result that should end the call is not looked at.
MutantTarget(t, s) == at[t] + (IF s.skip = 0 THEN 1 ELSE s.skip)
Target(t, s) == IF s.skip = 0 THEN 0 ELSE at[t] + s.skip
Jumps(t) ==
  /\ Running(t) /\ Now(t).op = "jump" /\ Turn(t)
  /\ at' = [at EXCEPT ![t] = Target(t, Now(t))]
  /\ UNCHANGED <<call, met, missed, built, result, desc, ud, clashes, handles, lock, bus, asserts>>

\* A message that fails may have been sent or not, or in part.
Fails(t) ==
  /\ Running(t) /\ Turn(t)
  /\ LET s == Now(t) IN
       /\ s.op # "jump" /\ ((s.may /\ ~Void(t, s)) \/ Refused(t, s))
       /\ at' = [at EXCEPT ![t] = Target(t, s)]
       /\ met' = [met EXCEPT ![t] = @ \cup {s.name}]
       /\ built' = IF s.op = "build" THEN [built EXCEPT ![t] = FALSE] ELSE built
       /\ \E b \in CASE s.op = "command" -> {bus[desc[t].board], Addressed(t, s), Unaddressed}
                     [] s.op = "overrun" -> Addressings
                     [] OTHER -> {bus[desc[t].board]} : bus' = [bus EXCEPT ![desc[t].board] = b]
       /\ result' = IF s.op \in {"exit", "status"} THEN [result EXCEPT ![t] = "ERR"] ELSE result
       /\ IF s.op = "exit" /\ desc[t].there /\ desc[t].lock
            THEN Unlocks(t) /\ desc' = [desc EXCEPT ![t].lock = FALSE]
            ELSE UNCHANGED <<lock, desc, asserts>>
  /\ UNCHANGED <<call, missed, ud, clashes, handles>>

\* A mistake: a call that has failed leaves with the board locked.
MutantExitsWithError(t) ==
  /\ Failing(t) /\ Turn(t)
  /\ result' = [result EXCEPT ![t] = "ERR"]
  /\ at' = [at EXCEPT ![t] = -1]
  /\ UNCHANGED <<call, met, missed, built, desc, ud, clashes, handles, lock, bus, asserts>>
\* exit_library(ud, 1)
ExitsWithError(t) ==
  /\ Failing(t) /\ Turn(t)
  /\ Leaves(t, "ERR")
  /\ at' = [at EXCEPT ![t] = -1]
  /\ UNCHANGED <<call, ud, clashes>>

\* Whoever gets no descriptor from ibdev or ibfind has none.
Returns(t) ==
  /\ Over(t) /\ Turn(t)
  /\ desc' = IF call[t].name \in DOMAIN OpeningCalls /\ at[t] = -1
               THEN [desc EXCEPT ![t] = Closed(t)] ELSE desc
  /\ call' = [call EXCEPT ![t] = NoCall]
  /\ at' = [at EXCEPT ![t] = 0]
  /\ met' = [met EXCEPT ![t] = {}]
  /\ missed' = [missed EXCEPT ![t] = {}]
  /\ built' = [built EXCEPT ![t] = FALSE]
  /\ result' = [result EXCEPT ![t] = "ok"]
  /\ ud' = IF desc'[t].there THEN ud ELSE [ud EXCEPT ![t] = 0]
  /\ UNCHANGED <<clashes, handles, lock, bus, asserts>>

-----------------------------------------------------------------------------

\* autopoll_all_devices takes the lock.
Autopolls(b) ==
  /\ lock[b] = Nobody /\ bus[b] # Unaddressed /\ \A t \in Threads : ~Private(t)
  /\ bus' = [bus EXCEPT ![b] = Unaddressed]
  /\ UNCHANGED <<call, at, met, missed, built, result, desc, ud, clashes, handles, lock, asserts>>

\* The program has died of a failed assert; another one starts.
Restarts ==
  /\ asserts \cup clashes # {}
  /\ call' = [t \in Threads |-> NoCall]
  /\ at' = [t \in Threads |-> 0]
  /\ met' = [t \in Threads |-> {}]
  /\ missed' = [t \in Threads |-> {}]
  /\ built' = [t \in Threads |-> FALSE]
  /\ result' = [t \in Threads |-> "ok"]
  /\ desc' = [t \in Threads |-> Closed(t)]
  /\ ud' = [t \in Threads |-> 0]
  /\ clashes' = {}
  /\ handles' = [t \in Threads |-> {}]
  /\ lock' = [b \in Boards |-> Nobody]
  /\ asserts' = {}
  /\ UNCHANGED bus

Next ==
  \/ \E t \in Threads :
       Begins(t) \/ Steps(t) \/ SendsBlock(t) \/ Jumps(t) \/ Fails(t) \/ ExitsWithError(t) \/ Returns(t)
  \/ \E b \in Boards : Autopolls(b)
  \/ Restarts

Spec == Init /\ [][Next]_vars

-----------------------------------------------------------------------------
(* Properties *)

\* Each variable has its type, and has_lock says who has locked the board,
\* but for a descriptor that has moved to another board.
TypeOK ==
  /\ \A t \in Threads :
       /\ at[t] \in -1..60 /\ result[t] \in {"ok", "ERR"} /\ built[t] \in BOOLEAN
       /\ desc[t].lock /\ lock[desc[t].board] # t => call[t].name \in Aborting
  /\ ud \in [Threads -> Places \cup {0}] /\ clashes \subseteq DeviceThreads
  /\ lock \in [Boards -> Threads \cup {Nobody}]
  /\ \A b \in Boards : lock[b] # Nobody /\ asserts = {} => desc[lock[b]].lock
  /\ bus \in [Boards -> [as : {"none", "talk", "listen"}, device : DeviceThreads \cup Others \cup {Nobody}]]

\* Data goes to, or comes from, the device that the call is for: no other
\* call and no autopoll addresses another one in between.  When the board's
\* own address could not be queried, nobody has been addressed.
RightPartner ==
  \A t \in Threads :
    Running(t) /\ Now(t).op \in {"read", "send"} /\ Now(t).addr # "any" =>
      \/ bus[desc[t].board] = [as |-> Now(t).addr, device |-> call[t].to]
      \/ "query" \in met[t]

\* A call that is over has unlocked the boards, whichever way it has left, and
\* none fails an assert by locking one twice or unlocking one it has not locked.
LockReturned ==
  /\ asserts \subseteq Aborting
  /\ \A t \in Threads : Over(t) /\ asserts = {} => \A b \in Boards : lock[b] # t

\* When a call succeeds its commands have reached the device, and it has met no
\* error that it keeps from the caller.
ErrorReported ==
  \A t \in Threads :
    Over(t) /\ result[t] = "ok" =>
      /\ missed[t] = {} \/ "query" \in met[t] \/ call[t].name \in Deafening
      /\ \A e \in met[t] : <<call[t].name, e>> \in Silent

\* A call leaves a descriptor that can be used, or none; and the kernel has a
\* handle for a descriptor only as long as it is there: unless insert_descriptor,
\* which takes a place some time after it has looked whether it is free, has put
\* one descriptor in the place of another.
NothingLost ==
  \A t \in Threads :
    Over(t) /\ call[t].sound /\ asserts = {} /\ clashes = {} =>
      \/ <<t, call[t].name>> \in Losing
      \/ Sound(t) /\ (call[t].name \in DOMAIN OpeningCalls /\ at[t] = -1 => ~desc[t].there)
=============================================================================
