------------------------------ MODULE Control ------------------------------
(***************************************************************************)
(* The board as controller: commands, parallel polls, taking control and   *)
(* going to standby (iblib.c), on the nec7210 and on the tms9914 chip      *)
(* library, with the watchdog timer, and the byte that a write sends in    *)
(* between.  Module Transfer has the transfers of data in full.            *)
(*                                                                         *)
(* One task at a time makes the ioctls (module BoardLocks); beside it go   *)
(* the interrupt handler, the timer, signals, the listeners, and another   *)
(* controller that sends IFC.  A byte that the chip has not sent when ATN  *)
(* changes is kept or dropped; so is one that nobody listens to.           *)
(***************************************************************************)
EXTENDS Integers, FiniteSets, FiniteSetsExt

CONSTANTS
  Length,       \* requested_transfer_count of a command
  BufferLength  \* board->buffer_length

ASSUME ControlAssumption == Length \in Nat \ {0} /\ BufferLength \in Nat \ {0}

VARIABLES
  chip,         \* "nec7210" or "tms9914"
  pc, op,       \* where the ioctl is, and which one it is
  completed,    \* completed_transfer_count
  written,      \* bytes_written
  ret,          \* the return value under way
  raced,        \* history: the parallel poll began before the handler had seen the chip ready
  master,       \* board->master
  status,       \* of board->status
  state,        \* of priv->state
  pending,      \* timer_pending(&board->timer)
  firing,       \* watchdog_timeout has not set TIMO yet
  fired,        \* history: a timer has expired, or its callback run, since the ioctl began
  stray,        \* history: a parallel poll has left the timer running
  ints, seen,   \* bits of the interrupt status registers; those the handler has read
  cic, atn,     \* the chip is in charge; it asserts ATN
  talker,       \* the board is addressed to talk
  out,          \* the byte in CDOR
  rdy,          \* the chip has raised DO, CO or BO since it can take a byte
  poll,         \* of the parallel poll: "none", "running" or "done"
  accepted,     \* bytes of the ioctl that were accepted as what they are
  bad,          \* history: out of order or as what they are not
  lost,         \* history: a byte was written over another one of the ioctl
  erred         \* history: a byte of the ioctl went to nobody

user == <<pc, op, completed, written, ret, raced>>
board == <<chip, master, status, state>>
timer == <<pending, firing, fired, stray>>
regs == <<ints, seen, cic, atn, talker, out, rdy, poll>>
bus == <<accepted, bad, lost, erred>>
vars == <<user, board, timer, regs, bus>>

Nec == chip = "nec7210"
NoByte == [i |-> 0, cmd |-> FALSE]
NoOp == [name |-> "none", talk |-> FALSE]
Ops == [name : {"IBCMD"}, talk : BOOLEAN] \cup [name : {"IBCAC", "IBGTS", "IBRPP", "IBWRT"}, talk : {FALSE}]

Init ==
  /\ chip \in {"nec7210", "tms9914"} /\ master = TRUE
  /\ pc = "idle" /\ op = NoOp /\ completed = 0 /\ written = 0 /\ ret = "ok" /\ raced = FALSE
  /\ status = {} /\ state = {}
  /\ pending = FALSE /\ firing = FALSE /\ fired = FALSE /\ stray = FALSE
  /\ ints = {} /\ seen = {} /\ cic = FALSE /\ atn = FALSE /\ talker = FALSE
  /\ out = NoByte /\ rdy = FALSE /\ poll = "none"
  /\ accepted = 0 /\ bad = FALSE /\ lost = FALSE /\ erred = FALSE

-----------------------------------------------------------------------------
(* The timer *)

\* A mistake: TIMO is left from an earlier timer.
MutantStartTimer ==
  /\ pending' = TRUE /\ UNCHANGED <<firing, fired, stray>>
  /\ UNCHANGED status
\* os_start_timer: one that is still pending goes on.
StartTimer ==
  /\ pending' = TRUE /\ UNCHANGED <<firing, fired, stray>>
  /\ status' = IF pending THEN status ELSE status \ {"TIMO"}

\* os_remove_timer waits for the callback only if the timer is pending.
RemoveTimer == (pending => ~firing) /\ pending' = FALSE /\ UNCHANGED <<firing, fired, stray>>

Expire ==
  /\ pending /\ ~firing
  /\ pending' = FALSE /\ firing' = TRUE /\ fired' = TRUE
  /\ UNCHANGED <<user, board, stray, regs, bus>>
WatchdogTimeout ==
  /\ firing /\ firing' = FALSE
  /\ status' = status \cup {"TIMO"}
  /\ UNCHANGED <<user, chip, master, state, pending, fired, stray, regs, bus>>

-----------------------------------------------------------------------------
(* The chip's status and its interrupt handler, which holds board->spinlock *)

Unlocked == seen = {}

\* CIC after update_status: the tms9914 does not tell whether it is in charge.
InCharge == IF Nec THEN cic ELSE "CIC" \in status

ReadsIsr ==
  /\ seen = {} /\ ints # {}
  /\ seen' = ints /\ ints' = {}
  /\ UNCHANGED <<user, board, timer, cic, atn, talker, out, rdy, poll, bus>>

\* The tms9914's handler asks for ATN afterwards.
ReadyBits(s) ==
  (IF "CO" \in s \/ ("BO" \in s /\ atn) THEN {"COMMAND_READY"} ELSE {})
    \cup (IF "DO" \in s \/ ("BO" \in s /\ ~atn) THEN {"WRITE_READY"} ELSE {})

Handles ==
  /\ seen # {} /\ seen' = {}
  /\ state' = state \cup ReadyBits(seen) \cup (IF "ERR" \in seen THEN {"BUS_ERROR"} ELSE {})
  /\ status' = IF "IFC" \in seen THEN status \ {"CIC"} ELSE status
  /\ UNCHANGED <<user, chip, master, timer, ints, cic, atn, talker, out, rdy, poll, bus>>

-----------------------------------------------------------------------------
(* The chip and the bus *)

Controls == cic /\ atn
Talks == ~atn /\ talker
Ready ==
  /\ (Controls \/ Talks) /\ out = NoByte /\ ~rdy /\ poll # "running"
  /\ rdy' = TRUE
  /\ ints' = ints \cup {IF ~Nec THEN "BO" ELSE IF atn THEN "CO" ELSE "DO"}
  /\ UNCHANGED <<user, board, timer, seen, cic, atn, talker, out, poll, bus>>

Accepts ==
  /\ (Controls \/ Talks) /\ out # NoByte
  /\ out' = NoByte /\ rdy' = FALSE
  /\ LET good == out.cmd = atn /\ out.i = accepted + 1 IN
       /\ accepted' = IF good THEN out.i ELSE accepted
       /\ bad' = (bad \/ ~good)
  \* On the nec7210 the chip sees by itself who is addressed.
  /\ talker' = IF Nec /\ atn /\ out.i = Length /\ op.name = "IBCMD" THEN op.talk ELSE talker
  /\ UNCHANGED <<user, board, timer, ints, seen, cic, atn, poll, lost, erred>>

NobodyListens ==
  /\ (Controls \/ Talks) /\ out # NoByte /\ ~erred
  /\ ints' = ints \cup {"ERR"}
  /\ out' \in {out, NoByte} /\ rdy' = FALSE
  /\ erred' = TRUE
  /\ UNCHANGED <<user, board, timer, seen, cic, atn, talker, poll, accepted, bad, lost>>

\* A new state of ATN: what was ready for the old one no longer is.
AtnBecomes(a) ==
  /\ atn' = a
  /\ IF a = atn THEN UNCHANGED <<out, rdy, ints>>
     ELSE out' \in {out, NoByte} /\ rdy' = FALSE /\ ints' = ints \ {"CO", "DO", "BO"}

\* Another controller takes over.
Ifc ==
  /\ cic /\ pc # "idle"
  /\ cic' = FALSE /\ atn' = FALSE /\ talker' = FALSE
  /\ out' = NoByte /\ rdy' = FALSE
  /\ ints' = (ints \ {"CO", "DO", "BO"}) \cup IF Nec THEN {} ELSE {"IFC"}
  /\ UNCHANGED <<user, board, timer, seen, poll, bus>>

PollEnds ==
  /\ poll = "running" /\ Controls
  /\ poll' = "done" /\ rdy' = FALSE
  /\ UNCHANGED <<user, board, timer, ints, seen, cic, atn, talker, out, bus>>

-----------------------------------------------------------------------------
(* The ioctls.  Each names the variables it leaves alone by group. *)

Goto(from, to) == pc = from /\ pc' = to
KeepOp == UNCHANGED <<op, completed, written, ret, raced>>
Finish(r) == pc' = "end" /\ ret' = r

Begin ==
  /\ pc = "idle" /\ op' \in Ops
  /\ pc' = CASE op'.name = "IBCMD" -> "cmd"
             [] op'.name = "IBRPP" -> "rpp"
             [] op'.name = "IBCAC" -> "cac"
             [] op'.name = "IBGTS" -> "gts"
             [] op'.name = "IBWRT" -> IF master THEN "gts" ELSE "w_begin"
  /\ completed' = 0 /\ written' = 0 /\ ret' = "ok" /\ raced' = FALSE
  /\ accepted' = 0 /\ bad' = FALSE /\ lost' = FALSE /\ erred' = FALSE
  /\ fired' = firing
  /\ UNCHANGED <<board, pending, firing, stray, regs>>

\* ibsic: the chip takes control.
InterfaceClear ==
  /\ pc = "idle" /\ master /\ Unlocked
  /\ cic' = TRUE /\ talker' = FALSE /\ AtnBecomes(TRUE)
  /\ status' = IF Nec THEN status ELSE status \cup {"CIC"}
  /\ UNCHANGED <<user, chip, master, state, timer, seen, poll, bus>>

Released == IF Nec THEN status ELSE status \ {"CIC"}

\* ibrsc(board, 0): the nec7210 stays in charge.
ReleaseSystemControl ==
  /\ pc = "idle" /\ master
  /\ master' = FALSE /\ status' = Released
  /\ IF Nec THEN UNCHANGED <<cic, atn, out, rdy, ints>> ELSE cic' = FALSE /\ AtnBecomes(FALSE)
  /\ UNCHANGED <<user, chip, state, timer, seen, talker, poll, bus>>
RequestSystemControl ==
  /\ pc = "idle" /\ ~master /\ master' = TRUE
  /\ UNCHANGED <<user, chip, status, state, timer, regs, bus>>

-----------------------------------------------------------------------------
(* ibcac *)

\* Where the caller of ibcac goes on.
CacReturns(r) ==
  LET caller == op.name IN
    /\ ret' = r
    /\ pc' = IF r # "ok" THEN (IF caller = "IBCMD" THEN "stop" ELSE "end")
             ELSE CASE caller = "IBCMD" -> "accept" [] caller = "IBRPP" -> "poll" [] OTHER -> "end"
    \* ibrpp returns without removing the timer.
    /\ stray' = (stray \/ (r # "ok" /\ caller = "IBRPP"))
    /\ UNCHANGED <<op, completed, written, raced, pending, firing, fired>>

Cac ==
  /\ pc = "cac" /\ Unlocked
  /\ \/ ~InCharge /\ CacReturns("EINVAL")
     \/ InCharge /\ atn /\ CacReturns("ok")
     \/ InCharge /\ ~atn /\ pc' = "tca" /\ KeepOp /\ UNCHANGED timer
  /\ UNCHANGED <<board, regs, bus>>

\* Asynchronously, also when taking it synchronously has timed out; that fails if the
\* chip is not in charge.
TakeControl ==
  /\ pc = "tca"
  /\ \/ cic /\ AtnBecomes(TRUE) /\ state' = state \ {"WRITE_READY"} /\ CacReturns("ok")
     \/ ~cic /\ CacReturns("ETIMEDOUT") /\ UNCHANGED <<state, atn, out, rdy, ints>>
  /\ UNCHANGED <<chip, master, status, seen, cic, talker, poll, bus>>

-----------------------------------------------------------------------------
(* ibgts *)

Gts ==
  /\ pc = "gts" /\ Unlocked
  /\ IF InCharge THEN pc' = "gts_wait" /\ UNCHANGED ret ELSE Finish("EINVAL")
  /\ UNCHANGED <<op, completed, written, raced, board, timer, regs, bus>>
AfterGts == IF op.name = "IBWRT" THEN "w_begin" ELSE "end"
GoToStandby ==
  /\ Goto("gts_wait", AfterGts) /\ AtnBecomes(FALSE)
  /\ state' = state \ {"COMMAND_READY"}
  /\ KeepOp /\ UNCHANGED <<chip, master, status, timer, seen, cic, talker, poll, bus>>

-----------------------------------------------------------------------------
(* ibcmd and the chip libraries' command *)

\* A mistake: the load is not limited to the buffer.
MutantLoad == Length - completed
\* command_ioctl's next buffer load, also when nothing remains.
Load == Min({BufferLength, Length - completed})

Ibcmd ==
  /\ pc = "cmd" /\ Unlocked
  /\ IF InCharge
       THEN pc' = "cac" /\ StartTimer /\ UNCHANGED ret
       ELSE Finish("EINVAL") /\ UNCHANGED <<timer, status>>
  /\ UNCHANGED <<op, completed, written, raced, chip, master, state, regs, bus>>

\* check_for_command_acceptors, for boards that have line_status and ask; then
\* nec7210_command forgets an earlier error.
CommandAcceptors ==
  /\ pc = "accept"
  /\ \/ pc' = "stop" /\ ret' = "ENOTCONN" /\ UNCHANGED state
     \/ /\ pc' = IF Load = 0 THEN "c_last" ELSE "c_wait"
        /\ state' = IF Nec THEN state \ {"BUS_ERROR"} ELSE state
        /\ UNCHANGED ret
  /\ UNCHANGED <<op, completed, written, raced, chip, master, status, timer, regs, bus>>

\* A mistake: the timer does not end the wait.
MutantWoken == "COMMAND_READY" \in state \/ (Nec /\ "BUS_ERROR" \in state)
Woken == "COMMAND_READY" \in state \/ "TIMO" \in status \/ (Nec /\ "BUS_ERROR" \in state)

\* A mistake: a byte is given to the chip before it can take it.
MutantMayPut == TRUE
MayPut == Woken /\ "TIMO" \notin status /\ ~(Nec /\ "BUS_ERROR" \in state)

CommandWait ==
  /\ pc = "c_wait"
  /\ \/ MayPut /\ pc' = "c_put" /\ UNCHANGED <<ret, state>>
     \/ ~MayPut /\ Woken /\ pc' = "c_last" /\ UNCHANGED ret
        \* The error is cleared and not returned.
        /\ state' = IF Nec /\ "TIMO" \notin status THEN state \ {"BUS_ERROR"} ELSE state
  /\ UNCHANGED <<op, completed, written, raced, chip, master, status, timer, regs, bus>>

\* A byte is written to CDOR.
Puts(i, cmd) ==
  /\ lost' = (lost \/ out # NoByte)
  /\ out' = [i |-> i, cmd |-> cmd]
  /\ ints' = ints \ {"CO", "DO", "BO"} /\ rdy' = TRUE

CommandPut ==
  /\ pc = "c_put" /\ Unlocked
  /\ state' = state \ {"COMMAND_READY"}
  /\ Puts(completed + written + 1, TRUE)
  /\ written' = written + 1
  /\ pc' = IF written' = Load THEN "c_last" ELSE "c_wait"
  \* check_my_address_state tells the tms9914 that it is addressed.
  /\ talker' = IF ~Nec /\ completed + written' = Length THEN op.talk ELSE talker
  /\ UNCHANGED <<op, completed, ret, raced, chip, master, status, timer, seen, cic, atn, poll,
                 accepted, bad, erred>>

\* A mistake: it does not wait until the last byte has been sent.
MutantCommandLast ==
  /\ pc = "c_last" /\ pc' = "stop"
  /\ ret' = IF "TIMO" \in status THEN "ETIMEDOUT" ELSE ret
  /\ UNCHANGED <<op, completed, written, raced, board, timer, regs, bus>>
CommandLast ==
  /\ pc = "c_last" /\ Woken
  /\ ret' = CASE Nec /\ "BUS_ERROR" \in state -> "EIO"
              [] "TIMO" \in status -> "ETIMEDOUT"
              [] OTHER -> ret
  /\ state' = IF Nec THEN state \ {"BUS_ERROR"} ELSE state
  /\ pc' = "stop"
  /\ UNCHANGED <<op, completed, written, raced, chip, master, status, timer, regs, bus>>

\* os_remove_timer, what ibcmd returns, and command_ioctl's loop.
IbcmdStop ==
  /\ pc = "stop" /\ RemoveTimer
  /\ ret' = IF "TIMO" \in status THEN "ETIMEDOUT" ELSE ret
  /\ completed' = completed + written /\ written' = 0
  /\ pc' = IF ret' = "ok" /\ completed' < Length THEN "cmd" ELSE "end"
  /\ UNCHANGED <<op, raced, board, regs, bus>>

-----------------------------------------------------------------------------
(* ibrpp *)

Ibrpp ==
  /\ Goto("rpp", "cac") /\ StartTimer
  /\ KeepOp /\ UNCHANGED <<chip, master, state, regs, bus>>

\* The chip is ready for a command, and the handler knows.
Settled == rdy /\ out = NoByte /\ "CO" \notin ints /\ seen = {}

\* A mistake: COMMAND_READY is left from an earlier command.
MutantForgetsReady == state
ForgetsReady == IF Nec THEN state \ {"COMMAND_READY"} ELSE state
ParallelPoll ==
  /\ Goto("poll", "epp") /\ state' = ForgetsReady
  /\ raced' = ~Settled /\ UNCHANGED <<op, completed, written, ret>>
  /\ UNCHANGED <<chip, master, status, timer, regs, bus>>
ExecutesPoll ==
  /\ Goto("epp", "p_wait")
  /\ poll' = "running" /\ rdy' = FALSE /\ ints' = ints \ {"CO", "BO"}
  /\ UNCHANGED <<op, completed, written, ret, raced, board, timer, seen, cic, atn, talker, out, bus>>

\* The nec7210 library waits for COMMAND_READY alone; the tms9914's for 2 us, in
\* which the poll is done.
PollResult ==
  /\ pc = "p_wait"
  /\ IF Nec THEN "COMMAND_READY" \in state ELSE poll = "done" \/ ~Controls
  /\ pc' = "p_result"
  /\ KeepOp /\ UNCHANGED <<board, timer, regs, bus>>
PollStop ==
  /\ pc \in {"p_result", "p_stop"} /\ pc' = "end" /\ RemoveTimer
  /\ poll' = "none"
  /\ KeepOp /\ UNCHANGED <<board, ints, seen, cic, atn, talker, out, rdy, bus>>

-----------------------------------------------------------------------------
(* ibwrt of one byte *)

WriteBegin ==
  /\ Goto("w_begin", "w_wait") /\ StartTimer
  /\ state' = state \ {"BUS_ERROR"}
  /\ KeepOp /\ UNCHANGED <<chip, master, regs, bus>>

WriteWoken == state \cap {"WRITE_READY", "BUS_ERROR"} # {} \/ "TIMO" \in status
WriteError ==
  CASE "TIMO" \in status -> "ETIMEDOUT"
    [] "BUS_ERROR" \in state -> "EIO"
    [] OTHER -> "ok"
\* pio_write_wait, before the byte and after it.
WriteWait ==
  /\ pc \in {"w_wait", "w_last"} /\ WriteWoken
  /\ ret' = WriteError
  /\ pc' = IF WriteError = "ok" /\ pc = "w_wait" THEN "w_put" ELSE "w_stop"
  /\ UNCHANGED <<op, completed, written, raced, board, timer, regs, bus>>
WritePut ==
  /\ Goto("w_put", "w_last") /\ Unlocked
  /\ state' = state \ {"WRITE_READY"} /\ Puts(1, FALSE)
  /\ KeepOp /\ UNCHANGED <<chip, master, status, timer, seen, cic, atn, talker, poll, accepted, bad, erred>>
WriteStop ==
  /\ Goto("w_stop", "end") /\ RemoveTimer
  /\ ret' = IF "TIMO" \in status THEN "ETIMEDOUT" ELSE ret
  /\ UNCHANGED <<op, completed, written, raced, board, regs, bus>>

-----------------------------------------------------------------------------

\* A signal ends the wait for the chip; the tms9914's loop ignores it.
Interrupted ==
  /\ \/ pc \in {"c_wait", "c_last"} /\ ~Woken
     \/ pc = "p_wait" /\ Nec /\ "COMMAND_READY" \notin state
     \/ pc \in {"w_wait", "w_last"} /\ ~WriteWoken
  /\ ret' = IF pc = "c_wait" /\ ~Nec THEN ret ELSE "ERESTARTSYS"
  /\ pc' = CASE pc = "c_wait" -> "c_last" [] pc = "c_last" -> "stop" [] pc = "p_wait" -> "p_stop" [] OTHER -> "w_stop"
  /\ UNCHANGED <<op, completed, written, raced, board, timer, regs, bus>>

\* After a signal the kernel may issue the ioctl again, with the count it left.
Restart ==
  /\ pc = "end" /\ ret = "ERESTARTSYS" /\ op.name \in {"IBCMD", "IBRPP"}
  /\ pc' = IF op.name = "IBCMD" THEN "cmd" ELSE "rpp"
  /\ ret' = "ok"
  /\ UNCHANGED <<op, completed, written, raced, board, timer, regs, bus>>
End ==
  /\ pc = "end" /\ pc' = "idle" /\ op' = NoOp
  /\ ret' = "ok"
  /\ completed' = 0 /\ written' = 0 /\ raced' = FALSE
  \* The chip may still have to send a byte before it is ready again.
  /\ out' = NoByte /\ rdy' = (rdy /\ out = NoByte)
  /\ fired' = FALSE
  \* A timer that is left over has gone when another ioctl has removed it.
  /\ stray' = (stray /\ (pending \/ firing \/ "TIMO" \in status))
  /\ accepted' = 0 /\ bad' = FALSE /\ lost' = FALSE /\ erred' = FALSE
  /\ UNCHANGED <<board, pending, firing, ints, seen, cic, atn, talker, poll>>

Task ==
  \/ Cac \/ TakeControl
  \/ Gts \/ GoToStandby
  \/ Ibcmd \/ CommandAcceptors \/ CommandWait \/ CommandPut \/ CommandLast \/ IbcmdStop
  \/ Ibrpp \/ ParallelPoll \/ ExecutesPoll \/ PollResult \/ PollStop
  \/ WriteBegin \/ WriteWait \/ WritePut \/ WriteStop
  \/ End
Interrupt == ReadsIsr \/ Handles
Clock == Expire \/ WatchdogTimeout
Next ==
  \/ Begin \/ InterfaceClear \/ ReleaseSystemControl \/ RequestSystemControl
  \/ Task \/ Interrupted \/ Restart \/ Interrupt \/ Clock
  \/ Ready \/ Accepts \/ NobodyListens \/ Ifc \/ PollEnds

Spec == Init /\ [][Next]_vars

\* As long as the ioctl, the handler or the timer can go on, one of them does.
FairSpec == Spec /\ WF_vars(Task \/ Interrupt \/ Clock)

-----------------------------------------------------------------------------
(* Properties *)

\* Every variable has its type.
TypeOK ==
  /\ op \in Ops \cup {NoOp} /\ (pc = "idle") = (op = NoOp)
  /\ ret \in {"ok", "EINVAL", "ETIMEDOUT", "ENOTCONN", "ERESTARTSYS", "EIO"}
  /\ completed \in 0..Length /\ written \in 0..BufferLength /\ accepted \in 0..Length
  /\ status \subseteq {"CIC", "TIMO"} /\ master \in BOOLEAN
  /\ state \subseteq {"COMMAND_READY", "WRITE_READY", "BUS_ERROR"}
  /\ ints \cup seen \subseteq {"CO", "DO", "BO", "ERR", "IFC"}
  /\ atn => cic

\* Bytes reach the bus in order and once, commands with ATN and data without,
\* and none is written over the one before it; but one that nobody listened to is gone,
\* and another controller may take over before a byte is written.
InOrder == (bad => erred \/ ~cic \/ ~master) /\ ~lost

\* A command that succeeds, be it after signals, has been accepted to the last
\* byte, unless nobody listened.
CommandAccepted ==
  pc = "end" /\ op.name = "IBCMD" /\ ret = "ok" => accepted = Length \/ erred

\* A TIMO that was set before an ioctl began is not what it times out by: since
\* then a timer has expired, or a callback has run that os_remove_timer of an
\* earlier ioctl did not wait for, or another controller has taken over.  An ioctl
\* may well be struck by the timer of another one; of those that come after a
\* parallel poll that left its timer running nothing is said.
TimeoutIsFresh ==
  pc = "end" /\ ret = "ETIMEDOUT" /\ op.name \in {"IBCMD", "IBWRT"} => fired \/ stray \/ ~cic

\* Of a parallel poll that begins when the handler has seen all that the chip has
\* raised, the result is read when there is one, or the board is no longer in
\* charge.  Of one that begins before, nothing is said: the interrupt of taking
\* control may end it too early.
SettledPollDone == pc = "p_result" => poll = "done" \/ raced \/ ~Controls

\* An ioctl ends, with success, an error or a signal, but for the parallel poll of
\* the nec7210, which has no timeout.  A board whose timeout is 0 has no timer
\* (os_start_timer) and is left out.
Ends == pc # "idle" /\ op.name # "IBRPP" ~> pc = "end"
=============================================================================
