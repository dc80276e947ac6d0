------------------------------ MODULE Transfer ------------------------------
(***************************************************************************)
(* One IBRD or IBWRT, from the ioctl down to the bus: the loops of         *)
(* read_ioctl and write_ioctl over the board's bounce buffer, ibrd and     *)
(* ibwrt with the watchdog timer, the byte by byte transfer of the nec7210 *)
(* library, its interrupt handler, and the chip and device beyond.         *)
(*                                                                         *)
(* The caller holds user_mutex (module BoardLocks), so that one transfer   *)
(* runs at a time; interrupts, the timer's callback, signals, and the bus  *)
(* (device clear, bus errors, a controller that asserts ATN) go on beside  *)
(* it.  A signal makes the ioctl return -ERESTARTSYS, after which the      *)
(* kernel may issue it again with the count it left behind.                *)
(*                                                                         *)
(* Bytes are numbered from 1 in the order in which they ought to arrive.   *)
(***************************************************************************)
EXTENDS Integers, Sequences, FiniteSetsExt

CONSTANTS
  Length,       \* requested_transfer_count
  TalkerLength, \* what the talker has to send, in one message or several
  BufferLength, \* board->buffer_length
  MaxSignals, MaxClears, MaxErrors, MaxAtn  \* bounds on what disturbs the transfer

ASSUME LengthAssumption ==
  Length \in Nat \ {0} /\ BufferLength \in Nat \ {0} /\ TalkerLength \in Nat
ASSUME BoundAssumption ==
  MaxSignals \in Nat /\ MaxClears \in Nat /\ MaxErrors \in Nat /\ MaxAtn \in Nat

VARIABLES
  pc,           \* where the ioctl is
  end,          \* write_cmd.end; for a read, end_flag
  pos,          \* bytes done: requested_transfer_count - remain, and bytes_written
                \* of the load in progress
  goal,         \* pos at which the current pio_write, or buffer load, ends
  last,         \* pos before the byte that pio_write last gave to the chip
  eoi,          \* the current nec7210_write has still to send a byte with EOI
  buf,          \* the bytes that pio_read has put into board->buffer
  user,         \* the bytes copied to the user's buffer
  ret,          \* the return value under way
  pending,      \* timer_pending(&board->timer)
  firing,       \* watchdog_timeout has been started and has not set TIMO yet
  status,       \* bits of board->status
  state,        \* bits of priv->state
  ints,         \* bits of the chip's interrupt status registers
  out,          \* the chip's data out: the byte in CDOR, and its EOI
  ready,        \* the chip has raised DO since CDOR became empty
  seoi,         \* AUX_SEOI was written: the next byte goes out with EOI
  in,           \* the chip's data in: the byte in DIR, and its END
  held,         \* the chip holds off the talker (RFD holdoff)
  atn,          \* ATN on the bus
  sent,         \* the newest byte that the talker sent
  ends,         \* the bytes that it sent with END
  accepted,     \* the newest byte that the listener accepted
  heard_end,    \* the listener saw EOI
  gap,          \* history: the listener missed a byte before the newest
  signals, clears, errors, atns  \* counts of disturbances

caller == <<pc, end, pos, goal, last, eoi, buf, user, ret>>
timer == <<pending, firing>>
chip == <<ints, out, ready, seoi, in, held>>
bus == <<atn, sent, ends, accepted, heard_end, gap>>
counts == <<signals, clears, errors, atns>>
vars == <<caller, timer, status, state, chip, bus, counts>>

NoByte == [byte |-> 0, eoi |-> FALSE]
Bytes == [byte : Nat, eoi : BOOLEAN]
\* Where a write can be; the second line is for the drivers of module AccelTransfer.
Writing == {"w_load", "w_begin", "w_wait", "w_put", "w_drain", "w_eoi", "w_seoi",
            "a_part", "a_arm", "a_restart", "a_space", "a_done", "a_sent", "a_stop",
            "b_wait", "b_put", "b_drain", "w_ret", "w_stop", "w_done"}
Reading == {"r_load", "r_begin", "r_wait", "r_check", "r_ret", "r_done"}
Results == {"ok", "ETIMEDOUT", "EINTR", "ERESTARTSYS", "EIO"}

\* Every variable stays within its type, and no loop runs past the end of the
\* buffer it fills or empties.
TypeOK ==
  /\ pc \in Reading \cup Writing /\ ret \in Results
  /\ end \in BOOLEAN /\ eoi \in BOOLEAN
  /\ pos \in 0 .. Length /\ goal \in 0 .. Length /\ last \in 0 .. Length
  /\ buf \in Seq(1 .. TalkerLength) /\ Len(buf) <= BufferLength
  /\ user \in Seq(1 .. TalkerLength) /\ Len(user) <= Length
  /\ pending \in BOOLEAN /\ firing \in BOOLEAN
  /\ status \subseteq {"TIMO", "ATN"}
  /\ state \subseteq {"READ_READY", "WRITE_READY", "RFD_HOLDOFF", "RECEIVED_END",
                      "DEV_CLEAR", "BUS_ERROR", "TERM_COUNT"}
  /\ ints \subseteq {"DO", "DI", "END", "ERR", "DEC", "TC"}
  /\ out \in Bytes /\ in \in Bytes
  /\ {ready, seoi, held, atn, heard_end, gap} \subseteq BOOLEAN
  /\ sent \in 0 .. TalkerLength /\ ends \subseteq 1 .. sent /\ accepted \in 0 .. Length
  /\ signals \in 0 .. MaxSignals /\ clears \in 0 .. MaxClears
  /\ errors \in 0 .. MaxErrors /\ atns \in 0 .. MaxAtn

Init ==
  /\ pc \in {"w_load", "r_load"} /\ end \in (IF pc = "w_load" THEN BOOLEAN ELSE {FALSE})
  /\ pos = 0 /\ goal = 0 /\ last = 0 /\ eoi = FALSE
  /\ buf = <<>> /\ user = <<>> /\ ret = "ok"
  /\ pending = FALSE /\ firing = FALSE
  /\ status = {} /\ state = {}
  /\ ints = {} /\ out = NoByte /\ ready = FALSE /\ seoi = FALSE
  /\ in = NoByte /\ held = FALSE
  /\ atn = FALSE /\ sent = 0 /\ ends = {} /\ accepted = 0 /\ heard_end = FALSE /\ gap = FALSE
  /\ signals = 0 /\ clears = 0 /\ errors = 0 /\ atns = 0

Goto(from, to) == pc = from /\ pc' = to

\* Mutant: the last load is as long as the others.
MutantLoadEnd == pos + BufferLength

\* Where the current load ends.
LoadEnd == Min({Length, pos + BufferLength})

-----------------------------------------------------------------------------
(* The watchdog timer.  Definitions named Mutant... are plausible bugs of the *)
(* definition that follows, to show that a property would notice them.        *)

\* os_start_timer.  A timer that is still pending is a "bug!" and goes on.
StartTimer ==
  /\ pending' = TRUE
  /\ status' = IF pending THEN status ELSE status \ {"TIMO"}
  /\ UNCHANGED firing

\* os_remove_timer: del_timer_sync waits for the callback, but is called only
\* for a timer that has not expired.
RemoveTimer ==
  /\ pending => ~firing
  /\ pending' = FALSE /\ UNCHANGED firing

Expire ==
  /\ pending /\ ~firing
  /\ pending' = FALSE /\ firing' = TRUE
  /\ UNCHANGED <<caller, status, state, chip, bus, counts>>

WatchdogTimeout ==
  /\ firing /\ firing' = FALSE
  /\ status' = status \cup {"TIMO"}
  /\ UNCHANGED <<caller, pending, state, chip, bus, counts>>

-----------------------------------------------------------------------------
\* write_ioctl.

\* Mutant: EOI is asserted at the end of every buffer load.
MutantSendEoi == end

\* EOI goes with the load that ends the transfer.
SendEoi == Length - pos <= BufferLength /\ end

\* write_ioctl starts a buffer load, ibwrt the timer.
WriteLoad ==
  /\ Goto("w_load", "w_begin")
  /\ eoi' = SendEoi /\ goal' = LoadEnd /\ StartTimer
  /\ UNCHANGED <<end, pos, last, buf, user, ret, state, chip, bus, counts>>

\* nec7210_write: pio_write sends the load, but for the last byte if that goes
\* with EOI.
WriteBegin ==
  /\ goal' = IF eoi THEN goal - 1 ELSE goal
  /\ \/ /\ goal' > pos /\ Goto("w_begin", "w_wait")
        /\ last' = pos /\ state' = state \ {"DEV_CLEAR", "BUS_ERROR"}
     \/ /\ goal' = pos /\ Goto("w_begin", "w_eoi")
        /\ state' = state \ {"DEV_CLEAR"} /\ UNCHANGED last
  /\ UNCHANGED <<end, pos, eoi, buf, user, ret, timer, status, chip, bus, counts>>

\* Mutant: bus errors wake nobody.
MutantWriteEvents == state \cap {"WRITE_READY", "DEV_CLEAR"}

\* What pio_write_wait waits for, the board being addressed to talk.
WriteEvents == state \cap {"WRITE_READY", "DEV_CLEAR", "BUS_ERROR"}

\* How pio_write_wait ends: TIMO first, then device clear, then the bus error.
WaitResult ==
  CASE "TIMO" \in status -> "ETIMEDOUT"
    [] "TIMO" \notin status /\ "DEV_CLEAR" \in WriteEvents -> "EINTR"
    [] "TIMO" \notin status /\ WriteEvents \cap {"DEV_CLEAR", "BUS_ERROR"} = {"BUS_ERROR"} -> "EIO"
    [] OTHER -> "ok"

\* pio_write_wait, at a label where success leads to `next`.
WriteWait(from, next) ==
  /\ pc = from
  /\ pc' = IF WaitResult = "ok" THEN next ELSE "w_ret"
  /\ ret' = WaitResult
  /\ state' = IF WaitResult = "EIO" THEN state \ {"BUS_ERROR"} ELSE state

\* The byte that met a bus error is sent again.
Resend == pos' = last

\* The wait before each byte of pio_write.  A bus error sends the byte before
\* again, or ends the transfer after max_bus_errors of them.
PioWait ==
  /\ status \cap {"TIMO"} # {} \/ WriteEvents # {}
  /\ \/ WriteWait("w_wait", "w_put") /\ WaitResult # "EIO" /\ UNCHANGED pos
     \/ WriteWait("w_wait", "w_put") /\ WaitResult = "EIO" /\ Resend
     \/ /\ Goto("w_wait", "w_wait") /\ WaitResult = "EIO" /\ Resend
        /\ state' = state \ {"BUS_ERROR"} /\ UNCHANGED ret
  /\ UNCHANGED <<end, goal, last, eoi, buf, user, timer, status, chip, bus, counts>>

\* The next byte is written to CDOR, under board->spinlock.
PioPut ==
  /\ Goto("w_put", IF pos + 1 < goal THEN "w_wait" ELSE "w_drain")
  /\ state' = state \ {"BUS_ERROR", "WRITE_READY"}
  /\ last' = pos /\ pos' = pos + 1
  /\ out' = [byte |-> pos + 1, eoi |-> seoi] /\ seoi' = FALSE /\ ready' = FALSE
  /\ UNCHANGED <<end, goal, eoi, buf, user, ret, timer, status, ints, in, held, bus, counts>>

\* The wait at the end of pio_write: the byte has left the chip, or ATN (or
\* being addressed to listen, which is not modelled apart) ends the wait.
PioDrain ==
  /\ status # {} \/ WriteEvents # {}
  /\ WriteWait("w_drain", IF eoi THEN "w_eoi" ELSE "w_ret")
  /\ UNCHANGED <<end, pos, goal, last, eoi, buf, user, timer, status, chip, bus, counts>>

\* The wait before AUX_SEOI: "make sure we will immediately be able to write".
EoiWait ==
  /\ status \cap {"TIMO"} # {} \/ WriteEvents # {}
  /\ WriteWait("w_eoi", "w_seoi")
  /\ UNCHANGED <<end, pos, goal, last, eoi, buf, user, timer, status, chip, bus, counts>>

\* AUX_SEOI, and a pio_write of the last byte begins.
SendSeoi ==
  /\ Goto("w_seoi", "w_wait")
  /\ seoi' = TRUE /\ eoi' = FALSE
  /\ goal' = pos + 1 /\ last' = pos
  /\ state' = state \ {"BUS_ERROR"}
  /\ UNCHANGED <<end, pos, buf, user, ret, timer, status, ints, out, ready, in, held, bus, counts>>

\* ibwrt: the board's TIMO bit overrides what the driver returned.
WriteReturn ==
  /\ Goto("w_ret", "w_stop")
  /\ ret' = IF "TIMO" \in status THEN "ETIMEDOUT" ELSE ret
  /\ UNCHANGED <<end, pos, goal, last, eoi, buf, user, timer, status, state, chip, bus, counts>>

\* The timer is removed.  write_ioctl goes on with the next load, or returns:
\* errors are suppressed "if all bytes got sent".
WriteStop ==
  /\ RemoveTimer
  /\ \/ ret = "ok" /\ pos < Length /\ Goto("w_stop", "w_load") /\ UNCHANGED ret
     \/ /\ ret # "ok" \/ pos = Length
        /\ Goto("w_stop", "w_done") /\ ret' = IF pos = Length THEN "ok" ELSE ret
  /\ UNCHANGED <<end, pos, goal, last, eoi, buf, user, status, state, chip, bus, counts>>

-----------------------------------------------------------------------------
\* read_ioctl.

\* read_ioctl starts a buffer load, ibrd the timer.
ReadLoad ==
  /\ Goto("r_load", "r_begin")
  /\ goal' = LoadEnd /\ buf' = <<>> /\ end' = FALSE /\ ret' = "ok" /\ StartTimer
  /\ UNCHANGED <<pos, last, eoi, user, state, chip, bus, counts>>

\* nec7210_release_rfd_holdoff, with st the bits it finds.
ReleaseHoldoff(st) ==
  LET release == "RFD_HOLDOFF" \in st /\ "READ_READY" \notin st IN
  /\ state' = IF release THEN st \ {"RFD_HOLDOFF"} ELSE st
  /\ held' = (held /\ ~release)

\* nec7210_read.
ReadBegin ==
  /\ Goto("r_begin", "r_wait")
  /\ ReleaseHoldoff(state \ {"DEV_CLEAR"})
  /\ UNCHANGED <<end, pos, goal, last, eoi, buf, user, ret, timer, status,
                 ints, out, ready, seoi, in, bus, counts>>

ReadEvents == (state \cap {"READ_READY", "DEV_CLEAR"}) \cup (status \cap {"TIMO"})

\* Mutant: END does not end the read.
MutantAfterByte(ended) == "r_check"

\* END ends pio_read at once.
AfterByte(ended) == IF ended THEN "r_ret" ELSE "r_check"

\* pio_read wakes up, and takes a byte if there is one (nec7210_read_data_in).
PioRead ==
  /\ ReadEvents # {}
  /\ \/ /\ "READ_READY" \in state
        /\ buf' = Append(buf, in.byte) /\ in' = NoByte
        /\ end' = ("RECEIVED_END" \in state)
        /\ state' = state \ {"READ_READY", "RECEIVED_END"}
        /\ Goto("r_wait", AfterByte(end'))
     \/ "READ_READY" \notin state /\ Goto("r_wait", "r_check") /\ UNCHANGED <<buf, in, end, state>>
  /\ UNCHANGED <<pos, goal, last, eoi, user, ret, timer, status,
                 ints, out, ready, seoi, held, bus, counts>>

\* Mutant: TIMO is not looked at.
MutantReadError == IF "DEV_CLEAR" \in state THEN "EINTR" ELSE "ok"

\* TIMO first, then device clear, also after the byte that fills the buffer.
ReadError ==
  CASE "TIMO" \in status -> "ETIMEDOUT"
    [] "TIMO" \notin status /\ "DEV_CLEAR" \in state -> "EINTR"
    [] OTHER -> "ok"

\* The rest of pio_read's loop.
PioCheck ==
  /\ \/ /\ ReadError = "ok" /\ pos + Len(buf) < goal
        /\ Goto("r_check", "r_wait") /\ ReleaseHoldoff(state)
     \/ /\ ReadError # "ok" \/ pos + Len(buf) = goal
        /\ Goto("r_check", "r_ret") /\ UNCHANGED <<state, held>>
  /\ ret' = ReadError
  /\ UNCHANGED <<end, pos, goal, last, eoi, buf, user, timer, status,
                 ints, out, ready, seoi, in, bus, counts>>

\* ibrd drops the bytes of a read that returned an error; read_ioctl copies the
\* others to the user, and goes on or returns.
ReadReturn ==
  /\ RemoveTimer
  /\ \/ /\ ret = "ok"
        /\ user' = user \o buf /\ pos' = pos + Len(buf)
        /\ Goto("r_ret", IF pos' = Length \/ end THEN "r_done" ELSE "r_load")
     \/ ret # "ok" /\ Goto("r_ret", "r_done") /\ UNCHANGED <<user, pos>>
  /\ buf' = <<>>
  /\ UNCHANGED <<end, goal, last, eoi, ret, status, state, chip, bus, counts>>

-----------------------------------------------------------------------------
\* A signal ends a wait whose condition does not hold.
Signal ==
  /\ signals < MaxSignals /\ signals' = signals + 1
  /\ \/ /\ WriteEvents = {} /\ "TIMO" \notin status
        /\ Goto("w_wait", "w_ret") \/ Goto("w_eoi", "w_ret")
             \/ ("ATN" \notin status /\ Goto("w_drain", "w_ret"))
     \/ ReadEvents = {} /\ Goto("r_wait", "r_ret")
  /\ ret' = "ERESTARTSYS"
  /\ UNCHANGED <<end, pos, goal, last, eoi, buf, user, timer, status, state, chip, bus,
                 clears, errors, atns>>

\* The kernel issues the ioctl again, with completed_transfer_count as it was
\* left.
Restart ==
  /\ ret = "ERESTARTSYS"
  /\ Goto("w_done", "w_load") \/ Goto("r_done", "r_load")
  /\ ret' = "ok"
  /\ UNCHANGED <<end, pos, goal, last, eoi, buf, user, timer, status, state, chip, bus, counts>>

-----------------------------------------------------------------------------
\* Mutant: the handler does not note the holdoff that comes with a byte.
MutantNoted(bit) ==
  CASE bit = "DO" -> {"WRITE_READY"} [] bit = "DI" -> {"READ_READY"}
    [] bit = "END" -> {"RECEIVED_END"} [] bit = "ERR" -> {"BUS_ERROR"}
    [] bit = "DEC" -> {"DEV_CLEAR"} [] bit = "TC" -> {"TERM_COUNT"}

\* What nec7210_interrupt_have_status notes in priv->state for a bit of the
\* interrupt status; the handshake mode is HR_HLDA.  The tms9914's handler notes
\* DO, ERR and DEC alike; TC is the terminal count of the boards that have one.
Noted(bit) ==
  CASE bit = "DO" -> {"WRITE_READY"} [] bit = "DI" -> {"READ_READY", "RFD_HOLDOFF"}
    [] bit = "END" -> {"RECEIVED_END"} [] bit = "ERR" -> {"BUS_ERROR"}
    [] bit = "DEC" -> {"DEV_CLEAR"} [] bit = "TC" -> {"TERM_COUNT"}

\* The interrupt handler, under board->spinlock.  Reading the status clears it.
Interrupt ==
  /\ ints # {} \/ atn # ("ATN" \in status)
  /\ state' = state \cup UNION {Noted(bit) : bit \in ints}
  /\ status' = (status \ {"ATN"}) \cup (IF atn THEN {"ATN"} ELSE {})
  /\ ints' = {}
  /\ UNCHANGED <<caller, timer, out, ready, seoi, in, held, bus, counts>>

\* CDOR is empty, and the chip may source: DO.
RaiseDO ==
  /\ pc \in Writing /\ out = NoByte /\ ~ready /\ ~atn
  /\ ready' = TRUE /\ ints' = ints \cup {"DO"}
  /\ UNCHANGED <<caller, timer, status, state, out, seoi, in, held, bus, counts>>

\* The listener takes the byte in CDOR.
Accept ==
  /\ out # NoByte /\ ~atn
  /\ accepted' = out.byte
  /\ heard_end' = (heard_end \/ out.eoi)
  /\ gap' = (gap \/ out.byte # accepted + 1)
  /\ out' = NoByte
  /\ UNCHANGED <<caller, timer, status, state, ints, ready, seoi, in, held, atn, sent, ends, counts>>

\* The byte in CDOR is lost: nobody listens, or ATN came in the middle.
BusError ==
  /\ out # NoByte /\ errors < MaxErrors /\ errors' = errors + 1
  /\ out' = NoByte /\ ints' = ints \cup {"ERR"}
  /\ UNCHANGED <<caller, timer, status, state, ready, seoi, in, held, bus, signals, clears, atns>>

\* The talker sends a byte, with or without END; the chip holds it off until
\* the handler's caller releases the holdoff.
TalkerSend ==
  /\ pc \in Reading /\ in = NoByte /\ ~held /\ ~atn /\ sent < TalkerLength
  /\ sent' = sent + 1 /\ held' = TRUE
  /\ \E e \in BOOLEAN :
       /\ in' = [byte |-> sent + 1, eoi |-> e]
       /\ ints' = ints \cup {"DI"} \cup (IF e THEN {"END"} ELSE {})
       /\ ends' = IF e THEN ends \cup {sent + 1} ELSE ends
  /\ UNCHANGED <<caller, timer, status, state, out, ready, seoi, atn, accepted, heard_end, gap,
                 counts>>

\* The controller in charge clears the board, or takes or gives up control.
DeviceClear ==
  /\ clears < MaxClears /\ clears' = clears + 1
  /\ ints' = ints \cup {"DEC"}
  /\ UNCHANGED <<caller, timer, status, state, out, ready, seoi, in, held, bus,
                 signals, errors, atns>>

ChangeAtn ==
  /\ atns < MaxAtn /\ atns' = atns + 1
  /\ atn' = ~atn
  /\ UNCHANGED <<caller, timer, status, state, chip, sent, ends, accepted, heard_end, gap,
                 signals, clears, errors>>

-----------------------------------------------------------------------------
Ioctl ==
  \/ WriteLoad \/ WriteBegin \/ PioWait \/ PioPut \/ PioDrain \/ EoiWait \/ SendSeoi
  \/ WriteReturn \/ WriteStop
  \/ ReadLoad \/ ReadBegin \/ PioRead \/ PioCheck \/ ReadReturn

Kernel == Signal \/ Restart \/ Expire \/ WatchdogTimeout \/ Interrupt

Bus == RaiseDO \/ Accept \/ BusError \/ TalkerSend \/ DeviceClear \/ ChangeAtn

Next == Ioctl \/ Kernel \/ Bus

Spec == Init /\ [][Next]_vars

\* The kernel runs the ioctl, its timers and its interrupt handlers; devices and
\* signals owe nothing.
FairSpec ==
  Spec /\ WF_vars(Ioctl) /\ WF_vars(Expire) /\ WF_vars(WatchdogTimeout) /\ WF_vars(Interrupt)

-----------------------------------------------------------------------------
Done == pc \in {"r_done", "w_done"}

\* EOI goes with the last byte of the transfer and no other, whichever buffer
\* load that byte falls into, and however the transfer is cut up by signals.
EoiOnLastByte ==
  heard_end <=> (accepted = Length /\ end)

\* A byte lost on the bus is sent again: the listener misses one only if a signal,
\* or a controller that takes over, had ended the wait for that byte to leave.
ResentAfterError == gap => signals + atns > 0

\* What a read delivers has no hole unless a signal cut it up, and ends with the
\* talker's END if and only if the read reports END.
DeliveredWhole ==
  /\ signals = 0 => \A i \in DOMAIN user : user[i] = i
  /\ \A i \in DOMAIN user :
       user[i] \in ends <=> (i = Len(user) /\ end /\ pc = "r_done")

\* The chip's holdoff is known to the driver, or about to be: otherwise nobody
\* would release it, and the bus would hang.
HoldoffTracked == held => "RFD_HOLDOFF" \in state \/ "DI" \in ints

\* A transfer with a timeout returns, whatever the devices do.
Returns == <>[](Done)
=============================================================================
