--------------------------- MODULE AccelTransfer ---------------------------
(***************************************************************************)
(* IBWRT on the boards whose drivers do not give each byte to a nec7210:   *)
(* those with a FIFO (tnt4882, ines, cb7210, fmh_gpib on PCI), with memory  *)
(* that the chip reads by itself (agilent_82350b, hp_82341), with DMA       *)
(* (fmh_gpib, fluke_gpib), and the plain tms9914.                           *)
(*                                                                          *)
(* A driver cuts a buffer load into parts.  A part is given to the FIFO as  *)
(* there is room ("fifo"), handed over as a whole ("block"), written by     *)
(* tms9914_write ("bytes"), or by nec7210_write ("pio", module Transfer).   *)
(* When a part is over, successfully or not, the driver says how much of it *)
(* was written, and write_ioctl goes on from there after a signal.  How the *)
(* drivers wait, and how they count, differs; Trait has the differences.    *)
(*                                                                          *)
(* Chips differ too; this is assumed of all: a byte leaves the FIFO for     *)
(* CDOR when CDOR is empty and ATN is not asserted, the hardware's counter  *)
(* counts it then, and a FIFO that is stopped keeps what it has.            *)
(***************************************************************************)
EXTENDS Transfer

CONSTANTS
  Drivers,  \* the drivers that the board may have
  FifoSize, \* the size of the FIFO, of the board's memory, and of the DMA buffer
  MaxDisturbances \* a bound on signals, device clears and bus errors together

VARIABLES
  driver,   \* board->interface
  parts,    \* what is left of the load, the part being written first
  put,      \* bytes of this part given to the FIFO or to the chip
  fifo,     \* the FIFO: bytes, some with EOI
  stream,   \* the FIFO feeds the chip
  skew      \* the driver's index into the buffer, less the bytes it has counted

accel == <<driver, parts, put, fifo, stream, skew>>
allVars == <<vars, accel>>

\* A driver's way to write: what it clears first; what ends its waits and what it then
\* looks for, in this order; which of these bits are cleared by being looked at; how it
\* counts what was written; when a part is done.
Tnt4882 == [clears |-> {"DEV_CLEAR"}, tests |-> <<"TIMO", "BUS_ERROR", "DEV_CLEAR">>,
            consumes |-> {"BUS_ERROR"}, counts |-> "fed", until |-> "sent"]
Ines == [clears |-> {}, tests |-> <<"BUS_ERROR", "DEV_CLEAR", "TIMO">>,
         consumes |-> {}, counts |-> "length less fifo", until |-> "fed"]
Cb7210 == [clears |-> {"DEV_CLEAR", "BUS_ERROR"}, tests |-> <<"DEV_CLEAR", "BUS_ERROR", "TIMO">>,
           consumes |-> {}, counts |-> "put", until |-> "fed"]
Agilent82350b == [clears |-> {"DEV_CLEAR", "TERM_COUNT"}, tests |-> <<"TIMO", "DEV_CLEAR">>,
                  consumes |-> {}, counts |-> "fed", until |-> "event"]
Hp82341 == [clears |-> {"DEV_CLEAR", "TERM_COUNT"}, tests |-> <<"TIMO", "DEV_CLEAR">>,
            consumes |-> {}, counts |-> "fed", until |-> "event"]
FmhFifo == [clears |-> {"DEV_CLEAR"}, tests |-> <<"BUS_ERROR", "DEV_CLEAR", "TIMO">>,
            consumes |-> {"DEV_CLEAR", "BUS_ERROR"}, counts |-> "fed", until |-> "sent"]
FmhDma == [clears |-> {"DEV_CLEAR"}, tests |-> <<"BUS_ERROR", "DEV_CLEAR", "TIMO">>,
           consumes |-> {"DEV_CLEAR", "BUS_ERROR"}, counts |-> "fed", until |-> "sent"]
FlukeDma == [clears |-> {"DEV_CLEAR"}, tests |-> <<"BUS_ERROR", "DEV_CLEAR", "TIMO">>,
             consumes |-> {"DEV_CLEAR", "BUS_ERROR"}, counts |-> "fed", until |-> "fed"]
Tms9914 == [clears |-> {}, tests |-> <<"TIMO", "BUS_ERROR", "DEV_CLEAR">>,
            consumes |-> {}, counts |-> "put", until |-> "sent"]

Trait == [tnt4882 |-> Tnt4882, ines |-> Ines, cb7210 |-> Cb7210,
          agilent_82350b |-> Agilent82350b, hp_82341 |-> Hp82341,
          fmh_fifo |-> FmhFifo, fmh_dma |-> FmhDma, fluke |-> FlukeDma, tms9914 |-> Tms9914]

Accelerated == DOMAIN Trait
OnTms9914 == {"tms9914", "agilent_82350b", "hp_82341"}
Indexed == {"agilent_82350b", "hp_82341"}   \* go through the buffer by an index
Waiters == {"fmh_fifo", "fmh_dma", "fluke"} \* wait_for_data_out_ready before a part

ASSUME DriverAssumption == Drivers \subseteq Accelerated \cup {"nec7210"}
ASSUME FifoAssumption == FifoSize \in Nat \ {0} /\ FifoSize % 2 = 0 \* words of two bytes

ASSUME DisturbanceAssumption == MaxDisturbances \in Nat

Calm == signals + clears + errors < MaxDisturbances

AccelInit ==
  /\ Init
  /\ driver \in (IF pc = "r_load" THEN Drivers \cap {"nec7210"} ELSE Drivers)
  /\ parts = <<>> /\ put = 0 /\ fifo = <<>> /\ stream = FALSE /\ skew = 0

-----------------------------------------------------------------------------
(* The parts of a load of n bytes, the last of them with EOI if e.           *)

Part(how, n, e) == IF n > 0 THEN <<[how |-> how, n |-> n, eoi |-> e]>> ELSE <<>>

Blocks(n) ==
  [i \in 1 .. (n + FifoSize - 1) \div FifoSize |->
     [how |-> "block", n |-> Min({FifoSize, n - (i - 1) * FifoSize}), eoi |-> FALSE]]

\* cb7210: words go through the FIFO, and at least one byte does not.
Words(n) == IF n > 2 THEN 2 * ((n - 1) \div 2) ELSE 0

Last(e) == Part("bytes", IF e THEN 1 ELSE 0, TRUE)
Body(n, e) == IF e THEN n - 1 ELSE n

Cb7210Parts(n, e) == Part("fifo", Words(n), FALSE) \o Part("pio", n - Words(n), e)

\* The first byte goes by tms9914_write, and so does the last one with EOI.
AgilentParts(n, e) ==
  Part("bytes", Min({1, Body(n, e)}), FALSE) \o Blocks(Max({Body(n, e) - 1, 0})) \o Last(e)

HpParts(n, e) == Blocks(Body(n, e)) \o Last(e)

DmaParts(n, e) == Blocks(Body(n, e)) \o Part("block", IF e THEN 1 ELSE 0, TRUE)

PartsOf(n, e) ==
  CASE driver \in {"tnt4882", "ines", "fmh_fifo"} -> Part("fifo", n, e)
    [] driver = "cb7210" -> Cb7210Parts(n, e)
    [] driver = "agilent_82350b" -> AgilentParts(n, e)
    [] driver = "hp_82341" -> HpParts(n, e)
    [] driver \in {"fmh_dma", "fluke"} -> DmaParts(n, e)
    [] driver = "tms9914" -> Part("bytes", n, e)

\* The driver's write is called.
CallWrite ==
  /\ driver \in Accelerated /\ parts = <<>> /\ Goto("w_begin", "a_part")
  /\ parts' = PartsOf(goal - pos, eoi)
  /\ state' = state \ Trait[driver].clears
  /\ UNCHANGED <<end, pos, goal, last, eoi, buf, user, ret, timer, status, chip, bus, counts,
                 driver, put, fifo, stream, skew>>

part == Head(parts)

-----------------------------------------------------------------------------
(* Waits.                                                                    *)

\* Where in `tests` the bits are that are set; the first of them is looked at first.
Failures(tests) == {i \in DOMAIN tests : tests[i] \in state \cup status}
FirstFailure(tests) == tests[Min(Failures(tests))]

ErrorOf(bit) == CASE bit = "TIMO" -> "ETIMEDOUT" [] bit = "DEV_CLEAR" -> "EINTR"
                  [] bit = "BUS_ERROR" -> "EIO"

\* The wait for the terminal count clears it by looking at it
\* (read_and_clear_event_status).
Events(from) == IF from = "a_done" THEN {"TERM_COUNT"} ELSE {}

\* A wait at a label ends, when its condition or one of `tests` holds: with success
\* at `next`, or with an error at `failed`.
Wait(from, condition, tests, consumes, next, failed) ==
  /\ pc = from
  /\ \/ /\ Failures(tests) = {} /\ condition
        /\ ret' = "ok" /\ pc' = next /\ state' = state \ Events(from)
     \/ /\ Failures(tests) # {}
        /\ ret' = ErrorOf(FirstFailure(tests)) /\ pc' = failed
        /\ state' = state \ ((IF FirstFailure(tests) \in consumes THEN consumes ELSE {})
                               \cup Events(from))
  /\ UNCHANGED <<end, pos, goal, last, eoi, buf, user, timer, status, chip, bus, counts, accel>>

ClearOrTimo == <<"DEV_CLEAR", "TIMO">>

\* The tests of the wait for room in the FIFO.
RoomTests == IF driver = "fmh_fifo" THEN ClearOrTimo ELSE Trait[driver].tests
RoomConsumes == IF driver = "fmh_fifo" THEN {"DEV_CLEAR"} ELSE Trait[driver].consumes

\* Mutant: bytes past the end of the part are put into the FIFO.
MutantRoom == FifoSize - Len(fifo)

\* How many bytes may be put into the FIFO now.
Room ==
  LET free == Min({FifoSize - Len(fifo), part.n - put}) IN
  IF driver = "cb7210" THEN 2 * (free \div 2) ELSE free

ChipReady == out = NoByte /\ ~atn

\* What ends the part.
PartDone ==
  CASE Trait[driver].until = "sent" -> fifo = <<>> /\ out = NoByte
    [] Trait[driver].until = "fed" -> fifo = <<>>
    [] Trait[driver].until = "event" -> "TERM_COUNT" \in state

\* Where a signal may end a wait, and what the wait returns for it.
Interruptible ==
  \/ pc = "a_part" /\ driver \in Waiters /\ ~ChipReady /\ Failures(ClearOrTimo) = {}
  \/ pc = "a_restart" /\ Failures(ClearOrTimo) = {}
  \/ pc = "a_space" /\ Room = 0 /\ Failures(RoomTests) = {}
  \/ pc = "a_done" /\ ~PartDone /\ Failures(Trait[driver].tests) = {}
  \/ pc = "a_sent" /\ out # NoByte /\ Failures(ClearOrTimo) = {}
  \/ pc \in {"b_wait", "b_drain"} /\ "WRITE_READY" \notin state
       /\ Failures(Tms9914.tests) = {}

AccelSignal ==
  /\ signals < MaxSignals /\ Calm /\ Interruptible
  /\ signals' = signals + 1
  /\ ret' = IF pc = "a_restart" THEN "EINTR" ELSE "ERESTARTSYS"
  /\ pc' = CASE pc = "a_part" -> "w_ret" [] pc \in {"b_wait", "b_drain"} -> "b_drain"
             [] OTHER -> "a_stop"
  /\ UNCHANGED <<end, pos, goal, last, eoi, buf, user, timer, status, state, chip, bus,
                 clears, errors, atns, accel>>

-----------------------------------------------------------------------------
(* Parts that go through a FIFO, the board's memory or DMA.                   *)

\* wait_for_data_out_ready, for the drivers that have it.
PartBegin ==
  Wait("a_part", driver \notin Waiters \/ ChipReady,
       IF driver \in Waiters THEN ClearOrTimo ELSE <<>>, {"DEV_CLEAR"}, "a_arm", "w_ret")

\* Mutant: every byte of the last part goes with EOI.
MutantByteAt(i) == [byte |-> pos + skew + i, eoi |-> part.eoi]

\* The byte at index i (from 1) of the part.
ByteAt(i) == [byte |-> pos + skew + i, eoi |-> part.eoi /\ i = part.n]

\* The counter is loaded and the FIFO cleared; a block is handed over, after
\* AUX_SEOI if it is the last byte.  hp_82341 may find the stream halted.  DO is
\* answered by the FIFO and not by the interrupt handler from now on.
Arm ==
  /\ pc = "a_arm" /\ part.how \in {"fifo", "block"}
  /\ fifo' = IF part.how = "block" THEN [i \in 1 .. part.n |-> ByteAt(i)] ELSE <<>>
  /\ put' = Len(fifo')
  /\ stream' = (driver # "hp_82341")
  /\ pc' = CASE driver = "hp_82341" -> "a_restart"
             [] driver # "hp_82341" /\ part.how = "block" -> "a_done"
             [] part.how = "fifo" -> "a_space"
  /\ state' = IF part.how = "block" \/ driver = "cb7210" THEN state \ {"WRITE_READY"} ELSE state
  /\ seoi' = (seoi \/ (part.how = "block" /\ part.eoi))
  /\ ints' = ints \ {"DO"} /\ ready' = FALSE
  /\ UNCHANGED <<end, pos, goal, last, eoi, buf, user, ret, timer, status,
                 out, in, held, bus, counts, driver, parts, skew>>

\* restart_write_fifo: it goes on when nobody holds off the data, or gives up.
RestartWriteFifo ==
  \/ /\ Goto("a_restart", "a_done") /\ stream' = TRUE
     /\ UNCHANGED <<end, pos, goal, last, eoi, buf, user, ret, timer, status, state, chip, bus,
                    counts, driver, parts, put, fifo, skew>>
  \/ Wait("a_restart", FALSE, ClearOrTimo, {}, "a_done", "a_stop")

\* Bytes are put where there is room, under board->spinlock.
FillFifo ==
  /\ pc = "a_space" /\ Failures(RoomTests) = {} /\ Room > 0
  /\ fifo' = fifo \o [i \in 1 .. Room |-> ByteAt(put + i)]
  /\ put' = put + Room
  /\ pc' = IF put' = part.n THEN "a_done" ELSE "a_space"
  /\ UNCHANGED <<end, pos, goal, last, eoi, buf, user, ret, timer, status, state, chip, bus,
                 counts, driver, parts, stream, skew>>

FillFails == Wait("a_space", FALSE, RoomTests, RoomConsumes, "a_done", "a_stop")

PartSent ==
  Wait("a_done", PartDone, Trait[driver].tests, Trait[driver].consumes,
       IF driver = "fluke" THEN "a_sent" ELSE "a_stop", "a_stop")

\* wait_for_sids_or_sgns of fluke_gpib.
LastByteSent ==
  Wait("a_sent", out = NoByte, ClearOrTimo, {"DEV_CLEAR"}, "a_stop", "a_stop")

\* Mutant: what was put into the FIFO counts as written.
MutantCounted == put

\* What the driver says was written of this part.
Counted ==
  CASE Trait[driver].counts = "fed" -> put - Len(fifo)
    [] Trait[driver].counts = "length less fifo" -> part.n - Len(fifo)
    [] Trait[driver].counts = "put" -> put

\* A part is over after `counted` bytes of it.  A driver that has an index into
\* the buffer does not correct it.
PartEnds(counted) ==
  /\ parts' = Tail(parts)
  /\ pc' = IF ret' = "ok" /\ parts' # <<>> THEN "a_part" ELSE "w_ret"
  /\ skew' = IF driver \in Indexed THEN skew + part.n - counted ELSE skew
  /\ put' = 0

\* The FIFO is stopped, and the counter is read.
StopPart ==
  /\ pc = "a_stop"
  /\ pos' = pos + Counted /\ UNCHANGED ret /\ PartEnds(Counted)
  /\ stream' = FALSE /\ fifo' = <<>>
  /\ UNCHANGED <<end, goal, last, eoi, buf, user, timer, status, state, chip, bus, counts, driver>>

\* cb7210: nec7210_write for what is left.
PioPart ==
  /\ Goto("a_arm", "w_begin") /\ part.how = "pio"
  /\ UNCHANGED <<end, pos, goal, last, eoi, buf, user, ret, timer, status, state, chip, bus,
                 counts, accel>>

-----------------------------------------------------------------------------
(* tms9914_write.                                                             *)

\* A turn of pio_write begins with the bytes up to `to`; AUX_SEOI comes first for
\* the last byte.
PioWrite(to, e) ==
  /\ goal' = to /\ seoi' = (seoi \/ e)
  /\ parts' = IF e THEN <<[part EXCEPT !.eoi = FALSE]>> \o Tail(parts) ELSE parts

TmsWrite ==
  /\ pc = "a_arm" /\ part.how = "bytes" /\ pc' = "b_wait"
  /\ IF part.eoi /\ part.n = 1 THEN PioWrite(pos + 1, TRUE)
     ELSE PioWrite(pos + part.n - (IF part.eoi THEN 1 ELSE 0), FALSE)
  /\ state' = state \ {"BUS_ERROR", "DEV_CLEAR"} /\ put' = 0
  /\ UNCHANGED <<end, pos, last, eoi, buf, user, ret, timer, status,
                 ints, out, ready, in, held, bus, counts, driver, fifo, stream, skew>>

\* pio_write_wait before a byte; an error, or a signal, leads to the wait after the
\* last one.
TmsWait ==
  Wait("b_wait", "WRITE_READY" \in state, Tms9914.tests, {}, "b_put", "b_drain")

TmsPut ==
  /\ Goto("b_put", IF pos + 1 < goal THEN "b_wait" ELSE "b_drain")
  /\ state' = state \ {"WRITE_READY"}
  /\ pos' = pos + 1 /\ put' = put + 1
  /\ out' = [byte |-> pos + skew + 1, eoi |-> seoi] /\ seoi' = FALSE /\ ready' = FALSE
  /\ UNCHANGED <<end, goal, last, eoi, buf, user, ret, timer, status, ints, in, held, bus, counts,
                 driver, parts, fifo, stream, skew>>

\* pio_write_wait after the last byte decides the result alone: it does not block
\* while a signal is pending, but succeeds if WRITE_READY came in time.
DrainResult ==
  CASE Failures(Tms9914.tests) # {} -> ErrorOf(FirstFailure(Tms9914.tests))
    [] Failures(Tms9914.tests) = {} /\ "WRITE_READY" \in state -> "ok"
    [] OTHER -> "ERESTARTSYS"

TmsDrain ==
  /\ pc = "b_drain"
  /\ "WRITE_READY" \in state \/ Failures(Tms9914.tests) # {} \/ ret = "ERESTARTSYS"
  /\ ret' = DrainResult
  /\ \/ /\ ret' = "ok" /\ part.eoi
        /\ pc' = "b_wait" /\ PioWrite(pos + 1, TRUE) /\ UNCHANGED <<put, skew>>
     \/ /\ ret' # "ok" \/ ~part.eoi
        /\ PartEnds(put) /\ UNCHANGED <<goal, seoi>>
  /\ UNCHANGED <<end, pos, last, eoi, buf, user, timer, status, state, ints, out, ready, in, held,
                 bus, counts, driver, fifo, stream>>

-----------------------------------------------------------------------------
\* The chip takes a byte from the FIFO; the counter's last is an event.
Feed ==
  /\ stream /\ fifo # <<>> /\ ChipReady
  /\ out' = [Head(fifo) EXCEPT !.eoi = @ \/ seoi] /\ seoi' = FALSE /\ ready' = FALSE
  /\ fifo' = Tail(fifo)
  /\ ints' = IF driver \in Indexed /\ Len(fifo) = 1 THEN ints \cup {"TC"} ELSE ints
  /\ UNCHANGED <<caller, timer, status, state, in, held, bus, counts,
                 driver, parts, put, stream, skew>>

\* The steps of module Transfer, as this board takes part in them: nec7210_write is
\* called as a part of its own, a new load begins without parts, and DO matters to the
\* drivers that look at WRITE_READY, when nothing feeds the chip.  A controller that
\* takes over is left to the nec7210: a FIFO only waits for it as for a slow listener.
Load == WriteLoad /\ parts' = <<>> /\ skew' = 0 /\ UNCHANGED <<driver, put, fifo, stream>>

PioStep ==
  /\ \/ WriteBegin /\ (driver = "nec7210" \/ parts # <<>>)
     \/ PioWait \/ PioPut \/ PioDrain \/ EoiWait \/ SendSeoi \/ WriteReturn \/ WriteStop
     \/ ReadLoad \/ ReadBegin \/ PioRead \/ PioCheck \/ ReadReturn
  /\ UNCHANGED accel

BusStep ==
  /\ \/ /\ RaiseDO /\ driver \in OnTms9914 \cup {"nec7210", "cb7210"}
        /\ ~stream /\ pc # "a_restart"
     \/ Accept \/ TalkerSend
     \/ (Calm /\ (BusError \/ DeviceClear \/ Signal))
     \/ ChangeAtn /\ driver = "nec7210"
     \/ Restart
  /\ UNCHANGED accel

TimerStep == (Expire \/ WatchdogTimeout) /\ UNCHANGED accel
InterruptStep == Interrupt /\ UNCHANGED accel

AccelStep ==
  \/ CallWrite \/ PartBegin \/ Arm \/ RestartWriteFifo \/ FillFifo \/ FillFails \/ PartSent
  \/ LastByteSent \/ StopPart \/ PioPart \/ TmsWrite \/ TmsWait \/ TmsPut \/ TmsDrain

IoctlStep == Load \/ PioStep \/ AccelStep

AccelNext == IoctlStep \/ TimerStep \/ InterruptStep \/ BusStep \/ AccelSignal \/ Feed

\* As in module Transfer: the ioctl, the timer and the interrupt handler run, devices
\* and signals owe nothing.
AccelSpec ==
  /\ AccelInit /\ [][AccelNext]_allVars
  /\ WF_allVars(IoctlStep) /\ WF_allVars(TimerStep) /\ WF_allVars(InterruptStep)

-----------------------------------------------------------------------------
\* Every variable stays within its type, and no part is overrun.
AccelTypeOK ==
  /\ TypeOK
  /\ driver \in Drivers
  /\ parts \in Seq([how : {"fifo", "block", "bytes", "pio"}, n : 1 .. BufferLength, eoi : BOOLEAN])
  /\ put \in 0 .. (IF parts = <<>> THEN 0 ELSE part.n)
  /\ Len(fifo) <= put /\ \A i \in DOMAIN fifo : fifo[i].byte \in 1 .. Length
  /\ stream \in BOOLEAN /\ skew \in 0 .. BufferLength

\* What a driver on a tms9914 does next can go wrong when a signal comes: the second wait
\* of pio_write reports success for bytes that were not written, and the event of the
\* terminal count of an interrupted block can end the wait for another.
Astray == driver \in OnTms9914 /\ signals > 0

\* EOI goes with the last byte of the transfer and no other, whatever parts the driver
\* cuts it into, and however signals cut it up.
EoiWithLast == Astray \/ EoiOnLastByte

\* The listener misses a byte only if one was lost on the bus: what a driver says was
\* written when a signal ends its wait is what was sent, so that the ioctl, issued again,
\* goes on with the next byte.  Not so for ines and cb7210, which count what was only put
\* into the FIFO, or less than that, nor for an index that has gone astray.
MissedAfterError ==
  gap => \/ driver = "nec7210" /\ ResentAfterError
         \/ driver # "nec7210" /\ errors > 0
         \/ driver \in Indexed \cup {"ines", "cb7210"} /\ signals > 0

\* A write that reports success has sent everything: the last byte was accepted, or is in
\* the chip, or was lost on the bus.  Not so for ines, which counts the bytes that it has
\* not yet put into the FIFO as written: write_ioctl then takes all as sent, and
\* suppresses the error.
SentInFull ==
  pc = "w_done" /\ ret = "ok" =>
    accepted = Length \/ out.byte = Length \/ errors > 0 \/ driver = "ines"
=============================================================================
