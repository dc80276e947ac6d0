------------------------- MODULE AccelTransfer_proofs -------------------------
(***************************************************************************)
(* Proofs about AccelTransfer and the parts of Transfer that it is made    *)
(* of, for transfers, buffers and FIFOs of any size and any disturbances.  *)
(***************************************************************************)
EXTENDS AccelTransfer, SequenceTheorems, TLAPS

\* What a read leaves to itself of what a write uses, and the other way round.
Sides ==
  \/ /\ pc \in Reading /\ driver = "nec7210"
     /\ parts = <<>> /\ fifo = <<>> /\ out = NoByte /\ ~stream
  \/ /\ pc \in Writing
     /\ buf = <<>> /\ user = <<>> /\ in = NoByte /\ held = FALSE

Interrupts == {"DO", "DI", "END", "ERR", "DEC", "TC"}

\* The byte in DIR is the newest that was sent, and the interrupt that announces it,
\* with END if it has one, is pending or noted, and never both.
InByte ==
  /\ ints \subseteq Interrupts
  /\ in # NoByte => in.byte = sent /\ sent > 0 /\ (in.eoi <=> sent \in ends)
  /\ "DI" \in ints => in # NoByte /\ "READ_READY" \notin state
  /\ in # NoByte => "DI" \in ints \/ "READ_READY" \in state
  /\ "READ_READY" \in state => in # NoByte
  /\ "END" \in ints <=> "DI" \in ints /\ sent \in ends
  /\ "RECEIVED_END" \in state <=> "READ_READY" \in state /\ sent \in ends

\* Every byte that was sent is in the user's buffer, in the board's, or in DIR.
Whole ==
  /\ ret # "ERESTARTSYS"
  /\ \A i \in DOMAIN user : user[i] = i
  /\ pc # "r_done" =>
       /\ \A i \in DOMAIN buf : buf[i] = Len(user) + i
       /\ sent = Len(user) + Len(buf) + (IF in = NoByte THEN 0 ELSE 1)

\* A read ends with the byte that had END.
Ended ==
  /\ pc \in {"r_load", "r_begin", "r_done"} => buf = <<>>
  /\ pc \in {"r_begin", "r_wait"} => ret = "ok"
  /\ end => pc \in {"r_ret", "r_done"} /\ ret = "ok"
  /\ end /\ pc = "r_ret" => buf # <<>>
  /\ \A i \in DOMAIN buf : buf[i] \in ends <=> i = Len(buf) /\ end
  /\ \A i \in DOMAIN user : user[i] \in ends <=> i = Len(user) /\ end /\ pc = "r_done"

Stores ==
  /\ sent \in 0 .. TalkerLength /\ ends \subseteq 1 .. sent
  /\ buf \in Seq(1 .. sent) /\ user \in Seq(1 .. sent)

ReadInv ==
  /\ Sides /\ Stores
  /\ pc \in Reading => InByte /\ Ended /\ signals \in Nat /\ (signals = 0 => Whole)
  /\ HoldoffTracked

-----------------------------------------------------------------------------
\* The variables of a read, without what the handler and the bus do to them.
ReadVars == <<buf, user, in, held, sent, ends>>

LEMMA LabelsApart == Reading \cap Writing = {}
BY DEF Reading, Writing

\* A wait leaves all but the result, the label and the chip's bits alone.
LEMMA WaitFrame ==
  ASSUME NEW from, NEW condition, NEW tests, NEW consumes, NEW next, NEW failed,
         Wait(from, condition, tests, consumes, next, failed)
  PROVE  pc = from /\ pc' \in {next, failed} /\ UNCHANGED ReadVars
BY DEF Wait, chip, ReadVars, bus

\* A write goes on as a write, and touches nothing of a read.
LEMMA AccelFrame == AccelStep => pc \in Writing /\ pc' \in Writing /\ UNCHANGED ReadVars
<1> SUFFICES ASSUME AccelStep PROVE pc \in Writing /\ pc' \in Writing /\ UNCHANGED ReadVars
  OBVIOUS
<1>1. CASE CallWrite
  BY <1>1 DEF CallWrite, Goto, Writing, ReadVars, bus, chip
<1>2. CASE PartBegin
  BY <1>2, WaitFrame DEF PartBegin, Writing
<1>3. CASE Arm
  BY <1>3 DEF Arm, Writing, ReadVars, bus
<1>4. CASE RestartWriteFifo
  <2>1. CASE Goto("a_restart", "a_done") /\ UNCHANGED <<buf, user, chip, bus>>
    BY <2>1 DEF Goto, Writing, ReadVars, bus, chip
  <2>2. CASE Wait("a_restart", FALSE, ClearOrTimo, {}, "a_done", "a_stop")
    BY <2>2, WaitFrame DEF Writing
  <2> QED
    BY <1>4, <2>1, <2>2 DEF RestartWriteFifo
<1>5. CASE FillFifo
  BY <1>5 DEF FillFifo, Writing, ReadVars, bus, chip
<1>6. CASE FillFails
  BY <1>6, WaitFrame DEF FillFails, Writing
<1>7. CASE PartSent
  <2>1. PICK next \in {"a_sent", "a_stop"} :
          Wait("a_done", PartDone, Trait[driver].tests, Trait[driver].consumes, next, "a_stop")
    BY <1>7 DEF PartSent
  <2> QED
    BY <2>1, WaitFrame DEF Writing
<1>8. CASE LastByteSent
  BY <1>8, WaitFrame DEF LastByteSent, Writing
<1>9. CASE StopPart
  BY <1>9 DEF StopPart, PartEnds, Writing, ReadVars, bus, chip
<1>10. CASE PioPart
  BY <1>10 DEF PioPart, Goto, Writing, ReadVars, bus, chip
<1>11. CASE TmsWrite
  BY <1>11 DEF TmsWrite, Writing, ReadVars, bus
<1>12. CASE TmsWait
  BY <1>12, WaitFrame DEF TmsWait, Writing
<1>13. CASE TmsPut
  BY <1>13 DEF TmsPut, Goto, Writing, ReadVars, bus
<1>14. CASE TmsDrain
  BY <1>14 DEF TmsDrain, PartEnds, Writing, ReadVars, bus
<1> QED
  BY <1>1, <1>2, <1>3, <1>4, <1>5, <1>6, <1>7, <1>8, <1>9, <1>10, <1>11, <1>12, <1>13,
     <1>14 DEF AccelStep

\* So do the write's steps of module Transfer, and the bus beside them.
WriteStep ==
  \/ WriteLoad \/ WriteBegin \/ PioWait \/ PioPut \/ PioDrain \/ EoiWait \/ SendSeoi
  \/ WriteReturn \/ WriteStop

LEMMA WriteFrame == WriteStep => pc \in Writing /\ pc' \in Writing /\ UNCHANGED ReadVars
<1>1. ASSUME NEW from \in Writing, NEW next \in Writing, WriteWait(from, next)
      PROVE  pc \in Writing /\ pc' \in Writing
  BY <1>1 DEF WriteWait, Writing
<1>2. WriteLoad \/ WriteBegin \/ PioPut \/ SendSeoi \/ WriteReturn \/ WriteStop
        => pc \in Writing /\ pc' \in Writing /\ UNCHANGED ReadVars
  BY DEF WriteLoad, WriteBegin, PioPut, SendSeoi, WriteReturn, WriteStop, Goto, Writing,
     ReadVars, bus, chip
<1>3. PioWait \/ PioDrain \/ EoiWait => UNCHANGED ReadVars
  BY DEF PioWait, PioDrain, EoiWait, ReadVars, bus, chip
<1>4. PioWait => pc \in Writing /\ pc' \in Writing
  BY <1>1 DEF PioWait, Goto, Writing
<1>5. PioDrain \/ EoiWait => pc \in Writing /\ pc' \in Writing
  <2>1. PioDrain => \E next \in {"w_eoi", "w_ret"} : WriteWait("w_drain", next)
    BY DEF PioDrain
  <2> QED
    BY <1>1, <2>1 DEF EoiWait, Writing
<1> QED
  BY <1>2, <1>3, <1>4, <1>5 DEF WriteStep

LEMMA InWriting ==
  ASSUME pc \in Writing, AccelNext
  PROVE  pc' \in Writing /\ UNCHANGED ReadVars
<1>1. CASE Load \/ AccelStep
  BY <1>1, AccelFrame, WriteFrame DEF Load, WriteStep
<1>2. CASE PioStep
  <2>1. ~(ReadLoad \/ ReadBegin \/ PioRead \/ PioCheck \/ ReadReturn)
    BY LabelsApart DEF ReadLoad, ReadBegin, PioRead, PioCheck, ReadReturn, Goto, Writing, Reading
  <2> QED
    BY <1>2, <2>1, WriteFrame DEF PioStep, WriteStep
<1>3. CASE TimerStep \/ InterruptStep
  BY <1>3 DEF TimerStep, InterruptStep, Expire, WatchdogTimeout, Interrupt, caller, chip, ReadVars, bus
<1>4. CASE BusStep
  <2>1. ~TalkerSend
    BY LabelsApart DEF TalkerSend
  <2>2. RaiseDO \/ Accept \/ BusError \/ DeviceClear \/ ChangeAtn
          => pc' = pc /\ UNCHANGED ReadVars
    BY DEF RaiseDO, Accept, BusError, DeviceClear, ChangeAtn, caller, chip, ReadVars, bus
  <2>3. Signal \/ Restart => pc' \in Writing /\ UNCHANGED ReadVars
    BY LabelsApart DEF Signal, Restart, Goto, Writing, Reading, chip, ReadVars, bus
  <2> QED
    BY <1>4, <2>1, <2>2, <2>3 DEF BusStep
<1>5. CASE AccelSignal
  BY <1>5 DEF AccelSignal, Writing, chip, ReadVars, bus
<1>6. CASE Feed
  BY <1>6 DEF Feed, caller, ReadVars, bus
<1> QED
  BY <1>1, <1>2, <1>3, <1>4, <1>5, <1>6 DEF AccelNext, IoctlStep

\* The steps of a read, and what goes on beside it.
ReadStep == ReadLoad \/ ReadBegin \/ PioRead \/ PioCheck \/ ReadReturn
ReadBus == DeviceClear \/ Signal \/ ChangeAtn \/ Restart

LEMMA InReading ==
  ASSUME pc \in Reading, Sides, AccelNext
  PROVE  /\ ReadStep \/ TimerStep \/ InterruptStep \/ TalkerSend \/ ReadBus
         /\ pc' \in Reading /\ UNCHANGED <<out, accel>>
<1>1. driver = "nec7210" /\ parts = <<>> /\ fifo = <<>> /\ out = NoByte /\ pc \notin Writing
  BY LabelsApart DEF Sides
<1>2. ~(Load \/ AccelStep \/ WriteStep)
  BY <1>1, AccelFrame, WriteFrame DEF Load, WriteStep
<1>3. ~AccelSignal
  BY <1>1 DEF AccelSignal, Interruptible, Writing
<1>4. ~(RaiseDO \/ Accept \/ BusError \/ Feed)
  BY <1>1 DEF RaiseDO, Accept, BusError, Feed
<1>5. ReadStep => pc' \in Reading /\ out' = out
  BY DEF ReadStep, ReadLoad, ReadBegin, PioRead, AfterByte, PioCheck, ReadReturn, Goto, Reading, chip
<1>6. TimerStep \/ InterruptStep \/ TalkerSend => pc' = pc /\ out' = out
  BY DEF TimerStep, Expire, WatchdogTimeout, InterruptStep, Interrupt, TalkerSend, caller, chip
<1>7. ReadBus => pc' \in Reading /\ out' = out
  BY LabelsApart DEF ReadBus, DeviceClear, Signal, ChangeAtn, Restart, Goto, Writing, Reading,
     caller, chip
<1>8. CASE PioStep
  BY <1>2, <1>5, <1>8 DEF PioStep, WriteStep, ReadStep
<1>9. CASE TimerStep \/ InterruptStep
  BY <1>6, <1>9 DEF TimerStep, InterruptStep
<1>10. CASE BusStep
  BY <1>4, <1>6, <1>7, <1>10 DEF BusStep, ReadBus
<1> QED
  BY <1>2, <1>3, <1>4, <1>8, <1>9, <1>10 DEF AccelNext, IoctlStep

\* A transfer remains what it began as.
LEMMA SidesStep ==
  ASSUME Sides, AccelNext
  PROVE  Sides'
<1>1. CASE pc \in Writing
  <2>1. pc' \in Writing /\ UNCHANGED ReadVars
    BY <1>1, InWriting
  <2> QED
    BY <1>1, <2>1, LabelsApart DEF Sides, ReadVars, bus
<1>2. CASE pc \in Reading
  <2>1. pc' \in Reading /\ UNCHANGED <<out, accel>>
    BY <1>2, InReading
  <2> QED
    BY <1>2, <2>1, LabelsApart DEF Sides, accel
<1> QED
  BY <1>1, <1>2 DEF Sides

-----------------------------------------------------------------------------
\* Sequences of bytes.
LEMMA AppendByte ==
  ASSUME NEW n \in Nat, NEW s \in Seq(1..n), NEW b \in 1..n, NEW r, r = Append(s, b)
  PROVE  /\ r \in Seq(1..n) /\ r # <<>> /\ Len(r) = Len(s) + 1
         /\ DOMAIN r = 1..(Len(s) + 1) /\ r[Len(s) + 1] = b
         /\ \A i \in 1..Len(s) : r[i] = s[i]
<1>1. r \in Seq(1..n) /\ Len(r) = Len(s) + 1 /\ Len(s) \in Nat
  BY AppendProperties, LenProperties
<1>2. r # <<>> /\ DOMAIN r = 1..Len(r)
  BY <1>1, LenProperties
<1>3. r[Len(s) + 1] = b /\ \A i \in 1..Len(s) : r[i] = s[i]
  BY AppendProperties
<1> QED
  BY <1>1, <1>2, <1>3

LEMMA JoinBytes ==
  ASSUME NEW n \in Nat, NEW s \in Seq(1..n), NEW t \in Seq(1..n), NEW r, r = s \o t
  PROVE  /\ r \in Seq(1..n) /\ Len(r) = Len(s) + Len(t)
         /\ DOMAIN r = 1..(Len(s) + Len(t)) /\ Len(s) \in Nat /\ Len(t) \in Nat
         /\ \A i \in 1..Len(s) : r[i] = s[i]
         /\ \A i \in 1..Len(t) : r[Len(s) + i] = t[i]
<1>1. r \in Seq(1..n) /\ Len(r) = Len(s) + Len(t)
  BY ConcatProperties
<1>2. DOMAIN r = 1..Len(r) /\ Len(s) \in Nat /\ Len(t) \in Nat
  BY <1>1, LenProperties
<1>3. \A i \in 1..Len(s) : r[i] = s[i]
  BY ConcatProperties
<1>4. \A i \in 1..Len(t) : r[Len(s) + i] = t[i]
  BY <1>2, ConcatProperties
<1> QED
  BY <1>1, <1>2, <1>3, <1>4

\* An index into the joined bytes is one into the first or the second part.
LEMMA JoinIndex ==
  ASSUME NEW n \in Nat, NEW s \in Seq(1..n), NEW t \in Seq(1..n), NEW r, r = s \o t,
         NEW i \in DOMAIN r
  PROVE  \/ i \in 1..Len(s) /\ r[i] = s[i]
         \/ \E j \in 1..Len(t) : /\ i = Len(s) + j /\ r[i] = t[j]
                                 /\ i = Len(r) <=> j = Len(t)
<1>1. /\ Len(r) = Len(s) + Len(t) /\ DOMAIN r = 1..(Len(s) + Len(t))
      /\ Len(s) \in Nat /\ Len(t) \in Nat
      /\ \A k \in 1..Len(s) : r[k] = s[k]
      /\ \A k \in 1..Len(t) : r[Len(s) + k] = t[k]
  BY JoinBytes
<1>2. CASE i \in 1..Len(s)
  BY <1>1, <1>2
<1>3. CASE i \notin 1..Len(s)
  <2>1. PICK j \in 1..Len(t) : i = Len(s) + j
    <3>1. i - Len(s) \in 1..Len(t) /\ i = Len(s) + (i - Len(s))
      BY <1>1, <1>3
    <3> QED
      BY <3>1
  <2>2. r[i] = t[j]
    BY <1>1, <2>1
  <2>3. i = Len(r) <=> j = Len(t)
    <3> DEFINE m == Len(s)
               k == Len(t)
               l == Len(r)
    <3>1. m \in Nat /\ k \in Nat /\ l = m + k /\ i = m + j /\ j \in 1..k
      BY <1>1, <2>1
    <3> HIDE DEF m, k, l
    <3>2. i = l <=> j = k
      BY <3>1
    <3> QED
      BY <3>2 DEF k, l
  <2> QED
    BY <2>1, <2>2, <2>3
<1> QED
  BY <1>2, <1>3

LEMMA MoreBytes ==
  ASSUME NEW n \in Nat, NEW s \in Seq(1..n)
  PROVE  s \in Seq(1..(n + 1)) /\ DOMAIN s = 1..Len(s) /\ Len(s) \in Nat
<1>1. 1..n \subseteq 1..(n + 1)
  OBVIOUS
<1>2. s \in [1..Len(s) -> 1..n] /\ Len(s) \in Nat /\ DOMAIN s = 1..Len(s)
  BY LenProperties
<1> QED
  BY <1>1, <1>2, SeqDef

\* What is in the buffers was sent.
LEMMA StoresStep ==
  ASSUME Sides, Stores, pc \in Reading => InByte, AccelNext
  PROVE  Stores'
<1>1. CASE pc \in Writing
  BY <1>1, InWriting DEF Stores, ReadVars
<1>2. ASSUME pc \in Reading, UNCHANGED <<buf, user, sent, ends>> PROVE Stores'
  BY <1>2 DEF Stores
<1>3. CASE pc \in Reading
  <2>0. InByte /\ sent \in Nat
    BY <1>3 DEF Stores
  <2>1. ReadStep \/ TimerStep \/ InterruptStep \/ TalkerSend \/ ReadBus
    BY <1>3, InReading
  <2>2. CASE ReadLoad
    BY <2>2 DEF ReadLoad, Stores, bus
  <2>3. CASE ReadBegin \/ PioCheck
    BY <1>2, <1>3, <2>3 DEF ReadBegin, PioCheck, bus
  <2>4. CASE PioRead
    <3>1. UNCHANGED <<user, sent, ends>>
      BY <2>4 DEF PioRead, bus
    <3>2. CASE "READ_READY" \in state
      <4>1. buf' = Append(buf, in.byte) /\ in.byte \in 1..sent
        BY <2>0, <2>4, <3>2 DEF PioRead, InByte
      <4> QED
        BY <2>0, <3>1, <4>1, AppendByte DEF Stores
    <3>3. CASE "READ_READY" \notin state
      BY <1>2, <1>3, <2>4, <3>1, <3>3 DEF PioRead
    <3> QED
      BY <3>2, <3>3
  <2>5. CASE ReadReturn
    <3>1. UNCHANGED <<sent, ends>> /\ buf' = <<>> /\ user' \in {user, user \o buf}
      BY <2>5 DEF ReadReturn, bus
    <3>2. user' \in Seq(1..sent)
      BY <2>0, <3>1, JoinBytes DEF Stores
    <3> QED
      BY <3>1, <3>2 DEF Stores
  <2>6. CASE TalkerSend
    <3>1. /\ UNCHANGED <<buf, user>> /\ sent' = sent + 1 /\ sent < TalkerLength
          /\ ends' \in {ends, ends \cup {sent + 1}}
      BY <2>6 DEF TalkerSend, caller
    <3>2. buf \in Seq(1..(sent + 1)) /\ user \in Seq(1..(sent + 1))
      BY <2>0, MoreBytes DEF Stores
    <3>3. sent + 1 \in 0..TalkerLength /\ ends' \subseteq 1..(sent + 1)
      BY <3>1, LengthAssumption DEF Stores
    <3> QED
      BY <3>1, <3>2, <3>3 DEF Stores
  <2>7. CASE TimerStep \/ InterruptStep
    BY <1>2, <1>3, <2>7 DEF TimerStep, Expire, WatchdogTimeout, InterruptStep, Interrupt, caller, bus
  <2>8. CASE ReadBus
    BY <1>2, <1>3, <2>8 DEF ReadBus, DeviceClear, Signal, ChangeAtn, Restart, caller, bus
  <2> QED
    BY <2>1, <2>2, <2>3, <2>4, <2>5, <2>6, <2>7, <2>8 DEF ReadStep
<1> QED
  BY <1>1, <1>3 DEF Sides

LEMMA NotedBits ==
  ASSUME NEW bit \in Interrupts
  PROVE  /\ "READ_READY" \in Noted(bit) <=> bit = "DI"
         /\ "RFD_HOLDOFF" \in Noted(bit) <=> bit = "DI"
         /\ "RECEIVED_END" \in Noted(bit) <=> bit = "END"
BY DEF Noted, Interrupts

\* The handler notes what it finds, and the byte is taken once.
LEMMA InByteStep ==
  ASSUME Sides, Stores, InByte, pc \in Reading, AccelNext
  PROVE  InByte'
<1>1. ReadStep \/ TimerStep \/ InterruptStep \/ TalkerSend \/ ReadBus
  BY InReading
<1>2. sent \in Nat
  BY DEF Stores
<1>3. CASE ReadLoad \/ ReadReturn
  BY <1>3 DEF ReadLoad, ReadReturn, InByte, chip, bus
<1>4. CASE ReadBegin \/ PioCheck
  BY <1>4 DEF ReadBegin, PioCheck, ReleaseHoldoff, InByte, bus
<1>5. CASE PioRead
  BY <1>5 DEF PioRead, InByte, NoByte, bus
<1>6. CASE TimerStep
  BY <1>6 DEF TimerStep, Expire, WatchdogTimeout, InByte, chip, bus
<1>7. CASE InterruptStep
  <2>1. ints' = {} /\ UNCHANGED <<in, sent, ends>>
    BY <1>7 DEF InterruptStep, Interrupt, bus
  <2>2. "READ_READY" \in state' <=> "READ_READY" \in state \/ "DI" \in ints
    BY <1>7, NotedBits DEF InterruptStep, Interrupt, InByte
  <2>3. "RECEIVED_END" \in state' <=> "RECEIVED_END" \in state \/ "END" \in ints
    BY <1>7, NotedBits DEF InterruptStep, Interrupt, InByte
  <2> QED
    BY <2>1, <2>2, <2>3 DEF InByte
<1>8. CASE TalkerSend
  BY <1>2, <1>8 DEF TalkerSend, InByte, Interrupts, Stores, NoByte
<1>9. CASE ReadBus
  BY <1>9 DEF ReadBus, DeviceClear, Signal, ChangeAtn, Restart, InByte, Interrupts, chip, bus
<1> QED
  BY <1>1, <1>3, <1>4, <1>5, <1>6, <1>7, <1>8, <1>9 DEF ReadStep

LEMMA EndedStep ==
  ASSUME Sides, Stores, InByte, Ended, pc \in Reading, AccelNext
  PROVE  Ended'
<1>1. ReadStep \/ TimerStep \/ InterruptStep \/ TalkerSend \/ ReadBus
  BY InReading
<1>2. /\ sent \in Nat /\ buf \in Seq(1..sent) /\ user \in Seq(1..sent)
      /\ DOMAIN buf = 1..Len(buf) /\ DOMAIN user = 1..Len(user)
      /\ Len(buf) \in Nat /\ Len(user) \in Nat
  BY MoreBytes DEF Stores
<1>3. CASE ReadLoad \/ ReadBegin \/ PioCheck
  BY <1>3 DEF ReadLoad, ReadBegin, PioCheck, Goto, Ended, bus
<1>4. CASE PioRead
  <2>1. pc = "r_wait" /\ ~end /\ ret = "ok" /\ UNCHANGED <<user, ends, sent, ret>>
    BY <1>4 DEF PioRead, Goto, Ended, bus
  <2>2. \A i \in DOMAIN user : user[i] \notin ends
    BY <2>1 DEF Ended
  <2>3. CASE "READ_READY" \in state
    <3>1. buf' = Append(buf, sent) /\ sent \in 1..sent
      BY <1>2, <1>4, <2>3 DEF PioRead, InByte
    <3>5. end' <=> sent \in ends
      BY <1>4, <2>3 DEF PioRead, InByte
    <3>6. pc' = IF end' THEN "r_ret" ELSE "r_check"
      BY <1>4, <2>3 DEF PioRead, Goto, AfterByte
    <3>2. /\ Len(buf') = Len(buf) + 1 /\ buf' # <<>> /\ DOMAIN buf' = 1..(Len(buf) + 1)
          /\ buf'[Len(buf) + 1] = sent /\ \A i \in 1..Len(buf) : buf'[i] = buf[i]
      <4>1. /\ buf' \in Seq(1..sent) /\ Len(buf') = Len(buf) + 1 /\ buf' # <<>>
            /\ buf'[Len(buf) + 1] = sent /\ \A i \in 1..Len(buf) : buf'[i] = buf[i]
        BY <1>2, <3>1, AppendByte
      <4>2. DOMAIN buf' = 1..Len(buf')
        BY <1>2, <4>1, MoreBytes
      <4> QED
        BY <4>1, <4>2
    <3>3. \A i \in 1..Len(buf) : buf'[i] \notin ends
      BY <1>2, <2>1, <3>2 DEF Ended
    <3>4. \A i \in DOMAIN buf' : buf'[i] \in ends <=> i = Len(buf') /\ end'
      BY <1>2, <3>2, <3>3, <3>5
    <3> QED
      BY <2>1, <2>2, <3>2, <3>4, <3>6 DEF Ended
  <2>4. CASE "READ_READY" \notin state
    BY <1>4, <2>1, <2>2, <2>4 DEF PioRead, Goto, Ended
  <2> QED
    BY <2>3, <2>4
<1>5. CASE ReadReturn
  <2>1. pc = "r_ret" /\ buf' = <<>> /\ UNCHANGED <<end, ret, ends, sent>>
    BY <1>5 DEF ReadReturn, Goto, bus
  <2>2. \A i \in DOMAIN user : user[i] \notin ends
    BY <2>1 DEF Ended
  <2>3. CASE ret = "ok"
    <3>1. user' = user \o buf /\ pc' \in {"r_done", "r_load"} /\ (end => pc' = "r_done")
      BY <1>5, <2>3 DEF ReadReturn, Goto
    <3>2. ASSUME NEW i \in DOMAIN user'
          PROVE  user'[i] \in ends <=> i = Len(user') /\ end
      <4>1. CASE i \in 1..Len(user) /\ user'[i] = user[i]
        <5>1. user'[i] \notin ends
          BY <1>2, <2>2, <4>1
        <5>2. end => i # Len(user')
          <6>1. end => Len(buf) > 0
            BY <1>2, <2>1 DEF Ended
          <6>2. Len(user') = Len(user) + Len(buf)
            BY <1>2, <3>1, JoinBytes
          <6> QED
            BY <1>2, <4>1, <6>1, <6>2
        <5> QED
          BY <5>1, <5>2
      <4>2. ASSUME NEW j \in 1..Len(buf), user'[i] = buf[j], i = Len(user') <=> j = Len(buf)
            PROVE  user'[i] \in ends <=> i = Len(user') /\ end
        <5>1. buf[j] \in ends <=> j = Len(buf) /\ end
          BY <1>2 DEF Ended
        <5> QED
          BY <4>2, <5>1
      <4> QED
        BY <1>2, <3>1, <4>1, <4>2, JoinIndex
    <3> QED
      BY <2>1, <2>3, <3>1, <3>2 DEF Ended
  <2>4. CASE ret # "ok"
    BY <1>5, <2>1, <2>2, <2>4 DEF ReadReturn, Goto, Ended
  <2> QED
    BY <2>3, <2>4
<1>6. CASE TimerStep \/ InterruptStep
  BY <1>6 DEF TimerStep, Expire, WatchdogTimeout, InterruptStep, Interrupt, Ended, caller, bus
<1>7. CASE TalkerSend
  <2>1. UNCHANGED caller /\ ends' \in {ends, ends \cup {sent + 1}}
    BY <1>7 DEF TalkerSend
  <2>2. /\ \A i \in DOMAIN buf : buf[i] \in ends' <=> buf[i] \in ends
        /\ \A i \in DOMAIN user : user[i] \in ends' <=> user[i] \in ends
    BY <1>2, <2>1
  <2> QED
    BY <2>1, <2>2 DEF Ended, caller
<1>8. CASE ReadBus
  BY <1>8 DEF ReadBus, DeviceClear, Signal, ChangeAtn, Restart, Goto, Ended, Reading, caller, bus
<1> QED
  BY <1>1, <1>3, <1>4, <1>5, <1>6, <1>7, <1>8 DEF ReadStep

\* Without a signal no byte is dropped before the read has ended.
LEMMA WholeStep ==
  ASSUME Sides, Stores, InByte, Ended, Whole, pc \in Reading, AccelNext,
         signals \in Nat, signals' = signals
  PROVE  Whole'
<1>1. ReadStep \/ TimerStep \/ InterruptStep \/ TalkerSend \/ ReadBus
  BY InReading
<1>2. /\ sent \in Nat /\ buf \in Seq(1..sent) /\ user \in Seq(1..sent)
      /\ DOMAIN buf = 1..Len(buf) /\ DOMAIN user = 1..Len(user)
      /\ Len(buf) \in Nat /\ Len(user) \in Nat
  BY MoreBytes DEF Stores
<1>3. CASE ReadLoad
  BY <1>3 DEF ReadLoad, Goto, Ended, Whole, chip, bus
<1>4. CASE ReadBegin \/ PioCheck
  BY <1>4 DEF ReadBegin, PioCheck, ReadError, Goto, Whole, bus
<1>5. CASE PioRead
  <2>1. pc = "r_wait" /\ pc' # "r_done" /\ UNCHANGED <<user, sent, ret>>
    BY <1>5 DEF PioRead, AfterByte, Goto, bus
  <2>2. CASE "READ_READY" \in state
    <3>1. buf' = Append(buf, sent) /\ sent \in 1..sent /\ in # NoByte /\ in' = NoByte
      BY <1>2, <1>5, <2>2 DEF PioRead, InByte
    <3>2. /\ Len(buf') = Len(buf) + 1 /\ DOMAIN buf' = 1..(Len(buf) + 1)
          /\ buf'[Len(buf) + 1] = sent /\ \A i \in 1..Len(buf) : buf'[i] = buf[i]
      BY <1>2, <3>1, AppendByte
    <3>3. sent = Len(user) + Len(buf) + 1 /\ \A i \in 1..Len(buf) : buf[i] = Len(user) + i
      BY <1>2, <2>1, <3>1 DEF Whole
    <3>4. \A i \in DOMAIN buf' : buf'[i] = Len(user) + i
      <4> SUFFICES ASSUME NEW i \in 1..(Len(buf) + 1) PROVE buf'[i] = Len(user) + i
        BY <3>2
      <4>1. CASE i \in 1..Len(buf)
        BY <3>2, <3>3, <4>1
      <4>2. CASE i = Len(buf) + 1
        BY <1>2, <3>2, <3>3, <4>2
      <4> QED
        BY <1>2, <4>1, <4>2
    <3>5. sent' = Len(user') + Len(buf') + (IF in' = NoByte THEN 0 ELSE 1)
      BY <1>2, <2>1, <3>1, <3>2, <3>3
    <3> QED
      BY <2>1, <3>4, <3>5 DEF Whole
  <2>3. CASE "READ_READY" \notin state
    BY <1>5, <2>1, <2>3 DEF PioRead, Whole
  <2> QED
    BY <2>2, <2>3
<1>6. CASE ReadReturn
  <2>1. pc = "r_ret" /\ buf' = <<>> /\ UNCHANGED <<ret, in, sent>>
    BY <1>6 DEF ReadReturn, Goto, chip, bus
  <2>2. /\ sent = Len(user) + Len(buf) + (IF in = NoByte THEN 0 ELSE 1)
        /\ \A i \in 1..Len(user) : user[i] = i
        /\ \A i \in 1..Len(buf) : buf[i] = Len(user) + i
    BY <1>2, <2>1 DEF Whole
  <2>3. CASE ret = "ok"
    <3>1. user' = user \o buf
      BY <1>6, <2>3 DEF ReadReturn
    <3>2. \A i \in DOMAIN user' : user'[i] = i
      BY <1>2, <2>2, <3>1, JoinIndex
    <3>3. Len(user') = Len(user) + Len(buf)
      BY <1>2, <3>1, JoinBytes
    <3>4. sent' = Len(user') + Len(buf') + (IF in' = NoByte THEN 0 ELSE 1)
      BY <1>2, <2>1, <2>2, <3>3
    <3>5. \A i \in DOMAIN buf' : buf'[i] = Len(user') + i
      BY <2>1
    <3> QED
      BY <2>1, <3>2, <3>4, <3>5 DEF Whole
  <2>4. CASE ret # "ok"
    BY <1>6, <2>1, <2>4 DEF ReadReturn, Goto, Whole
  <2> QED
    BY <2>3, <2>4
<1>7. CASE TimerStep \/ InterruptStep
  BY <1>7 DEF TimerStep, Expire, WatchdogTimeout, InterruptStep, Interrupt, Whole, caller, chip,
     bus
<1>8. CASE TalkerSend
  <2>1. UNCHANGED caller /\ in = NoByte /\ sent' = sent + 1 /\ in' # NoByte
    BY <1>2, <1>8 DEF TalkerSend, NoByte
  <2>2. pc' # "r_done" => sent' = Len(user') + Len(buf') + 1
    BY <1>2, <2>1 DEF Whole, caller
  <2> QED
    BY <2>1, <2>2 DEF Whole, caller
<1>9. CASE ReadBus
  <2>1. ~Signal
    BY DEF Signal
  <2>2. ~Restart
    BY DEF Restart, Whole
  <2> QED
    BY <1>9, <2>1, <2>2 DEF ReadBus, DeviceClear, ChangeAtn, Whole, caller, chip, bus
<1> QED
  BY <1>1, <1>3, <1>4, <1>5, <1>6, <1>7, <1>8, <1>9 DEF ReadStep

\* A byte, its interrupt and the holdoff come together, and the holdoff is released
\* only with the note of it.
LEMMA HoldoffStep ==
  ASSUME Sides, HoldoffTracked, pc \in Reading => InByte, AccelNext
  PROVE  HoldoffTracked'
<1>1. CASE pc \in Writing
  BY <1>1, InWriting, LabelsApart DEF Sides, HoldoffTracked, ReadVars
<1>2. CASE pc \in Reading
  <2>1. ReadStep \/ TimerStep \/ InterruptStep \/ TalkerSend \/ ReadBus
    BY <1>2, InReading
  <2>2. CASE ReadLoad \/ ReadReturn
    BY <2>2 DEF ReadLoad, ReadReturn, HoldoffTracked, chip
  <2>3. CASE ReadBegin \/ PioCheck
    BY <2>3 DEF ReadBegin, PioCheck, ReleaseHoldoff, HoldoffTracked
  <2>4. CASE PioRead
    BY <2>4 DEF PioRead, HoldoffTracked
  <2>5. CASE TimerStep
    BY <2>5 DEF TimerStep, Expire, WatchdogTimeout, HoldoffTracked, chip
  <2>6. CASE InterruptStep
    <3>1. held' = held
      BY <2>6 DEF InterruptStep, Interrupt
    <3>2. "RFD_HOLDOFF" \in state' <=> "RFD_HOLDOFF" \in state \/ "DI" \in ints
      BY <1>2, <2>6, NotedBits DEF InterruptStep, Interrupt, InByte
    <3> QED
      BY <3>1, <3>2 DEF HoldoffTracked
  <2>7. CASE TalkerSend
    BY <2>7 DEF TalkerSend, HoldoffTracked
  <2>8. CASE ReadBus
    BY <2>8 DEF ReadBus, DeviceClear, Signal, ChangeAtn, Restart, HoldoffTracked, chip
  <2> QED
    BY <2>1, <2>2, <2>3, <2>4, <2>5, <2>6, <2>7, <2>8 DEF ReadStep
<1> QED
  BY <1>1, <1>2 DEF Sides

-----------------------------------------------------------------------------
LEMMA ReadInitially == AccelInit => ReadInv
<1> SUFFICES ASSUME AccelInit PROVE ReadInv
  OBVIOUS
<1>1. /\ pc \in {"w_load", "r_load"} /\ (pc = "r_load" => driver = "nec7210")
      /\ buf = <<>> /\ user = <<>> /\ in = NoByte /\ held = FALSE /\ out = NoByte
      /\ parts = <<>> /\ fifo = <<>> /\ ~stream
  BY DEF AccelInit, Init
<1>2. Sides
  BY <1>1 DEF Sides, Reading, Writing
<1>3. Stores
  BY LengthAssumption DEF AccelInit, Init, Stores
<1>4. InByte /\ HoldoffTracked
  BY DEF AccelInit, Init, InByte, HoldoffTracked
<1>5. pc \in Reading => Ended
  BY <1>1 DEF AccelInit, Init, Ended, Reading
<1>6. Whole /\ signals = 0
  BY <1>1 DEF AccelInit, Init, Whole
<1> QED
  BY <1>2, <1>3, <1>4, <1>5, <1>6 DEF ReadInv

\* Signals are only counted.
LEMMA SignalsGrow ==
  ASSUME pc \in Reading, Sides, signals \in Nat, AccelNext
  PROVE  signals' \in Nat /\ signals <= signals'
<1>1. ReadStep \/ TimerStep \/ InterruptStep \/ TalkerSend \/ ReadBus
  BY InReading
<1> QED
  BY <1>1 DEF ReadStep, ReadLoad, ReadBegin, PioRead, PioCheck, ReadReturn, TimerStep, Expire,
     WatchdogTimeout, InterruptStep, Interrupt, TalkerSend, ReadBus, DeviceClear, Signal,
     ChangeAtn, Restart, counts

LEMMA ReadInvStep == ReadInv /\ [AccelNext]_allVars => ReadInv'
<1> SUFFICES ASSUME ReadInv, [AccelNext]_allVars PROVE ReadInv'
  OBVIOUS
<1>1. CASE AccelNext
  <2>1. Sides' /\ Stores' /\ HoldoffTracked'
    BY <1>1, SidesStep, StoresStep, HoldoffStep DEF ReadInv
  <2>2. ASSUME pc' \in Reading PROVE pc \in Reading
    BY <1>1, <2>2, InWriting, LabelsApart DEF ReadInv, Sides
  <2>3. ASSUME pc' \in Reading PROVE InByte' /\ Ended' /\ signals' \in Nat
    BY <1>1, <2>2, <2>3, InByteStep, EndedStep, SignalsGrow DEF ReadInv
  <2>4. ASSUME pc' \in Reading, signals' = 0 PROVE Whole'
    <3>1. pc \in Reading /\ signals \in Nat /\ Sides
      BY <2>2, <2>4 DEF ReadInv
    <3>2. signals = 0
      BY <1>1, <2>4, <3>1, SignalsGrow
    <3> QED
      BY <1>1, <2>4, <3>1, <3>2, WholeStep DEF ReadInv
  <2> QED
    BY <2>1, <2>3, <2>4 DEF ReadInv
<1>2. CASE UNCHANGED allVars
  <2>1. Sides' /\ Stores' /\ HoldoffTracked'
    BY <1>2 DEF ReadInv, Sides, Stores, HoldoffTracked, allVars, vars, accel, caller, chip, bus
  <2>2. pc' \in Reading => InByte' /\ Ended' /\ signals' \in Nat
    BY <1>2 DEF ReadInv, InByte, Ended, allVars, vars, caller, chip, bus, counts
  <2>3. pc' \in Reading => (signals' = 0 => Whole')
    BY <1>2 DEF ReadInv, Whole, allVars, vars, caller, chip, bus, counts
  <2> QED
    BY <2>1, <2>2, <2>3 DEF ReadInv
<1> QED
  BY <1>1, <1>2

LEMMA ReadInvariant == AccelSpec => []ReadInv
<1> QED
  BY ReadInitially, ReadInvStep, PTL DEF AccelSpec

\* What a read delivers has no hole unless a signal cut it up, and ends with the
\* talker's END if and only if the read reports END, however many loads it takes.
THEOREM ReadsAreWhole == AccelSpec => []DeliveredWhole
<1>1. ReadInv => DeliveredWhole
  <2> SUFFICES ASSUME ReadInv PROVE DeliveredWhole
    OBVIOUS
  <2>1. CASE pc \in Reading
    BY <2>1 DEF ReadInv, Ended, Whole, DeliveredWhole
  <2>2. CASE user = <<>>
    BY <2>2 DEF DeliveredWhole
  <2> QED
    BY <2>1, <2>2 DEF ReadInv, Sides
<1> QED
  BY <1>1, ReadInvariant, PTL

\* The driver knows of every holdoff of the chip, or is about to, so that the bus does
\* not hang.
THEOREM HoldoffsAreTracked == AccelSpec => []HoldoffTracked
<1>1. ReadInv => HoldoffTracked
  BY DEF ReadInv
<1> QED
  BY <1>1, ReadInvariant, PTL

-----------------------------------------------------------------------------
(* How a wait ends.                                                          *)

Errors == {"ETIMEDOUT", "EINTR", "EIO"}
Tested == {"TIMO", "DEV_CLEAR", "BUS_ERROR"}

\* The smallest of a few numbers is one of them.
LEMMA MinOfThree ==
  ASSUME NEW S, S \subseteq 1..3, S # {}
  PROVE  Min(S) \in S
<1>1. PICK x \in S : \A y \in S : x <= y
  <2>1. CASE 1 \in S
    BY <2>1
  <2>2. CASE 1 \notin S /\ 2 \in S
    BY <2>2
  <2>3. CASE 1 \notin S /\ 2 \notin S
    <3>1. \A y \in S : y = 3
      BY <2>3
    <3>2. 3 \in S
      BY <3>1
    <3> QED
      BY <3>1, <3>2
  <2> QED
    BY <2>1, <2>2, <2>3
<1> QED
  BY <1>1 DEF Min

\* The first failure is one of the bits tested, and an error.
LEMMA FailuresAreErrors ==
  ASSUME NEW tests \in Seq(Tested), Len(tests) <= 3, Failures(tests) # {}
  PROVE  FirstFailure(tests) \in Tested /\ ErrorOf(FirstFailure(tests)) \in Errors
<1>1. DOMAIN tests = 1..Len(tests) /\ Len(tests) \in Nat /\ \A i \in 1..Len(tests) : tests[i] \in Tested
  BY LenProperties, ElementOfSeq
<1>2. Failures(tests) \subseteq 1..3 /\ \A i \in Failures(tests) : tests[i] \in Tested
  BY <1>1 DEF Failures
<1>3. Min(Failures(tests)) \in Failures(tests)
  BY <1>2, MinOfThree
<1>4. FirstFailure(tests) \in Tested
  BY <1>2, <1>3 DEF FirstFailure
<1> QED
  BY <1>4 DEF ErrorOf, Errors, Tested

\* What a wait may test.
Testable(tests) == tests \in Seq(Tested) /\ Len(tests) <= 3

LEMMA TestsAreFew ==
  /\ Testable(<<>>) /\ Testable(ClearOrTimo) /\ Testable(Tms9914.tests)
  /\ Testable(<<"BUS_ERROR", "DEV_CLEAR", "TIMO">>) /\ Testable(<<"DEV_CLEAR", "BUS_ERROR", "TIMO">>)
  /\ Testable(<<"TIMO", "DEV_CLEAR">>) /\ Testable(<<"TIMO", "BUS_ERROR", "DEV_CLEAR">>)
BY DEF Testable, ClearOrTimo, Tms9914, Tested

\* What the proofs use of Trait.
LEMMA TraitOfDriver ==
  ASSUME driver \in Accelerated
  PROVE  /\ Testable(Trait[driver].tests)
         /\ Trait[driver].consumes \subseteq {"BUS_ERROR", "DEV_CLEAR"}
         /\ Trait[driver].clears \subseteq {"BUS_ERROR", "DEV_CLEAR", "TERM_COUNT"}
         /\ driver \in Indexed => "TERM_COUNT" \in Trait[driver].clears
         /\ Trait[driver].until = "event" <=> driver \in Indexed
         /\ Trait[driver].until \in {"sent", "fed", "event"}
         /\ Trait[driver].counts = IF driver = "ines" THEN "length less fifo"
                                   ELSE IF driver \in {"cb7210", "tms9914"} THEN "put" ELSE "fed"
<1>1. driver \in {"tnt4882", "ines", "cb7210", "agilent_82350b", "hp_82341", "fmh_fifo", "fmh_dma",
                 "fluke", "tms9914"}
  BY DEF Accelerated, Trait
<1>2. CASE driver = "tnt4882"
  BY <1>2, TestsAreFew DEF Trait, Tnt4882, Indexed
<1>3. CASE driver = "ines"
  BY <1>3, TestsAreFew DEF Trait, Ines, Indexed
<1>4. CASE driver = "cb7210"
  BY <1>4, TestsAreFew DEF Trait, Cb7210, Indexed
<1>5. CASE driver = "agilent_82350b"
  BY <1>5, TestsAreFew DEF Trait, Agilent82350b, Indexed
<1>6. CASE driver = "hp_82341"
  BY <1>6, TestsAreFew DEF Trait, Hp82341, Indexed
<1>7. CASE driver = "fmh_fifo"
  BY <1>7, TestsAreFew DEF Trait, FmhFifo, Indexed
<1>8. CASE driver = "fmh_dma"
  BY <1>8, TestsAreFew DEF Trait, FmhDma, Indexed
<1>9. CASE driver = "fluke"
  BY <1>9, TestsAreFew DEF Trait, FlukeDma, Indexed
<1>10. CASE driver = "tms9914"
  BY <1>10, TestsAreFew DEF Trait, Tms9914, Indexed
<1> QED
  BY <1>1, <1>2, <1>3, <1>4, <1>5, <1>6, <1>7, <1>8, <1>9, <1>10

\* A wait changes where the ioctl is, its result, and which bits are set.
Waited == <<end, pos, goal, last, eoi, status, ints, out, ready, seoi, bus, counts, accel>>

LEMMA WaitEffect ==
  ASSUME NEW from, NEW condition, NEW tests, NEW consumes, NEW next, NEW failed,
         Testable(tests), consumes \subseteq {"BUS_ERROR", "DEV_CLEAR"},
         Wait(from, condition, tests, consumes, next, failed)
  PROVE  /\ pc = from /\ UNCHANGED Waited
         /\ \/ Failures(tests) = {} /\ condition /\ pc' = next /\ ret' = "ok"
                 /\ state' = state \ Events(from)
            \/ Failures(tests) # {} /\ pc' = failed /\ ret' \in Errors
                 /\ state' \subseteq state /\ state \ state' \subseteq {"BUS_ERROR", "DEV_CLEAR"} \cup Events(from)
<1>1. pc = from /\ UNCHANGED Waited
  BY DEF Wait, Waited, chip
<1>2. CASE Failures(tests) = {}
  BY <1>1, <1>2 DEF Wait
<1>3. CASE Failures(tests) # {}
  <2>1. ErrorOf(FirstFailure(tests)) \in Errors
    BY <1>3, FailuresAreErrors DEF Testable
  <2> QED
    BY <1>1, <1>3, <2>1 DEF Wait
<1> QED
  BY <1>2, <1>3

-----------------------------------------------------------------------------
(* The parts of a load.                                                      *)

\* Parts that are written in these ways; only DMA writes a block with EOI, of one byte.
PartsBy(ways) ==
  {p \in [how : ways, n : 1 .. BufferLength, eoi : BOOLEAN] : p.how = "block" /\ p.eoi => p.n = 1}

\* Parts that cover the bytes between two places, one after the other.
Covers(p, from, to) ==
  \E o \in [1 .. Len(p) + 1 -> 0 .. to] :
    /\ o[1] = from /\ o[Len(p) + 1] = to
    /\ \A i \in 1 .. Len(p) : o[i + 1] = o[i] + p[i].n

LEMMA CoversFirst ==
  ASSUME NEW ways, NEW p \in Seq(PartsBy(ways)), p # <<>>, NEW a \in Nat, NEW c \in Nat, Covers(p, a, c)
  PROVE  /\ Head(p) \in PartsBy(ways) /\ Len(p) \in Nat \ {0}
         /\ a + Head(p).n <= c /\ (Len(p) = 1 <=> a + Head(p).n = c)
         /\ Tail(p) \in Seq(PartsBy(ways)) /\ Covers(Tail(p), a + Head(p).n, c)
<1>1. /\ Len(p) \in Nat \ {0} /\ Head(p) = p[1] /\ p[1] \in PartsBy(ways)
      /\ Tail(p) \in Seq(PartsBy(ways)) /\ Len(Tail(p)) = Len(p) - 1
      /\ \A i \in 1..(Len(p) - 1) : Tail(p)[i] = p[i + 1] /\ p[i + 1] \in PartsBy(ways)
  BY EmptySeq, HeadTailProperties, ElementOfSeq
<1>2. PICK o \in [1 .. Len(p) + 1 -> 0 .. c] :
        /\ o[1] = a /\ o[Len(p) + 1] = c
        /\ \A i \in 1 .. Len(p) : o[i + 1] = o[i] + p[i].n
  BY DEF Covers
<1>3. p[1].n \in Nat \ {0}
  BY <1>1, LengthAssumption DEF PartsBy
<1>4. o[2] = a + p[1].n /\ o[2] \in 0 .. c
  BY <1>1, <1>2
<1>5. Len(p) = 1 <=> o[2] = c
  <2>1. Len(p) = 1 => o[2] = c
    BY <1>2
  <2>2. ASSUME Len(p) # 1 PROVE o[2] # c
    <3>1. o[3] = o[2] + p[2].n /\ o[3] \in 0 .. c
      BY <1>1, <1>2, <2>2
    <3>2. p[2].n \in Nat \ {0}
      <4>1. p[1 + 1] \in PartsBy(ways)
        BY <1>1, <2>2
      <4> QED
        BY <4>1, LengthAssumption DEF PartsBy
    <3> QED
      BY <1>4, <3>1, <3>2
  <2> QED
    BY <2>1, <2>2
<1>6. Covers(Tail(p), a + p[1].n, c)
  <2> DEFINE u == [i \in 1 .. Len(p) |-> o[i + 1]]
  <2>1. u \in [1 .. Len(Tail(p)) + 1 -> 0 .. c]
    <3>1. \A i \in 1 .. Len(p) : o[i + 1] \in 0 .. c
      BY <1>1, <1>2
    <3>2. Len(Tail(p)) + 1 = Len(p)
      BY <1>1
    <3> QED
      BY <3>1, <3>2
  <2>2. u[1] = a + p[1].n /\ u[Len(Tail(p)) + 1] = c
    BY <1>1, <1>2, <1>4
  <2>3. ASSUME NEW i \in 1 .. Len(Tail(p)) PROVE u[i + 1] = u[i] + Tail(p)[i].n
    <3>1. i \in 1 .. Len(p) /\ i + 1 \in 1 .. Len(p) /\ Tail(p)[i] = p[i + 1]
      BY <1>1
    <3>2. o[(i + 1) + 1] = o[i + 1] + p[i + 1].n
      BY <1>2, <3>1
    <3> QED
      BY <3>1, <3>2
  <2> QED
    BY <2>1, <2>2, <2>3 DEF Covers
<1> QED
  BY <1>1, <1>3, <1>4, <1>5, <1>6

\* The last part alone has EOI, if any.
EoiLast(p, e) == \A i \in DOMAIN p : p[i].eoi <=> i = Len(p) /\ e

LEMMA CoversNone == ASSUME NEW a \in Nat PROVE Covers(<<>>, a, a)
<1> DEFINE o == [i \in 1 .. 1 |-> a]
<1>1. o \in [1 .. Len(<<>>) + 1 -> 0 .. a] /\ o[1] = a /\ o[Len(<<>>) + 1] = a
  OBVIOUS
<1>2. \A i \in 1 .. Len(<<>>) : o[i + 1] = o[i] + <<>>[i].n
  OBVIOUS
<1> QED
  BY <1>1, <1>2 DEF Covers

LEMMA CoversPart ==
  ASSUME NEW ways, NEW how \in ways, NEW n \in 0 .. BufferLength, NEW e \in BOOLEAN,
         how = "block" /\ e => n <= 1, NEW a \in Nat, NEW p, p = Part(how, n, e)
  PROVE  p \in Seq(PartsBy(ways)) /\ Covers(p, a, a + n) /\ EoiLast(p, e) /\ Len(p) <= 1
<1>1. CASE n = 0
  BY <1>1, CoversNone, EmptySeq DEF Part, EoiLast
<1>2. CASE n > 0
  <2>1. p = <<[how |-> how, n |-> n, eoi |-> e]>>
    BY <1>2 DEF Part
  <2>2. p \in Seq(PartsBy(ways)) /\ Len(p) = 1 /\ p[1].n = n /\ EoiLast(p, e)
    BY <1>2, <2>1 DEF PartsBy, EoiLast
  <2> DEFINE o == [i \in 1 .. 2 |-> IF i = 1 THEN a ELSE a + n]
  <2>3. o \in [1 .. Len(p) + 1 -> 0 .. a + n] /\ o[1] = a /\ o[Len(p) + 1] = a + n
    BY <2>2
  <2>4. \A i \in 1 .. Len(p) : o[i + 1] = o[i] + p[i].n
    BY <2>2
  <2>5. Covers(p, a, a + n)
    BY <2>3, <2>4 DEF Covers
  <2> QED
    BY <2>2, <2>5
<1> QED
  BY <1>1, <1>2

LEMMA CoversJoin ==
  ASSUME NEW ways, NEW p \in Seq(PartsBy(ways)), NEW q \in Seq(PartsBy(ways)), NEW a \in Nat, NEW b \in Nat,
         NEW c \in Nat, b <= c, Covers(p, a, b), Covers(q, b, c)
  PROVE  p \o q \in Seq(PartsBy(ways)) /\ Covers(p \o q, a, c)
<1>1. /\ p \o q \in Seq(PartsBy(ways)) /\ Len(p \o q) = Len(p) + Len(q)
      /\ Len(p) \in Nat /\ Len(q) \in Nat
      /\ \A i \in 1 .. Len(p) + Len(q) :
           (p \o q)[i] = IF i <= Len(p) THEN p[i] ELSE q[i - Len(p)]
  BY ConcatProperties, LenProperties
<1>2. PICK o \in [1 .. Len(p) + 1 -> 0 .. b] :
        /\ o[1] = a /\ o[Len(p) + 1] = b
        /\ \A i \in 1 .. Len(p) : o[i + 1] = o[i] + p[i].n
  BY DEF Covers
<1>3. PICK u \in [1 .. Len(q) + 1 -> 0 .. c] :
        /\ u[1] = b /\ u[Len(q) + 1] = c
        /\ \A i \in 1 .. Len(q) : u[i + 1] = u[i] + q[i].n
  BY DEF Covers
<1> DEFINE m == Len(p)
           w == [i \in 1 .. m + Len(q) + 1 |-> IF i <= m THEN o[i] ELSE u[i - m]]
<1>4. w \in [1 .. Len(p \o q) + 1 -> 0 .. c]
  <2> SUFFICES ASSUME NEW i \in 1 .. m + Len(q) + 1 PROVE w[i] \in 0 .. c
    BY <1>1
  <2>1. CASE i <= m
    BY <1>1, <1>2, <2>1
  <2>2. CASE i > m
    <3>1. i - m \in 1 .. Len(q) + 1 /\ w[i] = u[i - m]
      BY <1>1, <2>2
    <3> QED
      BY <1>3, <3>1
  <2> QED
    BY <1>1, <2>1, <2>2
<1>5. w[1] = a
  <2>1. CASE m = 0
    BY <1>1, <1>2, <1>3, <2>1
  <2>2. CASE m # 0
    BY <1>1, <1>2, <2>2
  <2> QED
    BY <2>1, <2>2
<1>6. w[Len(p \o q) + 1] = c
  BY <1>1, <1>3
<1>7. ASSUME NEW i \in 1 .. Len(p \o q) PROVE w[i + 1] = w[i] + (p \o q)[i].n
  <2>1. CASE i < m
    BY <1>1, <1>2, <2>1
  <2>2. CASE i = m
    BY <1>1, <1>2, <1>3, <2>2
  <2>3. CASE i > m
    <3>1. i - m \in 1 .. Len(q) /\ (p \o q)[i] = q[i - m]
      BY <1>1, <1>7, <2>3
    <3>2. u[(i - m) + 1] = u[i - m] + q[i - m].n
      BY <1>3, <3>1
    <3>3. w[i] = u[i - m] /\ w[i + 1] = u[(i - m) + 1]
      BY <1>1, <1>7, <2>3
    <3> QED
      BY <3>1, <3>2, <3>3
  <2> QED
    BY <1>1, <1>7, <2>1, <2>2, <2>3
<1> QED
  BY <1>1, <1>4, <1>5, <1>6, <1>7 DEF Covers

LEMMA EoiJoin ==
  ASSUME NEW ways, NEW p \in Seq(PartsBy(ways)), NEW q \in Seq(PartsBy(ways)), NEW e \in BOOLEAN,
         EoiLast(p, FALSE), EoiLast(q, e), e => q # <<>>
  PROVE  EoiLast(p \o q, e)
<1>1. /\ Len(p \o q) = Len(p) + Len(q) /\ DOMAIN (p \o q) = 1 .. Len(p \o q)
      /\ Len(p) \in Nat /\ Len(q) \in Nat /\ DOMAIN p = 1 .. Len(p) /\ DOMAIN q = 1 .. Len(q)
      /\ \A i \in 1 .. Len(p) + Len(q) :
           (p \o q)[i] = IF i <= Len(p) THEN p[i] ELSE q[i - Len(p)]
  BY ConcatProperties, LenProperties
<1>2. e => Len(q) > 0
  BY <1>1, EmptySeq
<1> SUFFICES ASSUME NEW i \in 1 .. Len(p) + Len(q)
             PROVE  (p \o q)[i].eoi <=> i = Len(p) + Len(q) /\ e
  BY <1>1 DEF EoiLast
<1>3. CASE i <= Len(p)
  <2>1. ~p[i].eoi /\ (p \o q)[i] = p[i]
    BY <1>1, <1>3 DEF EoiLast
  <2>2. ~(i = Len(p) + Len(q) /\ e)
    BY <1>1, <1>2, <1>3
  <2> QED
    BY <2>1, <2>2
<1>4. CASE i > Len(p)
  <2>1. i - Len(p) \in 1 .. Len(q) /\ (p \o q)[i] = q[i - Len(p)]
    BY <1>1, <1>4
  <2>2. i - Len(p) = Len(q) <=> i = Len(p) + Len(q)
    BY <1>1
  <2> QED
    BY <1>1, <2>1, <2>2 DEF EoiLast
<1> QED
  BY <1>1, <1>3, <1>4

LEMMA Smaller ==
  ASSUME NEW i \in Int, NEW j \in Int
  PROVE  Min({i, j}) = IF i <= j THEN i ELSE j
<1>1. \E x \in {i, j} : \A y \in {i, j} : x <= y
  OBVIOUS
<1>2. Min({i, j}) \in {i, j} /\ \A y \in {i, j} : Min({i, j}) <= y
  BY <1>1 DEF Min
<1> QED
  BY <1>2

LEMMA Larger ==
  ASSUME NEW i \in Int, NEW j \in Int
  PROVE  Max({i, j}) = IF i >= j THEN i ELSE j
<1>1. \E x \in {i, j} : \A y \in {i, j} : x >= y
  OBVIOUS
<1>2. Max({i, j}) \in {i, j} /\ \A y \in {i, j} : Max({i, j}) >= y
  BY <1>1 DEF Max
<1> QED
  BY <1>2

\* Blocks of FifoSize bytes, and what is left over.
LEMMA BlocksCover ==
  ASSUME NEW ways, "block" \in ways, NEW n \in 0 .. BufferLength, NEW a \in Nat, NEW p, p = Blocks(n)
  PROVE  p \in Seq(PartsBy(ways)) /\ Covers(p, a, a + n) /\ EoiLast(p, FALSE)
<1> DEFINE F == FifoSize
           k == (n + F - 1) \div F
<1>1. F \in Nat \ {0} /\ n \in Nat /\ n <= BufferLength /\ BufferLength \in Nat
  BY FifoAssumption, LengthAssumption
<1>2. k \in Nat /\ F * k <= n + F - 1 /\ n + F - 1 < F * (k + 1)
  <2> HIDE DEF F
  <2> QED
    BY <1>1
<1> HIDE DEF k, F
<1>3. n <= k * F /\ k * F < n + F
  BY <1>1, <1>2
<1>4. ASSUME NEW i \in 1 .. k PROVE (i - 1) * F \in Nat /\ (i - 1) * F < n /\ i * F = (i - 1) * F + F
  <2>1. (k - i) * F >= 0 /\ k * F = i * F + (k - i) * F
    BY <1>1, <1>2
  <2>2. i * F = (i - 1) * F + F /\ (i - 1) * F \in Nat
    BY <1>1
  <2> QED
    BY <1>1, <1>2, <1>3, <2>1, <2>2
<1>5. p = [i \in 1 .. k |-> [how |-> "block", n |-> Min({F, n - (i - 1) * F}), eoi |-> FALSE]]
  BY DEF Blocks, k, F
<1>6. ASSUME NEW i \in 1 .. k
      PROVE  /\ p[i] \in PartsBy(ways) /\ ~p[i].eoi
             /\ p[i].n = IF F <= n - (i - 1) * F THEN F ELSE n - (i - 1) * F
  <2>1. n - (i - 1) * F \in Int /\ F \in Int
    BY <1>1, <1>4
  <2>2. Min({F, n - (i - 1) * F}) = IF F <= n - (i - 1) * F THEN F ELSE n - (i - 1) * F
    BY <2>1, Smaller
  <2> DEFINE m == Min({F, n - (i - 1) * F})
  <2>3. m \in 1 .. BufferLength
    BY <1>1, <1>4, <2>2
  <2> HIDE DEF m
  <2>4. p[i] = [how |-> "block", n |-> m, eoi |-> FALSE]
    BY <1>5 DEF m
  <2>5. p[i] \in PartsBy(ways) /\ ~p[i].eoi
    BY <2>3, <2>4 DEF PartsBy
  <2>6. p[i].n = m
    BY <2>4
  <2> QED
    BY <2>2, <2>5, <2>6 DEF m
<1>7. p \in Seq(PartsBy(ways)) /\ Len(p) = k /\ DOMAIN p = 1 .. k
  <2>1. p \in [1 .. k -> PartsBy(ways)]
    BY <1>5, <1>6
  <2> QED
    BY <1>2, <2>1
<1> DEFINE o == [i \in 1 .. k + 1 |-> IF (i - 1) * F <= n THEN a + (i - 1) * F ELSE a + n]
<1>8. o \in [1 .. Len(p) + 1 -> 0 .. a + n]
  <2> SUFFICES ASSUME NEW i \in 1 .. k + 1 PROVE o[i] \in 0 .. a + n
    BY <1>7
  <2> DEFINE m == (i - 1) * F
  <2>1. m \in Nat
    BY <1>1, <1>2
  <2>2. o[i] = IF m <= n THEN a + m ELSE a + n
    OBVIOUS
  <2> HIDE DEF m
  <2> QED
    BY <1>1, <2>1, <2>2
<1>9. o[1] = a /\ o[Len(p) + 1] = a + n
  <2>1. (1 - 1) * F = 0 /\ ((k + 1) - 1) * F = k * F
    BY <1>1, <1>2
  <2> QED
    BY <1>1, <1>2, <1>3, <1>7, <2>1
<1>10. ASSUME NEW i \in 1 .. Len(p) PROVE o[i + 1] = o[i] + p[i].n
  <2>1. i \in 1 .. k /\ i + 1 \in 1 .. k + 1 /\ ((i + 1) - 1) * F = i * F
    BY <1>2, <1>7
  <2>2. o[i] = a + (i - 1) * F
    <3> DEFINE m == (i - 1) * F
    <3>1. m \in Nat /\ m < n
      BY <1>4, <2>1
    <3>2. i \in 1 .. k + 1 /\ (m <= n => o[i] = a + m)
      BY <1>2, <2>1
    <3> HIDE DEF m
    <3>3. m <= n
      BY <1>1, <3>1
    <3> QED
      BY <3>2, <3>3 DEF m
  <2>3. o[i + 1] = IF i * F <= n THEN a + i * F ELSE a + n
    BY <2>1
  <2> QED
    BY <1>1, <1>4, <1>6, <2>1, <2>2, <2>3
<1> QED
  BY <1>6, <1>7, <1>8, <1>9, <1>10 DEF Covers, EoiLast

LEMMA CoversFrom == ASSUME NEW a \in Nat, NEW c \in Nat, Covers(<<>>, a, c) PROVE a = c
BY DEF Covers

\* The ways in which a driver writes parts.
WaysOf ==
  [tnt4882 |-> {"fifo"}, ines |-> {"fifo"}, fmh_fifo |-> {"fifo"}, cb7210 |-> {"fifo", "pio"},
   agilent_82350b |-> {"block", "bytes"}, hp_82341 |-> {"block", "bytes"},
   fmh_dma |-> {"block"}, fluke |-> {"block"}, tms9914 |-> {"bytes"}, nec7210 |-> {}]
Ways == WaysOf[driver]

\* nec7210_write writes the last part of cb7210.
PioLast(p) ==
  driver = "cb7210" =>
    \A i \in DOMAIN p : (p[i].how = "pio" <=> i = Len(p)) /\ (p[i].how = "fifo" => i < Len(p))

LEMMA PartsCover ==
  ASSUME driver \in Accelerated, NEW n \in 1 .. BufferLength, NEW e \in BOOLEAN, NEW a \in Nat,
         NEW p, p = PartsOf(n, e)
  PROVE  /\ p \in Seq(PartsBy(Ways)) /\ Covers(p, a, a + n) /\ EoiLast(p, e)
         /\ p # <<>> /\ PioLast(p)
<1>1. n \in Nat /\ n > 0 /\ BufferLength \in Nat
  BY LengthAssumption
<1>2. CASE driver \in {"tnt4882", "ines", "fmh_fifo"}
  <2>1. p = Part("fifo", n, e) /\ "fifo" \in Ways
    BY <1>2 DEF PartsOf, Ways, WaysOf
  <2>2. p \in Seq(PartsBy(Ways)) /\ Covers(p, a, a + n) /\ EoiLast(p, e)
    BY <1>1, <2>1, CoversPart
  <2>3. driver # "cb7210"
    BY <1>2
  <2>4. p # <<>>
    BY <1>1, <2>1 DEF Part
  <2> QED
    BY <2>2, <2>3, <2>4 DEF PioLast
<1>3. CASE driver = "cb7210"
  <2> DEFINE w == Words(n)
             q == Part("fifo", w, FALSE)
             r == Part("pio", n - w, e)
  <2>1. /\ w \in 0 .. BufferLength /\ n - w \in 0 .. BufferLength /\ a + w \in Nat
        /\ n - w > 0
    BY <1>1 DEF Words
  <2> HIDE DEF w
  <2>2. p = q \o r /\ "fifo" \in Ways /\ "pio" \in Ways
    BY <1>3 DEF PartsOf, Cb7210Parts, Ways, WaysOf, w
  <2>3. q \in Seq(PartsBy(Ways)) /\ Covers(q, a, a + w) /\ EoiLast(q, FALSE) /\ Len(q) <= 1
    BY <1>1, <2>1, <2>2, CoversPart
  <2>4. r \in Seq(PartsBy(Ways)) /\ Covers(r, a + w, (a + w) + (n - w)) /\ EoiLast(r, e)
    BY <1>1, <2>1, <2>2, CoversPart
  <2>5. r # <<>> /\ Len(r) = 1 /\ r[1].how = "pio"
    BY <1>1, <2>1 DEF Part
  <2> HIDE DEF q, r
  <2>6. p \in Seq(PartsBy(Ways)) /\ Covers(p, a, a + n)
    <3>1. (a + w) + (n - w) = a + n /\ a + w \in Nat /\ a + n \in Nat /\ a + w <= a + n
      BY <1>1, <2>1
    <3> QED
      BY <2>2, <2>3, <2>4, <3>1, CoversJoin
  <2>7. EoiLast(p, e)
    BY <2>2, <2>3, <2>4, <2>5, EoiJoin
  <2>8. p # <<>> /\ PioLast(p)
    <3>1. /\ Len(p) = Len(q) + 1 /\ Len(q) \in Nat /\ DOMAIN p = 1 .. Len(p)
          /\ \A i \in 1 .. Len(p) : p[i] = IF i <= Len(q) THEN q[i] ELSE r[i - Len(q)]
      BY <2>2, <2>3, <2>4, <2>5, <2>6, ConcatProperties, LenProperties
    <3>2. \A i \in 1 .. Len(q) : q[i].how = "fifo"
      BY DEF Part, q
    <3>3. p[Len(p)] = r[1]
      BY <3>1
    <3> QED
      BY <2>5, <3>1, <3>2, <3>3 DEF PioLast
  <2> QED
    BY <2>6, <2>7, <2>8
<1> DEFINE b == Body(n, e)
           l == Last(e)
<1>4. /\ b \in 0 .. BufferLength /\ b + (IF e THEN 1 ELSE 0) = n
      /\ b \in Nat /\ b <= n
  BY <1>1 DEF Body
<1> HIDE DEF b
<1>5. ASSUME NEW ways, NEW how \in ways, NEW q \in Seq(PartsBy(ways)), Covers(q, a, a + b),
             EoiLast(q, FALSE), NEW r, r = Part(how, IF e THEN 1 ELSE 0, TRUE)
      PROVE  /\ q \o r \in Seq(PartsBy(ways)) /\ Covers(q \o r, a, a + n)
             /\ EoiLast(q \o r, e) /\ q \o r # <<>>
  <2> DEFINE x == IF e THEN 1 ELSE 0
  <2>1. x \in 0 .. BufferLength /\ x <= 1 /\ (a + b) + x = a + n /\ a + b \in Nat /\ a + n \in Nat
        /\ a + b <= a + n
    BY <1>1, <1>4, LengthAssumption
  <2> HIDE DEF x
  <2>2. r = Part(how, x, TRUE)
    BY <1>5 DEF x
  <2>3. r \in Seq(PartsBy(ways)) /\ Covers(r, a + b, (a + b) + x)
    BY <1>5, <2>1, <2>2, CoversPart
  <2>4. EoiLast(r, e) /\ (e => r # <<>>)
    BY <1>5 DEF Part, EoiLast
  <2>5. q \o r \in Seq(PartsBy(ways)) /\ Covers(q \o r, a, a + n)
    BY <1>5, <2>1, <2>3, CoversJoin
  <2>6. EoiLast(q \o r, e)
    BY <1>5, <2>3, <2>4, EoiJoin
  <2>7. a # a + n
    BY <1>1
  <2> QED
    BY <2>1, <2>5, <2>6, <2>7, CoversFrom
<1>6. CASE driver \in {"fmh_dma", "fluke"}
  <2>1. p = Blocks(b) \o Part("block", IF e THEN 1 ELSE 0, TRUE)
    BY <1>6 DEF PartsOf, DmaParts, b
  <2>4. "block" \in Ways
    BY <1>6 DEF Ways, WaysOf
  <2>2. Blocks(b) \in Seq(PartsBy(Ways)) /\ Covers(Blocks(b), a, a + b) /\ EoiLast(Blocks(b), FALSE)
    BY <1>4, <2>4, BlocksCover
  <2>3. driver # "cb7210"
    BY <1>6
  <2> QED
    BY <1>5, <2>1, <2>2, <2>3, <2>4 DEF PioLast
<1>7. CASE driver = "hp_82341"
  <2>1. p = Blocks(b) \o Part("bytes", IF e THEN 1 ELSE 0, TRUE) /\ "block" \in Ways /\ "bytes" \in Ways
    BY <1>7 DEF PartsOf, HpParts, Last, b, Ways, WaysOf
  <2>2. Blocks(b) \in Seq(PartsBy(Ways)) /\ Covers(Blocks(b), a, a + b) /\ EoiLast(Blocks(b), FALSE)
    BY <1>4, <2>1, BlocksCover
  <2>3. driver # "cb7210"
    BY <1>7
  <2> QED
    BY <1>5, <2>1, <2>2, <2>3 DEF PioLast
<1>8. CASE driver = "agilent_82350b"
  <2> DEFINE f == Min({1, b})
             m == Max({b - 1, 0})
             first == Part("bytes", f, FALSE)
  <2>1. f = IF 1 <= b THEN 1 ELSE b
    BY <1>4, Smaller
  <2>2. m = IF b - 1 >= 0 THEN b - 1 ELSE 0
    BY <1>4, Larger
  <2>3. f \in 0 .. BufferLength /\ m \in 0 .. BufferLength /\ (a + f) + m = a + b /\ a + f \in Nat
        /\ a + f <= a + b /\ a + b \in Nat
    BY <1>1, <1>4, <2>1, <2>2
  <2> HIDE DEF f, m
  <2>4. /\ p = (first \o Blocks(m)) \o Part("bytes", IF e THEN 1 ELSE 0, TRUE)
        /\ "block" \in Ways /\ "bytes" \in Ways
    BY <1>8 DEF PartsOf, AgilentParts, Last, b, f, m, Ways, WaysOf
  <2>5. first \in Seq(PartsBy(Ways)) /\ Covers(first, a, a + f) /\ EoiLast(first, FALSE)
    BY <2>3, <2>4, CoversPart
  <2>6. /\ Blocks(m) \in Seq(PartsBy(Ways)) /\ Covers(Blocks(m), a + f, (a + f) + m)
        /\ EoiLast(Blocks(m), FALSE)
    BY <2>3, <2>4, BlocksCover
  <2>7. /\ first \o Blocks(m) \in Seq(PartsBy(Ways)) /\ Covers(first \o Blocks(m), a, a + b)
        /\ EoiLast(first \o Blocks(m), FALSE)
    BY <2>3, <2>5, <2>6, CoversJoin, EoiJoin
  <2>8. driver # "cb7210"
    BY <1>8
  <2> QED
    BY <1>5, <2>4, <2>7, <2>8 DEF PioLast
<1>9. CASE driver = "tms9914"
  <2>1. p = Part("bytes", n, e) /\ "bytes" \in Ways
    BY <1>9 DEF PartsOf, Ways, WaysOf
  <2>2. p \in Seq(PartsBy(Ways)) /\ Covers(p, a, a + n) /\ EoiLast(p, e)
    BY <1>1, <2>1, CoversPart
  <2>3. driver # "cb7210"
    BY <1>9
  <2>4. p # <<>>
    BY <1>1, <2>1 DEF Part
  <2> QED
    BY <2>2, <2>3, <2>4 DEF PioLast
<1> QED
  BY <1>2, <1>3, <1>6, <1>7, <1>8, <1>9 DEF Accelerated, Trait

-----------------------------------------------------------------------------
(* The invariant of the writes.                                              *)

\* Where a part is being written: through a FIFO, or by tms9914_write.
OnFifo == {"a_restart", "a_space", "a_done", "a_sent", "a_stop"}
ByByte == {"b_wait", "b_put", "b_drain"}
InPart == {"a_part", "a_arm"} \cup OnFifo \cup ByByte
\* Where nec7210_write is, and where a write returns.
InPio == {"w_wait", "w_put", "w_drain", "w_eoi", "w_seoi"}
Returning == {"w_ret", "w_stop", "w_done"}
Failed == ret \notin {"ok", "ERESTARTSYS"}
\* A write that is over, with an error or with one that was suppressed.
GivenUp == (pc \in Returning /\ Failed) \/ (pc = "w_done" /\ ret = "ok")

\* The bytes before the part or, with what the FIFO has given to the chip, before what
\* goes out next; and the last byte that went out.
Base == pos + skew
Fed == put - Len(fifo)
Front == IF pc \in OnFifo THEN Base + Fed ELSE Base
Newest == IF out = NoByte THEN accepted ELSE out.byte
Start == IF pc \in ByByte THEN Base - put ELSE Base
Straight == driver \in OnTms9914 => signals = 0

Types ==
  /\ driver \in Drivers
  /\ end \in BOOLEAN /\ eoi \in BOOLEAN /\ seoi \in BOOLEAN /\ ready \in BOOLEAN
  /\ stream \in BOOLEAN /\ atn \in BOOLEAN /\ heard_end \in BOOLEAN /\ gap \in BOOLEAN
  /\ pos \in 0 .. Length /\ goal \in 0 .. Length /\ last \in 0 .. Length
  /\ skew \in Nat /\ put \in Nat
  /\ out \in [byte : 0 .. Length, eoi : BOOLEAN] /\ accepted \in 0 .. Length
  /\ signals \in Nat /\ errors \in Nat /\ atns \in Nat
  /\ ret \in Results /\ status \subseteq {"TIMO", "ATN"} /\ ints \subseteq Interrupts

\* Which parts there are where.
PartsInv ==
  /\ parts \in Seq(PartsBy(Ways)) /\ PioLast(parts)
  /\ driver = "tms9914" => Len(parts) <= 1
  /\ pc \in InPart => parts # <<>>
  /\ pc \in OnFifo => part.how \in {"fifo", "block"}
  /\ pc = "a_space" => part.how = "fifo"
  /\ pc \in ByByte => part.how = "bytes"
  /\ pc \in InPio /\ driver # "nec7210" => Len(parts) = 1 /\ part.how = "pio"
  /\ pc = "w_begin" /\ parts # <<>> => Len(parts) = 1 /\ part.how = "pio"

\* What stands still.
Still ==
  /\ pc \notin OnFifo => fifo = <<>> /\ ~stream
  /\ pc \notin OnFifo \cup ByByte => put = 0
  /\ driver \notin Indexed => skew = 0
  /\ pc = "a_restart" => ~stream
  /\ pc = "a_sent" => fifo = <<>>
  /\ pc = "w_begin" /\ parts = <<>> => skew = 0

\* The parts cover what is left of the load.
Sums ==
  /\ pos + skew <= Length /\ skew <= BufferLength
  /\ pc \in InPart =>
       \E to \in 0 .. Length :
         /\ Covers(parts, Start, to) /\ to <= pos + BufferLength
         /\ eoi <=> (to = Length /\ end)
         /\ driver \notin OnTms9914 => to = goal

\* EOI is left for the last part, unless tms9914_write has armed it.
EoiInv ==
  pc \in InPart =>
    EoiLast(parts, eoi) \/ (pc \in ByByte /\ Len(parts) = 1 /\ eoi /\ ~part.eoi)

\* How far the part is.
Progress ==
  /\ pc \in OnFifo \cup ByByte => put <= part.n
  /\ pc \in {"a_restart", "a_done", "a_sent"} => put = part.n
  /\ pc \in {"b_wait", "b_put"} => pos < goal
  /\ pc \in ByByte =>
       /\ pos <= goal
       /\ goal - pos + (IF part.eoi THEN 1 ELSE 0) <= part.n - put
       /\ signals = 0 => goal - pos + (IF part.eoi THEN 1 ELSE 0) = part.n - put

\* What is in the FIFO.
FifoInv ==
  pc \in OnFifo =>
    /\ fifo \in Seq([byte : Nat, eoi : BOOLEAN]) /\ Len(fifo) <= put
    /\ \A i \in 1 .. Len(fifo) : /\ fifo[i].byte = Base + Fed + i
                                 /\ fifo[i].eoi <=> part.eoi /\ Fed + i = part.n

\* nec7210_write, and before it.
Pio ==
  /\ pc = "w_load" => pos < Length
  /\ pc = "w_begin" => pos < goal /\ goal <= pos + BufferLength /\ (eoi <=> (goal = Length /\ end))
  /\ pc \in {"w_wait", "w_put"} => pos < goal
  /\ pc \in {"w_drain", "w_eoi", "w_seoi"} => pos = goal
  /\ pc \in {"w_eoi", "w_seoi"} => eoi
  /\ pc \in InPio /\ eoi => goal + 1 = Length /\ end
  /\ pc \in {"w_wait", "w_put"} /\ ~eoi => (seoi <=> (goal = Length /\ end))
  /\ pc \in {"w_wait", "w_put"} /\ eoi => ~seoi
  /\ pc = "w_wait" => last <= pos /\ pos <= last + 1
  /\ pc = "w_wait" /\ seoi => last = pos
  /\ pc = "w_done" => (ret = "ok" <=> pos = Length)

\* What the waits returned.
Returned ==
  /\ pc \notin {"a_stop", "b_drain"} \cup Returning => ret = "ok"
  /\ ret = "ERESTARTSYS" => signals > 0
  /\ pc = "a_stop" /\ ret = "ok" => put = part.n /\ (Straight => fifo = <<>>)
  /\ pc = "b_drain" /\ ret = "ok" => pos = goal
  /\ pc = "b_drain" /\ Failed => Failures(Tms9914.tests) # {}
  /\ Straight /\ skew # 0 => pc \in Returning /\ Failed

\* The chip's bits.
Bits ==
  /\ "WRITE_READY" \in state => "DO" \notin ints /\ "ERR" \notin ints
  /\ "WRITE_READY" \in state \/ "DO" \in ints => ready
  /\ ready => out = NoByte
  /\ stream \/ pc = "a_restart" \/ driver \notin OnTms9914 \cup {"nec7210", "cb7210"} => ~ready
  /\ pc \in {"w_put", "b_put", "w_seoi"} => "WRITE_READY" \in state
  /\ errors = 0 => "ERR" \notin ints /\ "BUS_ERROR" \notin state

\* The terminal count ends the wait for its own block.
Terminal ==
  Straight /\ driver \in Indexed =>
    /\ "TERM_COUNT" \in state => "TC" \notin ints
    /\ ("TERM_COUNT" \in state \/ "TC" \in ints) =>
         /\ fifo = <<>>
         /\ \/ pc = "a_done"
            \/ pc \in {"a_stop"} \cup Returning /\ Failed
            \/ pc = "w_done"

\* The last byte, and no other, goes with EOI; bytes are not sent again once accepted.
Armed ==
  Straight =>
    /\ seoi => end /\ pos + 1 = Length /\ (pc \in OnFifo => Fed = 0) /\ driver # "ines"
    /\ pc \in ByByte /\ eoi /\ Len(parts) = 1 /\ ~part.eoi => seoi \/ put = part.n

Eoi ==
  Straight =>
    /\ out # NoByte => out.byte > 0 /\ (out.eoi <=> (out.byte = Length /\ end)) /\ accepted <= out.byte
    /\ heard_end <=> (accepted = Length /\ end)
    /\ Newest <= Front
    /\ pc = "w_wait" /\ last < pos =>
         /\ out # NoByte => "BUS_ERROR" \notin state /\ "ERR" \notin ints /\ accepted <= last
         /\ "BUS_ERROR" \in state \/ "ERR" \in ints => accepted <= last

\* Without what the drivers cannot bear, each byte follows the one before.
Borne ==
  /\ driver = "nec7210" => signals = 0 /\ atns = 0
  /\ driver \in Indexed \cup {"ines", "cb7210"} => signals = 0
  /\ driver # "nec7210" => errors = 0

Lost == /\ driver = "nec7210" /\ pc \in {"w_wait", "w_drain"} /\ out = NoByte
        /\ accepted = last /\ pos = last + 1 /\ ("ERR" \in ints \/ "BUS_ERROR" \in state)

Level ==
  Borne =>
    /\ ~gap
    /\ out # NoByte => out.byte = accepted + 1
    /\ GivenUp \/ Newest = Front \/ Lost

\* How the nec7210 knows of a lost byte.
Resends ==
  driver = "nec7210" /\ signals = 0 /\ atns = 0 =>
    /\ ~atn /\ "ATN" \notin status
    /\ out # NoByte => "ERR" \notin ints /\ "BUS_ERROR" \notin state
    /\ "ERR" \in ints => "BUS_ERROR" \notin state
    /\ pc \in {"w_load", "w_begin", "w_eoi", "w_seoi"} \/ (pc \in {"w_ret", "w_stop"} /\ ret = "ok")
         => out = NoByte /\ "ERR" \notin ints /\ "BUS_ERROR" \notin state
    /\ pc \in {"w_wait", "w_drain"} /\ (out # NoByte \/ "ERR" \in ints \/ "BUS_ERROR" \in state)
         => pos = last + 1

\* What is counted was sent.
Sent ==
  errors = 0 /\ driver # "ines" =>
    /\ pos = Length => Newest = Length
    /\ pc \in OnFifo /\ Fed > 0 => Newest = Base + Fed

-----------------------------------------------------------------------------
(* The steps of a write.                                                     *)

Waits ==
  PartBegin \/ Wait("a_restart", FALSE, ClearOrTimo, {}, "a_done", "a_stop") \/ FillFails \/ PartSent
    \/ LastByteSent \/ TmsWait
Restarted ==
  /\ Goto("a_restart", "a_done") /\ stream' = TRUE
  /\ UNCHANGED <<end, pos, goal, last, eoi, ret, status, state, chip, bus, counts,
                 driver, parts, put, fifo, skew>>
PioWaits == PioWait \/ PioDrain \/ EoiWait
InWrite ==
  (WriteBegin /\ (driver = "nec7210" \/ parts # <<>>))
    \/ PioWaits \/ PioPut \/ SendSeoi \/ WriteReturn \/ WriteStop
\* What goes on beside it.
RaiseFreeDO ==
  RaiseDO /\ driver \in OnTms9914 \cup {"nec7210", "cb7210"} /\ ~stream /\ pc # "a_restart"
ChangeNecAtn == ChangeAtn /\ driver = "nec7210"
Beside ==
  RaiseFreeDO \/ Accept \/ BusError \/ DeviceClear \/ ChangeNecAtn \/ Expire \/ WatchdogTimeout \/ Interrupt
BesideNow == Beside /\ UNCHANGED <<pc, end, pos, goal, last, eoi, ret, seoi, signals, accel>>

LEMMA WritingSteps ==
  ASSUME pc \in Writing, AccelNext
  PROVE  \/ Load \/ CallWrite \/ Waits \/ Arm \/ Restarted \/ FillFifo \/ StopPart \/ PioPart
         \/ TmsWrite \/ TmsPut \/ TmsDrain
         \/ (InWrite /\ UNCHANGED accel) \/ (Signal /\ UNCHANGED accel) \/ (Restart /\ UNCHANGED accel)
         \/ AccelSignal \/ Feed \/ BesideNow
<1>1. CASE Load
  BY <1>1
<1>2. CASE PioStep
  <2>1. ~(ReadLoad \/ ReadBegin \/ PioRead \/ PioCheck \/ ReadReturn)
    BY LabelsApart DEF ReadLoad, ReadBegin, PioRead, PioCheck, ReadReturn, Goto, Writing, Reading
  <2> QED
    BY <1>2, <2>1 DEF PioStep, InWrite, PioWaits
<1>3. CASE AccelStep
  <2>1. RestartWriteFifo => Waits \/ Restarted
    BY DEF RestartWriteFifo, Waits, Restarted
  <2> QED
    BY <1>3, <2>1 DEF AccelStep, Waits
<1>4. CASE TimerStep \/ InterruptStep
  <2>1. (Expire \/ WatchdogTimeout \/ Interrupt) /\ UNCHANGED accel
    BY <1>4 DEF TimerStep, InterruptStep
  <2> QED
    BY <2>1 DEF BesideNow, Beside, Expire, WatchdogTimeout, Interrupt, caller, chip, counts
<1>5. CASE BusStep
  <2>1. ~TalkerSend
    BY LabelsApart DEF TalkerSend
  <2>2. (RaiseFreeDO \/ Accept \/ BusError \/ DeviceClear \/ ChangeNecAtn) /\ UNCHANGED accel => BesideNow
    BY DEF BesideNow, Beside, RaiseFreeDO, RaiseDO, Accept, BusError, DeviceClear, ChangeNecAtn, ChangeAtn,
       caller, chip, counts
  <2> QED
    BY <1>5, <2>1, <2>2 DEF BusStep, RaiseFreeDO, ChangeNecAtn
<1>6. CASE AccelSignal \/ Feed
  BY <1>6
<1> QED
  BY <1>1, <1>2, <1>3, <1>4, <1>5, <1>6 DEF AccelNext, IoctlStep

\* How the waits of the drivers end.
LEMMA HowWaitsEnd ==
  ASSUME Waits, driver \in Accelerated
  PROVE  /\ UNCHANGED Waited
         /\ state' \subseteq state
         /\ state \ state' \subseteq {"BUS_ERROR", "DEV_CLEAR"} \cup Events(pc)
         /\ \/ pc = "a_part" /\ pc' = "a_arm" /\ ret' = "ok"
            \/ pc = "a_done" /\ PartDone /\ pc' = (IF driver = "fluke" THEN "a_sent" ELSE "a_stop") /\ ret' = "ok"
                 /\ "TERM_COUNT" \notin state'
            \/ pc = "a_sent" /\ pc' = "a_stop" /\ ret' = "ok"
            \/ pc = "b_wait" /\ pc' = "b_put" /\ ret' = "ok" /\ "WRITE_READY" \in state /\ state' = state
            \/ pc = "a_part" /\ pc' = "w_ret" /\ ret' \in Errors
            \/ pc \in {"a_restart", "a_space", "a_done", "a_sent"} /\ pc' = "a_stop" /\ ret' \in Errors
            \/ pc = "b_wait" /\ pc' = "b_drain" /\ ret' \in Errors /\ Failures(Tms9914.tests) # {}
                 /\ state' = state
<1>1. CASE PartBegin
  <2> DEFINE tests == IF driver \in Waiters THEN ClearOrTimo ELSE <<>>
  <2>1. Testable(tests)
    BY TestsAreFew
  <2>2. Wait("a_part", driver \notin Waiters \/ ChipReady, tests, {"DEV_CLEAR"}, "a_arm", "w_ret")
    BY <1>1 DEF PartBegin
  <2> HIDE DEF tests
  <2> QED
    BY <2>1, <2>2, WaitEffect DEF Events
<1>2. CASE Wait("a_restart", FALSE, ClearOrTimo, {}, "a_done", "a_stop")
  <2> DEFINE never == FALSE
  <2>1. Wait("a_restart", never, ClearOrTimo, {}, "a_done", "a_stop") /\ Testable(ClearOrTimo)
    BY <1>2, TestsAreFew
  <2>2. ~never
    OBVIOUS
  <2> HIDE DEF never
  <2> QED
    BY <2>1, <2>2, WaitEffect DEF Events
<1>3. CASE FillFails
  <2>1. pc = "a_space"
    BY <1>3 DEF FillFails, Wait
  <2>2. Testable(RoomTests) /\ RoomConsumes \subseteq {"BUS_ERROR", "DEV_CLEAR"}
    BY <2>1, TestsAreFew, TraitOfDriver DEF RoomTests, RoomConsumes
  <2> QED
    BY <1>3, <2>1, <2>2, WaitEffect DEF FillFails, Events
<1>4. CASE PartSent
  <2>1. pc = "a_done"
    BY <1>4 DEF PartSent, Wait
  <2>2. Testable(Trait[driver].tests) /\ Trait[driver].consumes \subseteq {"BUS_ERROR", "DEV_CLEAR"}
    BY <2>1, TraitOfDriver
  <2> DEFINE next == IF driver = "fluke" THEN "a_sent" ELSE "a_stop"
  <2>3. Wait("a_done", PartDone, Trait[driver].tests, Trait[driver].consumes, next, "a_stop")
    BY <1>4 DEF PartSent
  <2> HIDE DEF next
  <2>4. /\ UNCHANGED Waited
        /\ \/ Failures(Trait[driver].tests) = {} /\ PartDone /\ pc' = next /\ ret' = "ok"
                /\ state' = state \ Events("a_done")
           \/ pc' = "a_stop" /\ ret' \in Errors
                /\ state' \subseteq state
                /\ state \ state' \subseteq {"BUS_ERROR", "DEV_CLEAR"} \cup Events("a_done")
    BY <2>2, <2>3, WaitEffect
  <2> QED
    BY <2>1, <2>4 DEF Events, next
<1>5. CASE LastByteSent
  BY <1>5, TestsAreFew, WaitEffect DEF LastByteSent, Events
<1>6. CASE TmsWait
  <2>1. Testable(Tms9914.tests)
    BY TestsAreFew
  <2> DEFINE due == "WRITE_READY" \in state
  <2>2. Wait("b_wait", due, Tms9914.tests, {}, "b_put", "b_drain")
    BY <1>6 DEF TmsWait
  <2>3. state' = state
    BY <2>2 DEF Wait, Events
  <2> HIDE DEF due
  <2>4. /\ UNCHANGED Waited /\ pc = "b_wait"
        /\ \/ due /\ pc' = "b_put" /\ ret' = "ok"
           \/ Failures(Tms9914.tests) # {} /\ pc' = "b_drain" /\ ret' \in Errors
    BY <2>1, <2>2, WaitEffect
  <2> QED
    BY <2>3, <2>4 DEF due
<1> QED
  BY <1>1, <1>2, <1>3, <1>4, <1>5, <1>6 DEF Waits

\* How those of nec7210_write end.
LEMMA HowPioWaitsEnd ==
  ASSUME PioWaits, status \subseteq {"TIMO", "ATN"}
  PROVE  /\ UNCHANGED <<end, goal, last, eoi, status, ints, out, ready, seoi, bus, counts>>
         /\ state' \subseteq state /\ state \ state' \subseteq {"BUS_ERROR"}
         /\ \/ /\ pc' \in {"w_put", "w_seoi"} /\ ret' = "ok" /\ pos' = pos /\ state' = state
               /\ (pc = "w_wait" /\ pc' = "w_put") \/ (pc = "w_eoi" /\ pc' = "w_seoi")
               /\ "WRITE_READY" \in state /\ "BUS_ERROR" \notin state
            \/ /\ pc = "w_drain" /\ pc' = (IF eoi THEN "w_eoi" ELSE "w_ret")
               /\ ret' = "ok" /\ pos' = pos /\ state' = state
               /\ "ATN" \in status \/ "WRITE_READY" \in state
               /\ "BUS_ERROR" \notin state
            \/ /\ pc \in {"w_wait", "w_drain", "w_eoi"} /\ pc' = "w_ret" /\ ret' \in Errors
               /\ \/ pos' = pos
                  \/ pc = "w_wait" /\ "BUS_ERROR" \in state /\ pos' = last
            \/ /\ pc = "w_wait" /\ pc' = "w_wait" /\ ret' = ret /\ pos' = last
               /\ "BUS_ERROR" \in state /\ "BUS_ERROR" \notin state'
<1>1. /\ WaitResult \in Errors \cup {"ok"}
      /\ WaitResult = "EIO" => "BUS_ERROR" \in state
      /\ WaitResult = "ok" => "TIMO" \notin status /\ WriteEvents \subseteq {"WRITE_READY"}
                                /\ "BUS_ERROR" \notin state
  BY DEF WaitResult, WriteEvents, Errors
<1>2. WriteEvents \subseteq {"WRITE_READY"} /\ WriteEvents # {} => "WRITE_READY" \in state
  BY DEF WriteEvents
<1>3. CASE PioWait
  <2>1. UNCHANGED <<end, goal, last, eoi, status, ints, out, ready, seoi, bus, counts>> /\ pc = "w_wait"
        /\ (status \cap {"TIMO"} # {} \/ WriteEvents # {})
    BY <1>3 DEF PioWait, WriteWait, Goto, chip
  <2>2. CASE WriteWait("w_wait", "w_put") /\ WaitResult # "EIO" /\ UNCHANGED pos
    <3>1. CASE WaitResult = "ok"
      <4>1. WriteEvents # {}
        BY <1>1, <2>1, <3>1
      <4>2. "WRITE_READY" \in state /\ "BUS_ERROR" \notin state
        BY <1>1, <1>2, <3>1, <4>1
      <4>3. pc' = "w_put" /\ ret' = "ok" /\ state' = state /\ pos' = pos
        BY <2>2, <3>1 DEF WriteWait
      <4>4. state \ state' \subseteq {"BUS_ERROR"} /\ state' \subseteq state
        BY <4>3
      <4> QED
        BY <2>1, <4>2, <4>3, <4>4
    <3>2. CASE WaitResult \in Errors
      BY <2>1, <2>2, <3>2 DEF WriteWait, Errors
    <3> QED
      BY <1>1, <3>1, <3>2
  <2>3. CASE WriteWait("w_wait", "w_put") /\ WaitResult = "EIO" /\ Resend
    BY <1>1, <2>1, <2>3 DEF WriteWait, Resend
  <2>4. CASE Goto("w_wait", "w_wait") /\ WaitResult = "EIO" /\ Resend
               /\ state' = state \ {"BUS_ERROR"} /\ UNCHANGED ret
    BY <1>1, <2>1, <2>4 DEF Goto, Resend
  <2> QED
    BY <1>3, <2>2, <2>3, <2>4 DEF PioWait
<1>4. CASE PioDrain
  BY <1>1, <1>2, <1>4 DEF PioDrain, WriteWait, chip
<1>5. CASE EoiWait
  BY <1>1, <1>2, <1>5 DEF EoiWait, WriteWait, chip
<1> QED
  BY <1>3, <1>4, <1>5 DEF PioWaits

-----------------------------------------------------------------------------
(* What the invariant says of the parts.                                     *)

\* Which drivers write in which ways.
LEMMA WaysApart ==
  ASSUME driver \in Drivers
  PROVE  /\ driver \in Accelerated \cup {"nec7210"} /\ "nec7210" \notin Accelerated
         /\ OnTms9914 \subseteq Accelerated /\ Indexed \subseteq OnTms9914
         /\ driver = "nec7210" => Ways = {}
         /\ "pio" \in Ways => driver = "cb7210"
         /\ driver = "cb7210" => "block" \notin Ways /\ "bytes" \notin Ways
         /\ "bytes" \in Ways => driver \in OnTms9914
         /\ "block" \in Ways => driver \in Indexed \cup {"fmh_dma", "fluke"}
         /\ "fifo" \in Ways => driver \in {"tnt4882", "ines", "fmh_fifo", "cb7210"}
         /\ Ways \subseteq {"fifo", "block", "bytes", "pio"}
         /\ driver = "tms9914" => Ways = {"bytes"}
<1>1. driver \in {"tnt4882", "ines", "cb7210", "agilent_82350b", "hp_82341", "fmh_fifo", "fmh_dma",
                 "fluke", "tms9914", "nec7210"}
  BY DriverAssumption DEF Accelerated, Trait
<1>2. OnTms9914 \subseteq Accelerated /\ Indexed \subseteq OnTms9914 /\ "nec7210" \notin Accelerated
      /\ driver \in Accelerated \cup {"nec7210"}
  BY DriverAssumption DEF Accelerated, Trait, OnTms9914, Indexed
<1>3. CASE driver = "tnt4882"
  BY <1>2, <1>3 DEF Ways, WaysOf
<1>4. CASE driver = "ines"
  BY <1>2, <1>4 DEF Ways, WaysOf
<1>5. CASE driver = "cb7210"
  BY <1>2, <1>5 DEF Ways, WaysOf
<1>6. CASE driver = "agilent_82350b"
  BY <1>2, <1>6 DEF Ways, WaysOf, OnTms9914, Indexed
<1>7. CASE driver = "hp_82341"
  BY <1>2, <1>7 DEF Ways, WaysOf, OnTms9914, Indexed
<1>8. CASE driver = "fmh_fifo"
  BY <1>2, <1>8 DEF Ways, WaysOf
<1>9. CASE driver = "fmh_dma"
  BY <1>2, <1>9 DEF Ways, WaysOf
<1>10. CASE driver = "fluke"
  BY <1>2, <1>10 DEF Ways, WaysOf
<1>11. CASE driver = "tms9914"
  BY <1>2, <1>11 DEF Ways, WaysOf, OnTms9914
<1>12. CASE driver = "nec7210"
  BY <1>2, <1>12 DEF Ways, WaysOf
<1> QED
  BY <1>1, <1>3, <1>4, <1>5, <1>6, <1>7, <1>8, <1>9, <1>10, <1>11, <1>12

LEMMA CoversBegins ==
  ASSUME NEW p, Len(p) \in Nat, NEW a, NEW c \in Nat, Covers(p, a, c)
  PROVE  a \in 0 .. c
BY DEF Covers

\* The part that is written, and those after it.
LEMMA Ahead ==
  ASSUME Types, PartsInv, Sums, pc \in InPart
  PROVE  \E to \in 0 .. Length :
           /\ part \in PartsBy(Ways) /\ part.how \in Ways /\ part.n \in 1 .. BufferLength /\ part.eoi \in BOOLEAN
           /\ part.how = "block" /\ part.eoi => part.n = 1
           /\ Start \in 0 .. to /\ Start + part.n <= to /\ Len(parts) \in Nat \ {0}
           /\ Len(parts) = 1 <=> Start + part.n = to
           /\ Covers(parts, Start, to) /\ to <= pos + BufferLength
           /\ eoi <=> (to = Length /\ end)
           /\ driver \notin OnTms9914 => to = goal
           /\ Tail(parts) \in Seq(PartsBy(Ways)) /\ Covers(Tail(parts), Start + part.n, to)
<1>1. PICK to \in 0 .. Length :
        /\ Covers(parts, Start, to) /\ to <= pos + BufferLength
        /\ eoi <=> (to = Length /\ end)
        /\ driver \notin OnTms9914 => to = goal
  BY DEF Sums
<1>2. parts \in Seq(PartsBy(Ways)) /\ parts # <<>> /\ Len(parts) \in Nat /\ to \in Nat
  BY LenProperties, LengthAssumption DEF PartsInv
<1>3. Start \in 0 .. to
  BY <1>1, <1>2, CoversBegins
<1>4. Start \in Nat
  BY <1>2, <1>3
<1>5. /\ part \in PartsBy(Ways) /\ Len(parts) \in Nat \ {0}
      /\ Start + part.n <= to /\ (Len(parts) = 1 <=> Start + part.n = to)
      /\ Tail(parts) \in Seq(PartsBy(Ways)) /\ Covers(Tail(parts), Start + part.n, to)
  BY <1>1, <1>2, <1>4, CoversFirst DEF part
<1>6. /\ part.how \in Ways /\ part.n \in 1 .. BufferLength /\ part.eoi \in BOOLEAN
      /\ part.how = "block" /\ part.eoi => part.n = 1
  BY <1>5 DEF PartsBy
<1> HIDE DEF part, Start, Covers, Ways
<1> QED
  BY <1>1, <1>3, <1>5, <1>6

\* EOI is armed for the first part: its record no longer says so.
LEMMA HeadWithoutEoi ==
  ASSUME NEW ways, NEW p \in Seq(PartsBy(ways)), p # <<>>,
         NEW q, q = <<[Head(p) EXCEPT !.eoi = FALSE]>> \o Tail(p)
  PROVE  /\ q \in Seq(PartsBy(ways)) /\ Len(q) = Len(p) /\ q # <<>> /\ Tail(q) = Tail(p)
         /\ Head(q).how = Head(p).how /\ Head(q).n = Head(p).n /\ ~Head(q).eoi
         /\ \A i \in 1 .. Len(p) : q[i].how = p[i].how /\ q[i].n = p[i].n
         /\ \A a, c : Covers(p, a, c) => Covers(q, a, c)
<1> DEFINE h == [Head(p) EXCEPT !.eoi = FALSE]
<1>1. /\ Len(p) \in Nat \ {0} /\ Head(p) = p[1] /\ p[1] \in PartsBy(ways)
      /\ Tail(p) \in Seq(PartsBy(ways)) /\ Len(Tail(p)) = Len(p) - 1
      /\ \A i \in 1 .. (Len(p) - 1) : Tail(p)[i] = p[i + 1]
  BY EmptySeq, HeadTailProperties, ElementOfSeq
<1>2. h \in PartsBy(ways) /\ h.how = p[1].how /\ h.n = p[1].n /\ ~h.eoi
  BY <1>1 DEF PartsBy
<1> HIDE DEF h
<1>3. /\ q = <<h>> \o Tail(p) /\ <<h>> \in Seq(PartsBy(ways)) /\ Len(<<h>>) = 1 /\ <<h>>[1] = h
  BY <1>2 DEF h
<1>4. /\ q \in Seq(PartsBy(ways)) /\ Len(q) = Len(p)
      /\ \A i \in 1 .. Len(p) : q[i] = IF i <= 1 THEN h ELSE Tail(p)[i - 1]
  <2> DEFINE f == <<h>>
             t == Tail(p)
  <2>1. /\ f \in Seq(PartsBy(ways)) /\ t \in Seq(PartsBy(ways)) /\ q = f \o t /\ Len(f) = 1
        /\ Len(t) = Len(p) - 1 /\ f[1] = h
    BY <1>1, <1>3
  <2> HIDE DEF f, t
  <2>2. /\ q \in Seq(PartsBy(ways)) /\ Len(q) = Len(f) + Len(t)
        /\ \A i \in 1 .. Len(f) + Len(t) : q[i] = IF i <= Len(f) THEN f[i] ELSE t[i - Len(f)]
    <3>1. /\ f \o t \in Seq(PartsBy(ways)) /\ Len(f \o t) = Len(f) + Len(t)
          /\ \A i \in 1 .. Len(f) + Len(t) : (f \o t)[i] = IF i <= Len(f) THEN f[i] ELSE t[i - Len(f)]
      BY <2>1, ConcatProperties
    <3> QED
      BY <2>1, <3>1
  <2>3. Len(f) + Len(t) = Len(p)
    BY <1>1, <2>1
  <2>4. ASSUME NEW i \in 1 .. Len(p) PROVE q[i] = IF i <= 1 THEN h ELSE t[i - 1]
    <3>1. q[i] = IF i <= 1 THEN f[i] ELSE t[i - 1]
      BY <2>1, <2>2, <2>3
    <3>2. i <= 1 => i = 1
      BY <1>1
    <3> QED
      BY <2>1, <3>1, <3>2
  <2> QED
    BY <2>2, <2>3, <2>4 DEF t
<1>5. q # <<>> /\ Head(q) = q[1] /\ q[1] = h /\ Tail(q) \in Seq(PartsBy(ways)) /\ Len(Tail(q)) = Len(p) - 1
      /\ \A i \in 1 .. (Len(p) - 1) : Tail(q)[i] = q[i + 1]
  BY <1>1, <1>4, EmptySeq, HeadTailProperties
<1>6. \A i \in 1 .. Len(p) : q[i].how = p[i].how /\ q[i].n = p[i].n
  <2> SUFFICES ASSUME NEW i \in 1 .. Len(p) PROVE q[i].how = p[i].how /\ q[i].n = p[i].n
    OBVIOUS
  <2>1. CASE i = 1
    BY <1>2, <1>5, <2>1
  <2>2. CASE i # 1
    <3>1. i - 1 \in 1 .. (Len(p) - 1) /\ (i - 1) + 1 = i
      BY <1>1, <2>2
    <3>2. q[i] = p[i]
      BY <1>1, <1>4, <2>2, <3>1
    <3> QED
      BY <3>2
  <2> QED
    BY <2>1, <2>2
<1>7. Tail(q) = Tail(p)
  <2>1. \A i \in 1 .. (Len(p) - 1) : Tail(q)[i] = Tail(p)[i]
    BY <1>1, <1>4, <1>5
  <2> QED
    BY <1>1, <1>5, <2>1, SeqEqual
<1>8. ASSUME NEW a, NEW c, Covers(p, a, c) PROVE Covers(q, a, c)
  <2>1. PICK o \in [1 .. Len(p) + 1 -> 0 .. c] :
          /\ o[1] = a /\ o[Len(p) + 1] = c
          /\ \A i \in 1 .. Len(p) : o[i + 1] = o[i] + p[i].n
    BY <1>8 DEF Covers
  <2>2. \A i \in 1 .. Len(p) : o[i + 1] = o[i] + q[i].n
    BY <1>6, <2>1
  <2>3. Len(q) = Len(p)
    BY <1>4
  <2> QED
    BY <2>1, <2>2, <2>3 DEF Covers
<1> QED
  BY <1>1, <1>2, <1>4, <1>5, <1>6, <1>7, <1>8

\* The parts after the first.
LEMMA TailParts ==
  ASSUME NEW ways, NEW p \in Seq(PartsBy(ways)), p # <<>>, NEW e
  PROVE  /\ EoiLast(p, e) => EoiLast(Tail(p), e)
         /\ PioLast(p) => PioLast(Tail(p))
         /\ Tail(p) = <<>> <=> Len(p) = 1
         /\ EoiLast(p, e) => (Head(p).eoi <=> Len(p) = 1 /\ e)
         /\ PioLast(p) /\ driver = "cb7210" => (Head(p).how = "pio" <=> Len(p) = 1)
<1>1. /\ Len(p) \in Nat \ {0} /\ DOMAIN p = 1 .. Len(p) /\ Head(p) = p[1]
      /\ Tail(p) \in Seq(PartsBy(ways)) /\ Len(Tail(p)) = Len(p) - 1
      /\ DOMAIN Tail(p) = 1 .. (Len(p) - 1)
      /\ \A i \in 1 .. (Len(p) - 1) : Tail(p)[i] = p[i + 1] /\ i + 1 \in 1 .. Len(p)
  BY EmptySeq, HeadTailProperties, LenProperties
<1>2. EoiLast(p, e) => EoiLast(Tail(p), e)
  <2> SUFFICES ASSUME EoiLast(p, e), NEW i \in 1 .. (Len(p) - 1)
               PROVE  Tail(p)[i].eoi <=> i = Len(p) - 1 /\ e
    BY <1>1 DEF EoiLast
  <2>1. p[i + 1].eoi <=> i + 1 = Len(p) /\ e
    BY <1>1 DEF EoiLast
  <2>2. i + 1 = Len(p) <=> i = Len(p) - 1
    BY <1>1
  <2> QED
    BY <1>1, <2>1, <2>2
<1>3. PioLast(p) => PioLast(Tail(p))
  <2> SUFFICES ASSUME PioLast(p), driver = "cb7210", NEW i \in 1 .. (Len(p) - 1)
               PROVE  (Tail(p)[i].how = "pio" <=> i = Len(Tail(p))) /\ (Tail(p)[i].how = "fifo" => i < Len(Tail(p)))
    <3>1. DOMAIN Tail(p) = 1 .. (Len(p) - 1)
      BY <1>1
    <3> QED
      BY <3>1 DEF PioLast
  <2>1. (p[i + 1].how = "pio" <=> i + 1 = Len(p)) /\ (p[i + 1].how = "fifo" => i + 1 < Len(p))
    <3> DEFINE j == i + 1
    <3>1. j \in DOMAIN p
      BY <1>1
    <3> HIDE DEF j
    <3>2. (p[j].how = "pio" <=> j = Len(p)) /\ (p[j].how = "fifo" => j < Len(p))
      BY <3>1 DEF PioLast
    <3> QED
      BY <3>2 DEF j
  <2>2. (i + 1 = Len(p) <=> i = Len(p) - 1) /\ (i + 1 < Len(p) <=> i < Len(p) - 1)
    BY <1>1
  <2> QED
    BY <1>1, <2>1, <2>2
<1>4. Tail(p) = <<>> <=> Len(p) = 1
  BY <1>1, EmptySeq
<1>5. EoiLast(p, e) => (Head(p).eoi <=> Len(p) = 1 /\ e)
  BY <1>1 DEF EoiLast
<1>6. PioLast(p) /\ driver = "cb7210" => (Head(p).how = "pio" <=> Len(p) = 1)
  <2> SUFFICES ASSUME PioLast(p), driver = "cb7210" PROVE p[1].how = "pio" <=> Len(p) = 1
    BY <1>1
  <2>1. 1 \in DOMAIN p
    BY <1>1
  <2>2. p[1].how = "pio" <=> 1 = Len(p)
    BY <2>1 DEF PioLast
  <2> QED
    BY <2>2
<1> QED
  BY <1>2, <1>3, <1>4, <1>5, <1>6

-----------------------------------------------------------------------------
(* Each step keeps each part of the invariant.                               *)

\* A part is written by a driver of this module.
LEMMA OnBoard == ASSUME Types, PartsInv, pc \in InPart PROVE driver \in Accelerated
<1>1. driver # "nec7210"
  <2> SUFFICES ASSUME driver = "nec7210" PROVE FALSE
    OBVIOUS
  <2>1. Ways = {}
    BY WaysApart DEF Types
  <2>2. parts[1] \in PartsBy(Ways)
    BY ElementOfSeq, EmptySeq, LenProperties DEF PartsInv
  <2> QED
    BY <2>1, <2>2 DEF PartsBy
<1> QED
  BY <1>1, WaysApart DEF Types

\* The parts of a load.
LEMMA LoadParts ==
  ASSUME Types, Pio, CallWrite
  PROVE  /\ parts' \in Seq(PartsBy(Ways)) /\ Covers(parts', pos, goal) /\ EoiLast(parts', eoi)
         /\ parts' # <<>> /\ PioLast(parts') /\ (driver = "tms9914" => Len(parts') <= 1)
<1>1. /\ driver \in Accelerated /\ pc = "w_begin" /\ parts' = PartsOf(goal - pos, eoi)
  BY DEF CallWrite, Goto
<1>2. /\ goal - pos \in 1 .. BufferLength /\ pos + (goal - pos) = goal /\ pos \in Nat /\ eoi \in BOOLEAN
  BY <1>1, LengthAssumption DEF Types, Pio
<1>3. /\ parts' \in Seq(PartsBy(Ways)) /\ Covers(parts', pos, pos + (goal - pos)) /\ EoiLast(parts', eoi)
      /\ parts' # <<>> /\ PioLast(parts')
  <2> DEFINE m == goal - pos
  <2>1. m \in 1 .. BufferLength /\ parts' = PartsOf(m, eoi)
    BY <1>1, <1>2
  <2> HIDE DEF m
  <2>2. /\ parts' \in Seq(PartsBy(Ways)) /\ Covers(parts', pos, pos + m) /\ EoiLast(parts', eoi)
        /\ parts' # <<>> /\ PioLast(parts')
    BY <1>1, <1>2, <2>1, PartsCover
  <2> QED
    BY <2>2 DEF m
<1>4. driver = "tms9914" => Len(parts') <= 1
  BY <1>1 DEF PartsOf, Part
<1> QED
  BY <1>2, <1>3, <1>4

LEMMA PartsStep ==
  ASSUME pc \in Writing, Types, PartsInv, Sums, Pio, AccelNext
  PROVE  PartsInv'
<1> USE DEF InPart, OnFifo, ByByte, InPio
<1>1. parts \in Seq(PartsBy(Ways)) /\ PioLast(parts) /\ (driver = "tms9914" => Len(parts) <= 1)
  BY DEF PartsInv
<1>2. ASSUME driver' = driver PROVE Ways' = Ways /\ (PioLast(parts) /\ parts' = parts => PioLast(parts)')
  BY <1>2 DEF Ways, WaysOf, PioLast
<1>3. ASSUME parts' = parts, driver' = driver,
             pc' \notin InPart \cup InPio \cup {"w_begin"} \/ pc' = pc
      PROVE  PartsInv'
  BY <1>1, <1>2, <1>3 DEF PartsInv, part
<1>4. ASSUME parts' = <<>>, driver' = driver, pc' = "w_begin" PROVE PartsInv'
  <2>1. parts' \in Seq(PartsBy(Ways)) /\ Len(parts') = 0 /\ PioLast(parts)'
    BY <1>4, EmptySeq DEF PioLast
  <2> QED
    BY <1>2, <1>4, <2>1 DEF PartsInv
<1>5. CASE Load
  BY <1>4, <1>5 DEF Load, WriteLoad, Goto
<1>6. CASE CallWrite
  <2>1. /\ pc' = "a_part" /\ driver' = driver
    BY <1>6 DEF CallWrite, Goto
  <2>2. PioLast(parts)'
    BY <1>6, <2>1, LoadParts DEF PioLast
  <2> QED
    BY <1>2, <1>6, <2>1, <2>2, LoadParts DEF PartsInv
<1>7. CASE Waits
  <2>1. pc \in InPart
    BY <1>7 DEF Waits, PartBegin, FillFails, PartSent, LastByteSent, TmsWait, Wait
  <2>2. driver \in Accelerated
    BY <2>1, OnBoard
  <2>3. parts' = parts /\ driver' = driver
    BY <1>7, <2>2, HowWaitsEnd DEF Waited, accel
  <2> QED
    BY <1>1, <1>2, <1>7, <2>2, <2>3, HowWaitsEnd DEF PartsInv, part
<1>8. CASE Arm
  BY <1>1, <1>2, <1>8 DEF Arm, PartsInv, part
<1>9. CASE Restarted \/ FillFifo
  BY <1>1, <1>2, <1>9 DEF Restarted, FillFifo, Goto, PartsInv, part
<1>10. ASSUME parts' = Tail(parts), driver' = driver, parts # <<>>, pc' \in {"a_part", "w_ret"},
              pc' = "a_part" => parts' # <<>>
       PROVE  PartsInv'
  <2>1. parts' \in Seq(PartsBy(Ways)) /\ Len(parts') = Len(parts) - 1 /\ Len(parts) \in Nat
    BY <1>1, <1>10, HeadTailProperties, LenProperties
  <2>2. PioLast(parts)'
    BY <1>1, <1>10, TailParts DEF PioLast
  <2>3. driver = "tms9914" => Len(parts') <= 1
    BY <1>1, <2>1
  <2> QED
    BY <1>2, <1>10, <2>1, <2>2, <2>3 DEF PartsInv
<1>11. CASE StopPart
  BY <1>10, <1>11 DEF StopPart, PartEnds, PartsInv
<1>12. CASE PioPart
  <2>1. pc = "a_arm" /\ pc' = "w_begin" /\ UNCHANGED <<parts, driver>> /\ part.how = "pio"
    BY <1>12 DEF PioPart, Goto, accel
  <2>2. driver = "cb7210"
    BY <2>1, Ahead, WaysApart DEF Types
  <2>3. Len(parts) = 1
    BY <1>1, <2>1, <2>2, TailParts DEF PartsInv, part
  <2> QED
    BY <1>1, <1>2, <2>1, <2>3 DEF PartsInv, part
<1>13. ASSUME pc \in InPart, part.how = "bytes", driver' = driver, pc' = "b_wait",
              parts' = parts \/ parts' = <<[part EXCEPT !.eoi = FALSE]>> \o Tail(parts)
       PROVE  PartsInv'
  <2>1. parts # <<>>
    BY <1>13 DEF PartsInv
  <2>2. CASE parts' = parts
    BY <1>1, <1>2, <1>13, <2>1, <2>2 DEF PartsInv, part
  <2>3. CASE parts' = <<[part EXCEPT !.eoi = FALSE]>> \o Tail(parts)
    <3>1. /\ parts' \in Seq(PartsBy(Ways)) /\ Len(parts') = Len(parts) /\ parts' # <<>>
          /\ part.how' = "bytes" /\ \A i \in 1 .. Len(parts) : parts'[i].how = parts[i].how
      BY <1>1, <1>13, <2>1, <2>3, HeadWithoutEoi DEF part
    <3>2. DOMAIN parts = 1 .. Len(parts) /\ DOMAIN parts' = 1 .. Len(parts)
      BY <1>1, <3>1, LenProperties
    <3>3. PioLast(parts)'
      BY <1>1, <1>13, <3>1, <3>2 DEF PioLast
    <3> QED
      BY <1>1, <1>2, <1>13, <3>1, <3>3 DEF PartsInv
  <2> QED
    BY <1>13, <2>2, <2>3
<1>14. CASE TmsWrite
  BY <1>13, <1>14 DEF TmsWrite, PioWrite
<1>15. CASE TmsPut
  BY <1>1, <1>2, <1>15 DEF TmsPut, Goto, PartsInv, part
<1>16. CASE TmsDrain
  <2>1. pc = "b_drain" /\ driver' = driver /\ parts # <<>> /\ part.how = "bytes"
    BY <1>16 DEF TmsDrain, PartsInv
  <2> QED
    BY <1>10, <1>13, <1>16, <2>1 DEF TmsDrain, PartEnds, PioWrite
<1>17. ASSUME InWrite, UNCHANGED accel PROVE PartsInv'
  <2>1. parts' = parts /\ driver' = driver
    BY <1>17 DEF accel
  <2>2. CASE PioWaits
    BY <1>1, <1>2, <1>3, <2>1, <2>2, HowPioWaitsEnd DEF Types, PartsInv, part
  <2> QED
    BY <1>1, <1>2, <1>17, <2>1, <2>2 DEF InWrite, WriteBegin, PioPut, SendSeoi, WriteReturn, WriteStop, Goto,
       PartsInv, part
<1>18. ASSUME Signal \/ Restart, UNCHANGED accel PROVE PartsInv'
  <2>1. parts' = parts /\ driver' = driver
    BY <1>18 DEF accel
  <2>2. pc' \in {"w_ret", "w_load", "r_ret", "r_load"}
    BY <1>18 DEF Signal, Restart, Goto
  <2> QED
    BY <1>3, <2>1, <2>2
<1>19. CASE AccelSignal
  BY <1>1, <1>2, <1>19 DEF AccelSignal, Interruptible, accel, PartsInv, part
<1>20. CASE Feed \/ BesideNow
  BY <1>3, <1>20 DEF Feed, BesideNow, caller, accel
<1> QED
  BY <1>5, <1>6, <1>7, <1>8, <1>9, <1>11, <1>12, <1>14, <1>15, <1>16, <1>17, <1>18, <1>19, <1>20, WritingSteps

\* How far a write is in its part, when that stands still but for where the ioctl is.
Place == <<driver, parts, put, fifo, stream, skew, pos, goal, eoi, end, signals>>

\* The steps of a write that leave its place alone, and where they are.
LEMMA PlaceKept ==
  ASSUME Types, PartsInv, Waits \/ (InWrite /\ UNCHANGED accel) \/ BesideNow
  PROVE  /\ UNCHANGED <<driver, parts, put, fifo, stream, skew, end, signals>>
         /\ Waits \/ BesideNow => UNCHANGED Place
         /\ pc \in InPart => (Waits \/ BesideNow)
         /\ pc' \notin InPart => pc \notin InPart \/ (pc = "a_part" /\ pc' = "w_ret" /\ Waits)
         /\ pc' \in InPart => pc \in InPart
<1> USE DEF InPart, OnFifo, ByByte
<1>1. CASE Waits
  <2>1. pc \in InPart
    BY <1>1 DEF Waits, PartBegin, FillFails, PartSent, LastByteSent, TmsWait, Wait
  <2>2. driver \in Accelerated
    BY <2>1, OnBoard
  <2> QED
    BY <1>1, <2>1, <2>2, HowWaitsEnd DEF Waited, accel, counts, Place
<1>2. CASE BesideNow
  BY <1>2 DEF BesideNow, accel, Place
<1>3. CASE InWrite /\ UNCHANGED accel
  <2>1. pc \notin InPart /\ pc' \notin InPart /\ UNCHANGED <<end, signals>>
    <3>1. CASE PioWaits
      BY <3>1, HowPioWaitsEnd DEF Types, counts
    <3>2. CASE WriteBegin \/ PioPut
      BY <3>2 DEF WriteBegin, PioPut, Goto, counts
    <3>3. CASE SendSeoi \/ WriteReturn \/ WriteStop
      BY <3>3 DEF SendSeoi, WriteReturn, WriteStop, Goto, counts
    <3> QED
      BY <1>3, <3>1, <3>2, <3>3 DEF InWrite
  <2>2. UNCHANGED <<driver, parts, put, fifo, stream, skew>>
    BY <1>3 DEF accel
  <2> QED
    BY <1>1, <1>2, <2>1, <2>2
<1> QED
  BY <1>1, <1>2, <1>3

\* Only the drivers that wait until their FIFO has emptied wait further.
LEMMA StillStep ==
  ASSUME pc \in Writing, Types, PartsInv, Still, AccelNext
  PROVE  Still'
<1> USE DEF InPart, OnFifo, ByByte
<1>1. CASE Load
  BY <1>1 DEF Load, WriteLoad, Goto, Still
<1>2. CASE CallWrite \/ PioPart
  BY <1>2 DEF CallWrite, PioPart, Goto, accel, PartsInv, Still
<1>3. CASE Waits
  <2>1. UNCHANGED <<driver, put, fifo, stream, skew>> /\ driver \in Accelerated
    BY <1>3, PlaceKept, OnBoard DEF Waits, PartBegin, FillFails, PartSent, LastByteSent, TmsWait, Wait
  <2>2. ASSUME pc' = "a_sent" PROVE fifo = <<>>
    <3>1. PartDone /\ driver = "fluke"
      BY <1>3, <2>1, <2>2, HowWaitsEnd DEF Waited
    <3> QED
      BY <3>1 DEF PartDone, Trait, FlukeDma
  <2> QED
    BY <1>3, <2>1, <2>2, HowWaitsEnd DEF Still
<1>4. CASE Arm
  BY <1>4 DEF Arm, Still
<1>5. CASE Restarted \/ FillFifo
  BY <1>5 DEF Restarted, FillFifo, Goto, Still
<1>6. CASE StopPart
  BY <1>6 DEF StopPart, PartEnds, Still
<1>7. CASE TmsWrite \/ TmsPut
  <2>1. CASE TmsWrite
    BY <2>1 DEF TmsWrite, Still
  <2>2. CASE TmsPut
    <3>1. pc = "b_put" /\ pc' \in {"b_wait", "b_drain"} /\ UNCHANGED <<driver, fifo, stream, skew>>
      BY <2>2 DEF TmsPut, Goto
    <3> QED
      BY <3>1 DEF Still
  <2> QED
    BY <1>7, <2>1, <2>2
<1>8. CASE TmsDrain
  BY <1>8 DEF TmsDrain, PartEnds, Still
<1>9. ASSUME InWrite, UNCHANGED accel PROVE Still'
  <2>1. CASE PioWaits
    BY <1>9, <2>1, HowPioWaitsEnd DEF Types, Still, accel
  <2> QED
    BY <1>9, <2>1 DEF InWrite, WriteBegin, PioPut, SendSeoi, WriteReturn, WriteStop, Goto, Still, accel
<1>10. ASSUME Signal \/ Restart, UNCHANGED accel PROVE Still'
  BY <1>10 DEF Signal, Restart, Goto, Still, accel
<1>11. CASE AccelSignal
  BY <1>11 DEF AccelSignal, Interruptible, Still, accel
<1>12. CASE Feed
  BY <1>12 DEF Feed, Still, caller
<1>13. CASE BesideNow
  BY <1>13 DEF BesideNow, Still, accel
<1> QED
  BY <1>1, <1>2, <1>3, <1>4, <1>5, <1>6, <1>7, <1>8, <1>9, <1>10, <1>11, <1>12, <1>13, WritingSteps

LEMMA EoiInvStep ==
  ASSUME pc \in Writing, Types, PartsInv, Sums, Pio, EoiInv, AccelNext
  PROVE  EoiInv'
<1> USE DEF InPart, OnFifo, ByByte
<1>1. ASSUME parts' = parts, eoi' = eoi, pc' \in InPart => pc \in InPart,
             pc \in ByByte => pc' \in ByByte \/ pc' \notin InPart
      PROVE  EoiInv'
  BY <1>1 DEF EoiInv, EoiLast, part
<1>2. CASE Load
  BY <1>2 DEF Load, WriteLoad, Goto, EoiInv
<1>3. CASE CallWrite
  <2>1. EoiLast(parts', eoi) /\ eoi' = eoi
    BY <1>3, LoadParts DEF CallWrite
  <2> QED
    BY <2>1 DEF EoiInv, EoiLast
<1>4. CASE PioPart
  BY <1>4 DEF PioPart, Goto, EoiInv
<1>5. CASE Waits \/ BesideNow
  <2>1. UNCHANGED <<parts, eoi>> /\ (pc' \in InPart => pc \in InPart)
    BY <1>5, PlaceKept DEF Place
  <2>2. pc \in ByByte => pc' \in ByByte
    <3>1. CASE BesideNow
      BY <3>1 DEF BesideNow
    <3>2. ASSUME Waits, pc \in ByByte PROVE pc' \in ByByte
      BY <3>2, OnBoard, HowWaitsEnd
    <3> QED
      BY <1>5, <3>1, <3>2
  <2> QED
    BY <1>1, <2>1, <2>2
<1>6. CASE Arm \/ Restarted \/ FillFifo
  BY <1>1, <1>6 DEF Arm, Restarted, FillFifo, Goto
<1>7. ASSUME parts' = Tail(parts), eoi' = eoi, pc \in InPart, pc' \in {"a_part", "w_ret"},
             pc' = "a_part" => parts' # <<>>
      PROVE  EoiInv'
  <2>1. parts \in Seq(PartsBy(Ways)) /\ parts # <<>>
    BY <1>7 DEF PartsInv
  <2>2. EoiLast(parts, eoi) => EoiLast(parts', eoi)
    BY <1>7, <2>1, TailParts
  <2>3. parts' # <<>> => Len(parts) # 1
    BY <1>7, <2>1, TailParts
  <2>4. pc' = "a_part" => EoiLast(parts', eoi)
    BY <1>7, <2>2, <2>3 DEF EoiInv
  <2> QED
    BY <1>7, <2>4 DEF EoiInv, EoiLast
<1>8. CASE StopPart
  BY <1>7, <1>8 DEF StopPart, PartEnds
<1>9. ASSUME pc \in InPart, part.eoi, pc' = "b_wait", eoi' = eoi, parts' = <<[part EXCEPT !.eoi = FALSE]>> \o Tail(parts)
      PROVE  EoiInv'
  <2>1. parts \in Seq(PartsBy(Ways)) /\ parts # <<>>
    BY <1>9 DEF PartsInv
  <2>2. Len(parts) = 1 /\ eoi
    BY <1>9, <2>1, TailParts DEF EoiInv, part
  <2>3. Len(parts') = Len(parts) /\ ~Head(parts').eoi
    BY <1>9, <2>1, HeadWithoutEoi DEF part
  <2> QED
    BY <1>9, <2>2, <2>3 DEF EoiInv, part
<1>10. CASE TmsWrite
  <2>1. CASE part.eoi /\ part.n = 1
    BY <1>9, <1>10, <2>1 DEF TmsWrite, PioWrite
  <2>2. CASE ~(part.eoi /\ part.n = 1)
    BY <1>1, <1>10, <2>2 DEF TmsWrite, PioWrite
  <2> QED
    BY <2>1, <2>2
<1>11. CASE TmsPut
  BY <1>1, <1>11 DEF TmsPut, Goto
<1>12. CASE TmsDrain
  BY <1>7, <1>9, <1>12 DEF TmsDrain, PartEnds, PioWrite
<1>13. ASSUME InWrite, UNCHANGED accel PROVE EoiInv'
  <2>1. pc' \notin InPart
    <3>1. CASE PioWaits
      BY <3>1, HowPioWaitsEnd DEF Types
    <3> QED
      BY <1>13, <3>1 DEF InWrite, WriteBegin, PioPut, SendSeoi, WriteReturn, WriteStop, Goto
  <2> QED
    BY <2>1 DEF EoiInv
<1>14. ASSUME Signal \/ Restart, UNCHANGED accel PROVE EoiInv'
  BY <1>14 DEF Signal, Restart, Goto, EoiInv
<1>15. CASE AccelSignal
  BY <1>1, <1>15 DEF AccelSignal, Interruptible, accel
<1>16. CASE Feed
  BY <1>1, <1>16 DEF Feed, caller
<1> QED
  BY <1>2, <1>3, <1>4, <1>5, <1>6, <1>8, <1>10, <1>11, <1>12, <1>13, <1>14, <1>15, <1>16, WritingSteps

\* nec7210_write is called for the nec7210 and for the cb7210.
LEMMA InNecWrite ==
  ASSUME Types, PartsInv, Still, pc \in InPio
  PROVE  driver \in {"nec7210", "cb7210"} /\ skew = 0
<1>1. ASSUME driver # "nec7210" PROVE driver = "cb7210"
  <2>1. parts \in Seq(PartsBy(Ways)) /\ Len(parts) = 1 /\ part.how = "pio"
    BY <1>1 DEF PartsInv
  <2>2. parts[1] \in PartsBy(Ways) /\ part = parts[1]
    BY <2>1, ElementOfSeq, HeadTailProperties, EmptySeq DEF part
  <2>3. "pio" \in Ways
    BY <2>1, <2>2 DEF PartsBy
  <2> QED
    BY <2>3, WaysApart DEF Types
<1> QED
  BY <1>1 DEF Still, Indexed

\* What a driver counts of a part is no more than it has put into the FIFO, or at
\* least no more than the part, and all of it if the part is done.
LEMMA CountedOfPart ==
  ASSUME Types, PartsInv, Sums, Progress, FifoInv, Returned, pc = "a_stop"
  PROVE  /\ driver \in Accelerated \ {"tms9914"}
         /\ driver \in OnTms9914 => driver \in Indexed
         /\ Counted \in 0 .. part.n /\ Len(fifo) \in Nat
         /\ driver \notin {"ines", "cb7210"} => Counted = put - Len(fifo)
         /\ ret = "ok" /\ fifo = <<>> => Counted = part.n
         /\ ret = "ok" /\ driver \notin Indexed => fifo = <<>> /\ Counted = part.n
<1>1. pc \in InPart /\ pc \in OnFifo
  BY DEF InPart, OnFifo
<1>2. part.n \in 1 .. BufferLength /\ part.how \in Ways
  BY <1>1, Ahead
<1>3. driver \in Accelerated /\ driver \in Drivers
  BY <1>1, OnBoard DEF Types
<1>4. part.how \in {"fifo", "block"}
  BY <1>1 DEF PartsInv
<1>5. driver # "tms9914" /\ (driver \in OnTms9914 => driver \in Indexed)
  BY <1>2, <1>3, <1>4, WaysApart DEF OnTms9914, Indexed
<1>6. /\ Len(fifo) \in Nat /\ Len(fifo) <= put /\ put <= part.n /\ part.n \in Nat /\ put \in Nat
      /\ fifo = <<>> => Len(fifo) = 0
  BY <1>1, <1>2, LenProperties DEF FifoInv, Progress, Types
<1>7. Counted = IF driver = "ines" THEN part.n - Len(fifo) ELSE IF driver = "cb7210" THEN put ELSE put - Len(fifo)
  BY <1>3, <1>5, TraitOfDriver DEF Counted
<1>8. ret = "ok" => put = part.n
  BY DEF Returned
<1>9. ret = "ok" /\ driver \notin Indexed => fifo = <<>>
  BY <1>5 DEF Returned, Straight
<1> HIDE DEF part, Counted
<1>10. Counted \in 0 .. part.n
  BY <1>6, <1>7
<1>11. driver \notin {"ines", "cb7210"} => Counted = put - Len(fifo)
  BY <1>7
<1>12. ret = "ok" /\ fifo = <<>> => Counted = part.n
  BY <1>6, <1>7, <1>8
<1> QED
  BY <1>3, <1>5, <1>6, <1>9, <1>10, <1>11, <1>12

LEMMA SumsStep ==
  ASSUME pc \in Writing, Types, PartsInv, Still, Sums, Pio, Progress, FifoInv, Returned, AccelNext
  PROVE  Sums'
<1> USE DEF InPart, OnFifo, ByByte
<1>1. pos + skew <= Length /\ skew <= BufferLength /\ pos \in Nat /\ skew \in Nat /\ put \in Nat
      /\ BufferLength \in Nat /\ Length \in Nat
  BY LengthAssumption DEF Sums, Types
<1>2. ASSUME pc' \notin InPart, (pos + skew)' <= Length, skew' <= BufferLength PROVE Sums'
  BY <1>2 DEF Sums
<1>3. ASSUME pc \in InPart, UNCHANGED <<driver, parts, skew, pos, goal, eoi, end>>,
             IF pc \in ByByte THEN pc' \in ByByte /\ put' = put ELSE pc' \notin ByByte
      PROVE  Sums'
  <2>1. Start' = Start
    BY <1>3 DEF Start, Base
  <2> QED
    BY <1>3, <2>1 DEF Sums
<1>4. CASE Load
  BY <1>1, <1>2, <1>4 DEF Load, WriteLoad, Goto, Types
<1>5. CASE CallWrite
  <2>1. /\ pc = "w_begin" /\ parts = <<>> /\ pc' = "a_part" /\ UNCHANGED <<pos, skew, goal, eoi, end, driver>>
    BY <1>5 DEF CallWrite, Goto
  <2>2. skew = 0 /\ Start' = pos
    BY <1>1, <2>1 DEF Still, Start, Base
  <2>3. Covers(parts', Start', goal) /\ goal \in 0 .. Length /\ goal <= pos + BufferLength
        /\ (eoi <=> (goal = Length /\ end))
    BY <1>5, <2>1, <2>2, LoadParts DEF Pio, Types
  <2> QED
    BY <1>1, <2>1, <2>3 DEF Sums
<1>6. CASE Waits
  <2>1. /\ UNCHANGED <<driver, parts, put, skew, pos, goal, eoi, end>> /\ driver \in Accelerated
        /\ pc \in InPart
    BY <1>6, PlaceKept, OnBoard DEF Place, Waits, PartBegin, FillFails, PartSent, LastByteSent, TmsWait, Wait
  <2>2. IF pc \in ByByte THEN pc' \in ByByte ELSE pc' \notin ByByte
    BY <1>6, <2>1, HowWaitsEnd
  <2> QED
    BY <1>3, <2>1, <2>2
<1>7. CASE Arm \/ Restarted \/ FillFifo
  BY <1>3, <1>7 DEF Arm, Restarted, FillFifo, Goto
<1>8. ASSUME pc \in InPart
      PROVE  \E to \in 0 .. Length :
           /\ part.n \in 1 .. BufferLength
           /\ Start \in 0 .. to /\ Start + part.n <= to
           /\ to <= pos + BufferLength /\ (eoi <=> (to = Length /\ end))
           /\ driver \notin OnTms9914 => to = goal
           /\ Covers(Tail(parts), Start + part.n, to)
  BY <1>8, Ahead
<1>9. CASE StopPart
  <2>1. PICK to \in 0 .. Length :
           /\ part.n \in 1 .. BufferLength
           /\ Start \in 0 .. to /\ Start + part.n <= to
           /\ to <= pos + BufferLength /\ (eoi <=> (to = Length /\ end))
           /\ driver \notin OnTms9914 => to = goal
           /\ Covers(Tail(parts), Start + part.n, to)
    BY <1>8, <1>9 DEF StopPart
  <2>2. Start = pos + skew /\ part.n \in Nat /\ to \in Nat /\ to <= Length
    BY <1>1, <1>9, <2>1 DEF StopPart, Start, Base
  <2>3. /\ Counted \in 0 .. part.n /\ pos' = pos + Counted /\ UNCHANGED <<driver, goal, eoi, end>>
        /\ skew' = IF driver \in Indexed THEN skew + part.n - Counted ELSE skew
        /\ parts' = Tail(parts) /\ pc' \in {"a_part", "w_ret"}
        /\ pc' = "a_part" => ret = "ok"
        /\ ret = "ok" /\ driver \notin Indexed => Counted = part.n
    BY <1>9, CountedOfPart DEF StopPart, PartEnds
  <2>4. Start' = pos' + skew'
    BY <2>3 DEF Start, Base
  <2> DEFINE c == Counted
             n == part.n
  <2>5. /\ c \in Nat /\ c <= n /\ n \in Nat /\ pos' = pos + c
        /\ skew' = IF driver \in Indexed THEN skew + n - c ELSE skew
        /\ pos + skew + n <= to /\ to <= pos + BufferLength
    BY <2>1, <2>2, <2>3
  <2>6. pc' = "a_part" /\ driver \notin Indexed => c = n
    BY <2>3
  <2> HIDE DEF c, n
  <2>7. (pos + skew)' <= Length /\ skew' <= BufferLength /\ to <= pos' + BufferLength
    BY <1>1, <2>2, <2>5
  <2>8. pc' = "a_part" => pos' + skew' = (pos + skew) + n
    BY <1>1, <2>5, <2>6
  <2>9. CASE pc' = "a_part"
    <3>1. Start' = Start + part.n
      BY <2>2, <2>4, <2>8, <2>9 DEF n
    <3>2. Covers(parts', Start', to)
      BY <2>1, <2>3, <3>1
    <3>3. (eoi' <=> (to = Length /\ end')) /\ (driver' \notin OnTms9914 => to = goal')
      BY <2>1, <2>3
    <3> QED
      BY <2>7, <3>2, <3>3 DEF Sums
  <2> QED
    BY <1>2, <2>3, <2>7, <2>9
<1>10. CASE PioPart
  BY <1>1, <1>2, <1>10 DEF PioPart, Goto, accel
<1>11. ASSUME pc \in InPart, pc' = "b_wait", UNCHANGED <<driver, skew, pos, eoi, end>>, driver \in OnTms9914,
              Start' = Start, parts' = parts \/ parts' = <<[part EXCEPT !.eoi = FALSE]>> \o Tail(parts)
       PROVE  Sums'
  <2>1. PICK to \in 0 .. Length :
        /\ Covers(parts, Start, to) /\ to <= pos + BufferLength
        /\ eoi <=> (to = Length /\ end)
    BY <1>11 DEF Sums
  <2>2. Covers(parts', Start, to)
    BY <1>11, <2>1, HeadWithoutEoi DEF part, PartsInv
  <2> HIDE DEF Start, part
  <2> QED
    BY <1>1, <1>11, <2>1, <2>2 DEF Sums
<1>12. CASE TmsWrite
  <2>1. /\ pc = "a_arm" /\ pc' = "b_wait" /\ UNCHANGED <<driver, skew, pos, eoi, end>> /\ put' = 0
        /\ part.how = "bytes" /\ (parts' = parts \/ parts' = <<[part EXCEPT !.eoi = FALSE]>> \o Tail(parts))
    BY <1>12 DEF TmsWrite, PioWrite
  <2>2. driver \in OnTms9914
    BY <2>1, Ahead, WaysApart DEF Types
  <2>3. Start' = Start
    BY <1>1, <2>1 DEF Start, Base
  <2> QED
    BY <1>11, <2>1, <2>2, <2>3
<1>13. CASE TmsPut
  <2>1. PICK to \in 0 .. Length :
           /\ part.n \in 1 .. BufferLength
           /\ Start \in 0 .. to /\ Start + part.n <= to
           /\ to <= pos + BufferLength /\ (eoi <=> (to = Length /\ end))
           /\ driver \notin OnTms9914 => to = goal
           /\ Covers(parts, Start, to)
    BY <1>13, Ahead DEF TmsPut, Goto
  <2>2. /\ pc = "b_put" /\ pc' \in {"b_wait", "b_drain"} /\ pos' = pos + 1 /\ put' = put + 1
        /\ UNCHANGED <<driver, parts, skew, goal, eoi, end>>
    BY <1>13 DEF TmsPut, Goto
  <2>3. goal - pos + (IF part.eoi THEN 1 ELSE 0) <= part.n - put /\ pos < goal
    BY <2>2 DEF Progress
  <2>4. put + 1 <= part.n /\ part.n \in Nat
    BY <1>1, <2>1, <2>3 DEF Types
  <2>5. Start' = Start /\ Start = pos + skew - put
    BY <1>1, <2>2 DEF Start, Base
  <2>6. (pos + skew)' <= Length /\ to <= pos' + BufferLength
    BY <1>1, <2>1, <2>2, <2>4, <2>5
  <2>7. Covers(parts', Start', to) /\ (eoi' <=> (to = Length /\ end')) /\ (driver' \notin OnTms9914 => to = goal')
    BY <2>1, <2>2, <2>5
  <2> QED
    BY <1>1, <2>2, <2>6, <2>7 DEF Sums
<1>14. CASE TmsDrain
  <2>1. /\ pc = "b_drain" /\ UNCHANGED <<driver, pos, eoi, end>> /\ part.how = "bytes"
    BY <1>14 DEF TmsDrain, PartsInv
  <2>2. driver \in OnTms9914
    BY <2>1, Ahead, WaysApart DEF Types
  <2>3. CASE pc' = "b_wait"
    <3>1. UNCHANGED <<put, skew>> /\ parts' = <<[part EXCEPT !.eoi = FALSE]>> \o Tail(parts)
      BY <1>14, <2>3 DEF TmsDrain, PartEnds, PioWrite
    <3>2. Start' = Start
      BY <2>1, <2>3, <3>1 DEF Start, Base
    <3> QED
      BY <1>11, <2>1, <2>2, <2>3, <3>1, <3>2
  <2>4. CASE pc' # "b_wait"
    <3>1. PartEnds(put) /\ UNCHANGED goal /\ pc' \in {"a_part", "w_ret"}
      BY <1>14, <2>4 DEF TmsDrain, PartEnds
    <3>2. PICK to \in 0 .. Length :
           /\ part.n \in 1 .. BufferLength
           /\ Start \in 0 .. to /\ Start + part.n <= to
           /\ to <= pos + BufferLength /\ (eoi <=> (to = Length /\ end))
           /\ driver \notin OnTms9914 => to = goal
           /\ Covers(Tail(parts), Start + part.n, to)
      BY <1>8, <2>1
    <3>3. Start = pos + skew - put /\ part.n \in Nat /\ to \in Nat /\ to <= Length
      BY <1>1, <2>1, <3>2 DEF Start, Base
    <3> DEFINE n == part.n
    <3>4. /\ n \in Nat /\ pos + skew - put + n <= to /\ to <= pos + BufferLength /\ put <= n
          /\ skew' = IF driver \in Indexed THEN skew + n - put ELSE skew
      BY <2>1, <3>1, <3>2, <3>3 DEF Progress, PartEnds
    <3> HIDE DEF n
    <3>5. (pos + skew)' <= Length /\ skew' <= BufferLength
      BY <1>1, <2>1, <3>3, <3>4
    <3>6. CASE pc' = "a_part"
      <4>1. parts' # <<>> /\ parts' = Tail(parts) /\ parts \in Seq(PartsBy(Ways)) /\ parts # <<>>
        BY <2>1, <3>1, <3>6 DEF PartEnds, PartsInv
      <4>2. Len(parts) # 1 /\ Len(parts) \in Nat /\ Len(parts) # 0
        BY <4>1, TailParts, LenProperties, EmptySeq
      <4>3. driver # "tms9914"
        BY <4>2 DEF PartsInv
      <4>4. driver \in Indexed
        BY <2>2, <4>3 DEF OnTms9914, Indexed
      <4>5. Start' = (pos + skew)'
        BY <3>6 DEF Start, Base
      <4>6. Start' = Start + part.n
        BY <1>1, <2>1, <3>3, <3>4, <4>4, <4>5 DEF n
      <4>7. Covers(parts', Start', to) /\ (eoi' <=> (to = Length /\ end')) /\ (driver' \notin OnTms9914 => to = goal')
            /\ to <= pos' + BufferLength
        BY <2>1, <3>1, <3>2, <4>1, <4>6
      <4> QED
        BY <3>5, <4>7 DEF Sums
    <3> QED
      BY <1>2, <3>1, <3>5, <3>6
  <2> QED
    BY <2>3, <2>4
<1>15. ASSUME InWrite, UNCHANGED accel PROVE Sums'
  <2>1. pc' \notin InPart /\ pos' \in 0 .. Length /\ (pos' = pos \/ pc \in InPio)
    <3>1. CASE PioWaits
      BY <1>1, <3>1, HowPioWaitsEnd DEF Types, InPio
    <3>2. CASE PioPut
      BY <1>1, <3>2 DEF PioPut, Goto, Pio, Types, InPio
    <3> QED
      BY <1>1, <1>15, <3>1, <3>2 DEF InWrite, WriteBegin, SendSeoi, WriteReturn, WriteStop, Goto
  <2>2. skew' = skew
    BY <1>15 DEF accel
  <2>3. (pos + skew)' <= Length
    <3>1. CASE pc \in InPio
      <4>1. skew' = 0
        BY <2>2, <3>1, InNecWrite
      <4>2. pos' \in Nat /\ pos' <= Length
        BY <1>1, <2>1
      <4>3. ASSUME NEW p \in Nat, NEW s, p <= Length, s = 0 PROVE p + s <= Length
        BY <1>1, <4>3
      <4> QED
        BY <4>1, <4>2, <4>3
    <3> QED
      BY <1>1, <2>1, <2>2, <3>1
  <2> QED
    BY <1>1, <1>2, <2>1, <2>2, <2>3
<1>16. ASSUME Signal \/ Restart, UNCHANGED accel PROVE Sums'
  BY <1>1, <1>2, <1>16 DEF Signal, Restart, Goto, accel
<1>17. CASE AccelSignal
  <2>1. UNCHANGED <<driver, parts, put, skew, pos, goal, eoi, end>> /\ pc \in InPart
        /\ (pc' = "w_ret" \/ IF pc \in ByByte THEN pc' \in ByByte ELSE pc' \notin ByByte)
    BY <1>17 DEF AccelSignal, Interruptible, accel
  <2> QED
    BY <1>1, <1>2, <1>3, <2>1
<1>18. CASE Feed \/ BesideNow
  <2>1. UNCHANGED <<pc, driver, parts, put, skew, pos, goal, eoi, end>>
    BY <1>18 DEF Feed, BesideNow, caller, accel
  <2> QED
    BY <1>1, <1>2, <1>3, <2>1
<1> QED
  BY <1>4, <1>5, <1>6, <1>7, <1>9, <1>10, <1>12, <1>13, <1>14, <1>15, <1>16, <1>17, <1>18, WritingSteps

\* There is room for no more than the rest of the part.
LEMMA RoomOfPart ==
  ASSUME Types, PartsInv, Sums, FifoInv, Progress, pc = "a_space", Room > 0
  PROVE  Room \in Nat \ {0} /\ put + Room <= part.n /\ part.n \in Nat
<1>1. pc \in InPart /\ pc \in OnFifo
  BY DEF InPart, OnFifo
<1>2. part.n \in Nat /\ put \in Nat /\ put <= part.n
  BY <1>1, Ahead, LengthAssumption DEF Progress, Types
<1>3. Len(fifo) \in Nat
  BY <1>1, LenProperties DEF FifoInv
<1> DEFINE free == Min({FifoSize - Len(fifo), part.n - put})
<1>4. free = IF FifoSize - Len(fifo) <= part.n - put THEN FifoSize - Len(fifo) ELSE part.n - put
  <2>1. FifoSize - Len(fifo) \in Int /\ part.n - put \in Int
    BY <1>2, <1>3, FifoAssumption
  <2> QED
    BY <2>1, Smaller
<1>5. free \in Int /\ put + free <= part.n
  BY <1>2, <1>3, <1>4, FifoAssumption
<1>6. Room = IF driver = "cb7210" THEN 2 * (free \div 2) ELSE free
  BY DEF Room
<1> HIDE DEF free, Room
<1>7. 2 * (free \div 2) \in Int /\ 2 * (free \div 2) <= free
  BY <1>5
<1> QED
  BY <1>2, <1>5, <1>6, <1>7

\* A part that is armed: a block is handed over as a whole.
LEMMA Armings ==
  ASSUME Types, PartsInv, Sums, Arm
  PROVE  /\ pc' \in {"a_restart", "a_done", "a_space"}
         /\ pc' = "a_space" <=> part.how = "fifo"
         /\ put' = Len(fifo') /\ part.n \in Nat \ {0} /\ part.eoi \in BOOLEAN
         /\ fifo' \in Seq([byte : Nat, eoi : BOOLEAN])
         /\ part.how = "fifo" => fifo' = <<>> /\ put' = 0
         /\ part.how = "block" =>
              put' = part.n /\ \A i \in 1 .. part.n : fifo'[i] = [byte |-> pos + skew + i, eoi |-> part.eoi /\ i = part.n]
         /\ UNCHANGED <<driver, parts, pos, skew, goal>>
         /\ "block" \in Ways \/ part.how = "fifo"
<1>1. pc = "a_arm" /\ pc \in InPart /\ part.how \in {"fifo", "block"}
  BY DEF Arm, InPart
<1>2. /\ part.n \in Nat \ {0} /\ part.eoi \in BOOLEAN /\ part.how \in Ways
  BY <1>1, Ahead, LengthAssumption
<1>3. driver = "hp_82341" => part.how = "block"
  BY <1>1, <1>2, WaysApart DEF Types
<1>4. UNCHANGED <<driver, parts, pos, skew, goal>> /\ put' = Len(fifo')
  BY DEF Arm
<1>5. pc' \in {"a_restart", "a_done", "a_space"} /\ (pc' = "a_space" <=> part.how = "fifo")
  BY <1>1, <1>3 DEF Arm
<1>6. CASE part.how = "fifo"
  BY <1>2, <1>4, <1>5, <1>6, EmptySeq DEF Arm
<1>7. CASE part.how = "block"
  <2> DEFINE n == part.n
             f == [i \in 1 .. n |-> ByteAt(i)]
  <2>1. fifo' = f
    BY <1>7 DEF Arm
  <2>2. ASSUME NEW i \in 1 .. n PROVE f[i] = [byte |-> pos + skew + i, eoi |-> part.eoi /\ i = part.n]
    BY DEF ByteAt
  <2>3. ASSUME NEW i \in 1 .. n PROVE f[i] \in [byte : Nat, eoi : BOOLEAN]
    <3> DEFINE b == pos + skew + i
               e == part.eoi /\ i = part.n
    <3>1. b \in Nat
      BY <1>2 DEF Types
    <3>2. e \in BOOLEAN
      OBVIOUS
    <3>3. f[i] = [byte |-> b, eoi |-> e]
      BY <2>2
    <3> HIDE DEF b, e, f
    <3> QED
      BY <3>1, <3>2, <3>3
  <2>4. f \in [1 .. n -> [byte : Nat, eoi : BOOLEAN]] /\ n \in Nat
    BY <1>2, <2>3
  <2> HIDE DEF f, n
  <2>5. f \in Seq([byte : Nat, eoi : BOOLEAN]) /\ Len(f) = n
    <3> DEFINE S == [byte : Nat, eoi : BOOLEAN]
    <3>1. f \in [1 .. n -> S] /\ n \in Nat
      BY <2>4
    <3> HIDE DEF S
    <3>2. f \in Seq(S) /\ Len(f) = n
      BY <3>1
    <3> QED
      BY <3>2 DEF S
  <2> QED
    BY <1>2, <1>4, <1>5, <1>7, <2>1, <2>2, <2>5 DEF n
<1> QED
  BY <1>1, <1>6, <1>7

LEMMA ProgressStep ==
  ASSUME pc \in Writing, Types, PartsInv, Still, Sums, Progress, FifoInv, Returned, AccelNext
  PROVE  Progress'
<1> USE DEF InPart, OnFifo, ByByte
<1>1. pos \in Nat /\ goal \in Nat /\ put \in Nat /\ signals \in Nat
  BY LengthAssumption DEF Types
<1>2. ASSUME pc' \notin OnFifo \cup ByByte PROVE Progress'
  BY <1>2 DEF Progress
<1>3. ASSUME UNCHANGED <<parts, put, pos, goal>>, pc \in OnFifo \cup ByByte,
             pc' \in {"a_restart", "a_done", "a_sent"} => pc \in {"a_restart", "a_done", "a_sent"},
             pc' \in {"b_wait", "b_put"} => pc \in {"b_wait", "b_put"},
             pc' \in ByByte => pc \in ByByte,
             signals' = 0 => signals = 0
      PROVE  Progress'
  BY <1>3 DEF Progress, part
<1>4. CASE Load \/ CallWrite \/ PioPart \/ StopPart
  BY <1>2, <1>4 DEF Load, WriteLoad, CallWrite, PioPart, StopPart, PartEnds, Goto
<1>5. CASE Waits
  <2>1. /\ UNCHANGED <<driver, parts, put, pos, goal, signals>> /\ driver \in Accelerated
        /\ pc \in InPart
    BY <1>5, PlaceKept, OnBoard DEF Place, Waits, PartBegin, FillFails, PartSent, LastByteSent, TmsWait, Wait
  <2> QED
    BY <1>2, <1>3, <1>5, <2>1, HowWaitsEnd
<1>6. CASE Arm
  <2>1. pc' \in {"a_restart", "a_done", "a_space"} /\ part' = part /\ part.n \in Nat
    BY <1>6, Armings DEF part
  <2>3. part.how \in {"fifo", "block"}
    BY <1>6 DEF Arm
  <2>2. put' <= part.n /\ (pc' # "a_space" => put' = part.n)
    <3>1. CASE part.how = "fifo"
      BY <1>6, <2>1, <3>1, Armings
    <3>2. CASE part.how = "block"
      BY <1>6, <2>1, <3>2, Armings
    <3> QED
      BY <2>3, <3>1, <3>2
  <2> QED
    BY <2>1, <2>2 DEF Progress
<1>7. CASE Restarted
  BY <1>3, <1>7 DEF Restarted, Goto, counts
<1>8. CASE FillFifo
  <2>1. /\ pc = "a_space" /\ part' = part /\ put' = put + Room /\ Room > 0
        /\ pc' = IF put' = part.n THEN "a_done" ELSE "a_space"
    BY <1>8 DEF FillFifo, part
  <2>2. put' <= part.n
    BY <2>1, RoomOfPart
  <2> QED
    BY <2>1, <2>2 DEF Progress
<1>9. ASSUME pc \in InPart
      PROVE  part.n \in Nat \ {0} /\ part.eoi \in BOOLEAN
  BY <1>9, Ahead, LengthAssumption
<1>10. ASSUME pc \in InPart, part.eoi, parts' = <<[part EXCEPT !.eoi = FALSE]>> \o Tail(parts)
       PROVE  part'.n = part.n /\ ~part'.eoi
  BY <1>10, HeadWithoutEoi DEF part, PartsInv
<1>11. CASE TmsWrite
  <2>1. pc = "a_arm" /\ pc' = "b_wait" /\ put' = 0 /\ pos' = pos
    BY <1>11 DEF TmsWrite
  <2>2. CASE part.eoi /\ part.n = 1
    <3>1. goal' = pos + 1 /\ part'.n = 1 /\ ~part'.eoi
      BY <1>10, <1>11, <2>1, <2>2 DEF TmsWrite, PioWrite
    <3> QED
      BY <1>1, <2>1, <3>1 DEF Progress
  <2>3. CASE ~(part.eoi /\ part.n = 1)
    <3>1. goal' = pos + part.n - (IF part.eoi THEN 1 ELSE 0) /\ part' = part
      BY <1>11, <2>3 DEF TmsWrite, PioWrite, part
    <3>2. part.n \in Nat \ {0} /\ (part.eoi => part.n > 1)
      BY <1>9, <2>1, <2>3
    <3> DEFINE n == part.n
               e == IF part.eoi THEN 1 ELSE 0
    <3>3. goal' = pos + n - e /\ n \in Nat /\ e \in {0, 1} /\ n > e
      BY <3>1, <3>2
    <3> HIDE DEF n, e
    <3>4. pos < goal' /\ goal' - pos + e = n - 0
      BY <1>1, <3>3
    <3> QED
      BY <1>1, <2>1, <3>1, <3>3, <3>4 DEF Progress, n, e
  <2> QED
    BY <2>2, <2>3
<1>12. CASE TmsPut
  <2>1. /\ pc = "b_put" /\ pc' = (IF pos + 1 < goal THEN "b_wait" ELSE "b_drain")
        /\ pos' = pos + 1 /\ put' = put + 1 /\ goal' = goal /\ part' = part /\ signals' = signals
    BY <1>12 DEF TmsPut, Goto, part, counts
  <2> DEFINE n == part.n
             e == IF part.eoi THEN 1 ELSE 0
  <2>2. /\ n \in Nat /\ e \in {0, 1} /\ pos < goal /\ goal - pos + e <= n - put
        /\ signals = 0 => goal - pos + e = n - put
    BY <1>9, <2>1 DEF Progress
  <2> HIDE DEF n, e
  <2>3. /\ put' <= n /\ pos' <= goal /\ goal - pos' + e <= n - put'
        /\ signals = 0 => goal - pos' + e = n - put'
        /\ pc' = "b_wait" => pos' < goal
    BY <1>1, <2>1, <2>2
  <2> QED
    BY <2>1, <2>3 DEF Progress, n, e
<1>13. CASE TmsDrain
  <2>1. CASE pc' = "b_wait"
    <3>1. /\ pc = "b_drain" /\ goal' = pos + 1 /\ pos' = pos /\ put' = put /\ part.eoi
          /\ parts' = <<[part EXCEPT !.eoi = FALSE]>> \o Tail(parts)
          /\ DrainResult = "ok" /\ signals' = signals
      BY <1>13, <2>1 DEF TmsDrain, PartEnds, PioWrite, counts
    <3>2. part'.n = part.n /\ ~part'.eoi
      BY <1>10, <3>1
    <3>3. Failures(Tms9914.tests) = {}
      <4> SUFFICES ASSUME Failures(Tms9914.tests) # {} PROVE FALSE
        OBVIOUS
      <4>1. DrainResult = ErrorOf(FirstFailure(Tms9914.tests))
        BY DEF DrainResult
      <4>2. DrainResult \in Errors
        BY <4>1, FailuresAreErrors, TestsAreFew DEF Testable
      <4> QED
        BY <3>1, <4>2 DEF Errors
    <3>4. signals = 0 => pos = goal
      <4>1. signals = 0 => ret = "ok"
        BY <1>1, <3>1, <3>3 DEF Returned, Failed
      <4> QED
        BY <3>1, <4>1 DEF Returned
    <3> DEFINE n == part.n
    <3>5. n \in Nat /\ goal - pos + 1 <= n - put /\ pos <= goal /\ (signals = 0 => goal - pos + 1 = n - put)
      BY <1>9, <3>1 DEF Progress
    <3> HIDE DEF n
    <3>6. put' <= n /\ pos' < goal' /\ pos' <= goal' /\ goal' - pos' + 0 <= n - put'
          /\ (signals = 0 => goal' - pos' + 0 = n - put')
      BY <1>1, <3>1, <3>4, <3>5
    <3> QED
      BY <2>1, <3>1, <3>2, <3>6 DEF Progress, n
  <2>2. CASE pc' # "b_wait"
    BY <1>2, <1>13, <2>2 DEF TmsDrain, PartEnds, PioWrite
  <2> QED
    BY <2>1, <2>2
<1>14. ASSUME InWrite, UNCHANGED accel PROVE Progress'
  <2>1. CASE PioWaits
    BY <1>2, <2>1, HowPioWaitsEnd DEF Types
  <2> QED
    BY <1>2, <1>14, <2>1 DEF InWrite, WriteBegin, PioPut, SendSeoi, WriteReturn, WriteStop, Goto
<1>15. ASSUME Signal \/ Restart, UNCHANGED accel PROVE Progress'
  BY <1>2, <1>15 DEF Signal, Restart, Goto
<1>16. CASE AccelSignal
  <2>1. UNCHANGED <<parts, put, pos, goal>> /\ signals' # 0
    BY <1>1, <1>16 DEF AccelSignal, accel
  <2>2. \/ pc' = "w_ret"
        \/ pc \in OnFifo /\ pc' = "a_stop"
        \/ pc \in {"b_wait", "b_drain"} /\ pc' = "b_drain"
    BY <1>16 DEF AccelSignal, Interruptible
  <2> QED
    BY <1>2, <1>3, <2>1, <2>2
<1>17. CASE Feed \/ BesideNow
  <2>1. UNCHANGED <<pc, parts, put, pos, goal, signals>>
    BY <1>17 DEF Feed, BesideNow, caller, accel, counts
  <2> QED
    BY <1>2, <1>3, <2>1
<1> QED
  BY <1>4, <1>5, <1>6, <1>7, <1>8, <1>11, <1>12, <1>13, <1>14, <1>15, <1>16, <1>17, WritingSteps

\* The chip takes the first byte of the FIFO.
LEMMA Feeds ==
  ASSUME Types, Still, FifoInv, Feed
  PROVE  /\ pc \in OnFifo /\ pc' = pc /\ UNCHANGED <<driver, parts, pos, skew, put, stream, goal, end, eoi, ret, last>>
         /\ stream /\ fifo # <<>> /\ out = NoByte /\ ~atn
         /\ fifo' = Tail(fifo) /\ Len(fifo) \in Nat \ {0} /\ Len(fifo') = Len(fifo) - 1
         /\ fifo' \in Seq([byte : Nat, eoi : BOOLEAN])
         /\ \A i \in 1 .. Len(fifo') : i + 1 \in 1 .. Len(fifo) /\ fifo'[i] = fifo[i + 1]
         /\ Fed' = Fed + 1 /\ Fed \in Nat
         /\ out'.byte = Base + Fed + 1 /\ (out'.eoi <=> (seoi \/ (part.eoi /\ Fed + 1 = part.n)))
         /\ ~seoi' /\ ~ready'
         /\ UNCHANGED <<timer, status, state, in, held, bus, counts>>
<1>1. /\ stream /\ fifo # <<>> /\ out = NoByte /\ ~atn /\ fifo' = Tail(fifo)
      /\ UNCHANGED <<timer, status, state, in, held, bus, counts>> /\ pc' = pc
      /\ UNCHANGED <<driver, parts, pos, skew, put, stream, goal, end, eoi, ret, last>>
      /\ ~seoi' /\ ~ready'
  BY DEF Feed, ChipReady, caller
<1>2. pc \in OnFifo
  BY <1>1 DEF Still
<1>3. /\ fifo \in Seq([byte : Nat, eoi : BOOLEAN]) /\ Len(fifo) <= put /\ put \in Nat
      /\ \A i \in 1 .. Len(fifo) : fifo[i].byte = Base + Fed + i /\ (fifo[i].eoi <=> part.eoi /\ Fed + i = part.n)
  BY <1>2 DEF FifoInv, Types
<1>4. /\ Len(fifo) \in Nat \ {0} /\ Len(Tail(fifo)) = Len(fifo) - 1 /\ Head(fifo) = fifo[1]
      /\ fifo[1] \in [byte : Nat, eoi : BOOLEAN]
      /\ Tail(fifo) \in Seq([byte : Nat, eoi : BOOLEAN])
      /\ \A i \in 1 .. (Len(fifo) - 1) : i + 1 \in 1 .. Len(fifo) /\ Tail(fifo)[i] = fifo[i + 1]
  <2> DEFINE S == [byte : Nat, eoi : BOOLEAN]
  <2>1. fifo \in Seq(S) /\ fifo # <<>>
    BY <1>1, <1>3
  <2> HIDE DEF S
  <2>2. /\ Len(fifo) \in Nat \ {0} /\ Len(Tail(fifo)) = Len(fifo) - 1 /\ Head(fifo) = fifo[1]
        /\ fifo[1] \in S /\ Tail(fifo) \in Seq(S)
        /\ \A i \in 1 .. (Len(fifo) - 1) : i + 1 \in 1 .. Len(fifo) /\ Tail(fifo)[i] = fifo[i + 1]
    BY <2>1, EmptySeq, HeadTailProperties, ElementOfSeq
  <2> QED
    BY <2>2 DEF S
<1>5. Fed' = Fed + 1 /\ Fed \in Nat
  BY <1>1, <1>3, <1>4 DEF Fed
<1>6. out'.byte = Base + Fed + 1 /\ (out'.eoi <=> (seoi \/ (part.eoi /\ Fed + 1 = part.n)))
  <2> DEFINE h == fifo[1]
  <2>1. h.byte = Base + Fed + 1 /\ (h.eoi <=> part.eoi /\ Fed + 1 = part.n) /\ h \in [byte : Nat, eoi : BOOLEAN]
    BY <1>3, <1>4
  <2>2. out' = [h EXCEPT !.eoi = @ \/ seoi]
    BY <1>4 DEF Feed
  <2> HIDE DEF h
  <2>3. out'.byte = h.byte /\ (out'.eoi <=> (h.eoi \/ seoi))
    BY <2>1, <2>2
  <2> QED
    BY <2>1, <2>3
<1> QED
  BY <1>1, <1>2, <1>4, <1>5, <1>6

LEMMA FifoInvStep ==
  ASSUME pc \in Writing, Types, PartsInv, Still, Sums, Progress, FifoInv, AccelNext
  PROVE  FifoInv'
<1> USE DEF InPart, OnFifo, ByByte
<1> DEFINE S == [byte : Nat, eoi : BOOLEAN]
<1>1. pos \in Nat /\ skew \in Nat /\ put \in Nat
  BY LengthAssumption DEF Types
<1>2. ASSUME pc' \notin OnFifo PROVE FifoInv'
  BY <1>2 DEF FifoInv
<1>3. ASSUME UNCHANGED <<parts, put, pos, skew, fifo>>, pc \in OnFifo
      PROVE  FifoInv'
  BY <1>3 DEF FifoInv, part, Base, Fed
<1>4. CASE Load \/ CallWrite \/ PioPart \/ StopPart
  BY <1>2, <1>4 DEF Load, WriteLoad, CallWrite, PioPart, StopPart, PartEnds, Goto
<1>5. CASE Waits
  <2>1. /\ UNCHANGED <<driver, parts, put, pos, skew, fifo>> /\ driver \in Accelerated
        /\ pc \in InPart
    BY <1>5, PlaceKept, OnBoard DEF Place, Waits, PartBegin, FillFails, PartSent, LastByteSent, TmsWait, Wait
  <2> QED
    BY <1>2, <1>3, <1>5, <2>1, HowWaitsEnd
<1>6. CASE Arm
  <2>1. part' = part /\ Base' = Base /\ part.how \in {"fifo", "block"} /\ fifo' \in Seq(S) /\ put' = Len(fifo')
    BY <1>6, Armings DEF part, Base, Arm
  <2>2. CASE part.how = "fifo"
    BY <1>6, <2>1, <2>2, Armings, EmptySeq DEF FifoInv
  <2>3. CASE part.how = "block"
    <3>1. /\ put' = part.n /\ Len(fifo') = part.n /\ part.n \in Nat
          /\ \A i \in 1 .. part.n : fifo'[i] = [byte |-> pos + skew + i, eoi |-> part.eoi /\ i = part.n]
      BY <1>6, <2>1, <2>3, Armings
    <3>2. Fed' = 0
      BY <3>1 DEF Fed
    <3>3. ASSUME NEW i \in 1 .. part.n
          PROVE  fifo'[i].byte = Base + 0 + i /\ (fifo'[i].eoi <=> part.eoi /\ 0 + i = part.n)
      <4>1. fifo'[i].byte = pos + skew + i /\ (fifo'[i].eoi <=> part.eoi /\ i = part.n)
        <5> DEFINE b == pos + skew + i
                   e == part.eoi /\ i = part.n
        <5>1. fifo'[i] = [byte |-> b, eoi |-> e]
          BY <3>1
        <5> HIDE DEF b, e
        <5>2. fifo'[i].byte = b /\ fifo'[i].eoi = e
          BY <5>1
        <5> QED
          BY <5>2 DEF b, e
      <4>2. Base + 0 + i = pos + skew + i /\ 0 + i = i
        BY <1>1, <3>1 DEF Base
      <4> QED
        BY <4>1, <4>2
    <3> QED
      BY <2>1, <3>1, <3>2, <3>3 DEF FifoInv
  <2> QED
    BY <2>1, <2>2, <2>3
<1>7. CASE Restarted
  BY <1>3, <1>7 DEF Restarted, Goto
<1>8. CASE FillFifo
  <2> DEFINE r == Room
             g == [i \in 1 .. r |-> ByteAt(put + i)]
  <2>1. /\ pc = "a_space" /\ part' = part /\ Base' = Base /\ put' = put + r /\ r > 0
        /\ fifo' = fifo \o g
    BY <1>8 DEF FillFifo, part, Base
  <2>2. r \in Nat \ {0}
    BY <2>1, RoomOfPart
  <2>3. fifo \in Seq(S) /\ Len(fifo) <= put /\ Len(fifo) \in Nat
    BY <2>1, LenProperties DEF FifoInv
  <2>4. ASSUME NEW i \in 1 .. r
        PROVE  /\ g[i] \in S /\ g[i].byte = pos + skew + (put + i)
               /\ g[i].eoi <=> part.eoi /\ put + i = part.n
    <3> DEFINE b == pos + skew + (put + i)
               e == part.eoi /\ put + i = part.n
    <3>1. b \in Nat /\ e \in BOOLEAN
      BY <1>1, <2>2
    <3>2. g[i] = [byte |-> b, eoi |-> e]
      BY DEF ByteAt
    <3> HIDE DEF b, e, g
    <3>3. g[i] \in S /\ g[i].byte = b /\ g[i].eoi = e
      BY <3>1, <3>2
    <3> QED
      BY <3>3 DEF b, e
  <2>5. g \in Seq(S) /\ Len(g) = r
    <3>1. g \in [1 .. r -> S]
      BY <2>4
    <3> HIDE DEF g, S, r
    <3> QED
      BY <2>2, <3>1
  <2> HIDE DEF g, r
  <2>6. /\ fifo' \in Seq(S) /\ Len(fifo') = Len(fifo) + r
        /\ \A i \in 1 .. Len(fifo) + r : fifo'[i] = IF i <= Len(fifo) THEN fifo[i] ELSE g[i - Len(fifo)]
    <3> HIDE DEF S
    <3>1. /\ fifo \o g \in Seq(S) /\ Len(fifo \o g) = Len(fifo) + Len(g)
          /\ \A i \in 1 .. Len(fifo) + Len(g) : (fifo \o g)[i] = IF i <= Len(fifo) THEN fifo[i] ELSE g[i - Len(fifo)]
      BY <2>3, <2>5, ConcatProperties
    <3> QED
      BY <2>1, <2>5, <3>1
  <2>7. Fed' = Fed /\ Fed = put - Len(fifo) /\ Base \in Nat /\ Base = pos + skew
    BY <1>1, <2>1, <2>2, <2>3, <2>6 DEF Fed, Base
  <2>8. ASSUME NEW i \in 1 .. Len(fifo) + r
        PROVE  fifo'[i].byte = Base + Fed + i /\ (fifo'[i].eoi <=> part.eoi /\ Fed + i = part.n)
    <3>1. CASE i <= Len(fifo)
      <4>1. fifo'[i] = fifo[i] /\ i \in 1 .. Len(fifo)
        BY <2>2, <2>3, <2>6, <3>1
      <4> QED
        BY <2>1, <4>1 DEF FifoInv
    <3>2. CASE i > Len(fifo)
      <4> DEFINE j == i - Len(fifo)
      <4>1. fifo'[i] = g[j] /\ j \in 1 .. r
        BY <2>2, <2>3, <2>6, <3>2
      <4>2. put + j = Fed + i /\ pos + skew + (put + j) = Base + Fed + i
        BY <1>1, <2>2, <2>3, <2>7
      <4> HIDE DEF j
      <4>3. g[j].byte = pos + skew + (put + j) /\ (g[j].eoi <=> part.eoi /\ put + j = part.n)
        BY <2>4, <4>1
      <4> QED
        BY <4>1, <4>2, <4>3
    <3> QED
      BY <2>2, <2>3, <3>1, <3>2
  <2>9. Len(fifo') <= put'
    BY <1>1, <2>1, <2>2, <2>3, <2>6
  <2> QED
    BY <2>1, <2>6, <2>7, <2>8, <2>9 DEF FifoInv
<1>9. CASE TmsWrite \/ TmsPut \/ TmsDrain
  BY <1>2, <1>9 DEF TmsWrite, TmsPut, TmsDrain, PartEnds, PioWrite, Goto
<1>10. ASSUME InWrite, UNCHANGED accel PROVE FifoInv'
  <2>1. CASE PioWaits
    BY <1>2, <2>1, HowPioWaitsEnd DEF Types
  <2> QED
    BY <1>2, <1>10, <2>1 DEF InWrite, WriteBegin, PioPut, SendSeoi, WriteReturn, WriteStop, Goto
<1>11. ASSUME Signal \/ Restart, UNCHANGED accel PROVE FifoInv'
  BY <1>2, <1>11 DEF Signal, Restart, Goto
<1>12. CASE AccelSignal
  <2>1. UNCHANGED <<parts, put, pos, skew, fifo>>
    BY <1>12 DEF AccelSignal, accel
  <2>2. pc \in OnFifo \/ pc' \notin OnFifo
    BY <1>12 DEF AccelSignal, Interruptible
  <2> QED
    BY <1>2, <1>3, <2>1, <2>2
<1>13. CASE Feed
  <2>1. /\ pc' = pc /\ Base' = Base /\ part' = part /\ put' = put /\ Base \in Nat
        /\ pc \in OnFifo
    BY <1>1, <1>13, Feeds DEF Base, part
  <2>2. /\ Len(fifo) \in Nat \ {0} /\ Len(fifo') = Len(fifo) - 1 /\ fifo' \in Seq(S)
        /\ \A i \in 1 .. Len(fifo') : i + 1 \in 1 .. Len(fifo) /\ fifo'[i] = fifo[i + 1]
        /\ Fed' = Fed + 1 /\ Fed \in Nat
    BY <1>13, Feeds
  <2>3. Len(fifo') <= put'
    BY <1>1, <2>1, <2>2 DEF FifoInv
  <2>4. ASSUME NEW i \in 1 .. Len(fifo')
        PROVE  fifo'[i].byte = Base + (Fed + 1) + i /\ (fifo'[i].eoi <=> part.eoi /\ (Fed + 1) + i = part.n)
    <3> DEFINE j == i + 1
    <3>1. fifo'[i] = fifo[j] /\ j \in 1 .. Len(fifo) /\ Fed + j = (Fed + 1) + i /\ Base + Fed + j = Base + (Fed + 1) + i
      BY <2>1, <2>2
    <3> HIDE DEF j
    <3>2. fifo[j].byte = Base + Fed + j /\ (fifo[j].eoi <=> part.eoi /\ Fed + j = part.n)
      BY <2>1, <3>1 DEF FifoInv
    <3> QED
      BY <3>1, <3>2
  <2> QED
    BY <2>1, <2>2, <2>3, <2>4 DEF FifoInv
<1>14. CASE BesideNow
  <2>1. UNCHANGED <<pc, parts, put, pos, skew, fifo>>
    BY <1>14 DEF BesideNow, accel
  <2> QED
    BY <1>2, <1>3, <2>1
<1> QED
  BY <1>4, <1>5, <1>6, <1>7, <1>8, <1>9, <1>10, <1>11, <1>12, <1>13, <1>14, WritingSteps

LEMMA PioInvStep ==
  ASSUME pc \in Writing, Types, PartsInv, Still, Sums, Pio, Armed, AccelNext
  PROVE  Pio'
<1> USE DEF InPio
<1>1. /\ pos \in Nat /\ goal \in Nat /\ last \in Nat /\ Length \in Nat /\ BufferLength \in Nat
      /\ pos <= Length /\ goal <= Length
  BY LengthAssumption DEF Types
<1>2. ASSUME pc' \notin InPio \cup {"w_load", "w_begin", "w_done"} PROVE Pio'
  BY <1>2 DEF Pio
<1>3. CASE Load
  <2>1. /\ pc = "w_load" /\ pc' = "w_begin" /\ pos' = pos /\ end' = end
        /\ goal' = Min({Length, pos + BufferLength}) /\ (eoi' <=> (Length - pos <= BufferLength /\ end))
    BY <1>3 DEF Load, WriteLoad, Goto, SendEoi, LoadEnd
  <2>2. goal' = IF Length <= pos + BufferLength THEN Length ELSE pos + BufferLength
    BY <1>1, <2>1, Smaller
  <2>3. pos < Length
    BY <2>1 DEF Pio
  <2>4. pos < goal' /\ goal' <= pos + BufferLength /\ (goal' = Length <=> Length - pos <= BufferLength)
    BY <1>1, <2>2, <2>3, LengthAssumption
  <2> QED
    BY <2>1, <2>4 DEF Pio
<1>4. CASE PioPart
  <2>1. /\ pc = "a_arm" /\ pc' = "w_begin" /\ UNCHANGED <<pos, goal, eoi, end>> /\ part.how = "pio"
        /\ pc \in InPart /\ pc \notin ByByte
    BY <1>4 DEF PioPart, Goto, InPart, ByByte
  <2>2. PICK to \in 0 .. Length :
           /\ part.n \in 1 .. BufferLength /\ part.how \in Ways
           /\ Start \in 0 .. to /\ Start + part.n <= to
           /\ to <= pos + BufferLength /\ (eoi <=> (to = Length /\ end))
           /\ driver \notin OnTms9914 => to = goal
    BY <2>1, Ahead
  <2>3. driver = "cb7210"
    BY <2>1, <2>2, WaysApart DEF Types
  <2>4. to = goal /\ skew = 0
    BY <2>2, <2>3 DEF OnTms9914, Still, Indexed
  <2>5. Start = pos
    BY <1>1, <2>1, <2>4 DEF Start, Base
  <2>6. pos < goal /\ goal <= pos + BufferLength
    BY <1>1, <2>2, <2>4, <2>5
  <2> QED
    BY <2>1, <2>2, <2>4, <2>6 DEF Pio
<1>5. CASE CallWrite
  BY <1>2, <1>5 DEF CallWrite, Goto
<1>6. CASE Waits
  <2>1. pc \in InPart /\ driver \in Accelerated
    BY <1>6, OnBoard DEF InPart, OnFifo, ByByte, Waits, PartBegin, FillFails, PartSent, LastByteSent, TmsWait, Wait
  <2> QED
    BY <1>2, <1>6, <2>1, HowWaitsEnd
<1>7. CASE Arm \/ Restarted \/ FillFifo
  <2>1. CASE Arm
    BY <1>2, <2>1, Armings
  <2> QED
    BY <1>2, <1>7, <2>1 DEF Restarted, FillFifo, Goto
<1>8. CASE StopPart \/ TmsWrite \/ TmsPut \/ TmsDrain
  BY <1>2, <1>8 DEF StopPart, TmsWrite, TmsPut, TmsDrain, PartEnds, Goto
<1>9. CASE WriteBegin /\ (driver = "nec7210" \/ parts # <<>>)
  <2>1. driver \in {"nec7210", "cb7210"}
    <3>1. ASSUME driver # "nec7210" PROVE driver = "cb7210"
      <4>1. parts \in Seq(PartsBy(Ways)) /\ parts # <<>> /\ part.how = "pio"
        BY <1>9, <3>1 DEF WriteBegin, Goto, PartsInv
      <4>2. part \in PartsBy(Ways)
        BY <4>1, CoversFirst, ElementOfSeq, HeadTailProperties, EmptySeq DEF part
      <4>3. "pio" \in Ways
        BY <4>1, <4>2 DEF PartsBy
      <4> QED
        BY <4>3, WaysApart DEF Types
    <3> QED
      BY <3>1
  <2>2. Straight
    BY <2>1 DEF Straight, OnTms9914
  <2>3. /\ pc = "w_begin" /\ UNCHANGED <<end, pos, eoi, seoi>> /\ goal' = IF eoi THEN goal - 1 ELSE goal
        /\ \/ goal' > pos /\ pc' = "w_wait" /\ last' = pos
           \/ goal' = pos /\ pc' = "w_eoi"
    BY <1>9 DEF WriteBegin, Goto, chip
  <2>4. pos < goal /\ goal <= pos + BufferLength /\ (eoi <=> (goal = Length /\ end))
    BY <2>3 DEF Pio
  <2>5. seoi => end /\ pos + 1 = Length
    BY <2>2 DEF Armed
  <2>6. seoi => goal = Length /\ eoi
    BY <1>1, <2>4, <2>5
  <2>7. CASE goal' > pos /\ pc' = "w_wait" /\ last' = pos
    <3>1. pos < goal' /\ (eoi => goal' + 1 = Length)
      BY <1>1, <2>3, <2>4, <2>7
    <3>2. ~seoi
      <4> SUFFICES ASSUME seoi PROVE FALSE
        OBVIOUS
      <4>1. goal = Length /\ goal' = goal - 1 /\ pos + 1 = Length
        BY <2>3, <2>5, <2>6
      <4> QED
        BY <1>1, <3>1, <4>1
    <3>3. ~eoi => ~(goal' = Length /\ end)
      BY <2>3, <2>4
    <3>4. last' <= pos' /\ pos' <= last' + 1 /\ pos' < goal'
      BY <1>1, <2>3, <2>7, <3>1
    <3>5. eoi => end
      BY <2>4
    <3> QED
      BY <2>3, <2>7, <3>1, <3>2, <3>3, <3>4, <3>5 DEF Pio
  <2>8. CASE goal' = pos /\ pc' = "w_eoi"
    <3>1. eoi
      BY <1>1, <2>3, <2>4, <2>8
    <3>2. goal' + 1 = Length /\ end
      BY <1>1, <2>3, <2>4, <3>1
    <3> QED
      BY <2>3, <2>8, <3>1, <3>2 DEF Pio
  <2> QED
    BY <2>3, <2>7, <2>8
<1>10. CASE PioWaits
  <2>1. UNCHANGED <<end, goal, last, eoi, seoi>>
    BY <1>10, HowPioWaitsEnd DEF Types
  <2>2. \/ pos' = pos /\ ((pc = "w_wait" /\ pc' = "w_put") \/ (pc = "w_eoi" /\ pc' = "w_seoi"))
        \/ pos' = pos /\ pc = "w_drain" /\ pc' = (IF eoi THEN "w_eoi" ELSE "w_ret")
        \/ pc' = "w_ret"
        \/ pc = "w_wait" /\ pc' = "w_wait" /\ pos' = last
    BY <1>10, HowPioWaitsEnd DEF Types
  <2>3. CASE pc = "w_wait" /\ pc' = "w_wait" /\ pos' = last
    <3>1. last <= pos /\ pos < goal /\ last < goal
      BY <1>1, <2>3 DEF Pio
    <3> QED
      BY <1>1, <2>1, <2>3, <3>1 DEF Pio
  <2>4. CASE pc' = "w_ret"
    BY <1>2, <2>4
  <2>5. CASE pos' = pos /\ pc = "w_drain" /\ pc' = (IF eoi THEN "w_eoi" ELSE "w_ret")
    BY <1>2, <2>1, <2>5 DEF Pio
  <2>6. CASE pos' = pos /\ ((pc = "w_wait" /\ pc' = "w_put") \/ (pc = "w_eoi" /\ pc' = "w_seoi"))
    BY <2>1, <2>6 DEF Pio
  <2> QED
    BY <2>2, <2>3, <2>4, <2>5, <2>6
<1>11. CASE PioPut
  <2>1. /\ pc = "w_put" /\ pc' = (IF pos + 1 < goal THEN "w_wait" ELSE "w_drain")
        /\ last' = pos /\ pos' = pos + 1 /\ ~seoi' /\ UNCHANGED <<end, goal, eoi>>
    BY <1>11 DEF PioPut, Goto
  <2>2. driver \in {"nec7210", "cb7210"}
    BY <2>1, InNecWrite
  <2>3. Straight
    BY <2>2 DEF Straight, OnTms9914
  <2>4. pos < goal
    BY <2>1 DEF Pio
  <2>5. pc' = "w_wait" /\ ~eoi => ~(goal = Length /\ end)
    <3> SUFFICES ASSUME pc' = "w_wait", ~eoi, goal = Length, end PROVE FALSE
      OBVIOUS
    <3>1. seoi
      BY <2>1 DEF Pio
    <3>2. pos + 1 = Length /\ pos + 1 < goal
      BY <2>1, <2>3, <3>1 DEF Armed
    <3> QED
      BY <1>1, <3>2
  <2>6. /\ pc' = "w_wait" => pos' < goal
        /\ pc' = "w_drain" => pos' = goal
        /\ last' <= pos' /\ pos' <= last' + 1
    BY <1>1, <2>1, <2>4
  <2>7. eoi => goal + 1 = Length /\ end
    BY <2>1 DEF Pio
  <2>8. pc' \in {"w_wait", "w_drain"}
    BY <2>1
  <2> HIDE <2>1
  <2>9. ~seoi' /\ UNCHANGED <<end, goal, eoi>>
    BY <2>1
  <2> QED
    BY <2>5, <2>6, <2>7, <2>8, <2>9 DEF Pio
<1>12. CASE SendSeoi
  <2>1. /\ pc = "w_seoi" /\ pc' = "w_wait" /\ seoi' /\ ~eoi' /\ goal' = pos + 1 /\ last' = pos
        /\ UNCHANGED <<end, pos>>
    BY <1>12 DEF SendSeoi, Goto
  <2>2. goal + 1 = Length /\ end /\ pos = goal
    BY <2>1 DEF Pio
  <2> QED
    BY <1>1, <2>1, <2>2 DEF Pio
<1>13. CASE WriteReturn
  BY <1>2, <1>13 DEF WriteReturn, Goto
<1>14. CASE WriteStop
  <2>1. pos' = pos
    BY <1>14 DEF WriteStop
  <2>2. CASE pc' = "w_load"
    BY <1>14, <2>1, <2>2 DEF WriteStop, Goto, Pio
  <2>3. CASE pc' = "w_done"
    BY <1>14, <2>1, <2>3 DEF WriteStop, Goto, Pio
  <2> QED
    BY <1>14, <2>2, <2>3 DEF WriteStop, Goto
<1>15. CASE Signal \/ Restart
  <2>1. CASE Signal
    BY <1>2, <2>1 DEF Signal, Goto
  <2>2. CASE Restart
    <3>1. pos' = pos /\ ((pc = "w_done" /\ pc' = "w_load" /\ ret # "ok") \/ pc' = "r_load")
      BY <2>2 DEF Restart, Goto
    <3>2. pc' = "w_load" => pos < Length
      BY <1>1, <3>1 DEF Pio
    <3> QED
      BY <3>1, <3>2 DEF Pio
  <2> QED
    BY <1>15, <2>1, <2>2
<1>16. CASE AccelSignal
  BY <1>2, <1>16 DEF AccelSignal, Interruptible
<1>17. CASE Feed
  BY <1>2, <1>17 DEF Feed, caller, Still, OnFifo
<1>18. CASE BesideNow
  BY <1>18 DEF BesideNow, Pio
<1> QED
  BY <1>3, <1>4, <1>5, <1>6, <1>7, <1>8, <1>9, <1>10, <1>11, <1>12, <1>13, <1>14, <1>15, <1>16, <1>17,
     <1>18, WritingSteps DEF InWrite

\* What the interrupt handler notes.
LEMMA InterruptNotes ==
  ASSUME Types, Interrupt
  PROVE  /\ ints' = {} /\ state \subseteq state'
         /\ "WRITE_READY" \in state' <=> "WRITE_READY" \in state \/ "DO" \in ints
         /\ "BUS_ERROR" \in state' <=> "BUS_ERROR" \in state \/ "ERR" \in ints
         /\ "TERM_COUNT" \in state' <=> "TERM_COUNT" \in state \/ "TC" \in ints
         /\ status \ {"ATN"} \subseteq status' /\ status' \subseteq status \cup {"ATN"}
         /\ "ATN" \in status' <=> atn
         /\ UNCHANGED <<caller, timer, out, ready, seoi, bus, counts>>
<1> DEFINE N == UNION {Noted(bit) : bit \in ints}
<1>1. /\ state' = state \cup N /\ ints' = {}
      /\ status' = (status \ {"ATN"}) \cup (IF atn THEN {"ATN"} ELSE {})
      /\ UNCHANGED <<caller, timer, out, ready, seoi, bus, counts>>
  BY DEF Interrupt
<1>2. ASSUME NEW mark, NEW source, source \in Interrupts,
             \A bit \in Interrupts : mark \in Noted(bit) <=> bit = source
      PROVE  mark \in N <=> source \in ints
  <2>1. \A bit \in ints : mark \in Noted(bit) <=> bit = source
    BY <1>2 DEF Types
  <2> QED
    BY <2>1
<1>3. "WRITE_READY" \in N <=> "DO" \in ints
  <2>1. \A bit \in Interrupts : "WRITE_READY" \in Noted(bit) <=> bit = "DO"
    BY DEF Noted, Interrupts
  <2> HIDE DEF N
  <2> QED
    BY <1>2, <2>1 DEF Interrupts
<1>4. "BUS_ERROR" \in N <=> "ERR" \in ints
  <2>1. \A bit \in Interrupts : "BUS_ERROR" \in Noted(bit) <=> bit = "ERR"
    BY DEF Noted, Interrupts
  <2> HIDE DEF N
  <2> QED
    BY <1>2, <2>1 DEF Interrupts
<1>5. "TERM_COUNT" \in N <=> "TC" \in ints
  <2>1. \A bit \in Interrupts : "TERM_COUNT" \in Noted(bit) <=> bit = "TC"
    BY DEF Noted, Interrupts
  <2> HIDE DEF N
  <2> QED
    BY <1>2, <2>1 DEF Interrupts
<1> HIDE DEF N
<1> QED
  BY <1>1, <1>3, <1>4, <1>5

\* When a wait of tms9914_write fails.
LEMMA TmsFails ==
  /\ Failures(Tms9914.tests) # {} <=> (state \cup status) \cap {"TIMO", "BUS_ERROR", "DEV_CLEAR"} # {}
  /\ Failures(Tms9914.tests)' # {} <=> (state' \cup status') \cap {"TIMO", "BUS_ERROR", "DEV_CLEAR"} # {}
<1> DEFINE t == Tms9914.tests
<1>1. DOMAIN t = 1 .. 3 /\ t[1] = "TIMO" /\ t[2] = "BUS_ERROR" /\ t[3] = "DEV_CLEAR"
  BY DEF Tms9914
<1>2. ASSUME NEW S PROVE {i \in DOMAIN t : t[i] \in S} # {} <=> S \cap {"TIMO", "BUS_ERROR", "DEV_CLEAR"} # {}
  <2>1. ASSUME NEW i \in 1 .. 3 PROVE i = 1 \/ i = 2 \/ i = 3
    OBVIOUS
  <2>2. 1 \in 1 .. 3 /\ 2 \in 1 .. 3 /\ 3 \in 1 .. 3
    OBVIOUS
  <2> HIDE DEF t
  <2> QED
    BY <1>1, <2>1, <2>2
<1>3. /\ Failures(Tms9914.tests) = {i \in DOMAIN t : t[i] \in state \cup status}
      /\ Failures(Tms9914.tests)' = {i \in DOMAIN t : t[i] \in state' \cup status'}
  BY DEF Failures, Tms9914
<1> HIDE DEF t
<1> QED
  BY <1>2, <1>3

\* tms9914_write returns what its second wait finds.
LEMMA DrainResults ==
  ASSUME Types, Returned, TmsDrain
  PROVE  /\ pc = "b_drain" /\ ret' \in Results
         /\ ret' = "ok" => Failures(Tms9914.tests) = {} /\ (signals = 0 => ret = "ok" /\ pos = goal)
         /\ ret' = "ERESTARTSYS" => signals > 0
         /\ ret' # "ok" => pc' = "w_ret"
<1>1. pc = "b_drain" /\ ret' = DrainResult
      /\ ("WRITE_READY" \in state \/ Failures(Tms9914.tests) # {} \/ ret = "ERESTARTSYS")
  BY DEF TmsDrain
<1>2. ret' # "ok" => pc' = "w_ret"
  BY DEF TmsDrain, PartEnds
<1>3. CASE Failures(Tms9914.tests) # {}
  <2>1. DrainResult = ErrorOf(FirstFailure(Tms9914.tests))
    BY <1>3 DEF DrainResult
  <2>2. DrainResult \in Errors
    BY <1>3, <2>1, FailuresAreErrors, TestsAreFew DEF Testable
  <2> QED
    BY <1>1, <1>2, <2>2 DEF Errors, Results
<1>4. CASE Failures(Tms9914.tests) = {}
  <2>1. DrainResult = IF "WRITE_READY" \in state THEN "ok" ELSE "ERESTARTSYS"
    BY <1>4 DEF DrainResult
  <2>2. ~Failed
    BY <1>1, <1>4 DEF Returned
  <2>3. signals = 0 => ret = "ok" /\ pos = goal
    BY <1>1, <2>2 DEF Returned, Failed
  <2> QED
    BY <1>1, <1>2, <1>4, <2>1, <2>3 DEF Results, Returned
<1> QED
  BY <1>3, <1>4

\* The write goes straight as long as no signal comes.
LEMMA StraightBefore ==
  ASSUME Types, UNCHANGED driver, signals' = signals \/ signals' = signals + 1
  PROVE  /\ Straight' => Straight
         /\ signals' = signals + 1 /\ Straight' => driver \notin OnTms9914
         /\ signals' = signals => (Straight' <=> Straight)
<1>1. signals + 1 # 0
  BY DEF Types
<1> QED
  BY <1>1 DEF Straight

LEMMA ReturnedStep ==
  ASSUME pc \in Writing, Types, PartsInv, Still, Sums, Progress, FifoInv, Returned, Terminal, AccelNext
  PROVE  Returned'
<1> USE DEF Returning
<1>1. pos \in Nat /\ skew \in Nat /\ goal \in Nat /\ Length \in Nat /\ pos + skew <= Length /\ signals \in Nat
      /\ put \in Nat
  BY LengthAssumption DEF Types, Sums
<1>2. ASSUME pc \notin {"a_stop", "b_drain"} \cup Returning, pc' \notin {"a_stop", "b_drain"},
             ret' = "ok", UNCHANGED <<driver, skew, signals>>
      PROVE  Returned'
  <2>1. Straight' <=> Straight
    BY <1>2 DEF Straight
  <2> QED
    BY <1>2, <2>1 DEF Returned
<1>3. ASSUME pc \notin {"a_stop", "b_drain"} \cup Returning, pc' = "w_ret",
             ret' \in Errors, UNCHANGED <<driver, skew, signals>>
      PROVE  Returned'
  BY <1>3 DEF Returned, Failed, Errors
<1>4. CASE Load \/ CallWrite \/ PioPart
  <2>1. /\ ret' = ret /\ pc' \notin {"a_stop", "b_drain"} \cup Returning /\ UNCHANGED <<driver, signals>>
        /\ (skew' = skew \/ skew' = 0)
        /\ pc \notin {"a_stop", "b_drain"} \cup Returning
    BY <1>4 DEF Load, WriteLoad, CallWrite, PioPart, Goto, accel, counts
  <2>2. Straight' <=> Straight
    BY <2>1 DEF Straight
  <2> QED
    BY <2>1, <2>2 DEF Returned
<1>5. CASE Waits
  <2>1. /\ UNCHANGED <<driver, parts, put, pos, goal, skew, fifo, signals, status>> /\ driver \in Accelerated
        /\ pc \in InPart
    BY <1>5, PlaceKept, OnBoard, HowWaitsEnd DEF Place, InPart, OnFifo, ByByte, Waited, Waits, PartBegin,
       FillFails, PartSent, LastByteSent, TmsWait, Wait
  <2>2. (Straight' <=> Straight) /\ part' = part
    BY <2>1 DEF Straight, part
  <2>3. pc \notin {"a_stop", "b_drain"} \cup Returning
    BY <1>5, <2>1, HowWaitsEnd
  <2>4. Straight => skew = 0
    BY <2>3 DEF Returned
  <2>5. CASE pc' = "a_stop" /\ ret' = "ok"
    <3>1. pc \in {"a_done", "a_sent"} /\ (pc = "a_done" => PartDone)
      BY <1>5, <2>1, <2>5, HowWaitsEnd DEF Errors
    <3>2. put = part.n
      BY <3>1 DEF Progress
    <3>3. ASSUME Straight PROVE fifo = <<>>
      <4>1. CASE pc = "a_sent"
        BY <4>1 DEF Still
      <4>2. CASE pc = "a_done"
        <5>1. Trait[driver].until \in {"sent", "fed", "event"} /\ (Trait[driver].until = "event" <=> driver \in Indexed)
          BY <2>1, TraitOfDriver
        <5>2. PartDone
          BY <3>1, <4>2
        <5>3. CASE driver \in Indexed
          <6>1. "TERM_COUNT" \in state
            BY <5>1, <5>2, <5>3 DEF PartDone
          <6> QED
            BY <3>3, <5>3, <6>1 DEF Terminal
        <5>4. CASE driver \notin Indexed
          BY <5>1, <5>2, <5>4 DEF PartDone
        <5> QED
          BY <5>3, <5>4
      <4> QED
        BY <3>1, <4>1, <4>2
    <3> QED
      BY <2>1, <2>2, <2>4, <2>5, <3>2, <3>3 DEF Returned
  <2>6. CASE pc' = "b_drain"
    <3>1. state' = state /\ Failures(Tms9914.tests) # {} /\ ret' \in Errors
      BY <1>5, <2>1, <2>6, HowWaitsEnd
    <3>2. Failures(Tms9914.tests)' # {}
      BY <2>1, <3>1, TmsFails
    <3> QED
      BY <2>1, <2>2, <2>4, <2>6, <3>1, <3>2 DEF Returned, Errors
  <2>7. CASE pc' = "a_stop" /\ ret' # "ok"
    <3>1. ret' \in Errors
      BY <1>5, <2>1, <2>7, HowWaitsEnd
    <3> QED
      BY <2>1, <2>2, <2>4, <2>7, <3>1 DEF Returned, Errors
  <2>8. CASE pc' \notin {"a_stop", "b_drain"}
    BY <1>2, <1>3, <1>5, <2>1, <2>3, <2>8, HowWaitsEnd
  <2> QED
    BY <2>5, <2>6, <2>7, <2>8
<1>6. CASE Arm \/ Restarted \/ FillFifo \/ TmsWrite
  <2>1. CASE Arm
    <3>1. pc' \notin {"a_stop", "b_drain"} /\ pc = "a_arm" /\ ret' = ret /\ UNCHANGED <<driver, skew, signals>>
      BY <2>1, Armings DEF Arm, counts
    <3> QED
      BY <1>2, <3>1 DEF Returned
  <2>2. CASE Restarted \/ FillFifo \/ TmsWrite
    <3>1. /\ pc' \notin {"a_stop", "b_drain"} /\ pc \in {"a_restart", "a_space", "a_arm"}
          /\ ret' = ret /\ UNCHANGED <<driver, skew, signals>>
      BY <2>2 DEF Restarted, FillFifo, TmsWrite, Goto, counts
    <3> QED
      BY <1>2, <3>1 DEF Returned
  <2> QED
    BY <1>6, <2>1, <2>2
<1>7. CASE StopPart
  <2>1. /\ pc = "a_stop" /\ ret' = ret /\ pc' \in {"a_part", "w_ret"} /\ (pc' = "a_part" => ret = "ok")
        /\ skew' = IF driver \in Indexed THEN skew + part.n - Counted ELSE skew
        /\ UNCHANGED <<driver, signals>>
    BY <1>7 DEF StopPart, PartEnds, counts
  <2>2. /\ Counted \in 0 .. part.n
        /\ ret = "ok" /\ fifo = <<>> => Counted = part.n
    BY <2>1, CountedOfPart
  <2>3. part.n \in Nat
    BY <2>1, Ahead, LengthAssumption DEF InPart, OnFifo
  <2>4. ASSUME Straight', skew' # 0 PROVE pc' = "w_ret" /\ ret \notin {"ok", "ERESTARTSYS"}
    <3>1. Straight
      BY <2>1, <2>4 DEF Straight
    <3>2. skew = 0
      BY <2>1, <3>1 DEF Returned
    <3>3. driver \in Indexed
      BY <2>1, <2>4, <3>2
    <3>4. signals = 0
      BY <3>1, <3>3 DEF Straight, Indexed, OnTms9914
    <3>5. ret # "ERESTARTSYS"
      BY <1>1, <3>4 DEF Returned
    <3>6. ret # "ok"
      <4> SUFFICES ASSUME ret = "ok" PROVE FALSE
        OBVIOUS
      <4>1. Counted = part.n
        BY <2>1, <2>2, <3>1 DEF Returned
      <4> DEFINE n == part.n
                 c == Counted
      <4>2. n \in Nat /\ c = n /\ skew' = skew + n - c
        BY <2>1, <2>3, <3>3, <4>1
      <4> HIDE DEF n, c
      <4> QED
        BY <2>4, <3>2, <4>2
    <3> QED
      BY <2>1, <3>5, <3>6
  <2> QED
    BY <2>1, <2>4 DEF Returned, Failed
<1>8. CASE TmsPut
  <2>1. /\ pc = "b_put" /\ pc' = (IF pos + 1 < goal THEN "b_wait" ELSE "b_drain") /\ pos' = pos + 1
        /\ UNCHANGED <<driver, skew, signals, ret, goal>>
    BY <1>8 DEF TmsPut, Goto, counts
  <2>2. pos < goal /\ ret = "ok"
    BY <2>1 DEF Progress, Returned
  <2>3. pc' = "b_drain" => pos' = goal
    BY <1>1, <2>1, <2>2
  <2>4. Straight' => skew = 0
    BY <2>1 DEF Straight, Returned
  <2> QED
    BY <2>1, <2>2, <2>3, <2>4 DEF Returned, Failed
<1>9. CASE TmsDrain
  <2>1. pc = "b_drain" /\ UNCHANGED <<driver, signals, pos>> /\ pc \in InPart
    BY <1>9 DEF TmsDrain, counts, InPart, ByByte
  <2>2. driver \in OnTms9914
    BY <2>1, Ahead, WaysApart DEF Types, PartsInv, ByByte
  <2>3. CASE ret' # "ok"
    <3>1. pc' = "w_ret" /\ (ret' = "ERESTARTSYS" => signals > 0)
      BY <1>9, <2>3, DrainResults
    <3>2. Straight' => ret' # "ERESTARTSYS"
      BY <1>1, <2>1, <2>2, <3>1 DEF Straight
    <3> QED
      BY <2>1, <2>3, <3>1, <3>2 DEF Returned, Failed
  <2>4. CASE ret' = "ok"
    <3>1. signals = 0 => pos = goal
      BY <1>9, <2>4, DrainResults
    <3>2. pc' \in {"b_wait", "a_part", "w_ret"}
      BY <1>9 DEF TmsDrain, PartEnds
    <3>3. ASSUME Straight' PROVE skew' = 0
      <4>1. signals = 0 /\ skew = 0
        BY <2>1, <2>2, <3>3 DEF Straight, Returned
      <4>2. CASE pc' = "b_wait"
        BY <1>9, <4>1, <4>2 DEF TmsDrain, PartEnds
      <4>3. CASE pc' # "b_wait"
        <5>1. ~part.eoi /\ skew' = IF driver \in Indexed THEN skew + part.n - put ELSE skew
          BY <1>9, <2>4, <4>3 DEF TmsDrain, PartEnds
        <5>2. part.n \in Nat
          BY <2>1, Ahead, LengthAssumption
        <5> DEFINE n == part.n
        <5>3. goal - pos + 0 = n - put /\ pos = goal /\ n \in Nat
          BY <2>1, <3>1, <4>1, <5>1, <5>2 DEF Progress, ByByte
        <5>4. skew' = IF driver \in Indexed THEN skew + n - put ELSE skew
          BY <5>1
        <5> HIDE DEF n
        <5> QED
          BY <1>1, <4>1, <5>3, <5>4
      <4> QED
        BY <4>2, <4>3
    <3> QED
      BY <2>4, <3>2, <3>3 DEF Returned, Failed
  <2> QED
    BY <2>3, <2>4
<1>10. ASSUME InWrite, UNCHANGED accel PROVE Returned'
  <2>1. driver' = driver /\ skew' = skew
    BY <1>10 DEF accel
  <2>2. CASE PioWaits
    <3>1. signals' = signals
      BY <2>2, HowPioWaitsEnd DEF Types, counts
    <3>2. pc \notin {"a_stop", "b_drain"} \cup Returning
      BY <2>2, HowPioWaitsEnd DEF Types
    <3>3. ret = "ok"
      BY <3>2 DEF Returned
    <3> QED
      BY <1>2, <1>3, <2>1, <2>2, <3>1, <3>2, <3>3, HowPioWaitsEnd DEF Types
  <2>3. CASE WriteBegin \/ PioPut \/ SendSeoi
    <3>1. /\ signals' = signals /\ ret' = ret /\ pc \notin {"a_stop", "b_drain"} \cup Returning
          /\ pc' \notin {"a_stop", "b_drain"}
      BY <2>3 DEF WriteBegin, PioPut, SendSeoi, Goto, counts
    <3> QED
      BY <1>2, <2>1, <3>1 DEF Returned
  <2>4. CASE WriteReturn \/ WriteStop
    <3>1. /\ signals' = signals /\ pos' = pos /\ pc \in {"w_ret", "w_stop"}
          /\ pc' \in {"w_stop", "w_load", "w_done"} /\ (pc' = "w_load" => ret' = "ok" /\ ret = "ok")
          /\ ret' \in {ret, "ETIMEDOUT"} \/ (ret' = "ok" /\ pos = Length)
      BY <2>4 DEF WriteReturn, WriteStop, Goto, counts
    <3>2. Straight' <=> Straight
      BY <2>1, <3>1 DEF Straight
    <3>3. skew # 0 => pos # Length
      BY <1>1
    <3> QED
      BY <1>1, <2>1, <3>1, <3>2, <3>3 DEF Returned, Failed
  <2> QED
    BY <1>10, <2>2, <2>3, <2>4 DEF InWrite
<1>11. ASSUME Signal, UNCHANGED accel PROVE Returned'
  <2>1. /\ driver' = driver /\ skew' = skew /\ signals' = signals + 1 /\ ret' = "ERESTARTSYS"
        /\ (pc \in InPio /\ pc' = "w_ret") \/ pc' = "r_ret"
    BY <1>11 DEF accel, Signal, Goto, InPio
  <2>2. pc \in InPio => skew = 0
    BY InNecWrite
  <2>3. pc \in Reading \/ pc' = "w_ret"
    BY <1>11 DEF Signal, Goto, Reading
  <2>4. pc' = "w_ret" /\ pc \in InPio
    BY <2>1, <2>3, LabelsApart
  <2> QED
    BY <1>1, <2>1, <2>2, <2>4 DEF Returned, Failed
<1>12. ASSUME Restart, UNCHANGED accel PROVE Returned'
  <2>1. /\ driver' = driver /\ skew' = skew /\ signals' = signals /\ ret = "ERESTARTSYS" /\ ret' = "ok"
        /\ pc' \in {"w_load", "r_load"}
    BY <1>12 DEF accel, Restart, Goto, counts
  <2>2. Straight' <=> Straight
    BY <2>1 DEF Straight
  <2>3. Straight => skew = 0
    BY <2>1 DEF Returned, Failed
  <2> QED
    BY <2>1, <2>2, <2>3 DEF Returned
<1>13. CASE AccelSignal
  <2>1. /\ UNCHANGED <<driver, skew, pos, goal>> /\ signals' = signals + 1
        /\ ret' \in {"EINTR", "ERESTARTSYS"} /\ (pc' = "b_drain" => ret' = "ERESTARTSYS")
        /\ pc' \in {"a_stop", "b_drain", "w_ret"}
    BY <1>13 DEF AccelSignal, accel, Interruptible
  <2>2. Straight' => skew = 0
    BY <2>1, StraightBefore DEF Still, Indexed, OnTms9914
  <2> QED
    BY <1>1, <2>1, <2>2 DEF Returned, Failed
<1>14. CASE Feed
  <2>1. /\ UNCHANGED <<pc, ret, driver, parts, put, skew, pos, goal, signals, state, status>> /\ fifo # <<>>
    BY <1>14 DEF Feed, caller, counts
  <2>2. (Straight' <=> Straight) /\ part' = part
    BY <2>1 DEF Straight, part
  <2>3. pc = "a_stop" /\ ret = "ok" => ~Straight /\ put = part.n
    BY <2>1 DEF Returned
  <2>4. pc # "b_drain"
    BY <1>14 DEF Feed, Still, OnFifo
  <2> QED
    BY <2>1, <2>2, <2>3, <2>4 DEF Returned, Failed
<1>15. CASE BesideNow
  <2>1. UNCHANGED <<pc, ret, driver, parts, put, skew, pos, goal, fifo, signals>>
    BY <1>15 DEF BesideNow, accel
  <2>2. (Straight' <=> Straight) /\ part' = part
    BY <2>1 DEF Straight, part
  <2>3. state \subseteq state' /\ status \ {"ATN"} \subseteq status'
    <3>1. CASE Interrupt
      BY <3>1, InterruptNotes
    <3>2. CASE RaiseFreeDO \/ Accept \/ BusError \/ DeviceClear \/ ChangeNecAtn \/ Expire \/ WatchdogTimeout
      BY <3>2 DEF RaiseFreeDO, RaiseDO, Accept, BusError, DeviceClear, ChangeNecAtn, ChangeAtn, Expire,
         WatchdogTimeout
    <3> QED
      BY <1>15, <3>1, <3>2 DEF BesideNow, Beside
  <2>4. Failures(Tms9914.tests) # {} => Failures(Tms9914.tests)' # {}
    BY <2>3, TmsFails
  <2> QED
    BY <2>1, <2>2, <2>4 DEF Returned, Failed
<1> QED
  BY <1>4, <1>5, <1>6, <1>7, <1>8, <1>9, <1>10, <1>11, <1>12, <1>13, <1>14, <1>15, WritingSteps

LEMMA BitsStep ==
  ASSUME pc \in Writing, Types, PartsInv, Still, Sums, Bits, AccelNext
  PROVE  Bits'
<1>1. ASSUME UNCHANGED <<ints, out, ready, driver, stream, errors>>, state' \subseteq state,
             pc' # "a_restart",
             pc' \in {"w_put", "b_put", "w_seoi"} => "WRITE_READY" \in state'
      PROVE  Bits'
  BY <1>1 DEF Bits
<1>2. CASE Load \/ CallWrite \/ PioPart
  <2>1. CASE Load
    BY <1>1, <2>1 DEF Load, WriteLoad, Goto, chip, counts
  <2>2. CASE CallWrite \/ PioPart
    BY <1>1, <2>2 DEF CallWrite, PioPart, Goto, accel, chip, counts
  <2> QED
    BY <1>2, <2>1, <2>2
<1>3. CASE Waits
  <2>1. driver \in Accelerated
    BY <1>3, OnBoard DEF InPart, OnFifo, ByByte, Waits, PartBegin, FillFails, PartSent, LastByteSent, TmsWait, Wait
  <2>2. UNCHANGED <<ints, out, ready, driver, stream, errors>> /\ state' \subseteq state
    BY <1>3, <2>1, HowWaitsEnd DEF Waited, accel, counts
  <2>3. pc' # "a_restart" /\ pc' \notin {"w_put", "w_seoi"} /\ (pc' = "b_put" => "WRITE_READY" \in state')
    BY <1>3, <2>1, HowWaitsEnd
  <2> QED
    BY <1>1, <2>2, <2>3
<1>4. CASE Arm
  <2>1. /\ ~ready' /\ ints' = ints \ {"DO"} /\ UNCHANGED <<out, driver, errors>> /\ state' \subseteq state
        /\ part.how = "block" \/ driver = "cb7210" => "WRITE_READY" \notin state'
        /\ pc' \in {"a_restart", "a_done", "a_space"} /\ part.how \in {"fifo", "block"} /\ pc \in InPart
        /\ pc # "a_restart"
    BY <1>4, Armings DEF Arm, counts, InPart
  <2>2. "WRITE_READY" \notin state'
    <3>1. CASE part.how = "block" \/ driver = "cb7210"
      BY <2>1, <3>1
    <3>2. CASE part.how = "fifo" /\ driver # "cb7210"
      <4>1. driver \in {"tnt4882", "ines", "fmh_fifo"}
        BY <2>1, <3>2, Ahead, WaysApart DEF Types
      <4>2. ~ready
        BY <4>1 DEF Bits, OnTms9914
      <4> QED
        BY <2>1, <4>2 DEF Bits
    <3> QED
      BY <2>1, <3>1, <3>2
  <2> QED
    BY <2>1, <2>2 DEF Bits
<1>5. CASE Restarted
  BY <1>5 DEF Restarted, Goto, chip, counts, Bits
<1>6. CASE FillFifo
  BY <1>1, <1>6 DEF FillFifo, Goto, chip, counts
<1>7. CASE StopPart
  BY <1>7 DEF StopPart, PartEnds, Goto, chip, counts, Bits
<1>8. CASE TmsWrite
  BY <1>8 DEF TmsWrite, PioWrite, counts, Bits
<1>9. CASE TmsPut
  BY <1>9 DEF TmsPut, Goto, counts, Bits
<1>10. CASE TmsDrain
  BY <1>10 DEF TmsDrain, PartEnds, PioWrite, counts, Bits
<1>11. ASSUME InWrite, UNCHANGED accel PROVE Bits'
  <2>1. UNCHANGED <<driver, stream>>
    BY <1>11 DEF accel
  <2>2. CASE PioWaits
    <3>1. UNCHANGED <<ints, out, ready, errors>> /\ state' \subseteq state /\ pc' # "a_restart"
      BY <2>2, HowPioWaitsEnd DEF Types, counts
    <3>2. pc' \in {"w_put", "b_put", "w_seoi"} => "WRITE_READY" \in state'
      BY <2>2, HowPioWaitsEnd DEF Types
    <3> QED
      BY <1>1, <2>1, <3>1, <3>2
  <2>3. CASE PioPut
    BY <2>1, <2>3 DEF PioPut, Goto, counts, Bits
  <2>4. CASE WriteBegin \/ SendSeoi \/ WriteReturn \/ WriteStop
    <3>1. UNCHANGED <<ints, out, ready, errors>> /\ state' \subseteq state
      BY <2>4 DEF WriteBegin, SendSeoi, WriteReturn, WriteStop, chip, counts
    <3>2. pc' \notin {"a_restart", "w_put", "b_put", "w_seoi"}
      BY <2>4 DEF WriteBegin, SendSeoi, WriteReturn, WriteStop, Goto
    <3> QED
      BY <1>1, <2>1, <3>1, <3>2
  <2> QED
    BY <1>11, <2>2, <2>3, <2>4 DEF InWrite
<1>12. ASSUME Signal \/ Restart, UNCHANGED accel PROVE Bits'
  <2>1. UNCHANGED <<ints, out, ready, errors, driver, stream>> /\ state' \subseteq state
    BY <1>12 DEF Signal, Restart, accel, chip, counts
  <2>2. pc' \notin {"a_restart", "w_put", "b_put", "w_seoi"}
    BY <1>12 DEF Signal, Restart, Goto
  <2> QED
    BY <1>1, <2>1, <2>2
<1>13. CASE AccelSignal
  <2>1. UNCHANGED <<ints, out, ready, errors, driver, stream>> /\ state' \subseteq state
    BY <1>13 DEF AccelSignal, accel, chip
  <2>2. pc' \notin {"a_restart", "w_put", "b_put", "w_seoi"}
    BY <1>13 DEF AccelSignal, Interruptible
  <2> QED
    BY <1>1, <2>1, <2>2
<1>14. CASE Feed
  <2>1. /\ UNCHANGED <<pc, state, driver, stream, errors>> /\ ~ready' /\ stream
        /\ (ints' = ints \/ ints' = ints \cup {"TC"})
    BY <1>14 DEF Feed, caller, counts
  <2>2. ~ready
    BY <2>1 DEF Bits
  <2>3. "WRITE_READY" \notin state /\ "DO" \notin ints /\ pc \notin {"w_put", "b_put", "w_seoi"}
    BY <2>1, <2>2 DEF Bits
  <2> QED
    BY <2>1, <2>3 DEF Bits
<1>15. CASE BesideNow
  <2>1. UNCHANGED <<pc, driver, stream>>
    BY <1>15 DEF BesideNow, accel
  <2>2. CASE RaiseFreeDO
    <3>1. /\ out = NoByte /\ ~ready /\ ready' /\ ints' = ints \cup {"DO"} /\ UNCHANGED <<state, out, errors>>
          /\ ~stream /\ pc # "a_restart" /\ driver \in OnTms9914 \cup {"nec7210", "cb7210"}
      BY <2>2 DEF RaiseFreeDO, RaiseDO, counts
    <3>2. "WRITE_READY" \notin state
      BY <3>1 DEF Bits
    <3> QED
      BY <2>1, <3>1, <3>2 DEF Bits
  <2>3. CASE Accept
    BY <2>1, <2>3 DEF Accept, Bits, counts
  <2>4. CASE BusError
    <3>1. /\ out # NoByte /\ errors' = errors + 1 /\ out' = NoByte /\ ints' = ints \cup {"ERR"}
          /\ UNCHANGED <<state, ready>>
      BY <2>4 DEF BusError
    <3>2. ~ready /\ errors' # 0
      BY <3>1 DEF Bits, Types
    <3> QED
      BY <2>1, <3>1, <3>2 DEF Bits
  <2>5. CASE DeviceClear
    BY <2>1, <2>5 DEF DeviceClear, Bits
  <2>6. CASE ChangeNecAtn \/ Expire \/ WatchdogTimeout
    BY <2>1, <2>6 DEF ChangeNecAtn, ChangeAtn, Expire, WatchdogTimeout, Bits, chip, counts
  <2>7. CASE Interrupt
    BY <2>1, <2>7, InterruptNotes DEF Bits, counts
  <2> QED
    BY <1>15, <2>2, <2>3, <2>4, <2>5, <2>6, <2>7 DEF BesideNow, Beside
<1> QED
  BY <1>2, <1>3, <1>4, <1>5, <1>6, <1>7, <1>8, <1>9, <1>10, <1>11, <1>12, <1>13, <1>14, <1>15, WritingSteps

LEMMA TerminalStep ==
  ASSUME pc \in Writing, Types, PartsInv, Still, Sums, FifoInv, Returned, Terminal, AccelNext
  PROVE  Terminal'
<1> USE DEF Returning
<1>1. ASSUME driver \in Indexed, Straight, ~("TERM_COUNT" \in state \/ "TC" \in ints), UNCHANGED ints,
             state' \subseteq state
      PROVE  Terminal'
  BY <1>1 DEF Terminal
<1>2. ASSUME UNCHANGED driver, signals' = signals + 1 PROVE Terminal'
  <2>1. Straight' => driver \notin OnTms9914
    BY <1>2, StraightBefore
  <2> QED
    BY <1>2, <2>1 DEF Terminal, Indexed, OnTms9914
<1>3. CASE Signal /\ UNCHANGED accel
  BY <1>2, <1>3 DEF Signal, accel
<1>4. CASE AccelSignal
  BY <1>2, <1>4 DEF AccelSignal, accel
<1>6. ASSUME driver \in Indexed, Straight PROVE signals = 0 /\ ret # "ERESTARTSYS"
  <2>1. signals = 0
    BY <1>6 DEF Straight, Indexed, OnTms9914
  <2> QED
    BY <2>1 DEF Returned
<1>7. ASSUME driver \in Indexed, Straight, pc \notin {"a_done", "a_stop"} \cup Returning
      PROVE  ~("TERM_COUNT" \in state \/ "TC" \in ints)
  BY <1>7 DEF Terminal
<1>8. ASSUME signals' = signals, driver' = driver, state' \subseteq state, ints' \subseteq ints,
             pc \notin {"a_done", "a_stop"} \cup Returning
      PROVE  Terminal'
  <2>1. Straight' <=> Straight
    BY <1>8 DEF Straight
  <2> QED
    BY <1>7, <1>8, <2>1 DEF Terminal
<1>9. CASE Load \/ CallWrite \/ PioPart
  <2>1. CASE Load
    BY <1>8, <2>1 DEF Load, WriteLoad, Goto, chip, counts
  <2>2. CASE CallWrite \/ PioPart
    BY <1>8, <2>2 DEF CallWrite, PioPart, Goto, accel, chip, counts
  <2> QED
    BY <1>9, <2>1, <2>2
<1>10. CASE Waits
  <2>1. driver \in Accelerated
    BY <1>10, OnBoard DEF InPart, OnFifo, ByByte, Waits, PartBegin, FillFails, PartSent, LastByteSent, TmsWait, Wait
  <2>2. UNCHANGED <<ints, fifo, driver, signals>> /\ state' \subseteq state
    BY <1>10, <2>1, HowWaitsEnd DEF Waited, accel, counts
  <2>3. CASE pc # "a_done"
    <3>1. pc \notin {"a_stop"} \cup Returning
      BY <1>10, <2>1, HowWaitsEnd
    <3> QED
      BY <1>8, <2>2, <2>3, <3>1
  <2>4. CASE pc = "a_done"
    <3>1. \/ PartDone /\ "TERM_COUNT" \notin state'
          \/ pc' = "a_stop" /\ ret' \in Errors
      BY <1>10, <2>1, <2>4, HowWaitsEnd
    <3>2. Straight' <=> Straight
      BY <2>2 DEF Straight
    <3>3. ASSUME driver \in Indexed, Straight, PartDone PROVE "TC" \notin ints
      <4>1. "TERM_COUNT" \in state
        BY <2>1, <3>3, TraitOfDriver DEF PartDone
      <4> QED
        BY <3>3, <4>1 DEF Terminal
    <3> QED
      BY <2>2, <2>4, <3>1, <3>2, <3>3 DEF Terminal, Failed, Errors
  <2> QED
    BY <2>3, <2>4
<1>11. CASE Arm
  BY <1>8, <1>11 DEF Arm, counts
<1>12. CASE Restarted \/ FillFifo
  BY <1>8, <1>12 DEF Restarted, FillFifo, Goto, chip, counts
<1>13. CASE StopPart
  <2>1. /\ pc = "a_stop" /\ ret' = ret /\ (ret # "ok" => pc' = "w_ret") /\ fifo' = <<>>
        /\ UNCHANGED <<driver, state, ints, signals>>
    BY <1>13 DEF StopPart, PartEnds, chip, counts
  <2>2. Straight' <=> Straight
    BY <2>1 DEF Straight
  <2> QED
    BY <2>1, <2>2 DEF Terminal, Failed
<1>14. CASE TmsWrite \/ TmsPut \/ TmsDrain
  BY <1>8, <1>14 DEF TmsWrite, TmsPut, TmsDrain, Goto, counts
<1>15. ASSUME InWrite, UNCHANGED accel PROVE Terminal'
  <2>1. UNCHANGED <<driver, fifo>>
    BY <1>15 DEF accel
  <2>2. CASE PioWaits
    <3>1. UNCHANGED <<ints, signals>> /\ state' \subseteq state /\ pc \in {"w_wait", "w_drain", "w_eoi"}
      BY <2>2, HowPioWaitsEnd DEF Types, counts
    <3> QED
      BY <1>8, <2>1, <3>1
  <2>3. CASE WriteBegin \/ PioPut \/ SendSeoi
    BY <1>8, <2>1, <2>3 DEF WriteBegin, PioPut, SendSeoi, Goto, chip, counts
  <2>4. CASE WriteReturn \/ WriteStop
    <3>1. /\ UNCHANGED <<signals, state, ints>> /\ pc \in {"w_ret", "w_stop"}
          /\ pc' \in {"w_stop", "w_done"} \/ (pc' = "w_load" /\ ret = "ok")
          /\ ret' \in {ret, "ETIMEDOUT"} \/ pc' = "w_done"
      BY <2>4 DEF WriteReturn, WriteStop, Goto, chip, counts
    <3>2. Straight' <=> Straight
      BY <2>1, <3>1 DEF Straight
    <3> QED
      BY <2>1, <3>1, <3>2 DEF Terminal, Failed
  <2> QED
    BY <1>15, <2>2, <2>3, <2>4 DEF InWrite
<1>16. ASSUME Restart, UNCHANGED accel PROVE Terminal'
  <2>1. UNCHANGED <<driver, fifo, signals, state, ints>> /\ ret = "ERESTARTSYS"
    BY <1>16 DEF Restart, accel, chip, counts
  <2>2. Straight' <=> Straight
    BY <2>1 DEF Straight
  <2>3. ~(driver \in Indexed /\ Straight)
    BY <1>6, <2>1
  <2> QED
    BY <2>1, <2>2, <2>3 DEF Terminal
<1>17. CASE Feed
  <2>1. /\ UNCHANGED <<pc, ret, driver, signals, state>> /\ stream /\ fifo # <<>>
        /\ ints' = IF driver \in Indexed /\ Len(fifo) = 1 THEN ints \cup {"TC"} ELSE ints
        /\ fifo' = Tail(fifo)
    BY <1>17 DEF Feed, caller, counts
  <2>2. Straight' <=> Straight
    BY <2>1 DEF Straight
  <2>3. ASSUME driver \in Indexed, Straight
        PROVE  pc = "a_done" \/ (pc = "a_stop" /\ Failed)
    <3>1. pc \in OnFifo /\ pc \notin {"a_restart", "a_sent"}
      BY <2>1 DEF Still
    <3>2. pc # "a_space"
      <4> SUFFICES ASSUME pc = "a_space" PROVE FALSE
        OBVIOUS
      <4>1. part.how = "fifo"
        BY DEF PartsInv
      <4>2. driver \in {"tnt4882", "ines", "fmh_fifo", "cb7210"}
        BY <4>1, Ahead, WaysApart DEF Types, InPart, OnFifo
      <4> QED
        BY <2>3, <4>2 DEF Indexed
    <3>3. pc = "a_stop" => Failed
      BY <1>6, <2>1, <2>3 DEF Returned, Failed
    <3> QED
      BY <3>1, <3>2, <3>3 DEF OnFifo
  <2>4. ASSUME driver \in Indexed, Straight PROVE "TERM_COUNT" \notin state /\ "TC" \notin ints
    BY <2>1, <2>4 DEF Terminal
  <2>5. Len(fifo) = 1 => fifo' = <<>>
    <3>1. Len(fifo') = Len(fifo) - 1 /\ fifo' \in Seq([byte : Nat, eoi : BOOLEAN])
      BY <1>17, Feeds
    <3> QED
      BY <3>1, EmptySeq
  <2> QED
    BY <2>1, <2>2, <2>3, <2>4, <2>5 DEF Terminal, Failed
<1>18. CASE BesideNow
  <2>1. UNCHANGED <<pc, ret, driver, fifo, signals>>
    BY <1>18 DEF BesideNow, accel
  <2>2. Straight' <=> Straight
    BY <2>1 DEF Straight
  <2>3. CASE Interrupt
    <3>1. ints' = {} /\ ("TERM_COUNT" \in state' <=> "TERM_COUNT" \in state \/ "TC" \in ints)
      BY <2>3, InterruptNotes
    <3> QED
      BY <2>1, <2>2, <3>1 DEF Terminal, Failed
  <2>4. CASE ~Interrupt
    <3>1. state' = state /\ ("TC" \in ints' <=> "TC" \in ints)
      BY <1>18, <2>4 DEF BesideNow, Beside, RaiseFreeDO, RaiseDO, Accept, BusError, DeviceClear, ChangeNecAtn,
         ChangeAtn, Expire, WatchdogTimeout, chip
    <3> QED
      BY <2>1, <2>2, <3>1 DEF Terminal, Failed
  <2> QED
    BY <2>3, <2>4
<1> QED
  BY <1>3, <1>4, <1>9, <1>10, <1>11, <1>12, <1>13, <1>14, <1>15, <1>16, <1>17, <1>18, WritingSteps

\* What the chip has taken from the FIFO does not change as more is put into it.
LEMMA FillKeeps ==
  ASSUME Types, PartsInv, Sums, Progress, FifoInv, FillFifo
  PROVE  pc = "a_space" /\ Fed' = Fed /\ Fed \in Nat
<1> DEFINE r == Room
           g == [i \in 1 .. r |-> ByteAt(put + i)]
           S == [byte : Nat, eoi : BOOLEAN]
           V == {ByteAt(put + i) : i \in 1 .. r} \cup S
<1>1. pc = "a_space" /\ Room > 0 /\ put' = put + r /\ fifo' = fifo \o g /\ put \in Nat
  BY DEF FillFifo, Types
<1>2. r \in Nat
  BY <1>1, RoomOfPart
<1>3. fifo \in Seq(S) /\ Len(fifo) <= put
  BY <1>1 DEF FifoInv, OnFifo
<1>4. g \in [1 .. r -> V] /\ S \subseteq V
  OBVIOUS
<1> HIDE DEF V, g, r, S
<1>5. Len(fifo) \in Nat /\ fifo \in Seq(V)
  BY <1>3, <1>4, SeqMonotonic, LenProperties
<1>6. g \in Seq(V) /\ Len(g) = r
  BY <1>2, <1>4
<1>7. Len(fifo') = Len(fifo) + r
  BY <1>1, <1>5, <1>6, ConcatProperties
<1> QED
  BY <1>1, <1>2, <1>3, <1>5, <1>7 DEF Fed

LEMMA ArmedStep ==
  ASSUME pc \in Writing, Types, PartsInv, Still, Sums, EoiInv, Progress, FifoInv, Pio, Returned, Armed, AccelNext
  PROVE  Armed'
<1>1. /\ pos \in Nat /\ skew \in Nat /\ goal \in Nat /\ Length \in Nat /\ signals \in Nat
      /\ put \in Nat
  BY LengthAssumption DEF Types
<1>2. ASSUME UNCHANGED driver, signals' = signals \/ signals' = signals + 1,
             Straight =>
               (seoi' => end' /\ pos' + 1 = Length /\ (pc' \in OnFifo => Fed' = 0) /\ driver # "ines"),
             Straight /\ signals' = signals =>
               (pc' \in ByByte /\ eoi' /\ Len(parts') = 1 /\ ~part.eoi' => seoi' \/ put' = part.n'),
             signals' = signals \/ pc' \notin ByByte \/ driver \in OnTms9914
      PROVE  Armed'
  BY <1>2, StraightBefore DEF Armed
<1>3. ASSUME UNCHANGED <<driver, signals, end, pos, seoi>>, pc' \notin OnFifo \/ (pc \in OnFifo /\ Fed' = Fed),
             pc' \notin ByByte
      PROVE  Armed'
  BY <1>2, <1>3 DEF Armed
<1>4. ASSUME UNCHANGED <<driver, signals, end, pos, seoi>>, pc' \notin OnFifo, pc \in ByByte,
             UNCHANGED <<parts, put, eoi>>
      PROVE  Armed'
  BY <1>2, <1>4 DEF Armed, part
<1>5. ASSUME Straight, pc \in InPart, driver \in OnTms9914 \/ driver \notin Indexed
      PROVE  /\ \E to \in 0 .. Length :
                  /\ part.n \in Nat \ {0} /\ part.eoi \in BOOLEAN /\ part.how \in Ways
                  /\ part.how = "block" /\ part.eoi => part.n = 1
                  /\ Len(parts) = 1 <=> Start + part.n = to
                  /\ Start + part.n <= to
                  /\ eoi <=> (to = Length /\ end)
             /\ skew = 0 \/ pc \in Returning
             /\ EoiLast(parts, eoi) => (part.eoi <=> Len(parts) = 1 /\ eoi)
  <2>1. EoiLast(parts, eoi) => (part.eoi <=> Len(parts) = 1 /\ eoi)
    BY <1>5, TailParts DEF PartsInv, part
  <2>2. skew = 0 \/ pc \in Returning
    BY <1>5 DEF Returned
  <2>3. \E to \in 0 .. Length :
                  /\ part.n \in Nat \ {0} /\ part.eoi \in BOOLEAN /\ part.how \in Ways
                  /\ part.how = "block" /\ part.eoi => part.n = 1
                  /\ Len(parts) = 1 <=> Start + part.n = to
                  /\ Start + part.n <= to
                  /\ eoi <=> (to = Length /\ end)
    BY <1>5, Ahead, LengthAssumption
  <2> QED
    BY <2>1, <2>2, <2>3
<1>6. ASSUME Straight, pc \in InPart, pc \notin ByByte, part.eoi
      PROVE  /\ end /\ eoi /\ Len(parts) = 1 /\ pos + part.n = Length /\ part.n \in Nat
             /\ part.how = "block" => part.n = 1
  <2>1. PICK to \in 0 .. Length :
                  /\ part.n \in Nat \ {0} /\ part.eoi \in BOOLEAN
                  /\ part.how = "block" /\ part.eoi => part.n = 1
                  /\ Len(parts) = 1 <=> Start + part.n = to
                  /\ eoi <=> (to = Length /\ end)
    BY <1>5, <1>6 DEF Indexed, OnTms9914
  <2>2. Len(parts) = 1 /\ eoi
    BY <1>5, <1>6 DEF EoiInv, Indexed, OnTms9914
  <2>3. skew = 0
    BY <1>5, <1>6 DEF Indexed, OnTms9914, Returning, InPart, OnFifo, ByByte
  <2>4. Start = pos
    BY <1>1, <1>6, <2>3 DEF Start, Base
  <2> QED
    BY <1>6, <2>1, <2>2, <2>4
<1>7. CASE Load \/ CallWrite \/ PioPart
  <2>1. CASE Load
    BY <1>3, <2>1 DEF Load, WriteLoad, Goto, chip, counts, OnFifo, ByByte
  <2>2. CASE CallWrite \/ PioPart
    BY <1>3, <2>2 DEF CallWrite, PioPart, Goto, accel, chip, counts, OnFifo, ByByte
  <2> QED
    BY <1>7, <2>1, <2>2
<1>8. CASE Waits
  <2>1. /\ driver \in Accelerated /\ pc \in InPart
    BY <1>8, OnBoard DEF InPart, OnFifo, ByByte, Waits, PartBegin, FillFails, PartSent, LastByteSent, TmsWait, Wait
  <2>2. UNCHANGED <<driver, signals, end, pos, seoi, parts, put, eoi, fifo>>
    BY <1>8, <2>1, HowWaitsEnd DEF Waited, accel, counts
  <2>3. Fed' = Fed
    BY <2>2 DEF Fed
  <2>4. \/ pc' \notin ByByte /\ (pc' \notin OnFifo \/ pc \in OnFifo)
        \/ pc \in ByByte /\ pc' \notin OnFifo
    BY <1>8, <2>1, HowWaitsEnd DEF OnFifo, ByByte
  <2> QED
    BY <1>3, <1>4, <2>2, <2>3, <2>4
<1>9. CASE Arm
  <2>1. /\ pc = "a_arm" /\ seoi' = (seoi \/ (part.how = "block" /\ part.eoi))
        /\ UNCHANGED <<driver, signals, end, pos>> /\ part.how \in {"fifo", "block"}
    BY <1>9 DEF Arm, counts
  <2>2. pc' \notin ByByte /\ put' = Len(fifo') /\ Len(fifo') \in Nat
    BY <1>9, Armings, LenProperties DEF ByByte
  <2>3. Fed' = 0
    BY <2>2 DEF Fed
  <2>4. pc \in InPart /\ pc \notin ByByte /\ pc \notin OnFifo
    BY <2>1 DEF InPart, ByByte, OnFifo
  <2>5. ASSUME Straight, part.how = "block", part.eoi PROVE end /\ pos + 1 = Length /\ driver # "ines"
    <3>1. end /\ pos + 1 = Length
      BY <1>6, <2>4, <2>5
    <3>2. driver # "ines"
      BY <2>4, <2>5, Ahead, WaysApart DEF Types, Indexed
    <3> QED
      BY <3>1, <3>2
  <2> QED
    BY <1>2, <2>1, <2>2, <2>3, <2>5 DEF Armed
<1>10. CASE Restarted
  <2>1. /\ UNCHANGED <<driver, signals, end, pos, seoi, put, fifo>> /\ pc \in OnFifo /\ pc' \notin ByByte
    BY <1>10 DEF Restarted, Goto, chip, counts, OnFifo, ByByte
  <2> QED
    BY <1>3, <2>1 DEF Fed
<1>11. CASE FillFifo
  <2>1. /\ UNCHANGED <<driver, signals, end, pos, seoi>> /\ pc \in OnFifo /\ pc' \notin ByByte
    BY <1>11 DEF FillFifo, chip, counts, OnFifo, ByByte
  <2> QED
    BY <1>3, <1>11, <2>1, FillKeeps
<1>12. CASE StopPart
  <2>1. /\ pc = "a_stop" /\ pos' = pos + Counted /\ UNCHANGED <<driver, signals, end, seoi>>
        /\ pc' \notin OnFifo /\ pc' \notin ByByte /\ pc \in OnFifo /\ pc \in InPart /\ pc \notin ByByte
    BY <1>12 DEF StopPart, PartEnds, chip, counts, OnFifo, ByByte, InPart
  <2>2. ASSUME Straight, seoi PROVE Counted = 0
    <3>1. Fed = 0 /\ driver # "ines" /\ pos + 1 = Length
      BY <2>1, <2>2 DEF Armed
    <3>2. driver # "cb7210"
      <4> SUFFICES ASSUME driver = "cb7210" PROVE FALSE
        OBVIOUS
      <4>1. PICK to \in 0 .. Length :
                  /\ part.n \in Nat \ {0} /\ part.how \in Ways
                  /\ Len(parts) = 1 <=> Start + part.n = to
                  /\ Start + part.n <= to
        BY <1>5, <2>1, <2>2 DEF Indexed
      <4>2. part.how \in {"fifo", "block"} /\ parts \in Seq(PartsBy(Ways)) /\ parts # <<>> /\ PioLast(parts)
        BY <2>1 DEF PartsInv
      <4>3. Len(parts) # 1
        BY <4>2, TailParts DEF part
      <4>4. Start = pos
        BY <1>1, <2>1 DEF Start, Base, Still, Indexed
      <4> QED
        BY <1>1, <3>1, <4>1, <4>3, <4>4
    <3>3. Counted = put - Len(fifo)
      BY <2>1, <3>1, <3>2, CountedOfPart
    <3> QED
      BY <3>1, <3>3 DEF Fed
  <2>3. ASSUME Straight, seoi PROVE pos' = pos
    <3> HIDE DEF Counted
    <3> QED
      BY <1>1, <2>1, <2>2, <2>3
  <2>4. Straight => (seoi' => end' /\ pos' + 1 = Length /\ (pc' \in OnFifo => Fed' = 0) /\ driver # "ines")
    BY <2>1, <2>3 DEF Armed
  <2> QED
    BY <1>2, <2>1, <2>4
<1>13. CASE TmsWrite
  <2>1. /\ pc = "a_arm" /\ pc' = "b_wait" /\ UNCHANGED <<driver, signals, end, pos, eoi>> /\ part.how = "bytes"
        /\ pc \in InPart /\ pc \notin ByByte /\ pc' \notin OnFifo
    BY <1>13 DEF TmsWrite, counts, InPart, ByByte, OnFifo
  <2>2. driver \in OnTms9914
    BY <2>1, Ahead, WaysApart DEF Types
  <2>3. driver # "ines"
    BY <2>2 DEF OnTms9914
  <2>4. CASE part.eoi /\ part.n = 1
    <3>1. seoi'
      BY <1>13, <2>4 DEF TmsWrite, PioWrite
    <3>2. Straight => end /\ pos + 1 = Length
      BY <1>6, <2>1, <2>4
    <3> QED
      BY <1>2, <2>1, <2>2, <2>3, <3>1, <3>2
  <2>5. CASE ~(part.eoi /\ part.n = 1)
    <3>1. (seoi' <=> seoi) /\ parts' = parts
      BY <1>13, <2>5 DEF TmsWrite, PioWrite
    <3>2. Straight /\ eoi /\ Len(parts) = 1 => part.eoi
      BY <1>5, <2>1, <2>2 DEF EoiInv
    <3>3. Straight => (eoi' /\ Len(parts') = 1 => part.eoi')
      BY <2>1, <3>1, <3>2 DEF part
    <3> QED
      BY <1>2, <2>1, <2>2, <2>3, <3>1, <3>3 DEF Armed
  <2> QED
    BY <2>4, <2>5
<1>14. CASE TmsPut
  <2>1. /\ pc = "b_put" /\ pc' \in {"b_wait", "b_drain"} /\ UNCHANGED <<driver, signals, end, eoi, parts>>
        /\ put' = put + 1 /\ ~seoi' /\ pc \in InPart /\ pc \in ByByte /\ pc' \notin OnFifo
    BY <1>14 DEF TmsPut, Goto, counts, InPart, ByByte, OnFifo
  <2>2. driver \in OnTms9914
    BY <2>1, Ahead, WaysApart DEF Types, PartsInv
  <2>3. ASSUME Straight, eoi, Len(parts) = 1, ~part.eoi PROVE put + 1 = part.n
    <3>1. PICK to \in 0 .. Length :
                  /\ part.n \in Nat \ {0} /\ part.eoi \in BOOLEAN
                  /\ Len(parts) = 1 <=> Start + part.n = to
                  /\ Start + part.n <= to
                  /\ eoi <=> (to = Length /\ end)
      BY <1>5, <2>1, <2>2, <2>3
    <3>2. skew = 0
      BY <2>1, <2>3 DEF Returned, Returning
    <3>3. Start = pos - put
      BY <1>1, <2>1, <3>2 DEF Start, Base
    <3> DEFINE n == part.n
    <3>4. pos < goal /\ goal - pos + 0 <= n - put /\ n \in Nat
      BY <2>1, <2>3, <3>1 DEF Progress
    <3>5. seoi \/ put = n
      BY <2>1, <2>3 DEF Armed
    <3>6. (pos - put) + n = Length
      BY <2>3, <3>1, <3>3
    <3> HIDE DEF n
    <3>7. put # n
      BY <1>1, <3>4
    <3>8. pos + 1 = Length
      BY <2>3, <3>5, <3>7 DEF Armed
    <3>9. put + 1 = n
      BY <1>1, <3>4, <3>6, <3>8
    <3> QED
      BY <3>9 DEF n
  <2>4. Straight => (eoi' /\ Len(parts') = 1 /\ ~part.eoi' => put' = part.n')
    BY <2>1, <2>3 DEF part
  <2> QED
    BY <1>2, <2>1, <2>2, <2>4
<1>15. CASE TmsDrain
  <2>1. /\ pc = "b_drain" /\ UNCHANGED <<driver, signals, end, pos, eoi>> /\ pc \in InPart /\ pc \in ByByte
    BY <1>15 DEF TmsDrain, counts, InPart, ByByte
  <2>2. driver \in OnTms9914
    BY <2>1, Ahead, WaysApart DEF Types, PartsInv
  <2>3. CASE ret' = "ok" /\ part.eoi
    <3>1. pc' = "b_wait" /\ seoi'
      BY <1>15, <2>3 DEF TmsDrain, PioWrite
    <3>2. ASSUME Straight PROVE end /\ pos + 1 = Length
      <4>1. signals = 0
        BY <2>2, <3>2 DEF Straight
      <4>2. pos = goal
        BY <1>15, <2>3, <4>1, DrainResults
      <4>3. PICK to \in 0 .. Length :
                  /\ part.n \in Nat \ {0}
                  /\ Len(parts) = 1 <=> Start + part.n = to
                  /\ eoi <=> (to = Length /\ end)
        BY <1>5, <2>1, <2>2, <3>2
      <4>4. Len(parts) = 1 /\ eoi
        BY <1>5, <2>1, <2>2, <2>3, <3>2 DEF EoiInv
      <4>5. skew = 0
        BY <2>1, <3>2 DEF Returned, Returning
      <4>6. Start = pos - put
        BY <1>1, <2>1, <4>5 DEF Start, Base
      <4> DEFINE n == part.n
      <4>7. goal - pos + 1 = n - put /\ n \in Nat
        BY <2>1, <2>3, <4>1, <4>3 DEF Progress
      <4>8. (pos - put) + n = Length /\ end
        BY <4>3, <4>4, <4>6
      <4> HIDE DEF n
      <4> QED
        BY <1>1, <4>2, <4>7, <4>8
    <3>3. driver # "ines" /\ pc' \notin OnFifo
      BY <2>2, <3>1 DEF OnTms9914, OnFifo
    <3> QED
      BY <1>2, <2>1, <2>2, <3>1, <3>2, <3>3
  <2>4. CASE ~(ret' = "ok" /\ part.eoi)
    <3>1. UNCHANGED seoi /\ PartEnds(put)
      BY <1>15, <2>4 DEF TmsDrain
    <3>2. pc' \notin ByByte /\ pc' \notin OnFifo
      BY <3>1 DEF PartEnds, ByByte, OnFifo
    <3> QED
      BY <1>2, <2>1, <2>2, <3>1, <3>2 DEF Armed
  <2> QED
    BY <2>3, <2>4
<1>16. ASSUME InWrite, UNCHANGED accel PROVE Armed'
  <2>1. driver' = driver
    BY <1>16 DEF accel
  <2>2. CASE PioWaits
    <3>1. UNCHANGED <<end, seoi, signals>> /\ pc' \notin ByByte /\ pc' \notin OnFifo
          /\ (pos' = pos \/ (pc = "w_wait" /\ pos' = last))
      BY <2>2, HowPioWaitsEnd DEF Types, counts, ByByte, OnFifo
    <3>2. seoi => pos' = pos
      BY <3>1 DEF Pio
    <3> QED
      BY <1>2, <2>1, <3>1, <3>2 DEF Armed
  <2>3. CASE PioPut
    <3>1. UNCHANGED <<end, signals>> /\ pc' \notin ByByte /\ pc' \notin OnFifo /\ ~seoi'
      BY <2>3 DEF PioPut, Goto, counts, ByByte, OnFifo
    <3> QED
      BY <1>2, <2>1, <3>1
  <2>4. CASE SendSeoi
    <3>1. UNCHANGED <<end, signals, pos>> /\ pc' \notin ByByte /\ pc' \notin OnFifo /\ pc = "w_seoi"
      BY <2>4 DEF SendSeoi, Goto, counts, ByByte, OnFifo
    <3>2. end /\ pos + 1 = Length
      BY <3>1 DEF Pio, InPio
    <3>3. driver # "ines"
      BY <3>1, InNecWrite DEF InPio
    <3> QED
      BY <1>2, <2>1, <3>1, <3>2, <3>3
  <2>5. CASE WriteBegin \/ WriteReturn \/ WriteStop
    BY <1>3, <2>1, <2>5 DEF WriteBegin, WriteReturn, WriteStop, Goto, chip, counts, ByByte, OnFifo
  <2> QED
    BY <1>16, <2>2, <2>3, <2>4, <2>5 DEF InWrite
<1>17. ASSUME Signal \/ Restart, UNCHANGED accel PROVE Armed'
  <2>1. /\ driver' = driver /\ UNCHANGED <<end, pos, seoi>> /\ (signals' = signals \/ signals' = signals + 1)
        /\ pc' \notin ByByte /\ pc' \notin OnFifo
    BY <1>17 DEF Signal, Restart, Goto, accel, chip, counts, ByByte, OnFifo
  <2> QED
    BY <1>2, <2>1 DEF Armed
<1>18. CASE AccelSignal
  <2>1. /\ UNCHANGED <<driver, end, pos, seoi, put, fifo>> /\ signals' = signals + 1
        /\ \/ pc' \notin ByByte /\ (pc' \notin OnFifo \/ pc \in OnFifo)
           \/ pc \in ByByte /\ pc' \notin OnFifo
    BY <1>18 DEF AccelSignal, Interruptible, accel, chip, ByByte, OnFifo
  <2>2. pc \in ByByte => driver \in OnTms9914
    BY Ahead, WaysApart DEF Types, PartsInv, InPart
  <2>3. Fed' = Fed /\ signals' # signals
    BY <1>1, <2>1 DEF Fed
  <2> QED
    BY <1>2, <2>1, <2>2, <2>3 DEF Armed
<1>19. CASE Feed
  <2>1. /\ UNCHANGED <<driver, signals, end, pos>> /\ ~seoi' /\ pc' \notin ByByte
    BY <1>19, Feeds DEF counts, OnFifo, ByByte
  <2> QED
    BY <1>2, <2>1
<1>20. CASE BesideNow
  <2>1. UNCHANGED <<driver, signals, end, pos, seoi, pc, parts, put, eoi, fifo>>
    BY <1>20 DEF BesideNow, accel
  <2>2. Fed' = Fed /\ part' = part
    BY <2>1 DEF Fed, part
  <2> QED
    BY <1>2, <2>1, <2>2 DEF Armed
<1> QED
  BY <1>7, <1>8, <1>9, <1>10, <1>11, <1>12, <1>13, <1>14, <1>15, <1>16, <1>17, <1>18, <1>19, <1>20, WritingSteps

-----------------------------------------------------------------------------
(* Steps that give no byte to the chip, and take none.                       *)

Quiet ==
  \/ CallWrite \/ Waits \/ Arm \/ Restarted \/ FillFifo \/ PioPart \/ TmsWrite \/ AccelSignal
  \/ /\ (WriteBegin /\ (driver = "nec7210" \/ parts # <<>>)) \/ SendSeoi \/ WriteReturn \/ WriteStop
          \/ Signal \/ Restart
     /\ UNCHANGED accel

LEMMA QuietSteps ==
  ASSUME pc \in Writing, AccelNext
  PROVE  \/ Quiet \/ Load \/ StopPart \/ TmsPut \/ TmsDrain
         \/ (PioWaits /\ UNCHANGED accel) \/ (PioPut /\ UNCHANGED accel) \/ Feed \/ BesideNow
BY WritingSteps DEF Quiet, InWrite

LEMMA QuietFrame ==
  ASSUME pc \in Writing, Types, PartsInv, Sums, Progress, FifoInv, Quiet
  PROVE  /\ UNCHANGED <<driver, end, pos, skew, out, accepted, heard_end, gap, errors, atns, ints, atn, status>>
              \/ (Arm /\ UNCHANGED <<driver, end, pos, skew, out, accepted, heard_end, gap, errors, atns, atn, status>>)
         /\ signals' = signals \/ signals' = signals + 1
         /\ Front' = Front /\ Newest' = Newest
         /\ pc' = "w_wait" => last' = pos
         /\ pc' \in OnFifo => Fed' = 0 \/ (pc \in OnFifo /\ Fed' = Fed)
<1>1. pos \in Nat /\ skew \in Nat /\ put \in Nat /\ Base \in Nat
  BY LengthAssumption DEF Types, Base
<1>2. ASSUME UNCHANGED <<pos, skew, out, accepted>>, pc \notin OnFifo, pc' \notin OnFifo
      PROVE  Front' = Front /\ Newest' = Newest
  BY <1>2 DEF Front, Newest, Base
<1>3. ASSUME UNCHANGED <<pos, skew, out, accepted, put, fifo>>, pc \in OnFifo, pc' \in OnFifo
      PROVE  Front' = Front /\ Newest' = Newest /\ Fed' = Fed
  BY <1>3 DEF Front, Newest, Base, Fed
<1>4. CASE CallWrite \/ PioPart
  <2>1. /\ UNCHANGED <<driver, end, pos, skew, out, accepted, heard_end, gap, errors, atns, ints, atn, status, signals>>
        /\ pc \notin OnFifo /\ pc' \notin OnFifo /\ pc' # "w_wait"
    BY <1>4 DEF CallWrite, PioPart, Goto, accel, chip, bus, counts, OnFifo
  <2> QED
    BY <1>2, <2>1
<1>5. CASE Waits
  <2>1. /\ driver \in Accelerated /\ pc \in InPart
    BY <1>5, OnBoard DEF InPart, OnFifo, ByByte, Waits, PartBegin, FillFails, PartSent, LastByteSent, TmsWait, Wait
  <2>2. /\ UNCHANGED <<driver, end, pos, skew, out, accepted, heard_end, gap, errors, atns, ints, atn, status, signals>>
        /\ UNCHANGED <<put, fifo>>
    BY <1>5, <2>1, HowWaitsEnd DEF Waited, accel, bus, counts
  <2>3. (pc \in OnFifo /\ pc' \in OnFifo) \/ (pc \notin OnFifo /\ pc' \notin OnFifo)
    BY <1>5, <2>1, HowWaitsEnd DEF OnFifo
  <2>4. pc' # "w_wait"
    BY <1>5, <2>1, HowWaitsEnd
  <2> QED
    BY <1>2, <1>3, <2>2, <2>3, <2>4
<1>6. CASE Arm
  <2>1. /\ UNCHANGED <<driver, end, pos, skew, out, accepted, heard_end, gap, errors, atns, atn, status, signals>>
        /\ pc \notin OnFifo
    BY <1>6 DEF Arm, bus, counts, OnFifo
  <2>2. pc' \in OnFifo /\ pc' # "w_wait" /\ put' = Len(fifo') /\ Len(fifo') \in Nat
    BY <1>6, Armings, LenProperties DEF OnFifo
  <2>3. Fed' = 0
    BY <2>2 DEF Fed
  <2>4. Base' = Base
    BY <2>1 DEF Base
  <2>5. Front' = Base + 0 /\ Front = Base
    BY <2>1, <2>2, <2>3, <2>4 DEF Front
  <2>6. Front' = Front
    BY <1>1, <2>5
  <2>7. Newest' = Newest
    BY <2>1 DEF Newest
  <2> QED
    BY <1>6, <2>1, <2>2, <2>3, <2>6, <2>7
<1>7. CASE Restarted
  <2>1. /\ UNCHANGED <<driver, end, pos, skew, out, accepted, heard_end, gap, errors, atns, ints, atn, status, signals>>
        /\ UNCHANGED <<put, fifo>> /\ pc \in OnFifo /\ pc' \in OnFifo /\ pc' # "w_wait"
    BY <1>7 DEF Restarted, Goto, chip, bus, counts, OnFifo
  <2> QED
    BY <1>3, <2>1
<1>8. CASE FillFifo
  <2>1. /\ UNCHANGED <<driver, end, pos, skew, out, accepted, heard_end, gap, errors, atns, ints, atn, status, signals>>
        /\ pc \in OnFifo /\ pc' \in OnFifo /\ pc' # "w_wait"
    BY <1>8 DEF FillFifo, chip, bus, counts, OnFifo
  <2>2. Fed' = Fed
    BY <1>8, FillKeeps
  <2>3. Front' = Front /\ Newest' = Newest
    BY <2>1, <2>2 DEF Front, Newest, Base
  <2> QED
    BY <2>1, <2>2, <2>3
<1>9. CASE TmsWrite
  <2>1. /\ UNCHANGED <<driver, end, pos, skew, out, accepted, heard_end, gap, errors, atns, ints, atn, status, signals>>
        /\ pc \notin OnFifo /\ pc' \notin OnFifo /\ pc' # "w_wait"
    BY <1>9 DEF TmsWrite, bus, counts, OnFifo
  <2> QED
    BY <1>2, <2>1
<1>10. CASE AccelSignal
  <2>1. /\ UNCHANGED <<driver, end, pos, skew, out, accepted, heard_end, gap, errors, atns, ints, atn, status>>
        /\ UNCHANGED <<put, fifo>> /\ pc' # "w_wait" /\ signals' = signals + 1
        /\ (pc \in OnFifo /\ pc' \in OnFifo) \/ (pc \notin OnFifo /\ pc' \notin OnFifo)
    BY <1>10 DEF AccelSignal, Interruptible, accel, chip, bus, OnFifo
  <2> QED
    BY <1>2, <1>3, <2>1
<1>11. ASSUME WriteBegin \/ SendSeoi \/ WriteReturn \/ WriteStop, UNCHANGED accel
       PROVE  /\ UNCHANGED <<driver, end, pos, skew, out, accepted, heard_end, gap, errors, atns, ints, atn, status, signals>>
              /\ pc \notin OnFifo /\ pc' \notin OnFifo /\ (pc' = "w_wait" => last' = pos)
  <2>1. CASE WriteBegin \/ SendSeoi
    BY <1>11, <2>1 DEF WriteBegin, SendSeoi, Goto, accel, chip, bus, counts, OnFifo
  <2>2. CASE WriteReturn \/ WriteStop
    BY <1>11, <2>2 DEF WriteReturn, WriteStop, Goto, accel, chip, bus, counts, OnFifo
  <2> QED
    BY <1>11, <2>1, <2>2
<1>12. ASSUME Signal \/ Restart, UNCHANGED accel
       PROVE  /\ UNCHANGED <<driver, end, pos, skew, out, accepted, heard_end, gap, errors, atns, ints, atn, status>>
              /\ pc \notin OnFifo /\ pc' \notin OnFifo /\ pc' # "w_wait" /\ (signals' = signals \/ signals' = signals + 1)
  BY <1>12 DEF Signal, Restart, Goto, accel, chip, bus, counts, OnFifo
<1> QED
  BY <1>2, <1>4, <1>5, <1>6, <1>7, <1>8, <1>9, <1>10, <1>11, <1>12 DEF Quiet

\* The byte in the chip, and the one that the listener took last.
OutHasEoi ==
  out # NoByte => out.byte > 0 /\ (out.eoi <=> (out.byte = Length /\ end)) /\ accepted <= out.byte
HeardEoi == heard_end <=> (accepted = Length /\ end)
Resendable ==
  pc = "w_wait" /\ last < pos =>
    /\ out # NoByte => "BUS_ERROR" \notin state /\ "ERR" \notin ints /\ accepted <= last
    /\ "BUS_ERROR" \in state \/ "ERR" \in ints => accepted <= last

LEMMA EoiNamed == Eoi <=> (Straight => OutHasEoi /\ HeardEoi /\ Newest <= Front /\ Resendable)
BY DEF Eoi, OutHasEoi, HeardEoi, Resendable

\* What is newest once a byte is in the chip, with EOI only if it is the last.
LEMMA OutNow ==
  ASSUME NEW b \in Nat, b > 0, NEW e \in BOOLEAN, out' = [byte |-> b, eoi |-> e]
  PROVE  out' # NoByte /\ Newest' = b /\ out'.byte = b /\ (out'.eoi <=> e)
BY DEF NoByte, Newest

\* The part that ends the transfer, if the write goes straight.
LEMMA LastPart ==
  ASSUME Types, PartsInv, Sums, Returned, pc \in InPart, Straight
  PROVE  /\ skew = 0 /\ part.n \in Nat \ {0} /\ part.eoi \in BOOLEAN
         /\ Start + part.n <= Length
         /\ Start + part.n = Length /\ end => Len(parts) = 1 /\ eoi
         /\ Len(parts) = 1 /\ eoi => Start + part.n = Length /\ end
         /\ EoiLast(parts, eoi) => (part.eoi <=> Len(parts) = 1 /\ eoi)
<1>1. PICK to \in 0 .. Length :
        /\ part.n \in Nat \ {0} /\ part.eoi \in BOOLEAN /\ Start \in 0 .. to
        /\ Len(parts) = 1 <=> Start + part.n = to
        /\ Start + part.n <= to
        /\ eoi <=> (to = Length /\ end)
  BY Ahead, LengthAssumption
<1>2. skew = 0
  BY DEF Returned, Returning, InPart, OnFifo, ByByte
<1>3. EoiLast(parts, eoi) => (part.eoi <=> Len(parts) = 1 /\ eoi)
  <2>1. pc \in InPart => parts # <<>>
    BY DEF PartsInv
  <2> QED
    BY <2>1, TailParts DEF PartsInv, part
<1> DEFINE n == part.n
           s == Start
<1>4. n \in Nat \ {0} /\ s \in Nat /\ s + n <= to /\ Length \in Nat /\ to <= Length
      /\ (Len(parts) = 1 <=> s + n = to) /\ part.eoi \in BOOLEAN
  BY <1>1, LengthAssumption
<1> HIDE DEF n, s
<1>5. s + n <= Length /\ (s + n = Length => to = Length)
  BY <1>4
<1>6. s + n = Length /\ end => Len(parts) = 1 /\ eoi
  BY <1>1, <1>4, <1>5
<1>7. Len(parts) = 1 /\ eoi => s + n = Length /\ end
  BY <1>1, <1>4
<1> QED
  BY <1>2, <1>3, <1>4, <1>5, <1>6, <1>7 DEF n, s

LEMMA EoiStep ==
  ASSUME pc \in Writing, Types, PartsInv, Still, Sums, EoiInv, Progress, FifoInv, Pio, Returned, Bits,
         Armed, Eoi, AccelNext
  PROVE  Eoi'
<1>1. /\ pos \in Nat /\ skew \in Nat /\ goal \in Nat /\ goal <= Length /\ Length \in Nat /\ Length > 0
      /\ put \in Nat /\ last \in Nat /\ accepted \in Nat /\ accepted <= Length
      /\ out.byte \in Nat /\ out.byte <= Length /\ out.eoi \in BOOLEAN /\ Newest \in Nat
  BY LengthAssumption DEF Types, Newest
<1>2. /\ Straight => OutHasEoi /\ HeardEoi /\ Newest <= Front /\ Resendable
      /\ Eoi' <=> (Straight' => OutHasEoi' /\ HeardEoi' /\ Newest' <= Front' /\ Resendable')
  <2>1. Eoi' <=> (Straight' => OutHasEoi' /\ HeardEoi' /\ Newest' <= Front' /\ Resendable')
    BY DEF Eoi, OutHasEoi, HeardEoi, Resendable
  <2> QED
    BY <2>1, EoiNamed
<1>3. ASSUME UNCHANGED driver, signals' = signals \/ signals' = signals + 1,
             Straight => OutHasEoi' /\ HeardEoi' /\ Newest' <= Front' /\ Resendable'
      PROVE  Eoi'
  BY <1>2, <1>3, StraightBefore
<1>4. ASSUME UNCHANGED <<driver, end, out, accepted, heard_end>>, signals' = signals \/ signals' = signals + 1,
             Straight => Front <= Front' /\ Resendable', Front \in Nat, Front' \in Nat
      PROVE  Eoi'
  <2>1. Newest' = Newest
    BY <1>4 DEF Newest
  <2>2. Straight => OutHasEoi' /\ HeardEoi'
    BY <1>2, <1>4 DEF OutHasEoi, HeardEoi
  <2>3. Straight => Newest <= Front'
    BY <1>1, <1>2, <1>4
  <2> QED
    BY <1>3, <1>4, <2>1, <2>2, <2>3
<1>5. Front \in Nat /\ Fed \in Nat
  <2>1. Base \in Nat
    BY <1>1 DEF Base
  <2>2. pc \in OnFifo => Fed \in Nat
    BY <1>1, LenProperties DEF FifoInv, Fed
  <2>3. pc \notin OnFifo => Fed \in Nat
    BY <1>1, EmptySeq DEF Still, Fed
  <2> QED
    BY <2>1, <2>2, <2>3 DEF Front
<1>6. CASE Quiet
  <2>1. /\ UNCHANGED <<driver, end, pos, skew, out, accepted, heard_end>>
        /\ signals' = signals \/ signals' = signals + 1
        /\ Front' = Front
        /\ pc' = "w_wait" => last' = pos
    BY <1>6, QuietFrame
  <2>2. Resendable'
    <3>1. pc' = "w_wait" => ~(last' < pos')
      BY <1>1, <2>1
    <3> QED
      BY <3>1 DEF Resendable
  <2>3. Front <= Front
    BY <1>5
  <2> QED
    BY <1>4, <1>5, <2>1, <2>2, <2>3
<1>7. CASE Load
  <2>1. /\ UNCHANGED <<driver, end, out, accepted, heard_end, signals, pos>> /\ skew' = 0
        /\ pc = "w_load" /\ pc' = "w_begin"
    BY <1>7 DEF Load, WriteLoad, Goto, chip, bus, counts
  <2>2. Straight => skew = 0
    BY <2>1 DEF Returned, Returning
  <2>3. Base' = pos + 0 /\ Front' = Base' /\ Front = pos + skew
    BY <2>1 DEF Front, Base, OnFifo
  <2>4. Front' \in Nat /\ (Straight => Front <= Front')
    BY <1>1, <2>2, <2>3
  <2>5. Resendable'
    BY <2>1 DEF Resendable
  <2> QED
    BY <1>4, <1>5, <2>1, <2>4, <2>5
<1>8. CASE StopPart
  <2> DEFINE n == part.n
             c == Counted
             l == Len(fifo)
  <2>1. /\ UNCHANGED <<driver, end, out, accepted, heard_end, signals>> /\ pos' = pos + c
        /\ skew' = (IF driver \in Indexed THEN skew + n - c ELSE skew)
        /\ pc = "a_stop" /\ pc' \in {"a_part", "w_ret"} /\ pc \in OnFifo /\ pc \in InPart
    BY <1>8 DEF StopPart, PartEnds, chip, bus, counts, OnFifo, InPart
  <2>2. /\ c \in Nat /\ l \in Nat /\ driver \in Accelerated \ {"tms9914"} /\ n \in Nat /\ put <= n /\ l <= put
    <3>1. n \in Nat /\ put <= n /\ l <= put
      BY <2>1, Ahead, LengthAssumption DEF Progress, FifoInv
    <3>2. Counted \in 0 .. part.n /\ Len(fifo) \in Nat /\ driver \in Accelerated \ {"tms9914"}
      <4> HIDE DEF n, c, l
      <4> QED
        BY <2>1, CountedOfPart
    <3> HIDE DEF n
    <3>3. c \in 0 .. n
      BY <3>2 DEF n
    <3> HIDE DEF c
    <3>4. c \in Nat
      BY <3>1, <3>3
    <3> QED
      BY <3>1, <3>2, <3>4
  <2>3. c = IF driver = "ines" THEN n - l ELSE IF driver = "cb7210" THEN put ELSE put - l
    BY <2>2, TraitOfDriver DEF Counted
  <2>4. Front = pos + skew + (put - l) /\ Front' = pos' + skew'
    BY <2>1 DEF Front, Base, Fed, OnFifo
  <2> HIDE DEF n, c, l
  <2>5. Front' = IF driver \in Indexed THEN (pos + c) + (skew + n - c) ELSE (pos + c) + skew
    BY <2>1, <2>4
  <2>6. Front' \in Nat /\ Front <= Front'
    BY <1>1, <2>2, <2>3, <2>4, <2>5
  <2>7. Resendable'
    BY <2>1 DEF Resendable
  <2> QED
    BY <1>4, <1>5, <2>1, <2>6, <2>7
<1>9. CASE TmsPut
  <2>1. /\ pc = "b_put" /\ pc' \in {"b_wait", "b_drain"} /\ UNCHANGED <<driver, signals, end, eoi, parts, skew>>
        /\ pos' = pos + 1 /\ UNCHANGED <<accepted, heard_end>>
        /\ out' = [byte |-> pos + skew + 1, eoi |-> seoi]
    BY <1>9 DEF TmsPut, Goto, bus, counts
  <2>2. pc \in InPart /\ pc \in ByByte /\ pc \notin OnFifo /\ pc' \notin OnFifo /\ pc' # "w_wait"
    BY <2>1 DEF InPart, ByByte, OnFifo
  <2>3. driver \in OnTms9914
    BY <2>2, Ahead, WaysApart DEF Types, PartsInv
  <2>4. out = NoByte
    BY <2>1 DEF Bits
  <2> SUFFICES ASSUME Straight PROVE OutHasEoi' /\ HeardEoi' /\ Newest' <= Front' /\ Resendable'
    BY <1>3, <2>1
  <2>5. signals = 0 /\ skew = 0
    BY <2>2, <2>3, LastPart DEF Straight
  <2>6. Newest = accepted /\ Front = pos + 0 /\ Newest <= Front
    <3>1. Newest = accepted /\ Front = pos + 0
      BY <2>2, <2>4, <2>5 DEF Newest, Front, Base
    <3> QED
      BY <1>2, <3>1
  <2>7. accepted <= pos + 1
    BY <1>1, <2>6
  <2>8. seoi <=> (pos + 1 = Length /\ end)
    <3>1. seoi => pos + 1 = Length /\ end
      BY DEF Armed
    <3>2. ASSUME pos + 1 = Length, end PROVE seoi
      <4> DEFINE n == part.n
                 e == IF part.eoi THEN 1 ELSE 0
      <4>1. n \in Nat \ {0} /\ (pos - put) + n <= Length
            /\ ((pos - put) + n = Length /\ end => Len(parts) = 1 /\ eoi)
        <5>1. Start = pos - put
          BY <1>1, <2>2, <2>5 DEF Start, Base
        <5> QED
          BY <2>2, <5>1, LastPart
      <4>2. pos < goal /\ goal - pos + e = n - put
        BY <2>1, <2>2, <2>5 DEF Progress
      <4>3. e = 0 \/ (e = 1 /\ part.eoi)
        OBVIOUS
      <4>4. e = 0 => ~part.eoi
        OBVIOUS
      <4> HIDE DEF n, e
      <4>5. e = 0 /\ n - put = 1 /\ (pos - put) + n = Length
        BY <1>1, <3>2, <4>1, <4>2, <4>3
      <4>6. Len(parts) = 1 /\ eoi /\ ~part.eoi /\ put # n
        BY <1>1, <3>2, <4>1, <4>4, <4>5
      <4> QED
        BY <2>2, <4>6 DEF Armed, n
    <3> QED
      BY <3>1, <3>2
  <2>9. out' = [byte |-> pos + 1, eoi |-> seoi]
    <3>1. pos + skew + 1 = pos + 1
      BY <1>1, <2>5
    <3> QED
      BY <2>1, <3>1
  <2> DEFINE b == pos + 1
  <2>10. b \in Nat /\ b > 0 /\ out' = [byte |-> b, eoi |-> seoi] /\ seoi \in BOOLEAN /\ accepted <= b
    BY <1>1, <2>7, <2>9 DEF Types
  <2>11. Front' = b
    <3>1. pos' + skew' = b
      BY <1>1, <2>1, <2>5
    <3> QED
      BY <2>2, <3>1 DEF Front, Base
  <2>12. seoi <=> (b = Length /\ end)
    BY <2>8
  <2> HIDE DEF b
  <2>13. out' # NoByte /\ Newest' = b /\ out'.byte = b /\ (out'.eoi <=> seoi)
    BY <2>10, OutNow
  <2>14. OutHasEoi'
    BY <2>1, <2>10, <2>12, <2>13 DEF OutHasEoi
  <2>15. HeardEoi'
    BY <1>2, <2>1 DEF HeardEoi
  <2>16. Newest' <= Front'
    BY <2>10, <2>11, <2>13
  <2> QED
    BY <2>2, <2>14, <2>15, <2>16 DEF Resendable
<1>10. CASE TmsDrain
  <2> DEFINE n == part.n
  <2>1. /\ pc = "b_drain" /\ UNCHANGED <<driver, signals, end, pos, out, accepted, heard_end>>
        /\ skew' = skew \/ skew' = skew + n - put
        /\ pc' \in {"b_wait", "a_part", "w_ret"}
    BY <1>10 DEF TmsDrain, PartEnds, bus, counts
  <2>2. put <= n /\ n \in Nat
    BY <2>1, Ahead, LengthAssumption DEF Progress, InPart, ByByte
  <2>3. Front = pos + skew /\ Front' = pos' + skew'
    BY <2>1 DEF Front, Base, OnFifo
  <2> HIDE DEF n
  <2>4. skew' \in Nat /\ skew <= skew'
    BY <1>1, <2>1, <2>2
  <2>5. Front' = pos + skew'
    BY <2>1, <2>3
  <2>6. Front' \in Nat /\ Front <= Front'
    <3>1. ASSUME NEW k \in Nat, skew <= k PROVE pos + k \in Nat /\ pos + skew <= pos + k
      BY <1>1, <3>1
    <3> QED
      BY <2>3, <2>4, <2>5, <3>1
  <2>7. Resendable'
    BY <2>1 DEF Resendable
  <2> QED
    BY <1>4, <1>5, <2>1, <2>6, <2>7
<1>11. ASSUME PioWaits, UNCHANGED accel PROVE Eoi'
  <2>1. /\ UNCHANGED <<driver, skew, signals, end, last, out, accepted, heard_end>> /\ pc \notin OnFifo /\ pc' \notin OnFifo
        /\ pc' = "w_wait" => pos' = last
        /\ pos' = pos \/ (pc = "w_wait" /\ "BUS_ERROR" \in state /\ pos' = last)
        /\ pc \in InPio
    BY <1>11, HowPioWaitsEnd DEF Types, bus, counts, accel, OnFifo, InPio
  <2>2. skew = 0
    BY <2>1, InNecWrite
  <2>3. Resendable'
    <3>1. pc' = "w_wait" => ~(last' < pos')
      BY <1>1, <2>1
    <3> QED
      BY <3>1 DEF Resendable
  <2>4. Newest' = Newest
    BY <2>1 DEF Newest
  <2>5. Front = pos + 0
    BY <2>1, <2>2 DEF Front, Base
  <2>6. Front' = pos' + 0
    BY <2>1, <2>2 DEF Front, Base
  <2>7. Straight => OutHasEoi' /\ HeardEoi'
    BY <1>2, <2>1 DEF OutHasEoi, HeardEoi
  <2>8. Straight => Newest <= Front'
    <3>1. CASE pos' = pos
      BY <1>2, <2>5, <2>6, <3>1
    <3>2. CASE pc = "w_wait" /\ "BUS_ERROR" \in state /\ pos' = last
      <4>1. last <= pos
        BY <3>2 DEF Pio
      <4>2. Straight => last = pos \/ Newest <= last
        <5>1. CASE last < pos
          BY <1>2, <3>2, <5>1 DEF Resendable, Newest
        <5> QED
          BY <1>1, <4>1, <5>1
      <4>3. Straight => Newest <= last
        BY <1>1, <1>2, <2>5, <4>2
      <4>4. Front' = last
        <5>1. Front' = last + 0
          BY <2>6, <3>2
        <5> QED
          BY <1>1, <5>1
      <4> QED
        BY <4>3, <4>4
    <3> QED
      BY <2>1, <3>1, <3>2
  <2> QED
    BY <1>3, <2>1, <2>3, <2>4, <2>7, <2>8
<1>12. ASSUME PioPut, UNCHANGED accel PROVE Eoi'
  <2>1. /\ pc = "w_put" /\ pc' \in {"w_wait", "w_drain"} /\ UNCHANGED <<driver, skew, signals, end>>
        /\ pos' = pos + 1 /\ last' = pos /\ UNCHANGED <<accepted, heard_end, ints>>
        /\ out' = [byte |-> pos + 1, eoi |-> seoi] /\ "BUS_ERROR" \notin state'
        /\ pc \in InPio /\ pc \notin OnFifo /\ pc' \notin OnFifo
    BY <1>12 DEF PioPut, Goto, bus, counts, accel, InPio, OnFifo
  <2>2. skew = 0 /\ "WRITE_READY" \in state
    BY <2>1, InNecWrite DEF Bits
  <2>3. out = NoByte /\ "ERR" \notin ints
    BY <2>2 DEF Bits
  <2> SUFFICES ASSUME Straight PROVE OutHasEoi' /\ HeardEoi' /\ Newest' <= Front' /\ Resendable'
    BY <1>3, <2>1
  <2>6. Newest = accepted /\ Front = pos + 0 /\ Newest <= Front
    BY <1>2, <2>1, <2>2, <2>3 DEF Newest, Front, Base
  <2>7. accepted <= pos
    BY <1>1, <2>6
  <2>8. seoi <=> (pos + 1 = Length /\ end)
    <3>1. seoi => pos + 1 = Length /\ end
      BY DEF Armed
    <3>2. pos < goal
      BY <2>1 DEF Pio
    <3>3. ~eoi => (seoi <=> (goal = Length /\ end))
      BY <2>1 DEF Pio
    <3>4. eoi => goal + 1 = Length
      BY <2>1 DEF Pio
    <3>5. pos + 1 = Length => goal = Length /\ ~eoi
      BY <1>1, <3>2, <3>4
    <3> QED
      BY <3>1, <3>3, <3>5
  <2> DEFINE b == pos + 1
  <2>10. b \in Nat /\ b > 0 /\ out' = [byte |-> b, eoi |-> seoi] /\ seoi \in BOOLEAN /\ accepted <= b
    BY <1>1, <2>1, <2>7 DEF Types
  <2>11. Front' = b
    <3>1. pos' + skew' = b
      BY <1>1, <2>1, <2>2
    <3> QED
      BY <2>1, <3>1 DEF Front, Base
  <2>12. seoi <=> (b = Length /\ end)
    BY <2>8
  <2> HIDE DEF b
  <2>13. out' # NoByte /\ Newest' = b /\ out'.byte = b /\ (out'.eoi <=> seoi)
    BY <2>10, OutNow
  <2>14. OutHasEoi'
    BY <2>1, <2>10, <2>12, <2>13 DEF OutHasEoi
  <2>15. HeardEoi'
    BY <1>2, <2>1 DEF HeardEoi
  <2>16. Newest' <= Front'
    BY <2>10, <2>11, <2>13
  <2>17. Resendable'
    <3>1. accepted' <= last' /\ "ERR" \notin ints' /\ "BUS_ERROR" \notin state'
      BY <2>1, <2>3, <2>7
    <3> QED
      BY <3>1 DEF Resendable
  <2> QED
    BY <2>14, <2>15, <2>16, <2>17
<1>13. CASE Feed
  <2> DEFINE n == part.n
             f == Fed
  <2>1. /\ pc \in OnFifo /\ pc' = pc /\ UNCHANGED <<driver, parts, pos, skew, end, signals, accepted, heard_end>>
        /\ out = NoByte /\ f \in Nat /\ Fed' = f + 1 /\ Len(fifo) \in Nat \ {0}
        /\ out'.byte = Base + f + 1 /\ (out'.eoi <=> (seoi \/ (part.eoi /\ f + 1 = n)))
    BY <1>13, Feeds DEF bus, counts
  <2>2. pc \in InPart /\ pc \notin ByByte /\ pc # "w_wait"
    BY <2>1 DEF InPart, ByByte, OnFifo
  <2> SUFFICES ASSUME Straight PROVE OutHasEoi' /\ HeardEoi' /\ Newest' <= Front' /\ Resendable'
    BY <1>3, <2>1
  <2>3. /\ skew = 0 /\ n \in Nat \ {0} /\ Start + n <= Length
        /\ Start + n = Length /\ end => Len(parts) = 1 /\ eoi
        /\ Len(parts) = 1 /\ eoi => Start + n = Length /\ end
        /\ part.eoi <=> Len(parts) = 1 /\ eoi
    BY <2>2, LastPart DEF EoiInv
  <2>4. Start = pos /\ Base = pos
    BY <1>1, <2>2, <2>3 DEF Start, Base
  <2>5. Newest = accepted /\ Front = pos + f /\ Newest <= Front
    BY <1>2, <2>1, <2>4 DEF Newest, Front
  <2>6. f + 1 <= n
    <3>1. put <= n /\ f = put - Len(fifo)
      BY <2>1 DEF Progress, Fed
    <3> HIDE DEF n, f
    <3> QED
      BY <1>1, <2>1, <2>3, <3>1
  <2>7. seoi => f = 0 /\ pos + 1 = Length /\ end
    BY <2>1 DEF Armed
  <2> DEFINE b == pos + f + 1
  <2>8. b \in Nat /\ b > 0 /\ accepted <= b /\ out'.byte = b
    BY <1>1, <2>1, <2>4, <2>5
  <2>9. (seoi \/ (part.eoi /\ f + 1 = n)) <=> (b = Length /\ end)
    <3>1. seoi => b = Length /\ end
      BY <1>1, <2>7
    <3>2. part.eoi /\ f + 1 = n => b = Length /\ end
      <4>1. part.eoi => pos + n = Length /\ end
        BY <2>3, <2>4
      <4> HIDE DEF n, f
      <4>2. f + 1 = n => b = pos + n
        BY <1>1, <2>1, <2>3
      <4> QED
        BY <4>1, <4>2
    <3>3. b = Length /\ end => part.eoi /\ f + 1 = n
      <4>1. pos + n <= Length /\ (pos + n = Length /\ end => part.eoi)
        BY <2>3, <2>4
      <4> HIDE DEF n, f
      <4>2. b = Length => f + 1 = n /\ pos + n = Length
        BY <1>1, <2>1, <2>3, <2>6, <4>1
      <4> QED
        BY <4>1, <4>2
    <3> QED
      BY <3>1, <3>2, <3>3
  <2>10. Front' = b
    <3>1. Front' = Base' + Fed' /\ Base' = Base
      BY <2>1 DEF Front, Base
    <3>2. Front' = pos + (f + 1)
      BY <2>1, <2>4, <3>1
    <3> HIDE DEF f
    <3> QED
      BY <1>1, <2>1, <3>2
  <2>11. out'.eoi <=> (b = Length /\ end)
    BY <2>1, <2>9
  <2> HIDE DEF b
  <2>12. out' # NoByte
    BY <2>8 DEF NoByte
  <2>13. Newest' = b
    BY <2>8, <2>12 DEF Newest
  <2>14. OutHasEoi'
    BY <2>1, <2>8, <2>11 DEF OutHasEoi
  <2>15. HeardEoi'
    BY <1>2, <2>1 DEF HeardEoi
  <2>16. Newest' <= Front'
    BY <2>8, <2>10, <2>13
  <2> QED
    BY <2>1, <2>2, <2>14, <2>15, <2>16 DEF Resendable
<1>14. CASE BesideNow
  <2>1. UNCHANGED <<driver, signals, end, pos, pc, last, skew, put, fifo>>
    BY <1>14 DEF BesideNow, accel
  <2>2. Front' = Front
    BY <2>1 DEF Front, Base, Fed
  <2> SUFFICES ASSUME Straight PROVE OutHasEoi' /\ HeardEoi' /\ Newest' <= Front' /\ Resendable'
    BY <1>3, <2>1
  <2>3. ASSUME UNCHANGED <<out, accepted, heard_end>>, "BUS_ERROR" \in state' \/ "ERR" \in ints' <=> "BUS_ERROR" \in state \/ "ERR" \in ints
        PROVE  OutHasEoi' /\ HeardEoi' /\ Newest' <= Front' /\ Resendable'
    <3>1. Newest' = Newest
      BY <2>3 DEF Newest
    <3>2. OutHasEoi' /\ HeardEoi'
      BY <1>2, <2>1, <2>3 DEF OutHasEoi, HeardEoi
    <3>3. Resendable'
      BY <1>2, <2>1, <2>3 DEF Resendable
    <3> QED
      BY <1>2, <2>2, <3>1, <3>2, <3>3
  <2>4. CASE RaiseFreeDO \/ DeviceClear \/ ChangeNecAtn \/ Expire \/ WatchdogTimeout
    BY <2>3, <2>4 DEF RaiseFreeDO, RaiseDO, DeviceClear, ChangeNecAtn, ChangeAtn, Expire, WatchdogTimeout, chip, bus
  <2>5. CASE Interrupt
    <3>1. UNCHANGED <<out, accepted, heard_end>> /\ ints' = {}
          /\ ("BUS_ERROR" \in state' <=> "BUS_ERROR" \in state \/ "ERR" \in ints)
      BY <2>5, InterruptNotes DEF bus
    <3> QED
      BY <2>3, <3>1
  <2>6. CASE Accept
    <3>1. /\ out # NoByte /\ accepted' = out.byte /\ (heard_end' <=> (heard_end \/ out.eoi)) /\ out' = NoByte
          /\ UNCHANGED <<state, ints>>
      BY <2>6 DEF Accept
    <3>2. OutHasEoi /\ HeardEoi /\ Newest <= Front /\ Resendable
      BY <1>2
    <3>3. Newest' = Newest
      BY <3>1 DEF Newest
    <3>4. out.eoi <=> (out.byte = Length /\ end)
      BY <3>1, <3>2 DEF OutHasEoi
    <3>5. accepted = Length => out.byte = Length
      BY <1>1, <3>1, <3>2 DEF OutHasEoi
    <3>6. HeardEoi'
      BY <2>1, <3>1, <3>2, <3>4, <3>5 DEF HeardEoi
    <3>7. OutHasEoi'
      BY <3>1 DEF OutHasEoi
    <3>8. Resendable'
      BY <2>1, <3>1, <3>2 DEF Resendable
    <3> QED
      BY <2>2, <3>2, <3>3, <3>6, <3>7, <3>8
  <2>7. CASE BusError
    <3>1. /\ out # NoByte /\ UNCHANGED <<accepted, heard_end, state>> /\ out' = NoByte
          /\ ints' = ints \cup {"ERR"}
      BY <2>7 DEF BusError, bus
    <3>2. OutHasEoi /\ HeardEoi /\ Newest <= Front /\ Resendable
      BY <1>2
    <3>3. Newest' = accepted /\ Newest = out.byte /\ accepted <= out.byte
      BY <3>1, <3>2 DEF Newest, OutHasEoi
    <3>4. accepted <= Front
      BY <1>1, <1>5, <3>2, <3>3
    <3>5. HeardEoi' /\ OutHasEoi'
      BY <2>1, <3>1, <3>2 DEF HeardEoi, OutHasEoi
    <3>6. Resendable'
      BY <2>1, <3>1, <3>2 DEF Resendable
    <3> QED
      BY <2>2, <3>3, <3>4, <3>5, <3>6
  <2> QED
    BY <1>14, <2>4, <2>5, <2>6, <2>7 DEF BesideNow, Beside
<1> QED
  BY <1>6, <1>7, <1>8, <1>9, <1>10, <1>11, <1>12, <1>13, <1>14, QuietSteps

-----------------------------------------------------------------------------
(* What a lost byte leaves behind.                                           *)

\* Where nothing is in the chip or has been lost since.
Settled == pc \in {"w_load", "w_begin", "w_eoi", "w_seoi"} \/ (pc \in {"w_ret", "w_stop"} /\ ret = "ok")
Clean == out = NoByte /\ "ERR" \notin ints /\ "BUS_ERROR" \notin state

\* A board with a nec7210 alone writes no parts.
LEMMA NecSteps ==
  ASSUME pc \in Writing, Types, PartsInv, Still, AccelNext, driver = "nec7210"
  PROVE  \/ Load \/ BesideNow
         \/ (InWrite \/ Signal \/ Restart) /\ UNCHANGED accel
<1>1. pc \notin InPart /\ driver \notin Accelerated
  BY OnBoard, WaysApart DEF Types
<1>2. ~Waits
  BY <1>1 DEF InPart, OnFifo, ByByte, Waits, PartBegin, FillFails, PartSent, LastByteSent, TmsWait, Wait
<1>3. ~CallWrite /\ ~Arm /\ ~Restarted /\ ~FillFifo /\ ~StopPart /\ ~PioPart
  BY <1>1 DEF CallWrite, Arm, Restarted, FillFifo, StopPart, PioPart, Goto, InPart, OnFifo, ByByte
<1>4. ~TmsWrite /\ ~TmsPut /\ ~TmsDrain /\ ~AccelSignal
  BY <1>1 DEF TmsWrite, TmsPut, TmsDrain, AccelSignal, Interruptible, Goto, InPart, OnFifo, ByByte
<1>5. ~Feed
  BY <1>1 DEF Feed, Still, InPart
<1> QED
  BY <1>2, <1>3, <1>4, <1>5, WritingSteps

LEMMA DriverStays == ASSUME pc \in Writing, Types, PartsInv, AccelNext PROVE driver' = driver
<1>1. CASE Waits
  <2>1. pc \in InPart
    BY <1>1 DEF InPart, OnFifo, ByByte, Waits, PartBegin, FillFails, PartSent, LastByteSent, TmsWait, Wait
  <2> QED
    BY <1>1, <2>1, OnBoard, HowWaitsEnd DEF Waited, accel
<1>2. CASE Load \/ CallWrite \/ Arm \/ Restarted \/ FillFifo \/ StopPart \/ PioPart
  BY <1>2 DEF Load, CallWrite, Arm, Restarted, FillFifo, StopPart, PioPart, accel
<1>3. CASE TmsWrite \/ TmsPut \/ TmsDrain \/ AccelSignal \/ Feed \/ BesideNow
  BY <1>3 DEF TmsWrite, TmsPut, TmsDrain, AccelSignal, Feed, BesideNow, accel
<1> QED
  BY <1>1, <1>2, <1>3, WritingSteps DEF accel

LEMMA ResendsStep ==
  ASSUME pc \in Writing, Types, PartsInv, Still, Returned, Bits, Resends, AccelNext
  PROVE  Resends'
<1>1. pos \in Nat /\ last \in Nat /\ signals \in Nat /\ atns \in Nat
  BY LengthAssumption DEF Types
<1>2. Resends <=> (driver = "nec7210" /\ signals = 0 /\ atns = 0 =>
        /\ ~atn /\ "ATN" \notin status
        /\ out # NoByte => "ERR" \notin ints /\ "BUS_ERROR" \notin state
        /\ "ERR" \in ints => "BUS_ERROR" \notin state
        /\ Settled => Clean
        /\ pc \in {"w_wait", "w_drain"} /\ ~Clean => pos = last + 1)
  BY DEF Resends, Settled, Clean
<1>3. Resends' <=> (driver' = "nec7210" /\ signals' = 0 /\ atns' = 0 =>
        /\ ~atn' /\ "ATN" \notin status'
        /\ out' # NoByte => "ERR" \notin ints' /\ "BUS_ERROR" \notin state'
        /\ "ERR" \in ints' => "BUS_ERROR" \notin state'
        /\ Settled' => Clean'
        /\ pc' \in {"w_wait", "w_drain"} /\ ~Clean' => pos' = last' + 1)
  BY DEF Resends, Settled, Clean
<1>4. driver' = driver
  BY DriverStays
<1> SUFFICES ASSUME driver = "nec7210", signals' = 0, atns' = 0 PROVE Resends'
  BY <1>3, <1>4
<1>5. ASSUME signals = 0, atns = 0, UNCHANGED <<out, ints, atn>>, state' \subseteq state, "ATN" \in status' => "ATN" \in status,
             Settled' => Clean', pc' \in {"w_wait", "w_drain"} /\ ~Clean' => pos' = last' + 1
      PROVE  Resends'
  BY <1>2, <1>3, <1>5
<1>6. CASE Load
  <2>1. /\ UNCHANGED <<out, ints, atn, state, signals, atns>> /\ pc = "w_load" /\ pc' = "w_begin"
        /\ "ATN" \in status' => "ATN" \in status
    BY <1>6 DEF Load, WriteLoad, StartTimer, Goto, chip, bus, counts
  <2>2. Clean
    BY <1>2, <2>1 DEF Settled
  <2> QED
    BY <1>5, <2>1, <2>2 DEF Clean
<1>7. CASE PioWaits /\ UNCHANGED accel
  <2>1. UNCHANGED <<out, ints, atn, status, signals, atns, last>> /\ state' \subseteq state
    BY <1>7, HowPioWaitsEnd DEF Types, bus, counts
  <2>2. /\ ~atn /\ "ATN" \notin status
        /\ out # NoByte => "ERR" \notin ints /\ "BUS_ERROR" \notin state
        /\ "ERR" \in ints => "BUS_ERROR" \notin state
        /\ Settled => Clean
    BY <1>2, <2>1
  <2>3. CASE (pc = "w_wait" /\ pc' = "w_put") \/ (ret' \in Errors /\ pc' = "w_ret")
    BY <1>5, <2>1, <2>3 DEF Settled, Errors
  <2>4. CASE pc = "w_eoi" /\ pc' = "w_seoi" /\ state' = state
    <3>1. Clean
      BY <2>2, <2>4 DEF Settled
    <3> QED
      BY <1>5, <2>1, <2>4, <3>1 DEF Clean
  <2>5. CASE pc = "w_drain" /\ state' = state /\ ("ATN" \in status \/ "WRITE_READY" \in state) /\ "BUS_ERROR" \notin state
    <3>1. Clean
      BY <2>2, <2>5 DEF Clean, Bits
    <3> QED
      BY <1>5, <2>1, <2>5, <3>1 DEF Clean
  <2>6. CASE pc' = "w_wait" /\ "BUS_ERROR" \in state /\ "BUS_ERROR" \notin state'
    <3>1. out = NoByte /\ "ERR" \notin ints
      BY <2>2, <2>6
    <3>2. Clean'
      BY <2>1, <2>6, <3>1 DEF Clean
    <3> QED
      BY <1>5, <2>1, <3>2
  <2>7. \/ (pc = "w_wait" /\ pc' = "w_put") \/ (ret' \in Errors /\ pc' = "w_ret")
        \/ pc = "w_eoi" /\ pc' = "w_seoi" /\ state' = state
        \/ pc = "w_drain" /\ state' = state /\ ("ATN" \in status \/ "WRITE_READY" \in state) /\ "BUS_ERROR" \notin state
        \/ pc' = "w_wait" /\ "BUS_ERROR" \in state /\ "BUS_ERROR" \notin state'
    <3>1. PioWaits /\ status \subseteq {"TIMO", "ATN"}
      BY <1>7 DEF Types
    <3> QED
      BY <3>1, HowPioWaitsEnd
  <2> QED
    BY <2>3, <2>4, <2>5, <2>6, <2>7
<1>8. CASE PioPut /\ UNCHANGED accel
  <2>1. /\ pc = "w_put" /\ pc' \in {"w_wait", "w_drain"} /\ pos' = pos + 1 /\ last' = pos
        /\ UNCHANGED <<ints, atn, status, signals, atns>> /\ "BUS_ERROR" \notin state'
    BY <1>8 DEF PioPut, Goto, bus, counts
  <2>2. "ERR" \notin ints /\ ~atn /\ "ATN" \notin status
    BY <1>2, <2>1 DEF Bits
  <2> QED
    BY <1>3, <2>1, <2>2 DEF Settled
<1>9. CASE (WriteBegin \/ SendSeoi) /\ UNCHANGED accel
  <2>1. /\ pc \in {"w_begin", "w_seoi"} /\ UNCHANGED <<out, ints, atn, status, signals, atns>> /\ state' \subseteq state
    BY <1>9 DEF WriteBegin, SendSeoi, Goto, chip, bus, counts
  <2>2. Clean'
    BY <1>2, <2>1 DEF Clean, Settled
  <2> QED
    BY <1>5, <2>1, <2>2
<1>10. CASE (WriteReturn \/ WriteStop) /\ UNCHANGED accel
  <2>1. /\ UNCHANGED <<out, ints, atn, status, signals, atns, state>>
        /\ \/ pc = "w_ret" /\ pc' = "w_stop" /\ (ret' = "ok" => ret = "ok")
           \/ pc = "w_stop" /\ pc' = "w_load" /\ ret = "ok"
           \/ pc = "w_stop" /\ pc' = "w_done"
    BY <1>10 DEF WriteReturn, WriteStop, Goto, chip, bus, counts
  <2>2. Settled' => Clean'
    BY <1>2, <2>1 DEF Clean, Settled
  <2>3. pc' \notin {"w_wait", "w_drain"}
    BY <2>1
  <2> QED
    BY <1>5, <2>1, <2>2, <2>3
<1>11. CASE Signal \/ Restart
  BY <1>1, <1>11 DEF Signal, Restart, Returned, counts
<1>12. CASE BesideNow
  <2>1. UNCHANGED <<pc, pos, last, ret, signals>> /\ (Settled' <=> Settled)
    BY <1>12 DEF BesideNow, Settled
  <2>2. CASE ChangeNecAtn
    BY <1>1, <2>2 DEF ChangeNecAtn, ChangeAtn
  <2>3. CASE Expire \/ WatchdogTimeout \/ RaiseFreeDO \/ DeviceClear
    <3>1. /\ UNCHANGED <<out, atn, state, atns>> /\ ("ERR" \in ints' <=> "ERR" \in ints)
          /\ "ATN" \in status' => "ATN" \in status
      BY <2>3 DEF Expire, WatchdogTimeout, RaiseFreeDO, RaiseDO, DeviceClear, chip, bus, counts
    <3>2. Clean' <=> Clean
      BY <3>1 DEF Clean
    <3> QED
      BY <1>2, <1>3, <2>1, <3>1, <3>2
  <2>4. CASE Accept
    <3>1. /\ UNCHANGED <<atn, state, atns, ints, status>> /\ out' = NoByte
      BY <2>4 DEF Accept, counts
    <3>2. Clean => Clean'
      BY <3>1 DEF Clean
    <3> QED
      BY <1>2, <1>3, <2>1, <3>1, <3>2
  <2>5. CASE BusError
    <3>1. /\ UNCHANGED <<atn, state, atns, status>> /\ out' = NoByte /\ out # NoByte /\ "ERR" \in ints'
      BY <2>5 DEF BusError, bus, counts
    <3>2. "BUS_ERROR" \notin state /\ ~Clean
      BY <1>2, <2>1, <3>1 DEF Clean
    <3> QED
      BY <1>2, <1>3, <2>1, <3>1, <3>2
  <2>6. CASE Interrupt
    <3>1. /\ UNCHANGED <<out, atn, atns>> /\ ints' = {} /\ ("ATN" \in status' <=> atn)
          /\ "BUS_ERROR" \in state' <=> "BUS_ERROR" \in state \/ "ERR" \in ints
      BY <2>6, InterruptNotes DEF bus, counts
    <3>2. Clean' <=> Clean
      BY <3>1 DEF Clean
    <3> QED
      BY <1>2, <1>3, <2>1, <3>1, <3>2
  <2> QED
    BY <1>12, <2>2, <2>3, <2>4, <2>5, <2>6 DEF BesideNow, Beside
<1> QED
  BY <1>6, <1>7, <1>8, <1>9, <1>10, <1>11, <1>12, NecSteps DEF InWrite

-----------------------------------------------------------------------------
(* No byte is missed, unless something happens that the drivers cannot bear. *)

\* Disturbances are counted.
LEMMA CountsGrow ==
  ASSUME pc \in Writing, Types, PartsInv, AccelNext
  PROVE  /\ signals' = signals \/ signals' = signals + 1
         /\ errors' = errors \/ errors' = errors + 1
         /\ atns' = atns \/ atns' = atns + 1
<1>1. CASE Waits
  <2>1. pc \in InPart
    BY <1>1 DEF InPart, OnFifo, ByByte, Waits, PartBegin, FillFails, PartSent, LastByteSent, TmsWait, Wait
  <2> QED
    BY <1>1, <2>1, OnBoard, HowWaitsEnd DEF Waited, counts
<1>2. CASE Load \/ CallWrite \/ Arm \/ Restarted \/ FillFifo \/ StopPart \/ PioPart
  BY <1>2 DEF Load, WriteLoad, CallWrite, Arm, Restarted, FillFifo, StopPart, PioPart, counts
<1>3. CASE TmsWrite \/ TmsPut \/ TmsDrain \/ AccelSignal \/ Feed
  BY <1>3 DEF TmsWrite, TmsPut, TmsDrain, AccelSignal, Feed, counts
<1>4. CASE InWrite
  <2>1. CASE PioWaits
    BY <2>1, HowPioWaitsEnd DEF Types, counts
  <2> QED
    BY <1>4, <2>1 DEF InWrite, WriteBegin, PioPut, SendSeoi, WriteReturn, WriteStop, counts
<1>5. CASE Signal \/ Restart
  BY <1>5 DEF Signal, Restart, counts
<1>6. CASE BesideNow
  <2>1. CASE Interrupt
    BY <2>1, InterruptNotes DEF counts
  <2> QED
    BY <1>6, <2>1 DEF BesideNow, Beside, RaiseFreeDO, RaiseDO, Accept, BusError, DeviceClear, ChangeNecAtn, ChangeAtn, Expire,
       WatchdogTimeout, counts
<1> QED
  BY <1>1, <1>2, <1>3, <1>4, <1>5, <1>6, WritingSteps

LEMMA BorneBefore ==
  ASSUME pc \in Writing, Types, PartsInv, AccelNext, Borne'
  PROVE  Borne
<1>1. signals \in Nat /\ errors \in Nat /\ atns \in Nat /\ driver' = driver
  BY DriverStays DEF Types
<1>2. (signals' = 0 => signals = 0) /\ (errors' = 0 => errors = 0) /\ (atns' = 0 => atns = 0)
  <2>1. signals + 1 # 0 /\ errors + 1 # 0 /\ atns + 1 # 0
    BY <1>1
  <2> QED
    BY <2>1, CountsGrow
<1> QED
  BY <1>1, <1>2 DEF Borne

\* What the drivers bear, part by part.
LEMMA BornePart ==
  ASSUME Types, PartsInv, Returned, Bits, Borne, pc \in Writing
  PROVE  /\ pc \notin Returning => skew = 0 \/ driver \notin Indexed
         /\ driver \in Indexed => signals = 0 /\ Straight
         /\ driver # "nec7210" => "BUS_ERROR" \notin state
         /\ driver = "nec7210" => Straight /\ signals = 0 /\ atns = 0
         /\ driver \in OnTms9914 \ {"tms9914"} => driver \in Indexed
<1>1. driver \in Indexed => signals = 0 /\ Straight
  BY DEF Borne, Straight
<1>2. driver # "nec7210" => "BUS_ERROR" \notin state
  BY DEF Borne, Bits
<1>3. driver = "nec7210" => Straight /\ signals = 0 /\ atns = 0
  BY DEF Borne, Straight, OnTms9914
<1>4. driver \in OnTms9914 \ {"tms9914"} => driver \in Indexed
  BY DEF OnTms9914, Indexed
<1> QED
  BY <1>1, <1>2, <1>3, <1>4 DEF Returned

LEMMA LevelStep ==
  ASSUME pc \in Writing, Types, PartsInv, Still, Sums, Progress, FifoInv, Pio, Returned, Bits,
         Eoi, Level, Resends, AccelNext
  PROVE  Level'
<1>1. /\ pos \in Nat /\ skew \in Nat /\ goal \in Nat /\ put \in Nat /\ last \in Nat /\ accepted \in Nat
      /\ out.byte \in Nat /\ signals \in Nat /\ errors \in Nat /\ atns \in Nat
      /\ ret \in Results /\ driver \in Drivers /\ status \subseteq {"TIMO", "ATN"}
  BY LengthAssumption DEF Types
<1>2. Level' <=> (Borne' => /\ ~gap' /\ (out' # NoByte => out'.byte = accepted' + 1)
                            /\ GivenUp' \/ Newest' = Front' \/ Lost')
  BY DEF Level
<1>3. driver' = driver
  BY DriverStays
<1> SUFFICES ASSUME Borne' PROVE Level'
  BY <1>2
<1>4. /\ Borne /\ ~gap /\ (out # NoByte => out.byte = accepted + 1)
      /\ GivenUp \/ Newest = Front \/ Lost
  BY BorneBefore DEF Level
<1>0. /\ pc \notin Returning => skew = 0 \/ driver \notin Indexed
      /\ driver \in Indexed => signals = 0 /\ Straight
      /\ driver # "nec7210" => "BUS_ERROR" \notin state
      /\ driver = "nec7210" => Straight /\ signals = 0 /\ atns = 0
      /\ driver \in OnTms9914 \ {"tms9914"} => driver \in Indexed
  BY <1>4, BornePart
<1>5. ASSUME UNCHANGED <<gap, out, accepted>>, GivenUp' \/ Newest = Front' \/ Lost'
      PROVE  Level'
  <2>1. Newest' = Newest /\ (out' # NoByte => out'.byte = accepted' + 1) /\ ~gap'
    BY <1>4, <1>5 DEF Newest
  <2> QED
    BY <1>2, <1>5, <2>1
<1>6. CASE Quiet
  <2>1. UNCHANGED <<gap, out, accepted>> /\ Front' = Front
    BY <1>6, QuietFrame
  <2>2. ASSUME GivenUp PROVE GivenUp'
    <3>1. pc \in Returning
      BY <2>2 DEF GivenUp, Returning
    <3>2. WriteReturn \/ WriteStop \/ Restart
      <4>1. ~(CallWrite \/ Arm \/ Restarted \/ FillFifo \/ PioPart \/ TmsWrite)
        BY <3>1 DEF CallWrite, Arm, Restarted, FillFifo, PioPart, TmsWrite, Goto, Returning
      <4>2. ~(Waits \/ AccelSignal)
        BY <3>1 DEF Waits, PartBegin, FillFails, PartSent, LastByteSent, TmsWait, Wait, AccelSignal, Interruptible, Returning
      <4>3. ~(WriteBegin \/ SendSeoi \/ Signal)
        BY <3>1 DEF WriteBegin, SendSeoi, Signal, Goto, Returning
      <4> QED
        BY <1>6, <4>1, <4>2, <4>3 DEF Quiet
    <3> QED
      BY <2>2, <3>2 DEF WriteReturn, WriteStop, Restart, Goto, GivenUp, Failed, Returning
  <2>3. ~Lost
    <3>1. SUFFICES ASSUME Lost PROVE FALSE
      OBVIOUS
    <3>2. driver = "nec7210" /\ pc \in {"w_wait", "w_drain"}
      BY <3>1 DEF Lost
    <3>3. ~(CallWrite \/ Arm \/ Restarted \/ FillFifo \/ PioPart \/ TmsWrite)
      BY <3>2 DEF CallWrite, Arm, Restarted, FillFifo, PioPart, TmsWrite, Goto
    <3>4. ~(Waits \/ AccelSignal)
      BY <3>2 DEF Waits, PartBegin, FillFails, PartSent, LastByteSent, TmsWait, Wait, AccelSignal, Interruptible
    <3>5. ~(WriteBegin \/ SendSeoi \/ WriteReturn \/ WriteStop \/ Restart)
      BY <3>2 DEF WriteBegin, SendSeoi, WriteReturn, WriteStop, Restart, Goto
    <3>6. signals' # 0
      <4>1. signals' = signals + 1
        BY <1>6, <3>3, <3>4, <3>5 DEF Quiet, Signal
      <4> QED
        BY <1>1, <4>1
    <3> QED
      BY <1>3, <3>2, <3>6 DEF Borne
  <2> QED
    BY <1>4, <1>5, <2>1, <2>2, <2>3
<1>7. CASE Load
  <2>1. /\ UNCHANGED <<gap, out, accepted, pos>> /\ skew' = 0 /\ pc = "w_load" /\ pc' = "w_begin"
    BY <1>7 DEF Load, WriteLoad, Goto, chip, bus
  <2>2. ~GivenUp /\ ~Lost
    BY <2>1 DEF GivenUp, Lost, Returning
  <2>3. skew = 0
    BY <2>1, <1>0 DEF Returning, Still
  <2>4. Front = pos + skew /\ Front' = pos' + skew'
    BY <2>1 DEF Front, Base, OnFifo
  <2> QED
    BY <1>4, <1>5, <2>1, <2>2, <2>3, <2>4
<1>8. CASE StopPart
  <2> DEFINE n == part.n
             c == Counted
             l == Len(fifo)
  <2>1. /\ UNCHANGED <<gap, out, accepted>> /\ pos' = pos + c /\ ret' = ret
        /\ skew' = (IF driver \in Indexed THEN skew + n - c ELSE skew)
        /\ pc = "a_stop" /\ pc \in OnFifo
        /\ ret' # "ok" => pc' = "w_ret"
    BY <1>8 DEF StopPart, PartEnds, chip, bus, OnFifo
  <2>2. ~GivenUp /\ ~Lost /\ pc = "a_stop" /\ pc \in InPart /\ pc \in OnFifo /\ pc' \notin OnFifo
    BY <1>8 DEF GivenUp, Lost, Returning, StopPart, PartEnds, InPart, OnFifo
  <2>3. /\ c \in 0 .. n /\ l \in Nat /\ driver \in Accelerated \ {"tms9914"}
        /\ driver \in OnTms9914 => driver \in Indexed
        /\ driver \notin {"ines", "cb7210"} => c = put - l
        /\ ret = "ok" /\ fifo = <<>> => c = n
    <3> HIDE DEF n, c, l
    <3> QED
      BY <2>2, CountedOfPart DEF n, c, l
  <2>4. n \in Nat
    BY <2>2, Ahead, LengthAssumption
  <2>5. Front = pos + skew + (put - l) /\ Front' = pos' + skew' /\ Newest = Front
    <3>1. Front = pos + skew + (put - l) /\ Front' = pos' + skew'
      BY <2>2 DEF Front, Base, Fed
    <3> QED
      BY <1>4, <2>2, <3>1
  <2>6. CASE Failed
    <3>1. pc' = "w_ret" /\ Failed'
      BY <2>1, <2>6 DEF Failed
    <3>2. GivenUp'
      BY <3>1 DEF GivenUp, Returning
    <3> QED
      BY <1>5, <2>1, <3>2
  <2>7. CASE ret = "ok"
    <3>1. Straight
      BY <2>3, <1>0 DEF Straight
    <3>2. put = n /\ fifo = <<>>
      BY <2>2, <2>7, <3>1 DEF Returned
    <3>3. l = 0 /\ c = n
      BY <2>3, <2>7, <3>2, EmptySeq
    <3> HIDE DEF n, c, l
    <3>4. Front = pos + skew + n
      BY <1>1, <2>4, <2>5, <3>2, <3>3
    <3>5. skew' = skew
      BY <1>1, <2>1, <2>4, <3>3
    <3>6. Front' = (pos + n) + skew
      BY <2>1, <2>5, <3>3, <3>5
    <3>7. Front' = Front
      BY <1>1, <2>4, <3>4, <3>6
    <3> QED
      BY <1>5, <2>1, <2>5, <3>7
  <2>8. CASE ret = "ERESTARTSYS"
    <3>1. signals # 0
      BY <1>1, <2>8 DEF Returned
    <3>2. driver \notin Indexed \cup {"ines", "cb7210"}
      BY <1>4, <3>1 DEF Borne
    <3>3. c = put - l /\ skew' = skew
      BY <2>1, <2>3, <3>2
    <3> HIDE DEF n, c, l
    <3>4. Front' = (pos + (put - l)) + skew
      BY <2>1, <2>5, <3>3
    <3>5. Front' = Front
      BY <1>1, <2>3, <2>5, <3>4
    <3> QED
      BY <1>5, <2>1, <2>5, <3>5
  <2> QED
    BY <2>6, <2>7, <2>8 DEF Failed
<1>9. CASE TmsPut
  <2> DEFINE b == pos + skew + 1
  <2>1. /\ pc = "b_put" /\ pc' \in {"b_wait", "b_drain"} /\ UNCHANGED <<gap, accepted, skew>>
        /\ pos' = pos + 1 /\ out' = [byte |-> b, eoi |-> seoi]
    BY <1>9 DEF TmsPut, Goto, bus
  <2>2. out = NoByte /\ ~GivenUp /\ ~Lost /\ pc \notin OnFifo /\ pc' \notin OnFifo
    BY <2>1 DEF Bits, GivenUp, Lost, Returning, OnFifo
  <2>3. accepted = pos + skew
    <3>1. Newest = accepted /\ Front = pos + skew
      BY <2>2 DEF Newest, Front, Base
    <3> QED
      BY <1>4, <2>2, <3>1
  <2>4. Front' = b
    <3>1. pos' + skew' = b
      BY <1>1, <2>1
    <3> QED
      BY <2>2, <3>1 DEF Front, Base
  <2>5. b \in Nat /\ b > 0 /\ b = accepted + 1 /\ seoi \in BOOLEAN
    BY <1>1, <2>3 DEF Types
  <2> HIDE DEF b
  <2>6. out' # NoByte /\ Newest' = b /\ out'.byte = b
    BY <2>1, <2>5, OutNow
  <2>7. out'.byte = accepted' + 1 /\ ~gap' /\ Newest' = Front'
    BY <1>4, <2>1, <2>4, <2>5, <2>6
  <2> QED
    BY <1>2, <2>7
<1>10. CASE TmsDrain
  <2> DEFINE n == part.n
  <2>1. /\ pc = "b_drain" /\ UNCHANGED <<gap, out, accepted, pos>> /\ pc' \notin OnFifo
        /\ \/ skew' = skew
           \/ driver \in Indexed /\ skew' = skew + n - put /\ (ret' # "ok" \/ ~part.eoi)
    BY <1>10 DEF TmsDrain, PartEnds, bus, OnFifo
  <2>2. ~GivenUp /\ ~Lost /\ pc \notin OnFifo /\ pc \in InPart
    BY <2>1 DEF GivenUp, Lost, Returning, OnFifo, InPart, ByByte
  <2>3. Front = pos + skew /\ Front' = pos' + skew' /\ Newest = Front
    <3>1. Front = pos + skew /\ Front' = pos' + skew'
      BY <2>1, <2>2 DEF Front, Base
    <3> QED
      BY <1>4, <2>2, <3>1
  <2>4. CASE skew' = skew
    BY <1>5, <2>1, <2>3, <2>4
  <2>5. CASE driver \in Indexed /\ skew' = skew + n - put /\ ret' = "ok" /\ ~part.eoi
    <3>1. signals = 0
      BY <2>5, <1>0
    <3>2. pos = goal
      BY <1>10, <2>5, <3>1, DrainResults
    <3>3. n \in Nat
      BY <2>2, Ahead, LengthAssumption
    <3>4. goal - pos + 0 = n - put
      BY <2>1, <2>5, <3>1 DEF Progress, ByByte
    <3> HIDE DEF n
    <3>5. n = put
      BY <1>1, <3>2, <3>3, <3>4
    <3>6. skew + n - put = skew
      BY <1>1, <3>5
    <3> QED
      BY <2>4, <2>5, <3>6
  <2>6. CASE driver \in Indexed /\ ret' # "ok"
    <3>1. signals = 0
      BY <2>6, <1>0
    <3>2. pc' = "w_ret" /\ ret' # "ERESTARTSYS"
      <4>1. ret' = "ERESTARTSYS" => signals > 0
        BY <1>10, DrainResults
      <4> QED
        BY <1>10, <2>6, <3>1, <4>1, DrainResults
    <3>3. GivenUp'
      BY <2>6, <3>2 DEF GivenUp, Failed, Returning
    <3> QED
      BY <1>5, <2>1, <3>3
  <2> QED
    BY <2>1, <2>4, <2>5, <2>6
<1>11. ASSUME PioWaits, UNCHANGED accel PROVE Level'
  <2>1. /\ UNCHANGED <<skew, gap, out, accepted>> /\ pc \notin OnFifo /\ pc' \notin OnFifo
        /\ pc \in InPio /\ pc \notin Returning
    BY <1>11, HowPioWaitsEnd DEF Types, bus, accel, OnFifo, InPio, Returning
  <2>2. skew = 0 /\ driver \in {"nec7210", "cb7210"}
    BY <2>1, InNecWrite
  <2>3. Front = pos + 0 /\ Front' = pos' + 0
    BY <2>1, <2>2 DEF Front, Base
  <2>4. Newest = Front \/ Lost
    BY <1>4, <2>1 DEF GivenUp, Returning
  <2>5. ASSUME pos' = pos, Newest = Front PROVE Level'
    BY <1>5, <2>1, <2>3, <2>5
  <2>6. CASE pos' = pos /\ state' = state /\ "BUS_ERROR" \notin state /\ ("ATN" \in status \/ "WRITE_READY" \in state)
    <3>1. ASSUME Lost PROVE FALSE
      <4>1. driver = "nec7210" /\ "ERR" \in ints
        BY <2>6, <3>1 DEF Lost
      <4>2. "ATN" \notin status
        BY <4>1, <1>0 DEF Resends
      <4> QED
        BY <2>6, <4>1, <4>2 DEF Bits
    <3> QED
      BY <2>4, <2>5, <2>6, <3>1
  <2>7. CASE pc' = "w_ret" /\ ret' \in Errors
    <3>1. GivenUp'
      BY <2>7 DEF GivenUp, Failed, Returning, Errors
    <3> QED
      BY <1>5, <2>1, <3>1
  <2>8. CASE pc = "w_wait" /\ pos' = last /\ "BUS_ERROR" \in state
    <3>1. driver = "nec7210"
      BY <2>8, <1>0
    <3>2. pos = last + 1 /\ out = NoByte
      BY <2>8, <3>1, <1>0 DEF Resends
    <3>3. accepted <= last
      <4>1. last < pos
        BY <1>1, <3>2
      <4> QED
        BY <2>8, <3>1, <4>1, <1>0 DEF Eoi
    <3>4. Newest = accepted
      BY <3>2 DEF Newest
    <3>5. Newest # Front
      BY <1>1, <2>3, <3>2, <3>3, <3>4
    <3>6. accepted = last
      BY <2>4, <3>5 DEF Lost
    <3>7. Front' = last
      <4>1. Front' = last + 0
        BY <2>3, <2>8
      <4> QED
        BY <1>1, <4>1
    <3> QED
      BY <1>5, <2>1, <3>4, <3>6, <3>7
  <2> QED
    BY <1>1, <1>11, <2>6, <2>7, <2>8, HowPioWaitsEnd
<1>12. ASSUME PioPut, UNCHANGED accel PROVE Level'
  <2> DEFINE b == pos + 1
  <2>1. /\ pc = "w_put" /\ pc' \in {"w_wait", "w_drain"} /\ UNCHANGED <<gap, accepted, skew>>
        /\ pos' = pos + 1 /\ out' = [byte |-> b, eoi |-> seoi]
    BY <1>12 DEF PioPut, Goto, bus, accel
  <2>2. out = NoByte /\ ~GivenUp /\ ~Lost /\ pc \notin OnFifo /\ pc' \notin OnFifo /\ skew = 0
    BY <2>1, InNecWrite DEF Bits, GivenUp, Lost, Returning, OnFifo, InPio
  <2>3. accepted = pos
    <3>1. Newest = accepted /\ Front = pos + 0
      BY <2>2 DEF Newest, Front, Base
    <3> QED
      BY <1>1, <1>4, <2>2, <3>1
  <2>4. Front' = b
    <3>1. pos' + skew' = b
      BY <1>1, <2>1, <2>2
    <3> QED
      BY <2>2, <3>1 DEF Front, Base
  <2>5. b \in Nat /\ b > 0 /\ b = accepted + 1 /\ seoi \in BOOLEAN
    BY <1>1, <2>3 DEF Types
  <2> HIDE DEF b
  <2>6. out' # NoByte /\ Newest' = b /\ out'.byte = b
    BY <2>1, <2>5, OutNow
  <2>7. out'.byte = accepted' + 1 /\ ~gap' /\ Newest' = Front'
    BY <1>4, <2>1, <2>4, <2>5, <2>6
  <2> QED
    BY <1>2, <2>7
<1>13. CASE Feed
  <2> DEFINE f == Fed
  <2>1. /\ pc \in OnFifo /\ pc' = pc /\ UNCHANGED <<pos, skew, accepted, gap>>
        /\ out = NoByte /\ f \in Nat /\ Fed' = f + 1 /\ out'.byte = Base + f + 1
    BY <1>13, Feeds DEF bus
  <2>2. ~GivenUp /\ ~Lost
    BY <2>1 DEF GivenUp, Lost, Returning, OnFifo
  <2>3. accepted = Base + f /\ Base \in Nat /\ Base' = Base
    <3>1. Newest = accepted /\ Front = Base + f
      BY <2>1 DEF Newest, Front
    <3>2. Base \in Nat /\ Base' = Base
      BY <1>1, <2>1 DEF Base
    <3> QED
      BY <1>4, <2>2, <3>1, <3>2
  <2>4. Front' = Base + (f + 1)
    BY <2>1, <2>3 DEF Front
  <2> HIDE DEF f
  <2>5. out'.byte = accepted + 1 /\ out'.byte = Base + (f + 1) /\ out'.byte # 0
    BY <2>1, <2>3
  <2>6. out' # NoByte
    BY <2>5 DEF NoByte
  <2>7. Newest' = Front' /\ out'.byte = accepted' + 1 /\ ~gap'
    BY <1>4, <2>1, <2>4, <2>5, <2>6 DEF Newest
  <2> QED
    BY <1>2, <2>7
<1>14. CASE BesideNow
  <2>1. UNCHANGED <<pc, pos, last, ret, signals, skew, put, fifo, driver>>
    BY <1>14 DEF BesideNow, accel
  <2>2. Front' = Front /\ (GivenUp' <=> GivenUp)
    BY <2>1 DEF Front, Base, Fed, GivenUp, Failed
  <2>3. ASSUME UNCHANGED <<gap, out, accepted>>,
               "ERR" \in ints \/ "BUS_ERROR" \in state => "ERR" \in ints' \/ "BUS_ERROR" \in state'
        PROVE  Level'
    <3>1. Lost => Lost'
      BY <2>1, <2>3 DEF Lost
    <3> QED
      BY <1>4, <1>5, <2>2, <2>3, <3>1
  <2>4. CASE RaiseFreeDO \/ DeviceClear \/ ChangeNecAtn \/ Expire \/ WatchdogTimeout
    BY <2>3, <2>4 DEF RaiseFreeDO, RaiseDO, DeviceClear, ChangeNecAtn, ChangeAtn, Expire, WatchdogTimeout, chip, bus
  <2>5. CASE Interrupt
    <3>1. UNCHANGED <<out, accepted, gap>>
          /\ ("BUS_ERROR" \in state' <=> "BUS_ERROR" \in state \/ "ERR" \in ints)
      BY <2>5, InterruptNotes DEF bus
    <3> QED
      BY <2>3, <3>1
  <2>6. CASE Accept
    <3>1. /\ out # NoByte /\ accepted' = out.byte /\ out' = NoByte
          /\ gap' = (gap \/ out.byte # accepted + 1)
      BY <2>6 DEF Accept
    <3>2. Newest' = Newest /\ ~gap' /\ ~Lost
      BY <1>4, <3>1 DEF Newest, Lost
    <3> QED
      BY <1>2, <1>4, <2>2, <3>1, <3>2
  <2>7. CASE BusError
    <3>1. /\ out # NoByte /\ UNCHANGED <<accepted, gap>> /\ out' = NoByte
          /\ ints' = ints \cup {"ERR"} /\ errors' = errors + 1
      BY <2>7 DEF BusError, bus
    <3>2. driver = "nec7210"
      <4>1. errors' # 0
        BY <1>1, <3>1
      <4> QED
        BY <2>1, <4>1 DEF Borne
    <3>3. signals = 0 /\ atns = 0
      BY <3>2, <1>0
    <3> SUFFICES ASSUME ~GivenUp PROVE Lost'
      BY <1>2, <1>4, <2>2, <3>1
    <3>4. pc \in {"w_wait", "w_drain"}
      <4>1. pc \notin InPart
        BY <3>2, OnBoard, WaysApart DEF Types
      <4>2. pc \notin {"w_load", "w_begin", "w_eoi", "w_seoi"} /\ ~(pc \in {"w_ret", "w_stop"} /\ ret = "ok")
        BY <3>1, <3>2, <3>3 DEF Resends
      <4>3. pc # "w_put"
        BY <3>1 DEF Bits
      <4>4. pc \notin {"w_ret", "w_stop", "w_done"}
        <5>1. ret # "ERESTARTSYS"
          BY <1>1, <3>3 DEF Returned
        <5> QED
          BY <4>2, <5>1 DEF GivenUp, Failed, Returning
      <4> QED
        BY <4>1, <4>2, <4>3, <4>4 DEF Writing, InPart, OnFifo, ByByte
    <3>5. pos = last + 1
      BY <3>1, <3>2, <3>3, <3>4 DEF Resends
    <3>6. out.byte = accepted + 1 /\ Newest = out.byte /\ Newest = Front
      BY <1>4, <3>1 DEF Newest, Lost
    <3>7. Front = pos + 0
      BY <3>2, <3>4 DEF Front, Base, OnFifo, Still, Indexed
    <3>8. accepted = last
      BY <1>1, <3>5, <3>6, <3>7
    <3> QED
      BY <2>1, <3>1, <3>2, <3>4, <3>5, <3>8 DEF Lost
  <2> QED
    BY <1>14, <2>4, <2>5, <2>6, <2>7 DEF BesideNow, Beside
<1> QED
  BY <1>6, <1>7, <1>8, <1>9, <1>10, <1>11, <1>12, <1>13, <1>14, QuietSteps

-----------------------------------------------------------------------------
(* What is counted was sent.                                                 *)

LEMMA SentStep ==
  ASSUME pc \in Writing, Types, PartsInv, Still, Sums, Progress, FifoInv, Pio, Returned, Bits,
         Sent, Sums', AccelNext
  PROVE  Sent'
<1>1. /\ pos \in Nat /\ skew \in Nat /\ goal \in Nat /\ put \in Nat /\ last \in Nat /\ accepted \in Nat
      /\ Length \in Nat /\ errors \in Nat /\ Base \in Nat
  BY LengthAssumption DEF Types, Base
<1>2. Sent' <=> (errors' = 0 /\ driver' # "ines" =>
                   /\ pos' = Length => Newest' = Length
                   /\ pc' \in OnFifo /\ Fed' > 0 => Newest' = Base' + Fed')
  BY DEF Sent
<1> SUFFICES ASSUME errors' = 0, driver' # "ines" PROVE Sent'
  BY <1>2
<1>3. errors = 0 /\ driver # "ines"
  <2>1. errors + 1 # 0
    BY <1>1
  <2> QED
    BY <2>1, DriverStays, CountsGrow
<1>4. /\ pos = Length => Newest = Length
      /\ pc \in OnFifo /\ Fed > 0 => Newest = Base + Fed
      /\ "BUS_ERROR" \notin state
  BY <1>3 DEF Sent, Bits
<1>5. ASSUME Newest' = Newest, pos' = pos,
             pc' \in OnFifo => Fed' = 0 \/ (pc \in OnFifo /\ Fed' = Fed /\ Base' = Base)
      PROVE  Sent'
  BY <1>2, <1>4, <1>5
<1>6. CASE Quiet
  <2>1. /\ UNCHANGED <<pos, skew>> /\ Newest' = Newest
        /\ pc' \in OnFifo => Fed' = 0 \/ (pc \in OnFifo /\ Fed' = Fed)
    BY <1>6, QuietFrame
  <2>2. Base' = Base
    BY <2>1 DEF Base
  <2> QED
    BY <1>5, <2>1, <2>2
<1>7. CASE Load
  <2>1. UNCHANGED <<pos, out, accepted>> /\ pc' \notin OnFifo
    BY <1>7 DEF Load, WriteLoad, Goto, chip, bus, OnFifo
  <2> QED
    BY <1>5, <2>1 DEF Newest
<1>8. CASE StopPart
  <2> DEFINE n == part.n
             c == Counted
             l == Len(fifo)
             s == Start
  <2>1. /\ UNCHANGED <<out, accepted>> /\ pos' = pos + c /\ pc = "a_stop" /\ pc' \notin OnFifo
        /\ pc \in OnFifo /\ pc \in InPart /\ pc \notin ByByte
    BY <1>8 DEF StopPart, PartEnds, chip, bus, OnFifo, InPart, ByByte
  <2>2. Newest' = Newest
    BY <2>1 DEF Newest
  <2> SUFFICES ASSUME pos' = Length PROVE Newest = Length
    BY <1>2, <2>1, <2>2
  <2>3. s = pos + skew
    BY <2>1 DEF Start, Base
  <2>4. PICK to \in 0 .. Length :
        /\ n \in Nat /\ s + n <= to /\ (Len(parts) = 1 <=> s + n = to) /\ part.how \in Ways
    BY <2>1, Ahead, LengthAssumption
  <2>5. /\ c \in 0 .. n /\ l \in Nat /\ (driver # "cb7210" => c = put - l)
    <3> HIDE DEF n, c, l
    <3> QED
      BY <1>3, <2>1, CountedOfPart DEF n, c, l
  <2>6. Fed = put - l /\ (Fed > 0 => Newest = Base + Fed) /\ Base = pos + skew
    BY <1>4, <2>1 DEF Fed, Base
  <2>7. CASE driver = "cb7210"
    <3>1. part.how \in {"fifo", "block"} /\ parts \in Seq(PartsBy(Ways)) /\ parts # <<>> /\ PioLast(parts)
      BY <2>1 DEF PartsInv
    <3>2. "block" \notin Ways
      BY <2>7, WaysApart DEF Types
    <3>3. Len(parts) # 1
      BY <2>4, <2>7, <3>1, <3>2, TailParts DEF part
    <3> HIDE DEF n, c, s
    <3>4. pos + c < Length
      <4>1. to \in Nat /\ to <= Length /\ s + n < to
        BY <1>1, <2>3, <2>4, <3>3
      <4> QED
        BY <1>1, <2>3, <2>4, <2>5, <4>1
    <3> QED
      BY <1>1, <2>1, <3>4
  <2>8. CASE driver # "cb7210"
    <3> HIDE DEF n, c, l, s
    <3>1. to \in Nat /\ to <= Length /\ pos + skew + c <= to
      BY <1>1, <2>3, <2>4, <2>5
    <3>2. pos + c = Length /\ skew = 0
      BY <1>1, <2>1, <2>5, <3>1
    <3>3. CASE c = 0
      BY <1>1, <1>4, <3>2, <3>3
    <3>4. CASE c > 0
      <4>1. Fed = c /\ Newest = Base + Fed /\ Base = pos + skew
        BY <2>5, <2>6, <2>8, <3>4
      <4>2. Newest = pos + skew + c
        BY <4>1
      <4> QED
        BY <1>1, <3>2, <4>2
    <3> QED
      BY <2>5, <3>3, <3>4
  <2> QED
    BY <2>7, <2>8
<1>9. CASE TmsPut
  <2> DEFINE b == pos + skew + 1
  <2>1. /\ pc' \in {"b_wait", "b_drain"} /\ skew' = skew
        /\ pos' = pos + 1 /\ out' = [byte |-> b, eoi |-> seoi]
    BY <1>9 DEF TmsPut, Goto
  <2>2. b \in Nat /\ b > 0 /\ seoi \in BOOLEAN
    BY <1>1 DEF Types
  <2>3. pos' = Length => b = Length
    <3>1. pos' + skew' <= Length
      BY DEF Sums
    <3>2. (pos + 1) + skew <= Length
      BY <2>1, <3>1
    <3> QED
      BY <1>1, <2>1, <3>2
  <2> HIDE DEF b
  <2>4. Newest' = b
    BY <2>1, <2>2, OutNow
  <2>5. pc' \notin OnFifo
    BY <2>1 DEF OnFifo
  <2> QED
    BY <1>2, <2>3, <2>4, <2>5
<1>10. CASE TmsDrain
  <2>1. UNCHANGED <<pos, out, accepted>> /\ pc' \notin OnFifo
    BY <1>10 DEF TmsDrain, PartEnds, bus, OnFifo
  <2> QED
    BY <1>5, <2>1 DEF Newest
<1>11. ASSUME PioWaits, UNCHANGED accel PROVE Sent'
  <2>1. UNCHANGED <<pos, out, accepted>> /\ pc' \notin OnFifo
    BY <1>4, <1>11, HowPioWaitsEnd DEF Types, bus, OnFifo
  <2> QED
    BY <1>5, <2>1 DEF Newest
<1>12. ASSUME PioPut, UNCHANGED accel PROVE Sent'
  <2> DEFINE b == pos + 1
  <2>1. /\ pc' \in {"w_wait", "w_drain"} /\ pos' = b /\ out' = [byte |-> b, eoi |-> seoi]
    BY <1>12 DEF PioPut, Goto
  <2>2. b \in Nat /\ b > 0 /\ seoi \in BOOLEAN
    BY <1>1 DEF Types
  <2> HIDE DEF b
  <2>3. Newest' = b /\ pc' \notin OnFifo
    BY <2>1, <2>2, OutNow DEF OnFifo
  <2> QED
    BY <1>2, <2>1, <2>3
<1>13. CASE Feed
  <2> DEFINE f == Fed
             n == part.n
  <2>1. /\ pc \in OnFifo /\ pc' = pc /\ UNCHANGED <<pos, skew>>
        /\ f \in Nat /\ Fed' = f + 1 /\ out'.byte = Base + f + 1
    BY <1>13, Feeds
  <2>2. pc \in InPart /\ pc \notin ByByte
    BY <2>1 DEF InPart, OnFifo, ByByte
  <2>3. PICK to \in 0 .. Length : n \in Nat \ {0} /\ Start + n <= to
    BY <2>2, Ahead, LengthAssumption
  <2>4. Start = pos + skew /\ Base' = Base
    BY <2>1, <2>2 DEF Start, Base
  <2> HIDE DEF f, n
  <2>5. pos # Length
    <3>1. (pos + skew) + n <= to
      BY <2>3, <2>4
    <3> QED
      BY <1>1, <2>3, <3>1
  <2>6. out'.byte # 0 /\ out'.byte = Base + (f + 1)
    BY <1>1, <2>1
  <2>7. Newest' = Base + (f + 1)
    BY <2>6 DEF NoByte, Newest
  <2> QED
    BY <1>2, <2>1, <2>4, <2>5, <2>7
<1>14. CASE BesideNow
  <2>1. UNCHANGED <<pc, pos, skew, put, fifo>>
    BY <1>14 DEF BesideNow, accel
  <2>2. Base' = Base /\ Fed' = Fed
    BY <2>1 DEF Base, Fed
  <2>3. ASSUME Newest' = Newest PROVE Sent'
    BY <1>5, <2>1, <2>2, <2>3
  <2>4. CASE RaiseFreeDO \/ DeviceClear \/ ChangeNecAtn \/ Expire \/ WatchdogTimeout
    BY <2>3, <2>4 DEF RaiseFreeDO, RaiseDO, DeviceClear, ChangeNecAtn, ChangeAtn, Expire, WatchdogTimeout, chip, bus, Newest
  <2>5. CASE Interrupt
    BY <2>3, <2>5, InterruptNotes DEF bus, Newest
  <2>6. CASE Accept
    BY <2>3, <2>6 DEF Accept, Newest
  <2>7. ~BusError
    <3>1. errors + 1 # 0
      BY <1>1
    <3> QED
      BY <3>1 DEF BusError
  <2> QED
    BY <1>14, <2>4, <2>5, <2>6, <2>7 DEF BesideNow, Beside
<1> QED
  BY <1>6, <1>7, <1>8, <1>9, <1>10, <1>11, <1>12, <1>13, <1>14, QuietSteps

-----------------------------------------------------------------------------
(* Every variable stays within its type.                                     *)

Flags ==
  /\ end \in BOOLEAN /\ eoi \in BOOLEAN /\ seoi \in BOOLEAN /\ ready \in BOOLEAN
  /\ stream \in BOOLEAN /\ atn \in BOOLEAN /\ heard_end \in BOOLEAN /\ gap \in BOOLEAN
Places == pos \in 0 .. Length /\ goal \in 0 .. Length /\ last \in 0 .. Length /\ skew \in Nat /\ put \in Nat
Taken == out \in [byte : 0 .. Length, eoi : BOOLEAN] /\ accepted \in 0 .. Length
Noticed == ret \in Results /\ status \subseteq {"TIMO", "ATN"} /\ ints \subseteq Interrupts

LEMMA TypesNamed ==
  /\ Types => Flags /\ Places /\ Taken /\ Noticed
  /\ driver' \in Drivers /\ signals' \in Nat /\ errors' \in Nat /\ atns' \in Nat
       /\ Flags' /\ Places' /\ Taken' /\ Noticed' => Types'
BY DEF Types, Flags, Places, Taken, Noticed

\* Flags are set by conditions and constants alone.
LEMMA FlagsStep ==
  ASSUME pc \in Writing, Types, PartsInv, Still, FifoInv, AccelNext
  PROVE  Flags'
<1>1. Flags /\ out.eoi \in BOOLEAN
  BY TypesNamed DEF Types
<1>2. ASSUME UNCHANGED <<end, eoi, seoi, ready, stream, atn, heard_end, gap>> PROVE Flags'
  BY <1>1, <1>2 DEF Flags
<1>3. CASE Load
  <2>1. UNCHANGED <<end, seoi, ready, stream, atn, heard_end, gap>> /\ eoi' \in BOOLEAN
    BY <1>3 DEF Load, WriteLoad, SendEoi, chip, bus
  <2> QED
    BY <1>1, <2>1 DEF Flags
<1>4. CASE CallWrite \/ FillFifo \/ PioPart
  BY <1>2, <1>4 DEF CallWrite, FillFifo, PioPart, accel, chip, bus
<1>5. CASE Waits
  <2>1. pc \in InPart
    BY <1>5 DEF InPart, OnFifo, ByByte, Waits, PartBegin, FillFails, PartSent, LastByteSent, TmsWait, Wait
  <2> QED
    BY <1>2, <1>5, <2>1, OnBoard, HowWaitsEnd DEF Waited, accel, bus
<1>6. CASE Arm
  <2>1. /\ UNCHANGED <<end, eoi, atn, heard_end, gap>> /\ ready' \in BOOLEAN /\ stream' \in BOOLEAN
        /\ seoi' \in BOOLEAN
    BY <1>6 DEF Arm, bus
  <2> QED
    BY <1>1, <2>1 DEF Flags
<1>7. CASE Restarted \/ StopPart
  <2>1. UNCHANGED <<end, eoi, seoi, ready, atn, heard_end, gap>> /\ stream' \in BOOLEAN
    BY <1>7 DEF Restarted, StopPart, chip, bus
  <2> QED
    BY <1>1, <2>1 DEF Flags
<1>8. CASE TmsWrite \/ TmsPut \/ TmsDrain
  <2>1. UNCHANGED <<end, eoi, stream, atn, heard_end, gap>> /\ (ready' = ready \/ ready' = FALSE)
    BY <1>8 DEF TmsWrite, TmsPut, TmsDrain, bus
  <2>2. seoi' \in BOOLEAN
    BY <1>1, <1>8 DEF TmsWrite, TmsPut, TmsDrain, PioWrite, Flags
  <2> QED
    BY <1>1, <2>1, <2>2 DEF Flags
<1>9. ASSUME InWrite, UNCHANGED accel PROVE Flags'
  <2>1. CASE PioWaits
    BY <1>2, <1>9, <2>1, HowPioWaitsEnd DEF Types, accel, bus
  <2>2. CASE WriteBegin \/ WriteReturn \/ WriteStop
    BY <1>2, <1>9, <2>2 DEF WriteBegin, WriteReturn, WriteStop, accel, chip, bus
  <2>3. CASE PioPut \/ SendSeoi
    <3>1. /\ UNCHANGED <<end, stream, atn, heard_end, gap>> /\ eoi' \in BOOLEAN /\ seoi' \in BOOLEAN /\ ready' \in BOOLEAN
      BY <1>1, <1>9, <2>3 DEF PioPut, SendSeoi, accel, bus, Flags
    <3> QED
      BY <1>1, <3>1 DEF Flags
  <2> QED
    BY <1>9, <2>1, <2>2, <2>3 DEF InWrite
<1>10. ASSUME Signal \/ Restart, UNCHANGED accel PROVE Flags'
  BY <1>2, <1>10 DEF Signal, Restart, accel, chip, bus
<1>11. CASE AccelSignal
  BY <1>2, <1>11 DEF AccelSignal, accel, chip, bus
<1>12. CASE Feed
  <2>1. UNCHANGED <<end, eoi, stream, atn, heard_end, gap>> /\ seoi' = FALSE /\ ready' = FALSE
    BY <1>12 DEF Feed, caller, bus
  <2> QED
    BY <1>1, <2>1 DEF Flags
<1>13. CASE BesideNow
  <2>1. UNCHANGED <<end, eoi, seoi, stream>>
    BY <1>13 DEF BesideNow, accel
  <2>2. CASE RaiseFreeDO \/ BusError \/ DeviceClear \/ Expire \/ WatchdogTimeout
    <3>1. UNCHANGED <<atn, heard_end, gap>> /\ (ready' = ready \/ ready' = TRUE)
      BY <2>2 DEF RaiseFreeDO, RaiseDO, BusError, DeviceClear, Expire, WatchdogTimeout, chip, bus
    <3> QED
      BY <1>1, <2>1, <3>1 DEF Flags
  <2>3. CASE Interrupt
    BY <1>2, <2>1, <2>3, InterruptNotes DEF bus
  <2>4. CASE Accept
    <3>1. UNCHANGED <<atn, ready>> /\ heard_end' \in BOOLEAN /\ gap' \in BOOLEAN
      BY <1>1, <2>4 DEF Accept, Flags
    <3> QED
      BY <1>1, <2>1, <3>1 DEF Flags
  <2>5. CASE ChangeNecAtn
    <3>1. UNCHANGED <<ready, heard_end, gap>> /\ atn' \in BOOLEAN
      BY <1>1, <2>5 DEF ChangeNecAtn, ChangeAtn, Flags, chip
    <3> QED
      BY <1>1, <2>1, <3>1 DEF Flags
  <2> QED
    BY <1>13, <2>2, <2>3, <2>4, <2>5 DEF BesideNow, Beside
<1> QED
  BY <1>3, <1>4, <1>5, <1>6, <1>7, <1>8, <1>9, <1>10, <1>11, <1>12, <1>13, WritingSteps

\* No place lies behind the end of the transfer.
LEMMA PlacesStep ==
  ASSUME pc \in Writing, Types, PartsInv, Still, Sums, Progress, FifoInv, Pio, Returned, Sums', AccelNext
  PROVE  Places'
<1>1. /\ pos \in 0 .. Length /\ goal \in 0 .. Length /\ last \in 0 .. Length /\ skew \in Nat /\ put \in Nat
      /\ Length \in Nat /\ BufferLength \in Nat \ {0} /\ pos + skew <= Length
  BY LengthAssumption DEF Types, Sums
<1>2. ASSUME UNCHANGED <<skew, put>>, pos' \in {pos, last}, goal' = goal, last' \in {last, pos} PROVE Places'
  BY <1>1, <1>2 DEF Places
<1>3. CASE Load
  <2>1. UNCHANGED <<pos, last, put>> /\ skew' = 0 /\ goal' = LoadEnd
    BY <1>3 DEF Load, WriteLoad
  <2>2. LoadEnd = IF Length <= pos + BufferLength THEN Length ELSE pos + BufferLength
    <3>1. Length \in Int /\ pos + BufferLength \in Int
      BY <1>1
    <3> QED
      BY <3>1, Smaller DEF LoadEnd
  <2>3. LoadEnd \in 0 .. Length
    BY <1>1, <2>2
  <2> QED
    BY <1>1, <2>1, <2>3 DEF Places
<1>4. CASE CallWrite \/ Restarted \/ PioPart \/ AccelSignal \/ Feed
  BY <1>2, <1>4 DEF CallWrite, Restarted, PioPart, AccelSignal, Feed, caller, accel
<1>5. CASE Waits
  <2>1. pc \in InPart
    BY <1>5 DEF InPart, OnFifo, ByByte, Waits, PartBegin, FillFails, PartSent, LastByteSent, TmsWait, Wait
  <2> QED
    BY <1>2, <1>5, <2>1, OnBoard, HowWaitsEnd DEF Waited, accel
<1>6. CASE Arm
  <2>1. UNCHANGED <<pos, goal, last, skew>> /\ put' \in Nat
    <3>1. put' = Len(fifo') /\ fifo' \in Seq([byte : Nat, eoi : BOOLEAN])
      BY <1>6, Armings
    <3>2. put' \in Nat
      BY <3>1, LenProperties
    <3> QED
      BY <1>6, <3>2 DEF Arm
  <2> QED
    BY <1>1, <2>1 DEF Places
<1>7. CASE FillFifo
  <2>1. UNCHANGED <<pos, goal, last, skew>> /\ put' = put + Room /\ pc = "a_space" /\ Room > 0
    BY <1>7 DEF FillFifo
  <2>2. Room \in Nat
    BY <2>1, RoomOfPart
  <2> QED
    BY <1>1, <2>1, <2>2 DEF Places
<1>8. CASE StopPart
  <2> DEFINE n == part.n
             c == Counted
  <2>1. /\ UNCHANGED <<goal, last>> /\ pos' = pos + c /\ put' = 0 /\ pc = "a_stop" /\ pc \in InPart
        /\ skew' = (IF driver \in Indexed THEN skew + n - c ELSE skew)
    BY <1>8 DEF StopPart, PartEnds, InPart, OnFifo
  <2>2. n \in Nat
    BY <2>1, Ahead, LengthAssumption
  <2>3. c \in 0 .. n
    <3> HIDE DEF n, c
    <3> QED
      BY <2>1, CountedOfPart DEF n, c
  <2>4. pos' + skew' <= Length
    BY DEF Sums
  <2> HIDE DEF n, c
  <2>5. skew' \in Nat
    BY <1>1, <2>1, <2>2, <2>3
  <2>6. pos' \in 0 .. Length
    <3>1. ASSUME NEW k \in Nat, (pos + c) + k <= Length PROVE pos + c \in 0 .. Length
      BY <1>1, <2>2, <2>3, <3>1
    <3> QED
      BY <2>1, <2>4, <2>5, <3>1
  <2> QED
    BY <1>1, <2>1, <2>5, <2>6 DEF Places
<1>9. CASE TmsWrite
  <2> DEFINE n == part.n
             e == IF part.eoi THEN 1 ELSE 0
  <2>1. /\ UNCHANGED <<pos, last, skew>> /\ put' = 0 /\ pc = "a_arm" /\ pc \in InPart /\ pc \notin ByByte
        /\ goal' = pos + 1 \/ goal' = pos + n - e
    BY <1>9 DEF TmsWrite, PioWrite, InPart, ByByte
  <2>2. PICK to \in 0 .. Length : n \in Nat \ {0} /\ Start + n <= to
    BY <2>1, Ahead, LengthAssumption
  <2>3. Start = pos + skew /\ e \in {0, 1}
    BY <2>1 DEF Start, Base
  <2> HIDE DEF n, e
  <2>4. goal' \in 0 .. Length
    <3>1. pos + 1 \in 0 .. Length /\ pos + n - e \in 0 .. Length
      BY <1>1, <2>2, <2>3
    <3> QED
      BY <2>1, <3>1
  <2> QED
    BY <1>1, <2>1, <2>4 DEF Places
<1>10. CASE TmsPut
  <2>1. UNCHANGED <<goal, last, skew>> /\ pos' = pos + 1 /\ put' = put + 1 /\ pc = "b_put"
    BY <1>10 DEF TmsPut, Goto
  <2>2. pos < goal
    BY <2>1 DEF Progress
  <2>3. pos + 1 \in 0 .. Length /\ put + 1 \in Nat
    BY <1>1, <2>2
  <2> QED
    BY <1>1, <2>1, <2>3 DEF Places
<1>11. CASE TmsDrain
  <2> DEFINE n == part.n
  <2>1. pc = "b_drain" /\ pc \in ByByte /\ pc \in InPart /\ UNCHANGED <<pos, last>>
    BY <1>11 DEF TmsDrain, ByByte, InPart
  <2>2. PICK to \in 0 .. Length : n \in Nat \ {0} /\ Start + n <= to
    BY <2>1, Ahead, LengthAssumption
  <2>3. Start = (pos + skew) - put
    BY <2>1 DEF Start, Base
  <2>4. put <= n /\ pos <= goal /\ (part.eoi => goal - pos + 1 <= n - put)
    BY <2>1 DEF Progress
  <2>5. CASE part.eoi /\ UNCHANGED <<put, skew>> /\ goal' = pos + 1
    <3> HIDE DEF n
    <3>1. pos + 1 \in 0 .. Length
      BY <1>1, <2>2, <2>3, <2>4, <2>5
    <3> QED
      BY <1>1, <2>1, <2>5, <3>1 DEF Places
  <2>6. CASE put' = 0 /\ goal' = goal /\ (skew' = skew \/ skew' = skew + n - put)
    <3> HIDE DEF n
    <3>1. skew' \in Nat
      BY <1>1, <2>2, <2>4, <2>6
    <3> QED
      BY <1>1, <2>1, <2>6, <3>1 DEF Places
  <2> QED
    BY <1>11, <2>5, <2>6 DEF TmsDrain, PioWrite, PartEnds
<1>12. ASSUME InWrite, UNCHANGED accel PROVE Places'
  <2>1. UNCHANGED <<skew, put>>
    BY <1>12 DEF accel
  <2>2. CASE PioWaits
    BY <1>2, <2>1, <2>2, HowPioWaitsEnd DEF Types
  <2>3. CASE WriteBegin
    <3>1. pos' = pos /\ last' \in {last, pos} /\ goal' \in {goal, goal - 1} /\ pc = "w_begin"
      BY <2>3 DEF WriteBegin, Goto
    <3>2. pos < goal
      BY <3>1 DEF Pio
    <3>3. goal - 1 \in 0 .. Length
      BY <1>1, <3>2
    <3> QED
      BY <1>1, <2>1, <3>1, <3>3 DEF Places
  <2>4. CASE PioPut
    <3>1. pos' = pos + 1 /\ last' = pos /\ goal' = goal /\ pc = "w_put"
      BY <2>4 DEF PioPut, Goto
    <3>2. pos < goal
      BY <3>1 DEF Pio
    <3>3. pos + 1 \in 0 .. Length
      BY <1>1, <3>2
    <3> QED
      BY <1>1, <2>1, <3>1, <3>3 DEF Places
  <2>5. CASE SendSeoi
    <3>1. pos' = pos /\ last' = pos /\ goal' = pos + 1 /\ pc = "w_seoi"
      BY <2>5 DEF SendSeoi, Goto
    <3>2. pos = goal /\ goal + 1 = Length
      BY <3>1 DEF Pio, InPio
    <3> QED
      BY <1>1, <2>1, <3>1, <3>2 DEF Places
  <2>6. CASE WriteReturn \/ WriteStop
    BY <1>2, <2>1, <2>6 DEF WriteReturn, WriteStop
  <2> QED
    BY <1>12, <2>2, <2>3, <2>4, <2>5, <2>6 DEF InWrite
<1>13. ASSUME Signal \/ Restart, UNCHANGED accel PROVE Places'
  BY <1>2, <1>13 DEF Signal, Restart, accel
<1>14. CASE BesideNow
  BY <1>2, <1>14 DEF BesideNow, accel
<1> QED
  BY <1>3, <1>4, <1>5, <1>6, <1>7, <1>8, <1>9, <1>10, <1>11, <1>12, <1>13, <1>14, WritingSteps

\* No byte goes out that is not of the transfer.
LEMMA TakenStep ==
  ASSUME pc \in Writing, Types, PartsInv, Still, Sums, Progress, FifoInv, Pio, Returned, Sums', AccelNext
  PROVE  Taken'
<1>1. /\ pos \in Nat /\ goal \in 0 .. Length /\ skew \in Nat /\ put \in Nat /\ Length \in Nat
      /\ out \in [byte : 0 .. Length, eoi : BOOLEAN] /\ accepted \in 0 .. Length /\ seoi \in BOOLEAN
  BY LengthAssumption DEF Types
<1>2. ASSUME UNCHANGED <<out, accepted>> PROVE Taken'
  BY <1>1, <1>2 DEF Taken
<1>3. ASSUME NEW b \in 0 .. Length, out' = [byte |-> b, eoi |-> seoi], accepted' = accepted PROVE Taken'
  BY <1>1, <1>3 DEF Taken
<1>4. CASE Quiet
  BY <1>2, <1>4, QuietFrame
<1>5. CASE Load \/ StopPart \/ TmsDrain
  BY <1>2, <1>5 DEF Load, WriteLoad, StopPart, TmsDrain, chip, bus
<1>6. CASE TmsPut
  <2>1. out' = [byte |-> pos + skew + 1, eoi |-> seoi] /\ accepted' = accepted /\ pos' = pos + 1 /\ skew' = skew
    BY <1>6 DEF TmsPut, bus
  <2>2. (pos + 1) + skew <= Length
    BY <2>1 DEF Sums
  <2>3. pos + skew + 1 \in 0 .. Length
    BY <1>1, <2>2
  <2> QED
    BY <1>3, <2>1, <2>3
<1>7. ASSUME PioWaits PROVE Taken'
  BY <1>2, <1>7, HowPioWaitsEnd DEF Types, bus
<1>8. ASSUME PioPut PROVE Taken'
  <2>1. out' = [byte |-> pos + 1, eoi |-> seoi] /\ accepted' = accepted /\ pc = "w_put"
    BY <1>8 DEF PioPut, Goto, bus
  <2>2. pos < goal
    BY <2>1 DEF Pio
  <2>3. pos + 1 \in 0 .. Length
    BY <1>1, <2>2
  <2> QED
    BY <1>3, <2>1, <2>3
<1>9. CASE Feed
  <2> DEFINE n == part.n
             f == Fed
  <2>1. /\ pc \in OnFifo /\ accepted' = accepted /\ f \in Nat /\ out'.byte = Base + f + 1
        /\ fifo # <<>> /\ Len(fifo) \in Nat \ {0}
    BY <1>9, Feeds DEF bus
  <2>2. pc \in InPart /\ pc \notin ByByte
    BY <2>1 DEF InPart, OnFifo, ByByte
  <2>3. PICK to \in 0 .. Length : n \in Nat \ {0} /\ Start + n <= to
    BY <2>2, Ahead, LengthAssumption
  <2>4. Start = pos + skew /\ Base = pos + skew
    BY <2>2 DEF Start, Base
  <2>5. f + 1 <= n
    <3>1. put <= n /\ f = put - Len(fifo)
      BY <2>1 DEF Progress, Fed
    <3> HIDE DEF n, f
    <3> QED
      BY <1>1, <2>1, <2>3, <3>1
  <2>6. out' \in [byte : Nat, eoi : BOOLEAN]
    <3> DEFINE h == Head(fifo)
               S == [byte : Nat, eoi : BOOLEAN]
    <3>1. h \in S
      <4>1. fifo \in Seq(S)
        BY <2>1 DEF FifoInv
      <4> HIDE DEF S
      <4> QED
        BY <2>1, <4>1, HeadTailProperties, ElementOfSeq
    <3>2. out' = [h EXCEPT !.eoi = @ \/ seoi]
      BY <1>9 DEF Feed
    <3> HIDE DEF h
    <3>3. h.eoi \/ seoi \in BOOLEAN
      BY <1>1, <3>1
    <3> QED
      BY <3>1, <3>2, <3>3
  <2> HIDE DEF n, f
  <2>7. out'.byte \in 0 .. Length
    <3>1. Base + f + 1 \in 0 .. Length
      BY <1>1, <2>1, <2>3, <2>4, <2>5
    <3> QED
      BY <2>1, <3>1
  <2>8. out' \in [byte : 0 .. Length, eoi : BOOLEAN]
    BY <2>6, <2>7
  <2> QED
    BY <1>1, <2>1, <2>8 DEF Taken
<1>10. CASE BesideNow
  <2>1. NoByte \in [byte : 0 .. Length, eoi : BOOLEAN]
    BY <1>1 DEF NoByte
  <2>2. CASE RaiseFreeDO \/ DeviceClear \/ ChangeNecAtn \/ Expire \/ WatchdogTimeout
    BY <1>2, <2>2 DEF RaiseFreeDO, RaiseDO, DeviceClear, ChangeNecAtn, ChangeAtn, Expire, WatchdogTimeout, chip, bus
  <2>3. CASE Interrupt
    BY <1>2, <2>3, InterruptNotes DEF bus
  <2>4. CASE Accept \/ BusError
    <3>1. out' = NoByte /\ accepted' \in {accepted, out.byte}
      BY <2>4 DEF Accept, BusError, bus
    <3> QED
      BY <1>1, <2>1, <3>1 DEF Taken
  <2> QED
    BY <1>10, <2>2, <2>3, <2>4 DEF BesideNow, Beside
<1> QED
  BY <1>4, <1>5, <1>6, <1>7, <1>8, <1>9, <1>10, QuietSteps

\* Results and bits are those that there are.
LEMMA NoticedStep ==
  ASSUME pc \in Writing, Types, PartsInv, Still, FifoInv, Returned, AccelNext
  PROVE  Noticed'
<1>1. ret \in Results /\ status \subseteq {"TIMO", "ATN"} /\ ints \subseteq Interrupts
  BY DEF Types
<1>2. ASSUME ret' \in Results \/ ret' = ret, UNCHANGED <<status, ints>> PROVE Noticed'
  BY <1>1, <1>2 DEF Noticed
<1>3. CASE Load
  <2>1. UNCHANGED <<ret, ints>> /\ status' \subseteq status
    BY <1>3 DEF Load, WriteLoad, StartTimer, chip
  <2> QED
    BY <1>1, <2>1 DEF Noticed
<1>4. CASE CallWrite \/ Restarted \/ FillFifo \/ StopPart \/ PioPart \/ TmsWrite \/ TmsPut
  BY <1>2, <1>4 DEF CallWrite, Restarted, FillFifo, StopPart, PioPart, TmsWrite, TmsPut, chip
<1>5. CASE Waits
  <2>1. pc \in InPart
    BY <1>5 DEF InPart, OnFifo, ByByte, Waits, PartBegin, FillFails, PartSent, LastByteSent, TmsWait, Wait
  <2>2. UNCHANGED <<status, ints>> /\ ret' \in Errors \cup {"ok"}
    BY <1>5, <2>1, OnBoard, HowWaitsEnd DEF Waited
  <2> QED
    BY <1>2, <2>2 DEF Errors, Results
<1>6. CASE Arm
  <2>1. UNCHANGED <<ret, status>> /\ ints' \subseteq ints
    BY <1>6 DEF Arm
  <2> QED
    BY <1>1, <2>1 DEF Noticed
<1>7. CASE TmsDrain
  <2>1. UNCHANGED <<status, ints>> /\ ret' \in Results
    BY <1>7, DrainResults DEF TmsDrain
  <2> QED
    BY <1>2, <2>1
<1>8. ASSUME InWrite PROVE Noticed'
  <2>1. CASE PioWaits
    <3>1. UNCHANGED <<status, ints>> /\ ret' \in Errors \cup {"ok", ret}
      BY <1>1, <2>1, HowPioWaitsEnd
    <3> QED
      BY <1>2, <3>1 DEF Errors, Results
  <2>2. CASE WriteBegin \/ PioPut \/ SendSeoi \/ WriteReturn \/ WriteStop
    <3>1. UNCHANGED <<status, ints>> /\ ret' \in {ret, "ETIMEDOUT", "ok"}
      BY <2>2 DEF WriteBegin, PioPut, SendSeoi, WriteReturn, WriteStop, chip
    <3> QED
      BY <1>2, <3>1 DEF Results
  <2> QED
    BY <1>8, <2>1, <2>2 DEF InWrite
<1>9. CASE Signal \/ Restart \/ AccelSignal
  <2>1. UNCHANGED <<status, ints>> /\ ret' \in {"ERESTARTSYS", "ok", "EINTR"}
    BY <1>9 DEF Signal, Restart, AccelSignal, chip
  <2> QED
    BY <1>2, <2>1 DEF Results
<1>10. CASE Feed
  <2>1. UNCHANGED <<ret, status>> /\ ints' \subseteq ints \cup {"TC"}
    BY <1>10 DEF Feed, caller
  <2> QED
    BY <1>1, <2>1 DEF Noticed, Interrupts
<1>11. CASE BesideNow
  <2>1. ret' = ret
    BY <1>11 DEF BesideNow
  <2>2. CASE RaiseFreeDO \/ Accept \/ BusError \/ DeviceClear \/ ChangeNecAtn \/ Expire \/ WatchdogTimeout
    <3>1. status' \subseteq status \cup {"TIMO"} /\ ints' \subseteq ints \cup {"DO", "ERR", "DEC"}
      BY <2>2 DEF RaiseFreeDO, RaiseDO, Accept, BusError, DeviceClear, ChangeNecAtn, ChangeAtn, Expire, WatchdogTimeout, chip
    <3> QED
      BY <1>1, <2>1, <3>1 DEF Noticed, Interrupts
  <2>3. CASE Interrupt
    <3>1. status' \subseteq status \cup {"ATN"} /\ ints' = {}
      BY <2>3, InterruptNotes
    <3> QED
      BY <1>1, <2>1, <3>1 DEF Noticed
  <2> QED
    BY <1>11, <2>2, <2>3 DEF BesideNow, Beside
<1> QED
  BY <1>3, <1>4, <1>5, <1>6, <1>7, <1>8, <1>9, <1>10, <1>11, WritingSteps

LEMMA TypesStep ==
  ASSUME pc \in Writing, Types, PartsInv, Still, Sums, Progress, FifoInv, Pio, Returned, Sums', AccelNext
  PROVE  Types'
<1>1. driver' \in Drivers
  BY DriverStays DEF Types
<1>2. signals' \in Nat /\ errors' \in Nat /\ atns' \in Nat
  <2>1. /\ signals \in Nat /\ errors \in Nat /\ atns \in Nat
        /\ signals + 1 \in Nat /\ errors + 1 \in Nat /\ atns + 1 \in Nat
    BY DEF Types
  <2> QED
    BY <2>1, CountsGrow
<1> QED
  BY <1>1, <1>2, FlagsStep, PlacesStep, TakenStep, NoticedStep, TypesNamed

-----------------------------------------------------------------------------
(* The invariant of the writes, and what it shows.                           *)

WriteAll ==
  /\ Types /\ PartsInv /\ Still /\ Sums /\ EoiInv /\ Progress /\ FifoInv /\ Pio /\ Returned /\ Bits
  /\ Terminal /\ Armed /\ Eoi /\ Level /\ Resends /\ Sent

\* A read has nothing of a write.
Unwritten == accepted = 0 /\ ~heard_end /\ ~gap /\ put = 0 /\ skew = 0

WriteInv ==
  /\ Sides
  /\ pc \in Writing => WriteAll
  /\ pc \in Reading => Unwritten

LEMMA WriteInitially == AccelInit => WriteInv
<1> SUFFICES ASSUME AccelInit PROVE WriteInv
  OBVIOUS
<1>1. /\ pc \in {"w_load", "r_load"} /\ pos = 0 /\ goal = 0 /\ last = 0 /\ ret = "ok" /\ state = {} /\ ints = {}
      /\ out = NoByte /\ accepted = 0 /\ signals = 0 /\ errors = 0 /\ atns = 0 /\ driver \in Drivers
      /\ parts = <<>> /\ put = 0 /\ fifo = <<>> /\ skew = 0 /\ status = {}
      /\ eoi = FALSE /\ seoi = FALSE /\ ready = FALSE /\ stream = FALSE /\ atn = FALSE /\ heard_end = FALSE /\ gap = FALSE
      /\ end \in BOOLEAN /\ Length \in Nat \ {0}
  BY LengthAssumption DEF AccelInit, Init
<1>2. pc \notin InPart /\ pc \notin InPio /\ pc \notin OnFifo /\ pc \notin ByByte /\ pc \notin Returning
  BY <1>1 DEF InPart, InPio, OnFifo, ByByte, Returning
<1>3. Types
  <2>1. NoByte \in [byte : 0 .. Length, eoi : BOOLEAN]
    BY <1>1 DEF NoByte
  <2> QED
    <3>1. 0 \in 0 .. Length /\ out \in [byte : 0 .. Length, eoi : BOOLEAN]
      BY <1>1, <2>1
    <3>2. Places /\ Taken
      BY <1>1, <3>1 DEF Places, Taken
    <3>3. Noticed
      BY <1>1 DEF Noticed, Results
    <3>4. Flags
      BY <1>1 DEF Flags
    <3> QED
      BY <1>1, <3>2, <3>3, <3>4 DEF Types, Places, Taken, Noticed, Flags
<1>4. PartsInv
  BY <1>1, <1>2, EmptySeq DEF PartsInv, PioLast
<1>5. Still /\ Progress /\ FifoInv
  BY <1>1, <1>2 DEF Still, Progress, FifoInv
<1>6. Sums
  BY <1>1, <1>2, LengthAssumption DEF Sums
<1>7. EoiInv /\ Returned /\ Pio
  BY <1>1, <1>2 DEF EoiInv, Returned, Pio
<1>8. Bits /\ Terminal /\ Armed /\ Resends
  BY <1>1, <1>2 DEF Bits, Terminal, Armed, Resends
<1>9. Newest = 0 /\ Front = 0 /\ 0 # Length /\ Fed = 0
  <2>1. Len(fifo) = 0
    BY <1>1, EmptySeq
  <2> QED
    <3>1. Newest = 0 /\ 0 # Length
      BY <1>1 DEF Newest
    <3>a. pos = 0 /\ skew = 0
      BY <1>1
    <3>b. put = 0
      BY <1>1
    <3>c. Base = 0
      BY <3>a DEF Base
    <3>d. Fed = 0
      BY <3>b, <2>1 DEF Fed
    <3>2. Base = 0 /\ Fed = 0
      BY <3>c, <3>d
    <3>3. Front = 0
      BY <1>2, <3>2 DEF Front
    <3> QED
      BY <3>1, <3>2, <3>3
<1>10. Eoi /\ Level /\ Sent
  BY <1>1, <1>2, <1>9 DEF Eoi, Level, Sent
<1>11. Sides
  BY ReadInitially DEF ReadInv
<1> QED
  BY <1>1, <1>3, <1>4, <1>5, <1>6, <1>7, <1>8, <1>10, <1>11 DEF WriteInv, WriteAll, Unwritten

LEMMA WriteInvStep == WriteInv /\ [AccelNext]_allVars => WriteInv'
<1> SUFFICES ASSUME WriteInv, [AccelNext]_allVars PROVE WriteInv'
  OBVIOUS
<1>1. ASSUME AccelNext, pc \in Writing PROVE WriteInv'
  <2>1. WriteAll
    BY <1>1 DEF WriteInv
  <2> SUFFICES ASSUME Types, PartsInv, Still, Sums, EoiInv, Progress, FifoInv, Pio, Returned, Bits,
                      Terminal, Armed, Eoi, Level, Resends, Sent
               PROVE  WriteInv'
    BY <2>1 DEF WriteAll
  <2>2. Sums'
    BY <1>1, SumsStep
  <2>3. Types' /\ PartsInv' /\ Still' /\ EoiInv'
    BY <1>1, <2>2, TypesStep, PartsStep, StillStep, EoiInvStep
  <2>4. Progress' /\ FifoInv' /\ Pio' /\ Returned'
    BY <1>1, ProgressStep, FifoInvStep, PioInvStep, ReturnedStep
  <2>5. Bits' /\ Terminal' /\ Armed' /\ Eoi'
    BY <1>1, BitsStep, TerminalStep, ArmedStep, EoiStep
  <2>6. Level' /\ Resends' /\ Sent'
    BY <1>1, <2>2, LevelStep, ResendsStep, SentStep
  <2>7. Sides' /\ pc' \notin Reading
    BY <1>1, SidesStep, InWriting, LabelsApart DEF WriteInv
  <2> QED
    BY <2>2, <2>3, <2>4, <2>5, <2>6, <2>7 DEF WriteInv, WriteAll
<1>2. ASSUME AccelNext, pc \in Reading PROVE WriteInv'
  <2>1. /\ ReadStep \/ TimerStep \/ InterruptStep \/ TalkerSend \/ ReadBus
        /\ pc' \in Reading /\ UNCHANGED accel
    BY <1>2, InReading DEF WriteInv
  <2>2. UNCHANGED <<accepted, heard_end, gap>>
    BY <2>1 DEF ReadStep, ReadLoad, ReadBegin, PioRead, PioCheck, ReadReturn, TimerStep, Expire,
       WatchdogTimeout, InterruptStep, Interrupt, TalkerSend, ReadBus, DeviceClear, Signal, ChangeAtn, Restart, bus
  <2>3. Sides' /\ pc' \notin Writing
    BY <1>2, <2>1, SidesStep, LabelsApart DEF WriteInv
  <2>4. Unwritten'
    BY <1>2, <2>1, <2>2 DEF WriteInv, Unwritten, accel
  <2> QED
    BY <2>3, <2>4 DEF WriteInv
<1>3. CASE UNCHANGED allVars
  <2> USE DEF allVars, vars, caller, timer, chip, bus, counts, accel
  <2>1. Sides'
    BY <1>3 DEF WriteInv, Sides
  <2>2. ASSUME WriteAll PROVE Types' /\ PartsInv' /\ Still' /\ Sums'
    <3>1. Types'
      BY <1>3, <2>2 DEF WriteAll, Types
    <3>2. PartsInv'
      BY <1>3, <2>2 DEF WriteAll, PartsInv, PioLast, Ways, part
    <3>3. Still'
      BY <1>3, <2>2 DEF WriteAll, Still
    <3>4. Sums'
      BY <1>3, <2>2 DEF WriteAll, Sums, Start, Base
    <3> QED
      BY <3>1, <3>2, <3>3, <3>4
  <2>3. ASSUME WriteAll PROVE EoiInv' /\ Progress' /\ FifoInv' /\ Pio'
    <3>1. EoiInv' /\ Progress'
      BY <1>3, <2>3 DEF WriteAll, EoiInv, Progress, part
    <3>2. FifoInv'
      BY <1>3, <2>3 DEF WriteAll, FifoInv, Base, Fed, part
    <3>3. Pio'
      BY <1>3, <2>3 DEF WriteAll, Pio
    <3> QED
      BY <3>1, <3>2, <3>3
  <2>4. ASSUME WriteAll PROVE Returned' /\ Bits' /\ Terminal' /\ Armed'
    <3>1. Returned'
      BY <1>3, <2>4 DEF WriteAll, Returned, Straight, Failed, Failures, part
    <3>2. Bits'
      BY <1>3, <2>4 DEF WriteAll, Bits
    <3>3. Terminal' /\ Armed'
      BY <1>3, <2>4 DEF WriteAll, Terminal, Armed, Straight, Failed, Fed, part
    <3> QED
      BY <3>1, <3>2, <3>3
  <2>5. ASSUME WriteAll PROVE Eoi' /\ Level' /\ Resends' /\ Sent'
    <3>1. Eoi'
      BY <1>3, <2>5 DEF WriteAll, Eoi, Straight, Newest, Front, Base, Fed
    <3>2. Level'
      BY <1>3, <2>5 DEF WriteAll, Level, Borne, GivenUp, Failed, Lost, Newest, Front, Base, Fed
    <3>3. Resends' /\ Sent'
      BY <1>3, <2>5 DEF WriteAll, Resends, Sent, Newest, Base, Fed
    <3> QED
      BY <3>1, <3>2, <3>3
  <2>6. WriteAll => WriteAll'
    BY <2>2, <2>3, <2>4, <2>5 DEF WriteAll
  <2>7. (pc' \in Writing => pc \in Writing) /\ (pc' \in Reading => pc \in Reading)
    BY <1>3
  <2>8. Unwritten => Unwritten'
    BY <1>3 DEF Unwritten
  <2> QED
    BY <2>1, <2>6, <2>7, <2>8 DEF WriteInv
<1>4. pc \in Writing \/ pc \in Reading
  BY DEF WriteInv, Sides
<1> QED
  BY <1>1, <1>2, <1>3, <1>4

LEMMA WriteInvariant == AccelSpec => []WriteInv
<1> QED
  BY WriteInitially, WriteInvStep, PTL DEF AccelSpec

\* EOI goes with the last byte of the transfer and no other, into whatever parts the driver
\* cuts the loads and however signals cut up the transfer, for every length and every size
\* of the buffer and the FIFO; a tms9914 is excepted once a signal came.
THEOREM EoiGoesWithLast == AccelSpec => []EoiWithLast
<1>1. WriteInv => EoiWithLast
  <2> SUFFICES ASSUME WriteInv, ~Astray PROVE EoiOnLastByte
    BY DEF EoiWithLast
  <2>1. CASE pc \in Writing
    <3>1. Types /\ Eoi
      BY <2>1 DEF WriteInv, WriteAll
    <3>2. Straight
      BY <3>1 DEF Types, Astray, Straight
    <3> QED
      BY <3>1, <3>2 DEF Eoi, EoiOnLastByte
  <2>2. CASE pc \in Reading
    BY <2>2, LengthAssumption DEF WriteInv, Unwritten, EoiOnLastByte
  <2> QED
    BY <2>1, <2>2 DEF WriteInv, Sides
<1> QED
  BY <1>1, WriteInvariant, PTL

\* The listener misses a byte only if one was lost on the bus, or, on the drivers that count
\* wrongly, if a signal cut the transfer up; on a nec7210, which sends a lost byte again, only
\* if a signal or a new controller came on top of it.
THEOREM OnlyErrorsLoseBytes == AccelSpec => []MissedAfterError
<1>1. WriteInv => MissedAfterError
  <2> SUFFICES ASSUME WriteInv, gap PROVE MissedAfterError
    BY DEF MissedAfterError
  <2>1. pc \in Writing
    BY DEF WriteInv, Sides, Unwritten
  <2>2. Types /\ Level
    BY <2>1 DEF WriteInv, WriteAll
  <2>3. ~Borne /\ signals \in Nat /\ errors \in Nat /\ atns \in Nat
    BY <2>2 DEF Level, Types
  <2>4. signals # 0 \/ atns # 0 => signals + atns > 0
    BY <2>3
  <2> QED
    BY <2>3, <2>4 DEF Borne, MissedAfterError, ResentAfterError
<1> QED
  BY <1>1, WriteInvariant, PTL

\* A write that reports success has sent everything, whatever it met on the way; ines is
\* excepted, which counts what it has not sent.
THEOREM SuccessIsSentInFull == AccelSpec => []SentInFull
<1>1. WriteInv => SentInFull
  <2> SUFFICES ASSUME WriteInv, pc = "w_done", ret = "ok", ~(errors > 0), driver # "ines"
               PROVE  accepted = Length \/ out.byte = Length
    BY DEF SentInFull
  <2>1. Types /\ Pio /\ Sent
    BY DEF WriteInv, WriteAll, Writing
  <2>2. errors = 0 /\ pos = Length
    BY <2>1 DEF Types, Pio
  <2>3. Newest = Length
    BY <2>1, <2>2 DEF Sent
  <2> QED
    BY <2>3 DEF Newest
<1> QED
  BY <1>1, WriteInvariant, PTL

-----------------------------------------------------------------------------
(* Types, of reads and writes.                                               *)

\* The bits of priv->state.
States == {"READ_READY", "WRITE_READY", "RFD_HOLDOFF", "RECEIVED_END",
           "DEV_CLEAR", "BUS_ERROR", "TERM_COUNT"}

\* The timer, the chip's side of a read, and the bits that the handler notes.
Hardware ==
  /\ pending \in BOOLEAN /\ firing \in BOOLEAN /\ held \in BOOLEAN /\ in \in Bytes
  /\ state \subseteq States
\* What happens from outside, within the bounds.
Disturbances ==
  /\ signals \in 0 .. MaxSignals /\ clears \in 0 .. MaxClears
  /\ errors \in 0 .. MaxErrors /\ atns \in 0 .. MaxAtn

\* How far a read is.
ReadPlaces ==
  /\ Len(user) = pos
  /\ pc = "r_load" => pos < Length
  /\ pc \in {"r_begin", "r_wait", "r_check", "r_ret"} =>
       pos < goal /\ goal <= pos + BufferLength /\ pos + Len(buf) <= goal
  /\ pc = "r_wait" => pos + Len(buf) < goal
  /\ pc = "r_done" /\ ret = "ERESTARTSYS" => pos < Length

\* A driver's step leaves the timer and the counts alone, and sets no bit of its own.
LEMMA WaitQuiet ==
  ASSUME NEW from, NEW condition, NEW tests, NEW consumes, NEW next, NEW failed,
         Wait(from, condition, tests, consumes, next, failed)
  PROVE  UNCHANGED <<timer, counts>> /\ state' \subseteq state
BY DEF Wait

LEMMA AccelQuiet == AccelStep => UNCHANGED <<timer, counts>> /\ state' \subseteq state
<1> SUFFICES ASSUME AccelStep PROVE UNCHANGED <<timer, counts>> /\ state' \subseteq state
  OBVIOUS
<1>1. CASE CallWrite
  BY <1>1 DEF CallWrite
<1>2. CASE PartBegin
  BY <1>2, WaitQuiet DEF PartBegin
<1>3. CASE Arm
  BY <1>3 DEF Arm
<1>4. CASE RestartWriteFifo
  <2>1. CASE Goto("a_restart", "a_done") /\ UNCHANGED <<timer, state, counts>>
    BY <2>1
  <2>2. CASE Wait("a_restart", FALSE, ClearOrTimo, {}, "a_done", "a_stop")
    BY <2>2, WaitQuiet
  <2> QED
    BY <1>4, <2>1, <2>2 DEF RestartWriteFifo
<1>5. CASE FillFifo
  BY <1>5 DEF FillFifo
<1>6. CASE FillFails
  BY <1>6, WaitQuiet DEF FillFails
<1>7. CASE PartSent
  BY <1>7, WaitQuiet DEF PartSent
<1>8. CASE LastByteSent
  BY <1>8, WaitQuiet DEF LastByteSent
<1>9. CASE StopPart
  BY <1>9 DEF StopPart
<1>10. CASE PioPart
  BY <1>10 DEF PioPart
<1>11. CASE TmsWrite
  BY <1>11 DEF TmsWrite
<1>12. CASE TmsWait
  BY <1>12, WaitQuiet DEF TmsWait
<1>13. CASE TmsPut
  BY <1>13 DEF TmsPut
<1>14. CASE TmsDrain
  BY <1>14 DEF TmsDrain
<1> QED
  BY <1>1, <1>2, <1>3, <1>4, <1>5, <1>6, <1>7, <1>8, <1>9, <1>10, <1>11, <1>12, <1>13, <1>14 DEF AccelStep

\* What the steps of module Transfer do to the timer, the counts and the bits.
LEMMA LoopQuiet ==
  Load \/ PioStep =>
    /\ UNCHANGED counts /\ state' \subseteq state
    /\ pending' \in BOOLEAN \cup {pending} /\ firing' = firing
<1>1. ASSUME NEW from, NEW next, WriteWait(from, next) PROVE state' \subseteq state
  BY <1>1 DEF WriteWait
<1>2. CASE Load \/ WriteLoad \/ ReadLoad
  BY <1>2 DEF Load, WriteLoad, ReadLoad, StartTimer
<1>3. CASE PioWait
  <2>1. state' \subseteq state
    BY <1>1, <1>3 DEF PioWait
  <2> QED
    BY <1>3, <2>1 DEF PioWait, timer
<1>4. CASE PioDrain \/ EoiWait
  <2>1. state' \subseteq state
    <3>1. PioDrain => \E next \in {"w_eoi", "w_ret"} : WriteWait("w_drain", next)
      BY DEF PioDrain
    <3> QED
      BY <1>1, <1>4, <3>1 DEF EoiWait
  <2> QED
    BY <1>4, <2>1 DEF PioDrain, EoiWait, timer
<1>5. CASE WriteBegin \/ PioPut \/ SendSeoi \/ WriteReturn
  BY <1>5 DEF WriteBegin, PioPut, SendSeoi, WriteReturn, timer
<1>6. CASE WriteStop \/ ReadReturn
  BY <1>6 DEF WriteStop, ReadReturn, RemoveTimer
<1>7. CASE ReadBegin \/ PioRead \/ PioCheck
  BY <1>7 DEF ReadBegin, PioRead, PioCheck, ReleaseHoldoff, timer
<1> QED
  BY <1>2, <1>3, <1>4, <1>5, <1>6, <1>7 DEF PioStep

LEMMA NotedStates == ASSUME NEW bit \in Interrupts PROVE Noted(bit) \subseteq States
BY DEF Noted, Interrupts, States

LEMMA HardwareStep ==
  ASSUME Sides, Stores, ints \subseteq Interrupts, Hardware, AccelNext
  PROVE  Hardware'
<1>1. pending' \in BOOLEAN /\ firing' \in BOOLEAN /\ state' \subseteq States
  <2>1. pending \in BOOLEAN /\ firing \in BOOLEAN /\ state \subseteq States
    BY DEF Hardware
  <2>2. CASE AccelStep
    BY <2>1, <2>2, AccelQuiet DEF timer
  <2>3. CASE Load \/ PioStep
    <3>1. state' \subseteq state /\ firing' = firing /\ pending' \in BOOLEAN \cup {pending}
      BY <2>3, LoopQuiet
    <3> QED
      BY <2>1, <3>1
  <2>4. CASE Expire \/ WatchdogTimeout
    BY <2>1, <2>4 DEF Expire, WatchdogTimeout
  <2>5. CASE Interrupt
    <3>1. UNCHANGED timer /\ state' = state \cup UNION {Noted(bit) : bit \in ints}
      BY <2>5 DEF Interrupt
    <3>2. \A bit \in ints : Noted(bit) \subseteq States
      BY NotedStates
    <3>3. state' \subseteq States
      BY <2>1, <3>1, <3>2
    <3> QED
      BY <2>1, <3>1, <3>3 DEF timer
  <2>6. CASE RaiseDO \/ Accept \/ BusError \/ TalkerSend \/ DeviceClear \/ ChangeAtn
    BY <2>1, <2>6 DEF RaiseDO, Accept, BusError, TalkerSend, DeviceClear, ChangeAtn, timer
  <2>7. CASE Signal \/ Restart \/ AccelSignal \/ Feed
    BY <2>1, <2>7 DEF Signal, Restart, AccelSignal, Feed, timer
  <2> QED
    BY <2>2, <2>3, <2>4, <2>5, <2>6, <2>7 DEF AccelNext, IoctlStep, TimerStep, InterruptStep, BusStep
<1>2. held' \in BOOLEAN /\ in' \in Bytes
  <2>1. held \in BOOLEAN /\ in \in Bytes /\ NoByte \in Bytes
    BY DEF Hardware, Bytes, NoByte
  <2>2. CASE pc \in Writing
    BY <2>1, <2>2, InWriting DEF ReadVars
  <2>3. CASE pc \in Reading
    <3>1. ReadStep \/ TimerStep \/ InterruptStep \/ TalkerSend \/ ReadBus
      BY <2>3, InReading
    <3>2. CASE ReadLoad \/ ReadReturn
      BY <2>1, <3>2 DEF ReadLoad, ReadReturn, chip
    <3>3. CASE ReadBegin \/ PioRead \/ PioCheck
      BY <2>1, <3>3 DEF ReadBegin, PioRead, PioCheck, ReleaseHoldoff
    <3>4. CASE TimerStep \/ InterruptStep \/ ReadBus
      BY <2>1, <3>4 DEF TimerStep, Expire, WatchdogTimeout, InterruptStep, Interrupt, ReadBus, DeviceClear,
         Signal, ChangeAtn, Restart, chip
    <3>5. CASE TalkerSend
      <4>1. held' = TRUE /\ \E e \in BOOLEAN : in' = [byte |-> sent + 1, eoi |-> e]
        BY <3>5 DEF TalkerSend
      <4>2. sent + 1 \in Nat
        BY DEF Stores
      <4> QED
        BY <4>1, <4>2 DEF Bytes
    <3> QED
      BY <3>1, <3>2, <3>3, <3>4, <3>5 DEF ReadStep
  <2> QED
    BY <2>2, <2>3 DEF Sides
<1> QED
  BY <1>1, <1>2 DEF Hardware

\* No more happens than the bounds allow.
LEMMA DisturbancesStep ==
  ASSUME Disturbances, AccelNext
  PROVE  Disturbances'
<1>1. /\ signals \in 0 .. MaxSignals /\ clears \in 0 .. MaxClears
      /\ errors \in 0 .. MaxErrors /\ atns \in 0 .. MaxAtn
  BY DEF Disturbances
<1>2. ASSUME UNCHANGED counts PROVE Disturbances'
  BY <1>1, <1>2 DEF Disturbances, counts
<1>3. ASSUME NEW n \in Nat, NEW k \in 0 .. n, k < n PROVE k + 1 \in 0 .. n
  BY <1>3
<1>4. CASE Signal \/ AccelSignal
  <2>1. signals < MaxSignals /\ signals' = signals + 1 /\ UNCHANGED <<clears, errors, atns>>
    BY <1>4 DEF Signal, AccelSignal
  <2>2. signals + 1 \in 0 .. MaxSignals
    BY <1>1, <1>3, <2>1, BoundAssumption
  <2> QED
    BY <1>1, <2>1, <2>2 DEF Disturbances
<1>5. CASE BusError
  <2>1. errors < MaxErrors /\ errors' = errors + 1 /\ UNCHANGED <<signals, clears, atns>>
    BY <1>5 DEF BusError
  <2>2. errors + 1 \in 0 .. MaxErrors
    BY <1>1, <1>3, <2>1, BoundAssumption
  <2> QED
    BY <1>1, <2>1, <2>2 DEF Disturbances
<1>6. CASE DeviceClear
  <2>1. clears < MaxClears /\ clears' = clears + 1 /\ UNCHANGED <<signals, errors, atns>>
    BY <1>6 DEF DeviceClear
  <2>2. clears + 1 \in 0 .. MaxClears
    BY <1>1, <1>3, <2>1, BoundAssumption
  <2> QED
    BY <1>1, <2>1, <2>2 DEF Disturbances
<1>7. CASE ChangeAtn
  <2>1. atns < MaxAtn /\ atns' = atns + 1 /\ UNCHANGED <<signals, clears, errors>>
    BY <1>7 DEF ChangeAtn
  <2>2. atns + 1 \in 0 .. MaxAtn
    BY <1>1, <1>3, <2>1, BoundAssumption
  <2> QED
    BY <1>1, <2>1, <2>2 DEF Disturbances
<1>8. CASE RaiseDO \/ Accept \/ TalkerSend \/ Restart \/ Expire \/ WatchdogTimeout \/ Interrupt \/ Feed
  BY <1>2, <1>8 DEF RaiseDO, Accept, TalkerSend, Restart, Expire, WatchdogTimeout, Interrupt, Feed
<1>9. CASE Load \/ PioStep \/ AccelStep
  BY <1>2, <1>9, LoopQuiet, AccelQuiet
<1> QED
  BY <1>4, <1>5, <1>6, <1>7, <1>8, <1>9 DEF AccelNext, IoctlStep, TimerStep, InterruptStep, BusStep

\* A read fills the user's buffer no further than it may.
LEMMA ReadPlacesStep ==
  ASSUME pc \in Reading, Sides, Stores, Ended, Types, ReadPlaces, AccelNext
  PROVE  ReadPlaces'
<1>1. /\ ReadStep \/ TimerStep \/ InterruptStep \/ TalkerSend \/ ReadBus
      /\ pos \in 0 .. Length /\ goal \in 0 .. Length /\ Length \in Nat /\ BufferLength \in Nat \ {0}
      /\ sent \in Nat /\ buf \in Seq(1 .. sent) /\ user \in Seq(1 .. sent)
      /\ Len(buf) \in Nat /\ Len(user) = pos
  BY InReading, MoreBytes, LengthAssumption DEF Types, Stores, ReadPlaces
<1>2. ASSUME UNCHANGED <<pc, pos, goal, buf, user, ret>> PROVE ReadPlaces'
  BY <1>2 DEF ReadPlaces
<1>3. CASE ReadLoad
  <2>1. /\ pc = "r_load" /\ pc' = "r_begin" /\ goal' = LoadEnd /\ buf' = <<>> /\ UNCHANGED <<pos, user>>
    BY <1>3 DEF ReadLoad, Goto
  <2>2. LoadEnd = IF Length <= pos + BufferLength THEN Length ELSE pos + BufferLength
    <3>1. Length \in Int /\ pos + BufferLength \in Int
      BY <1>1
    <3> QED
      BY <3>1, Smaller DEF LoadEnd
  <2>3. pos < Length /\ Len(user) = pos
    BY <2>1 DEF ReadPlaces
  <2>4. pos < LoadEnd /\ LoadEnd <= pos + BufferLength /\ pos + 0 <= LoadEnd
    BY <1>1, <2>2, <2>3
  <2>5. Len(buf') = 0
    BY <2>1, EmptySeq
  <2> QED
    BY <2>1, <2>3, <2>4, <2>5 DEF ReadPlaces
<1>4. CASE ReadBegin
  <2>1. /\ pc = "r_begin" /\ pc' = "r_wait" /\ UNCHANGED <<goal, pos, user, buf>> /\ buf = <<>>
    BY <1>4 DEF ReadBegin, Goto, Ended
  <2>2. pos < goal /\ goal <= pos + BufferLength /\ pos + Len(buf) <= goal /\ Len(user) = pos
    BY <2>1 DEF ReadPlaces
  <2>3. pos + Len(buf) < goal
    BY <1>1, <2>1, <2>2, EmptySeq
  <2> QED
    BY <2>1, <2>2, <2>3 DEF ReadPlaces
<1>5. CASE PioRead
  <2>1. /\ pc = "r_wait" /\ pc' \in {"r_check", "r_ret"} /\ UNCHANGED <<goal, pos, user>>
        /\ buf' = buf \/ buf' = Append(buf, in.byte)
    BY <1>5 DEF PioRead, Goto, AfterByte
  <2>2. pos < goal /\ goal <= pos + BufferLength /\ pos + Len(buf) < goal /\ Len(user) = pos
    BY <2>1 DEF ReadPlaces
  <2>3. Len(buf') \in Nat /\ (Len(buf') = Len(buf) \/ Len(buf') = Len(buf) + 1)
    <3>1. ASSUME buf' = Append(buf, in.byte) PROVE Len(buf') = Len(buf) + 1
      <4>1. \A s \in Seq(1 .. sent) : \A b : Len(Append(s, b)) = Len(s) + 1
        OBVIOUS
      <4> QED
        BY <1>1, <3>1, <4>1
    <3> QED
      BY <1>1, <2>1, <3>1
  <2>4. ASSUME NEW l \in Nat, NEW m \in Nat, m = l \/ m = l + 1, pos + l < goal PROVE pos + m <= goal
    BY <1>1, <2>4
  <2>5. pos + Len(buf') <= goal
    BY <1>1, <2>2, <2>3, <2>4
  <2> QED
    BY <2>1, <2>2, <2>5 DEF ReadPlaces
<1>6. CASE PioCheck
  <2>1. /\ pc = "r_check" /\ UNCHANGED <<goal, pos, user, buf>>
        /\ (pc' = "r_wait" /\ pos + Len(buf) < goal) \/ pc' = "r_ret"
    BY <1>6 DEF PioCheck, Goto
  <2> QED
    BY <2>1 DEF ReadPlaces
<1>7. CASE ReadReturn
  <2>1. pc = "r_ret" /\ pos < goal /\ goal <= pos + BufferLength /\ pos + Len(buf) <= goal /\ ret' = ret
    BY <1>7 DEF ReadReturn, Goto, ReadPlaces
  <2>2. CASE ret = "ok"
    <3>1. /\ user' = user \o buf /\ pos' = pos + Len(buf)
          /\ pc' = IF pos' = Length \/ end THEN "r_done" ELSE "r_load"
      BY <1>7, <2>2 DEF ReadReturn, Goto
    <3>2. Len(user') = pos'
      <4>1. Len(user') = Len(user) + Len(buf)
        BY <1>1, <3>1, JoinBytes
      <4> QED
        BY <1>1, <3>1, <4>1
    <3>3. pc' = "r_load" => pos' < Length
      <4>1. ASSUME NEW l \in Nat, pos + l <= goal, pos + l # Length PROVE pos + l < Length
        BY <1>1, <4>1
      <4>2. pos + Len(buf) # Length => pos + Len(buf) < Length
        BY <1>1, <2>1, <4>1
      <4> QED
        BY <3>1, <4>2
    <3> QED
      BY <2>1, <2>2, <3>1, <3>2, <3>3 DEF ReadPlaces
  <2>3. CASE ret # "ok"
    <3>1. UNCHANGED <<user, pos>> /\ pc' = "r_done"
      BY <1>7, <2>3 DEF ReadReturn, Goto
    <3>2. pos < Length
      BY <1>1, <2>1
    <3> QED
      BY <1>1, <3>1, <3>2 DEF ReadPlaces
  <2> QED
    BY <2>2, <2>3
<1>8. CASE TimerStep \/ InterruptStep \/ TalkerSend \/ DeviceClear \/ ChangeAtn
  BY <1>2, <1>8 DEF TimerStep, Expire, WatchdogTimeout, InterruptStep, Interrupt, TalkerSend, DeviceClear, ChangeAtn,
     caller
<1>9. CASE Signal
  <2>1. pc = "r_wait" /\ pc' = "r_ret" /\ UNCHANGED <<goal, pos, user, buf>>
    BY <1>9 DEF Signal, Goto, Reading
  <2> QED
    BY <2>1 DEF ReadPlaces
<1>10. CASE Restart
  <2>1. pc = "r_done" /\ ret = "ERESTARTSYS" /\ pc' = "r_load" /\ UNCHANGED <<goal, pos, user, buf>>
    BY <1>10 DEF Restart, Goto, Reading
  <2> QED
    BY <2>1 DEF ReadPlaces
<1> QED
  BY <1>1, <1>3, <1>4, <1>5, <1>6, <1>7, <1>8, <1>9, <1>10 DEF ReadStep, ReadBus

\* What a read changes of the variables that writes use.
LEMMA ReadTypesStep ==
  ASSUME pc \in Reading, Sides, Stores, Unwritten, Types, Disturbances', ReadPlaces, AccelNext
  PROVE  Types'
<1>1. /\ ReadStep \/ TimerStep \/ InterruptStep \/ TalkerSend \/ ReadBus
      /\ UNCHANGED <<out, driver, skew, put, stream>>
  BY InReading DEF accel
<1>2. Flags /\ Places /\ Taken /\ Noticed /\ driver \in Drivers /\ Length \in Nat
  BY TypesNamed, LengthAssumption DEF Types
<1>3. driver' \in Drivers /\ signals' \in Nat /\ errors' \in Nat /\ atns' \in Nat
  <2>1. \A n \in Nat : \A k \in 0 .. n : k \in Nat
    OBVIOUS
  <2> QED
    BY <1>1, <1>2, <2>1, BoundAssumption DEF Disturbances
<1>4. UNCHANGED <<accepted, heard_end, gap, last, eoi, seoi, ready>>
  BY <1>1 DEF ReadStep, ReadLoad, ReadBegin, PioRead, PioCheck, ReadReturn, TimerStep, Expire, WatchdogTimeout,
     InterruptStep, Interrupt, TalkerSend, ReadBus, DeviceClear, Signal, ChangeAtn, Restart, caller, chip, bus
<1>5. Taken'
  BY <1>1, <1>2, <1>4 DEF Taken
<1>6. end' \in BOOLEAN /\ atn' \in BOOLEAN
  <2>1. end \in BOOLEAN /\ atn \in BOOLEAN
    BY <1>2 DEF Flags
  <2>2. CASE ReadStep
    <3>1. atn' = atn
      BY <2>2 DEF ReadStep, ReadLoad, ReadBegin, PioRead, PioCheck, ReadReturn, bus
    <3>2. CASE PioRead
      <4>1. end' = end \/ end' = ("RECEIVED_END" \in state)
        BY <3>2 DEF PioRead
      <4>2. ("RECEIVED_END" \in state) \in BOOLEAN
        OBVIOUS
      <4> QED
        BY <2>1, <3>1, <4>1, <4>2
    <3>3. CASE ReadLoad \/ ReadBegin \/ PioCheck \/ ReadReturn
      <4>1. end' = FALSE \/ end' = end
        BY <3>3 DEF ReadLoad, ReadBegin, PioCheck, ReadReturn
      <4> QED
        BY <2>1, <3>1, <4>1
    <3> QED
      BY <2>2, <3>2, <3>3 DEF ReadStep
  <2>3. CASE ~ReadStep
    <3>1. end' = end /\ (atn' = atn \/ atn' = ~atn)
      BY <1>1, <2>3 DEF TimerStep, Expire, WatchdogTimeout, InterruptStep, Interrupt, TalkerSend, ReadBus,
         DeviceClear, Signal, ChangeAtn, Restart, caller, bus
    <3> QED
      BY <2>1, <3>1
  <2> QED
    BY <2>2, <2>3
<1>7. Flags'
  BY <1>1, <1>2, <1>4, <1>6 DEF Flags
<1>8. Noticed'
  <2>1. ret \in Results /\ status \subseteq {"TIMO", "ATN"} /\ ints \subseteq Interrupts
    BY <1>2 DEF Noticed
  <2>2. ret' \in Results
    BY <1>1, <2>1 DEF Results, ReadError, ReadStep, ReadLoad, ReadBegin, PioRead, PioCheck, ReadReturn, TimerStep, Expire,
       WatchdogTimeout, InterruptStep, Interrupt, TalkerSend, ReadBus, DeviceClear, Signal, ChangeAtn, Restart, caller
  <2>3. status' \subseteq {"TIMO", "ATN"}
    BY <1>1, <2>1 DEF StartTimer, ReadStep, ReadLoad, ReadBegin, PioRead, PioCheck, ReadReturn, TimerStep, Expire,
       WatchdogTimeout, InterruptStep, Interrupt, TalkerSend, ReadBus, DeviceClear, Signal, ChangeAtn, Restart
  <2>4. ints' \subseteq ints \cup {"DI", "END", "DEC"}
    BY <1>1 DEF ReadStep, ReadLoad, ReadBegin, PioRead, PioCheck, ReadReturn, TimerStep, Expire,
       WatchdogTimeout, InterruptStep, Interrupt, TalkerSend, ReadBus, DeviceClear, Signal, ChangeAtn, Restart, chip
  <2> QED
    BY <2>1, <2>2, <2>3, <2>4 DEF Noticed, Interrupts
<1>9. Places'
  <2>1. pos \in 0 .. Length /\ goal \in 0 .. Length /\ last \in 0 .. Length /\ skew \in Nat /\ put \in Nat
    BY <1>2 DEF Places
  <2>2. CASE ReadLoad
    <3>1. goal' = LoadEnd /\ pos' = pos
      BY <2>2 DEF ReadLoad
    <3>2. LoadEnd = IF Length <= pos + BufferLength THEN Length ELSE pos + BufferLength
      <4>1. Length \in Int /\ pos + BufferLength \in Int
        BY <2>1, LengthAssumption
      <4> QED
        BY <4>1, Smaller DEF LoadEnd
    <3>3. LoadEnd \in 0 .. Length
      BY <1>2, <2>1, <3>2, LengthAssumption
    <3> QED
      BY <1>1, <1>4, <2>1, <3>1, <3>3 DEF Places
  <2>3. CASE ReadReturn
    <3>1. goal' = goal /\ pos' \in {pos, pos + Len(buf)} /\ pos + Len(buf) <= goal
      BY <2>3 DEF ReadReturn, Goto, ReadPlaces
    <3>2. Len(buf) \in Nat
      BY MoreBytes DEF Stores
    <3>a. ASSUME NEW l \in Nat, pos + l <= goal PROVE pos + l \in 0 .. Length
      BY <1>2, <2>1, <3>a
    <3>3. pos + Len(buf) \in 0 .. Length
      BY <3>1, <3>2, <3>a
    <3> QED
      BY <1>1, <1>4, <2>1, <3>1, <3>3 DEF Places
  <2>4. CASE ~(ReadLoad \/ ReadReturn)
    <3>1. UNCHANGED <<goal, pos>>
      BY <1>1, <2>4 DEF ReadStep, ReadBegin, PioRead, PioCheck, TimerStep, Expire,
         WatchdogTimeout, InterruptStep, Interrupt, TalkerSend, ReadBus, DeviceClear, Signal, ChangeAtn, Restart, caller
    <3> QED
      BY <1>1, <1>4, <2>1, <3>1 DEF Places
  <2> QED
    BY <2>2, <2>3, <2>4
<1> QED
  BY <1>3, <1>5, <1>7, <1>8, <1>9, TypesNamed

\* The invariant: reads and writes each keep theirs, and what is left are types.
TypeInv ==
  /\ ReadInv /\ WriteInv /\ Types /\ Hardware /\ Disturbances
  /\ pc \in Reading => ReadPlaces

LEMMA TypeInitially == AccelInit => TypeInv
<1> SUFFICES ASSUME AccelInit PROVE TypeInv
  OBVIOUS
<1>1. ReadInv /\ WriteInv
  BY ReadInitially, WriteInitially
<1>2. /\ pc \in {"w_load", "r_load"} /\ pos = 0 /\ user = <<>> /\ pending = FALSE /\ firing = FALSE
      /\ held = FALSE /\ in = NoByte /\ state = {} /\ signals = 0 /\ clears = 0 /\ errors = 0 /\ atns = 0
      /\ Length \in Nat \ {0}
  BY LengthAssumption DEF AccelInit, Init
<1>3. Types
  <2>1. /\ goal = 0 /\ last = 0 /\ ret = "ok" /\ ints = {} /\ out = NoByte /\ accepted = 0 /\ driver \in Drivers
        /\ put = 0 /\ skew = 0 /\ status = {} /\ eoi = FALSE /\ seoi = FALSE /\ ready = FALSE /\ stream = FALSE
        /\ atn = FALSE /\ heard_end = FALSE /\ gap = FALSE /\ end \in BOOLEAN
    BY DEF AccelInit, Init
  <2>2. 0 \in 0 .. Length /\ out \in [byte : 0 .. Length, eoi : BOOLEAN]
    BY <1>2, <2>1 DEF NoByte
  <2>3. Places /\ Taken
    BY <1>2, <2>1, <2>2 DEF Places, Taken
  <2>4. Noticed /\ Flags
    BY <2>1 DEF Noticed, Results, Flags
  <2> QED
    BY <1>2, <2>1, <2>3, <2>4 DEF Types, Places, Taken, Noticed, Flags
<1>4. Hardware
  BY <1>2 DEF Hardware, Bytes, NoByte
<1>5. Disturbances
  BY <1>2, BoundAssumption DEF Disturbances
<1>6. ReadPlaces
  <2>1. Len(user) = 0
    BY <1>2, EmptySeq
  <2> QED
    BY <1>2, <2>1 DEF ReadPlaces
<1> QED
  BY <1>1, <1>3, <1>4, <1>5, <1>6 DEF TypeInv

LEMMA TypeInvStep == TypeInv /\ [AccelNext]_allVars => TypeInv'
<1> SUFFICES ASSUME TypeInv, [AccelNext]_allVars PROVE TypeInv'
  OBVIOUS
<1>1. ReadInv' /\ WriteInv'
  BY ReadInvStep, WriteInvStep DEF TypeInv
<1>2. ASSUME AccelNext PROVE TypeInv'
  <2>1. Sides /\ Stores /\ Types /\ Hardware /\ Disturbances /\ ints \subseteq Interrupts
    BY DEF TypeInv, ReadInv, Types
  <2>2. Hardware' /\ Disturbances'
    BY <1>2, <2>1, HardwareStep, DisturbancesStep
  <2>3. CASE pc \in Writing
    <3>1. pc' \in Writing /\ pc' \notin Reading
      BY <1>2, <2>3, InWriting, LabelsApart
    <3>2. Types'
      BY <1>1, <3>1 DEF WriteInv, WriteAll
    <3> QED
      BY <1>1, <2>2, <3>1, <3>2 DEF TypeInv
  <2>4. CASE pc \in Reading
    <3>1. Ended /\ Unwritten /\ ReadPlaces
      BY <2>4 DEF TypeInv, ReadInv, WriteInv
    <3>2. Types' /\ ReadPlaces'
      BY <1>2, <2>1, <2>2, <2>4, <3>1, ReadTypesStep, ReadPlacesStep
    <3> QED
      BY <1>1, <2>2, <3>2 DEF TypeInv
  <2> QED
    BY <2>1, <2>3, <2>4 DEF Sides
<1>3. CASE UNCHANGED allVars
  <2> USE DEF allVars, vars, caller, timer, chip, bus, counts, accel
  <2>1. Types'
    BY <1>3 DEF TypeInv, Types
  <2>2. Hardware' /\ Disturbances'
    BY <1>3 DEF TypeInv, Hardware, Disturbances
  <2>3. ReadPlaces => ReadPlaces'
    BY <1>3 DEF ReadPlaces
  <2>4. pc' = pc
    BY <1>3
  <2> QED
    BY <1>1, <2>1, <2>2, <2>3, <2>4 DEF TypeInv
<1> QED
  BY <1>2, <1>3

\* The bytes in the buffers are bytes that the talker may send.
LEMMA BytesOfTalker ==
  ASSUME NEW n \in Nat, NEW k \in 0 .. n, NEW s \in Seq(1 .. k)
  PROVE  s \in Seq(1 .. n) /\ Len(s) \in Nat
<1>1. 1 .. k \subseteq 1 .. n
  OBVIOUS
<1>2. s \in [1 .. Len(s) -> 1 .. k] /\ Len(s) \in Nat
  BY LenProperties
<1> QED
  BY <1>1, <1>2, SeqDef

\* No loop of a read runs past the end of its buffer.
LEMMA BuffersFit ==
  ASSUME TypeInv
  PROVE  /\ buf \in Seq(1 .. TalkerLength) /\ Len(buf) <= BufferLength
         /\ user \in Seq(1 .. TalkerLength) /\ Len(user) <= Length
         /\ sent \in 0 .. TalkerLength /\ ends \subseteq 1 .. sent
<1>1. /\ Sides /\ sent \in 0 .. TalkerLength /\ ends \subseteq 1 .. sent /\ buf \in Seq(1 .. sent)
      /\ user \in Seq(1 .. sent) /\ pos \in 0 .. Length
  BY DEF TypeInv, ReadInv, Stores, Types
<1>2. /\ buf \in Seq(1 .. TalkerLength) /\ user \in Seq(1 .. TalkerLength) /\ Len(buf) \in Nat
      /\ Length \in Nat /\ BufferLength \in Nat
  BY <1>1, BytesOfTalker, LengthAssumption
<1>3. CASE buf = <<>> /\ user = <<>>
  <2>1. Len(buf) = 0 /\ Len(user) = 0
    BY <1>3, EmptySeq
  <2> QED
    BY <1>1, <1>2, <2>1
<1>4. CASE pc \in Reading
  <2>1. Ended /\ ReadPlaces
    BY <1>4 DEF TypeInv, ReadInv
  <2>2. Len(user) <= Length
    BY <1>1, <1>2, <2>1 DEF ReadPlaces
  <2>3. CASE pc \in {"r_load", "r_done"}
    <3>1. Len(buf) = 0
      BY <2>1, <2>3, EmptySeq DEF Ended
    <3> QED
      BY <1>1, <1>2, <2>2, <3>1
  <2>4. CASE pc \in {"r_begin", "r_wait", "r_check", "r_ret"}
    <3>1. goal <= pos + BufferLength /\ pos + Len(buf) <= goal /\ goal \in 0 .. Length
      BY <2>1, <2>4 DEF ReadPlaces, TypeInv, Types
    <3>2. ASSUME NEW l \in Nat, pos + l <= goal PROVE l <= BufferLength
      BY <1>1, <1>2, <3>1, <3>2
    <3>3. Len(buf) <= BufferLength
      BY <1>2, <3>1, <3>2
    <3> QED
      BY <1>1, <1>2, <2>2, <3>3
  <2> QED
    BY <1>4, <2>3, <2>4 DEF Reading
<1> QED
  BY <1>1, <1>3, <1>4 DEF Sides

\* Nor does a driver put more into its FIFO than the part has, or other bytes than the user's.
LEMMA PartsFit ==
  ASSUME TypeInv
  PROVE  /\ parts \in Seq([how : {"fifo", "block", "bytes", "pio"}, n : 1 .. BufferLength, eoi : BOOLEAN])
         /\ put \in 0 .. (IF parts = <<>> THEN 0 ELSE part.n)
         /\ Len(fifo) <= put /\ \A i \in DOMAIN fifo : fifo[i].byte \in 1 .. Length
         /\ skew \in 0 .. BufferLength
<1> DEFINE Part_ == [how : {"fifo", "block", "bytes", "pio"}, n : 1 .. BufferLength, eoi : BOOLEAN]
<1>1. Sides /\ Types
  BY DEF TypeInv, ReadInv
<1>2. CASE pc \in Reading
  <2>1. parts = <<>> /\ fifo = <<>> /\ put = 0 /\ skew = 0
    BY <1>1, <1>2, LabelsApart DEF Sides, TypeInv, WriteInv, Unwritten
  <2>2. Len(fifo) = 0 /\ DOMAIN fifo = {} /\ parts \in Seq(Part_)
    BY <2>1, EmptySeq, LenProperties
  <2> QED
    BY <2>1, <2>2, LengthAssumption
<1>3. CASE pc \in Writing
  <2>1. PartsInv /\ Still /\ Sums /\ Progress /\ FifoInv
    BY <1>3 DEF TypeInv, WriteInv, WriteAll
  <2>2. parts \in Seq(Part_)
    <3>1. PartsBy(Ways) \subseteq Part_
      BY <1>1, WaysApart DEF PartsBy, Types
    <3>2. parts \in Seq(PartsBy(Ways))
      BY <2>1 DEF PartsInv
    <3> DEFINE few == PartsBy(Ways)
               many == Part_
    <3>3. few \subseteq many /\ parts \in Seq(few)
      BY <3>1, <3>2
    <3> HIDE DEF few, many
    <3>4. parts \in [1 .. Len(parts) -> few] /\ Len(parts) \in Nat
      BY <3>3, LenProperties
    <3>5. parts \in Seq(many)
      BY <3>3, <3>4, SeqDef
    <3> QED
      BY <3>5 DEF many
  <2>3. skew \in 0 .. BufferLength
    BY <1>1, <2>1, LengthAssumption DEF Types, Sums
  <2>4. CASE pc \notin OnFifo \cup ByByte
    <3>1. fifo = <<>> /\ put = 0
      BY <2>1, <2>4 DEF Still
    <3>2. Len(fifo) = 0 /\ DOMAIN fifo = {}
      BY <3>1, EmptySeq, LenProperties
    <3>3. parts # <<>> => part.n \in 1 .. BufferLength
      <4>1. parts # <<>> => part \in Part_
        <5> HIDE DEF Part_
        <5> QED
          BY <2>2, HeadTailProperties DEF part
      <4> QED
        BY <4>1
    <3>4. 0 \in 0 .. (IF parts = <<>> THEN 0 ELSE part.n)
      BY <3>3, LengthAssumption
    <3> QED
      BY <2>2, <2>3, <3>1, <3>2, <3>4
  <2>5. CASE pc \in OnFifo \cup ByByte
    <3>1. pc \in InPart /\ parts # <<>> /\ put <= part.n /\ put \in Nat
      BY <1>1, <2>1, <2>5 DEF InPart, PartsInv, Progress, Types
    <3>2. /\ part.n \in 1 .. BufferLength /\ Start \in Nat /\ Start + part.n <= Length
          /\ Length \in Nat /\ BufferLength \in Nat
      <4>1. PICK to \in 0 .. Length :
              part.n \in 1 .. BufferLength /\ Start \in 0 .. to /\ Start + part.n <= to
        BY <1>1, <2>1, <3>1, Ahead
      <4>2. ASSUME NEW s \in 0 .. to, NEW k \in 1 .. BufferLength, s + k <= to PROVE s \in Nat /\ s + k <= Length
        BY <4>2, LengthAssumption
      <4> HIDE DEF Start, part
      <4> QED
        BY <4>1, <4>2, LengthAssumption
    <3>3. put \in 0 .. (IF parts = <<>> THEN 0 ELSE part.n)
      BY <3>1, <3>2
    <3>4. Len(fifo) <= put /\ \A i \in DOMAIN fifo : fifo[i].byte \in 1 .. Length
      <4>1. CASE pc \in ByByte
        <5>1. fifo = <<>>
          BY <2>1, <4>1 DEF Still, OnFifo, ByByte
        <5>2. Len(fifo) = 0 /\ DOMAIN fifo = {}
          BY <5>1, EmptySeq, LenProperties
        <5> QED
          BY <3>1, <5>2
      <4>2. CASE pc \in OnFifo
        <5>1. /\ Start = Base /\ Len(fifo) <= put /\ Len(fifo) \in Nat /\ DOMAIN fifo = 1 .. Len(fifo)
              /\ \A i \in 1 .. Len(fifo) : fifo[i].byte = Base + Fed + i
          BY <2>1, <4>2, LenProperties DEF FifoInv, Start, OnFifo, ByByte
        <5>2. Fed = put - Len(fifo)
          BY DEF Fed
        <5> DEFINE l == Len(fifo)
                   b == Base
                   n == part.n
        <5>3. /\ l \in Nat /\ l <= put /\ b \in Nat /\ n \in Nat /\ b + n <= Length /\ put <= n
              /\ DOMAIN fifo = 1 .. l
              /\ \A i \in 1 .. l : fifo[i].byte = b + (put - l) + i
          BY <3>1, <3>2, <5>1, <5>2
        <5> HIDE DEF l, b, n
        <5>4. ASSUME NEW i \in 1 .. l PROVE fifo[i].byte \in 1 .. Length
          <6>1. b + (put - l) + i \in 1 .. Length
            BY <3>1, <3>2, <5>3
          <6> QED
            BY <5>3, <6>1
        <5> QED
          BY <5>1, <5>3, <5>4
      <4> QED
        BY <2>5, <4>1, <4>2
    <3> QED
      BY <2>2, <2>3, <3>3, <3>4
  <2> QED
    BY <2>4, <2>5
<1> QED
  BY <1>1, <1>2, <1>3 DEF Sides

\* Every variable stays within its type, no loop runs past the end of the buffer that it fills
\* or empties, and no part is overrun, whichever driver, lengths and disturbances.
THEOREM TypeCorrect == AccelSpec => []AccelTypeOK
<1>1. TypeInv => AccelTypeOK
  <2> SUFFICES ASSUME TypeInv PROVE AccelTypeOK
    OBVIOUS
  <2>1. Types /\ Hardware /\ Disturbances /\ Sides
    BY DEF TypeInv, ReadInv
  <2>2. TypeOK
    <3>1. pc \in Reading \cup Writing
      BY <2>1 DEF Sides
    <3>2. /\ ret \in Results /\ end \in BOOLEAN /\ eoi \in BOOLEAN
          /\ pos \in 0 .. Length /\ goal \in 0 .. Length /\ last \in 0 .. Length
          /\ status \subseteq {"TIMO", "ATN"} /\ ints \subseteq {"DO", "DI", "END", "ERR", "DEC", "TC"}
          /\ accepted \in 0 .. Length
      BY <2>1 DEF Types, Interrupts
    <3>3. out \in Bytes
      BY <2>1, LengthAssumption DEF Types, Bytes
    <3>4. {ready, seoi, held, atn, heard_end, gap} \subseteq BOOLEAN
      BY <2>1 DEF Types, Hardware
    <3>5. /\ pending \in BOOLEAN /\ firing \in BOOLEAN /\ in \in Bytes
          /\ state \subseteq {"READ_READY", "WRITE_READY", "RFD_HOLDOFF", "RECEIVED_END",
                              "DEV_CLEAR", "BUS_ERROR", "TERM_COUNT"}
      BY <2>1 DEF Hardware, States
    <3> QED
      BY <2>1, <3>1, <3>2, <3>3, <3>4, <3>5, BuffersFit DEF TypeOK, Disturbances
  <2> QED
    BY <2>1, <2>2, PartsFit DEF AccelTypeOK, Types
<1> QED
  BY <1>1, TypeInitially, TypeInvStep, PTL DEF AccelSpec
=============================================================================
