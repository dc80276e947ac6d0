--------------------------- MODULE Control_proofs ---------------------------
(***************************************************************************)
(* Proofs about Control, for commands and buffers of any length.           *)
(***************************************************************************)
EXTENDS Control, TLAPS

Flags == master \in BOOLEAN /\ atn \in BOOLEAN

CmdLabels == {"cmd", "accept", "c_wait", "c_put", "c_last", "stop"}
PollLabels == {"rpp", "poll", "epp", "p_wait", "p_result", "p_stop"}
WriteLabels == {"w_begin", "w_wait", "w_put", "w_last", "w_stop"}

\* The labels of an ioctl.
Places ==
  /\ chip \in {"nec7210", "tms9914"}
  /\ op \in Ops \cup {NoOp}
  /\ \/ pc = "idle" /\ op = NoOp
     \/ pc \in CmdLabels /\ op.name = "IBCMD"
     \/ pc \in PollLabels /\ op.name = "IBRPP"
     \/ pc \in WriteLabels /\ op.name = "IBWRT"
     \/ pc \in {"cac", "tca"} /\ op.name \in {"IBCMD", "IBRPP", "IBCAC"}
     \/ pc \in {"gts", "gts_wait"} /\ op.name \in {"IBGTS", "IBWRT"}
     \/ pc = "end" /\ op.name \in {"IBCMD", "IBRPP", "IBCAC", "IBGTS", "IBWRT"}

Bits ==
  /\ ret \in {"ok", "EINVAL", "ETIMEDOUT", "ENOTCONN", "ERESTARTSYS", "EIO"}
  /\ status \subseteq {"CIC", "TIMO"}
  /\ state \subseteq {"COMMAND_READY", "WRITE_READY", "BUS_ERROR"}
  /\ ints \subseteq {"CO", "DO", "BO", "ERR", "IFC"}
  /\ seen \subseteq {"CO", "DO", "BO", "ERR", "IFC"}

\* A load is never larger than the buffer, nor than what is left of the command.
Counts ==
  /\ completed \in Nat /\ written \in Nat /\ accepted \in 0 .. Length
  /\ completed + written <= Length
  /\ pc \in {"c_wait", "c_put"} => written < Load
  /\ pc \in {"c_last", "stop"} => written <= Load
  /\ pc \notin {"c_wait", "c_put", "c_last", "stop"} => written = 0

\* A byte in the chip is one of the ioctl under way, that it has counted.
Bytes ==
  /\ out = NoByte \/ out \in [i : 1 .. Length, cmd : BOOLEAN]
  /\ out # NoByte => \/ op.name = "IBCMD" /\ out.cmd /\ out.i = completed + written
                     \/ /\ op.name = "IBWRT" /\ ~out.cmd /\ out.i = 1 /\ accepted = 0
                        /\ pc \in {"w_last", "w_stop", "end"}
  /\ op.name = "IBWRT" /\ pc \notin {"w_last", "w_stop", "end"} => accepted = 0

\* The chip keeps ATN for as long as a command lasts, and lets it go for data.
Lines ==
  /\ atn => cic
  /\ op.name = "IBCMD" /\ cic /\ ~atn => completed + written = 0 /\ accepted = 0 /\ out = NoByte
  /\ pc \in {"accept", "c_wait", "c_put", "c_last"} /\ cic => atn
  /\ pc \in WriteLabels /\ master => ~atn
  /\ op.name = "IBWRT" /\ out # NoByte /\ master => ~atn

\* The chip has said, or the handler is about to find, that it is ready for a command.
Signalled ==
  \/ "COMMAND_READY" \in state \/ "CO" \in ints \cup seen
  \/ atn /\ "BO" \in ints \cup seen

\* All that was written was accepted, but for the byte in the chip.
Order ==
  /\ ~lost
  /\ bad => erred \/ ~cic \/ ~master
  /\ pc = "idle" => ~bad
  /\ pc = "c_put" => out = NoByte
  /\ op.name = "IBCMD" /\ Signalled => out = NoByte
  /\ op.name = "IBCMD" /\ ~erred /\ cic =>
       accepted = IF out = NoByte THEN completed + written ELSE completed + written - 1
  /\ op.name = "IBCMD" /\ ~erred /\ Signalled => accepted = completed + written
  /\ pc = "stop" /\ ret = "ok" /\ ~erred => out = NoByte /\ accepted = completed + written
  /\ pc = "end" /\ op.name = "IBCMD" /\ ret = "ok" => accepted = Length \/ erred

\* Where the timer of an ioctl runs.
Timed ==
  \/ pc \in {"accept", "c_wait", "c_put", "c_last", "stop", "w_wait", "w_put", "w_last", "w_stop"}
  \/ pc \in {"cac", "tca"} /\ op.name = "IBCMD"
TimedPoll ==
  \/ pc \in PollLabels \ {"rpp"}
  \/ pc \in {"cac", "tca"} /\ op.name = "IBRPP"

Timeouts ==
  /\ firing /\ pc # "idle" => fired
  /\ pending => stray \/ Timed \/ TimedPoll
  /\ Timed /\ "TIMO" \in status => fired \/ stray
  /\ op.name \in {"IBCMD", "IBWRT"} /\ ret = "ETIMEDOUT" => fired \/ stray \/ ~cic

\* The interrupt that a poll waits for is not older than the poll.
Polls ==
  /\ Nec => "BO" \notin ints \cup seen
  /\ pc \notin {"p_wait", "p_result", "p_stop"} => poll = "none"
  /\ Nec /\ ~raced /\ Controls /\ pc = "epp" =>
       rdy /\ "COMMAND_READY" \notin state /\ "CO" \notin ints \cup seen
  /\ Nec /\ ~raced /\ Controls /\ pc = "p_wait" =>
       poll = "done" \/ (poll = "running" /\ "COMMAND_READY" \notin state /\ "CO" \notin ints \cup seen)
  /\ pc = "p_result" => poll = "done" \/ raced \/ ~Controls

ControlInv == Flags /\ Places /\ Bits /\ Counts /\ Bytes /\ Lines /\ Order /\ Timeouts /\ Polls

-----------------------------------------------------------------------------
\* A load is at least one byte if any remain, at most the buffer, and never more than
\* what remains.  Stated of the minimum itself, for it to be used with any count.
LEMMA LoadIs ==
  ASSUME NEW done \in Nat, done <= Length
  PROVE  LET l == Min({BufferLength, Length - done})
         IN  l \in Nat /\ l <= BufferLength /\ l <= Length - done /\ (done < Length => l > 0)
<1> DEFINE S == {BufferLength, Length - done}
<1>1. Length - done \in Nat /\ BufferLength \in Nat \ {0}
  BY ControlAssumption
<1>2. \E x \in S : \A y \in S : x <= y
  BY <1>1
<1>3. Min(S) \in S /\ \A y \in S : Min(S) <= y
  BY <1>2 DEF Min
<1> QED
  BY <1>1, <1>3, ControlAssumption

\* The same for command_ioctl's next load.
LEMMA LoadSize ==
  ASSUME Counts
  PROVE  /\ Load \in Nat /\ Load <= BufferLength /\ Load <= Length - completed
         /\ completed < Length => Load > 0
BY LoadIs, ControlAssumption DEF Counts, Load

LEMMA LoadKept == ASSUME completed' = completed PROVE Load' = Load
BY DEF Load

\* Where an ioctl begins, and with what.
LEMMA BeginsAt ==
  ASSUME Begin
  PROVE  /\ pc = "idle" /\ op' \in Ops
         /\ pc' \in {"cmd", "rpp", "cac", "gts", "w_begin"}
         /\ pc' = "w_begin" => ~master
         /\ pc' = "cac" => op'.name = "IBCAC"
         /\ completed' = 0 /\ written' = 0 /\ accepted' = 0 /\ ret' = "ok"
         /\ ~bad' /\ ~lost' /\ ~erred' /\ (fired' <=> firing)
         /\ (firing' <=> firing) /\ (pending' <=> pending) /\ (stray' <=> stray)
         /\ UNCHANGED <<board, regs>>
BY DEF Begin, Ops

\* The interrupt handler sets COMMAND_READY only for an interrupt that it has read.
LEMMA HandlesReady ==
  ASSUME Handles, "COMMAND_READY" \in state'
  PROVE  "COMMAND_READY" \in state \/ "CO" \in seen \/ "BO" \in seen
BY DEF Handles, ReadyBits

-----------------------------------------------------------------------------
\* Each part of the invariant is preserved, given those before it.
LEMMA FlagsStep ==
  ASSUME Flags, Next
  PROVE  Flags'
<1>1. CASE Begin
  BY <1>1 DEF Begin, Flags, board, regs
<1>2. CASE InterfaceClear
  BY <1>2 DEF InterfaceClear, AtnBecomes, Flags
<1>3. CASE ReleaseSystemControl \/ RequestSystemControl
  BY <1>3 DEF ReleaseSystemControl, AtnBecomes, RequestSystemControl, Flags, regs
<1>4. CASE Cac
  BY <1>4 DEF Cac, Flags, board, regs
<1>5. CASE TakeControl
  BY <1>5 DEF TakeControl, AtnBecomes, Flags
<1>6. CASE Gts \/ GoToStandby
  BY <1>6 DEF Gts, GoToStandby, AtnBecomes, Flags, board, regs
<1>7. CASE Ibcmd
  BY <1>7 DEF Ibcmd, Flags, regs
<1>8. CASE CommandAcceptors \/ CommandWait
  BY <1>8 DEF CommandAcceptors, CommandWait, Flags, regs
<1>9. CASE CommandPut
  BY <1>9 DEF CommandPut, Flags
<1>10. CASE CommandLast
  BY <1>10 DEF CommandLast, Flags, regs
<1>11. CASE IbcmdStop
  BY <1>11 DEF IbcmdStop, Flags, board, regs
<1>12. CASE Ibrpp \/ ParallelPoll \/ ExecutesPoll
  BY <1>12 DEF Ibrpp, ParallelPoll, ExecutesPoll, Flags, board, regs
<1>13. CASE PollResult \/ PollStop
  BY <1>13 DEF PollResult, PollStop, Flags, board, regs
<1>14. CASE WriteBegin
  BY <1>14 DEF WriteBegin, Flags, regs
<1>15. CASE WriteWait \/ WriteStop
  BY <1>15 DEF WriteWait, WriteStop, Flags, board, regs
<1>16. CASE WritePut
  BY <1>16 DEF WritePut, Flags
<1>17. CASE Interrupted
  BY <1>17 DEF Interrupted, Flags, board, regs
<1>18. CASE Restart \/ End
  BY <1>18 DEF Restart, End, Flags, board, regs
<1>19. CASE ReadsIsr \/ Handles
  BY <1>19 DEF ReadsIsr, Handles, Flags, board
<1>20. CASE Expire \/ WatchdogTimeout
  BY <1>20 DEF Expire, WatchdogTimeout, Flags, board, regs
<1>21. CASE Ready
  BY <1>21 DEF Ready, Flags, board
<1>22. CASE Accepts
  BY <1>22 DEF Accepts, Flags, board
<1>23. CASE NobodyListens
  BY <1>23 DEF NobodyListens, Flags, board
<1>24. CASE Ifc \/ PollEnds
  BY <1>24 DEF Ifc, PollEnds, Flags, board
<1> QED
  BY <1>1, <1>2, <1>3, <1>4, <1>5, <1>6, <1>7, <1>8, <1>9, <1>10, <1>11, <1>12, <1>13,
     <1>14, <1>15, <1>16, <1>17, <1>18, <1>19, <1>20, <1>21, <1>22, <1>23, <1>24 DEF Next,
     Task, Interrupt, Clock

LEMMA PlacesStep ==
  ASSUME Places, Next
  PROVE  Places'
<1>1. CASE Begin
  BY <1>1 DEF Begin, Places, CmdLabels, PollLabels, WriteLabels, Ops, board
<1>2. CASE InterfaceClear
  BY <1>2 DEF InterfaceClear, Places, user
<1>3. CASE ReleaseSystemControl \/ RequestSystemControl
  BY <1>3 DEF ReleaseSystemControl, RequestSystemControl, Places, user
<1>4. CASE Cac
  BY <1>4 DEF Cac, CacReturns, KeepOp, Places, CmdLabels, PollLabels, WriteLabels, board
<1>5. CASE TakeControl
  BY <1>5 DEF TakeControl, CacReturns, Places, CmdLabels, PollLabels
<1>6. CASE Gts \/ GoToStandby
  BY <1>6 DEF Gts, Finish, GoToStandby, Goto, AfterGts, KeepOp, Places, CmdLabels,
     PollLabels, WriteLabels, board
<1>7. CASE Ibcmd
  BY <1>7 DEF Ibcmd, Finish, Places, WriteLabels
<1>8. CASE CommandAcceptors \/ CommandWait
  BY <1>8 DEF CommandAcceptors, CommandWait, Places, CmdLabels, PollLabels, WriteLabels
<1>9. CASE CommandPut
  BY <1>9 DEF CommandPut, Places, CmdLabels, PollLabels, WriteLabels
<1>10. CASE CommandLast
  BY <1>10 DEF CommandLast, Places, CmdLabels, PollLabels, WriteLabels
<1>11. CASE IbcmdStop
  BY <1>11 DEF IbcmdStop, Places, CmdLabels, PollLabels, WriteLabels, board
<1>12. CASE Ibrpp \/ ParallelPoll \/ ExecutesPoll
  BY <1>12 DEF Ibrpp, Goto, KeepOp, ParallelPoll, ExecutesPoll, Places, CmdLabels,
     PollLabels, WriteLabels, board
<1>13. CASE PollResult \/ PollStop
  BY <1>13 DEF PollResult, KeepOp, PollStop, Places, CmdLabels, PollLabels, WriteLabels,
     board
<1>14. CASE WriteBegin
  BY <1>14 DEF WriteBegin, Goto, KeepOp, Places, CmdLabels, PollLabels, WriteLabels
<1>15. CASE WriteWait \/ WriteStop
  BY <1>15 DEF WriteWait, WriteStop, Goto, Places, CmdLabels, PollLabels, WriteLabels,
     board
<1>16. CASE WritePut
  BY <1>16 DEF WritePut, Goto, KeepOp, Places, CmdLabels, PollLabels, WriteLabels
<1>17. CASE Interrupted
  BY <1>17 DEF Interrupted, Places, CmdLabels, PollLabels, WriteLabels, board
<1>18. CASE Restart \/ End
  BY <1>18 DEF Restart, End, Places, CmdLabels, PollLabels, board
<1>19. CASE ReadsIsr \/ Handles
  BY <1>19 DEF ReadsIsr, Handles, Places, user, board
<1>20. CASE Expire \/ WatchdogTimeout
  BY <1>20 DEF Expire, WatchdogTimeout, Places, user, board
<1>21. CASE Ready
  BY <1>21 DEF Ready, Places, user, board
<1>22. CASE Accepts
  BY <1>22 DEF Accepts, Places, user, board
<1>23. CASE NobodyListens
  BY <1>23 DEF NobodyListens, Places, user, board
<1>24. CASE Ifc \/ PollEnds
  BY <1>24 DEF Ifc, PollEnds, Places, user, board
<1> QED
  BY <1>1, <1>2, <1>3, <1>4, <1>5, <1>6, <1>7, <1>8, <1>9, <1>10, <1>11, <1>12, <1>13,
     <1>14, <1>15, <1>16, <1>17, <1>18, <1>19, <1>20, <1>21, <1>22, <1>23, <1>24 DEF Next,
     Task, Interrupt, Clock

LEMMA BitsStep ==
  ASSUME Bits, Next
  PROVE  Bits'
<1>1. CASE Begin
  BY <1>1 DEF Begin, Bits, board, regs
<1>2. CASE InterfaceClear
  BY <1>2 DEF InterfaceClear, AtnBecomes, Bits, user
<1>3. CASE ReleaseSystemControl \/ RequestSystemControl
  BY <1>3 DEF ReleaseSystemControl, Released, AtnBecomes, RequestSystemControl, Bits,
     user, regs
<1>4. CASE Cac
  BY <1>4 DEF Cac, CacReturns, KeepOp, Bits, board, regs
<1>5. CASE TakeControl
  BY <1>5 DEF TakeControl, CacReturns, AtnBecomes, Bits
<1>6. CASE Gts \/ GoToStandby
  BY <1>6 DEF Gts, Finish, GoToStandby, AtnBecomes, KeepOp, Bits, board, regs
<1>7. CASE Ibcmd
  BY <1>7 DEF Ibcmd, StartTimer, Finish, Bits, regs
<1>8. CASE CommandAcceptors \/ CommandWait
  BY <1>8 DEF CommandAcceptors, CommandWait, Bits, regs
<1>9. CASE CommandPut
  BY <1>9 DEF CommandPut, Puts, Bits
<1>10. CASE CommandLast
  BY <1>10 DEF CommandLast, Bits, regs
<1>11. CASE IbcmdStop
  BY <1>11 DEF IbcmdStop, Bits, board, regs
<1>12. CASE Ibrpp \/ ParallelPoll \/ ExecutesPoll
  BY <1>12 DEF Ibrpp, StartTimer, KeepOp, ParallelPoll, ForgetsReady, ExecutesPoll,
     Bits, board, regs
<1>13. CASE PollResult \/ PollStop
  BY <1>13 DEF PollResult, KeepOp, PollStop, Bits, board, regs
<1>14. CASE WriteBegin
  BY <1>14 DEF WriteBegin, StartTimer, KeepOp, Bits, regs
<1>15. CASE WriteWait \/ WriteStop
  BY <1>15 DEF WriteWait, WriteError, WriteStop, Bits, board, regs
<1>16. CASE WritePut
  BY <1>16 DEF WritePut, Puts, KeepOp, Bits
<1>17. CASE Interrupted
  BY <1>17 DEF Interrupted, Bits, board, regs
<1>18. CASE Restart \/ End
  BY <1>18 DEF Restart, End, Bits, board, regs
<1>19. CASE ReadsIsr \/ Handles
  BY <1>19 DEF ReadsIsr, Handles, ReadyBits, Bits, user, board
<1>20. CASE Expire \/ WatchdogTimeout
  BY <1>20 DEF Expire, WatchdogTimeout, Bits, user, board, regs
<1>21. CASE Ready
  BY <1>21 DEF Ready, Bits, user, board
<1>22. CASE Accepts
  BY <1>22 DEF Accepts, Bits, user, board
<1>23. CASE NobodyListens
  BY <1>23 DEF NobodyListens, Bits, user, board
<1>24. CASE Ifc \/ PollEnds
  BY <1>24 DEF Ifc, PollEnds, Bits, user, board
<1> QED
  BY <1>1, <1>2, <1>3, <1>4, <1>5, <1>6, <1>7, <1>8, <1>9, <1>10, <1>11, <1>12, <1>13,
     <1>14, <1>15, <1>16, <1>17, <1>18, <1>19, <1>20, <1>21, <1>22, <1>23, <1>24 DEF Next,
     Task, Interrupt, Clock

LEMMA CountsStep ==
  ASSUME Places, Counts, Bytes, Next
  PROVE  Counts'
<1>1. CASE Begin
  BY <1>1, BeginsAt, ControlAssumption DEF Counts
<1>2. CASE InterfaceClear
  BY <1>2 DEF InterfaceClear, Counts, user, bus
<1>3. CASE ReleaseSystemControl \/ RequestSystemControl
  BY <1>3 DEF ReleaseSystemControl, RequestSystemControl, Counts, user, bus
<1>4. CASE Cac
  BY <1>4, LoadSize, LoadKept DEF Cac, CacReturns, KeepOp, Counts, bus
<1>5. CASE TakeControl
  BY <1>5, LoadSize, LoadKept DEF TakeControl, CacReturns, AtnBecomes, Counts, bus
<1>6. CASE Gts \/ GoToStandby
  BY <1>6 DEF Gts, Finish, GoToStandby, Goto, AfterGts, KeepOp, Counts, bus
<1>7. CASE Ibcmd
  BY <1>7 DEF Ibcmd, Finish, Counts, bus
<1>8. CASE CommandAcceptors \/ CommandWait
  BY <1>8, LoadSize, LoadKept DEF CommandAcceptors, CommandWait, Counts, bus
<1>9. CASE CommandPut
  BY <1>9, LoadSize, LoadKept, ControlAssumption DEF CommandPut, Counts
<1>10. CASE CommandLast
  BY <1>10, LoadKept DEF CommandLast, Counts, bus
<1>11. CASE IbcmdStop
  BY <1>11 DEF IbcmdStop, Counts, bus
<1>12. CASE Ibrpp \/ ParallelPoll \/ ExecutesPoll
  BY <1>12 DEF Ibrpp, Goto, KeepOp, ParallelPoll, ExecutesPoll, Counts, bus
<1>13. CASE PollResult \/ PollStop
  BY <1>13 DEF PollResult, KeepOp, PollStop, Counts, bus
<1>14. CASE WriteBegin
  BY <1>14 DEF WriteBegin, Goto, KeepOp, Counts, bus
<1>15. CASE WriteWait \/ WriteStop
  BY <1>15 DEF WriteWait, WriteStop, Goto, Counts, bus
<1>16. CASE WritePut
  BY <1>16 DEF WritePut, Goto, KeepOp, Counts
<1>17. CASE Interrupted
  BY <1>17, LoadSize, LoadKept DEF Interrupted, Counts, bus
<1>18. CASE Restart \/ End
  BY <1>18, ControlAssumption DEF Restart, End, Counts, bus
<1>19. CASE ReadsIsr \/ Handles
  BY <1>19, LoadKept DEF ReadsIsr, Handles, Counts, user, bus
<1>20. CASE Expire \/ WatchdogTimeout
  BY <1>20, LoadKept DEF Expire, WatchdogTimeout, Counts, user, bus
<1>21. CASE Ready
  BY <1>21, LoadKept DEF Ready, Counts, user, bus
<1>22. CASE Accepts
  BY <1>22, LoadKept DEF Accepts, Counts, Bytes, user
<1>23. CASE NobodyListens
  BY <1>23, LoadKept DEF NobodyListens, Counts, user
<1>24. CASE Ifc \/ PollEnds
  BY <1>24, LoadKept DEF Ifc, PollEnds, Counts, user, bus
<1> QED
  BY <1>1, <1>2, <1>3, <1>4, <1>5, <1>6, <1>7, <1>8, <1>9, <1>10, <1>11, <1>12, <1>13,
     <1>14, <1>15, <1>16, <1>17, <1>18, <1>19, <1>20, <1>21, <1>22, <1>23, <1>24 DEF Next,
     Task, Interrupt, Clock

\* A byte is put with the number of the last one counted, and counted in that step.
LEMMA BytesStep ==
  ASSUME Places, Counts, Bytes, Next
  PROVE  Bytes'
<1>1. CASE Begin
  BY <1>1, BeginsAt DEF Bytes, NoOp, Places, CmdLabels, regs
<1>2. CASE InterfaceClear
  BY <1>2 DEF InterfaceClear, AtnBecomes, Bytes, Places, WriteLabels, NoOp, user
<1>3. CASE ReleaseSystemControl \/ RequestSystemControl
  BY <1>3 DEF ReleaseSystemControl, AtnBecomes, RequestSystemControl, Bytes, Places,
     WriteLabels, NoOp, user, regs
<1>4. CASE Cac
  BY <1>4 DEF Cac, CacReturns, KeepOp, Bytes, Places, WriteLabels, regs
<1>5. CASE TakeControl
  BY <1>5 DEF TakeControl, CacReturns, AtnBecomes, Bytes
<1>6. CASE Gts \/ GoToStandby
  BY <1>6 DEF Gts, GoToStandby, Goto, AtnBecomes, KeepOp, Bytes, regs, bus
<1>7. CASE Ibcmd
  BY <1>7 DEF Ibcmd, Bytes, Places, WriteLabels, regs
<1>8. CASE CommandAcceptors \/ CommandWait
  BY <1>8 DEF CommandAcceptors, CommandWait, Bytes, Places, WriteLabels, regs
<1>9. CASE CommandPut
  BY <1>9, LoadSize, ControlAssumption DEF CommandPut, Puts, Counts, Bytes, Places,
     PollLabels, WriteLabels
<1>10. CASE CommandLast
  BY <1>10 DEF CommandLast, Bytes, Places, WriteLabels, regs
<1>11. CASE IbcmdStop
  BY <1>11 DEF IbcmdStop, Bytes, Places, WriteLabels, regs
<1>12. CASE Ibrpp \/ ParallelPoll \/ ExecutesPoll
  BY <1>12 DEF Ibrpp, Goto, KeepOp, ParallelPoll, ExecutesPoll, Bytes, Places,
     WriteLabels, regs
<1>13. CASE PollResult \/ PollStop
  BY <1>13 DEF PollResult, KeepOp, PollStop, Bytes, Places, WriteLabels, regs
<1>14. CASE WriteBegin
  BY <1>14 DEF WriteBegin, Goto, KeepOp, Bytes, regs, bus
<1>15. CASE WriteWait \/ WriteStop
  BY <1>15 DEF WriteWait, WriteStop, Goto, Bytes, regs, bus
<1>16. CASE WritePut
  BY <1>16, ControlAssumption DEF WritePut, Goto, Puts, KeepOp, Bytes, Places,
     CmdLabels, PollLabels
<1>17. CASE Interrupted
  BY <1>17 DEF Interrupted, Bytes, regs, bus
<1>18. CASE Restart \/ End
  BY <1>18 DEF Restart, End, Bytes, regs
<1>19. CASE ReadsIsr \/ Handles
  BY <1>19 DEF ReadsIsr, Handles, Bytes, user, bus
<1>20. CASE Expire \/ WatchdogTimeout
  BY <1>20 DEF Expire, WatchdogTimeout, Bytes, user, regs, bus
<1>21. CASE Ready
  BY <1>21 DEF Ready, Bytes, user, bus
<1>22. CASE Accepts
  BY <1>22 DEF Accepts, Bytes, user
<1>23. CASE NobodyListens
  BY <1>23 DEF NobodyListens, Bytes, user
<1>24. CASE Ifc \/ PollEnds
  BY <1>24 DEF Ifc, PollEnds, Bytes, user, bus
<1> QED
  BY <1>1, <1>2, <1>3, <1>4, <1>5, <1>6, <1>7, <1>8, <1>9, <1>10, <1>11, <1>12, <1>13,
     <1>14, <1>15, <1>16, <1>17, <1>18, <1>19, <1>20, <1>21, <1>22, <1>23, <1>24 DEF Next,
     Task, Interrupt, Clock

\* Once ibcac has taken control ATN goes with IFC only, and the chip is not in charge
\* again before the ioctl has ended.
LEMMA LinesStep ==
  ASSUME Flags, Places, Counts, Bytes, Lines, Next
  PROVE  Lines'
<1>1. CASE Begin
  BY <1>1, BeginsAt DEF Bytes, Lines, NoOp, WriteLabels, Places, CmdLabels, board, regs
<1>2. CASE InterfaceClear
  BY <1>2 DEF InterfaceClear, AtnBecomes, Lines, Bytes, WriteLabels, user
<1>3. CASE ReleaseSystemControl \/ RequestSystemControl
  BY <1>3 DEF ReleaseSystemControl, AtnBecomes, RequestSystemControl, Lines, Places,
     CmdLabels, WriteLabels, NoOp, user, regs
<1>4. CASE Cac
  BY <1>4 DEF Cac, CacReturns, KeepOp, Lines, Bytes, WriteLabels, regs, bus
<1>5. CASE TakeControl
  BY <1>5 DEF TakeControl, CacReturns, AtnBecomes, Lines, Bytes, WriteLabels
<1>6. CASE Gts \/ GoToStandby
  BY <1>6 DEF Gts, Finish, GoToStandby, Goto, AfterGts, AtnBecomes, KeepOp, Lines,
     Bytes, Places, CmdLabels, WriteLabels, regs
<1>7. CASE Ibcmd
  BY <1>7 DEF Ibcmd, Finish, Lines, WriteLabels, regs, bus
<1>8. CASE CommandAcceptors \/ CommandWait
  BY <1>8 DEF CommandAcceptors, CommandWait, Lines, WriteLabels, regs
<1>9. CASE CommandPut
  BY <1>9 DEF CommandPut, Lines, Places, WriteLabels
<1>10. CASE CommandLast
  BY <1>10 DEF CommandLast, Lines, WriteLabels, regs
<1>11. CASE IbcmdStop
  BY <1>11 DEF IbcmdStop, Lines, Bytes, WriteLabels, regs, bus
<1>12. CASE Ibrpp \/ ParallelPoll \/ ExecutesPoll
  BY <1>12 DEF Ibrpp, Goto, KeepOp, ParallelPoll, ExecutesPoll, Lines, Places,
     CmdLabels, WriteLabels, regs
<1>13. CASE PollResult \/ PollStop
  BY <1>13 DEF PollResult, KeepOp, PollStop, Lines, Places, CmdLabels, WriteLabels, regs
<1>14. CASE WriteBegin
  BY <1>14 DEF WriteBegin, Goto, KeepOp, Lines, Places, CmdLabels, PollLabels, regs
<1>15. CASE WriteWait \/ WriteStop
  BY <1>15 DEF WriteWait, WriteStop, Goto, Lines, NoByte, Places, CmdLabels, PollLabels,
     board, regs, bus
<1>16. CASE WritePut
  BY <1>16 DEF WritePut, Goto, KeepOp, Lines, Places, CmdLabels, PollLabels
<1>17. CASE Interrupted
  BY <1>17 DEF Interrupted, Lines, Places, CmdLabels, WriteLabels, board, regs
<1>18. CASE Restart \/ End
  BY <1>18 DEF Restart, End, Lines, CmdLabels, WriteLabels, regs, bus
<1>19. CASE ReadsIsr \/ Handles
  BY <1>19 DEF ReadsIsr, Handles, Lines, user, board, bus
<1>20. CASE Expire \/ WatchdogTimeout
  BY <1>20 DEF Expire, WatchdogTimeout, Lines, user, board, regs, bus
<1>21. CASE Ready
  BY <1>21 DEF Ready, Lines, user, board, bus
<1>22. CASE Accepts
  BY <1>22 DEF Accepts, Lines, user, board
<1>23. CASE NobodyListens
  BY <1>23 DEF NobodyListens, Lines, user, board
<1>24. CASE Ifc \/ PollEnds
  BY <1>24 DEF Ifc, PollEnds, Controls, Lines, user, board
<1> QED
  BY <1>1, <1>2, <1>3, <1>4, <1>5, <1>6, <1>7, <1>8, <1>9, <1>10, <1>11, <1>12, <1>13,
     <1>14, <1>15, <1>16, <1>17, <1>18, <1>19, <1>20, <1>21, <1>22, <1>23, <1>24 DEF Next,
     Task, Interrupt, Clock

\* CommandPut forgets all that the chip has said, so that what it says next is about
\* the byte put: it was accepted, or nobody listened.
LEMMA OrderStep ==
  ASSUME Flags, Places, Counts, Bytes, Lines, Order, Next
  PROVE  Order'
<1>1. CASE Begin
  BY <1>1, BeginsAt DEF Order, Bytes, NoOp, Places, CmdLabels, regs
<1>2. CASE InterfaceClear
  BY <1>2 DEF InterfaceClear, Order, Places, CmdLabels, NoOp, user, bus
<1>3. CASE ReleaseSystemControl \/ RequestSystemControl
  BY <1>3 DEF ReleaseSystemControl, AtnBecomes, RequestSystemControl, Order, Places,
     CmdLabels, NoOp, user, bus
<1>4. CASE Cac
  BY <1>4 DEF Cac, CacReturns, KeepOp, Order, Signalled, board, regs, bus
<1>5. CASE TakeControl
  BY <1>5 DEF TakeControl, CacReturns, AtnBecomes, Lines, Order, Signalled, bus
<1>6. CASE Gts \/ GoToStandby
  BY <1>6 DEF Gts, Finish, GoToStandby, Goto, AfterGts, AtnBecomes, KeepOp, Order,
     Places, CmdLabels, board, regs, bus
<1>7. CASE Ibcmd
  BY <1>7 DEF Ibcmd, Finish, Order, Signalled, regs, bus
<1>8. CASE CommandAcceptors \/ CommandWait
  BY <1>8 DEF CommandAcceptors, CommandWait, MayPut, Woken, Bytes, Order, Signalled,
     regs, bus
<1>9. CASE CommandPut
  <2>1. (~lost)'
    BY <1>9 DEF CommandPut, Puts, Order
  <2>2. (bad => erred \/ ~cic \/ ~master)'
    BY <1>9 DEF CommandPut, Order
  <2>3. (pc = "idle" => ~bad)'
    BY <1>9 DEF CommandPut
  <2>4. (pc = "c_put" => out = NoByte)'
    BY <1>9 DEF CommandPut
  <2>5. (op.name = "IBCMD" /\ Signalled => out = NoByte)'
    BY <1>9 DEF CommandPut, Unlocked, Puts, Signalled
  <2>6. (op.name = "IBCMD" /\ ~erred /\ cic =>
          accepted = IF out = NoByte THEN completed + written ELSE completed + written - 1)'
    BY <1>9 DEF CommandPut, Puts, Order, Counts, NoByte
  <2>7. (op.name = "IBCMD" /\ ~erred /\ Signalled => accepted = completed + written)'
    BY <1>9 DEF CommandPut, Unlocked, Puts, Signalled
  <2>8. (pc = "stop" /\ ret = "ok" /\ ~erred => out = NoByte /\ accepted = completed + written)'
    BY <1>9 DEF CommandPut
  <2>9. (pc = "end" /\ op.name = "IBCMD" /\ ret = "ok" => accepted = Length \/ erred)'
    BY <1>9 DEF CommandPut
  <2> QED
    BY <2>1, <2>2, <2>3, <2>4, <2>5, <2>6, <2>7, <2>8, <2>9 DEF Order
<1>10. CASE CommandLast
  BY <1>10 DEF CommandLast, Woken, Order, Signalled, Places, PollLabels, WriteLabels,
     regs, bus
<1>11. CASE IbcmdStop
  BY <1>11, ControlAssumption DEF IbcmdStop, Counts, Order, Signalled, board, regs, bus
<1>12. CASE Ibrpp \/ ParallelPoll \/ ExecutesPoll
  BY <1>12 DEF Ibrpp, Goto, KeepOp, ParallelPoll, ForgetsReady, ExecutesPoll, Order,
     Signalled, board, regs, bus
<1>13. CASE PollResult \/ PollStop
  BY <1>13 DEF PollResult, KeepOp, PollStop, Order, Places, CmdLabels, board, regs, bus
<1>14. CASE WriteBegin
  BY <1>14 DEF WriteBegin, Goto, KeepOp, Order, Signalled, regs, bus
<1>15. CASE WriteWait \/ WriteStop
  BY <1>15 DEF WriteWait, WriteStop, Goto, Order, Places, CmdLabels, board, regs, bus
<1>16. CASE WritePut
  BY <1>16 DEF WritePut, Goto, Puts, KeepOp, Bytes, Order, Places, CmdLabels
<1>17. CASE Interrupted
  BY <1>17 DEF Interrupted, Order, Signalled, board, regs, bus
<1>18. CASE Restart \/ End
  BY <1>18 DEF Restart, End, Order, Signalled, board, regs, bus
<1>19. CASE ReadsIsr \/ Handles
  BY <1>19 DEF ReadsIsr, Handles, ReadyBits, Order, Signalled, user, board, bus
<1>20. CASE Expire \/ WatchdogTimeout
  BY <1>20 DEF Expire, WatchdogTimeout, Order, Signalled, user, board, regs, bus
<1>21. CASE Ready
  BY <1>21 DEF Ready, Controls, Talks, Order, Signalled, user, board, bus
<1>22. CASE Accepts
  <2>1. (~lost)'
    BY <1>22 DEF Accepts, Order
  <2>2. (bad => erred \/ ~cic \/ ~master)'
    <3> SUFFICES ASSUME ~erred, cic, master, ~bad PROVE ~bad'
      BY <1>22 DEF Accepts, Order, board
    <3>1. out.i = accepted + 1
      BY <1>22 DEF Accepts, Order, Bytes, Counts
    <3>2. op.name = "IBCMD" => atn /\ out.cmd
      BY <1>22 DEF Accepts, Lines, Bytes
    <3>3. op.name # "IBCMD" => ~atn /\ ~out.cmd
      BY <1>22 DEF Accepts, Lines, Bytes
    <3>4. out.cmd = atn
      BY <1>22, <3>2, <3>3 DEF Accepts, Bytes, Flags
    <3> QED
      BY <1>22, <3>1, <3>4 DEF Accepts
  <2>3. (pc = "idle" => ~bad)'
    BY <1>22 DEF Accepts, Bytes, Places, CmdLabels, NoOp, user
  <2>4. (pc = "c_put" => out = NoByte)'
    BY <1>22 DEF Accepts
  <2>5. (op.name = "IBCMD" /\ Signalled => out = NoByte)'
    BY <1>22 DEF Accepts
  <2>6. (op.name = "IBCMD" /\ ~erred /\ cic =>
          accepted = IF out = NoByte THEN completed + written ELSE completed + written - 1)'
    BY <1>22 DEF Accepts, Order, Flags, Lines, Counts, Bytes, user
  <2>7. (op.name = "IBCMD" /\ ~erred /\ Signalled => accepted = completed + written)'
    BY <1>22 DEF Accepts, Order, Signalled, user, board
  <2>8. (pc = "stop" /\ ret = "ok" /\ ~erred => out = NoByte /\ accepted = completed + written)'
    BY <1>22 DEF Accepts, Order, user
  <2>9. (pc = "end" /\ op.name = "IBCMD" /\ ret = "ok" => accepted = Length \/ erred)'
    BY <1>22, ControlAssumption DEF Accepts, Order, Bytes, user
  <2> QED
    BY <2>1, <2>2, <2>3, <2>4, <2>5, <2>6, <2>7, <2>8, <2>9 DEF Order
<1>23. CASE NobodyListens
  BY <1>23 DEF NobodyListens, Order, Signalled, user, board
<1>24. CASE Ifc \/ PollEnds
  BY <1>24 DEF Ifc, PollEnds, Order, Signalled, user, board, bus
<1> QED
  BY <1>1, <1>2, <1>3, <1>4, <1>5, <1>6, <1>7, <1>8, <1>9, <1>10, <1>11, <1>12, <1>13,
     <1>14, <1>15, <1>16, <1>17, <1>18, <1>19, <1>20, <1>21, <1>22, <1>23, <1>24 DEF Next,
     Task, Interrupt, Clock

\* StartTimer clears TIMO unless an earlier timer is pending, which is a stray one.
LEMMA TimeoutsStep ==
  ASSUME Flags, Places, Timeouts, Next
  PROVE  Timeouts'
<1>1. CASE Begin
  <2>1. (firing /\ pc # "idle" => fired)'
    BY <1>1, BeginsAt
  <2>2. (pending => stray \/ Timed \/ TimedPoll)'
    BY <1>1, BeginsAt DEF Timed, TimedPoll, Timeouts, PollLabels
  <2>3. (Timed /\ "TIMO" \in status => fired \/ stray)'
    BY <1>1, BeginsAt DEF Timed
  <2>4. (op.name \in {"IBCMD", "IBWRT"} /\ ret = "ETIMEDOUT" => fired \/ stray \/ ~cic)'
    BY <1>1, BeginsAt
  <2> QED
    BY <2>1, <2>2, <2>3, <2>4 DEF Timeouts
<1>2. CASE InterfaceClear
  BY <1>2 DEF InterfaceClear, Timeouts, Timed, TimedPoll, Places, CmdLabels,
     WriteLabels, NoOp, user, timer
<1>3. CASE ReleaseSystemControl \/ RequestSystemControl
  BY <1>3 DEF ReleaseSystemControl, AtnBecomes, RequestSystemControl, Timeouts, Timed,
     TimedPoll, Places, CmdLabels, WriteLabels, NoOp, user, timer
<1>4. CASE Cac
  <2>1. (firing /\ pc # "idle" => fired)'
    BY <1>4 DEF Cac, CacReturns, Unlocked, Timeouts, timer
  <2>2. (pending => stray \/ Timed \/ TimedPoll)'
    BY <1>4 DEF Cac, CacReturns, Unlocked, KeepOp, Timed, TimedPoll, Timeouts,
       PollLabels, timer
  <2>3. (Timed /\ "TIMO" \in status => fired \/ stray)'
    BY <1>4 DEF Cac, CacReturns, Unlocked, KeepOp, Timed, Timeouts, board, timer
  <2>4. (op.name \in {"IBCMD", "IBWRT"} /\ ret = "ETIMEDOUT" => fired \/ stray \/ ~cic)'
    BY <1>4 DEF Cac, CacReturns, KeepOp, Timeouts, timer, regs
  <2> QED
    BY <2>1, <2>2, <2>3, <2>4 DEF Timeouts
<1>5. CASE TakeControl
  <2>1. (firing /\ pc # "idle" => fired)'
    BY <1>5 DEF TakeControl, CacReturns, Timeouts
  <2>2. (pending => stray \/ Timed \/ TimedPoll)'
    BY <1>5 DEF TakeControl, CacReturns, Timed, TimedPoll, Timeouts, PollLabels
  <2>3. (Timed /\ "TIMO" \in status => fired \/ stray)'
    BY <1>5 DEF TakeControl, CacReturns, Timed, Timeouts
  <2>4. (op.name \in {"IBCMD", "IBWRT"} /\ ret = "ETIMEDOUT" => fired \/ stray \/ ~cic)'
    BY <1>5 DEF TakeControl, CacReturns
  <2> QED
    BY <2>1, <2>2, <2>3, <2>4 DEF Timeouts
<1>6. CASE Gts \/ GoToStandby
  BY <1>6 DEF Gts, Finish, GoToStandby, Goto, AfterGts, AtnBecomes, KeepOp, Timeouts,
     Timed, TimedPoll, PollLabels, timer, regs
<1>7. CASE Ibcmd
  BY <1>7 DEF Ibcmd, StartTimer, Finish, Timeouts, Timed, TimedPoll, Places, PollLabels,
     WriteLabels, timer, regs
<1>8. CASE CommandAcceptors \/ CommandWait
  BY <1>8 DEF CommandAcceptors, CommandWait, Timeouts, Timed, timer, regs
<1>9. CASE CommandPut
  BY <1>9 DEF CommandPut, Timeouts, Timed, timer
<1>10. CASE CommandLast
  BY <1>10 DEF CommandLast, Timeouts, Timed, timer, regs
<1>11. CASE IbcmdStop
  BY <1>11 DEF IbcmdStop, RemoveTimer, Timeouts, Timed, regs
<1>12. CASE Ibrpp \/ ParallelPoll \/ ExecutesPoll
  BY <1>12 DEF Ibrpp, Goto, StartTimer, KeepOp, ParallelPoll, ExecutesPoll, Timeouts,
     Timed, TimedPoll, Places, CmdLabels, PollLabels, WriteLabels, timer
<1>13. CASE PollResult \/ PollStop
  BY <1>13 DEF PollResult, KeepOp, PollStop, RemoveTimer, Timeouts, Timed, TimedPoll,
     Places, CmdLabels, PollLabels, WriteLabels, timer
<1>14. CASE WriteBegin
  BY <1>14 DEF WriteBegin, Goto, StartTimer, KeepOp, Timeouts, Timed, TimedPoll,
     PollLabels, regs
<1>15. CASE WriteWait \/ WriteStop
  BY <1>15 DEF WriteWait, WriteError, WriteStop, Goto, RemoveTimer, Timeouts, Timed,
     board, timer, regs
<1>16. CASE WritePut
  BY <1>16 DEF WritePut, Goto, KeepOp, Timeouts, Timed, timer
<1>17. CASE Interrupted
  BY <1>17 DEF Interrupted, Timeouts, Timed, TimedPoll, PollLabels, board, timer, regs
<1>18. CASE Restart \/ End
  <2>1. (firing /\ pc # "idle" => fired)'
    BY <1>18 DEF Restart, End, Timeouts, timer
  <2>2. (pending => stray \/ Timed \/ TimedPoll)'
    BY <1>18 DEF Restart, End, Timed, TimedPoll, Timeouts, PollLabels, timer
  <2>3. (Timed /\ "TIMO" \in status => fired \/ stray)'
    BY <1>18 DEF Restart, End, Timed
  <2>4. (op.name \in {"IBCMD", "IBWRT"} /\ ret = "ETIMEDOUT" => fired \/ stray \/ ~cic)'
    BY <1>18 DEF Restart, End
  <2> QED
    BY <2>1, <2>2, <2>3, <2>4 DEF Timeouts
<1>19. CASE ReadsIsr \/ Handles
  BY <1>19 DEF ReadsIsr, Handles, Timeouts, Timed, TimedPoll, user, board, timer
<1>20. CASE Expire \/ WatchdogTimeout
  BY <1>20 DEF Expire, WatchdogTimeout, Timeouts, Timed, TimedPoll, Places, CmdLabels,
     WriteLabels, NoOp, user
<1>21. CASE Ready
  BY <1>21 DEF Ready, Timeouts, Timed, TimedPoll, user, board, timer
<1>22. CASE Accepts
  BY <1>22 DEF Accepts, Timeouts, Timed, TimedPoll, user, board, timer
<1>23. CASE NobodyListens
  BY <1>23 DEF NobodyListens, Timeouts, Timed, TimedPoll, user, board, timer
<1>24. CASE Ifc \/ PollEnds
  BY <1>24 DEF Ifc, PollEnds, Timeouts, Timed, TimedPoll, user, board, timer
<1> QED
  BY <1>1, <1>2, <1>3, <1>4, <1>5, <1>6, <1>7, <1>8, <1>9, <1>10, <1>11, <1>12, <1>13,
     <1>14, <1>15, <1>16, <1>17, <1>18, <1>19, <1>20, <1>21, <1>22, <1>23, <1>24 DEF Next,
     Task, Interrupt, Clock

\* With the chip settled no interrupt is on its way when the poll begins, and the next
\* one comes when it has ended.
LEMMA PollsStep ==
  ASSUME Flags, Places, Bytes, Polls, Next
  PROVE  Polls'
<1>1. CASE Begin
  BY <1>1, BeginsAt DEF Polls, Nec, board, regs
<1>2. CASE InterfaceClear
  BY <1>2 DEF InterfaceClear, AtnBecomes, Polls, Nec, user
<1>3. CASE ReleaseSystemControl \/ RequestSystemControl
  BY <1>3 DEF ReleaseSystemControl, RequestSystemControl, Polls, Nec, user, regs
<1>4. CASE Cac
  BY <1>4 DEF Cac, CacReturns, Polls, Nec, board, regs
<1>5. CASE TakeControl
  BY <1>5 DEF TakeControl, CacReturns, AtnBecomes, Polls, Nec
<1>6. CASE Gts \/ GoToStandby
  BY <1>6 DEF Gts, Finish, GoToStandby, Goto, AfterGts, AtnBecomes, Polls, Nec, board,
     regs
<1>7. CASE Ibcmd
  BY <1>7 DEF Ibcmd, Finish, Polls, Nec, regs
<1>8. CASE CommandAcceptors \/ CommandWait
  BY <1>8 DEF CommandAcceptors, CommandWait, Polls, Nec, regs
<1>9. CASE CommandPut
  BY <1>9 DEF CommandPut, Unlocked, Puts, Polls
<1>10. CASE CommandLast
  BY <1>10 DEF CommandLast, Polls, Nec, regs
<1>11. CASE IbcmdStop
  BY <1>11 DEF IbcmdStop, Polls, Nec, board, regs
<1>12. CASE Ibrpp \/ ParallelPoll \/ ExecutesPoll
  BY <1>12 DEF Ibrpp, Goto, ParallelPoll, ForgetsReady, ExecutesPoll, Flags, Polls, Nec,
     Settled, Controls, board, regs
<1>13. CASE PollResult \/ PollStop
  BY <1>13 DEF PollResult, KeepOp, PollStop, Polls, Nec, Controls, board, regs
<1>14. CASE WriteBegin
  BY <1>14 DEF WriteBegin, Goto, Polls, Nec, regs
<1>15. CASE WriteWait \/ WriteStop
  BY <1>15 DEF WriteWait, WriteStop, Goto, Polls, Nec, board, regs
<1>16. CASE WritePut
  BY <1>16 DEF WritePut, Goto, Unlocked, Puts, Polls
<1>17. CASE Interrupted
  BY <1>17 DEF Interrupted, Polls, Nec, board, regs
<1>18. CASE Restart \/ End
  BY <1>18 DEF Restart, End, Polls, Nec, board, regs
<1>19. CASE ReadsIsr
  BY <1>19 DEF ReadsIsr, Polls, Nec, Controls, user, board
<1>20. CASE Handles
  <2>1. UNCHANGED <<chip, pc, raced, cic, atn, rdy, poll, ints>> /\ seen' = {}
    BY <1>20 DEF Handles, user
  <2> QED
    BY <1>20, <2>1, HandlesReady DEF Polls, Nec, Controls
<1>21. CASE Expire \/ WatchdogTimeout
  BY <1>21 DEF Expire, WatchdogTimeout, Polls, Nec, Controls, user, board, regs
<1>22. CASE Ready
  BY <1>22 DEF Ready, Controls, Polls, Nec, user, board
<1>23. CASE Accepts
  BY <1>23 DEF Accepts, Polls, Nec, Bytes, Places, CmdLabels, user, board
<1>24. CASE NobodyListens
  BY <1>24 DEF NobodyListens, Polls, Nec, Bytes, Places, CmdLabels, user, board
<1>25. CASE Ifc \/ PollEnds
  <2>1. (Nec => "BO" \notin ints \cup seen)'
    BY <1>25 DEF Ifc, PollEnds, Polls, Nec, board
  <2>2. (pc \notin {"p_wait", "p_result", "p_stop"} => poll = "none")'
    BY <1>25 DEF Ifc, PollEnds, Polls, user
  <2>3. (Nec /\ ~raced /\ Controls /\ pc = "epp" =>
          rdy /\ "COMMAND_READY" \notin state /\ "CO" \notin ints \cup seen)'
    BY <1>25 DEF Ifc, PollEnds, Polls, Controls, user
  <2>4. (Nec /\ ~raced /\ Controls /\ pc = "p_wait" =>
          poll = "done" \/ (poll = "running" /\ "COMMAND_READY" \notin state /\ "CO" \notin ints \cup seen))'
    BY <1>25 DEF Ifc, PollEnds, Controls
  <2>5. (pc = "p_result" => poll = "done" \/ raced \/ ~Controls)'
    BY <1>25 DEF Ifc, PollEnds, Controls
  <2> QED
    BY <2>1, <2>2, <2>3, <2>4, <2>5 DEF Polls
<1> QED
  BY <1>1, <1>2, <1>3, <1>4, <1>5, <1>6, <1>7, <1>8, <1>9, <1>10, <1>11, <1>12, <1>13,
     <1>14, <1>15, <1>16, <1>17, <1>18, <1>19, <1>20, <1>21, <1>22, <1>23, <1>24, <1>25 DEF
     Next, Task, Interrupt, Clock

-----------------------------------------------------------------------------
LEMMA InitHolds == Init => ControlInv
<1> SUFFICES ASSUME Init PROVE ControlInv
  OBVIOUS
<1>1. Flags /\ Bits
  BY DEF Init, Flags, Bits
<1>2. Places
  BY DEF Init, Places
<1>3. Counts
  BY ControlAssumption DEF Init, Counts
<1>4. Bytes /\ Lines
  BY DEF Init, Bytes, Lines
<1>5. Order
  BY DEF Init, Order
<1>6. Timeouts
  BY DEF Init, Timeouts
<1>7. Polls
  BY DEF Init, Polls
<1> QED
  BY <1>1, <1>2, <1>3, <1>4, <1>5, <1>6, <1>7 DEF ControlInv

LEMMA StutterHolds == ControlInv /\ UNCHANGED vars => ControlInv'
<1> SUFFICES ASSUME ControlInv, UNCHANGED vars PROVE ControlInv'
  OBVIOUS
<1>1. Flags' /\ Places' /\ Bits'
  BY DEF ControlInv, Flags, Places, Bits, vars, user, board, regs
<1>2. Counts' /\ Bytes' /\ Lines'
  BY DEF ControlInv, Counts, Load, Bytes, Lines, vars, user, board, regs, bus
<1>3. Order'
  BY DEF ControlInv, Order, Signalled, vars, user, board, regs, bus
<1>4. Timeouts' /\ Polls'
  BY DEF ControlInv, Timeouts, Timed, TimedPoll, Polls, Nec, Controls, vars, user,
     board, timer, regs
<1> QED
  BY <1>1, <1>2, <1>3, <1>4 DEF ControlInv

LEMMA StepHolds == ControlInv /\ Next => ControlInv'
<1> SUFFICES ASSUME ControlInv, Next PROVE ControlInv'
  OBVIOUS
<1>1. Flags' /\ Places' /\ Bits'
  BY FlagsStep, PlacesStep, BitsStep DEF ControlInv
<1>2. Counts' /\ Bytes' /\ Lines'
  BY CountsStep, BytesStep, LinesStep DEF ControlInv
<1>3. Order' /\ Timeouts' /\ Polls'
  BY OrderStep, TimeoutsStep, PollsStep DEF ControlInv
<1> QED
  BY <1>1, <1>2, <1>3 DEF ControlInv

LEMMA ControlInvariant == Spec => []ControlInv
<1> QED
  BY InitHolds, StepHolds, StutterHolds, PTL DEF Spec

-----------------------------------------------------------------------------
\* Every variable has its type: no load is larger than the buffer, and none runs
\* past the end of the command.
THEOREM TypeCorrect == Spec => []TypeOK
<1>1. ControlInv => TypeOK
  <2> SUFFICES ASSUME ControlInv PROVE TypeOK
    OBVIOUS
  <2>1. op \in Ops \cup {NoOp} /\ (pc = "idle") = (op = NoOp)
    BY DEF ControlInv, Places, CmdLabels, PollLabels, WriteLabels, NoOp
  <2>2. completed \in 0..Length /\ written \in 0..BufferLength /\ accepted \in 0..Length
    BY LoadSize, ControlAssumption DEF ControlInv, Counts
  <2>3. ints \cup seen \subseteq {"CO", "DO", "BO", "ERR", "IFC"}
    BY DEF ControlInv, Bits
  <2> QED
    BY <2>1, <2>2, <2>3 DEF ControlInv, Flags, Bits, Lines, TypeOK
<1> QED
  BY <1>1, ControlInvariant, PTL

\* Commands and data reach the bus in order, once, and as what they are, whatever the
\* interrupts, signals, timeouts and restarts, until a byte goes to nobody or another
\* controller takes over.
THEOREM OrderKept == Spec => []InOrder
<1>1. ControlInv => InOrder
  BY DEF ControlInv, Order, InOrder
<1> QED
  BY <1>1, ControlInvariant, PTL

\* A command that succeeds has been accepted to its last byte, whatever its length,
\* and the loads and restarts it was cut into, unless a byte went to nobody.
THEOREM SuccessIsAccepted == Spec => []CommandAccepted
<1>1. ControlInv => CommandAccepted
  BY DEF ControlInv, Order, CommandAccepted
<1> QED
  BY <1>1, ControlInvariant, PTL

\* When ibcmd or ibwrt returns ETIMEDOUT, a timer has expired or a callback has run
\* since it began, its own or an earlier ioctl's, or the board has lost charge:
\* the TIMO is not one that was there before.  Not so after a parallel poll that
\* left its timer running.
THEOREM TimeoutsAreFresh == Spec => []TimeoutIsFresh
<1>1. ControlInv => TimeoutIsFresh
  BY DEF ControlInv, Timeouts, TimeoutIsFresh
<1> QED
  BY <1>1, ControlInvariant, PTL

\* The result of a parallel poll is read after the poll, if the handler had seen the
\* chip ready before it began and the board is still in charge.
THEOREM SettledPollsAreDone == Spec => []SettledPollDone
<1>1. ControlInv => SettledPollDone
  BY DEF ControlInv, Polls, SettledPollDone
<1> QED
  BY <1>1, ControlInvariant, PTL
=============================================================================
