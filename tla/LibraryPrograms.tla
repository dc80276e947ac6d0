--------------------------- MODULE LibraryPrograms ---------------------------
(***************************************************************************)
(* The calls of libgpib (linux-gpib-user/lib), each as the sequence of the *)
(* steps that it takes, for a device descriptor and for a board            *)
(* descriptor.  A list of addresses is one address, and what depends only  *)
(* on arguments is a choice.                                               *)
(***************************************************************************)
EXTENDS LibrarySteps

-----------------------------------------------------------------------------
(* ibutil.c, ibOnl.c: entering and leaving the library *)

CheckDescriptor == [Step EXCEPT !.op = "check", !.name = "descriptor"]
ConfOnline == Does("online", "open")
ConfLockBoard == Does("lock", "lock")
ParseConfigFile == Can("configuration")
EnterUnlocked == <<ParseConfigFile, CheckDescriptor, ConfOnline>>
Enter == EnterUnlocked \o <<Eoip, ConfLockBoard>>
Call(p) == Enter \o p \o <<Exit>>
Unlocked(p) == EnterUnlocked \o p \o <<Exit>>

CloseHandle == Does("close", "close")
OpenHandle == Does("reopen", "open")
FindPlace == Does("find", "table")
Insert == Does("insert", "memory")
Release == [Step EXCEPT !.op = "release"]
UnlockBoard == [Step EXCEPT !.op = "unlock"]

-----------------------------------------------------------------------------
(* ibCmd.c, ibFindLstn.c, ibRd.c: commands *)

MyIbcmd(addr, says) == <<IsCic, Command(addr, says)>>
UnlistenUntalk == MyIbcmd("none", "")
CreateSendSetup == <<Build>>
SendSetup == CreateSendSetup \o MyIbcmd("listen", "")
ReceiveSetup == <<Argument, Query>> \o MyIbcmd("talk", "")
\* The address and what is said to it are one message.
Tell(says) == CreateSendSetup \o MyIbcmd("listen", says)

InternalSendSetup == <<Argument, IsCic, Memory>> \o SendSetup
ApiSendSetup == Call(InternalSendSetup)
InternalSendDataBytes(addr) == <<Argument, Send(addr)>>
SendDataBytes == Call(InternalSendDataBytes("any"))
InternalSendList == <<Argument, IsCic>> \o InternalSendSetup \o InternalSendDataBytes("listen")
SendList == Call(InternalSendList)

-----------------------------------------------------------------------------
(* ibRd.c *)

Iblcleos == <<Can("eos")>>
MyIbrdDevice ==
  Ignoring(Iblcleos) \o ReceiveSetup
    \o Choose(<<Read("talk")>>, Ignoring(<<Read("talk")>>) \o UnlistenUntalk)
MyIbrdBoard == Ignoring(Iblcleos) \o <<Read("any")>>
ReadToFile(addr, after) ==
  Handling(Repeated(<<Read(addr), File>>), after \o <<Never>>) \o after \o <<File>>
IbrdfDevice ==
  <<File>> \o ReceiveSetup \o Ignoring(Iblcleos)
    \o Choose(ReadToFile("talk", <<>>), ReadToFile("talk", UnlistenUntalk))
IbrdfBoard == <<File>> \o Ignoring(Iblcleos) \o ReadToFile("any", <<>>)
InternalRcvRespMsg(addr) == <<IsCic, Argument>> \o Iblcleos \o <<Read(addr)>>
RcvRespMsg == Call(InternalRcvRespMsg("any"))
ApiReceiveSetup == Call(ReceiveSetup)
InternalReceive == ReceiveSetup \o InternalRcvRespMsg("talk")
Receive == Call(InternalReceive)
Ibrd(p) == Call(p)
Ibrdf(p) == Call(p)
\* The transfer itself is module AsyncIo's.
Launch == <<Memory, Eoip, Can("thread")>>
Ibrda == Unlocked(Launch)

-----------------------------------------------------------------------------
(* ibWrt.c *)

MyIbwrtDevice ==
  SendSetup \o Choose(<<Send("listen")>>, Ignoring(<<Send("listen")>>) \o UnlistenUntalk)
MyIbwrtBoard == <<Send("any")>>
IbwrtfDevice == <<File>> \o SendSetup
    \o LET send == <<File, Send("listen")>>
       IN  Choose(send, Ignoring(send) \o UnlistenUntalk)
IbwrtfBoard == <<File, File, Send("any")>>
Ibwrt(p) == Call(p)
Ibwrtf(p) == Call(p)
Ibwrta == Unlocked(Launch)
Ibcmd == Call(MyIbcmd("none", ""))
Ibcmda == Unlocked(<<IsCic>> \o Launch)

-----------------------------------------------------------------------------
(* ibTrg.c, ibClr.c, ibLoc.c, ibppc.c, ibSre.c, local_lockout.c *)

MyTrigger == <<Argument, Memory>> \o Tell("GET")
Ibtrg == Call(MyTrigger)
TriggerList == Call(MyTrigger)
Ibclr == Call(Tell("SDC"))
InternalDevClearList == <<Argument, IsCic, Memory>> \o Choose(Tell("SDC"), MyIbcmd("keep", "DCL"))
\* The second exit_library tells that there was no error.
DevClearList == Enter \o Handling(InternalDevClearList, <<ExitError>>) \o <<Exit>>
\* It alone looks whether there is a setup.
IblocDevice ==
  EnterUnlocked \o <<ConfLockBoard, [Build EXCEPT !.skip = 0]>> \o MyIbcmd("listen", "GTL") \o <<Exit>>
IblocBoard == Unlocked(<<Ioctl>>)
PpollConfigureDevice(says) == <<IsCic, Memory>> \o Tell(says)
BoardPpc == <<Query, Argument, Query, Ioctl>>
InternalIbppcDevice == <<Argument>> \o PpollConfigureDevice("PPE")
InternalIbppcBoard == <<Argument>> \o BoardPpc
Ibppc(p) == Call(p)
PPollConfig == Call(<<Argument>> \o PpollConfigureDevice("PPE"))
PPollUnconfig == Call(<<Argument>> \o Choose(PpollConfigureDevice("PPD"), MyIbcmd("keep", "PPU")))
InternalIbist == <<Query, Ioctl>>
Ibist == Call(InternalIbist)

RemoteEnable == <<IsSystemController, Ioctl>>
InternalEnableRemote == <<Argument, IsCic>> \o RemoteEnable \o Maybe(<<Memory>> \o Tell("REN"))
EnableRemote == Call(InternalEnableRemote)
EnableLocal == Call(<<Argument, IsCic>> \o Choose(RemoteEnable, <<Memory>> \o Tell("GTL")))
LocalLockout == <<Argument>> \o InternalEnableRemote \o MyIbcmd("keep", "LLO")
SendLLO == Call(LocalLockout)
Ibsre == Call(RemoteEnable)

-----------------------------------------------------------------------------
(* ibSic.c, ibCac.c, ibGts.c, ibBoard.c, self_test.c, pass_control.c *)

Ifc == Does("clear", "ioctl")
InternalIbsic == <<IsSystemController, Ifc>>
Ibsic == Call(InternalIbsic)
RequestSystemControl == <<Ioctl>> \o Maybe(RemoteEnable)
Ibrsc == Call(RequestSystemControl)
Ibcac == Call(<<IsCic>> \o Handling(<<Ioctl>>, Maybe(<<Never>>) \o <<Ioctl>>))
InternalIbgts == <<IsCic, Ioctl>>
Ibgts == Call(InternalIbgts)
ConfigureAutospoll == Maybe(<<Ioctl>>)
InternalResetSys ==
  <<Argument, IsSystemController, IsCic>> \o RemoteEnable \o InternalIbsic
    \o <<Argument, IsCic, Memory>> \o MyIbcmd("keep", "DCL") \o InternalSendList
InternalTestSys ==
  <<IsCic, Argument>> \o InternalSendList \o InternalReceive
TestSys == Call(InternalTestSys)
ResetSys == Call(InternalResetSys)
\* What InternalReceiveSetup returns is the length of the message: 0, or, when
\* it fails, -1, and what follows TCT in memory is sent as commands.
MyPassControl ==
  Handling(ReceiveSetup, <<IsCic, [Says("TCT") EXCEPT !.op = "overrun"], Jump(3)>>)
    \o <<IsCic, [Says("TCT") EXCEPT !.op = "empty command"]>> \o Ignoring(InternalIbgts)
Ibpct == Call(MyPassControl)
PassControl == Call(<<Argument>> \o MyPassControl)

-----------------------------------------------------------------------------
(* ibFindLstn.c, ibRsp.c, ibRpp.c, ibLines.c *)

AddressBoardAsTalker == <<[Query EXCEPT !.skip = 3]>> \o MyIbcmd("board", "")
InternalIblines == <<Ioctl>>
ListenerFound == <<Argument, Memory>> \o MyIbcmd("listen", "") \o InternalIbgts \o InternalIblines
\* Where nobody listens a secondary address is looked for, and none is reported,
\* since listenerFound does not return more than 1.
FindLstn ==
  Call(InternalIblines \o <<Argument>> \o AddressBoardAsTalker
         \o Repeated(ListenerFound \o Choose(<<Argument>>, ListenerFound \o Maybe(ListenerFound)))
         \o UnlistenUntalk)
Ibln == Call(AddressBoardAsTalker \o ListenerFound \o UnlistenUntalk)

SerialPoll == <<Poll>>
Ibrsp == Call(SerialPoll)
AllSPoll == Call(<<Argument, IsCic>> \o Repeated(SerialPoll))
FindRQS == Call(<<Argument, IsCic>> \o Repeated(SerialPoll) \o Maybe(<<Never>>))
ReadStatusByte == Call(<<Argument, IsCic>> \o SerialPoll)
InternalIbrpp == <<IsCic, Ioctl>>
Ibrpp == Call(InternalIbrpp)
PPoll == Call(InternalIbrpp)
Iblines == Unlocked(InternalIblines)
TestSRQ == Unlocked(InternalIblines \o <<Argument>>)

-----------------------------------------------------------------------------
(* ibPad.c to ibask.c: settings *)

InternalIbpad == <<Argument, Ioctl>>
Ibpad == Call(InternalIbpad)
InternalIbsad == <<Argument, Ioctl>>
Ibsad == Call(InternalIbsad)
InternalIbtmo == <<Argument>>
Ibtmo == Unlocked(InternalIbtmo)
InternalIbrsv2 == <<Argument, Ioctl>>
Ibrsv == Call(InternalIbrsv2)
InternalIbspb == <<Ioctl>>
Ibspb == Unlocked(InternalIbspb)
Ibeos == Unlocked(<<>>)
Ibeot == Unlocked(<<>>)
Ibevent == Unlocked(<<Ioctl>>)
Ibdma == Call(<<>>)
IbaskCommon == Call(Maybe(<<Query>>))
IbaskBoard == Call(Maybe(<<Query>>))
IbaskDevice == Call(Maybe(<<Argument>>))
IbconfigCommon == Call(Choose(InternalIbpad, Choose(InternalIbsad, Maybe(<<Argument>>))))
SetCableLength == <<Argument>> \o MyIbcmd("keep", "CFG")
IbconfigBoard ==
  Call(Choose(InternalIbppcBoard, Choose(ConfigureAutospoll, Choose(RequestSystemControl,
         Choose(SetCableLength, Choose(InternalIbist, Choose(InternalIbrsv2, Maybe(<<Argument>>))))))))

\* The descriptor's board is the one of the entry of ibFindConfigs that the call
\* has chosen.
Move == [Step EXCEPT !.op = "move"]
MyIbbna == <<CloseHandle, Argument, IsCic, Move, Can("open"), OpenHandle>>
Ibbna == Call(<<Argument>> \o MyIbbna)
IbconfigDevice == Call(Choose(MyIbbna, Maybe(<<Argument>>)))

-----------------------------------------------------------------------------
(* ibdev.c, ibFind.c, ibOnl.c, ibWait.c: descriptors *)

MyIbdev ==
  Handling(<<FindPlace, Insert>>, <<ReturnError>>) \o Handling(Enter, <<ExitError, Release, ReturnError>>) \o <<Exit>>
\* It closes the handle of its own copy of the descriptor, which has none.
Ibdev ==
  Handling(<<Argument, ParseConfigFile>>, <<ReturnError>>) \o MyIbdev
    \o Handling(<<Query, Query, Argument>>, <<Release, ReturnError>>)
Within(p) == Handling(Enter \o p \o <<[Exit EXCEPT !.skip = 0]>>, <<ExitError, ReturnError>>)
Ibfind ==
  Handling(<<ParseConfigFile, Argument>>, <<ReturnError>>) \o MyIbdev
    \o Maybe(Within(Tell("SDC"))) \o Maybe(Within(MyIbwrtDevice))

InternalIbstop == <<Can("join")>>
Ibstop == Unlocked(InternalIbstop)
\* The number of the board that the descriptor had at first is taken for an
\* index of ibFindConfigs, where any board may be.
ReinitDevice == InternalIbpad \o InternalIbsad \o MyIbbna
ReinitBoard == InternalIbpad \o InternalIbsad
Online(reinit) == Unlocked(InternalIbstop \o <<ConfLockBoard>> \o reinit)
Offline ==
  EnterUnlocked \o InternalIbstop \o <<ConfLockBoard, [Exit EXCEPT !.op = "status"]>>
    \o Handling(<<CloseHandle>>, <<UnlockBoard, ReturnError>>) \o <<UnlockBoard, Release>>
MyWaitDevice == <<IsCic, Argument, Ioctl>>
MyWaitBoard == <<Argument, Ioctl>>
IbwaitDevice == Unlocked(<<Argument>> \o MyWaitDevice)
WaitSRQ == Unlocked(MyWaitBoard)

-----------------------------------------------------------------------------
(* What may be called *)

\* Calls that take no descriptor.
OpeningCalls == [ibdev |-> Ibdev, ibfind |-> Ibfind]

DeviceCalls ==
  [ ibrd |-> Ibrd(MyIbrdDevice), ibrdf |-> Ibrdf(IbrdfDevice), ibrda |-> Ibrda,
    ibwrt |-> Ibwrt(MyIbwrtDevice), ibwrtf |-> Ibwrtf(IbwrtfDevice), ibwrta |-> Ibwrta,
    ibtrg |-> Ibtrg, ibclr |-> Ibclr, ibloc |-> IblocDevice, ibpct |-> Ibpct,
    ibppc |-> Ibppc(InternalIbppcDevice), ibrpp |-> Ibrpp, ibrsp |-> Ibrsp,
    ibspb |-> Ibspb, ibpad |-> Ibpad, ibsad |-> Ibsad,
    ibtmo |-> Ibtmo, ibeos |-> Ibeos, ibeot |-> Ibeot, ibdma |-> Ibdma,
    ibask |-> IbaskCommon, IbaskDevice |-> IbaskDevice,
    ibconfig |-> IbconfigCommon, IbconfigDevice |-> IbconfigDevice, ibbna |-> Ibbna,
    ibln |-> Ibln, ibwait |-> IbwaitDevice, ibstop |-> Ibstop,
    IbonlDevice |-> Online(ReinitDevice), ibonl0 |-> Offline ]
\* Those that choose a board.
Movers == {"ibbna", "IbconfigDevice", "IbonlDevice"}

BoardCalls ==
  [ ibrd |-> Ibrd(MyIbrdBoard), ibrdf |-> Ibrdf(IbrdfBoard),
    ibwrt |-> Ibwrt(MyIbwrtBoard), ibwrtf |-> Ibwrtf(IbwrtfBoard), ibcmd |-> Ibcmd, ibcmda |-> Ibcmda,
    SendSetup |-> ApiSendSetup, SendDataBytes |-> SendDataBytes, SendList |-> SendList,
    ReceiveSetup |-> ApiReceiveSetup, RcvRespMsg |-> RcvRespMsg, Receive |-> Receive,
    TriggerList |-> TriggerList, DevClearList |-> DevClearList, EnableLocal |-> EnableLocal,
    EnableRemote |-> EnableRemote, SendLLO |-> SendLLO, PassControl |-> PassControl,
    PPollConfig |-> PPollConfig, PPollUnconfig |-> PPollUnconfig, PPoll |-> PPoll,
    FindLstn |-> FindLstn, AllSPoll |-> AllSPoll, FindRQS |-> FindRQS, ReadStatusByte |-> ReadStatusByte,
    TestSys |-> TestSys, ResetSys |-> ResetSys, ibsic |-> Ibsic, ibsre |-> Ibsre, ibrsc |-> Ibrsc,
    ibcac |-> Ibcac, ibgts |-> Ibgts, ibloc |-> IblocBoard, ibist |-> Ibist,
    ibppc |-> Ibppc(InternalIbppcBoard), ibrsv |-> Ibrsv, iblines |-> Iblines,
    TestSRQ |-> TestSRQ, ibevent |-> Ibevent, WaitSRQ |-> WaitSRQ, IbaskBoard |-> IbaskBoard,
    IbconfigBoard |-> IbconfigBoard, ibonl |-> Online(ReinitBoard), ibonl0 |-> Offline ]
=============================================================================
