------------------------------- MODULE LpvoUsb -------------------------------
(***************************************************************************)
(* The driver for the LPVO adapter, above a copy of the kernel's USB       *)
(* skeleton driver.  A command is written, and one byte read for answer.   *)
(* The skeleton keeps a write from a write (limit_sem) and a read from a   *)
(* read (io_mutex), and nothing keeps a command from a command.            *)
(*                                                                         *)
(* The locks are in the skeleton's device, which lives as long as the      *)
(* adapter is plugged in ("skel") or the board has it open ("open").  Its  *)
(* minor number ("slot") is apart, and its absence is no error of probe.   *)
(***************************************************************************)
EXTENDS UsbSteps

LpSubmit == Undoing({"io"}, <<Has("interface"), Submit>>) \o <<Unlock("io")>>
\* Errors of earlier transfers are reported once.  The write is under way when
\* the function returns, with limit_sem, which its completion gives back.
LpSend ==
  Undoing({"limit"}, <<Check, Take("buffer"), Lock("io")>>)
    \o Undoing({"limit", "buffer"}, LpSubmit)
    \o <<[Sent EXCEPT !.frees = {"urb", "buffer", "limit"}, !.undo = @ \cup {"buffer", "limit"}]>>
\* The pointer to the skeleton's device is in the private data of the board.
LpDoWrite == <<[LockOrSignal("limit") EXCEPT !.uses = {"private"}]>> \o LpSend

\* io_mutex is held while the answer is waited for.  A packet with the status
\* of the adapter only is no answer.
LpAwait == [Check EXCEPT !.data = "received", !.uses = {"interface"}]
LpDoRead ==
  <<[LockOrSignal("io") EXCEPT !.uses = {"private"}]>>
    \o Undoing({"io"}, <<Has("interface"), LpAwait>>) \o <<Unlock("io")>>

LpSendCommand == LpDoWrite \o LpDoRead \o <<Check>>
\* The lines are read, and one changed.
LpSetControlLine == LpSendCommand \o LpSendCommand
LpSetTimeout == Maybe(Ignoring(LpSendCommand \o LpSendCommand))

LpCommand == LpSetTimeout \o Repeated(LpSendCommand)
LpSetAtn == LpSetControlLine
LpTakeControl == LpSetAtn
LpGoToStandby == LpSetAtn
LpInterfaceClear == Maybe(Ignoring(LpSendCommand))
LpRemoteEnable == Ignoring(LpSetControlLine)
LpRequestSystemControl == <<Check>>
LpLineStatus == LpSendCommand
LpUpdateStatus == <<>>
\* The answer has many characters, of which one_char returns one at a time.
\* What has not been read when it is not as expected stays in the adapter.
LpReadMany ==
  With("buffer", LpDoWrite \o LpDoRead \o Repeated(<<Check>>)) \o LpSendCommand
LpReadOne == LpDoWrite \o LpDoRead \o <<Check>>
LpRead == LpSetTimeout \o Choose(LpReadOne, LpReadMany)
LpWrite == LpSetTimeout \o With("buffer", LpSendCommand) \o LpSendCommand
LpParallelPoll == LpSetControlLine \o Ignoring(LpSendCommand) \o LpSetControlLine
LpNothing == <<>>

-----------------------------------------------------------------------------
(* Online and offline *)

\* A device that was looked at is not given back.
LpMatch ==
  Holding("hotplug", <<Has("slot")>> \o Maybe(<<Set("udev")>>) \o <<Check>>)
LpOpen ==
  <<Has("slot"), [Check EXCEPT !.needs = {"intfdata"}, !.keeps = {"open", "interface"}]>>
LpAttach ==
  LpMatch \o <<Keep("private")>>
    \o Handling(LpOpen, <<Drop("private"), Never>>)
    \o LpSendCommand \o LpSendCommand \o LpSendCommand \o LpSetControlLine \o LpSendCommand
LpRelease == Holding("io", <<>>) \o <<[Step EXCEPT !.drops = {"open", "interface"}]>>
LpDetach ==
  If("private", If("open", Ignoring(LpDoWrite) \o LpRelease) \o <<Drop("private")>>)

LpInitModule == <<LockOrSignal("hotplug")>> \o Undoing({"hotplug"}, <<Keep("slot")>>)
                  \o <<Unlock("hotplug")>>
LpExitModule == Holding("hotplug", <<Drop("slot")>>)
LpProbe ==
  <<Keep("skel")>>
    \o Handling(<<Check, Check, Check, Set("intfdata")>>
                  \o Handling(<<Check>>, <<Drop("intfdata"), Never>>),
                <<Drop("skel"), Never>>)
    \o Ignoring(LpInitModule)
LpDisconnect ==
  LpExitModule \o <<Drop("intfdata")>> \o Holding("io", <<Drop("interface")>>)
    \o <<Drop("skel")>>
LpSuspend == <<>>
LpResume == <<>>

LpvoUsb ==
  [ read |-> LpRead, write |-> LpWrite, command |-> LpCommand,
    take_control |-> LpTakeControl, go_to_standby |-> LpGoToStandby,
    update_status |-> LpUpdateStatus, line_status |-> LpLineStatus,
    request_system_control |-> LpRequestSystemControl, interface_clear |-> LpInterfaceClear,
    remote_enable |-> LpRemoteEnable, parallel_poll |-> LpParallelPoll,
    parallel_poll_configure |-> LpNothing, parallel_poll_response |-> LpNothing,
    primary_address |-> LpNothing, secondary_address |-> LpNothing,
    serial_poll_response |-> LpNothing, return_to_local |-> LpNothing,
    t1_delay |-> LpNothing, attach |-> LpAttach, detach |-> LpDetach,
    probe |-> LpProbe, disconnect |-> LpDisconnect, suspend |-> LpSuspend,
    resume |-> LpResume ]
=============================================================================
