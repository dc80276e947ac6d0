------------------------------ MODULE XyphroUsb ------------------------------
(***************************************************************************)
(* The driver for the Xyphro adapter.  io_mutex keeps transfers apart, but *)
(* not from control messages, and disconnect does not take it.  A request  *)
(* for data has a tag, which the answer repeats: one that does not match   *)
(* is thrown away, with what else the adapter has to send.                 *)
(***************************************************************************)
EXTENDS UsbSteps

XuControlOut == <<Present>> \o With("buffer", <<Control, Check>>)
XuControlIn == <<Present>> \o With("buffer", <<Control, Check>>)
\* What the adapter still has to send is read and thrown away.
XuAbortBulkIn ==
  With("abort", <<Control, Check>> \o Repeated(<<[Control EXCEPT !.data = "drained"]>>)
                  \o <<Control, Check>>)
XuAbortBulkOut == With("abort", <<Control, Check>> \o Repeated(<<Control>>) \o <<Control>>)

XuCreateUrb == Take("urb")
XuSendRequest == With("header", <<[Control EXCEPT !.data = "sent"]>>)
XuAwait == [Check EXCEPT !.data = "received"]
XuFail(abort) == Ignoring(abort) \o <<Unlock("io"), Free("urb"), Leave>>
\* A signal leaves the urb and the timer behind.
XuSignal(abort) == Ignoring(abort) \o <<Set("timer"), Unlock("io"), Leave>>
\* An answer that does not match ends the read, but not with an error.
XuRead ==
  <<Lock("io")>> \o Undoing({"io"}, <<Present, XuCreateUrb>>)
    \o Handling(
         Repeated(Handling(XuSendRequest, XuFail(XuAbortBulkOut))
                    \o Handling(<<Control>>, XuFail(XuAbortBulkIn))
                    \o Handling(<<Check>>, XuSignal(XuAbortBulkIn))
                    \o HandlingBy(XuFail(XuAbortBulkIn), XuAwait)
                    \o <<Matched>>),
         Ignoring(XuAbortBulkIn))
    \o <<Unlock("io"), Free("urb")>>
XuWrite ==
  <<Present, Lock("io")>> \o Undoing({"io"}, <<XuCreateUrb>>)
    \o Repeated(Handling(<<Control>>, XuFail(XuAbortBulkOut))
                  \o Handling(<<Check>>, XuSignal(XuAbortBulkOut))
                  \o Handling(<<Check>>, XuFail(XuAbortBulkOut)))
    \o <<Free("urb"), Unlock("io")>>
XuCommand == XuWrite

XuSetAtn == <<Present>> \o XuControlOut
XuTakeControl == XuSetAtn
XuGoToStandby == XuSetAtn
XuInterfaceClear == <<Present>> \o Ignoring(XuControlOut)
XuRemoteEnable == <<Present>> \o Ignoring(XuControlOut)
\* The board can only be system controller.
XuRequestSystemControl ==
  <<Present, Check>> \o Ignoring(XuInterfaceClear) \o Ignoring(XuRemoteEnable)
    \o Ignoring(XuSetAtn)
XuLineStatus == <<Present>> \o Ignoring(XuControlIn)
XuUpdateStatus == <<Present>> \o Ignoring(XuLineStatus)
XuPrimaryAddress == <<Present, Check>> \o XuControlOut
XuParallelPoll == <<Never>>
XuT1Delay == <<Present>>
XuNothing == <<>>

-----------------------------------------------------------------------------
(* Online and offline *)

XuFreeInt == If("int_urb", <<[Step EXCEPT !.drops = {"listening", "int_urb", "int_buffer"}]>>)
XuFreePrivate == [Step EXCEPT !.frees = {"io"}, !.drops = {"private", "interface"}]
XuClaim ==
  [Has("slot") EXCEPT !.absent = {"intfdata"}, !.keeps = {"interface", "intfdata"}]
\* Only detach clears the interface's driver data.
XuAttach ==
  <<LockOrSignal("hotplug")>> \o Undoing({"hotplug"}, <<Keep("private")>>)
    \o Handling(<<XuClaim, Keep("int_urb"), Keep("int_buffer"), Listen>>,
                XuFreeInt \o <<XuFreePrivate, Unlock("hotplug"), Never>>)
    \o Ignoring(XuPrimaryAddress) \o <<Unlock("hotplug")>>
XuDetach ==
  <<Lock("hotplug")>>
    \o If("private", If("interface", <<Drop("intfdata")>>) \o XuFreeInt \o <<XuFreePrivate>>)
    \o <<Unlock("hotplug")>>
XuProbe ==
  <<LockOrSignal("hotplug")>>
    \o Undoing({"hotplug"}, <<[Keep("slot") EXCEPT !.drops = {"intfdata"}]>> \o With("path", <<>>))
    \o <<Unlock("hotplug")>>
XuDisconnect ==
  <<Lock("hotplug")>>
    \o If("intfdata", If("private", XuFreeInt \o <<Drop("interface")>>))
    \o <<Drop("slot"), Unlock("hotplug")>>
\* The result is not set if there is a board: suspend succeeds or fails.
XuSuspend ==
  Holding("hotplug", <<Has("intfdata")>> \o If("private", If("int_urb", <<Kill>>)) \o <<Check>>)
XuResume ==
  Holding("hotplug",
          <<Has("intfdata"), [Step EXCEPT !.uses = {"private"}]>> \o If("int_urb", <<Listen>>))

XyphroUsb ==
  [ read |-> XuRead, write |-> XuWrite, command |-> XuCommand,
    take_control |-> XuTakeControl, go_to_standby |-> XuGoToStandby,
    update_status |-> XuUpdateStatus, line_status |-> XuLineStatus,
    request_system_control |-> XuRequestSystemControl, interface_clear |-> XuInterfaceClear,
    remote_enable |-> XuRemoteEnable, parallel_poll |-> XuParallelPoll,
    parallel_poll_configure |-> XuNothing, parallel_poll_response |-> XuNothing,
    primary_address |-> XuPrimaryAddress, secondary_address |-> XuNothing,
    serial_poll_response |-> XuNothing, return_to_local |-> XuNothing,
    t1_delay |-> XuT1Delay, attach |-> XuAttach, detach |-> XuDetach,
    probe |-> XuProbe, disconnect |-> XuDisconnect, suspend |-> XuSuspend,
    resume |-> XuResume ]
=============================================================================
