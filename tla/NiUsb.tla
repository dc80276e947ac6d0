-------------------------------- MODULE NiUsb --------------------------------
(***************************************************************************)
(* The driver for National Instruments GPIB-USB adapters.  A request is a  *)
(* bulk message out and its answer, a bulk message in; both go through one *)
(* urb, and addressed_transfer_lock is meant to keep them together.        *)
(***************************************************************************)
EXTENDS UsbSteps

\* ni_priv->bulk_urb is set while a transfer is under way: the blocking
\* functions try again until it is not, the others return -EAGAIN.
NiSlot == [Lock("bulk") EXCEPT !.waits = {"bulk", "urb"}]
NiTrySlot == <<Lock("bulk"), [Step EXCEPT !.tests = {"urb"}, !.undo = {"bulk"}]>>
NiSubmit == Undoing({"bulk"}, <<Present, Submit>>) \o <<Unlock("bulk")>>
NiOver(d) == [Over(d) EXCEPT !.waits = {"bulk"}]
NiNonblockingSend == NiTrySlot \o NiSubmit \o <<NiOver("sent")>>
NiNonblockingReceive == NiTrySlot \o NiSubmit \o <<NiOver("received")>>
NiSend == <<NiSlot>> \o NiSubmit \o <<NiOver("sent")>>

NiControl == Holding("control", <<Present, Control>>)
NiStop == Ignoring(Naming(With("buffer", NiControl)))
\* A signal stops the device, and then the answer is waited for.
NiReceive(signals) ==
  <<NiSlot>> \o NiSubmit \o (IF signals THEN Maybe(NiStop) ELSE <<>>) \o <<NiOver("received")>>

NiMonitor == Naming(With("buffer", NiControl))
NiSoftUpdate == Naming(Maybe(Ignoring(NiMonitor)))

\* Leaves the answer to its caller, and the lock with it.
NiExchange(signals) ==
  Naming(<<Take("out"), Lock("addressed")>>) \o Undoing({"out", "addressed"}, NiSend)
    \o <<Free("out")>> \o Undoing({"addressed"}, <<Take("in")>>)
    \o Undoing({"in", "addressed"}, NiReceive(signals))

NiWriteRegisters == NiExchange(FALSE) \o <<Unlock("addressed"), Free("in"), Check>>
\* The answer is parsed, and ends with an error code.
NiAnswer == Undoing({"in"}, <<Check>>) \o <<Free("in")>> \o NiSoftUpdate \o <<Check>>

NiRead == <<Present, Check>> \o NiExchange(TRUE) \o <<Unlock("addressed")>> \o NiAnswer
NiWrite == <<Present, Check>> \o NiExchange(TRUE) \o <<Unlock("addressed")>> \o NiAnswer
NiCommandChunk == <<Present>> \o NiExchange(TRUE) \o <<Unlock("addressed")>> \o NiAnswer
NiCommand == Repeated(NiCommandChunk)
NiTakeControl == <<Present>> \o NiExchange(TRUE) \o <<Unlock("addressed")>> \o NiAnswer
NiGoToStandby == <<Present>> \o NiExchange(FALSE) \o <<Unlock("addressed")>> \o NiAnswer

NiSetRegisters == <<Present>> \o NiWriteRegisters \o NiSoftUpdate
NiRequestSystemControl == NiSetRegisters
NiRemoteEnable == NiSetRegisters
NiPrimaryAddress == NiSetRegisters
NiSecondaryAddress == NiSetRegisters
NiParallelPollConfigure == NiSetRegisters
NiParallelPollResponse == NiSetRegisters
NiSerialPollResponse == NiSetRegisters
NiReturnToLocal == NiSetRegisters
NiT1Delay == NiSetRegisters

\* These two do not take addressed_transfer_lock.
NiBare(signals) ==
  Naming(With("out", NiSend)) \o With("in", NiReceive(signals))
NiInterfaceClear == <<Present, Check>> \o NiBare(FALSE) \o NiSoftUpdate
NiParallelPoll == <<Present>> \o NiBare(TRUE) \o NiSoftUpdate

NiUpdateStatus == <<Present>> \o NiMonitor \o NiSoftUpdate
NiLineStatus ==
  <<Present>> \o Naming(<<Take("out"), [TryLock("addressed") EXCEPT !.undo = {"out"}]>>)
    \o Undoing({"out", "addressed"}, NiNonblockingSend)
    \o <<Free("out")>> \o Undoing({"addressed"}, <<Take("in")>>)
    \o Undoing({"in", "addressed"}, NiNonblockingReceive)
    \o <<Unlock("addressed"), Free("in")>>

-----------------------------------------------------------------------------
(* Online and offline *)

NiReadSerialNumber == Naming(With("in", With("out", NiSend \o NiReceive(FALSE))))
NiWaitForReady == Naming(With("buffer", NiControl \o Repeated(NiControl \o <<Check>>)))
NiPlusExtraInit == Naming(With("buffer", NiControl \o NiControl \o NiControl))
\* NI-USB-B; HS and the adapters like it; HS+; an unknown one.
NiProduct ==
  Choose(Ignoring(NiReadSerialNumber),
         NiWaitForReady \o Choose(<<>>, Choose(NiPlusExtraInit, <<Never>>)))
NiSetupUrbs ==
  <<Lock("interrupt")>> \o Undoing({"interrupt"}, <<Present, Keep("int_urb"), Listen>>)
    \o <<Unlock("interrupt")>>
NiInit == Naming(With("writes", NiWriteRegisters)) \o NiSoftUpdate
NiClaim ==
  [Has("slot") EXCEPT !.absent = {"intfdata"}, !.keeps = {"interface", "intfdata"}]
NiCleanupUrbs == If("interface", <<Kill>>)
\* The locks are part of what is freed.
NiFreePrivate ==
  [Step EXCEPT !.frees = {"bulk", "control", "interrupt"},
               !.drops = {"private", "interface", "int_urb"}]
NiShutdownHardware == NiWriteRegisters

NiAttach ==
  <<Lock("hotplug")>>
    \o Undoing({"hotplug"}, <<Keep("private"), NiClaim>> \o NiProduct \o NiSetupUrbs
                              \o NiMonitor \o NiInit \o NiMonitor)
    \o <<Unlock("hotplug")>>
NiDetach ==
  <<Lock("hotplug")>>
    \o If("private",
          If("interface", Ignoring(NiMonitor) \o Ignoring(NiShutdownHardware)
                            \o <<Drop("intfdata")>>)
            \o <<Lock("bulk"), Lock("control"), Lock("interrupt")>> \o NiCleanupUrbs
            \o <<NiFreePrivate>>)
    \o <<Unlock("hotplug")>>

NiProbe ==
  Holding("hotplug", <<[Keep("slot") EXCEPT !.drops = {"intfdata"}]>> \o With("path", <<>>))
NiDisconnect ==
  <<Lock("hotplug")>>
    \o If("intfdata",
          If("private",
             <<Lock("bulk"), Lock("control"), Lock("interrupt")>> \o NiCleanupUrbs
               \o <<Drop("interface"), Unlock("interrupt"), Unlock("control"), Unlock("bulk")>>))
    \o <<Drop("slot"), Unlock("hotplug")>>
NiSuspend ==
  <<Lock("hotplug")>>
    \o If("intfdata",
          If("private",
             Ignoring(NiMonitor) \o Undoing({"hotplug"}, NiShutdownHardware)
               \o If("int_urb", Holding("interrupt", NiCleanupUrbs))))
    \o <<Unlock("hotplug")>>
NiResume ==
  <<Lock("hotplug")>>
    \o If("intfdata",
          If("private",
             Undoing({"hotplug"},
                     <<Has("int_urb")>> \o Holding("interrupt", <<Listen>>) \o NiProduct
                       \o NiMonitor \o NiInit \o NiMonitor)
               \o Maybe(Ignoring(NiInterfaceClear)) \o Maybe(Ignoring(NiRemoteEnable))))
    \o <<Unlock("hotplug")>>

NiUsb ==
  [ read |-> NiRead, write |-> NiWrite, command |-> NiCommand,
    take_control |-> NiTakeControl, go_to_standby |-> NiGoToStandby,
    update_status |-> NiUpdateStatus, line_status |-> NiLineStatus,
    request_system_control |-> NiRequestSystemControl, interface_clear |-> NiInterfaceClear,
    remote_enable |-> NiRemoteEnable, parallel_poll |-> NiParallelPoll,
    parallel_poll_configure |-> NiParallelPollConfigure,
    parallel_poll_response |-> NiParallelPollResponse,
    primary_address |-> NiPrimaryAddress, secondary_address |-> NiSecondaryAddress,
    serial_poll_response |-> NiSerialPollResponse, return_to_local |-> NiReturnToLocal,
    t1_delay |-> NiT1Delay, attach |-> NiAttach, detach |-> NiDetach,
    probe |-> NiProbe, disconnect |-> NiDisconnect, suspend |-> NiSuspend,
    resume |-> NiResume ]
=============================================================================
