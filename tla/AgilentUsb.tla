----------------------------- MODULE AgilentUsb -----------------------------
(***************************************************************************)
(* The driver for Agilent 82357A and B adapters.  bulk_transfer_lock keeps *)
(* a message and its answer together, and the alloc locks guard the urbs;  *)
(* all of them are waited for interruptibly.  Data that is written is      *)
(* acknowledged by an interrupt and not by an answer.                      *)
(***************************************************************************)
EXTENDS UsbSteps

AgBulk(d) ==
  <<LockOrSignal("bulk_alloc")>>
    \o Undoing({"bulk_alloc"}, <<Present, [Step EXCEPT !.tests = {"urb"}], Submit>>)
    \o <<Unlock("bulk_alloc"), [Over(d) EXCEPT !.waits = {"bulk_alloc"}]>>
AgSend == AgBulk("sent")
AgReceive == AgBulk("received")
AgControl ==
  <<LockOrSignal("control_alloc")>> \o Undoing({"control_alloc"}, <<Present, Control>>)
    \o <<Unlock("control_alloc")>>
AgAbort == Naming(With("status", AgControl \o <<Check>>))

\* The lock is waited for, or tried.  An answer that is not the expected
\* one, or has an error code, is not freed.
AgExchange(lock) ==
  Naming(<<Check, Take("out")>>) \o Undoing({"out"}, <<lock>>)
    \o Undoing({"out", "bulk_transfer"}, AgSend)
    \o <<Free("out")>> \o Undoing({"bulk_transfer"}, <<Take("in")>>)
    \o Undoing({"in", "bulk_transfer"}, AgReceive)
    \o <<Unlock("bulk_transfer"), Check, Free("in")>>
AgWriteRegisters == AgExchange(LockOrSignal("bulk_transfer"))
AgReadRegisters == AgExchange(LockOrSignal("bulk_transfer"))
AgPeekRegisters == AgExchange(TryLock("bulk_transfer"))

AgTakeControlInternal == AgWriteRegisters
\* A transfer that times out is flushed, and may leave more to read.
AgRead ==
  <<Present>> \o Naming(<<Take("out")>>) \o Undoing({"out"}, <<LockOrSignal("bulk_transfer")>>)
    \o Undoing({"out", "bulk_transfer"}, AgSend)
    \o <<Free("out")>> \o Undoing({"bulk_transfer"}, <<Take("in")>>)
    \o Handling(AgReceive,
         Choose(Ignoring(AgAbort),
                Ignoring(AgAbort) \o Handling(AgReceive, Ignoring(AgAbort))))
    \o <<Unlock("bulk_transfer"), Free("in")>> \o Ignoring(AgTakeControlInternal) \o <<Check>>

\* Written data has no answer: the message is over when it is sent.
AgSendData == [i \in DOMAIN AgSend |-> [AgSend[i] EXCEPT !.data = ""]]
AgWhyTimedOut == AgReadRegisters \o Maybe(AgReadRegisters) \o <<Never>>
\* A signal; the write has not completed in time; it has.
AgGenericWrite ==
  <<Present>> \o Naming(<<Take("out")>>) \o Undoing({"out"}, <<LockOrSignal("bulk_transfer")>>)
    \o Handling(Undoing({"out"}, AgSendData) \o <<Free("out"), Check>>,
                Ignoring(AgAbort) \o <<Unlock("bulk_transfer"), Never>>)
    \o Choose(Ignoring(AgAbort) \o <<Unlock("bulk_transfer")>> \o AgWhyTimedOut,
              Undoing({"bulk_transfer"}, <<Take("status")>>)
                \o Handling(AgControl,
                            <<Unlock("bulk_transfer"), Free("status"), Never>>)
                \o <<Unlock("bulk_transfer"), Free("status")>>)
AgWrite == AgGenericWrite
AgCommand == AgGenericWrite

AgUpdateStatus == <<Present>> \o AgPeekRegisters \o AgPeekRegisters
AgLineStatus == <<Present>> \o AgPeekRegisters
\* Synchronously, it is refused.
AgTakeControl ==
  <<Present, Check>> \o Ignoring(AgTakeControlInternal)
    \o Repeated(Ignoring(AgUpdateStatus)) \o <<Check>>
AgSetRegisters == <<Present, Check>> \o AgWriteRegisters
AgGoToStandby == AgSetRegisters
AgRequestSystemControl == AgSetRegisters
AgInterfaceClear == AgSetRegisters
AgRemoteEnable == AgSetRegisters
AgPrimaryAddress == <<Names>> \o AgSetRegisters
AgT1Delay == AgSetRegisters
AgParallelPoll == <<Present>> \o AgWriteRegisters \o AgReadRegisters \o AgWriteRegisters
\* The board can only be system controller.
AgNothing == <<Check>>

-----------------------------------------------------------------------------
(* Online and offline *)

AgCleanupUrbs == If("interface", <<Kill>>)
AgReleaseUrbs == [Step EXCEPT !.drops = {"int_urb", "int_buffer"}]
AgFreePrivate ==
  [Step EXCEPT !.frees = {"bulk_alloc", "control_alloc", "interrupt_alloc", "bulk_transfer"},
               !.drops = {"private", "interface"}]
AgSetupUrbs ==
  <<LockOrSignal("interrupt_alloc")>>
    \o Handling(<<Present, Keep("int_buffer"), Keep("int_urb"), Listen>>,
                <<AgReleaseUrbs, Unlock("interrupt_alloc"), Never>>)
    \o <<Unlock("interrupt_alloc")>>
AgInit == AgWriteRegisters \o <<Check>> \o AgWriteRegisters \o AgReadRegisters
AgGoIdle == AgWriteRegisters
AgClaim ==
  [Has("slot") EXCEPT !.absent = {"intfdata"}, !.keeps = {"interface", "intfdata"}]

\* Only detach clears the interface's driver data.
AgAttach ==
  <<LockOrSignal("hotplug")>> \o Undoing({"hotplug"}, <<Keep("private")>>)
    \o Handling(
         <<AgClaim, Check>> \o AgSetupUrbs
           \o Handling(AgInit, AgCleanupUrbs \o <<AgReleaseUrbs, Never>>),
         <<AgFreePrivate, Unlock("hotplug"), Never>>)
    \o <<Unlock("hotplug")>>
AgDetach ==
  <<Lock("hotplug")>>
    \o If("private",
          If("interface", Ignoring(AgGoIdle) \o <<Drop("intfdata")>>)
            \o <<Lock("control_alloc"), Lock("bulk_alloc"), Lock("interrupt_alloc")>>
            \o AgCleanupUrbs \o <<AgReleaseUrbs, AgFreePrivate>>)
    \o <<Unlock("hotplug")>>

AgProbe ==
  <<LockOrSignal("hotplug")>>
    \o Undoing({"hotplug"}, <<[Keep("slot") EXCEPT !.drops = {"intfdata"}]>> \o With("path", <<>>))
    \o <<Unlock("hotplug")>>
AgDisconnect ==
  <<Lock("hotplug")>>
    \o If("intfdata",
          If("private",
             <<Lock("control_alloc"), Lock("bulk_alloc"), Lock("interrupt_alloc")>>
               \o AgCleanupUrbs
               \o <<Drop("interface"), Unlock("interrupt_alloc"), Unlock("bulk_alloc"),
                    Unlock("control_alloc")>>))
    \o <<Drop("slot"), Unlock("hotplug")>>
AgSuspend ==
  <<Lock("hotplug")>>
    \o If("intfdata",
          If("private",
             Ignoring(AgAbort) \o Ignoring(AgAbort) \o Undoing({"hotplug"}, AgGoIdle)
               \o Holding("interrupt_alloc", AgCleanupUrbs)))
    \o <<Unlock("hotplug")>>
AgResume ==
  <<Lock("hotplug")>>
    \o If("intfdata",
          If("private",
             Undoing({"hotplug"},
                     If("int_urb", Holding("interrupt_alloc", <<Listen>>)) \o AgInit)
               \o Ignoring(AgRequestSystemControl)
               \o Maybe(Ignoring(AgInterfaceClear) \o Ignoring(AgInterfaceClear))
               \o Ignoring(AgRemoteEnable)))
    \o <<Unlock("hotplug"), Check>>

AgilentUsb ==
  [ read |-> AgRead, write |-> AgWrite, command |-> AgCommand,
    take_control |-> AgTakeControl, go_to_standby |-> AgGoToStandby,
    update_status |-> AgUpdateStatus, line_status |-> AgLineStatus,
    request_system_control |-> AgRequestSystemControl, interface_clear |-> AgInterfaceClear,
    remote_enable |-> AgRemoteEnable, parallel_poll |-> AgParallelPoll,
    parallel_poll_configure |-> AgNothing, parallel_poll_response |-> AgNothing,
    primary_address |-> AgPrimaryAddress, secondary_address |-> AgNothing,
    serial_poll_response |-> AgNothing, return_to_local |-> AgNothing,
    t1_delay |-> AgT1Delay, attach |-> AgAttach, detach |-> AgDetach,
    probe |-> AgProbe, disconnect |-> AgDisconnect, suspend |-> AgSuspend,
    resume |-> AgResume ]
=============================================================================
