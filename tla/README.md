# Linux-GPIB in TLA+

A verification development of Linux-GPIB (`src/`): the kernel modules that drive
GPIB (IEEE 488) interface boards, and the user library `libgpib`. It holds TLA+
modules translated from the C source, TLC configurations that check them on small
instances, and TLAPS proofs about them for every instance. `PROJECT.json` lists
which lines each definition translates.

Paths below: `OS` is `linux-gpib-kernel/drivers/gpib/common/gpib_os.c`, `LIB` is
`.../common/iblib.c`, `U` is `linux-gpib-user/lib`.

## 1. Inventory

### The kernel's common layer (`common/`)

| Component | State | Operations | Interacts through |
|---|---|---|---|
| ioctl dispatch and board locks (OS `ibopen`, `ibclose`, `ibioctl`, `mutex_ioctl`, `autospoll_ioctl`, `online_ioctl`) | `big_gpib_mutex`, `user_mutex`, `locking_pid`, `holding_mutex`, `autospollers`, `online` | open, close, every ioctl | everything else runs under these locks, or just outside them |
| device list and descriptors (OS `open_dev_ioctl`, `close_dev_ioctl`, `pad_ioctl`, `sad_ioctl`, `cleanup_open_devices`) | `device_list` with reference counts, `descriptors[]` of each file | IBOPENDEV, IBCLOSEDEV, IBPAD, IBSAD, ibclose | autospolling walks the list; ibrsp and ibwait find their queue in it |
| autospolling (LIB `autospoll_thread`, OS `autopoll_all_devices`, `serial_poll_all`, `push/pop_status_byte`, `dvrsp`, `srq` bits in `board->status`) | SRQI, `stuck_srq`, a queue of status bytes with `dropped_byte` per device | the thread, IBRSP, interrupt handlers | wakes ibwait; takes both locks |
| ibwait (LIB `ibwait`, `wait_satisfied`) | a timer per wait, the events a caller waits for | IBWAIT | consumes what interrupts and autospolling produce |
| watchdog timer and bus commands (OS `watchdog_timeout`, `os_start_timer`; LIB `ibcac`, `ibcmd`, `ibgts`, `ibrpp`, `ibsic`, `ibsre`) | `board->timer`, TIMO, the controller's state | IBCMD, IBRPP, IBSIC, ... | the timer's callback runs concurrently |
| transfers (OS `read_ioctl`, `write_ioctl`, `command_ioctl`; LIB `ibrd`, `ibwrt`) | the board's bounce buffer, `remain`, `io_in_progress` | IBRD, IBWRT, IBCMD | run without `big_gpib_mutex` |
| event queue (OS `push_gpib_event`, `pop_gpib_event`) | a bounded queue of trigger, clear and IFC events | interrupt handlers, IBEVENT | interrupts and ioctls |
| drivers' registration (OS `gpib_register_driver`, `board_type_ioctl`, `init_gpib_board`, buffers) | `registered_drivers`, `board->interface`, module references | module load and unload, CFCBOARDTYPE, IBONL | `use_count`, `iboffline` |

### The drivers

Chip libraries `nec7210/` and `tms9914/` (with their register state machines and
interrupt handlers) carry most of the boards; `agilent_82357a`, `ni_usb`,
`lpvo_usb_gpib` and `gpio` talk to their hardware directly.
State: holdoff and pending bits, buffers of USB requests, the shadow of the
chip's registers. Operations: read, write, command, take_control, attach, detach,
interrupt. Boards with a FIFO, with memory that the chip reads, or with DMA have writes
and reads of their own, each of which counts in its own way what has gone out. The USB
drivers exchange messages with an adapter, under locks of their own, while it may be
unplugged.

### The user library

| Component | State | Operations |
|---|---|---|
| asynchronous I/O (`U/async.c`, `ibstop.c`, `ibWait.c`) | one `gpib_aio_arg` per descriptor: thread, `in_progress`, condition | ibrda, ibwrta, ibcmda, ibstop, ibwait |
| descriptor table (`U/ibdev.c`, `ibOnl.c`, `ibutil.c`) | `ibConfigs`, `ibBoard`, handles | ibdev, ibfind, ibonl, `general_enter_library` |
| transfers (`U/ibRd.c`, `ibWrt.c`, `ibCmd.c`, `ibRsp.c`, multidevice calls) | EOS and EOI modes, counts, who is addressed on the bus | ibrd, ibwrt, ibcmd, ibrsp, FindRQS, ... |
| settings (`U/ibconfig.c`, `ibask.c`, `ibeos.c`, ...) | a descriptor's `has_lock`, handle and board | ibconfig, ibask, ibbna, ibpct, ... |

### What is hard here

* Two mutexes, taken in one order but entered in the other: every ioctl begins with
  `big_gpib_mutex`, while `user_mutex` has to come first.
* Transfers, waits and close run outside `big_gpib_mutex`; what they rely on is a pid
  recorded earlier (`locking_pid`) or a pointer looked up earlier.
* Interrupt handlers, timers and the autospoll thread set and clear bits of
  `board->status` that others test and clear.
* Things must happen eventually with nobody to retry: a request for service that is
  consumed and not served, a wakeup that is not sent.
* Failures in the middle of a two-part update (uncount, then count).
* Queues at their limit.

`PROJECT.json` lists each of them at its line under `hazards`, also those that no
property covers.

### What makes the components correct

* Locks: one user of the bus; `user_mutex` released by its owner; no circle of waits;
  every ioctl gets its turn, if operations on the bus end; `autospollers` counts who autopolls.
* Device list: a count equals the number of handles open on the address; an open device
  is listed; a queue is freed with its last handle only; the list is empty at the end.
* Autospolling: the status bytes of a device are delivered in the order in which they
  were read, at most once; a loss is reported; a request is served, or SRQ is declared stuck.
* Transfers: the bytes reported are those moved; EOI ends the message and nothing else;
  a timeout is reported for the operation that timed out.
* Control: commands are accepted in order and once, with ATN; an ioctl ends; it times out
  only when its time is over.
* Asynchronous I/O: one transfer per descriptor; each is joined once; its result is
  the one reported.
* On and off line: detach releases all that attach acquired and nothing else, wherever
  attach fails; nothing is accessed that is not mapped.
* USB: an answer goes to the task that asked; each return path gives back locks, urbs and
  memory; nothing is used after disconnect or detach has taken it away.
* Library calls: data goes to the device that the call is for; every call unlocks what it
  has locked; an error is reported; no descriptor or handle is lost.

## 2. Plan

| Module | Composes | Runs | Theorems |
|---|---|---|---|
| `BoardLocks` | | `board_locks`, `offline_deadlock`, `autospollers_count` | proved: `Boards_proofs` |
| `DeviceList` | | `device_list` | proved: `DeviceList_proofs` |
| `StatusChannel`, `Autopoll` | `Autopoll` implements `StatusChannel` | `autopoll`, `queue_drop` | proved: `Autopoll_proofs` |
| `Transfer`, `AccelTransfer` | `read_ioctl` and `write_ioctl`, `ibrd` and `ibwrt`, the timer and the chip in one module; the other boards' writes take part in its steps | `transfer` | proved: `AccelTransfer_proofs` |
| `Control` | the ioctls of a controller, the timer, both chip libraries | `control` | proved: `Control_proofs` |
| `AsyncIo` | | `async_io` | proved: `AsyncIo_proofs` |
| `DriverTables`, `BoardAttach`, `BoardFlow` | `BoardAttach` executes the tables of `DriverTables`, `BoardFlow` follows each of them alone | `board_attach` | proved: `Boards_proofs` |
| `UsbSteps`, `NiUsb`, `AgilentUsb`, `XyphroUsb`, `LpvoUsb`, `UsbDrivers`, `UsbBoard`, `UsbFlow` | `UsbBoard` executes the drivers' programs, `UsbFlow` follows what each task can come to know | `usb_board` | proved: `UsbBoard_proofs` |
| `LibrarySteps`, `LibraryPrograms`, `LibraryCalls`, `LibraryFlow` | `LibraryCalls` executes the calls' programs, `LibraryFlow` follows each of them alone | `library` | proved: `LibraryCalls_proofs` |

All modules of the plan are written, and every invariant that a run checks is proved (section 5),
of the modules whose actions are written out and of the three that execute tables of steps.

The modules are written to be proved about: parameters are CONSTANTS with named
assumptions, each operation is an action, and there is no RECURSIVE operator.

## 3. The modules

### `BoardLocks`: the two mutexes and everybody who takes them

The actors are the threads of user programs (`Procs`: each has a pid, which is what
`current->pid` is) and the board's autospoll kernel thread. A descriptor (`Files`) is
shared by the threads of a program (`Users`): the library starts a thread for an
asynchronous transfer, and that thread has a pid of its own. `pc[p]` says where a
thread is in an ioctl, and every point where the code can block or runs outside
`big_gpib_mutex` is a label, so everything in between is one step.

| State | Code |
|---|---|
| `big`, `user` | owners of `big_gpib_mutex` and `user_mutex` |
| `locking_pid`, `holding` | `board->locking_pid`, descriptors with `holding_mutex` |
| `enabled`, `autospollers`, `tmp` | `autopoll_enabled`, the counter, and the value read by a `++` or `--` that has not been written back |
| `tpc`, `should_stop` | the autospoll thread, `kthread_should_stop()` |

Actions follow the code's labels: `Ioctl`, then `IbmutexEnter`, `TakeUserMutex`,
`SetLockingPid`, ... for IBMUTEX; `IoEnter`, `IoDone` for IBRD, IBWRT and IBCMD;
`CtlEnter`, `CtlDone` for the ioctls that keep `big_gpib_mutex`; `Wait...` for IBWAIT;
`Autospoll...`; `Ibonline`, `SetOnline`, `KthreadStop`, `Detach` for IBONL; `Close...` for `ibclose`,
which takes neither mutex; `Thread...` for the autospoll thread. A signal ends any
interruptible wait (`Interrupted`).

Each change of `autospollers` is three steps, since `ibclose` makes them without a lock: the test
that the count is positive, the read, and the write (`AutospollEnter` or `Close`, `AutospollRead`,
`AutospollWrite` or `CloseDecrement`). Two decrements of a count of 1 leave -1, and updates are lost.
The autospoll thread runs before `online` is set (the label `onlining`).

`Disciplined` is the assumption under which the properties are claimed: no thread issues
IBMUTEX 1 while it holds `user_mutex` (it would wait for itself), and a descriptor with
`holding_mutex` set is closed only because its program exits. The library's
`lockBoardMutex`/`unlockBoardMutex` pairs and `exit` keep to both.

### `DeviceList`: descriptors and reference counts

`refs[a]` is the `reference_count` of the entry of address `a` (0: no entry), `desc[f]`
the descriptors of an open file. `update[f]` is a count that a file has read and not yet
written: IBOPENDEV, IBCLOSEDEV, IBPAD and IBSAD read and write it under
`big_gpib_mutex`, `ibclose` reads and writes it with no lock, one handle at a time
(`CleanupBoard`, `CleanupDevice`, `CleanupDone`). Allocation of an entry may fail.

Three histories say when the list's promises stop: `alloc_failed` (a descriptor stays open
whose address could not be counted), `zero_closed` (IBCLOSEDEV applied to handle 0, which
was never counted) and `raced` (two files were inside the list at once, where the C code's
behaviour is undefined: an entry may be freed under a reader). The properties are
claimed while `Regular`, that is, while none of the three has happened.
`leaked` counts the board handles that `ibclose` frees without uncounting them.

### `StatusChannel` and `Autopoll`: from SRQ to ibrsp

`StatusChannel` is what autospolling promises of one device: status bytes that the device
gives are delivered in that order, each at most once, some may be lost. `Autopoll` is how
the code does it: devices that request service (`Request`), the chip's interrupt
(`SrqInterrupt`), the thread's sleep and its test of SRQI, `stuck_srq` and the counts
(`ThreadSleep`, `PollBegin`), one step for each device polled (`PollQueue`,
`PollOverflow`, `PollNoMemory`, `PollNothing`), the ends of a poll with the stuck-SRQ decision
(`PollEnd`, `Found`, `PollFail`, `CleanupFail`), and `ibrsp` (`ReadQueued`, `ReadDevice`).
`Autopoll` refines `StatusChannel`, for each device (`DeliversInOrder`).

A program may wait in `ibwait` for RQS of a device: `waiter` is in the test of its condition,
asleep on `board->wait`, or over. `WakeWaiters` is
`wake_up_interruptible`: SRQ wakes it too early, before there is a byte, other interrupts
(`OtherInterrupt`) wake it for nothing, and `PollEnd` wakes it for what it waits for.

### `Transfer`: one IBRD or IBWRT, from the ioctl to the bus

The caller holds `user_mutex` (`BoardLocks!BusExclusion`), so one transfer runs at a time.
Beside it run the timer (`Expire`, `WatchdogTimeout`), the interrupt handler (`Interrupt`),
signals (`Signal`, and `Restart` when the kernel issues the ioctl again), and the bus:
the chip's DO (`RaiseDO`), the listener (`Accept`, `BusError`), the talker (`TalkerSend`), a
device clear, a controller that asserts ATN.

| State | Code |
|---|---|
| `pos`, `goal`, `last`, `eoi` | `requested_transfer_count - remain` plus `*bytes_written`, the end of a load, `last_count`, `send_eoi` |
| `buf`, `user` | `board->buffer`, the user's buffer |
| `pending`, `firing`, `status` | `timer_pending(&board->timer)`, the callback under way, `board->status` |
| `state` | `priv->state` of the nec7210 |
| `ints`, `out`, `in`, `held`, `seoi`, `ready` | the chip: interrupt status, CDOR, DIR, holdoff, the armed EOI |

The actions of a write are `WriteLoad` (a turn of `write_ioctl`'s loop and `ibwrt`),
`WriteBegin` (`nec7210_write`), `PioWait`, `PioPut`, `PioDrain` (`pio_write`), `EoiWait`,
`SendSeoi`, `WriteReturn`, `WriteStop`; those of a read are `ReadLoad`, `ReadBegin`, `PioRead`,
`PioCheck`, `ReadReturn`. The chip is a `NEC7210`, in handshake mode `HR_HLDA`; the
board is addressed throughout; faults of `copy_from_user` and `copy_to_user`, DMA and the
accesses to standby (`ibgts`, module `Control`) are left out. Being addressed as a listener ends the
same wait as ATN does and is not told apart from it.

### `AccelTransfer`: the other ways to write

`AccelTransfer` extends `Transfer` with the writes of the boards that do not give each byte to
a nec7210. `driver` is `board->interface`; with `nec7210` a write or a read goes on as in
`Transfer`, with another one `CallWrite` takes the place of `nec7210_write`. It cuts the buffer
load into `parts`, of four kinds:

| Part | Code | Steps |
|---|---|---|
| `fifo` | tnt4882 `generic_write`, `ines_accel_write`, cb7210 `fifo_write`, `fmh_gpib_fifo_write` | `PartBegin`, `Arm`, `FillFifo` as long as there is `Room`, `FillFails`, `PartSent`, `StopPart` |
| `block` | the accelerated writes of agilent_82350b and hp_82341 (board memory), fmh_gpib and fluke_gpib (DMA) | `PartBegin`, `Arm`, `RestartWriteFifo` (hp_82341), `PartSent`, `LastByteSent` (fluke), `StopPart` |
| `bytes` | `tms9914_write` | `TmsWrite`, `TmsWait`, `TmsPut`, `TmsDrain` |
| `pio` | `nec7210_write`, for what cb7210 does not give to its FIFO | `PioPart`, then `Transfer`'s |

What differs from driver to driver is in `Trait`: what is cleared first, which bits end a wait
with which error and in which order, which of them are cleared by being seen, how the driver
counts what was written when it stops (`Counted`), and what it takes as the end of a part
(`PartDone`). `skew` is the distance between the index into the buffer and the bytes counted, in
the two drivers that keep both. `Feed` is the hardware that moves a byte from the FIFO, the memory
or DMA to the chip. Assumed of every board: a byte leaves the FIFO for CDOR when that is empty,
and is counted then; a FIFO that is stopped keeps what it has; DO is answered by the FIFO
and not by the interrupt handler while it streams.

### `Control`: the board as controller

The ioctls IBCMD, IBCAC, IBGTS, IBRPP, and a one-byte IBWRT between them, on either chip library
(`chip`), with IBSIC and IBRSC (`InterfaceClear`, `ReleaseSystemControl`,
`RequestSystemControl`). The interrupt handler reads the status registers (`ReadsIsr`) and later
sets `state` (`Handles`); between the two it holds `board->spinlock` (`Unlocked`). A timer that
expires is first no longer pending and then runs its callback (`Expire`, `WatchdogTimeout`), since
`os_remove_timer` waits for a callback only of a timer that is still pending.

| State | Code |
|---|---|
| `completed`, `written` | `completed_transfer_count`, `bytes_written` |
| `pending`, `firing`, `fired`, `stray` | `board->timer`; whether one has expired since the ioctl began; whether a parallel poll has left one running |
| `status`, `state` | CIC and TIMO; COMMAND_READY, WRITE_READY, BUS_ERROR |
| `cic`, `atn`, `talker`, `out`, `rdy`, `poll`, `ints` | the chip |
| `accepted`, `bad`, `lost`, `erred` | histories of the ioctl's bytes on the bus |

`Ibcmd`, `Cac`, `TakeControl`, `CommandAcceptors`, `CommandWait`, `CommandPut`, `CommandLast`,
`IbcmdStop` are a turn of `command_ioctl`'s loop; `Gts`, `GoToStandby` are `ibgts`; `Ibrpp`,
`ParallelPoll`, `ExecutesPoll`, `PollResult`, `PollStop` are `ibrpp`; `WriteBegin`, `WriteWait`,
`WritePut`, `WriteStop` are `ibwrt`. Taking control synchronously and, when that fails,
asynchronously is one step; a signal is the action `Interrupted`, after which the ioctl may be
issued again (`Restart`).

What the code does here that a reader may not expect, and the properties therefore allow:
`nec7210_command` clears BUS_ERROR and returns no error (nec7210.c:442); the parallel poll of
the nec7210 has no timeout and may end before there is a result (nec7210.c:52); `ibrpp` leaves
its timer running when it cannot take control (LIB:356); a command that completes as the timer
fires is reported as timed out (LIB:122); `ibrd` and `ibwrt` go to standby only if the board is
system controller, although it may be in charge without being that (LIB:314, 702).

### `AsyncIo`: asynchronous I/O of the library

A descriptor (`Confs`) is used by one thread of the program; each transfer has a thread of
its own (`Ids`), which holds `user_mutex` while it works.

| State | Code |
|---|---|
| `pc`, `in_progress`, `thread`, `ibsta` | the calling thread, and `conf->async` |
| `io` | `io_in_progress` of the kernel's descriptor, that is, not CMPL |
| `apc`, `flag`, `cancel` | `do_aio`'s progress, `condition_flag`, a pending `pthread_cancel` |
| `seen`, `outcome`, `joined` | what the last ibwait or ibstop reported; histories |

`Launch`, `Launched` are `gpib_aio_launch`; `AioLockBoard` ... `AioUnlock` are `do_aio` with
`cleanup_aio`; `Cancelled` is a cancellation, which may strike anywhere between the enabling
and the disabling of cancellation; `Wait`, `Waited`, `Join`, `Report` are ibwait on CMPL;
`Stop` is ibstop; `Synchronous`, `LockBoard`, `Transfer`, `UnlockBoard` are a call like ibrd.
A transfer is one IBRD, IBWRT or IBCMD; a write that XEOS cuts into several is not modelled.

### `DriverTables` and `BoardAttach`: boards on and off line

`ibonline` calls a driver's attach, which acquires some five to ten things one after another
and may fail at each of them; it then calls the driver's detach, which has to find out from
the fields of `board->private_data` how far attach got. `DriverTables` gives the steps of
both functions for 25 kinds of boards: a step of attach acquires a resource (`get`) and sets
fields (`mark`), in the order of the code; a step of detach tests fields (`if`) and releases
resources (`free`). Interesting are a field that is set before its resource is there, a
resource that no field remembers, a test of another field than the one set, an error path that
releases by itself what detach will release again, and a register accessed after it was
unmapped. `handler` of a table is what the interrupt handler accesses.

`BoardAttach` executes the tables: `Online`, `AttachStep`, `AttachFails`, `AttachSkips` (what
the configuration does not ask for, or the code does without), `GoesOnline`, `ThreadFails`
(the autospoll thread cannot be created), `Offline`, `DetachStep`, `Detached`.

| State | Code |
|---|---|
| `driver` | `board->interface` and the device configured |
| `stage`, `step` | where ibonline, iboffline and the driver's function are |
| `held` | regions, mappings, interrupts, channels, references that the board has acquired |
| `marks`, `static` | fields set in `private_data` and in `board`, and those in structures that boards share (`struct mite_struct`, the GPIO table) |
| `buffer` | `board->buffer` |

Boards of one driver may be refused a resource because another has it (`Exclusive`), and a
release by address takes it from whoever has it (`ReleaseFrom`). Left out: register contents,
firmware, `pci_enable_device` (which hardly any driver undoes), probing, and removal of
PCMCIA cards.

`BoardFlow` says what becomes of one board whatever the others do. A `FlowState` is a board's part of
the state with the fields that boards share; `FlowNext` is what can come after it, by the same
definitions as in `BoardAttach` (`FlowDone` is `AttachStep`, `FlowFails` is `AttachFails`, and so on). A
board that is not alone may also be refused what is `Exclusive`, and find shared fields changed.
`Flow` is the set of states so reached, at most `MaxSteps` steps deep (TLC finds the set closed under
steps, so nothing is cut off), and `Careful` says what would be a mistake in it.

### The USB drivers: `UsbSteps`, `NiUsb`, `AgilentUsb`, `XyphroUsb`, `LpvoUsb`, `UsbDrivers`, `UsbBoard`, `UsbFlow`

Each function that `ibioctl` or the USB core calls is a sequence of steps, in the vocabulary of
`UsbSteps`: a lock is taken, memory or an urb acquired, a message sent, an answer received and
matched, a field of the board set or tested. A step that fails undoes what it says and either
ends the function or goes on elsewhere (`skip`), which is how the error paths are written. Loops
(`Repeated`) and what depends on data (`Choose`, `Maybe`) are left to chance.

`UsbBoard` executes them, interleaved step by step, by three tasks: `owner` has the board locked
and transfers without `big_gpib_mutex` (`Unlocked`: IBRD, IBWRT and IBCMD are several of these in a row)
or changes settings with it (`Settings`), `other` does what any task may do (`Open`) and takes the
board on and off line, and `hub` is the USB core with `probe`, `disconnect`, `suspend` and `resume`.
`iboffline` does not ask whether the board is in use, and neither does `GoesOffline`: a transfer that runs
without `big_gpib_mutex` goes on while the private data is freed under it.

| State | Code |
|---|---|
| `run`, `at` | the function a task is in, and its step |
| `held` | the locks, memory and urb it has |
| `owned` | what the board has: private data, interface, the interrupt urb under way (`listening`), a timer, the slot in the driver's table |
| `answers`, `got` | messages from the adapter by whom they are for; whose message is answered by what a task has just received |
| `online`, `plugged`, `power` | `board->online`, or `"failed"` while `ibonline` detaches a board again; the adapter; its power state |

A message that times out may have been sent, and its answer comes later. When an operation meets an
error between its message and the answer, or ends, the answer stays in the adapter for whoever receives
next (`Abandon`, `late`): what that task then has is another one's answer (`Origin`), and it passes only if it
compares it with its message, as xyphro_ugc does. The functions
with the same program are represented by one of them (`Distinct`). `ibonline` detaches a board again
when its `attach` fails, or when the autospoll thread cannot be created (`Follow`).

What a step uses (`uses`) is the private data, the interface under a lock that `disconnect` takes
(`"interface"`), or the interface's device, to which many functions look before they take any lock
(`"device"`, `Names`). What follows a use of what is gone is undefined; the model goes on as if it
were there, and the property is about the state in which it happens.

`UsbFlow` says what one task can come to know, whatever the others do. A view of a task is what it
does itself (its function and step, what it holds, whether an answer may be on its way to it, whether
it is clear that nobody else has the urb) and the `World` that all share (`owned`, `plugged`, `power`,
and whether the board is on, off, coming or leaving). `FlowSteps` is what a task can do in a view, by the same
definitions of steps as in `UsbBoard`; `Noticed` is what a view becomes when another task takes a step, in a
view that agrees with it (`Agree`: the same world, functions that may run beside each other by the
locks of `ibioctl`, no lock in common). `Views` is the set of views so reached, and TLC finds it closed.

### The library's calls: `LibrarySteps`, `LibraryPrograms`, `LibraryCalls`, `LibraryFlow`

The calls of `libgpib` are sequences of steps too (`LibraryPrograms`), for a device descriptor
and for a board descriptor: entering (`Enter`: configuration, descriptor, opening it, EOIP, the
board's lock), commands that address somebody (`Command`), ioctls, and the ways out: `Exit`
(`exit_library(ud, 0)` or with a status that fails), an error (`skip = 0`: `exit_library(ud, 1)`), or
a `return` without either (`ReturnError`). Every step may fail.

`LibraryCalls` executes them, by threads with a descriptor each, beside automatic polls of the
kernel (`Autopolls`), which leave nobody addressed whenever no one has the board's lock.

| State | Code |
|---|---|
| `call`, `at`, `result` | the call of a thread, its step, ERR |
| `met`, `missed`, `built` | the errors it has met, what the device has not heard of it, whether the setup was made |
| `desc`, `ud`, `clashes` | `ibConfigs`: present, `board_is_open`, handle, `has_lock`, board; the place found there; descriptors that another one has replaced |
| `handles` | the kernel's handles |
| `lock`, `bus`, `asserts` | `user_mutex` of each board; who is addressed; failed asserts, which end the program (`Restarts`) |

`insert_descriptor` looks for a free place (`Finds`) and fills it later (`Inserts`), without a lock, so that two
threads may fill the same one (`clashes`); the model notes it and starts the program again. `my_ibbna` is
part of three calls (`Movers`): ibbna, ibconfig with IbcBNA, and ibonl 1, which passes the board's number to
it as an index into the configuration file's entries, so that it may move the descriptor to any board.
Where `pass_control` goes on with a count of -1 the command sent is whatever is in memory (`Overruns`).

Left out: two threads on one descriptor (the second one's `has_lock` aborts the program,
ibutil.c:361), `ibwrt` of no bytes (whose return value is not initialized, ibWrt.c:137-151),
`ibfind` of a board, results of IBTMO, which nobody looks at, and EOIP other than as an error
that may come.

`LibraryFlow` says what a call does to its own descriptor whatever other threads do. A
`FlowState` is what a thread can know by itself: its step, its errors, its descriptor, whether that
is of the board `home` and has the lock, and, while it has it, who is addressed there (`addr`).
`FlowStep` is what a step makes of it, by the same definitions as in `LibraryCalls` (`FlowRefused` is
`Refused`, `FlowLeaves` is `Leaves`, and so on); `Flow` is the set of states that a program reaches from
`Entered`, at most `MaxSteps` steps deep (TLC finds the set closed under steps, so nothing is cut off).
`Careful` and `Left` are the mistakes looked for in it. `FlowInv` connects the two
modules: every thread that is in a call is in its flow (`Followed`), and `TypeOK`.

## 4. The runs

| Run | Checks | Shows |
|---|---|---|
| `board_locks` | `TypeOK`, `BusExclusion`, `LockOrder`, `HoldingMeansOwning`, `BigIsGranted` | the locks' promises, with two programs on one board |
| `offline_deadlock` (violation) | `NoCircularWait` | IBONL 0 and the autospoll thread wait for each other |
| `autospollers_count` (violation) | `CountOfAutopollers` | `ibclose` and IBAUTOSPOLL undo each other's change of the count |
| `device_list` | `TypeOK`, `Counted` | the counts are right while `Regular`, but for board handles that end with their file |
| `autopoll` | `TypeOK`, `DeliversInOrder`, `RequestAnswered`, `RqsReported` | order and service of status bytes; who sleeps in ibwait for RQS gets to know of the byte that a poll queues |
| `queue_drop` (violation) | `DropIsFlagged` | the flag of a lost byte is cleared by the call that should make room |
| `transfer` | `AccelTypeOK`, `EoiWithLast`, `MissedAfterError`, `SentInFull`, `DeliveredWhole`, `HoldoffTracked`, `Returns` | the bytes, their order and count, EOI and END, and the return of a transfer, for ten ways to write and one to read |
| `control` | `TypeOK`, `InOrder`, `CommandAccepted`, `TimeoutIsFresh`, `SettledPollDone`, `Ends` | commands reach the bus in order; no ioctl inherits an old timeout; ioctls end |
| `async_io` | `TypeOK`, `OneTransfer`, `ReportsOutcome`, `Returns` | one transfer per descriptor, the right result reported, nobody left waiting |
| `board_attach` | `Released`, `OwnReleases`, `SafeAccess` | wherever attach fails, detach releases all of what was acquired and nothing else, and no register is accessed that is not mapped, but for the drivers named below; followed alone no driver makes another mistake (`TablesAreCareful`) |
| `usb_board` | `NotCrossed`, `NothingKept`, `Released`, `UsedWhileThere` | answers go to who asked, each way out gives everything back, an offline board keeps nothing, and what was freed is not used, but for what is named below |
| `library` | `FlowInv`, `RightPartner`, `LockReturned`, `ErrorReported`, `NothingLost` | every call of the library speaks to its device, unlocks, reports its errors and keeps its descriptor, but for the calls named below; followed alone none makes a mistake (`ProgramsAreCareful`), and threads stay in their flows |

### Exceptions

A property that fails for one driver or call and holds for the others names the exception:
in the property itself, or in a set of the MC module (`Known...`), with the line of the code.
So the run stays a check of the others and says precisely what is not claimed.

* `transfer`: after a signal, `tms9914_write` takes the success of its second wait for its own
  (tms9914.c:588), and the boards on a tms9914 (agilent_82350b, hp_82341) go on from an index that
  is not where the count is (`Astray`, `MissedAfterError`); `cb7210` counts what it put into the
  FIFO and not what left it, and `ines_accel_write` even what it had not put there yet
  (ines_gpib.c:255), so that its write may be reported as complete when nothing was sent
  (`SentInFull`). A read restarted after a signal drops the bytes it had read
  (`DeliveredWhole`). An error of the last byte is suppressed (OS:1097).
* `device_list`: `ibclose` does not uncount board handles (`leaked`).
* `autopoll`: a poll that queued bytes and whose cleanup then fails wakes nobody
  (OS:297, `unheard`), until some other interrupt does. A signal that comes while `ibwait` waits for
  `big_gpib_mutex` in its condition (LIB:596) counts as a condition that holds, and IBWAIT may succeed
  with none of those in its mask (`WaitSignalled`); ibwait.3:43 promises otherwise.
* `async_io`: `ibstop` reports neither EABO nor ERR for a transfer that it aborted;
  `ReportsOutcome` takes that as its result.
* `board_attach`: `KnownLeaky` (a resource stays held; among them the I/O region of
  NI's ISA and PCMCIA boards, and everything of an agilent_82350a or b whose attach fails before
  `gpib_base` is mapped, agilent_82350b.c:758), `KnownRash` (an interrupt that was not obtained is freed),
  `KnownGreedy` (a board's failed attach releases another board's resources), `KnownWild` (an
  unchecked `ioremap`, or a port number that was never set). Each of the properties covers the
  other drivers, 17 to 24 of them.
* `usb_board`: `KnownCrossing` (line_status of the lpvo adapter, which takes no lock, and its detach),
  `KnownForgetful` (ni_usb, agilent_82357a and lpvo_usb_gpib leave the answer in the adapter after an
  error, such as no memory for it, and do not look whether the next one is their own),
  `KnownLeaky` (two buffers and an urb), `KnownLittering` (what a failed attach leaves set),
  `KnownCareless` (what runs without `big_gpib_mutex` while the board is taken off line, and xyphro's
  resume), `KnownUnguarded` (xyphro's disconnect takes another lock than its transfers; lpvo's
  unlocked operations), `KnownHasty` (ni_usb and agilent_82357a follow `bus_interface` outside the locks,
  where disconnect may have cleared it: ni_usb_gpib.c:322, agilent_82357a.c:216 and others).
  `NotCrossed` so says of these drivers that no two operations under way are mixed up, and of xyphro_ugc,
  that no answer at all is taken for another's.
* `library`: `KnownAborting` (ibbna, ibconfig with IbcBNA, and ibonl 1 move a descriptor that has its
  board locked), `KnownDeafening` (`ibpct`: TCT is not sent),
  `KnownSilent` (errors that a call keeps to itself), `KnownLosing` (a descriptor or its
  handle is lost: ibdev, ibfind, the three that move, and ibonl 0 of a board). Nothing is claimed of two
  descriptors that `insert_descriptor` has put into one place (`clashes`).
* `control`: see the end of the module's section above; `fired`, `stray`, `raced` and `erred` carry them.
* `board_locks`: `BigIsGranted` assumes that an operation on the bus under `big_gpib_mutex` ends
  (`BusOperationsEnd`): the nec7210's parallel poll waits without a timeout (nec7210.c:55), and with a
  timeout of 0 no timer is started. An IBONL 0 is excepted, as `offline_deadlock` shows.

### Bounds, and why they are enough

* `board_locks`: three threads, two on one descriptor and one on another, which is the
  least with two owners of one descriptor, two programs and the kernel thread. The ioctls
  are dealt out (`UserAndAdmin`) so that each pair that can meet does: one thread locks
  and switches autospolling, its sibling locks, transfers and waits, the other program
  locks, controls and takes the board on and off line. `MaxSpollers = 1`: IBAUTOSPOLL 1
  is issued only at a count of 0 (not of -1), which an update that is not written back leaves it; so
  two programs switch autospolling on and off at once, and `ibclose` of one meets IBAUTOSPOLL of the other. Circles of up to three actors are looked for; there are
  only two mutexes and one thread to wait for, so that longer circles repeat.
* `device_list`: two files, two addresses (one is that of handle 0), three handles per
  file, counts up to 2. Two files suffice for an update to be overtaken; three handles for
  one address opened twice by one file. `Explored` (a CONSTRAINT) stops at states where
  nothing more is claimed (`raced`, `zero_closed`).
* `autopoll`: two devices and queues of two bytes instead of 1024: overflow is
  reached, and a queue with order in it exists. One
  of the devices is waited for, so that the byte that comes may be the other's. `CHECK_DEADLOCK FALSE` is set where the
  system may stop: programs exit, and all of an instance's requests are made.
* `transfer`: four bytes through a buffer of three, so that there is a full load, a last load
  of one byte (where EOI goes), and, within a load, a byte to send again after one that
  was accepted. A FIFO, memory or DMA block of two bytes: a load of three overfills it, and
  takes two blocks. Two disturbances in all (`MaxDisturbances`): two signals, or one and a device
  clear or bus error, or both of these, in every order and place; a signal after a restart
  is among them, and a third disturbance would act on a state that a second one has already
  reached. ATN comes and goes only for the nec7210: a FIFO waits for it as for a slow listener.
  `CHECK_DEADLOCK FALSE`: a transfer without a timer's end may be over.
* `control`: a command of two bytes in two buffer loads: what is left over from one load, or one
  ioctl, meets the next. Every ioctl follows every other, without a bound.
* `async_io`: two descriptors and two transfers: a descriptor that launches a second
  transfer after its first, or two that contend for the board, with a synchronous call of
  either. A third transfer would meet only what the second meets. It may stop
  (`CHECK_DEADLOCK FALSE`) when a launch waits for a thread that was not created.
* `board_attach`: two boards, and each driver in turn. Both are configured for one device,
  because boards of different drivers or devices share nothing; a third board would meet what
  the second meets, as is proved. Every acquisition may fail in every order. It may stop
  (`CHECK_DEADLOCK FALSE`): an access without a mapping is an oops, and `hp_82341` can leave
  `isapnp_cfg_mutex` locked.
* `usb_board`: what runs when a board is taken off line is over before it goes on line again (`GoesOnline`):
  it would work on private data that is not its own, which `UsedWhileThere` has told before. Each of
  the four drivers; of the three tasks two are in an operation at once
  (`MaxTasks`), so that every pair of operations meets at every pair of steps; two messages
  on their way (`MaxAnswers`), of which one may be late. With the views of each driver, which no bound
  cuts off, the properties are proved for every value of both.
* `library`: a thread with a device descriptor and one with a board descriptor, every call of
  each, two boards (`ibbna` goes from one to the other). A call of the device's thread overlaps with
  `SendList` of the board's (`Partners`), which addresses another device and leaves it addressed: that
  is what a call can do to another; that the properties hold whatever overlaps is proved. A third thread
  (`late`) only opens and closes a device, so that two threads are in `insert_descriptor` at once
  (`Openers`, whose calls overlap one another between the device threads); there are two places in
  `ibConfigs`. Two calls overlap only while both descriptors are sound, two at a time, and `late` makes
  its calls while nobody is addressed, with the other device thread in `Openers` alone (`Bounded`). Messages of one byte, none of which is the EOS character.

### Fairness

`BoardLocks!FairSpec` is strongly fair for each thread inside the kernel (`KernelStep`) and for the
autospoll thread: the kernel schedules what is runnable, and its mutexes are handed to
a waiter that has been passed over long enough, so that a thread for which a mutex is free
again and again gets it. No fairness is assumed of the end of an operation on the bus (`BusStep`:
`IoDone`, `CtlDone`), nor of user programs: they need not issue, wait or close. The thread's own polls
end because serial polls run under a timer of their own. `Autopoll!FairSpec` is weakly fair for the thread and for interrupts,
strongly fair for a waiter's test of its condition, which needs `big_gpib_mutex` between polls, and
assumes nothing of devices, callers, signals or other interrupts. `AccelTransfer!AccelSpec` is weakly fair for the ioctl, the
timer with its callback and the interrupt handler; devices may be silent for ever, and `Returns`
then rests on the timer. `AsyncIo!FairSpec` is weakly fair for the threads' steps and
strongly fair for taking `user_mutex`, which wakes its waiters in order; neither failures nor
cancellations are relied upon. `Control!FairSpec` has one weak fairness, that the ioctl, the
handler or the timer goes on as long as one of them can: less than the kernel gives, and
enough, because a timer that is pending expires in the end. It needs a timeout other than 0,
for which `os_start_timer` starts no timer. `UsbBoard` and `LibraryCalls` are checked for
safety alone, and assume no fairness.

## 5. The proofs

Every invariant that a run checks of `BoardLocks`, `DeviceList`, `Autopoll`, `Transfer`,
`AccelTransfer`, `Control`, `AsyncIo`, `LibraryCalls`, `BoardAttach` and `UsbBoard` is proved of the specification, for every value of the
constants that satisfies the modules' named assumptions; so are two action properties and the
refinement of `StatusChannel`. No theorem uses fairness. The assumptions say that bounds and
sizes are natural numbers (lengths and queues at least 1), that names for nobody are nobody's,
and, where a proof needs it, that there is somebody: `AsyncIo` has a descriptor, `DeviceList`
finitely many files. `LibraryFlow` assumes of the programs, and `BoardFlow` and `UsbFlow` of the drivers, what
can be computed of each alone (`ProgramsAreCareful`, `TablesAreCareful`, `DriversAreCareful`, below). TLC
evaluates all of them on each run.

None of the invariants is inductive alone. Each proof module states the strengthening by
parts, shows for each part that every action preserves it, and puts them together in one
lemma (`...Invariant`).

| Module | Theorems | Property of a run |
|---|---|---|
| `Boards_proofs`, of `BoardLocks` | `TypeCorrect`, `Exclusion`, `WaitsAreOrdered`, `MarkIsOwnership` | `TypeOK`, `BusExclusion`, `LockOrder`, `HoldingMeansOwning` |
| | `ReleasedByOwner` | no run: `OnlyOwnerReleases`, of steps |
| of `BoardAttach` | `FollowsFlow`, `NothingIsKept`, `ReleasesAreOwn`, `AccessesAreSafe` | (no run: `FlowInv`), `Released`, `OwnReleases`, `SafeAccess` |
| `DeviceList_proofs` | `TypeCorrect`, `ReferencesCounted` | `TypeOK`, `Counted` |
| | `OpenDeviceIsListed` | no run: the queue of an open device is not freed |
| `Autopoll_proofs` | `TypeCorrect`, `ImplementsChannel` | `TypeOK`, `DeliversInOrder` |
| | `DeliveredOnce`, `NeverOlder` | no run: of steps, by the refinement |
| `AsyncIo_proofs` | `TypeCorrect`, `OneAtATime`, `OutcomeReported` | `TypeOK`, `OneTransfer`, `ReportsOutcome` |
| `Control_proofs` | `TypeCorrect`, `OrderKept`, `SuccessIsAccepted`, `TimeoutsAreFresh`, `SettledPollsAreDone` | `TypeOK`, `InOrder`, `CommandAccepted`, `TimeoutIsFresh`, `SettledPollDone` |
| `AccelTransfer_proofs` | `ReadsAreWhole`, `HoldoffsAreTracked` | `DeliveredWhole`, `HoldoffTracked` |
| | `TypeCorrect`, `EoiGoesWithLast`, `OnlyErrorsLoseBytes`, `SuccessIsSentInFull` | `AccelTypeOK`, `EoiWithLast`, `MissedAfterError`, `SentInFull` |
| `LibraryCalls_proofs` | `FollowsFlow` (with `TypeCorrect`, a part of it), `DataGoesToPartner`, `LocksAreReturned`, `ErrorsAreReported`, `NothingIsLost` | `FlowInv`, `RightPartner`, `LockReturned`, `ErrorReported`, `NothingLost` |
| `UsbBoard_proofs` | `FlowsAreCareful`, `AnswersNotCrossed`, `OperationsKeepNothing`, `OfflineBoardsReleased`, `BoardUsedWhileThere` | (no run: `FlowInv`), `NotCrossed`, `NothingKept`, `Released`, `UsedWhileThere` |

### The arguments

* **Locks** (`LockInv`, under `Disciplined`): where the owner of each mutex is. The owner of
  `big_gpib_mutex` is at one of the few labels that keep it, so that whoever waits for a mutex
  does not hold it, unless it takes the board offline; the owner of `user_mutex` is a thread whose
  descriptor carries the mark or which is between taking the mutex and setting the mark;
  and `locking_pid` names the owner or a thread that has exited. Two users of the bus both equal `locking_pid`; a circle of waits
  would need an owner of one mutex that waits for the other in both directions.
* **Counts** (`CountInv`): while `Regular`, one file at a time is inside an update, what it has
  read of the count is still so (`PendingOk`), and the count of an address is the number of handles
  open on it and of board handles leaked (`Exact`). A step changes one handle, so that the sets of
  handles before and after it differ by one element, which `FiniteSetTheorems` counts.
* **Status bytes**: the refinement maps the bytes in a queue, with what was dropped, to the
  channel's. `TypeInv` needs `TodoListed`: a byte is queued only for a device that the poll found in the
  list, which no ioctl changes meanwhile. Each step of `Autopoll` is one of the channel's or a
  stutter, for each device. What the channel promises (`ChannelInv`: its bytes are in order, and none of
  them is delivered yet) then holds of `Autopoll`.
* **Asynchronous I/O** (`AsyncInv`): where a descriptor's thread and its transfer can be together
  (`ConfOk`, `AioOk`): a transfer that runs and is not joined is the one that the
  descriptor names. From there, what `ibsta` holds is what that transfer recorded (`ReportOk`).
* **Control** (`ControlInv`): `Lines` follows the byte between the driver, the chip and the bus, so
  that `Order` can say which bytes were accepted; `Timeouts` follows the one timer with its callback,
  also past the end of its ioctl; `Polls` that a parallel poll is running as long as its result is
  not announced. `Places` and `Counts` bound the loops.
* **Reads** (`ReadInv`): the byte in DIR is the newest, its interrupt is pending or noted and not
  both (`InByte`); every byte sent is in DIR, in the board's buffer or in the user's, in this order (`Whole`);
  a read that saw END ends with that byte (`Ended`). `Sides` keeps reads and writes apart.
* **Writes** (`WriteInv`), for ten drivers at once. `PartsInv`, `Sums`, `EoiInv` and `Progress` say that
  the parts of a load cover it without a gap, of which part EOI is left for, and how far the first
  of them is; `FifoInv` what is in the FIFO. From the driver's count follows `Front`, the last byte that can
  have gone out, and `Newest` is the one that has: what the theorems claim is that they are equal
  (`Level`), as long as nothing happens that the driver cannot bear (`Borne`: for most an error, for
  those that count wrongly also a signal), but for a byte that the nec7210 has lost and is about to
  send again (`Lost`, `Resends`). `Eoi` and `Armed` need less, that no byte is sent twice once it was
  accepted, and hold as long as a driver on a tms9914 has met no signal (`Straight`); `Terminal` says that the
  event of the terminal count is of the block under way. `Sent` is why success can be
  believed: if no byte was lost, what is counted went out. `Bits`, `Pio`, `Still` and `Returned` are what these
  rest on: which interrupts can be pending, where `nec7210_write` is, and what results are possible.

* **Library calls** (`LibraryInv`). What a program of up to 50 steps does, with every error it may meet, is
  a question about a constant, and computing it is TLC's part: `ProgramsAreCareful` says that
  no state of a call's flow is a mistake (a lock taken twice, a command without the lock, data for
  whom nobody has addressed), and that where a call is over it has unlocked, told its errors and kept its
  descriptor. It speaks of one thread that nobody disturbs, of every call in the tables, and of the
  constants only by the exceptions (`Aborting`, `Deafening`, `Silent`, `Losing`); the values they have in the
  runs are those under which TLC finds it true. What it leaves open is the concurrency, and that is
  proved: any number of threads, on any boards, with calls that overlap as they like and automatic
  polls between their steps, stay in their flows. `LockIsOwned` is the reason: a thread with
  `has_lock` owns the lock of the board `Home`, and nobody but the owner of a board's lock touches what is
  addressed on it (`Alone`); so what a thread knows of the bus, which is nothing when it has not the lock,
  stays true (`Knows`). Where a descriptor has been put into another's place nothing is claimed
  until the program starts again. Each kind of step is proved to keep it (`LocksKept` ... `SendsKept`, put together
  in `EffectKept`), then each action (`StepsGo` ... `ExitsGo`, `GoesKept`). The properties follow from what
  the flow says of the state a thread is in.
* **Boards** (`FlowInv`). A driver's attach and detach are followed alone, through every failure and any
  number of rounds, by TLC (`TablesAreCareful`); proved is that this is enough for any number of boards
  beside each other (`MovesFollow`, with a lemma for each action). All of them have one driver
  (`AllOrNone`). A board that has another one beside it may be refused more and finds shared fields
  changed, which its flow allows for (`RefusedSeen`); and it releases nothing that is another's
  (`Considerate`, `OthersKeep`), which is where the drivers in `Greedy` fail: of them the theorems speak
  only if there is one board. The exceptions are those of the run.
* **USB boards** (`FlowInv`). What a task does there depends on what others have set and sent, so that no
  task can be followed alone. Instead each is followed with everything that the others can do to it, and
  the two are computed together: TLC extends the views of the three tasks until neither their own
  steps nor anybody else's lead out of them. `DriversAreCareful` says that they are closed in this way, that
  no view is a mistake but for the exceptions of the run, that nobody submits an urb when another has one
  under way, and that who takes a message from the adapter agrees with nobody who still waits for an answer.
  `FlowInv` says of all tasks together that each has one of the views (`Knows`), that any two of them
  are in functions that may run beside each other and have no lock and no urb in common (`Beside`), and that an answer
  is in the wrong hands only if an exception allows it (`Given`). Its proof is a rely-guarantee
  argument: in a step the task's own view goes to one of its `FlowSteps`, and since the
  views of the others agree with it (`Beside`), what they notice of the step is a view again (`OthersKnow`).
  `StepKept` says this once and for all of a step that takes no lock that another holds; the lemma of
  each action (`OwnerStartsKept` ... `ReturnsKept`) shows that the step is in the flow and that the executor's
  conditions (`Blocked`, `Refused`, `big_gpib_mutex`, IBMUTEX, the freezing of user tasks) exclude
  what the views exclude. The views count a task's messages only as none, one or more (`Owes`), and nothing in them
  depends on `MaxAnswers` or `MaxTasks`.

### Only model-checked

* Liveness: `BigIsGranted`, `RequestAnswered`, `RqsReported`, `Ends` and the two `Returns`.
  Fairness is outside what TLAPS proves.
* That the flows of each call and of each driver are without a mistake (`ProgramsAreCareful`,
  `TablesAreCareful`, `DriversAreCareful`): recursion over data, which TLC computes in full for every one of them.
* What the violated properties of section 6 show: a counterexample is the proof.

## 6. Findings

* IBONL 0 can deadlock with the autospoll thread (`offline_deadlock`).
* A status byte lost to a full queue is not reported (`queue_drop`).
* `ibclose` changes `autospollers` without a lock and loses updates of IBAUTOSPOLL, or has its own
  lost (`autospollers_count`).

One more was met and is not a run: with XEOS the blocks of a write end before the end-of-string byte
and not with it (ibWrt.c:107), where linux-gpib.sgml:3016 says that EOI is asserted with that byte.

Other places in which the code does not do what one would claim of it are carried as exceptions
(section 4), each with its line.

## 7. Not modelled

`PROJECT.json` has the list with reasons. In short:

* The conditions of IBWAIT other than RQS and CMPL, which the chip or other modules keep, and the
  event queue, the same queue code that `Autopoll` models; closing a handle that is waited with.
* Driver registration, module references and CFCBOARDTYPE: nothing else loads or unloads
  modules while the system runs.
* Reads by FIFO and DMA, reads of the tms9914, and the nec7210's ISA DMA.
* The phases of a serial poll, remote enable, parallel poll configuration and the settings of
  addresses and timing, each one register or one command.
* The bit banging driver's three-wire handshake, whose states are voltage levels of lines.
* Values in registers, parsed messages and counts inside USB packets; probing; removal of PCMCIA
  cards; the lpvo driver's private character device and the mutex that its probe initializes.
* `sys/`, an earlier copy of the common layer that is not built.
* Configuration parsing (lex and yacc), `gpib_config`, language bindings, examples, firmware loading,
  device tables and build files: data, pure I/O or generated code without state that the
  properties could tell apart.
