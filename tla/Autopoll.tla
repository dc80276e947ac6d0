------------------------------ MODULE Autopoll ------------------------------
(***************************************************************************)
(* Service requests, the automatic serial poll, and the queues of status   *)
(* bytes that ibrsp reads.                                                 *)
(*                                                                         *)
(* A device requests service by asserting SRQ; its status byte carries     *)
(* the number of the request.  The driver's interrupt handler records SRQI *)
(* and wakes the autospoll thread, which holds user_mutex and              *)
(* big_gpib_mutex for the whole poll (module BoardLocks): no ioctl runs    *)
(* between the steps of a poll, while devices and interrupts do.  The poll *)
(* asks every listed device in turn, and a program may sleep in ibwait     *)
(* until one of them has sent a byte (RQS).                                *)
(***************************************************************************)
EXTENDS Integers, Sequences, FiniteSets

CONSTANTS
  Devices,      \* the addresses of the devices on the bus
  MaxBytes,     \* max_num_status_bytes of a queue
  MaxRequests,  \* bound on the requests that a device makes
  Awaited       \* the devices that some program may wait for

ASSUME MaxBytesAssumption == MaxBytes \in Nat \ {0}
ASSUME MaxRequestsAssumption == MaxRequests \in Nat
ASSUME AwaitedAssumption == Awaited \subseteq Devices

VARIABLES
  requesting,   \* devices that assert SRQ
  produced,     \* the number of the newest request of each device
  edge,         \* the chip has an SRQ interrupt pending
  listed,       \* board->device_list
  queue,        \* status_bytes of each entry
  dropped,      \* dropped_byte of each entry
  srqi,         \* the SRQI bit of board->status
  stuck_srq,    \* board->stuck_srq
  awake,        \* the autospoll thread has been woken and not yet slept again
  polling,      \* the thread is inside serial_poll_all
  todo,         \* the devices the poll has still to ask
  num_bytes,    \* the bytes it has queued, 0 when it is over
  delivered,    \* history: the newest byte that a reader got
  lost,         \* history: devices with a byte lost to the limit on the queue
                \* that no reader has been told of
  waiter,       \* how far the program that waits for RQS of a device has come
  unheard       \* history: a poll queued bytes and then failed, and board->wait has
                \* not been woken since

device == <<requesting, produced, edge>>
store == <<queue, dropped>>
thread == <<awake, polling, todo, num_bytes>>
waits == <<waiter, unheard>>
vars == <<device, listed, store, srqi, stuck_srq, thread, delivered, lost, waits>>

\* Every variable stays within its type; a queue never outgrows its limit and
\* exists only for a listed device.
TypeOK ==
  /\ requesting \subseteq Devices /\ listed \subseteq Devices
  /\ produced \in [Devices -> Nat] /\ delivered \in [Devices -> Nat]
  /\ queue \in [Devices -> Seq(Nat)] /\ dropped \in [Devices -> BOOLEAN]
  /\ \A d \in Devices : Len(queue[d]) <= MaxBytes /\ (d \notin listed => queue[d] = <<>>)
  /\ edge \in BOOLEAN /\ srqi \in BOOLEAN /\ stuck_srq \in BOOLEAN
  /\ awake \in BOOLEAN /\ polling \in BOOLEAN
  /\ todo \subseteq Devices /\ num_bytes \in Nat
  /\ lost \in [Devices -> BOOLEAN]
  /\ waiter \in [Devices -> {"none", "testing", "asleep"}]
  /\ unheard \in BOOLEAN

Init ==
  /\ requesting = {} /\ listed = {}
  /\ produced = [d \in Devices |-> 0] /\ delivered = [d \in Devices |-> 0]
  /\ queue = [d \in Devices |-> <<>>] /\ dropped = [d \in Devices |-> FALSE]
  /\ edge = FALSE /\ srqi = FALSE /\ stuck_srq = FALSE
  /\ awake = TRUE /\ polling = FALSE
  /\ todo = {} /\ num_bytes = 0
  /\ lost = [d \in Devices |-> FALSE]
  /\ waiter = [d \in Devices |-> "none"] /\ unheard = FALSE

InWait(d) == waiter[d] # "none"

\* wake_up_interruptible(&board->wait), for those who sleep in ibwait.
WakeWaiters ==
  /\ waiter' = [d \in Devices |-> IF waiter[d] = "asleep" THEN "testing" ELSE waiter[d]]
  /\ unheard' = FALSE

-----------------------------------------------------------------------------
\* The devices and the interface chip.
Request(d) ==
  /\ d \notin requesting /\ produced[d] < MaxRequests
  /\ requesting' = requesting \cup {d}
  /\ produced' = [produced EXCEPT ![d] = @ + 1]
  /\ edge' = (edge \/ requesting = {})
  /\ UNCHANGED <<listed, store, srqi, stuck_srq, thread, delivered, lost, waits>>

\* The device sends the byte that says "I requested" and stops requesting.  The
\* chip sees SRQ anew when another device still requests.
Answer(d) ==
  /\ d \in requesting
  /\ requesting' = requesting \ {d}
  /\ edge' = (edge \/ requesting' # {})
  /\ UNCHANGED produced

\* The interrupt handler: SRQI is set and board->wait woken.
SrqInterrupt ==
  /\ edge /\ edge' = FALSE
  /\ srqi' = TRUE /\ awake' = TRUE
  /\ WakeWaiters
  /\ UNCHANGED <<requesting, produced, listed, store, stuck_srq, polling, todo, num_bytes,
                 delivered, lost>>

\* The other interrupts wake the same queue: bytes of commands, timers, ...
OtherInterrupt ==
  /\ awake' = TRUE
  /\ WakeWaiters
  /\ UNCHANGED <<device, listed, store, srqi, stuck_srq, polling, todo, num_bytes, delivered, lost>>

-----------------------------------------------------------------------------
\* The autospoll thread.
ThreadSleep ==
  /\ awake /\ ~polling /\ (stuck_srq \/ ~srqi)
  /\ awake' = FALSE
  /\ UNCHANGED <<device, listed, store, srqi, stuck_srq, polling, todo, num_bytes, delivered, lost,
                 waits>>

\* serial_poll_all starts: the request is cleared before it is served.
PollBegin ==
  /\ awake /\ ~polling /\ ~stuck_srq /\ srqi
  /\ srqi' = FALSE
  /\ polling' = TRUE /\ todo' = listed /\ num_bytes' = 0
  /\ UNCHANGED <<device, listed, store, stuck_srq, awake, delivered, lost, waits>>

\* push_status_byte with room in the queue.
Push(q, b) == Append(q, b)

\* read_serial_poll_byte fails, or the device is not requesting.
PollNothing(d) ==
  /\ polling /\ d \in todo
  /\ todo' = todo \ {d}
  /\ UNCHANGED <<device, listed, store, srqi, stuck_srq, awake, polling, num_bytes, delivered, lost, waits>>

\* Mutant: the limit of the queue is off by one.
MutantRoom(d) == Len(queue[d]) <= MaxBytes

Room(d) == Len(queue[d]) < MaxBytes

\* The device answers with a byte that says "I requested": it stops requesting,
\* and the byte is queued.
PollQueue(d) ==
  /\ polling /\ d \in todo /\ Room(d)
  /\ todo' = todo \ {d} /\ Answer(d)
  /\ queue' = [queue EXCEPT ![d] = Push(@, produced[d])]
  /\ num_bytes' = num_bytes + 1
  /\ UNCHANGED <<listed, dropped, srqi, stuck_srq, awake, polling, delivered, lost, waits>>

\* The byte is read but not queued.
Discard(d) ==
  /\ polling /\ d \in todo
  /\ todo' = todo \ {d} /\ Answer(d)
  /\ UNCHANGED <<listed, queue, srqi, stuck_srq, awake, polling, num_bytes, delivered, waits>>

\* The queue is full.  push_status_byte sets dropped_byte and calls
\* pop_status_byte to make room; that reports the drop to its caller, clears the
\* flag and removes nothing, and the error it returns ends the push: the oldest
\* byte stays and the new one is gone.
PollOverflow(d) ==
  /\ ~Room(d) /\ Discard(d)
  /\ dropped' = [dropped EXCEPT ![d] = FALSE]
  /\ lost' = [lost EXCEPT ![d] = TRUE]

\* There is no memory for the byte.
PollNoMemory(d) == Room(d) /\ Discard(d) /\ UNCHANGED <<dropped, lost>>

StuckSrq == srqi' = TRUE /\ stuck_srq' = TRUE

\* Mutant: no byte found does not count as stuck.
MutantFound == UNCHANGED <<srqi, stuck_srq>>

\* What the thread makes of the number of bytes: none at all means that SRQ is
\* stuck.
Found == IF num_bytes > 0 THEN UNCHANGED <<srqi, stuck_srq>> ELSE StuckSrq

\* Mutant: those who wait for RQS are not woken.
MutantPollEnd ==
  /\ polling /\ todo = {}
  /\ polling' = FALSE /\ num_bytes' = 0
  /\ Found
  /\ UNCHANGED <<device, listed, store, awake, todo, delivered, lost, waits>>

\* serial_poll_all succeeds; autopoll_all_devices wakes those who wait for RQS.
PollEnd ==
  /\ polling /\ todo = {}
  /\ polling' = FALSE /\ num_bytes' = 0
  /\ Found /\ WakeWaiters
  /\ UNCHANGED <<device, listed, store, awake, todo, delivered, lost>>

\* cleanup_serial_poll fails: the queued bytes stay, but serial_poll_all returns
\* the error, on which nobody is woken and SRQ counts as stuck.
CleanupFail ==
  /\ polling /\ todo = {} /\ listed # {}
  /\ polling' = FALSE /\ num_bytes' = 0
  /\ StuckSrq
  /\ unheard' = (unheard \/ num_bytes > 0)
  /\ UNCHANGED <<device, listed, store, awake, todo, delivered, lost, waiter>>

\* setup_serial_poll fails before any device is asked.
PollFail ==
  /\ polling /\ todo = listed /\ listed # {} /\ num_bytes = 0
  /\ polling' = FALSE /\ todo' = {}
  /\ StuckSrq
  /\ UNCHANGED <<device, listed, store, awake, num_bytes, delivered, lost, waits>>

-----------------------------------------------------------------------------
\* ibrsp with queued bytes: a drop is reported before the bytes are read.
ReadQueued(d) ==
  /\ ~polling /\ queue[d] # <<>>
  /\ \/ dropped[d] /\ dropped' = [dropped EXCEPT ![d] = FALSE]
        /\ lost' = [lost EXCEPT ![d] = FALSE] /\ UNCHANGED <<queue, delivered>>
     \/ ~dropped[d] /\ queue' = [queue EXCEPT ![d] = Tail(@)]
        /\ delivered' = [delivered EXCEPT ![d] = Head(queue[d])]
        /\ UNCHANGED <<dropped, lost>>
  /\ UNCHANGED <<device, listed, srqi, stuck_srq, thread, waits>>

\* Mutant: the bus is asked although bytes are queued.
MutantReadDevice(d) ==
  /\ ~polling
  /\ Answer(d)
  /\ delivered' = [delivered EXCEPT ![d] = produced[d]] /\ UNCHANGED lost
  /\ UNCHANGED <<listed, store, srqi, stuck_srq, thread, waits>>

\* ibrsp without queued bytes polls the device itself (dvrsp).  The byte is
\* lost when the commands that end the poll time out.
ReadDevice(d) ==
  /\ ~polling /\ queue[d] = <<>>
  /\ Answer(d)
  /\ \/ delivered' = [delivered EXCEPT ![d] = produced[d]]
     \/ UNCHANGED delivered
  /\ UNCHANGED <<listed, store, srqi, stuck_srq, thread, lost, waits>>

\* IBOPENDEV: a new entry has an empty queue, and SRQ may no longer be stuck.
OpenDev(d) ==
  /\ ~polling
  /\ listed' = listed \cup {d}
  /\ stuck_srq' = FALSE
  /\ UNCHANGED <<device, store, srqi, thread, delivered, lost, waits>>

\* The last handle on the device is closed: the entry is freed.  A program does
\* not close the handle that it waits with.
CloseDev(d) ==
  /\ ~polling /\ d \in listed /\ ~InWait(d)
  /\ listed' = listed \ {d}
  /\ queue' = [queue EXCEPT ![d] = <<>>] /\ dropped' = [dropped EXCEPT ![d] = FALSE]
  /\ lost' = [lost EXCEPT ![d] = FALSE]
  /\ UNCHANGED <<device, srqi, stuck_srq, thread, delivered, waits>>

-----------------------------------------------------------------------------
\* ibwait for RQS of a device.  wait_satisfied is evaluated under
\* big_gpib_mutex, before the program first sleeps and each time it is woken.
Goto(d, from, to) == waiter[d] = from /\ waiter' = [waiter EXCEPT ![d] = to]
NoOtherChange == UNCHANGED <<device, listed, store, srqi, stuck_srq, thread, delivered, lost, unheard>>

WaitBegin(d) ==
  /\ ~polling /\ d \in listed \cap Awaited
  /\ Goto(d, "none", "testing")
  /\ NoOtherChange

WaitSatisfied(d) ==
  /\ ~polling
  /\ IF queue[d] # <<>> THEN Goto(d, "testing", "none") ELSE Goto(d, "testing", "asleep")
  /\ NoOtherChange

\* The wait ends by its timer, another condition in the mask, or a signal that
\* meets the sleep, on which the ioctl is restarted or fails with EINTR.
WaitOver(d) ==
  /\ Goto(d, "asleep", "none")
  /\ NoOtherChange

\* A signal comes while wait_satisfied waits for big_gpib_mutex.  It returns
\* -ERESTARTSYS, which wait_event_interruptible takes for a condition that holds:
\* if the mutex is free by then, ibwait does not ask for the signal again and
\* succeeds with none of its conditions, and else it fails.
WaitSignalled(d) ==
  /\ Goto(d, "testing", "none")
  /\ NoOtherChange

-----------------------------------------------------------------------------
Poll ==
  \/ PollBegin \/ PollEnd \/ PollFail \/ CleanupFail
  \/ \E d \in Devices : PollNothing(d) \/ PollQueue(d)
                          \/ PollOverflow(d) \/ PollNoMemory(d)

Next ==
  \/ \E d \in Devices : Request(d) \/ ReadQueued(d) \/ ReadDevice(d) \/ OpenDev(d) \/ CloseDev(d)
                       \/ WaitBegin(d) \/ WaitSatisfied(d) \/ WaitOver(d)
                       \/ WaitSignalled(d)
  \/ SrqInterrupt \/ OtherInterrupt \/ ThreadSleep \/ Poll

Spec == Init /\ [][Next]_vars

\* The thread runs when it can, a pending interrupt is taken, and a program that
\* waits for big_gpib_mutex gets it although one poll may follow another.
FairSpec ==
  /\ Spec /\ WF_vars(ThreadSleep \/ Poll) /\ WF_vars(SrqInterrupt)
  /\ \A d \in Devices : SF_vars(WaitSatisfied(d))

-----------------------------------------------------------------------------
\* The bytes of a device under way to its reader: those queued, then the one
\* that the device still holds.
UnderWay(d) == queue[d] \o (IF d \in requesting THEN <<produced[d]>> ELSE <<>>)

Channel == INSTANCE StatusChannel WITH items <- [d \in Devices |-> UnderWay(d)]

\* Although bytes reach ibrsp by two routes, through the queue and straight from
\* the bus, each device's bytes are delivered in the order it produced them and
\* at most once, whatever is lost, closed or reopened on the way.
DeliversInOrder == Channel!Spec

Answered(d) == d \notin requesting \/ d \notin listed \/ stuck_srq

\* A device that is open and requests service while the thread is awake, or an
\* interrupt will wake it, is read, or closed, or SRQ is declared stuck: neither
\* a failed read of it, nor other devices' requests in the middle of a poll,
\* leave its request forgotten.
RequestAnswered ==
  \A d \in Devices :
    (d \in requesting /\ d \in listed /\ (awake \/ edge)) ~> Answered(d)

\* A program that waits for RQS gets to know of the byte that is queued for its
\* device, be it queued before the program slept or in any step of a poll that
\* it slept through, unless the byte is read by another program first: the wake
\* that SRQ gave was too early, and the one after the poll has to come.  It does
\* not come after a poll whose cleanup failed (unheard).
RqsReported ==
  \A d \in Devices :
    (InWait(d) /\ queue[d] # <<>>) ~> (~InWait(d) \/ queue[d] = <<>> \/ unheard)

\* dropped_byte "flags loss of status byte error due to limit on size of
\* queue": a byte of a full queue is lost only under a flag that ibrsp reports.
DropIsFlagged ==
  \A d \in Devices : lost[d] => dropped[d]
=============================================================================
