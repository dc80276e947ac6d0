----------------------------- MODULE BoardLocks -----------------------------
(***************************************************************************)
(* The two mutexes of a GPIB board and everybody who takes them.           *)
(*                                                                         *)
(*   user_mutex      one process owns the board across several ioctls      *)
(*                   (IBMUTEX); locking_pid names the owner and            *)
(*                   holding_mutex marks the descriptor that locked it     *)
(*   big_gpib_mutex  held by every ioctl, dropped for I/O and for waits    *)
(*                                                                         *)
(* The actors are the threads of user programs (Procs), each with a pid of *)
(* its own, which issue one ioctl at a time, and the board's autospoll     *)
(* kernel thread (Spoll), which serial polls the bus when a device         *)
(* requests service.  The threads of a program share its descriptor: the   *)
(* library starts a thread for each asynchronous transfer.                 *)
(* An ioctl that never blocks between taking big_gpib_mutex and releasing  *)
(* it is one step; every point where it can block, or where it runs        *)
(* without big_gpib_mutex, is a label of pc.                               *)
(***************************************************************************)
EXTENDS Integers, FiniteSets

CONSTANTS
  Procs,        \* threads of user processes (current->pid)
  Files,        \* open file descriptions of the board's device node
  Users,        \* the threads that use a given descriptor
  Ops,          \* the ioctls that each process issues
  Spoll,        \* the autospoll kernel thread
  NoOne,        \* a free mutex; locking_pid = 0
  Disciplined,  \* callers keep to the library's rules: no IBMUTEX 1 by a thread
                \* that holds user_mutex, and a program that closes a
                \* descriptor with holding_mutex set is exiting
  MaxSpollers   \* bound: IBAUTOSPOLL 1 is issued only at a count from 0 to
                \* below this one

AllOps == {"lock", "unlock", "io", "ctl", "wait", "spoll_on", "spoll_off",
           "online", "offline"}

ASSUME ActorsAssumption == NoOne \notin Procs /\ Spoll \notin Procs /\ NoOne # Spoll
ASSUME FilesAssumption == Files # {} /\ Users \in [Files -> SUBSET Procs]
ASSUME OpsAssumption == Ops \in [Procs -> SUBSET AllOps]
ASSUME BoundAssumption == MaxSpollers \in Nat /\ Disciplined \in BOOLEAN

Actors == Procs \cup {Spoll}

VARIABLES
  big,          \* owner of board->big_gpib_mutex
  user,         \* owner of board->user_mutex
  locking_pid,  \* board->locking_pid
  holding,      \* descriptors with holding_mutex set
  opened,       \* descriptors that are open
  enabled,      \* descriptors whose handle 0 has autopoll_enabled
  autospollers, \* board->autospollers
  online,       \* board->online
  pc,           \* where each process is
  fd,           \* the descriptor its call is about
  tmp,          \* the value of autospollers it has read
  tpc,          \* where the autospoll thread is
  should_stop   \* kthread_should_stop()

holder == <<locking_pid, holding>>
counter == <<autospollers, enabled, tmp>>
thread == <<tpc, should_stop>>
vars == <<big, user, holder, opened, counter, online, pc, fd, thread>>

\* A process is at an element of AllOps while that ioctl waits for
\* big_gpib_mutex, and at one of these otherwise.
Labels == AllOps \cup
  {"idle",      \* in user space
   "want_user", \* IBMUTEX: waiting for user_mutex
   "got_user",  \* IBMUTEX: has it, locking_pid not yet set
   "check_pid", \* IBMUTEX unlock: about to compare locking_pid
   "release",   \* IBMUTEX unlock: locking_pid cleared, user_mutex not released
   "on_bus",    \* IBRD, IBWRT, IBCMD: transferring without big_gpib_mutex
   "in_ctl",    \* IBRSP, IBCAC, IBSIC...: using the bus under big_gpib_mutex
   "inc", "dec",         \* IBAUTOSPOLL: autospollers read, not yet written
   "positive",           \* IBAUTOSPOLL: autospollers tested, not yet read
   "onlining",  \* IBONL: the autospoll thread runs, online is not yet set
   "cond", "asleep", "relock", \* IBWAIT: evaluating, sleeping, leaving
   "stopping",  \* IBONL: in kthread_stop, holding big_gpib_mutex
   "close_positive", "close_dec", "close_free", "dead"}

ThreadLabels == {"none", "test", "cond", "asleep", "woken", "recheck",
                 "lock_user", "lock_big", "poll"}

\* Every variable stays within its type.
TypeOK ==
  /\ big \in Actors \cup {NoOne}
  /\ user \in Actors \cup {NoOne}
  /\ locking_pid \in Procs \cup {NoOne}
  /\ opened \subseteq Files
  /\ holding \subseteq Files
  /\ enabled \subseteq Files
  /\ autospollers \in Int
  /\ online \in BOOLEAN
  /\ pc \in [Procs -> Labels]
  /\ fd \in [Procs -> Files]
  /\ tmp \in [Procs -> Int]
  /\ tpc \in ThreadLabels
  /\ should_stop \in BOOLEAN

Init ==
  /\ big = NoOne /\ user = NoOne /\ locking_pid = NoOne
  /\ opened = {} /\ holding = {} /\ enabled = {}
  /\ autospollers = 0
  /\ online = FALSE
  /\ pc = [p \in Procs |-> "idle"]
  /\ fd = [p \in Procs |-> CHOOSE f \in Files : TRUE]
  /\ tmp = [p \in Procs |-> 0]
  /\ tpc = "none" /\ should_stop = FALSE

Goto(p, from, to) == pc[p] = from /\ pc' = [pc EXCEPT ![p] = to]

Untouched == UNCHANGED <<holder, opened, fd>>

\* wake_up_interruptible(&board->wait): the autospoll thread tests again.
\* A process asleep in IBWAIT may test again at any time.
Woken(t) == IF t = "asleep" THEN "test" ELSE t

-----------------------------------------------------------------------------
\* ibopen.  The first open happens before anything else about a descriptor.
Open(p) ==
  \E f \in Files \ opened :
    /\ p \in Users[f] /\ pc[p] = "idle"
    /\ opened' = opened \cup {f}
    /\ UNCHANGED <<big, user, holder, counter, online, pc, fd, thread>>

\* A thread is inside a call on f.
Busy(f, p) == fd[p] = f /\ pc[p] \notin {"idle", "dead"}

Closing == {"close_positive", "close_dec", "close_free"}

\* ibioctl is entered: the thread waits for big_gpib_mutex.
Ioctl(p) ==
  \E f \in opened, o \in Ops[p] :
    /\ p \in Users[f]
    /\ \A q \in Procs : ~(Busy(f, q) /\ pc[q] \in Closing)
    /\ o = "lock" /\ Disciplined => user # p
    /\ o = "spoll_on" => autospollers \in 0..(MaxSpollers - 1)
    /\ Goto(p, "idle", o)
    /\ fd' = [fd EXCEPT ![p] = f]
    /\ UNCHANGED <<big, user, holder, opened, counter, online, thread>>

\* A signal ends an interruptible wait for a mutex, or for an event.  Inside
\* wait_satisfied the error it returns counts as "satisfied".
Interrupted(p) ==
  /\ \/ \E l \in AllOps \cup {"want_user", "asleep", "relock"} : Goto(p, l, "idle")
     \/ Goto(p, "cond", "relock")
  /\ UNCHANGED <<big, user, holder, opened, counter, online, fd, thread>>

(* Definitions named Mutant... are plausible bugs of the definition that     *)
(* follows; they are used only to show that a property would notice them.    *)

\* IBMUTEX waits for user_mutex without releasing big_gpib_mutex.
MutantIbmutexHoldsBig(p) ==
  /\ big = NoOne
  /\ \/ Goto(p, "lock", "want_user") /\ big' = p
     \/ Goto(p, "unlock", "check_pid") /\ UNCHANGED big
  /\ Untouched /\ UNCHANGED <<user, counter, online, thread>>

\* IBMUTEX: big_gpib_mutex is taken for the checks and released before
\* user_mutex is waited for.
IbmutexEnter(p) ==
  /\ big = NoOne
  /\ Goto(p, "lock", "want_user") \/ Goto(p, "unlock", "check_pid")
  /\ Untouched /\ UNCHANGED <<big, user, counter, online, thread>>

TakeUserMutex(p) ==
  /\ user = NoOne /\ Goto(p, "want_user", "got_user")
  /\ user' = p
  /\ Untouched /\ UNCHANGED <<big, counter, online, thread>>

SetLockingPid(p) ==
  /\ Goto(p, "got_user", "idle")
  /\ locking_pid' = p /\ holding' = holding \cup {fd[p]}
  /\ UNCHANGED <<big, user, opened, counter, online, fd, thread>>

ClearLockingPid(p) ==
  /\ \/ locking_pid = p /\ Goto(p, "check_pid", "release") /\ locking_pid' = NoOne
     \/ locking_pid # p /\ Goto(p, "check_pid", "idle") /\ UNCHANGED locking_pid
  /\ UNCHANGED <<big, user, holding, opened, counter, online, fd, thread>>

\* holding_mutex is not cleared.
MutantReleaseUserMutex(p) ==
  /\ Goto(p, "release", "idle") /\ user' = NoOne
  /\ Untouched /\ UNCHANGED <<big, counter, online, thread>>

ReleaseUserMutex(p) ==
  /\ Goto(p, "release", "idle")
  /\ holding' = holding \ {fd[p]} /\ user' = NoOne
  /\ UNCHANGED <<big, locking_pid, opened, counter, online, fd, thread>>

-----------------------------------------------------------------------------
\* The comparison with locking_pid is missing.
MutantAllowedToAll(p) == online

\* The checks of ibioctl before an ioctl that uses the bus.
Allowed(p) == online /\ locking_pid = p

\* IBRD, IBWRT, IBCMD: the transfer runs without big_gpib_mutex.
IoEnter(p) ==
  /\ big = NoOne
  /\ Goto(p, "io", IF Allowed(p) THEN "on_bus" ELSE "idle")
  /\ Untouched /\ UNCHANGED <<big, user, counter, online, thread>>

\* The transfer ends; the chip's interrupts have woken board->wait.
IoDone(p) ==
  /\ Goto(p, "on_bus", "idle")
  /\ tpc' = Woken(tpc)
  /\ Untouched /\ UNCHANGED <<big, user, counter, online, should_stop>>

\* The other ioctls that use the bus keep big_gpib_mutex.
CtlEnter(p) ==
  /\ big = NoOne
  /\ \/ Allowed(p) /\ Goto(p, "ctl", "in_ctl") /\ big' = p
     \/ ~Allowed(p) /\ Goto(p, "ctl", "idle") /\ UNCHANGED big
  /\ Untouched /\ UNCHANGED <<user, counter, online, thread>>

\* An error path that returns without releasing big_gpib_mutex.
MutantCtlKeepsBig(p) ==
  /\ Goto(p, "in_ctl", "idle")
  /\ Untouched /\ UNCHANGED <<big, user, counter, online, thread>>

CtlDone(p) ==
  /\ Goto(p, "in_ctl", "idle") /\ big' = NoOne
  /\ Untouched /\ UNCHANGED <<user, counter, online, thread>>

\* IBWAIT with nothing to wait for returns at once.  Otherwise big_gpib_mutex is
\* dropped, retaken for each evaluation of the condition, and once more at the
\* end.
WaitEnter(p) ==
  /\ big = NoOne
  /\ Goto(p, "wait", "idle") \/ (online /\ Goto(p, "wait", "cond"))
  /\ Untouched /\ UNCHANGED <<big, user, counter, online, thread>>

WaitSatisfied(p) ==
  /\ big = NoOne
  /\ Goto(p, "cond", "asleep") \/ Goto(p, "cond", "relock")
  /\ Untouched /\ UNCHANGED <<big, user, counter, online, thread>>

WaitWoken(p) ==
  /\ Goto(p, "asleep", "cond")
  /\ Untouched /\ UNCHANGED <<big, user, counter, online, thread>>

WaitDone(p) ==
  /\ big = NoOne
  /\ Goto(p, "relock", "idle")
  /\ Untouched /\ UNCHANGED <<big, user, counter, online, thread>>

-----------------------------------------------------------------------------
\* IBAUTOSPOLL.  The counter is an int: it is tested, read, and written, one after
\* the other, and ibclose does the same without any lock.
AutospollEnter(p) ==
  /\ big = NoOne
  /\ \/ /\ Goto(p, "spoll_on", "inc")
        /\ fd[p] \notin enabled
        /\ big' = p /\ tmp' = [tmp EXCEPT ![p] = autospollers] /\ UNCHANGED enabled
     \/ /\ Goto(p, "spoll_off", "positive")
        /\ fd[p] \in enabled /\ autospollers > 0
        /\ big' = p /\ enabled' = enabled \ {fd[p]} /\ UNCHANGED tmp
     \/ /\ Goto(p, "spoll_off", "idle")
        /\ fd[p] \in enabled => autospollers <= 0
        /\ enabled' = enabled \ {fd[p]} /\ UNCHANGED <<big, tmp>>
     \/ /\ Goto(p, "spoll_on", "idle")
        /\ fd[p] \in enabled /\ UNCHANGED <<big, tmp, enabled>>
  /\ Untouched /\ UNCHANGED <<user, autospollers, online, thread>>

\* The read of autospollers-- comes after the test.
AutospollRead(p) ==
  /\ Goto(p, "positive", "dec") \/ Goto(p, "close_positive", "close_dec")
  /\ tmp' = [tmp EXCEPT ![p] = autospollers]
  /\ Untouched /\ UNCHANGED <<big, user, enabled, autospollers, online, thread>>

AutospollWrite(p) ==
  /\ \/ /\ Goto(p, "inc", "idle")
        /\ autospollers' = tmp[p] + 1 /\ enabled' = enabled \cup {fd[p]}
     \/ /\ Goto(p, "dec", "idle")
        /\ autospollers' = tmp[p] - 1 /\ UNCHANGED enabled
  /\ big' = NoOne /\ tmp' = [tmp EXCEPT ![p] = 0]
  /\ Untouched /\ UNCHANGED <<user, online, thread>>

-----------------------------------------------------------------------------
\* IBONL 1: ibonline attaches the board and starts the autospoll thread.
Ibonline(p) ==
  /\ big = NoOne
  /\ \/ /\ ~online /\ Goto(p, "online", "onlining") /\ big' = p
        /\ tpc' = "test" /\ should_stop' = FALSE
     \/ \* already online, or attach or kthread_run failed
        Goto(p, "online", "idle") /\ UNCHANGED <<big, thread>>
  /\ Untouched /\ UNCHANGED <<user, counter, online>>

SetOnline(p) ==
  /\ Goto(p, "onlining", "idle")
  /\ online' = TRUE /\ big' = NoOne
  /\ Untouched /\ UNCHANGED <<user, counter, thread>>

\* IBONL 0: iboffline waits in kthread_stop for the autospoll thread to exit,
\* and online_ioctl still holds big_gpib_mutex.
KthreadStop(p) ==
  /\ big = NoOne
  /\ \/ /\ online /\ Goto(p, "offline", "stopping") /\ big' = p
        /\ should_stop' = TRUE /\ tpc' = Woken(tpc)
     \/ ~online /\ Goto(p, "offline", "idle") /\ UNCHANGED <<big, thread>>
  /\ Untouched /\ UNCHANGED <<user, counter, online>>

Detach(p) ==
  /\ tpc = "none" /\ Goto(p, "stopping", "idle")
  /\ online' = FALSE /\ big' = NoOne
  /\ Untouched /\ UNCHANGED <<user, counter, thread>>

-----------------------------------------------------------------------------
\* ibclose, which takes neither mutex: the last reference to f goes away, by
\* close or by the exit of the program.
Close(p) ==
  \E f \in opened :
    /\ p \in Users[f] /\ \A q \in Users[f] : ~Busy(f, q)
    /\ fd' = [fd EXCEPT ![p] = f]
    /\ IF f \in enabled /\ autospollers > 0
       THEN Goto(p, "idle", "close_positive") ELSE Goto(p, "idle", "close_free")
    /\ UNCHANGED <<big, user, holder, opened, counter, online, thread>>

CloseDecrement(p) ==
  /\ Goto(p, "close_dec", "close_free")
  /\ autospollers' = tmp[p] - 1 /\ tmp' = [tmp EXCEPT ![p] = 0]
  /\ Untouched /\ UNCHANGED <<big, user, enabled, online, thread>>

\* The descriptors are freed, and a mutex held through f is released.
CloseRelease(p) ==
  LET f == fd[p] IN
  /\ pc[p] = "close_free"
  /\ pc' = IF f \in holding /\ Disciplined
           THEN [q \in Procs |-> IF q \in Users[f] THEN "dead" ELSE pc[q]]
           ELSE [pc EXCEPT ![p] = "idle"]
  /\ user' = IF f \in holding THEN NoOne ELSE user
  /\ holding' = holding \ {f} /\ opened' = opened \ {f} /\ enabled' = enabled \ {f}
  /\ UNCHANGED <<big, locking_pid, autospollers, tmp, online, fd, thread>>

-----------------------------------------------------------------------------
\* A device asserts SRQ: the driver's interrupt handler wakes board->wait.
SrqInterrupt ==
  /\ tpc = "asleep" /\ tpc' = Woken(tpc)
  /\ Untouched /\ UNCHANGED <<big, user, counter, online, pc, should_stop>>

ThreadGoto(from, to) == tpc = from /\ tpc' = to

\* The thread's loop tests kthread_should_stop() first.
ThreadTest ==
  /\ ThreadGoto("test", IF should_stop THEN "none" ELSE "cond")
  /\ Untouched /\ UNCHANGED <<big, user, counter, online, pc, should_stop>>

\* autospoll_wait_should_wake_up, under an uninterruptible big_gpib_mutex.
\* Whether service is requested is left open: see module Autopoll.
ThreadCondition ==
  /\ big = NoOne
  /\ ThreadGoto("cond", "asleep") \/ (autospollers > 0 /\ ThreadGoto("cond", "woken"))
  /\ Untouched /\ UNCHANGED <<big, user, counter, online, pc, should_stop>>

ThreadWoken ==
  /\ ThreadGoto("woken", IF should_stop THEN "none" ELSE "recheck")
  /\ Untouched /\ UNCHANGED <<big, user, counter, online, pc, should_stop>>

\* "make sure we are still good after we have lock": autospolling may have been
\* disabled, or the board may no longer be system controller.
ThreadRecheck ==
  /\ big = NoOne
  /\ \/ ThreadGoto("recheck", "test")
     \/ autospollers > 0 /\ ThreadGoto("recheck", "lock_user")
  /\ Untouched /\ UNCHANGED <<big, user, counter, online, pc, should_stop>>

\* The thread records itself as the owner, as IBMUTEX does.
MutantThreadLockUser ==
  /\ user = NoOne /\ ThreadGoto("lock_user", "lock_big")
  /\ user' = Spoll /\ locking_pid' = Spoll
  /\ UNCHANGED <<big, holding, opened, fd, counter, online, pc, should_stop>>

\* autopoll_all_devices takes user_mutex first, then big_gpib_mutex.
ThreadLockUser ==
  /\ user = NoOne /\ ThreadGoto("lock_user", "lock_big") /\ user' = Spoll
  /\ Untouched /\ UNCHANGED <<big, counter, online, pc, should_stop>>

ThreadLockBig ==
  /\ big = NoOne /\ ThreadGoto("lock_big", "poll") /\ big' = Spoll
  /\ Untouched /\ UNCHANGED <<user, counter, online, pc, should_stop>>

ThreadPollDone ==
  /\ ThreadGoto("poll", "test")
  /\ big' = NoOne /\ user' = NoOne
  /\ Untouched /\ UNCHANGED <<counter, online, pc, should_stop>>

-----------------------------------------------------------------------------
KernelStep(p) ==
  \/ IbmutexEnter(p) \/ TakeUserMutex(p) \/ SetLockingPid(p)
  \/ ClearLockingPid(p) \/ ReleaseUserMutex(p)
  \/ IoEnter(p) \/ CtlEnter(p)
  \/ WaitEnter(p) \/ WaitSatisfied(p) \/ WaitDone(p)
  \/ AutospollEnter(p) \/ AutospollRead(p) \/ AutospollWrite(p)
  \/ Ibonline(p) \/ SetOnline(p) \/ KthreadStop(p) \/ Detach(p)
  \/ CloseDecrement(p) \/ CloseRelease(p)

\* The end of an operation on the bus, which may never come: with timeout 0 no
\* timer is started, and a parallel poll of the nec7210 waits without one.
BusStep(p) == IoDone(p) \/ CtlDone(p)

CallerStep(p) ==
  Open(p) \/ Ioctl(p) \/ Interrupted(p) \/ WaitWoken(p) \/ Close(p)

ThreadStep ==
  \/ ThreadTest \/ ThreadCondition \/ ThreadWoken \/ ThreadRecheck
  \/ ThreadLockUser \/ ThreadLockBig \/ ThreadPollDone

Next ==
  \/ \E p \in Procs : CallerStep(p) \/ KernelStep(p) \/ BusStep(p)
  \/ ThreadStep
  \/ SrqInterrupt

Spec == Init /\ [][Next]_vars

\* The kernel runs what is runnable, and a mutex is handed on to a thread that
\* has waited for it long enough (strong fairness); callers and the bus owe
\* nothing.  The polls of the autospoll thread run under timers of their own.
FairSpec ==
  /\ Spec
  /\ \A p \in Procs : SF_vars(KernelStep(p))
  /\ SF_vars(ThreadStep)

-----------------------------------------------------------------------------
(***************************************************************************)
(* What the locks promise.                                                 *)
(***************************************************************************)
BusUsers ==
  {p \in Procs : pc[p] \in {"on_bus", "in_ctl"}}
    \cup (IF tpc = "poll" THEN {Spoll} ELSE {})

\* "Lock that only allows one process to access this board at a time": the bus
\* is used by one process, or by the autospoll thread, never by two of them,
\* although IBRD, IBWRT and IBCMD run without big_gpib_mutex and only a pid
\* recorded earlier stands between a caller and the bus.
BusExclusion == \A a, b \in BusUsers : a = b

\* A mark in a descriptor's holding_mutex is what lets ibclose release
\* user_mutex, so it may only stand while one of that descriptor's threads owns it.
HoldingMeansOwning == \A f \in holding : user \in Users[f]

\* user_mutex is let go by a step of its owner only, or by the exit of its
\* owner's program, whichever of IBMUTEX, ibclose and autopoll_all_devices
\* releases it.
OnlyOwnerReleases ==
  [][user # NoOne /\ user' # user =>
       IF user = Spoll THEN tpc' # tpc ELSE pc'[user] # pc[user]]_vars

\* The mutex (or thread) an actor is blocked behind, and so the actor.
BlockedOn(a) ==
  IF a = NoOne THEN NoOne
  ELSE IF a = Spoll THEN
    CASE tpc = "lock_user" -> user
      [] tpc \in {"cond", "recheck", "lock_big"} -> big
      [] OTHER -> NoOne
  ELSE
    CASE pc[a] \in AllOps \cup {"cond", "relock"} -> big
      [] pc[a] = "want_user" -> user
      [] pc[a] = "stopping" /\ tpc # "none" -> Spoll
      [] OTHER -> NoOne

CircularWait ==
  \E a \in Actors :
    LET b == BlockedOn(a)
        c == BlockedOn(b)
    IN a \in {b, c, BlockedOn(c)}

\* user_mutex "has to be first in any locking order": nobody waits in a circle,
\* except behind an IBONL 0 that waits for the autospoll thread to exit.
LockOrder == CircularWait => \E p \in Procs : pc[p] = "stopping"

\* big_gpib_mutex "should not be held for extended waits": nobody, IBONL 0
\* included, takes part in a circle of waits.
NoCircularWait == ~CircularWait

\* Whoever uses the bus under big_gpib_mutex comes back.
BusOperationsEnd == \A p \in Procs : []<>(pc[p] # "in_ctl")

\* An ioctl that waits for big_gpib_mutex gets it (or is interrupted), unless
\* somebody takes the board offline, or an operation on the bus never ends.
BigIsGranted ==
  BusOperationsEnd =>
    \A p \in Procs :
      pc[p] \in AllOps ~> (pc[p] \notin AllOps \/ \E q \in Procs : pc[q] = "stopping")

\* autospollers is the "number of processes trying to autopoll", when nobody is
\* in the middle of changing it.
CountOfAutopollers ==
  (\A p \in Procs : pc[p] \notin {"inc", "positive", "dec"} \cup Closing)
    => autospollers = Cardinality(enabled)
=============================================================================
