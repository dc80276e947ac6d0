---------------------------- MODULE Boards_proofs ----------------------------
(***************************************************************************)
(* Proofs about boards: their two mutexes (BoardLocks), for any number of  *)
(* processes and descriptors, and how they go on and off line              *)
(* (BoardAttach), for any number of boards.                                *)
(***************************************************************************)
EXTENDS BoardLocks, BoardFlow, TLAPS

-----------------------------------------------------------------------------
(* BoardLocks *)

\* The rules the user library keeps: one descriptor per process and board
\* (ibBoard[] has one fileno), and those of Disciplined.
Discipline ==
  /\ Disciplined = TRUE
  /\ \A f, g \in Files : Users[f] \cap Users[g] # {} => f = g

HoldsBig == {"in_ctl", "inc", "positive", "dec", "onlining", "stopping"}

\* Who owns big_gpib_mutex can be read off the program counters.
BigInv ==
  /\ \A p \in Procs : big = p <=> pc[p] \in HoldsBig
  /\ big = Spoll <=> tpc = "poll"

\* So can the autospoll thread's ownership of user_mutex, and that of a
\* process between taking it and recording its pid, or the reverse; the threads
\* of a program that has exited own nothing.
UserInv ==
  /\ \A p \in Procs : pc[p] \in {"got_user", "release"} => user = p
  /\ user = Spoll <=> tpc \in {"lock_big", "poll"}
  /\ \A p \in Procs : pc[p] = "dead" => user # p

\* locking_pid is the owner of user_mutex, or a process that is gone.
PidInv ==
  /\ \A p \in Procs : locking_pid = p => user = p \/ pc[p] = "dead"
  /\ \A p \in Procs : pc[p] \in {"on_bus", "in_ctl"} => locking_pid = p
  /\ \A p \in Procs : pc[p] = "release" => locking_pid # p

\* A busy process works on a descriptor of its own.
FdInv == \A p \in Procs : pc[p] \notin {"idle", "dead"} => p \in Users[fd[p]]

\* The owner of user_mutex has it marked, unless it is between the two; and
\* nobody asks for the mutex twice.
MarkInv ==
  /\ \A p \in Procs : user = p =>
       pc[p] \in {"got_user", "release"} \/ \E f \in holding : p \in Users[f]
  /\ \A p \in Procs : pc[p] \in {"lock", "want_user"} => user # p

\* While a thread runs ibclose no other thread of its program is in a call.
CloseInv ==
  \A p, q \in Procs :
    /\ pc[p] \in Closing /\ p # q /\ q \in Users[fd[p]]
    => pc[q] \in {"idle", "dead"}

\* The autospoll thread runs from the end of an IBONL 1 to that of an IBONL 0.
ThreadInv == tpc # "none" => online \/ \E p \in Procs : pc[p] = "onlining"

LockInv ==
  /\ TypeOK /\ BigInv /\ UserInv /\ PidInv /\ FdInv /\ MarkInv /\ CloseInv
  /\ HoldingMeansOwning /\ ThreadInv

LEMMA InitType == Init => TypeOK
<1> SUFFICES ASSUME Init PROVE TypeOK
  OBVIOUS
<1>1. fd \in [Procs -> Files]
  BY FilesAssumption DEF Init
<1>2. pc \in [Procs -> Labels] /\ tmp \in [Procs -> Int]
  BY DEF Init, Labels
<1>3. tpc \in ThreadLabels
  BY DEF Init, ThreadLabels
<1>4. /\ big = NoOne /\ user = NoOne /\ locking_pid = NoOne
      /\ opened = {} /\ holding = {} /\ enabled = {}
      /\ autospollers = 0 /\ online = FALSE /\ should_stop = FALSE
  BY DEF Init
<1>5. big \in Actors \cup {NoOne} /\ user \in Actors \cup {NoOne}
  BY <1>4
<1>6. locking_pid \in Procs \cup {NoOne}
  BY <1>4
<1>7. autospollers \in Int
  BY <1>4
<1>8. online \in BOOLEAN /\ should_stop \in BOOLEAN
  BY <1>4
<1>9. opened \subseteq Files /\ holding \subseteq Files /\ enabled \subseteq Files
  BY <1>4
<1> QED
  BY <1>1, <1>2, <1>3, <1>5, <1>6, <1>7, <1>8, <1>9 DEF TypeOK

LEMMA NextType == TypeOK /\ [Next]_vars => TypeOK'
<1> SUFFICES ASSUME TypeOK, [Next]_vars PROVE TypeOK'
  OBVIOUS
<1> USE DEF TypeOK, holder, counter, thread
<1>1. ASSUME NEW p \in Procs, CallerStep(p) PROVE TypeOK'
  <2>1. CASE Open(p)
    BY <2>1 DEF Open
  <2>2. CASE Ioctl(p)
    <3>1. PICK f \in opened, o \in Ops[p] : Ioctl(p)!(f, o)
      BY <2>2 DEF Ioctl
    <3>2. o \in AllOps /\ f \in Files
      BY OpsAssumption
    <3> QED
      BY <3>1, <3>2 DEF Goto, Labels, AllOps
  <2>3. CASE Interrupted(p)
    BY <2>3 DEF Interrupted, Goto, Labels
  <2>4. CASE WaitWoken(p)
    BY <2>4 DEF WaitWoken, Goto, Labels, Untouched
  <2>5. CASE Close(p)
    BY <2>5 DEF Close, Goto, Labels
  <2> QED
    BY <1>1, <2>1, <2>2, <2>3, <2>4, <2>5 DEF CallerStep
<1>2. ASSUME NEW p \in Procs, KernelStep(p) PROVE TypeOK'
  <2> USE DEF Goto, Labels, Untouched, Actors
  <2>1. CASE IbmutexEnter(p)
    BY <2>1 DEF IbmutexEnter
  <2>2. CASE TakeUserMutex(p)
    BY <2>2 DEF TakeUserMutex
  <2>3. CASE SetLockingPid(p)
    BY <2>3 DEF SetLockingPid
  <2>4. CASE ClearLockingPid(p)
    BY <2>4 DEF ClearLockingPid
  <2>5. CASE ReleaseUserMutex(p)
    BY <2>5 DEF ReleaseUserMutex
  <2>6. CASE IoEnter(p)
    BY <2>6 DEF IoEnter
  <2>7. CASE SetOnline(p)
    BY <2>7 DEF SetOnline
  <2>8. CASE CtlEnter(p)
    BY <2>8 DEF CtlEnter
  <2>9. CASE AutospollRead(p)
    BY <2>9 DEF AutospollRead
  <2>10. CASE WaitEnter(p)
    BY <2>10 DEF WaitEnter
  <2>11. CASE WaitSatisfied(p)
    BY <2>11 DEF WaitSatisfied
  <2>12. CASE WaitDone(p)
    BY <2>12 DEF WaitDone
  <2>13. CASE AutospollEnter(p)
    BY <2>13 DEF AutospollEnter
  <2>14. CASE AutospollWrite(p)
    BY <2>14 DEF AutospollWrite
  <2>15. CASE Ibonline(p)
    <3>1. tpc' \in ThreadLabels
      BY <2>15 DEF Ibonline, ThreadLabels
    <3> QED
      BY <2>15, <3>1 DEF Ibonline
  <2>16. CASE KthreadStop(p)
    <3>1. tpc' \in ThreadLabels
      BY <2>16 DEF KthreadStop, Woken, ThreadLabels
    <3> QED
      BY <2>16, <3>1 DEF KthreadStop
  <2>17. CASE Detach(p)
    BY <2>17 DEF Detach
  <2>18. CASE CloseDecrement(p)
    BY <2>18 DEF CloseDecrement
  <2>19. CASE CloseRelease(p)
    BY <2>19 DEF CloseRelease
  <2> QED
    BY <1>2, <2>1, <2>2, <2>3, <2>4, <2>5, <2>6, <2>7, <2>8, <2>9, <2>10, <2>11, <2>12,
       <2>13, <2>14, <2>15, <2>16, <2>17, <2>18, <2>19 DEF KernelStep
<1>3. ASSUME ThreadStep PROVE TypeOK'
  BY <1>3 DEF ThreadStep, ThreadTest, ThreadCondition, ThreadWoken, ThreadRecheck,
     ThreadLockUser, ThreadLockBig, ThreadPollDone, ThreadGoto, ThreadLabels, Untouched,
     Actors
<1>4. ASSUME SrqInterrupt PROVE TypeOK'
  BY <1>4 DEF SrqInterrupt, Woken, ThreadLabels, Untouched
<1>5. ASSUME NEW p \in Procs, BusStep(p) PROVE TypeOK'
  <2>1. CASE IoDone(p)
    BY <2>1 DEF IoDone, Woken, ThreadLabels, Goto, Labels, Untouched
  <2>2. CASE CtlDone(p)
    BY <2>2 DEF CtlDone, Goto, Labels, Untouched
  <2> QED
    BY <1>5, <2>1, <2>2 DEF BusStep
<1>6. ASSUME UNCHANGED vars PROVE TypeOK'
  BY <1>6 DEF vars
<1> QED
  BY <1>1, <1>2, <1>3, <1>4, <1>5, <1>6 DEF Next

\* Every variable keeps its type: the thread never figures as a process that
\* locked the board, say.  autospollers is no more than an integer.
THEOREM TypeCorrect == Spec => []TypeOK
  BY InitType, NextType, PTL DEF Spec

-----------------------------------------------------------------------------
LEMMA InitLock == Init => LockInv
<1> SUFFICES ASSUME Init PROVE LockInv
  OBVIOUS
<1>1. TypeOK
  BY InitType
<1> QED
  BY <1>1, ActorsAssumption
  DEF Init, LockInv, BigInv, UserInv, PidInv, FdInv, MarkInv, CloseInv, HoldingMeansOwning,
      HoldsBig, Closing, ThreadInv

LEMMA NextLock == ASSUME Discipline PROVE LockInv /\ [Next]_vars => LockInv'
<1> SUFFICES ASSUME LockInv, [Next]_vars PROVE LockInv'
  OBVIOUS
<1> DEFINE Rest == BigInv /\ UserInv /\ PidInv /\ FdInv /\ MarkInv /\ CloseInv
                        /\ HoldingMeansOwning /\ ThreadInv
<1> USE ActorsAssumption, FilesAssumption
    DEF LockInv, BigInv, UserInv, PidInv, FdInv, MarkInv, CloseInv, HoldingMeansOwning,
        HoldsBig, Closing, ThreadInv, holder, counter, thread
<1>0. TypeOK'
  BY NextType
<1> USE DEF TypeOK
<1>1. ASSUME NEW p \in Procs, CallerStep(p) PROVE Rest'
  <2>1. CASE Open(p)
    BY <2>1 DEF Open
  <2>2. CASE Ioctl(p)
    <3>1. PICK f \in opened, o \in Ops[p] : Ioctl(p)!(f, o)
      BY <2>2 DEF Ioctl
    <3>2. o \in AllOps
      BY OpsAssumption
    <3> QED
      BY <3>1, <3>2, Discipline DEF Goto, AllOps, Discipline, Busy
  <2>3. CASE Interrupted(p)
    BY <2>3 DEF Interrupted, Goto, AllOps
  <2>4. CASE WaitWoken(p)
    BY <2>4 DEF WaitWoken, Goto, Untouched
  <2>5. CASE Close(p)
    <3>1. PICK f \in opened : Close(p)!(f)
      BY <2>5 DEF Close
    <3>2. \A q \in Procs : q \in Users[f] => pc[q] \in {"idle", "dead"}
      BY <3>1, Discipline DEF Busy, Discipline
    <3> QED
      BY <3>1, <3>2, Discipline DEF Goto, Discipline
  <2> QED
    BY <1>1, <2>1, <2>2, <2>3, <2>4, <2>5 DEF CallerStep
<1>2. ASSUME NEW p \in Procs, KernelStep(p) PROVE Rest'
  <2> USE DEF Goto, Untouched
  <2>1. CASE IbmutexEnter(p)
    BY <2>1 DEF IbmutexEnter
  <2>2. CASE TakeUserMutex(p)
    BY <2>2 DEF TakeUserMutex
  <2>3. CASE SetLockingPid(p)
    BY <2>3 DEF SetLockingPid
  <2>4. CASE ClearLockingPid(p)
    BY <2>4 DEF ClearLockingPid
  <2>5. CASE ReleaseUserMutex(p)
    BY <2>5 DEF ReleaseUserMutex, Discipline
  <2>6. CASE IoEnter(p)
    BY <2>6 DEF IoEnter, Allowed
  <2>7. CASE SetOnline(p)
    BY <2>7 DEF SetOnline
  <2>8. CASE CtlEnter(p)
    BY <2>8 DEF CtlEnter, Allowed
  <2>9. CASE AutospollRead(p)
    BY <2>9 DEF AutospollRead
  <2>10. CASE WaitEnter(p)
    BY <2>10 DEF WaitEnter
  <2>11. CASE WaitSatisfied(p)
    BY <2>11 DEF WaitSatisfied
  <2>12. CASE WaitDone(p)
    BY <2>12 DEF WaitDone
  <2>13. CASE AutospollEnter(p)
    BY <2>13 DEF AutospollEnter
  <2>14. CASE AutospollWrite(p)
    <3>1. CASE Goto(p, "inc", "idle")
      BY <2>14, <3>1 DEF AutospollWrite
    <3>2. CASE Goto(p, "dec", "idle")
      BY <2>14, <3>2 DEF AutospollWrite
    <3> QED
      BY <2>14, <3>1, <3>2 DEF AutospollWrite
  <2>15. CASE Ibonline(p)
    BY <2>15 DEF Ibonline
  <2>16. CASE KthreadStop(p)
    BY <2>16 DEF KthreadStop, Woken
  <2>17. CASE Detach(p)
    BY <2>17 DEF Detach
  <2>18. CASE CloseDecrement(p)
    BY <2>18 DEF CloseDecrement
  <2>19. CASE CloseRelease(p)
    <3>1. \A q \in Users[fd[p]] : q # p => pc[q] \in {"idle", "dead"}
      BY <2>19 DEF CloseRelease
    <3>2. CASE fd[p] \in holding
      BY <2>19, <3>1, <3>2 DEF CloseRelease, Discipline
    <3>3. CASE fd[p] \notin holding
      BY <2>19, <3>1, <3>3 DEF CloseRelease
    <3> QED
      BY <3>2, <3>3
  <2> QED
    BY <1>2, <2>1, <2>2, <2>3, <2>4, <2>5, <2>6, <2>7, <2>8, <2>9, <2>10, <2>11, <2>12, <2>13, <2>14, <2>15, <2>16, <2>17, <2>18, <2>19 DEF KernelStep
<1>3. ASSUME ThreadStep PROVE Rest'
  BY <1>3 DEF ThreadStep, ThreadTest, ThreadCondition, ThreadWoken, ThreadRecheck,
     ThreadLockUser, ThreadLockBig, ThreadPollDone, ThreadGoto, Untouched
<1>4. ASSUME SrqInterrupt PROVE Rest'
  BY <1>4 DEF SrqInterrupt, Woken, Untouched
<1>5. ASSUME NEW p \in Procs, BusStep(p) PROVE Rest'
  <2>1. CASE IoDone(p)
    BY <2>1 DEF IoDone, Woken, Goto, Untouched
  <2>2. CASE CtlDone(p)
    BY <2>2 DEF CtlDone, Goto, Untouched
  <2> QED
    BY <1>5, <2>1, <2>2 DEF BusStep
<1>6. ASSUME UNCHANGED vars PROVE Rest'
  BY <1>6 DEF vars
<1> QED
  BY <1>0, <1>1, <1>2, <1>3, <1>4, <1>5, <1>6 DEF Next

\* The bus is never used by two actors at once, for any number of processes
\* that keep to the library's discipline.
THEOREM Exclusion == ASSUME Discipline PROVE Spec => []BusExclusion
<1>1. LockInv => BusExclusion
  BY ActorsAssumption
  DEF LockInv, TypeOK, UserInv, PidInv, BigInv, HoldsBig, BusExclusion, BusUsers
<1> QED
  BY InitLock, NextLock, <1>1, PTL DEF Spec

\* A descriptor's holding_mutex never outlives its process's ownership.
THEOREM MarkIsOwnership == ASSUME Discipline PROVE Spec => []HoldingMeansOwning
<1>1. LockInv => HoldingMeansOwning
  BY DEF LockInv
<1> QED
  BY InitLock, NextLock, <1>1, PTL DEF Spec

\* user_mutex is let go by its owner only.
THEOREM ReleasedByOwner == ASSUME Discipline PROVE Spec => OnlyOwnerReleases
<1> DEFINE Lets == user # NoOne /\ user' # user =>
                     IF user = Spoll THEN tpc' # tpc ELSE pc'[user] # pc[user]
<1>1. LockInv /\ [Next]_vars => [Lets]_vars
  <2> SUFFICES ASSUME LockInv, Next, user # NoOne, user' # user PROVE Lets
    OBVIOUS
  <2> USE ActorsAssumption, FilesAssumption
      DEF LockInv, TypeOK, UserInv, PidInv, FdInv, HoldingMeansOwning, holder
  <2>1. ASSUME NEW p \in Procs, CallerStep(p) PROVE FALSE
    BY <2>1 DEF CallerStep, Open, Ioctl, Interrupted, WaitWoken, Close, Untouched
  <2>2. ASSUME NEW p \in Procs, KernelStep(p) PROVE Lets
    <3>1. ReleaseUserMutex(p) \/ CloseRelease(p)
      BY <2>2 DEF KernelStep, IbmutexEnter, TakeUserMutex, SetLockingPid, ClearLockingPid,
         IoEnter, CtlEnter, WaitEnter, WaitSatisfied, WaitDone, AutospollEnter,
         AutospollRead, AutospollWrite, Ibonline, SetOnline, KthreadStop, Detach,
         CloseDecrement, Untouched
    <3>2. CASE ReleaseUserMutex(p)
      BY <3>2 DEF ReleaseUserMutex, Goto
    <3>3. CASE CloseRelease(p)
      <4>1. fd[p] \in holding /\ user \in Users[fd[p]]
        BY <3>3 DEF CloseRelease
      <4>2. pc'[user] = "dead" /\ pc[user] # "dead"
        BY <3>3, <4>1, Discipline DEF CloseRelease, Discipline
      <4> QED
        BY <4>1, <4>2
    <3> QED
      BY <3>1, <3>2, <3>3
  <2>3. ASSUME ThreadStep PROVE Lets
    BY <2>3 DEF ThreadStep, ThreadTest, ThreadCondition, ThreadWoken, ThreadRecheck,
       ThreadLockUser, ThreadLockBig, ThreadPollDone, ThreadGoto, Untouched
  <2>4. ASSUME SrqInterrupt PROVE FALSE
    BY <2>4 DEF SrqInterrupt, Untouched
  <2>5. ASSUME NEW p \in Procs, BusStep(p) PROVE FALSE
    BY <2>5 DEF BusStep, IoDone, CtlDone, Untouched
  <2> QED
    BY <2>1, <2>2, <2>3, <2>4, <2>5 DEF Next
<1> QED
  BY InitLock, NextLock, <1>1, PTL DEF Spec, OnlyOwnerReleases

\* Nobody waits in a circle, except behind an IBONL 0.
THEOREM WaitsAreOrdered == ASSUME Discipline PROVE Spec => []LockOrder
<1>1. LockInv => LockOrder
  <2> SUFFICES ASSUME LockInv, \A p \in Procs : pc[p] # "stopping", CircularWait
               PROVE  FALSE
    BY DEF LockOrder
  <2> USE ActorsAssumption, FilesAssumption
      DEF LockInv, TypeOK, Actors
  <2>1. BlockedOn(NoOne) = NoOne
    BY DEF BlockedOn
  <2>2. BlockedOn(big) = NoOne
    BY DEF BigInv, HoldsBig, BlockedOn, AllOps
  <2>3. BlockedOn(user) \in {NoOne, big}
    <3>1. ASSUME NEW p \in Procs, user = p PROVE pc[p] # "want_user"
      BY <3>1, Discipline DEF MarkInv, FdInv, HoldingMeansOwning, Discipline
    <3> QED
      BY <3>1 DEF BlockedOn, UserInv
  <2>4. ASSUME NEW a \in Actors PROVE BlockedOn(a) \in {NoOne, big, user}
    BY DEF BlockedOn
  <2> QED
    BY <2>1, <2>2, <2>3, <2>4 DEF CircularWait
<1> QED
  BY InitLock, NextLock, <1>1, PTL DEF Spec

-----------------------------------------------------------------------------
(* BoardAttach *)

\* The flows, and what TLC finds of them.
IsFlow(d, shared) == d \in Drivers /\ shared \in BOOLEAN /\ (shared => d \notin Greedy)

LEMMA FlowFacts ==
  ASSUME NEW d, NEW shared, IsFlow(d, shared)
  PROVE  /\ AtStart \in FlowOf(d, shared)
         /\ \A l \in FlowOf(d, shared) :
              /\ l \in FlowState /\ l.static \subseteq Statics(d)
              /\ FlowNext(d, shared, l) \subseteq FlowOf(d, shared)
              /\ Careful(d, shared, l)
<1>1. shared \in IF d \in Greedy THEN {FALSE} ELSE BOOLEAN
  BY DEF IsFlow
<1> QED
  BY <1>1, TablesAreCareful DEF FlowAssumption, IsFlow

\* Boards rob each other, or none robs another: they are all of one driver.
LEMMA AllOrNone ==
  ASSUME BoardsTypeOK
  PROVE  /\ Robbed = {} \/ Robbed = Configured
         /\ Robbed = {} => \A b \in Configured : IsFlow(driver[b], Shared)
<1>1. PICK d \in Drivers : driver \in [Boards -> {d, None}]
  BY DEF BoardsTypeOK
<1>2. \A b \in Configured : b \in Boards /\ driver[b] = d
  BY <1>1 DEF Configured
<1>3. ASSUME NEW b \in Robbed, NEW c \in Configured PROVE c \in Robbed
  <2>1. b \in Configured /\ driver[b] \in Greedy /\ Configured # {b}
    BY <1>3 DEF Robbed
  <2>2. Configured # {c}
    BY <2>1
  <2> QED
    BY <1>2, <2>1, <2>2 DEF Robbed
<1>4. ASSUME Robbed = {}, NEW b \in Configured PROVE IsFlow(driver[b], Shared)
  <2>1. driver[b] = d /\ Shared \in BOOLEAN
    BY <1>2 DEF Shared
  <2>2. ASSUME Shared PROVE Configured # {b}
    BY <2>2 DEF Shared
  <2>3. Shared => driver[b] \notin Greedy
    BY <1>4, <2>2 DEF Robbed
  <2> QED
    BY <2>1, <2>3 DEF IsFlow
<1>5. Robbed = {} \/ Robbed = Configured
  BY <1>3 DEF Robbed
<1> QED
  BY <1>4, <1>5

-----------------------------------------------------------------------------
(* Types *)

\* The current step of a driver's function.
LEMMA StepTypes ==
  ASSUME BoardsTypeOK, NEW b \in Boards, driver[b] # None
  PROVE  /\ Attaching(b) => Current(b) \in AttachType /\ Current(b) = AttachOf(b)[step[b]]
         /\ Detaching(b) => Current(b) \in DetachType /\ Current(b) = DetachOf(b)[step[b]]
<1>1. PICK d \in Drivers : driver \in [Boards -> {d, None}]
  BY DEF BoardsTypeOK
<1>2. driver[b] = d /\ step[b] \in Nat \ {0}
  BY <1>1 DEF BoardsTypeOK
<1>3. AttachOf(b) \in Seq(AttachType) /\ DetachOf(b) \in Seq(DetachType)
  BY <1>2, TablesAreCareful DEF FlowAssumption, AttachOf, DetachOf
<1>4. ASSUME Attaching(b) PROVE Current(b) \in AttachType /\ Current(b) = AttachOf(b)[step[b]]
  BY <1>2, <1>3, <1>4 DEF Attaching, More, Current
<1>5. ASSUME Detaching(b) PROVE Current(b) \in DetachType /\ Current(b) = DetachOf(b)[step[b]]
  BY <1>2, <1>3, <1>5 DEF Detaching, More, Current
<1> QED
  BY <1>4, <1>5

LEMMA BoardsInitType == BoardsInit => BoardsTypeOK
<1> SUFFICES ASSUME BoardsInit PROVE BoardsTypeOK
  OBVIOUS
<1>1. PICK d \in Drivers, configured \in SUBSET Boards :
        driver = [b \in Boards |-> IF b \in configured THEN d ELSE None]
  BY DEF BoardsInit
<1>2. driver \in [Boards -> {d, None}]
  BY <1>1
<1> QED
  BY <1>2 DEF BoardsInit, BoardsTypeOK, Stages

LEMMA BoardsNextType == BoardsTypeOK /\ Unused /\ [BoardsNext]_boards_vars => BoardsTypeOK' /\ Unused'
<1> SUFFICES ASSUME BoardsTypeOK, Unused, [BoardsNext]_boards_vars PROVE BoardsTypeOK' /\ Unused'
  OBVIOUS
<1> USE DEF GoesTo, Advance, Stages
<1>1. ASSUME NEW b \in Boards, Online(b) PROVE BoardsTypeOK'
  BY <1>1 DEF Online, BoardsTypeOK
<1>2. ASSUME NEW b \in Boards, GoesOnline(b) \/ ThreadFails(b) \/ Offline(b) PROVE BoardsTypeOK'
  BY <1>2 DEF GoesOnline, ThreadFails, Offline, BoardsTypeOK
<1>3. ASSUME NEW b \in Boards, AttachSkips(b) PROVE BoardsTypeOK'
  BY <1>3 DEF AttachSkips, BoardsTypeOK
<1>4. ASSUME NEW b \in Boards, Detached(b) PROVE BoardsTypeOK'
  <2>1. (stage[b] = "failed") \in BOOLEAN
    OBVIOUS
  <2> QED
    BY <1>4, <2>1 DEF Detached, BoardsTypeOK
<1>5. ASSUME NEW b \in Boards, stage[b] # "offline" PROVE driver[b] # None /\ b \in Configured
  BY <1>5 DEF Unused, Configured
<1>6. ASSUME NEW b \in Boards, AttachStep(b) PROVE BoardsTypeOK'
  <2> DEFINE s == Current(b)
  <2>1. s \in AttachType
    BY <1>5, <1>6, StepTypes DEF AttachStep, Tried, Attaching
  <2>2. s.get \subseteq STRING /\ s.mark \subseteq STRING
    BY <2>1 DEF AttachType
  <2>3. held' = [held EXCEPT ![b] = (@ \cup s.get) \ s.drop]
    BY <1>6 DEF AttachStep
  <2>4. marks' = [marks EXCEPT ![b] = @ \cup (s.mark \ StaticFields)]
        /\ static' = static \cup (s.mark \cap StaticFields)
    BY <1>6 DEF AttachStep, SetFields
  <2> HIDE DEF s
  <2> QED
    BY <1>6, <2>2, <2>3, <2>4 DEF AttachStep, BoardsTypeOK
<1>7. ASSUME NEW b \in Boards, AttachFails(b) PROVE BoardsTypeOK'
  <2> DEFINE s == Current(b)
  <2>1. s \in AttachType
    BY <1>5, <1>7, StepTypes DEF AttachFails, Tried, Attaching
  <2>2. s.leaves \subseteq STRING
    BY <2>1 DEF AttachType
  <2>3. ReleaseFrom(b, s.undo) /\ marks' = [marks EXCEPT ![b] = @ \cup s.leaves]
        /\ static' = static \ s.undo
    BY <1>7 DEF AttachFails
  <2> HIDE DEF s
  <2> QED
    BY <1>7, <2>2, <2>3 DEF AttachFails, ReleaseFrom, BoardsTypeOK
<1>8. ASSUME NEW b \in Boards, DetachStep(b) PROVE BoardsTypeOK'
  <2> DEFINE s == Current(b)
  <2>1. CASE UNCHANGED <<held, marks, static>>
    BY <1>8, <2>1 DEF DetachStep, BoardsTypeOK
  <2>2. CASE /\ ReleaseFrom(b, s.free) /\ marks' = [marks EXCEPT ![b] = FieldsAfter(b, s)]
             /\ static' = static \ s.clear
    <3>1. FieldsAfter(b, s) \subseteq STRING
      BY DEF FieldsAfter, BoardsTypeOK
    <3> HIDE DEF s
    <3> QED
      BY <1>8, <2>2, <3>1 DEF DetachStep, ReleaseFrom, BoardsTypeOK
  <2> QED
    BY <1>8, <2>1, <2>2 DEF DetachStep
<1>9. CASE UNCHANGED boards_vars
  BY <1>9 DEF boards_vars, BoardsTypeOK, Unused, Configured
<1>10. BoardsTypeOK'
  BY <1>1, <1>2, <1>3, <1>4, <1>6, <1>7, <1>8, <1>9 DEF BoardsNext, BoardsTypeOK, boards_vars
<1>11. Unused'
  <2>1. ASSUME NEW b \in Boards, NEW c \in Boards, c \notin Configured,
               Online(b) \/ AttachStep(b) \/ AttachSkips(b) \/ AttachFails(b) \/ GoesOnline(b)
               \/ ThreadFails(b) \/ Offline(b) \/ DetachStep(b) \/ Detached(b)
        PROVE  c # b
    BY <1>5, <2>1 DEF Online, AttachStep, AttachSkips, AttachFails, GoesOnline, ThreadFails,
                      Offline, DetachStep, Detached, Tried, Attaching, Detaching, Configured
  <2>2. ASSUME NEW b \in Boards, NEW c \in Boards, c # b, c \notin Configured,
               Online(b) \/ AttachStep(b) \/ AttachSkips(b) \/ AttachFails(b) \/ GoesOnline(b)
               \/ ThreadFails(b) \/ Offline(b) \/ DetachStep(b) \/ Detached(b)
        PROVE  stage'[c] = "offline" /\ held'[c] = {} /\ UNCHANGED driver
    BY <2>2 DEF Online, AttachStep, AttachSkips, AttachFails, GoesOnline, ThreadFails,
                Offline, DetachStep, Detached, ReleaseFrom, BoardsTypeOK, Unused
  <2>3. UNCHANGED driver
    BY DEF BoardsNext, boards_vars, Online, AttachStep, AttachSkips, AttachFails, GoesOnline, ThreadFails,
           Offline, DetachStep, Detached
  <2> QED
    BY <1>9, <2>1, <2>2, <2>3 DEF BoardsNext, Unused, Configured
<1> QED
  BY <1>10, <1>11

-----------------------------------------------------------------------------
(* Steps *)

\* A step that the flow of board b knows, and that takes nothing from the others.
Moves(b) ==
  /\ View(b)' \in FlowNext(driver[b], Shared, View(b))
  /\ UNCHANGED driver
  /\ \A c \in Configured \ {b} :
       stage'[c] = stage[c] /\ step'[c] = step[c] /\ held'[c] = held[c] /\ marks'[c] = marks[c]

LEMMA MovesFollow ==
  ASSUME BoardsTypeOK, Followed, NEW b \in Configured, Moves(b)
  PROVE  Followed'
<1> SUFFICES ASSUME Robbed = {}, NEW c \in Configured
             PROVE  View(c)' \in FlowOf(driver[c], Shared)
  <2>1. UNCHANGED driver
    BY DEF Moves
  <2>2. Configured' = Configured /\ Robbed' = Robbed /\ Shared' = Shared
    BY <2>1 DEF Configured, Robbed, Shared
  <2> QED
    BY <2>1, <2>2 DEF Followed
<1>1. PICK d \in Drivers : driver \in [Boards -> {d, None}]
  BY DEF BoardsTypeOK
<1>2. driver[b] = d /\ driver[c] = d
  BY <1>1 DEF Configured
<1>3. IsFlow(d, Shared)
  BY <1>2, AllOrNone
<1>4. View(b) \in FlowOf(d, Shared) /\ View(c) \in FlowOf(d, Shared)
  BY <1>2 DEF Followed
<1>5. View(b)' \in FlowOf(d, Shared)
  BY <1>2, <1>3, <1>4, FlowFacts DEF Moves
<1>6. CASE c # b
  <2>1. View(b)'.static = static'
    BY DEF View, State
  <2>2. static' \subseteq Statics(d)
    BY <1>3, <1>5, <2>1, FlowFacts
  <2>3. View(c)' = [View(c) EXCEPT !.static = static']
    BY <1>6 DEF View, State, Moves
  <2>4. Shared
    BY <1>6 DEF Shared
  <2>5. View(c)' \in FlowNext(d, Shared, View(c))
    BY <2>2, <2>3, <2>4 DEF FlowNext
  <2> QED
    BY <1>2, <1>3, <1>4, <2>5, FlowFacts
<1> QED
  BY <1>2, <1>5, <1>6

\* What the executor sees of board b is what its flow sees.
LEMMA Seen ==
  ASSUME BoardsTypeOK, NEW b \in Configured
  PROVE  LET l == View(b)
             d == driver[b]
         IN  /\ l.stage = stage[b] /\ l.step = step[b] /\ l.held = held[b] /\ l.marks = marks[b]
             /\ l.static = static
             /\ FlowFields(l) = Fields(b)
             /\ Attaching(b) <=> l.stage = "attach" /\ l.step <= Len(FlowSteps(d, l))
             /\ Detaching(b) <=> /\ l.stage \in {"failed", "detach"}
                                /\ l.step <= Len(FlowSteps(d, l))
             /\ More(b) <=> l.step <= Len(FlowSteps(d, l))
             /\ Attaching(b) => Current(b) = Tables[d].attach[l.step]
             /\ Detaching(b) => Current(b) = Tables[d].detach[l.step]
             /\ Faults(b) <=> FlowFaults(l, Current(b))
BY DEF View, State, FlowFields, Fields, FlowSteps, Attaching, Detaching, More, AttachOf, DetachOf, Current,
       Faults, FlowFaults

LEMMA RefusedSeen ==
  ASSUME BoardsTypeOK, NEW b \in Configured
  PROVE  LET l == View(b)
             s == Current(b)
         IN  /\ FlowRefused(l, s) => Refused(b)
             /\ Unused /\ Refused(b) => FlowMayRefuse(Shared, l, s)
<1> DEFINE l == View(b)
           s == Current(b)
<1>0. b \in Boards /\ l.held = held[b] /\ FlowFields(l) = Fields(b)
  BY Seen DEF Configured
<1>1. ASSUME FlowRefused(l, s) PROVE Refused(b)
  BY <1>0, <1>1 DEF FlowRefused, Refused, Taken
<1>2. ASSUME Unused, Refused(b) PROVE FlowMayRefuse(Shared, l, s)
  <2>1. CASE s.absent \cap Fields(b) # {}
    BY <1>0, <2>1 DEF FlowMayRefuse, FlowRefused
  <2>2. ASSUME NEW r \in s.get, Taken(b, r) PROVE FlowMayRefuse(Shared, l, s)
    <3>1. CASE r \in held[b] /\ r \in Exclusive \cup {"pseudo_irq"}
      BY <1>0, <2>2, <3>1 DEF FlowMayRefuse, FlowRefused
    <3>2. ASSUME r \in Exclusive, NEW c \in Boards, c # b, r \in held[c]
          PROVE  FlowMayRefuse(Shared, l, s)
      <4>1. c \in Configured
        BY <1>2, <3>2 DEF Unused
      <4>2. Shared
        BY <3>2, <4>1 DEF Shared
      <4> QED
        BY <2>2, <3>2, <4>2 DEF FlowMayRefuse
    <3> QED
      BY <2>2, <3>1, <3>2 DEF Taken
  <2> QED
    BY <1>2, <2>1, <2>2 DEF Refused
<1> QED
  BY <1>1, <1>2

\* What board b releases is its own, unless it is alone.
LEMMA OthersKeep ==
  ASSUME BoardsTypeOK, NEW b \in Configured, NEW resources, ReleaseFrom(b, resources),
         Shared => Considerate(View(b), resources)
  PROVE  /\ held'[b] = held[b] \ resources
         /\ \A c \in Configured \ {b} : held'[c] = held[c]
<1>1. View(b).held = held[b]
  BY Seen
<1>2. ASSUME NEW c \in Configured \ {b} PROVE held'[c] = held[c]
  <2>1. Considerate(View(b), resources)
    BY DEF Shared
  <2> QED
    BY <1>1, <2>1 DEF Considerate, ReleaseFrom, Configured
<1> QED
  BY <1>2 DEF ReleaseFrom, Configured

LEMMA OnlineMoves ==
  ASSUME BoardsTypeOK, NEW b \in Configured, Online(b) PROVE Moves(b)
<1>1. View(b)' = FlowBegins(View(b))
  <2>1. /\ stage'[b] = "attach" /\ step'[b] = 1 /\ held'[b] = held[b]
        /\ marks'[b] = marks[b] \ BoardFields /\ static' = static
    BY DEF Online, GoesTo, BoardsTypeOK, Configured
  <2> QED
    BY <2>1 DEF View, State, FlowBegins
<1>2. View(b).stage = "offline"
  BY DEF Online, View, State
<1>3. View(b)' \in FlowNext(driver[b], Shared, View(b))
  BY <1>1, <1>2 DEF FlowNext
<1> QED
  BY <1>3 DEF Moves, Online, GoesTo, Configured, BoardsTypeOK

LEMMA OfflineMoves ==
  ASSUME BoardsTypeOK, NEW b \in Configured, Offline(b) PROVE Moves(b)
<1>1. View(b)' = FlowGoto(View(b), "detach")
  <2>1. /\ stage'[b] = "detach" /\ step'[b] = 1
        /\ UNCHANGED <<held, marks, static>>
    BY DEF Offline, GoesTo, BoardsTypeOK, Configured
  <2> QED
    BY <2>1 DEF View, State, FlowGoto
<1>2. View(b).stage = "online"
  BY DEF Offline, View, State
<1>3. View(b)' \in FlowNext(driver[b], Shared, View(b))
  BY <1>1, <1>2 DEF FlowNext
<1> QED
  BY <1>3 DEF Moves, Offline, GoesTo, Configured, BoardsTypeOK

LEMMA EndMoves ==
  ASSUME BoardsTypeOK, NEW b \in Configured, GoesOnline(b) \/ ThreadFails(b) \/ Detached(b)
  PROVE  Moves(b)
<1> DEFINE l == View(b)
<1>1. ~(l.step <= Len(FlowSteps(driver[b], l)))
  BY Seen DEF GoesOnline, ThreadFails, Detached
<1>2. CASE GoesOnline(b) \/ ThreadFails(b)
  <2>1. l.stage = "attach"
    BY <1>2 DEF GoesOnline, ThreadFails, View, State
  <2>2. View(b)' \in {FlowGoto(l, "online"), FlowGoto(l, "failed")}
    <3>1. /\ stage'[b] \in {"online", "failed"} /\ step'[b] = 1
          /\ UNCHANGED <<held, marks, static>>
      BY <1>2 DEF GoesOnline, ThreadFails, GoesTo, BoardsTypeOK, Configured
    <3> QED
      BY <3>1 DEF View, State, FlowGoto
  <2>3. View(b)' \in FlowNext(driver[b], Shared, l)
    BY <1>1, <2>1, <2>2 DEF FlowNext
  <2> QED
    BY <1>2, <2>3 DEF Moves, GoesOnline, ThreadFails, GoesTo, Configured, BoardsTypeOK
<1>3. CASE Detached(b)
  <2>1. l.stage \in {"failed", "detach"}
    BY <1>3 DEF Detached, View, State
  <2>2. View(b)' = FlowGoto(l, "offline")
    <3>1. /\ stage'[b] = "offline" /\ step'[b] = 1
          /\ UNCHANGED <<held, marks, static>>
      BY <1>3 DEF Detached, GoesTo, BoardsTypeOK, Configured
    <3> QED
      BY <3>1 DEF View, State, FlowGoto
  <2>3. View(b)' \in FlowNext(driver[b], Shared, l)
    BY <1>1, <2>1, <2>2 DEF FlowNext
  <2> QED
    BY <1>3, <2>3 DEF Moves, Detached, GoesTo, Configured, BoardsTypeOK
<1> QED
  BY <1>2, <1>3

LEMMA AttachMoves ==
  ASSUME BoardsTypeOK, Unused, NEW b \in Configured, Attaching(b),
         View(b)' \in AttachNext(Shared, View(b), Current(b))
  PROVE  View(b)' \in FlowNext(driver[b], Shared, View(b))
<1>1. /\ View(b).stage = "attach" /\ View(b).step <= Len(FlowSteps(driver[b], View(b)))
      /\ Current(b) = Tables[driver[b]].attach[View(b).step]
  BY Seen
<1> QED
  BY <1>1 DEF FlowNext

LEMMA AttachStepMoves ==
  ASSUME BoardsTypeOK, Unused, NEW b \in Configured, AttachStep(b) PROVE Moves(b)
<1> DEFINE l == View(b)
           s == Current(b)
<1>0. b \in Boards /\ Attaching(b)
  BY DEF Configured, AttachStep, Tried
<1>1. View(b)' = FlowDone(l, s)
  <2>1. /\ stage'[b] = stage[b] /\ step'[b] = step[b] + 1
        /\ held'[b] = (held[b] \cup s.get) \ s.drop
        /\ marks'[b] = marks[b] \cup (s.mark \ StaticFields)
        /\ static' = static \cup (s.mark \cap StaticFields)
    BY <1>0 DEF AttachStep, SetFields, Advance, BoardsTypeOK
  <2> HIDE DEF s
  <2> QED
    BY <2>1 DEF View, State, FlowDone
<1>2. s.when \subseteq FlowFields(l) /\ ~FlowFaults(l, s) /\ ~FlowRefused(l, s)
  BY Seen, RefusedSeen DEF AttachStep, Tried
<1>3. View(b)' \in AttachNext(Shared, l, s)
  BY <1>1, <1>2 DEF AttachNext
<1>4. View(b)' \in FlowNext(driver[b], Shared, l)
  BY <1>0, <1>3, AttachMoves
<1> QED
  BY <1>4 DEF Moves, AttachStep, SetFields, Advance, Configured, BoardsTypeOK

LEMMA AttachSkipsMoves ==
  ASSUME BoardsTypeOK, Unused, NEW b \in Configured, AttachSkips(b) PROVE Moves(b)
<1> DEFINE l == View(b)
           s == Current(b)
<1>0. b \in Boards /\ Attaching(b)
  BY DEF Configured, AttachSkips
<1>1. View(b)' = FlowSkips(l)
  BY <1>0 DEF AttachSkips, Advance, View, State, FlowSkips, BoardsTypeOK
<1>2. ~(s.when \subseteq FlowFields(l)) \/ "skip" \in s.fail
  BY <1>0, Seen DEF AttachSkips, Tried
<1>3. View(b)' \in AttachNext(Shared, l, s)
  BY <1>1, <1>2 DEF AttachNext
<1>4. View(b)' \in FlowNext(driver[b], Shared, l)
  BY <1>0, <1>3, AttachMoves
<1> QED
  BY <1>4 DEF Moves, AttachSkips, Advance, Configured, BoardsTypeOK

LEMMA AttachFailsMoves ==
  ASSUME BoardsTypeOK, Unused, Followed, Robbed = {}, NEW b \in Configured, AttachFails(b)
  PROVE  Moves(b)
<1> DEFINE l == View(b)
           s == Current(b)
           d == driver[b]
<1>0. b \in Boards /\ Attaching(b) /\ s.when \subseteq FlowFields(l)
  BY Seen DEF Configured, AttachFails, Tried
<1>1. Careful(d, Shared, l)
  BY AllOrNone, FlowFacts DEF Followed
<1>2. Shared => Considerate(l, s.undo)
  BY <1>0, <1>1, Seen DEF Careful, AttachIsCareful
<1>3. ReleaseFrom(b, s.undo)
  BY DEF AttachFails
<1>4. held'[b] = held[b] \ s.undo /\ \A c \in Configured \ {b} : held'[c] = held[c]
  BY <1>2, <1>3, OthersKeep
<1>5. View(b)' = FlowFails(l, s)
  <2>1. /\ stage'[b] = "failed" /\ step'[b] = 1
        /\ marks'[b] = marks[b] \cup s.leaves /\ static' = static \ s.undo
    BY <1>0 DEF AttachFails, GoesTo, BoardsTypeOK
  <2> HIDE DEF s
  <2> QED
    BY <1>4, <2>1 DEF View, State, FlowFails
<1>6. ~FlowFaults(l, s) /\ ("error" \in s.fail \/ FlowMayRefuse(Shared, l, s))
      /\ "isapnp_cfg" \notin s.get
  BY Seen, RefusedSeen DEF AttachFails
<1>7. View(b)' \in AttachNext(Shared, l, s)
  BY <1>0, <1>5, <1>6 DEF AttachNext
<1>8. View(b)' \in FlowNext(d, Shared, l)
  BY <1>0, <1>7, AttachMoves
<1> QED
  BY <1>4, <1>8 DEF Moves, AttachFails, GoesTo, Configured, BoardsTypeOK

LEMMA DetachStepMoves ==
  ASSUME BoardsTypeOK, Unused, Followed, Robbed = {}, NEW b \in Configured, DetachStep(b)
  PROVE  Moves(b)
<1> DEFINE l == View(b)
           s == Current(b)
           d == driver[b]
<1>0. b \in Boards /\ Detaching(b)
  BY DEF Configured, DetachStep
<1>1. Careful(d, Shared, l)
  BY AllOrNone, FlowFacts DEF Followed
<1>2. /\ l.stage \in {"failed", "detach"} /\ l.step <= Len(FlowSteps(d, l))
      /\ s = Tables[d].detach[l.step] /\ FlowFields(l) = Fields(b)
      /\ Faults(b) <=> FlowFaults(l, s)
  BY <1>0, Seen
<1>3. CASE s.if \subseteq Fields(b)
  <2>1. Shared => Considerate(l, s.free)
    BY <1>1, <1>2, <1>3 DEF Careful, DetachIsCareful
  <2>2. /\ ReleaseFrom(b, s.free) /\ marks' = [marks EXCEPT ![b] = FieldsAfter(b, s)]
        /\ static' = static \ s.clear
    BY <1>3 DEF DetachStep
  <2>3. held'[b] = held[b] \ s.free /\ \A c \in Configured \ {b} : held'[c] = held[c]
    BY <2>1, <2>2, OthersKeep
  <2>4. View(b)' = FlowReleases(l, s)
    <3>1. /\ stage'[b] = stage[b] /\ step'[b] = step[b] + 1
          /\ marks'[b] = FieldsAfter(b, s)
      BY <1>0, <2>2 DEF DetachStep, Advance, BoardsTypeOK
    <3> HIDE DEF s
    <3> QED
      BY <2>2, <2>3, <3>1 DEF View, State, FlowReleases, FieldsAfter
  <2>5. View(b)' \in DetachNext(l, s)
    BY <1>2, <1>3, <2>4 DEF DetachNext, DetachStep
  <2>6. View(b)' \in FlowNext(d, Shared, l)
    BY <1>2, <2>5 DEF FlowNext
  <2> QED
    BY <2>2, <2>3, <2>6 DEF Moves, DetachStep, Advance, Configured, BoardsTypeOK
<1>4. CASE ~(s.if \subseteq Fields(b))
  <2>1. UNCHANGED <<held, marks, static>>
    BY <1>4 DEF DetachStep
  <2>2. View(b)' = FlowSkips(l)
    BY <1>0, <2>1 DEF DetachStep, Advance, View, State, FlowSkips, BoardsTypeOK
  <2>3. View(b)' \in FlowNext(d, Shared, l)
    BY <1>2, <1>4, <2>2 DEF FlowNext, DetachNext
  <2> QED
    BY <2>1, <2>3 DEF Moves, DetachStep, Advance, Configured, BoardsTypeOK
<1> QED
  BY <1>3, <1>4

-----------------------------------------------------------------------------
LEMMA BoardsInitInv == BoardsInit => FlowInv
<1> SUFFICES ASSUME BoardsInit PROVE FlowInv
  OBVIOUS
<1>1. BoardsTypeOK
  BY BoardsInitType
<1>2. Unused
  BY DEF BoardsInit, Unused
<1>3. ASSUME Robbed = {}, NEW b \in Configured PROVE View(b) \in FlowOf(driver[b], Shared)
  <2>1. View(b) = AtStart
    BY DEF BoardsInit, View, AtStart, Configured
  <2> QED
    BY <1>1, <1>3, <2>1, AllOrNone, FlowFacts
<1> QED
  BY <1>1, <1>2, <1>3 DEF FlowInv, Followed

LEMMA BoardsNextInv == FlowInv /\ [BoardsNext]_boards_vars => FlowInv'
<1> SUFFICES ASSUME BoardsTypeOK, Unused, Followed, [BoardsNext]_boards_vars PROVE Followed'
  BY BoardsNextType DEF FlowInv
<1>1. CASE UNCHANGED boards_vars
  <2>1. /\ Configured' = Configured /\ Robbed' = Robbed /\ Shared' = Shared
        /\ UNCHANGED driver /\ \A b \in Configured : View(b)' = View(b)
    BY <1>1 DEF boards_vars, Configured, Robbed, Shared, View, State
  <2> QED
    BY <2>1 DEF Followed
<1>2. ASSUME NEW b \in Boards,
             Online(b) \/ AttachStep(b) \/ AttachSkips(b) \/ AttachFails(b) \/ GoesOnline(b)
             \/ ThreadFails(b) \/ Offline(b) \/ DetachStep(b) \/ Detached(b)
      PROVE  Followed'
  <2>1. b \in Configured
    BY <1>2 DEF Unused, Configured, Online, AttachStep, AttachSkips, AttachFails, GoesOnline,
                ThreadFails, Offline, DetachStep, Detached, Tried, Attaching, Detaching
  <2>2. CASE Robbed # {}
    <3>1. UNCHANGED driver
      BY <1>2 DEF Online, AttachStep, AttachSkips, AttachFails, GoesOnline,
                  ThreadFails, Offline, DetachStep, Detached
    <3> QED
      BY <2>2, <3>1 DEF Followed, Robbed, Configured
  <2>3. CASE Robbed = {}
    <3>1. Moves(b)
      BY <1>2, <2>1, <2>3, OnlineMoves, OfflineMoves, EndMoves, AttachStepMoves,
         AttachSkipsMoves, AttachFailsMoves, DetachStepMoves
    <3> QED
      BY <2>1, <3>1, MovesFollow
  <2> QED
    BY <2>2, <2>3
<1> QED
  BY <1>1, <1>2 DEF BoardsNext

\* However many boards a driver has and however their attaches, failures and
\* detaches interleave, each of them stays in the flow of the driver, unless
\* they are boards whose driver releases what belongs to another one.
THEOREM FollowsFlow == BoardsSpec => []FlowInv
BY BoardsInitInv, BoardsNextInv, PTL DEF BoardsSpec

LEMMA CarefulBoards ==
  ASSUME BoardsTypeOK, Followed, NEW b \in Configured \ Robbed
  PROVE  Careful(driver[b], Shared, View(b))
<1>1. Robbed = {}
  BY AllOrNone
<1> QED
  BY <1>1, AllOrNone, FlowFacts DEF Followed

\* A board that is offline holds nothing, at whichever step of attach it failed
\* and whatever other boards did meanwhile.
THEOREM NothingIsKept == BoardsSpec => []Released
<1>1. ASSUME BoardsTypeOK, Followed PROVE Released
  BY <1>1, CarefulBoards, Seen DEF Released, Careful
<1> QED
  BY <1>1, FollowsFlow, PTL DEF FlowInv

\* detach releases nothing that its board does not have.
THEOREM ReleasesAreOwn == BoardsSpec => []OwnReleases
<1>1. ASSUME BoardsTypeOK, Followed, NEW b \in Configured \ Robbed, driver[b] \notin Rash,
             Detaching(b), Current(b).if \subseteq Fields(b)
      PROVE  Current(b).free \ Harmless \subseteq held[b]
  BY <1>1, CarefulBoards, Seen DEF Careful, DetachIsCareful
<1>2. BoardsTypeOK /\ Followed => OwnReleases
  BY <1>1 DEF OwnReleases
<1> QED
  BY <1>2, FollowsFlow, PTL DEF FlowInv

\* attach, detach and the interrupt handler access only what the board has.
THEOREM AccessesAreSafe == BoardsSpec => []SafeAccess
<1>1. ASSUME BoardsTypeOK, Followed, NEW b \in Configured \ Robbed, driver[b] \notin Wild, Tried(b)
      PROVE  Current(b).need \subseteq held[b]
  BY <1>1, CarefulBoards, Seen DEF Careful, AttachIsCareful, Tried
<1>2. ASSUME BoardsTypeOK, Followed, NEW b \in Configured \ Robbed, driver[b] \notin Wild,
             Detaching(b), Current(b).if \subseteq Fields(b)
      PROVE  Current(b).need \subseteq held[b]
  BY <1>2, CarefulBoards, Seen DEF Careful, DetachIsCareful
<1>3. ASSUME BoardsTypeOK, Followed, NEW b \in Configured \ Robbed, driver[b] \notin Wild,
             held[b] \cap {"irq", "pseudo_irq"} # {}
      PROVE  Tables[driver[b]].handler \subseteq held[b]
  BY <1>3, CarefulBoards, Seen DEF Careful
<1>4. BoardsTypeOK /\ Followed => SafeAccess
  BY <1>1, <1>2, <1>3 DEF SafeAccess
<1> QED
  BY <1>4, FollowsFlow, PTL DEF FlowInv
=============================================================================
