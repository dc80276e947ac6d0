------------------------------- MODULE AsyncIo -------------------------------
(***************************************************************************)
(* Asynchronous I/O of the user library (async.c, ibstop.c, ibWait.c): the *)
(* threads of a program call ibrda, ibwait, ibstop and ibrd on their       *)
(* descriptors, and each asynchronous transfer runs in a thread of its     *)
(* own, which holds the board's user_mutex (module BoardLocks) from before *)
(* the launch returns until the transfer has ended or was cancelled.       *)
(*                                                                         *)
(* A critical section under async.lock never blocks inside, so that each   *)
(* is one step.  A descriptor is used by one thread of the program.        *)
(***************************************************************************)
EXTENDS Integers, FiniteSets

CONSTANTS
  Confs,        \* descriptors of the program (ibConf_t), all on one board,
                \* each with the thread that uses it
  Ids,          \* the threads of asynchronous transfers
  Nobody,       \* user_mutex is free; no thread
  FailedCreate, \* pthread_create may fail
  FailedLock    \* IBMUTEX may fail, interrupted or on a board taken offline

ASSUME ConfsAssumption == Confs # {} /\ Confs \cap Ids = {} /\ Nobody \notin Confs \cup Ids
ASSUME FailureAssumption == FailedCreate \in BOOLEAN /\ FailedLock \in BOOLEAN

VARIABLES
  pc,           \* where each descriptor's thread is
  in_progress,  \* async.in_progress
  thread,       \* async.thread
  ibsta,        \* async.ibsta: nothing recorded, CMPL, or CMPL with ERR
  io,           \* io_in_progress of the kernel's descriptor: CMPL is not set
  seen,         \* what the last ibwait or ibstop found in async.ibsta
  user,         \* owner of the board's user_mutex
  apc,          \* where each transfer's thread is
  conf,         \* the descriptor it works for
  flag,         \* condition_flag of its launch
  cancel,       \* pthread_cancel was called for it
  outcome,      \* history: how its transfer ended, as far as it was recorded
  joined        \* it has been joined

callers == <<pc, in_progress, thread, ibsta, seen>>
aio == <<apc, conf, flag, cancel, outcome, joined>>
vars == <<callers, io, user, aio>>

Labels == {"idle", "launching", "failed_launch", "want_user", "locked", "unlock",
           "waiting", "join", "report"}
AioLabels == {"none", "lock_board", "clear_cmpl", "signal", "address", "transfer", "unaddress",
              "record", "set_cmpl", "unlock", "exited"}
Status == {"none", "CMPL", "ERR"}

\* Every variable stays within its type, and only threads that were created are
\* joined or waited for.
TypeOK ==
  /\ \A c \in Confs : pc[c] \in {"launching", "join"} => thread[c] \in Ids
  /\ pc \in [Confs -> Labels] /\ in_progress \in [Confs -> BOOLEAN]
  /\ thread \in [Confs -> Ids \cup {Nobody}]
  /\ ibsta \in [Confs -> Status] /\ seen \in [Confs -> Status]
  /\ io \in [Confs -> BOOLEAN]
  /\ user \in Confs \cup Ids \cup {Nobody}
  /\ apc \in [Ids -> AioLabels] /\ conf \in [Ids -> Confs]
  /\ flag \in [Ids -> BOOLEAN] /\ cancel \in [Ids -> BOOLEAN]
  /\ outcome \in [Ids -> Status] /\ joined \in [Ids -> BOOLEAN]

Init ==
  /\ pc = [c \in Confs |-> "idle"] /\ in_progress = [c \in Confs |-> FALSE]
  /\ thread = [c \in Confs |-> Nobody]
  /\ ibsta = [c \in Confs |-> "none"] /\ seen = [c \in Confs |-> "none"]
  /\ io = [c \in Confs |-> FALSE] /\ user = Nobody
  /\ apc = [i \in Ids |-> "none"] /\ conf \in [Ids -> {CHOOSE c \in Confs : TRUE}]
  /\ flag = [i \in Ids |-> FALSE] /\ cancel = [i \in Ids |-> FALSE]
  /\ outcome = [i \in Ids |-> "none"] /\ joined = [i \in Ids |-> FALSE]

Goto(c, from, to) == pc[c] = from /\ pc' = [pc EXCEPT ![c] = to]
AioGoto(i, from, to) == apc[i] = from /\ apc' = [apc EXCEPT ![i] = to]

-----------------------------------------------------------------------------
(* Calls of the program.  Definitions named Mutant... are plausible bugs of   *)
(* the definition that follows, to show that a property would notice them.    *)

\* Mutant: a transfer in progress does not refuse another one.
MutantMayStart(c) == TRUE

\* EOIP: "asynchronous IO operation in progress".
MayStart(c) == ~in_progress[c]

\* ibrda, ibwrta, ibcmda (gpib_aio_launch): the results are reset and the thread
\* is created; the launch then waits for condition_flag.
Launch(c) ==
  /\ MayStart(c)
  /\ ibsta' = [ibsta EXCEPT ![c] = "none"]
  /\ \/ \E i \in Ids :
          /\ apc[i] = "none" /\ \A k \in Ids : apc[k] = "none" => i = CHOOSE j \in Ids : apc[j] = "none"
          /\ apc' = [apc EXCEPT ![i] = "lock_board"] /\ conf' = [conf EXCEPT ![i] = c]
          /\ thread' = [thread EXCEPT ![c] = i]
          /\ in_progress' = [in_progress EXCEPT ![c] = TRUE]
          /\ Goto(c, "idle", "launching")
     \/ /\ FailedCreate /\ Goto(c, "idle", "failed_launch")
        /\ in_progress' = [in_progress EXCEPT ![c] = FALSE]
        /\ UNCHANGED <<thread, apc, conf>>
  /\ UNCHANGED <<io, seen, user, flag, cancel, outcome, joined>>

\* The launch returns.  One whose thread could not be created waits for a flag
\* that nobody will set, and has no such step.
Launched(c) ==
  /\ Goto(c, "launching", "idle") /\ flag[thread[c]]
  /\ UNCHANGED <<in_progress, thread, ibsta, seen, io, user, aio>>

\* ibrd and the other synchronous calls (enter_library): refused with EOIP, or
\* the board is locked.
Synchronous(c) ==
  /\ MayStart(c) /\ Goto(c, "idle", "want_user")
  /\ UNCHANGED <<in_progress, thread, ibsta, seen, io, user, aio>>

LockBoard(c) ==
  /\ user = Nobody /\ Goto(c, "want_user", "locked") /\ user' = c
  /\ UNCHANGED <<in_progress, thread, ibsta, seen, io, aio>>

LockFails(c) ==
  /\ FailedLock /\ Goto(c, "want_user", "idle")
  /\ UNCHANGED <<in_progress, thread, ibsta, seen, io, user, aio>>

\* The synchronous transfer, and the release of the board (exit_library).
Transfer(c) ==
  /\ \/ ~io[c] /\ pc[c] = "locked" /\ io' = [io EXCEPT ![c] = TRUE] /\ UNCHANGED pc
     \/ io[c] /\ Goto(c, "locked", "unlock") /\ io' = [io EXCEPT ![c] = FALSE]
  /\ UNCHANGED <<in_progress, thread, ibsta, seen, user, aio>>

UnlockBoard(c) ==
  /\ Goto(c, "unlock", "idle") /\ user' = Nobody
  /\ UNCHANGED <<in_progress, thread, ibsta, seen, io, aio>>

\* ibwait on CMPL.
Wait(c) ==
  /\ Goto(c, "idle", "waiting")
  /\ UNCHANGED <<in_progress, thread, ibsta, seen, io, user, aio>>

\* Mutant: CMPL is taken for the end of the thread.
MutantAfterCmpl(c) == "report"

\* Mutant: ibwait joins without looking at in_progress.
MutantAfterCmplJoin(c) == "join"

\* CMPL says that the kernel's part is over; the thread is joined for the rest.
AfterCmpl(c) == IF in_progress[c] THEN "join" ELSE "report"

\* IBWAIT returns: with CMPL, or timed out, or with an error.
Waited(c) ==
  /\ \/ ~io[c] /\ Goto(c, "waiting", AfterCmpl(c))
     \/ Goto(c, "waiting", "idle")
  /\ UNCHANGED <<in_progress, thread, ibsta, seen, io, user, aio>>

\* gpib_aio_join, for ibwait and for ibstop, which then reset in_progress: only
\* this thread of the program reads it.
Join(c) ==
  /\ Goto(c, "join", "report") /\ apc[thread[c]] = "exited"
  /\ joined' = [joined EXCEPT ![thread[c]] = TRUE]
  /\ in_progress' = [in_progress EXCEPT ![c] = FALSE]
  /\ UNCHANGED <<thread, ibsta, seen, io, user, apc, conf, flag, cancel, outcome>>

\* ibwait and ibstop report what the transfer recorded.
Report(c) ==
  /\ Goto(c, "report", "idle")
  /\ seen' = [seen EXCEPT ![c] = ibsta[c]]
  /\ UNCHANGED <<in_progress, thread, ibsta, io, user, aio>>

\* ibstop (internal_ibstop; ibonl calls it too).  For a thread that has ended,
\* pthread_cancel may answer ESRCH (it depends on the C library): then nothing is
\* joined.
Stop(c) ==
  /\ \/ ~in_progress[c] /\ Goto(c, "idle", "report") /\ UNCHANGED cancel
     \/ /\ Goto(c, "idle", "report") /\ UNCHANGED cancel
        /\ in_progress[c] /\ apc[thread[c]] = "exited"
     \/ /\ in_progress[c] /\ Goto(c, "idle", "join")
        /\ cancel' = [cancel EXCEPT ![thread[c]] = TRUE]
  /\ UNCHANGED <<in_progress, thread, ibsta, seen, io, user, apc, conf, flag, outcome, joined>>

-----------------------------------------------------------------------------
\* do_aio, the thread of a transfer.

\* The board is locked first.
AioLockBoard(i) ==
  /\ user = Nobody /\ AioGoto(i, "lock_board", "clear_cmpl") /\ user' = i
  /\ UNCHANGED <<callers, io, conf, flag, cancel, outcome, joined>>

\* Mutant: a failure to lock the board does not wake the launch.
MutantAioLockFails(i) ==
  /\ FailedLock /\ AioGoto(i, "lock_board", "exited")
  /\ UNCHANGED <<callers, io, user, conf, flag, cancel, outcome, joined>>

\* When that fails the launch is woken all the same and the thread ends, with
\* nothing recorded.
AioLockFails(i) ==
  /\ FailedLock /\ AioGoto(i, "lock_board", "exited")
  /\ flag' = [flag EXCEPT ![i] = TRUE]
  /\ UNCHANGED <<callers, io, user, conf, cancel, outcome, joined>>

ClearCmpl(i) ==
  /\ AioGoto(i, "clear_cmpl", "signal")
  /\ io' = [io EXCEPT ![conf[i]] = TRUE]
  /\ UNCHANGED <<callers, user, conf, flag, cancel, outcome, joined>>

\* The launch is woken, and the thread can be cancelled from here on.
SignalLaunch(i) ==
  /\ AioGoto(i, "signal", "address")
  /\ flag' = [flag EXCEPT ![i] = TRUE]
  /\ UNCHANGED <<callers, io, user, conf, cancel, outcome, joined>>

\* The commands that address the device leave CMPL clear, unless they fail.
Address(i) ==
  /\ \/ AioGoto(i, "address", "transfer") /\ io' = [io EXCEPT ![conf[i]] = TRUE]
     \/ AioGoto(i, "address", "record") /\ io' = [io EXCEPT ![conf[i]] = FALSE]
  /\ UNCHANGED <<callers, user, conf, flag, cancel, outcome, joined>>

\* IBRD or IBWRT (one of them) ends, and sets CMPL; the commands that follow clear it.
AioTransfer(i) ==
  /\ AioGoto(i, "transfer", "unaddress") /\ io' = [io EXCEPT ![conf[i]] = FALSE]
  /\ UNCHANGED <<callers, user, conf, flag, cancel, outcome, joined>>

Unaddress(i) ==
  /\ AioGoto(i, "unaddress", "record")
  /\ \/ io' = [io EXCEPT ![conf[i]] = TRUE]
     \/ UNCHANGED io
  /\ UNCHANGED <<callers, user, conf, flag, cancel, outcome, joined>>

\* Cancellation is asynchronous: it strikes anywhere in the transfer, whose
\* ioctl returns and sets CMPL.  cleanup_aio follows.
Cancelled(i) ==
  /\ cancel[i]
  /\ \/ \E l \in {"address", "unaddress", "record"} : AioGoto(i, l, "set_cmpl") /\ UNCHANGED io
     \/ AioGoto(i, "transfer", "set_cmpl") /\ io' = [io EXCEPT ![conf[i]] = FALSE]
  /\ UNCHANGED <<callers, user, conf, flag, cancel, outcome, joined>>

\* The result is recorded, with cancellation disabled.
Record(i) ==
  /\ AioGoto(i, "record", "set_cmpl")
  /\ \E r \in {"CMPL", "ERR"} :
       /\ ibsta' = [ibsta EXCEPT ![conf[i]] = r]
       /\ outcome' = [outcome EXCEPT ![i] = r]
  /\ UNCHANGED <<pc, in_progress, thread, seen, io, user, conf, flag, cancel, joined>>

\* cleanup_aio sets CMPL and unlocks the board.
SetCmpl(i) ==
  /\ AioGoto(i, "set_cmpl", "unlock")
  /\ io' = [io EXCEPT ![conf[i]] = FALSE]
  /\ UNCHANGED <<callers, user, conf, flag, cancel, outcome, joined>>

AioUnlock(i) ==
  /\ AioGoto(i, "unlock", "exited") /\ user' = Nobody
  /\ UNCHANGED <<callers, io, conf, flag, cancel, outcome, joined>>

-----------------------------------------------------------------------------
Call(c) == Launch(c) \/ Synchronous(c) \/ Wait(c) \/ Stop(c)

Proceed(c) ==
  \/ Launched(c) \/ Transfer(c) \/ UnlockBoard(c) \/ Waited(c) \/ Join(c) \/ Report(c)

AioProceed(i) ==
  \/ ClearCmpl(i) \/ SignalLaunch(i) \/ Address(i) \/ AioTransfer(i) \/ Unaddress(i)
  \/ Record(i) \/ SetCmpl(i) \/ AioUnlock(i)

Next ==
  \/ \E c \in Confs : Call(c) \/ LockBoard(c) \/ LockFails(c) \/ Proceed(c)
  \/ \E i \in Ids : AioLockBoard(i) \/ AioLockFails(i) \/ Cancelled(i) \/ AioProceed(i)

Spec == Init /\ [][Next]_vars

\* Threads run, transfers end (they have a timeout), and user_mutex is handed to
\* those who wait for it (it wakes its waiters in order).  That a lock fails, or
\* that a cancellation strikes in time, is not relied upon.
FairSpec ==
  /\ Spec
  /\ \A c \in Confs : WF_vars(Proceed(c)) /\ SF_vars(LockBoard(c))
  /\ \A i \in Ids : WF_vars(AioProceed(i)) /\ SF_vars(AioLockBoard(i))

-----------------------------------------------------------------------------
Running(i) == apc[i] \notin {"none", "exited"}

\* A descriptor has one transfer at a time: no synchronous call runs into its
\* asynchronous transfer, async.thread names the thread of that, and none is
\* left behind unjoined when another is launched.
OneTransfer ==
  \A i \in Ids :
    /\ Running(i) => pc[conf[i]] \notin {"want_user", "locked", "unlock"}
    /\ apc[i] # "none" /\ ~joined[i] => thread[conf[i]] = i /\ in_progress[conf[i]]

\* ibwait on CMPL and ibstop report the result of the transfer that they waited
\* for, although the kernel sets CMPL before the thread has recorded it.
ReportsOutcome ==
  [][\A c \in Confs :
       pc[c] = "report" /\ pc'[c] = "idle" /\ thread[c] # Nobody
         => ~Running(thread[c]) /\ seen'[c] = outcome[thread[c]]]_vars

\* Every call returns, but for a launch whose thread could not be created:
\* nobody is left waiting for the board, for a flag, or for a cancelled thread.
Returns ==
  \A c \in Confs : pc[c] \notin {"idle", "failed_launch"} ~> pc[c] = "idle"
=============================================================================
