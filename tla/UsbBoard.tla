------------------------------ MODULE UsbBoard ------------------------------
(***************************************************************************)
(* A USB board: its driver's functions, run by two tasks and by the USB    *)
(* core, interleaved step by step, with an adapter that may be unplugged,  *)
(* suspended, slow or mute.                                                *)
(*                                                                         *)
(* "owner" is the task that has locked the board (IBMUTEX): it transfers   *)
(* without big_gpib_mutex, which IBRD, IBWRT and IBCMD release, and        *)
(* changes settings with it.  "other" does what ibioctl lets any task do,  *)
(* and takes the board online and offline, with big_gpib_mutex, which does *)
(* not keep it from a board that is in use.  "hub" is the USB core.        *)
(*                                                                         *)
(* What has used memory that is gone goes on as if it were there: the      *)
(* states in which that happens are those that UsedWhileThere is about.    *)
(***************************************************************************)
EXTENDS UsbDrivers, FiniteSets, SequencesExt

CONSTANTS
  Programs,    \* the functions of each driver: those of UsbDrivers
  Drivers,     \* names of drivers
  MaxAnswers,  \* bound on the messages that the adapter has for the host
  MaxTasks,    \* bound on the tasks that are in operations at once
  Crossing,    \* operations known to mix up answers under way,
  Forgetful,   \* and drivers known to leave an answer behind after an error
  Leaky,       \* what operations of a driver are known not to give back,
  Littering,   \* and what an offline board of a driver is known to keep
  Careless,    \* operations known not to keep detach out,
  Unguarded,   \* nor disconnect out of their transfers,
  Hasty        \* nor when they look which device the adapter is

ASSUME UsbAssumption ==
  /\ Drivers \subseteq DOMAIN Programs
  /\ MaxAnswers \in Nat \ {0} /\ MaxTasks \in Nat \ {0}

VARIABLES
  driver,
  run,      \* the operation that a task is in, or "none"
  at,       \* its step; 0 when it has failed
  held,     \* the locks, the memory and the urb that a task has
  owned,    \* what the board has
  answers,  \* messages for the host: to whose message, or "late" if it has met an error
  got,      \* whose message is answered by what a task has just received
  online,   \* "off", "on"; "failed" while ibonline detaches a board again
  plugged,  \* the USB core has bound the adapter to the driver
  power     \* "up", "down"

vars == <<driver, run, at, held, owned, answers, got, online, plugged, power>>

Tasks == {"owner", "other", "hub"}
Program(t) == Programs[driver][run[t]]
Idle(t) == run[t] = "none"
\* The step that t takes next, if there is one.
Now(t) ==
  IF Idle(t) THEN {}
  ELSE Apply(LAMBDA p : {p[i] : i \in {at[t]} \cap DOMAIN p}, Program(t))
Finished(t) == ~Idle(t) /\ Now(t) = {}
Succeeded(t) == at[t] # 0

\* One of the operations with the same program stands for all of them.
Distinct(d, ops) ==
  Apply(LAMBDA ps : {op \in ops : op = CHOOSE p \in ops : ps[p] = ps[op]}, Programs[d])
\* What IBRD, IBWRT and IBCMD call, one after another, without big_gpib_mutex.
Unlocked ==
  {"read", "write", "command", "take_control", "go_to_standby", "update_status", "line_status"}
\* With it, and IBMUTEX.
Settings ==
  { "request_system_control", "interface_clear", "remote_enable", "parallel_poll",
    "parallel_poll_configure", "parallel_poll_response", "serial_poll_response", "t1_delay" }
\* With it, by any task.
Open == {"primary_address", "secondary_address", "update_status", "line_status",
         "return_to_local"}
BigMutexFree == Idle("other") /\ run["owner"] \notin Settings

\* User tasks are frozen.
Frozen == power = "down" \/ run["hub"] \in {"suspend", "resume"}

Init ==
  /\ driver \in Drivers
  /\ run = [t \in Tasks |-> "none"]
  /\ at = [t \in Tasks |-> 0]
  /\ held = [t \in Tasks |-> {}]
  /\ owned = {}
  /\ answers = <<>>
  /\ got = [t \in Tasks |-> "nothing"]
  /\ online = "off"
  /\ plugged = FALSE
  /\ power = "up"

-----------------------------------------------------------------------------
(* Operations begin *)

Starts(t, op) ==
  /\ Idle(t) /\ Cardinality({u \in Tasks : ~Idle(u)}) < MaxTasks
  /\ run' = [run EXCEPT ![t] = op]
  /\ at' = [at EXCEPT ![t] = 1]
  /\ UNCHANGED <<driver, held, owned, answers, got, power>>

\* ibioctl waits for big_gpib_mutex first, whatever it is asked for.
\* A mistake: it does not wait.
MutantOwnerStarts ==
  /\ online = "on" /\ ~Frozen
  /\ \E op \in Distinct(driver, Unlocked \cup Settings) : Starts("owner", op)
  /\ UNCHANGED <<online, plugged>>
OwnerStarts ==
  /\ online = "on" /\ ~Frozen /\ BigMutexFree
  /\ \E op \in Distinct(driver, Unlocked \cup Settings) : Starts("owner", op)
  /\ UNCHANGED <<online, plugged>>
OtherStarts ==
  /\ online = "on" /\ ~Frozen /\ BigMutexFree
  /\ \E op \in Distinct(driver, Open) : Starts("other", op)
  /\ UNCHANGED <<online, plugged>>

\* ibonline and iboffline, which does not ask whether the board is in use.  A bound:
\* what is left running then is over before the board goes online again.
GoesOnline ==
  /\ online = "off" /\ ~Frozen /\ BigMutexFree /\ Idle("owner")
  /\ Starts("other", "attach")
  /\ UNCHANGED <<online, plugged>>
GoesOffline ==
  /\ online = "on" /\ ~Frozen /\ BigMutexFree
  /\ Starts("other", "detach")
  /\ UNCHANGED <<online, plugged>>

Plugs == ~plugged /\ power = "up" /\ Starts("hub", "probe") /\ UNCHANGED <<online, plugged>>
Unplugs ==
  /\ plugged /\ power = "up"
  /\ Starts("hub", "disconnect")
  /\ plugged' = FALSE
  /\ UNCHANGED online
Suspends ==
  /\ plugged /\ power = "up" /\ Idle("owner") /\ Idle("other")
  /\ Starts("hub", "suspend")
  /\ UNCHANGED <<online, plugged>>
Resumes ==
  /\ power = "down"
  /\ Starts("hub", "resume")
  /\ UNCHANGED <<online, plugged>>

-----------------------------------------------------------------------------
(* Steps *)

Blocked(s) == \E t \in Tasks : s.waits \cap held[t] # {}
Refused(t, s) ==
  \/ \E u \in Tasks \ {t} : s.tests \cap held[u] # {}
  \/ ~(s.needs \subseteq owned)
  \/ s.absent \cap owned # {}
  \/ s.data = "received" /\ answers = <<>>
  \/ s.data = "matched" /\ got[t] # "own"

\* Nobody waits any more for the answer of an operation that has met an error, or
\* has taken another message for it, or is over; who receives next receives it.
Abandon(t, as) == [i \in DOMAIN as |-> IF as[i] = t THEN "late" ELSE as[i]]
Answered(t) == IF Len(answers) < MaxAnswers THEN Append(answers, t) ELSE answers
\* What t has received is the answer to: its own message, a late one, or the
\* message of another's operation.
Origin(t) ==
  CASE Head(answers) = t -> "own"
    [] Head(answers) \in Tasks \ {t} -> run[Head(answers)]
    [] OTHER -> "late"

Does(t) ==
  /\ \E s \in Now(t) :
       /\ ~Blocked(s) /\ ~Refused(t, s)
       /\ held' = [held EXCEPT ![t] = (@ \cup s.takes) \ s.frees]
       /\ owned' = (owned \cup s.keeps) \ s.drops
       /\ answers' = CASE s.data = "sent" -> Answered(t)
                       [] s.data = "received" ->
                             IF Head(answers) = t THEN Tail(answers) ELSE Abandon(t, Tail(answers))
                       [] s.data = "drained" -> <<>>
                       [] OTHER -> answers
       /\ got' = [got EXCEPT ![t] = IF s.data = "received" THEN Origin(t) ELSE "nothing"]
  /\ at' = [at EXCEPT ![t] = @ + 1]
  /\ UNCHANGED <<driver, run, online, plugged, power>>

\* A mistake: an error gives back nothing.
MutantFailsKeeping(t) ==
  /\ \E s \in Now(t) :
       /\ Blocked(s) => s.intr
       /\ s.may \/ Refused(t, s)
       /\ at' = [at EXCEPT ![t] = IF s.skip = 0 \/ @ + s.skip < 1 THEN 0 ELSE @ + s.skip]
       /\ \E as \in {answers, IF s.data = "sent" THEN Answered(t) ELSE answers} :
            answers' = IF s.error THEN Abandon(t, as) ELSE as
  /\ got' = [got EXCEPT ![t] = "nothing"]
  /\ UNCHANGED <<driver, run, held, owned, online, plugged, power>>
\* A mistake: an error unlocks what the caller goes on to use.
MutantFailsUnlocking(t) ==
  /\ \E s \in Now(t) :
       /\ Blocked(s) => s.intr
       /\ s.may \/ Refused(t, s)
       /\ at' = [at EXCEPT ![t] = IF s.skip = 0 \/ @ + s.skip < 1 THEN 0 ELSE @ + s.skip]
       /\ \E as \in {answers, IF s.data = "sent" THEN Answered(t) ELSE answers} :
            answers' = IF s.error THEN Abandon(t, as) ELSE as
  /\ held' = [held EXCEPT ![t] = {}]
  /\ got' = [got EXCEPT ![t] = "nothing"]
  /\ UNCHANGED <<driver, run, owned, online, plugged, power>>
\* What could not be sent in time may have reached the adapter.
Fails(t) ==
  /\ \E s \in Now(t) :
       /\ Blocked(s) => s.intr
       /\ s.may \/ Refused(t, s)
       /\ held' = [held EXCEPT ![t] = @ \ s.undo]
       /\ at' = [at EXCEPT ![t] = IF s.skip = 0 \/ @ + s.skip < 1 THEN 0 ELSE @ + s.skip]
       /\ \E as \in {answers, IF s.data = "sent" THEN Answered(t) ELSE answers} :
            answers' = IF s.error THEN Abandon(t, as) ELSE as
  /\ got' = [got EXCEPT ![t] = "nothing"]
  /\ UNCHANGED <<driver, run, owned, online, plugged, power>>

\* ibonline detaches a board that did not attach, or whose autospoll thread it
\* cannot create.  An ioctl that transfers goes on with another function.
Follow(d, t, op, i) ==
  IF op = "attach" THEN IF i = 0 THEN {"detach"} ELSE {"none", "detach"}
  ELSE IF t = "owner" /\ op \in Unlocked THEN {"none"} \cup Distinct(d, Unlocked)
  ELSE {"none"}

\* A mistake: a board that did not attach is not detached.
MutantReturns(t) ==
  /\ Finished(t)
  /\ run' = [run EXCEPT ![t] = "none"]
  /\ at' = [at EXCEPT ![t] = 0]
  /\ online' = CASE run[t] = "attach" -> (IF Succeeded(t) THEN "on" ELSE "off")
                 [] run[t] = "detach" -> "off"
                 [] OTHER -> online
  /\ plugged' = (plugged \/ (run[t] = "probe" /\ Succeeded(t)))
  /\ power' = CASE run[t] = "suspend" /\ Succeeded(t) -> "down"
                [] run[t] = "resume" -> "up"
                [] OTHER -> power
  /\ answers' = IF run[t] = "disconnect" THEN <<>> ELSE Abandon(t, answers)
  /\ got' = [got EXCEPT ![t] = "nothing"]
  /\ held' = [held EXCEPT ![t] = {}]
  /\ owned' = IF run[t] = "disconnect" THEN owned \ {"intfdata"} ELSE owned
  /\ UNCHANGED driver
\* When disconnect returns, the USB core clears the interface's driver data.
Returns(t) ==
  /\ Finished(t)
  /\ \E next \in Follow(driver, t, run[t], at[t]) :
       /\ run' = [run EXCEPT ![t] = next]
       /\ at' = [at EXCEPT ![t] = IF next = "none" THEN 0 ELSE 1]
       /\ online' = CASE run[t] = "attach" -> (IF next = "detach" THEN "failed" ELSE "on")
                      [] run[t] = "detach" -> "off"
                      [] OTHER -> online
  /\ plugged' = (plugged \/ (run[t] = "probe" /\ Succeeded(t)))
  /\ power' = CASE run[t] = "suspend" /\ Succeeded(t) -> "down"
                [] run[t] = "resume" -> "up"
                [] OTHER -> power
  /\ answers' = IF run[t] = "disconnect" THEN <<>> ELSE Abandon(t, answers)
  /\ got' = [got EXCEPT ![t] = "nothing"]
  /\ held' = [held EXCEPT ![t] = {}]
  /\ owned' = IF run[t] = "disconnect" THEN owned \ {"intfdata"} ELSE owned
  /\ UNCHANGED driver

\* It wakes nobody.
TimerFires ==
  /\ "timer" \in owned
  /\ owned' = owned \ {"timer"}
  /\ UNCHANGED <<driver, run, at, held, answers, got, online, plugged, power>>

Next ==
  \/ OwnerStarts \/ OtherStarts \/ GoesOnline \/ GoesOffline
  \/ Plugs \/ Unplugs \/ Suspends \/ Resumes \/ TimerFires
  \/ \E t \in Tasks : Does(t) \/ Fails(t) \/ Returns(t)

Spec == Init /\ [][Next]_vars

-----------------------------------------------------------------------------
(* Properties *)

Known(exceptions) == {r \in {e[2] : e \in exceptions} : <<driver, r>> \in exceptions}

\* A task takes for its own only the answer to its own message, and not that of
\* another operation, under way or not: the locks of the drivers keep a message
\* and its answer together, whatever fails.  An operation that has met no error
\* leaves no answer.  The answer to the message of one that has met an error
\* stays in the adapter, and only a driver that compares it with its message
\* knows it: the others, the Forgetful ones, give it to who receives next.
Compares(t) == at[t] \in DOMAIN Program(t) /\ Program(t)[at[t]].data = "matched"
Rightful(t) ==
  \/ got[t] \in {"nothing", "own"}
  \/ got[t] = "late" /\ (driver \in Forgetful \/ Compares(t))
  \/ <<driver, run[t]>> \in Crossing \/ <<driver, got[t]>> \in Crossing
NotCrossed ==
  \A t \in Tasks :
    /\ Rightful(t)
    /\ Finished(t) => <<driver, run[t]>> \in Crossing \/ \A i \in DOMAIN answers : answers[i] # t

\* An operation that is over has given back each lock, urb and buffer, and what
\* one is using, the urb above all, no other submits meanwhile.
NothingKept ==
  /\ \A t \in Tasks : Finished(t) => held[t] \subseteq Known(Leaky)
  /\ \A t, u \in Tasks : t # u => held[t] \cap held[u] \cap {"urb", "hotplug"} = {}

\* A board that is offline can be attached again, and leaves no urb with the
\* adapter and no memory.
Released ==
  online = "off" /\ Idle("other") =>
    owned \subseteq Known(Littering) \cup AdapterData[driver]
                \cup (IF plugged THEN {} ELSE {"intfdata"})

\* The private data of the board, and the locks in it, are used while they are
\* there: by functions, but for those that run without big_gpib_mutex, which
\* detach does not wait for, and by a timer that has been left armed.  A transfer
\* is given to an adapter that the driver has not yet been told is gone, where
\* disconnect waits for the locks.  The pointer to the interface is not followed
\* when disconnect has cleared it: not by the completion handler of the interrupt
\* urb, and not by functions that are called with the hotplug lock.
UsedWhileThere ==
  /\ "listening" \in owned => {"private", "interface"} \subseteq owned
  /\ "timer" \in owned => "private" \in owned \/ "timer" \in Known(Littering)
  /\ \A t \in Tasks :
     \A s \in Now(t) :
       /\ "private" \in s.uses \/ s.waits \cap PrivateLocks[driver] # {}
          => "private" \in owned \/ <<driver, run[t]>> \in Careless
       /\ "interface" \in s.uses => "interface" \in owned \/ <<driver, run[t]>> \in Unguarded
       /\ "device" \in s.uses => "interface" \in owned \/ <<driver, run[t]>> \in Hasty
=============================================================================
