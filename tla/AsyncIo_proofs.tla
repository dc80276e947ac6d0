--------------------------- MODULE AsyncIo_proofs ---------------------------
(***************************************************************************)
(* Proofs about AsyncIo, for any number of descriptors and of transfers.   *)
(***************************************************************************)
EXTENDS AsyncIo, TLAPS

Flags ==
  /\ in_progress \in [Confs -> BOOLEAN] /\ io \in [Confs -> BOOLEAN]
  /\ flag \in [Ids -> BOOLEAN] /\ cancel \in [Ids -> BOOLEAN] /\ joined \in [Ids -> BOOLEAN]

Places ==
  /\ pc \in [Confs -> Labels] /\ apc \in [Ids -> AioLabels]
  /\ thread \in [Confs -> Ids \cup {Nobody}] /\ conf \in [Ids -> Confs]
  /\ user \in Confs \cup Ids \cup {Nobody}

Results ==
  ibsta \in [Confs -> Status] /\ seen \in [Confs -> Status] /\ outcome \in [Ids -> Status]

Typed == Flags /\ Places /\ Results

\* async.thread and in_progress of a descriptor: the thread it names was launched
\* for it, and until it is joined the descriptor makes no synchronous call.
ConfOk(c) ==
  /\ thread[c] \in Ids => conf[thread[c]] = c /\ apc[thread[c]] # "none"
  /\ in_progress[c] => thread[c] \in Ids
  /\ pc[c] \in {"launching", "join"} => in_progress[c]
  /\ pc[c] \in {"want_user", "locked", "unlock"} => ~in_progress[c]

\* A thread that was launched and not joined is the one its descriptor names.
AioOk(i) ==
  /\ joined[i] => apc[i] = "exited"
  /\ apc[i] # "none" /\ ~joined[i] => thread[conf[i]] = i /\ in_progress[conf[i]]
  /\ apc[i] = "none" => outcome[i] = "none"

OneInv == (\A c \in Confs : ConfOk(c)) /\ (\A i \in Ids : AioOk(i))

\* What ibsta holds is what the named thread recorded, unless a launch failed
\* after it; and a descriptor about to report has waited for the thread.
ReportOk(c) ==
  thread[c] \in Ids => /\ pc[c] # "failed_launch" => ibsta[c] = outcome[thread[c]]
                       /\ pc[c] = "report" => ~Running(thread[c])

ReportInv == \A c \in Confs : ReportOk(c)

AsyncInv == Typed /\ OneInv /\ ReportInv

-----------------------------------------------------------------------------
\* Every step preserves the types, in three parts.
LEMMA FlagsStep ==
  ASSUME Flags, Places, Next
  PROVE  Flags'
<1>1. ASSUME NEW c \in Confs, Launch(c) PROVE Flags'
  BY <1>1 DEF Launch, MayStart, Goto, callers, aio, Flags, Places
<1>2. ASSUME NEW c \in Confs, Launched(c) PROVE Flags'
  BY <1>2 DEF Launched, Goto, callers, aio, Flags, Places
<1>3. ASSUME NEW c \in Confs, Synchronous(c) PROVE Flags'
  BY <1>3 DEF Synchronous, MayStart, Goto, callers, aio, Flags, Places
<1>4. ASSUME NEW c \in Confs, LockBoard(c) PROVE Flags'
  BY <1>4 DEF LockBoard, Goto, callers, aio, Flags, Places
<1>5. ASSUME NEW c \in Confs, LockFails(c) PROVE Flags'
  BY <1>5 DEF LockFails, Goto, callers, aio, Flags, Places
<1>6. ASSUME NEW c \in Confs, Transfer(c) PROVE Flags'
  BY <1>6 DEF Transfer, Goto, callers, aio, Flags, Places
<1>7. ASSUME NEW c \in Confs, UnlockBoard(c) PROVE Flags'
  BY <1>7 DEF UnlockBoard, Goto, callers, aio, Flags, Places
<1>8. ASSUME NEW c \in Confs, Wait(c) PROVE Flags'
  BY <1>8 DEF Wait, Goto, callers, aio, Flags, Places
<1>9. ASSUME NEW c \in Confs, Waited(c) PROVE Flags'
  BY <1>9 DEF Waited, AfterCmpl, Goto, callers, aio, Flags, Places
<1>10. ASSUME NEW c \in Confs, Join(c) PROVE Flags'
  BY <1>10 DEF Join, Goto, callers, aio, Flags, Places
<1>11. ASSUME NEW c \in Confs, Report(c) PROVE Flags'
  BY <1>11 DEF Report, Goto, callers, aio, Flags, Places
<1>12. ASSUME NEW c \in Confs, Stop(c) PROVE Flags'
  BY <1>12 DEF Stop, Goto, callers, aio, Flags, Places
<1>13. ASSUME NEW i \in Ids, AioLockBoard(i) PROVE Flags'
  BY <1>13 DEF AioLockBoard, AioGoto, callers, aio, Flags, Places
<1>14. ASSUME NEW i \in Ids, AioLockFails(i) PROVE Flags'
  BY <1>14 DEF AioLockFails, AioGoto, callers, aio, Flags, Places
<1>15. ASSUME NEW i \in Ids, ClearCmpl(i) PROVE Flags'
  BY <1>15 DEF ClearCmpl, AioGoto, callers, aio, Flags, Places
<1>16. ASSUME NEW i \in Ids, SignalLaunch(i) PROVE Flags'
  BY <1>16 DEF SignalLaunch, AioGoto, callers, aio, Flags, Places
<1>17. ASSUME NEW i \in Ids, Address(i) PROVE Flags'
  BY <1>17 DEF Address, AioGoto, callers, aio, Flags, Places
<1>18. ASSUME NEW i \in Ids, AioTransfer(i) PROVE Flags'
  BY <1>18 DEF AioTransfer, AioGoto, callers, aio, Flags, Places
<1>19. ASSUME NEW i \in Ids, Unaddress(i) PROVE Flags'
  BY <1>19 DEF Unaddress, AioGoto, callers, aio, Flags, Places
<1>20. ASSUME NEW i \in Ids, Cancelled(i) PROVE Flags'
  BY <1>20 DEF Cancelled, AioGoto, callers, aio, Flags, Places
<1>21. ASSUME NEW i \in Ids, Record(i) PROVE Flags'
  BY <1>21 DEF Record, AioGoto, callers, aio, Flags, Places
<1>22. ASSUME NEW i \in Ids, SetCmpl(i) PROVE Flags'
  BY <1>22 DEF SetCmpl, AioGoto, callers, aio, Flags, Places
<1>23. ASSUME NEW i \in Ids, AioUnlock(i) PROVE Flags'
  BY <1>23 DEF AioUnlock, AioGoto, callers, aio, Flags, Places
<1> QED
  BY <1>1, <1>2, <1>3, <1>4, <1>5, <1>6, <1>7, <1>8, <1>9, <1>10, <1>11, <1>12, <1>13,
     <1>14, <1>15, <1>16, <1>17, <1>18, <1>19, <1>20, <1>21, <1>22, <1>23 DEF Next, Call,
     Proceed, AioProceed

LEMMA PlacesStep ==
  ASSUME Places, Next
  PROVE  Places'
<1>1. ASSUME NEW c \in Confs, Launch(c) PROVE Places'
  BY <1>1 DEF Launch, MayStart, Goto, callers, aio, Places, Labels, AioLabels
<1>2. ASSUME NEW c \in Confs, Launched(c) PROVE Places'
  BY <1>2 DEF Launched, Goto, callers, aio, Places, Labels, AioLabels
<1>3. ASSUME NEW c \in Confs, Synchronous(c) PROVE Places'
  BY <1>3 DEF Synchronous, MayStart, Goto, callers, aio, Places, Labels, AioLabels
<1>4. ASSUME NEW c \in Confs, LockBoard(c) PROVE Places'
  BY <1>4 DEF LockBoard, Goto, callers, aio, Places, Labels, AioLabels
<1>5. ASSUME NEW c \in Confs, LockFails(c) PROVE Places'
  BY <1>5 DEF LockFails, Goto, callers, aio, Places, Labels, AioLabels
<1>6. ASSUME NEW c \in Confs, Transfer(c) PROVE Places'
  BY <1>6 DEF Transfer, Goto, callers, aio, Places, Labels, AioLabels
<1>7. ASSUME NEW c \in Confs, UnlockBoard(c) PROVE Places'
  BY <1>7 DEF UnlockBoard, Goto, callers, aio, Places, Labels, AioLabels
<1>8. ASSUME NEW c \in Confs, Wait(c) PROVE Places'
  BY <1>8 DEF Wait, Goto, callers, aio, Places, Labels, AioLabels
<1>9. ASSUME NEW c \in Confs, Waited(c) PROVE Places'
  BY <1>9 DEF Waited, AfterCmpl, Goto, callers, aio, Places, Labels, AioLabels
<1>10. ASSUME NEW c \in Confs, Join(c) PROVE Places'
  BY <1>10 DEF Join, Goto, callers, aio, Places, Labels, AioLabels
<1>11. ASSUME NEW c \in Confs, Report(c) PROVE Places'
  BY <1>11 DEF Report, Goto, callers, aio, Places, Labels, AioLabels
<1>12. ASSUME NEW c \in Confs, Stop(c) PROVE Places'
  BY <1>12 DEF Stop, Goto, callers, aio, Places, Labels, AioLabels
<1>13. ASSUME NEW i \in Ids, AioLockBoard(i) PROVE Places'
  BY <1>13 DEF AioLockBoard, AioGoto, callers, aio, Places, Labels, AioLabels
<1>14. ASSUME NEW i \in Ids, AioLockFails(i) PROVE Places'
  BY <1>14 DEF AioLockFails, AioGoto, callers, aio, Places, Labels, AioLabels
<1>15. ASSUME NEW i \in Ids, ClearCmpl(i) PROVE Places'
  BY <1>15 DEF ClearCmpl, AioGoto, callers, aio, Places, Labels, AioLabels
<1>16. ASSUME NEW i \in Ids, SignalLaunch(i) PROVE Places'
  BY <1>16 DEF SignalLaunch, AioGoto, callers, aio, Places, Labels, AioLabels
<1>17. ASSUME NEW i \in Ids, Address(i) PROVE Places'
  BY <1>17 DEF Address, AioGoto, callers, aio, Places, Labels, AioLabels
<1>18. ASSUME NEW i \in Ids, AioTransfer(i) PROVE Places'
  BY <1>18 DEF AioTransfer, AioGoto, callers, aio, Places, Labels, AioLabels
<1>19. ASSUME NEW i \in Ids, Unaddress(i) PROVE Places'
  BY <1>19 DEF Unaddress, AioGoto, callers, aio, Places, Labels, AioLabels
<1>20. ASSUME NEW i \in Ids, Cancelled(i) PROVE Places'
  BY <1>20 DEF Cancelled, AioGoto, callers, aio, Places, Labels, AioLabels
<1>21. ASSUME NEW i \in Ids, Record(i) PROVE Places'
  BY <1>21 DEF Record, AioGoto, callers, aio, Places, Labels, AioLabels
<1>22. ASSUME NEW i \in Ids, SetCmpl(i) PROVE Places'
  BY <1>22 DEF SetCmpl, AioGoto, callers, aio, Places, Labels, AioLabels
<1>23. ASSUME NEW i \in Ids, AioUnlock(i) PROVE Places'
  BY <1>23 DEF AioUnlock, AioGoto, callers, aio, Places, Labels, AioLabels
<1> QED
  BY <1>1, <1>2, <1>3, <1>4, <1>5, <1>6, <1>7, <1>8, <1>9, <1>10, <1>11, <1>12, <1>13,
     <1>14, <1>15, <1>16, <1>17, <1>18, <1>19, <1>20, <1>21, <1>22, <1>23 DEF Next, Call,
     Proceed, AioProceed

LEMMA ResultsStep ==
  ASSUME Results, Places, Next
  PROVE  Results'
<1>1. ASSUME NEW c \in Confs, Launch(c) PROVE Results'
  BY <1>1 DEF Launch, MayStart, Goto, callers, aio, Results, Places, Status
<1>2. ASSUME NEW c \in Confs, Launched(c) PROVE Results'
  BY <1>2 DEF Launched, Goto, callers, aio, Results, Places, Status
<1>3. ASSUME NEW c \in Confs, Synchronous(c) PROVE Results'
  BY <1>3 DEF Synchronous, MayStart, Goto, callers, aio, Results, Places, Status
<1>4. ASSUME NEW c \in Confs, LockBoard(c) PROVE Results'
  BY <1>4 DEF LockBoard, Goto, callers, aio, Results, Places, Status
<1>5. ASSUME NEW c \in Confs, LockFails(c) PROVE Results'
  BY <1>5 DEF LockFails, Goto, callers, aio, Results, Places, Status
<1>6. ASSUME NEW c \in Confs, Transfer(c) PROVE Results'
  BY <1>6 DEF Transfer, Goto, callers, aio, Results, Places, Status
<1>7. ASSUME NEW c \in Confs, UnlockBoard(c) PROVE Results'
  BY <1>7 DEF UnlockBoard, Goto, callers, aio, Results, Places, Status
<1>8. ASSUME NEW c \in Confs, Wait(c) PROVE Results'
  BY <1>8 DEF Wait, Goto, callers, aio, Results, Places, Status
<1>9. ASSUME NEW c \in Confs, Waited(c) PROVE Results'
  BY <1>9 DEF Waited, AfterCmpl, Goto, callers, aio, Results, Places, Status
<1>10. ASSUME NEW c \in Confs, Join(c) PROVE Results'
  BY <1>10 DEF Join, Goto, callers, aio, Results, Places, Status
<1>11. ASSUME NEW c \in Confs, Report(c) PROVE Results'
  BY <1>11 DEF Report, Goto, callers, aio, Results, Places, Status
<1>12. ASSUME NEW c \in Confs, Stop(c) PROVE Results'
  BY <1>12 DEF Stop, Goto, callers, aio, Results, Places, Status
<1>13. ASSUME NEW i \in Ids, AioLockBoard(i) PROVE Results'
  BY <1>13 DEF AioLockBoard, AioGoto, callers, aio, Results, Places, Status
<1>14. ASSUME NEW i \in Ids, AioLockFails(i) PROVE Results'
  BY <1>14 DEF AioLockFails, AioGoto, callers, aio, Results, Places, Status
<1>15. ASSUME NEW i \in Ids, ClearCmpl(i) PROVE Results'
  BY <1>15 DEF ClearCmpl, AioGoto, callers, aio, Results, Places, Status
<1>16. ASSUME NEW i \in Ids, SignalLaunch(i) PROVE Results'
  BY <1>16 DEF SignalLaunch, AioGoto, callers, aio, Results, Places, Status
<1>17. ASSUME NEW i \in Ids, Address(i) PROVE Results'
  BY <1>17 DEF Address, AioGoto, callers, aio, Results, Places, Status
<1>18. ASSUME NEW i \in Ids, AioTransfer(i) PROVE Results'
  BY <1>18 DEF AioTransfer, AioGoto, callers, aio, Results, Places, Status
<1>19. ASSUME NEW i \in Ids, Unaddress(i) PROVE Results'
  BY <1>19 DEF Unaddress, AioGoto, callers, aio, Results, Places, Status
<1>20. ASSUME NEW i \in Ids, Cancelled(i) PROVE Results'
  BY <1>20 DEF Cancelled, AioGoto, callers, aio, Results, Places, Status
<1>21. ASSUME NEW i \in Ids, Record(i) PROVE Results'
  BY <1>21 DEF Record, AioGoto, callers, aio, Results, Places, Status
<1>22. ASSUME NEW i \in Ids, SetCmpl(i) PROVE Results'
  BY <1>22 DEF SetCmpl, AioGoto, callers, aio, Results, Places, Status
<1>23. ASSUME NEW i \in Ids, AioUnlock(i) PROVE Results'
  BY <1>23 DEF AioUnlock, AioGoto, callers, aio, Results, Places, Status
<1> QED
  BY <1>1, <1>2, <1>3, <1>4, <1>5, <1>6, <1>7, <1>8, <1>9, <1>10, <1>11, <1>12, <1>13,
     <1>14, <1>15, <1>16, <1>17, <1>18, <1>19, <1>20, <1>21, <1>22, <1>23 DEF Next, Call,
     Proceed, AioProceed

\* A launch finds in_progress reset, so that every earlier thread was joined; a
\* thread is joined, and in_progress reset, in one step of the only caller.
LEMMA OneStep ==
  ASSUME Flags, Places, OneInv, Next
  PROVE  OneInv'
<1>1. ASSUME NEW c \in Confs, Launch(c) PROVE OneInv'
  BY <1>1, ConfsAssumption DEF Launch, MayStart, Goto, callers, aio, OneInv, ConfOk,
     AioOk, Flags, Places, Results
<1>2. ASSUME NEW c \in Confs, Launched(c) PROVE OneInv'
  BY <1>2, ConfsAssumption DEF Launched, Goto, callers, aio, OneInv, ConfOk, AioOk,
     Flags, Places, Results
<1>3. ASSUME NEW c \in Confs, Synchronous(c) PROVE OneInv'
  BY <1>3, ConfsAssumption DEF Synchronous, MayStart, Goto, callers, aio, OneInv,
     ConfOk, AioOk, Flags, Places, Results
<1>4. ASSUME NEW c \in Confs, LockBoard(c) PROVE OneInv'
  BY <1>4, ConfsAssumption DEF LockBoard, Goto, callers, aio, OneInv, ConfOk, AioOk,
     Flags, Places, Results
<1>5. ASSUME NEW c \in Confs, LockFails(c) PROVE OneInv'
  BY <1>5, ConfsAssumption DEF LockFails, Goto, callers, aio, OneInv, ConfOk, AioOk,
     Flags, Places, Results
<1>6. ASSUME NEW c \in Confs, Transfer(c) PROVE OneInv'
  BY <1>6, ConfsAssumption DEF Transfer, Goto, callers, aio, OneInv, ConfOk, AioOk,
     Flags, Places, Results
<1>7. ASSUME NEW c \in Confs, UnlockBoard(c) PROVE OneInv'
  BY <1>7, ConfsAssumption DEF UnlockBoard, Goto, callers, aio, OneInv, ConfOk, AioOk,
     Flags, Places, Results
<1>8. ASSUME NEW c \in Confs, Wait(c) PROVE OneInv'
  BY <1>8, ConfsAssumption DEF Wait, Goto, callers, aio, OneInv, ConfOk, AioOk, Flags,
     Places, Results
<1>9. ASSUME NEW c \in Confs, Waited(c) PROVE OneInv'
  BY <1>9, ConfsAssumption DEF Waited, AfterCmpl, Goto, callers, aio, OneInv, ConfOk,
     AioOk, Flags, Places, Results
<1>10. ASSUME NEW c \in Confs, Join(c) PROVE OneInv'
  BY <1>10, ConfsAssumption DEF Join, Goto, callers, aio, OneInv, ConfOk, AioOk, Flags,
     Places, Results
<1>11. ASSUME NEW c \in Confs, Report(c) PROVE OneInv'
  BY <1>11, ConfsAssumption DEF Report, Goto, callers, aio, OneInv, ConfOk, AioOk,
     Flags, Places, Results
<1>12. ASSUME NEW c \in Confs, Stop(c) PROVE OneInv'
  BY <1>12, ConfsAssumption DEF Stop, Goto, callers, aio, OneInv, ConfOk, AioOk, Flags,
     Places, Results
<1>13. ASSUME NEW i \in Ids, AioLockBoard(i) PROVE OneInv'
  BY <1>13, ConfsAssumption DEF AioLockBoard, AioGoto, callers, aio, OneInv, ConfOk,
     AioOk, Flags, Places, Results
<1>14. ASSUME NEW i \in Ids, AioLockFails(i) PROVE OneInv'
  BY <1>14, ConfsAssumption DEF AioLockFails, AioGoto, callers, aio, OneInv, ConfOk,
     AioOk, Flags, Places, Results
<1>15. ASSUME NEW i \in Ids, ClearCmpl(i) PROVE OneInv'
  BY <1>15, ConfsAssumption DEF ClearCmpl, AioGoto, callers, aio, OneInv, ConfOk, AioOk,
     Flags, Places, Results
<1>16. ASSUME NEW i \in Ids, SignalLaunch(i) PROVE OneInv'
  BY <1>16, ConfsAssumption DEF SignalLaunch, AioGoto, callers, aio, OneInv, ConfOk,
     AioOk, Flags, Places, Results
<1>17. ASSUME NEW i \in Ids, Address(i) PROVE OneInv'
  BY <1>17, ConfsAssumption DEF Address, AioGoto, callers, aio, OneInv, ConfOk, AioOk,
     Flags, Places, Results
<1>18. ASSUME NEW i \in Ids, AioTransfer(i) PROVE OneInv'
  BY <1>18, ConfsAssumption DEF AioTransfer, AioGoto, callers, aio, OneInv, ConfOk,
     AioOk, Flags, Places, Results
<1>19. ASSUME NEW i \in Ids, Unaddress(i) PROVE OneInv'
  BY <1>19, ConfsAssumption DEF Unaddress, AioGoto, callers, aio, OneInv, ConfOk, AioOk,
     Flags, Places, Results
<1>20. ASSUME NEW i \in Ids, Cancelled(i) PROVE OneInv'
  BY <1>20, ConfsAssumption DEF Cancelled, AioGoto, callers, aio, OneInv, ConfOk, AioOk,
     Flags, Places, Results
<1>21. ASSUME NEW i \in Ids, Record(i) PROVE OneInv'
  BY <1>21, ConfsAssumption DEF Record, AioGoto, callers, aio, OneInv, ConfOk, AioOk,
     Flags, Places, Results
<1>22. ASSUME NEW i \in Ids, SetCmpl(i) PROVE OneInv'
  BY <1>22, ConfsAssumption DEF SetCmpl, AioGoto, callers, aio, OneInv, ConfOk, AioOk,
     Flags, Places, Results
<1>23. ASSUME NEW i \in Ids, AioUnlock(i) PROVE OneInv'
  BY <1>23, ConfsAssumption DEF AioUnlock, AioGoto, callers, aio, OneInv, ConfOk, AioOk,
     Flags, Places, Results
<1> QED
  BY <1>1, <1>2, <1>3, <1>4, <1>5, <1>6, <1>7, <1>8, <1>9, <1>10, <1>11, <1>12, <1>13,
     <1>14, <1>15, <1>16, <1>17, <1>18, <1>19, <1>20, <1>21, <1>22, <1>23 DEF Next, Call,
     Proceed, AioProceed

\* Record is a step of the thread that its descriptor names, for no other is left
\* unjoined; whoever goes on to report found it joined or exited.
LEMMA ReportStep ==
  ASSUME Flags, Places, Results, OneInv, ReportInv, Next
  PROVE  ReportInv'
<1>1. ASSUME NEW c \in Confs, Launch(c) PROVE ReportInv'
  BY <1>1, ConfsAssumption DEF Launch, MayStart, Goto, callers, aio, ReportInv,
     ReportOk, OneInv, ConfOk, AioOk, Flags, Places, Results, Running
<1>2. ASSUME NEW c \in Confs, Launched(c) PROVE ReportInv'
  BY <1>2, ConfsAssumption DEF Launched, Goto, callers, aio, ReportInv, ReportOk,
     OneInv, ConfOk, AioOk, Flags, Places, Results, Running
<1>3. ASSUME NEW c \in Confs, Synchronous(c) PROVE ReportInv'
  BY <1>3, ConfsAssumption DEF Synchronous, MayStart, Goto, callers, aio, ReportInv,
     ReportOk, OneInv, ConfOk, AioOk, Flags, Places, Results, Running
<1>4. ASSUME NEW c \in Confs, LockBoard(c) PROVE ReportInv'
  BY <1>4, ConfsAssumption DEF LockBoard, Goto, callers, aio, ReportInv, ReportOk,
     OneInv, ConfOk, AioOk, Flags, Places, Results, Running
<1>5. ASSUME NEW c \in Confs, LockFails(c) PROVE ReportInv'
  BY <1>5, ConfsAssumption DEF LockFails, Goto, callers, aio, ReportInv, ReportOk,
     OneInv, ConfOk, AioOk, Flags, Places, Results, Running
<1>6. ASSUME NEW c \in Confs, Transfer(c) PROVE ReportInv'
  BY <1>6, ConfsAssumption DEF Transfer, Goto, callers, aio, ReportInv, ReportOk,
     OneInv, ConfOk, AioOk, Flags, Places, Results, Running
<1>7. ASSUME NEW c \in Confs, UnlockBoard(c) PROVE ReportInv'
  BY <1>7, ConfsAssumption DEF UnlockBoard, Goto, callers, aio, ReportInv, ReportOk,
     OneInv, ConfOk, AioOk, Flags, Places, Results, Running
<1>8. ASSUME NEW c \in Confs, Wait(c) PROVE ReportInv'
  BY <1>8, ConfsAssumption DEF Wait, Goto, callers, aio, ReportInv, ReportOk, OneInv,
     ConfOk, AioOk, Flags, Places, Results, Running
<1>9. ASSUME NEW c \in Confs, Waited(c) PROVE ReportInv'
  BY <1>9, ConfsAssumption DEF Waited, AfterCmpl, Goto, callers, aio, ReportInv,
     ReportOk, OneInv, ConfOk, AioOk, Flags, Places, Results, Running
<1>10. ASSUME NEW c \in Confs, Join(c) PROVE ReportInv'
  BY <1>10, ConfsAssumption DEF Join, Goto, callers, aio, ReportInv, ReportOk, OneInv,
     ConfOk, AioOk, Flags, Places, Results, Running
<1>11. ASSUME NEW c \in Confs, Report(c) PROVE ReportInv'
  BY <1>11, ConfsAssumption DEF Report, Goto, callers, aio, ReportInv, ReportOk, OneInv,
     ConfOk, AioOk, Flags, Places, Results, Running
<1>12. ASSUME NEW c \in Confs, Stop(c) PROVE ReportInv'
  BY <1>12, ConfsAssumption DEF Stop, Goto, callers, aio, ReportInv, ReportOk, OneInv,
     ConfOk, AioOk, Flags, Places, Results, Running
<1>13. ASSUME NEW i \in Ids, AioLockBoard(i) PROVE ReportInv'
  BY <1>13, ConfsAssumption DEF AioLockBoard, AioGoto, callers, aio, ReportInv,
     ReportOk, OneInv, ConfOk, AioOk, Flags, Places, Results, Running
<1>14. ASSUME NEW i \in Ids, AioLockFails(i) PROVE ReportInv'
  BY <1>14, ConfsAssumption DEF AioLockFails, AioGoto, callers, aio, ReportInv,
     ReportOk, OneInv, ConfOk, AioOk, Flags, Places, Results, Running
<1>15. ASSUME NEW i \in Ids, ClearCmpl(i) PROVE ReportInv'
  BY <1>15, ConfsAssumption DEF ClearCmpl, AioGoto, callers, aio, ReportInv, ReportOk,
     OneInv, ConfOk, AioOk, Flags, Places, Results, Running
<1>16. ASSUME NEW i \in Ids, SignalLaunch(i) PROVE ReportInv'
  BY <1>16, ConfsAssumption DEF SignalLaunch, AioGoto, callers, aio, ReportInv,
     ReportOk, OneInv, ConfOk, AioOk, Flags, Places, Results, Running
<1>17. ASSUME NEW i \in Ids, Address(i) PROVE ReportInv'
  BY <1>17, ConfsAssumption DEF Address, AioGoto, callers, aio, ReportInv, ReportOk,
     OneInv, ConfOk, AioOk, Flags, Places, Results, Running
<1>18. ASSUME NEW i \in Ids, AioTransfer(i) PROVE ReportInv'
  BY <1>18, ConfsAssumption DEF AioTransfer, AioGoto, callers, aio, ReportInv, ReportOk,
     OneInv, ConfOk, AioOk, Flags, Places, Results, Running
<1>19. ASSUME NEW i \in Ids, Unaddress(i) PROVE ReportInv'
  BY <1>19, ConfsAssumption DEF Unaddress, AioGoto, callers, aio, ReportInv, ReportOk,
     OneInv, ConfOk, AioOk, Flags, Places, Results, Running
<1>20. ASSUME NEW i \in Ids, Cancelled(i) PROVE ReportInv'
  BY <1>20, ConfsAssumption DEF Cancelled, AioGoto, callers, aio, ReportInv, ReportOk,
     OneInv, ConfOk, AioOk, Flags, Places, Results, Running
<1>21. ASSUME NEW i \in Ids, Record(i) PROVE ReportInv'
  BY <1>21, ConfsAssumption DEF Record, AioGoto, callers, aio, ReportInv, ReportOk,
     OneInv, ConfOk, AioOk, Flags, Places, Results, Running
<1>22. ASSUME NEW i \in Ids, SetCmpl(i) PROVE ReportInv'
  BY <1>22, ConfsAssumption DEF SetCmpl, AioGoto, callers, aio, ReportInv, ReportOk,
     OneInv, ConfOk, AioOk, Flags, Places, Results, Running
<1>23. ASSUME NEW i \in Ids, AioUnlock(i) PROVE ReportInv'
  BY <1>23, ConfsAssumption DEF AioUnlock, AioGoto, callers, aio, ReportInv, ReportOk,
     OneInv, ConfOk, AioOk, Flags, Places, Results, Running
<1> QED
  BY <1>1, <1>2, <1>3, <1>4, <1>5, <1>6, <1>7, <1>8, <1>9, <1>10, <1>11, <1>12, <1>13,
     <1>14, <1>15, <1>16, <1>17, <1>18, <1>19, <1>20, <1>21, <1>22, <1>23 DEF Next, Call,
     Proceed, AioProceed

LEMMA InitHolds == Init => AsyncInv
<1> SUFFICES ASSUME Init PROVE AsyncInv
  OBVIOUS
<1>1. Flags
  BY DEF Init, Flags
<1>2. (CHOOSE c \in Confs : TRUE) \in Confs
  BY ConfsAssumption
<1>3. Places
  BY <1>2 DEF Init, Places, Labels, AioLabels
<1>4. Results
  BY DEF Init, Results, Status
<1>5. OneInv
  BY <1>3, ConfsAssumption DEF Init, OneInv, ConfOk, AioOk, Places
<1>6. ReportInv
  BY ConfsAssumption DEF Init, ReportInv, ReportOk
<1> QED
  BY <1>1, <1>3, <1>4, <1>5, <1>6 DEF AsyncInv, Typed

LEMMA StepHolds == AsyncInv /\ [Next]_vars => AsyncInv'
<1> SUFFICES ASSUME AsyncInv, [Next]_vars PROVE AsyncInv'
  OBVIOUS
<1>1. CASE Next
  BY <1>1, FlagsStep, PlacesStep, ResultsStep, OneStep, ReportStep DEF AsyncInv, Typed
<1>2. CASE UNCHANGED vars
  <2>1. Flags' /\ Places' /\ Results'
    BY <1>2 DEF AsyncInv, Typed, Flags, Places, Results, vars, callers, aio
  <2>2. OneInv'
    BY <1>2 DEF AsyncInv, OneInv, ConfOk, AioOk, vars, callers, aio
  <2>3. ReportInv'
    BY <1>2 DEF AsyncInv, ReportInv, ReportOk, Running, vars, callers, aio
  <2> QED
    BY <2>1, <2>2, <2>3 DEF AsyncInv, Typed
<1> QED
  BY <1>1, <1>2

LEMMA AsyncInvariant == Spec => []AsyncInv
<1> QED
  BY InitHolds, StepHolds, PTL DEF Spec

-----------------------------------------------------------------------------
\* Every variable stays within its type, and a launch or a join always has the
\* thread of a transfer that was created to look at.
THEOREM TypeCorrect == Spec => []TypeOK
<1>1. AsyncInv => TypeOK
  <2> SUFFICES ASSUME AsyncInv PROVE TypeOK
    OBVIOUS
  <2>1. \A c \in Confs : pc[c] \in {"launching", "join"} => thread[c] \in Ids
    BY DEF AsyncInv, OneInv, ConfOk
  <2> QED
    BY <2>1 DEF AsyncInv, Typed, Flags, Places, Results, TypeOK
<1> QED
  BY <1>1, AsyncInvariant, PTL

\* A descriptor never has two transfers: while its asynchronous one runs no
\* synchronous call enters the board, and async.thread names every thread that is
\* still to be joined, whatever order calls, threads and cancellations run in.
THEOREM OneAtATime == Spec => []OneTransfer
<1>1. AsyncInv => OneTransfer
  <2> SUFFICES ASSUME AsyncInv, NEW i \in Ids
               PROVE  /\ Running(i) => pc[conf[i]] \notin {"want_user", "locked", "unlock"}
                      /\ apc[i] # "none" /\ ~joined[i]
                           => thread[conf[i]] = i /\ in_progress[conf[i]]
    BY DEF OneTransfer
  <2>1. conf[i] \in Confs
    BY DEF AsyncInv, Typed, Places
  <2>2. AioOk(i) /\ ConfOk(conf[i])
    BY <2>1 DEF AsyncInv, OneInv
  <2> QED
    BY <2>2 DEF AioOk, ConfOk, Running
<1> QED
  BY <1>1, AsyncInvariant, PTL

\* Only Report leaves the label "report".
LEMMA OnlyReport ==
  ASSUME Places, Next, NEW c \in Confs, pc[c] = "report", pc'[c] = "idle"
  PROVE  Report(c)
<1>1. ASSUME NEW d \in Confs, NEW from, NEW to, Goto(d, from, to), from # "report"
      PROVE  pc'[c] = pc[c]
  BY <1>1 DEF Goto, Places
<1>2. ASSUME NEW d \in Confs, Report(d) PROVE d = c
  BY <1>2 DEF Report, Goto, Places
<1>3. ASSUME NEW d \in Confs, Call(d) \/ LockBoard(d) \/ LockFails(d) \/ Proceed(d)
      PROVE  Report(c)
  <2>1. CASE Launch(d) \/ Synchronous(d) \/ Wait(d) \/ Stop(d)
    BY <1>1, <2>1 DEF Launch, Synchronous, Wait, Stop
  <2>2. CASE LockBoard(d) \/ LockFails(d) \/ Launched(d) \/ UnlockBoard(d)
    BY <1>1, <2>2 DEF LockBoard, LockFails, Launched, UnlockBoard
  <2>3. CASE Transfer(d) \/ Waited(d) \/ Join(d)
    BY <1>1, <2>3 DEF Transfer, Waited, Join
  <2> QED
    BY <1>2, <1>3, <2>1, <2>2, <2>3 DEF Call, Proceed
<1>4. ASSUME NEW i \in Ids,
             AioLockBoard(i) \/ AioLockFails(i) \/ Cancelled(i) \/ AioProceed(i)
      PROVE  pc' = pc
  BY <1>4 DEF AioLockBoard, AioLockFails, Cancelled, AioProceed, ClearCmpl, SignalLaunch,
       Address, AioTransfer, Unaddress, Record, SetCmpl, AioUnlock, callers
<1> QED
  BY <1>3, <1>4 DEF Next

\* What ibwait and ibstop report is what the transfer recorded, and it has ended:
\* CMPL of the kernel, which comes before the record, is never taken for its end.
THEOREM OutcomeReported == Spec => ReportsOutcome
<1>1. AsyncInv /\ [Next]_vars
        => [\A c \in Confs :
              pc[c] = "report" /\ pc'[c] = "idle" /\ thread[c] # Nobody
                => ~Running(thread[c]) /\ seen'[c] = outcome[thread[c]]]_vars
  <2> SUFFICES ASSUME AsyncInv, Next, NEW c \in Confs,
                      pc[c] = "report", pc'[c] = "idle", thread[c] # Nobody
               PROVE  ~Running(thread[c]) /\ seen'[c] = outcome[thread[c]]
    OBVIOUS
  <2>1. Places /\ Results /\ ReportOk(c)
    BY DEF AsyncInv, Typed, ReportInv
  <2>2. Report(c)
    BY <2>1, OnlyReport
  <2>3. thread[c] \in Ids
    BY <2>1 DEF Places
  <2>4. ~Running(thread[c]) /\ ibsta[c] = outcome[thread[c]]
    BY <2>1, <2>3 DEF ReportOk
  <2>5. seen'[c] = ibsta[c]
    BY <2>1, <2>2 DEF Report, Results
  <2> QED
    BY <2>4, <2>5
<1> QED
  BY <1>1, AsyncInvariant, PTL DEF Spec, ReportsOutcome
=============================================================================
