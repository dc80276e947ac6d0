--------------------------- MODULE Autopoll_proofs ---------------------------
(***************************************************************************)
(* Proofs about Autopoll, for any number of devices, any limit on their    *)
(* queues and any number of requests.                                      *)
(***************************************************************************)
EXTENDS Autopoll, SequenceTheorems, TLAPS

\* TypeOK in two parts: the provers that know arithmetic do not know Booleans.
Flags ==
  /\ edge \in BOOLEAN /\ srqi \in BOOLEAN /\ stuck_srq \in BOOLEAN
  /\ awake \in BOOLEAN /\ polling \in BOOLEAN /\ unheard \in BOOLEAN
  /\ dropped \in [Devices -> BOOLEAN] /\ lost \in [Devices -> BOOLEAN]

Stores ==
  /\ requesting \subseteq Devices /\ listed \subseteq Devices /\ todo \subseteq Devices
  /\ produced \in [Devices -> Nat] /\ delivered \in [Devices -> Nat]
  /\ num_bytes \in Nat
  /\ queue \in [Devices -> Seq(Nat)]
  /\ \A d \in Devices : Len(queue[d]) <= MaxBytes /\ (d \notin listed => queue[d] = <<>>)
  /\ waiter \in [Devices -> {"none", "testing", "asleep"}]

\* TypeOK is not inductive by itself: a byte is queued only for a device that the
\* poll found in the list, which no ioctl changes while the thread polls.
TodoListed == polling => todo \subseteq listed

TypeInv == Flags /\ Stores /\ TodoListed

-----------------------------------------------------------------------------
LEMMA EmptyQueue == <<>> \in Seq(Nat) /\ Len(<<>>) = 0
OBVIOUS

\* What a step may do to the queue of one device keeps it a queue.
LEMMA QueueOps ==
  ASSUME NEW q \in Seq(Nat), Len(q) <= MaxBytes
  PROVE  /\ \A b \in Nat : /\ Push(q, b) \in Seq(Nat)
                           /\ Len(q) < MaxBytes => Len(Push(q, b)) <= MaxBytes
         /\ q # <<>> => /\ Tail(q) \in Seq(Nat) /\ Head(q) \in Nat
                        /\ Len(Tail(q)) <= MaxBytes
<1>1. ASSUME NEW b \in Nat
      PROVE  /\ Push(q, b) \in Seq(Nat)
             /\ Len(q) < MaxBytes => Len(Push(q, b)) <= MaxBytes
  BY LenProperties, AppendProperties, MaxBytesAssumption DEF Push
<1>2. ASSUME q # <<>>
      PROVE  Tail(q) \in Seq(Nat) /\ Head(q) \in Nat /\ Len(Tail(q)) <= MaxBytes
  BY <1>2, LenProperties, HeadTailProperties, MaxBytesAssumption
<1> QED
  BY <1>1, <1>2

-----------------------------------------------------------------------------
LEMMA InitType == Init => TypeInv
<1> SUFFICES ASSUME Init PROVE TypeInv
  OBVIOUS
<1>1. Flags
  BY DEF Init, Flags
<1>2. Stores
  BY EmptyQueue, MaxBytesAssumption DEF Init, Stores
<1> QED
  BY <1>1, <1>2 DEF Init, TypeInv, TodoListed

LEMMA NextFlags == Flags /\ [Next]_vars => Flags'
<1> SUFFICES ASSUME Flags, [Next]_vars PROVE Flags'
  OBVIOUS
<1> USE DEF Flags, device, store, thread, waits
<1>1. ASSUME NEW d \in Devices,
             Request(d) \/ OpenDev(d) \/ CloseDev(d) \/ ReadQueued(d) \/ ReadDevice(d)
      PROVE  Flags'
  BY <1>1 DEF Request, OpenDev, CloseDev, ReadQueued, ReadDevice, Answer
<1>2. ASSUME NEW d \in Devices,
             WaitBegin(d) \/ WaitSatisfied(d) \/ WaitOver(d) \/ WaitSignalled(d)
      PROVE  Flags'
  BY <1>2 DEF WaitBegin, WaitSatisfied, WaitOver, WaitSignalled, NoOtherChange
<1>3. CASE SrqInterrupt \/ OtherInterrupt \/ ThreadSleep
  BY <1>3 DEF SrqInterrupt, OtherInterrupt, ThreadSleep, WakeWaiters
<1>4. CASE PollBegin \/ PollEnd \/ PollFail \/ CleanupFail
  BY <1>4 DEF PollBegin, PollEnd, PollFail, CleanupFail, Found, StuckSrq, WakeWaiters
<1>5. ASSUME NEW d \in Devices,
             PollNothing(d) \/ PollQueue(d) \/ PollOverflow(d) \/ PollNoMemory(d)
      PROVE  Flags'
  BY <1>5 DEF PollNothing, PollQueue, PollOverflow, PollNoMemory, Discard, Answer
<1>6. CASE UNCHANGED vars
  BY <1>6 DEF vars
<1> QED
  BY <1>1, <1>2, <1>3, <1>4, <1>5, <1>6 DEF Next, Poll

LEMMA NextTodo == TodoListed /\ [Next]_vars => TodoListed'
<1> SUFFICES ASSUME TodoListed, [Next]_vars PROVE TodoListed'
  OBVIOUS
<1> USE DEF TodoListed, device, store, thread, waits
<1>1. ASSUME NEW d \in Devices,
             Request(d) \/ OpenDev(d) \/ CloseDev(d) \/ ReadQueued(d) \/ ReadDevice(d)
      PROVE  TodoListed'
  BY <1>1 DEF Request, OpenDev, CloseDev, ReadQueued, ReadDevice, Answer
<1>2. ASSUME NEW d \in Devices,
             WaitBegin(d) \/ WaitSatisfied(d) \/ WaitOver(d) \/ WaitSignalled(d)
      PROVE  TodoListed'
  BY <1>2 DEF WaitBegin, WaitSatisfied, WaitOver, WaitSignalled, NoOtherChange
<1>3. CASE SrqInterrupt \/ OtherInterrupt \/ ThreadSleep
  BY <1>3 DEF SrqInterrupt, OtherInterrupt, ThreadSleep
<1>4. CASE PollBegin \/ PollEnd \/ PollFail \/ CleanupFail
  BY <1>4 DEF PollBegin, PollEnd, PollFail, CleanupFail
<1>5. ASSUME NEW d \in Devices,
             PollNothing(d) \/ PollQueue(d) \/ PollOverflow(d) \/ PollNoMemory(d)
      PROVE  TodoListed'
  BY <1>5 DEF PollNothing, PollQueue, PollOverflow, PollNoMemory, Discard
<1>6. CASE UNCHANGED vars
  BY <1>6 DEF vars
<1> QED
  BY <1>1, <1>2, <1>3, <1>4, <1>5, <1>6 DEF Next, Poll

LEMMA NextStores == Stores /\ TodoListed /\ [Next]_vars => Stores'
<1> SUFFICES ASSUME Stores, TodoListed, [Next]_vars PROVE Stores'
  OBVIOUS
<1> USE DEF Stores, device, store, thread, waits
<1>1. ASSUME NEW d \in Devices, Request(d) PROVE Stores'
  BY <1>1 DEF Request
<1>2. ASSUME NEW d \in Devices, ReadQueued(d) PROVE Stores'
  <2>1. /\ queue[d] \in Seq(Nat) /\ Len(queue[d]) <= MaxBytes /\ queue[d] # <<>>
    BY <1>2 DEF ReadQueued
  <2>2. /\ Tail(queue[d]) \in Seq(Nat) /\ Head(queue[d]) \in Nat
        /\ Len(Tail(queue[d])) <= MaxBytes
    BY <2>1, QueueOps
  <2>3. d \in listed
    BY <2>1
  <2> QED
    BY <1>2, <2>2, <2>3 DEF ReadQueued
<1>3. ASSUME NEW d \in Devices, ReadDevice(d) PROVE Stores'
  BY <1>3 DEF ReadDevice, Answer
<1>4. ASSUME NEW d \in Devices, OpenDev(d) PROVE Stores'
  BY <1>4 DEF OpenDev
<1>5. ASSUME NEW d \in Devices, CloseDev(d) PROVE Stores'
  BY <1>5, EmptyQueue, MaxBytesAssumption DEF CloseDev
<1>6. ASSUME NEW d \in Devices,
             WaitBegin(d) \/ WaitSatisfied(d) \/ WaitOver(d) \/ WaitSignalled(d)
      PROVE  Stores'
  BY <1>6 DEF WaitBegin, WaitSatisfied, WaitOver, WaitSignalled, Goto, NoOtherChange
<1>7. CASE SrqInterrupt \/ OtherInterrupt \/ ThreadSleep
  BY <1>7 DEF SrqInterrupt, OtherInterrupt, ThreadSleep, WakeWaiters
<1>8. CASE PollBegin \/ PollEnd \/ PollFail \/ CleanupFail
  BY <1>8 DEF PollBegin, PollEnd, PollFail, CleanupFail, WakeWaiters
<1>9. ASSUME NEW d \in Devices, PollNothing(d) PROVE Stores'
  BY <1>9 DEF PollNothing
<1>10. ASSUME NEW d \in Devices, PollQueue(d) PROVE Stores'
  <2> DEFINE q == Push(queue[d], produced[d])
  <2>1. q \in Seq(Nat) /\ Len(q) <= MaxBytes
    BY <1>10, QueueOps DEF PollQueue, Room
  <2>2. d \in listed
    BY <1>10 DEF PollQueue, TodoListed
  <2>3. queue' = [queue EXCEPT ![d] = q]
    BY <1>10 DEF PollQueue
  <2> HIDE DEF q
  <2> QED
    BY <1>10, <2>1, <2>2, <2>3 DEF PollQueue, Answer
<1>11. ASSUME NEW d \in Devices, PollOverflow(d) \/ PollNoMemory(d) PROVE Stores'
  BY <1>11 DEF PollOverflow, PollNoMemory, Discard, Answer
<1>12. CASE UNCHANGED vars
  BY <1>12 DEF vars
<1> QED
  BY <1>1, <1>2, <1>3, <1>4, <1>5, <1>6, <1>7, <1>8, <1>9, <1>10, <1>11, <1>12 DEF Next, Poll

LEMMA NextType == TypeInv /\ [Next]_vars => TypeInv'
BY NextFlags, NextTodo, NextStores DEF TypeInv

\* Every variable of the automatic poll stays within its type; no queue outgrows
\* its limit, and the queue of a device that is not in the list is empty.
THEOREM TypeCorrect == Spec => []TypeOK
<1>1. TypeInv => TypeOK
  BY DEF TypeInv, Flags, Stores, TypeOK
<1> QED
  BY InitType, NextType, <1>1, PTL DEF Spec

-----------------------------------------------------------------------------
\* What the steps do to the bytes under way from one device: q is its queue and x
\* the byte it still holds.
LEMMA ChannelOps ==
  ASSUME NEW q \in Seq(Nat), NEW x \in Nat
  PROVE  /\ q \o <<>> = q
         /\ q \o <<x>> = Append(q, x)
         /\ Append(q, x) # <<>>
         /\ Len(q) \in Nat /\ Len(Append(q, x)) = Len(q) + 1
         /\ SubSeq(Append(q, x), 1, Len(Append(q, x)) - 1) = q
         /\ SubSeq(Append(q, x), Len(Append(q, x)), Len(Append(q, x))) = <<x>>
         /\ SubSeq(q, Len(q) + 1, Len(q)) = <<>>
<1> DEFINE s == Append(q, x)
<1>1. q \o <<>> = q
  BY ConcatEmptySeq
<1>2. q \o <<x>> = s
  BY AppendIsConcat
<1>3. Len(q) \in Nat /\ s \in Seq(Nat) /\ s # <<>> /\ Len(s) = Len(q) + 1
      /\ s[Len(q) + 1] = x /\ \A i \in 1..Len(q) : s[i] = q[i]
  BY LenProperties, AppendProperties
<1> HIDE DEF s
<1>4. SubSeq(s, 1, Len(s) - 1) = q
  <2> DEFINE t == SubSeq(s, 1, Len(q))
  <2>1. t \in Seq(Nat) /\ Len(t) = Len(q) /\ \A i \in 1..Len(q) : t[i] = s[i]
    <3>1. \A i \in 1..Len(q) : s[i] \in Nat
      BY <1>3, ElementOfSeq
    <3> QED
      BY <1>3, <3>1, SubSeqProperties
  <2> HIDE DEF t
  <2>2. t = q
    BY <2>1, <1>3, SeqEqual
  <2> QED
    BY <2>2, <1>3 DEF t
<1>5. SubSeq(s, Len(s), Len(s)) = <<x>>
  <2>1. SubSeq(s, Len(s), Len(s)) = <<s[Len(s)]>> \o SubSeq(s, Len(s) + 1, Len(s))
    BY <1>3, SubSeqRecursiveFirst
  <2>2. SubSeq(s, Len(s) + 1, Len(s)) = <<>>
    BY <1>3, SubSeqEmpty
  <2>3. <<x>> \in Seq(Nat) /\ <<x>> \o <<>> = <<x>>
    BY ConcatEmptySeq
  <2> QED
    BY <1>3, <2>1, <2>2, <2>3
<1>6. SubSeq(q, Len(q) + 1, Len(q)) = <<>>
  BY <1>3, SubSeqEmpty
<1> QED
  BY <1>1, <1>2, <1>3, <1>4, <1>5, <1>6 DEF s

LEMMA ReadOps ==
  ASSUME NEW q \in Seq(Nat), NEW r \in Seq(Nat), q # <<>>
  PROVE  /\ q \o r # <<>>
         /\ Head(q \o r) = Head(q)
         /\ Tail(q \o r) = Tail(q) \o r
<1>1. /\ q \o r \in Seq(Nat) /\ Len(q \o r) = Len(q) + Len(r)
      /\ \A i \in 1 .. Len(q) + Len(r) :
           (q \o r)[i] = IF i <= Len(q) THEN q[i] ELSE r[i - Len(q)]
  BY ConcatProperties
<1>2. Len(q) \in Nat \ {0} /\ Len(r) \in Nat
  BY LenProperties, EmptySeq
<1>3. q \o r # <<>>
  BY <1>1, <1>2
<1>4. Head(q \o r) = Head(q)
  BY <1>1, <1>2
<1>5. Tail(q \o r) = Tail(q) \o r
  <2>1. /\ Tail(q) \in Seq(Nat) /\ Len(Tail(q)) = Len(q) - 1
        /\ \A i \in 1 .. Len(q) - 1 : Tail(q)[i] = q[i+1]
    BY HeadTailProperties
  <2>2. /\ Tail(q \o r) \in Seq(Nat) /\ Len(Tail(q \o r)) = Len(q) + Len(r) - 1
        /\ \A i \in 1 .. Len(q) + Len(r) - 1 : Tail(q \o r)[i] = (q \o r)[i+1]
    BY <1>1, <1>3, HeadTailProperties
  <2>3. /\ Tail(q) \o r \in Seq(Nat) /\ Len(Tail(q) \o r) = Len(q) - 1 + Len(r)
        /\ \A i \in 1 .. Len(q) - 1 + Len(r) :
             (Tail(q) \o r)[i] = IF i <= Len(q) - 1 THEN Tail(q)[i] ELSE r[i - (Len(q) - 1)]
    BY <2>1, ConcatProperties
  <2>4. \A i \in 1 .. Len(q) + Len(r) - 1 : Tail(q \o r)[i] = (Tail(q) \o r)[i]
    BY <1>1, <1>2, <2>1, <2>2, <2>3
  <2> QED
    BY <1>2, <2>2, <2>3, <2>4, SeqEqual
<1> QED
  BY <1>3, <1>4, <1>5

-----------------------------------------------------------------------------
\* The refinement mapping, and what it makes of one device's bytes.
Items == [d \in Devices |-> UnderWay(d)]
ChannelVars == <<Items, produced, delivered>>

LEMMA UnderWayCases ==
  ASSUME Stores, Stores', NEW d \in Devices
  PROVE  /\ queue[d] \in Seq(Nat) /\ produced[d] \in Nat
         /\ d \in requesting => Items[d] = Append(queue[d], produced[d])
         /\ d \notin requesting => Items[d] = queue[d]
         /\ d \in requesting' => Items'[d] = Append(queue'[d], produced'[d])
         /\ d \notin requesting' => Items'[d] = queue'[d]
<1>1. /\ queue[d] \in Seq(Nat) /\ produced[d] \in Nat
      /\ queue'[d] \in Seq(Nat) /\ produced'[d] \in Nat
  BY DEF Stores
<1>2. /\ d \in requesting => Items[d] = Append(queue[d], produced[d])
      /\ d \notin requesting => Items[d] = queue[d]
  BY <1>1, ChannelOps DEF Items, UnderWay
<1>3. /\ d \in requesting' => Items'[d] = Append(queue'[d], produced'[d])
      /\ d \notin requesting' => Items'[d] = queue'[d]
  BY <1>1, ChannelOps DEF Items, UnderWay
<1> QED
  BY <1>1, <1>2, <1>3

\* A step that touches one device only changes that device's channel.
LEMMA OneChannel ==
  ASSUME NEW d \in Devices,
         \A e \in Devices \ {d} :
           /\ queue'[e] = queue[e] /\ produced'[e] = produced[e]
           /\ e \in requesting' <=> e \in requesting
  PROVE  Items' = [Items EXCEPT ![d] = Items'[d]]
<1>1. \A e \in Devices \ {d} : UnderWay(e)' = UnderWay(e)
  BY DEF UnderWay
<1> QED
  BY <1>1 DEF Items

LEMMA InitChannel == Init => Channel!Init
<1> SUFFICES ASSUME Init PROVE Items = [d \in Devices |-> <<>>]
  BY DEF Init, Channel!Init, Items
<1>1. \A d \in Devices : UnderWay(d) = <<>> \o <<>>
  BY DEF Init, UnderWay
<1>2. <<>> \o <<>> = <<>>
  BY EmptyQueue, ChannelOps
<1> QED
  BY <1>1, <1>2 DEF Items

LEMMA NextChannel == TypeInv /\ TypeInv' /\ [Next]_vars => [Channel!Next]_ChannelVars
<1> SUFFICES ASSUME Stores, Stores', [Next]_vars
             PROVE  (\E d \in Devices : \/ Channel!Produce(d) \/ Channel!Deliver(d)
                                        \/ Channel!LoseNewest(d) \/ Channel!Forget(d))
                    \/ UNCHANGED ChannelVars
  BY DEF Channel!Next, ChannelVars, TypeInv, Items
<1> USE DEF device, store, thread, waits
<1> DEFINE Same == UNCHANGED <<queue, requesting, produced, delivered>>
<1>0. ASSUME Same PROVE UNCHANGED ChannelVars
  BY <1>0 DEF ChannelVars, Items, UnderWay
<1>1. ASSUME NEW d \in Devices, Request(d) PROVE Channel!Produce(d)
  <2>1. Items' = [Items EXCEPT ![d] = Items'[d]]
    BY <1>1, OneChannel DEF Request, Stores
  <2>2. Items[d] = queue[d] /\ Items'[d] = Append(queue[d], produced[d] + 1)
    <3>1. Items[d] = queue[d] /\ Items'[d] = Append(queue'[d], produced'[d])
      BY <1>1, UnderWayCases DEF Request
    <3> QED
      BY <1>1, <3>1 DEF Request, Stores
  <2> QED
    BY <1>1, <2>1, <2>2 DEF Request, Channel!Produce, Items
<1>2. ASSUME NEW d \in Devices, ReadQueued(d) PROVE Channel!Deliver(d) \/ UNCHANGED ChannelVars
  <2>1. CASE Same
    BY <1>0, <2>1
  <2>2. CASE ~Same
    <3> DEFINE r == IF d \in requesting THEN <<produced[d]>> ELSE <<>>
    <3>1. /\ queue[d] # <<>> /\ queue' = [queue EXCEPT ![d] = Tail(@)]
          /\ delivered' = [delivered EXCEPT ![d] = Head(queue[d])]
          /\ UNCHANGED <<requesting, produced>>
      BY <1>2, <2>2 DEF ReadQueued
    <3>2. Items' = [Items EXCEPT ![d] = Items'[d]]
      BY <3>1, OneChannel DEF Stores
    <3>3. queue[d] \in Seq(Nat) /\ r \in Seq(Nat)
      BY EmptyQueue DEF Stores
    <3>4. Items[d] = queue[d] \o r /\ Items'[d] = Tail(queue[d]) \o r
      BY <3>1 DEF Items, UnderWay, Stores
    <3> HIDE DEF r
    <3>5. Items[d] # <<>> /\ Head(Items[d]) = Head(queue[d]) /\ Items'[d] = Tail(Items[d])
      BY <3>1, <3>3, <3>4, ReadOps
    <3> QED
      BY <3>1, <3>2, <3>5 DEF Channel!Deliver, Items
  <2> QED
    BY <2>1, <2>2
<1>3. ASSUME NEW d \in Devices, ReadDevice(d) PROVE Channel!Deliver(d) \/ Channel!LoseNewest(d)
  <2>1. Items' = [Items EXCEPT ![d] = Items'[d]]
    BY <1>3, OneChannel DEF ReadDevice, Answer
  <2>2. /\ Items[d] = Append(<<>>, produced[d]) /\ Items'[d] = <<>> /\ produced[d] \in Nat
    BY <1>3, UnderWayCases DEF ReadDevice, Answer
  <2>3. /\ Items[d] # <<>> /\ Head(Items[d]) = produced[d] /\ Tail(Items[d]) = <<>>
        /\ SubSeq(Items[d], 1, Len(Items[d]) - 1) = <<>>
    BY <2>2, EmptyQueue, ChannelOps, HeadTailAppend
  <2>4. CASE delivered' = [delivered EXCEPT ![d] = produced[d]]
    BY <1>3, <2>1, <2>2, <2>3, <2>4 DEF ReadDevice, Answer, Channel!Deliver, Items
  <2>5. CASE UNCHANGED delivered
    BY <1>3, <2>1, <2>2, <2>3, <2>5 DEF ReadDevice, Answer, Channel!LoseNewest, Items
  <2> QED
    BY <1>3, <2>4, <2>5 DEF ReadDevice
<1>4. ASSUME NEW d \in Devices, CloseDev(d) PROVE Channel!Forget(d)
  <2>1. Items' = [Items EXCEPT ![d] = Items'[d]]
    BY <1>4, OneChannel DEF CloseDev, Stores
  <2>2. \E kept \in 0..1 :
          /\ kept <= Len(Items[d])
          /\ Items'[d] = SubSeq(Items[d], Len(Items[d]) - kept + 1, Len(Items[d]))
    <3>1. CASE d \in requesting
      <4>1. Items[d] = Append(queue[d], produced[d]) /\ Items'[d] = <<produced[d]>>
        <5>1. Items[d] = Append(queue[d], produced[d]) /\ Items'[d] = <<>> \o <<produced[d]>>
          BY <1>4, <3>1, UnderWayCases DEF CloseDev, Items, UnderWay, Stores
        <5> QED
          BY <5>1, ConcatEmptySeq
      <4>2. /\ queue[d] \in Seq(Nat) /\ produced[d] \in Nat
        BY DEF Stores
      <4> DEFINE s == Append(queue[d], produced[d])
      <4>3. Len(s) \in Nat \ {0} /\ <<produced[d]>> = SubSeq(s, Len(s), Len(s))
        BY <4>2, ChannelOps
      <4>4. Items[d] = s
        BY <4>1
      <4> HIDE DEF s
      <4>5. 1 <= Len(s) /\ Items'[d] = SubSeq(s, Len(s) - 1 + 1, Len(s))
        BY <4>1, <4>3
      <4> QED
        BY <4>4, <4>5
    <3>2. CASE d \notin requesting
      <4>1. Items[d] = queue[d] /\ Items'[d] = <<>> /\ queue[d] \in Seq(Nat) /\ produced[d] \in Nat
        BY <1>4, <3>2, UnderWayCases DEF CloseDev, Stores
      <4> DEFINE q == queue[d]
      <4>2. Len(q) \in Nat /\ SubSeq(q, Len(q) + 1, Len(q)) = <<>>
        BY <4>1, ChannelOps
      <4> HIDE DEF q
      <4>3. 0 <= Len(q) /\ Items'[d] = SubSeq(q, Len(q) - 0 + 1, Len(q))
        BY <4>1, <4>2
      <4>4. Items[d] = q
        BY <4>1 DEF q
      <4> QED
        BY <4>3, <4>4
    <3> QED
      BY <3>1, <3>2
  <2> QED
    BY <1>4, <2>1, <2>2 DEF CloseDev, Channel!Forget, Items
<1>5. ASSUME NEW d \in Devices, PollQueue(d) PROVE UNCHANGED ChannelVars
  <2>1. Items' = [Items EXCEPT ![d] = Items'[d]]
    BY <1>5, OneChannel DEF PollQueue, Answer, Stores
  <2>2. Items'[d] = Items[d]
    <3>1. Items[d] = Append(queue[d], produced[d]) /\ Items'[d] = queue'[d]
      BY <1>5, UnderWayCases DEF PollQueue, Answer
    <3> QED
      BY <1>5, <3>1 DEF PollQueue, Push, Stores
  <2> QED
    BY <1>5, <2>1, <2>2 DEF PollQueue, Answer, ChannelVars, Items
<1>6. ASSUME NEW d \in Devices, Discard(d) PROVE Channel!LoseNewest(d)
  <2>1. Items' = [Items EXCEPT ![d] = Items'[d]]
    BY <1>6, OneChannel DEF Discard, Answer
  <2>2. Items[d] = Append(queue[d], produced[d]) /\ Items'[d] = queue[d]
        /\ queue[d] \in Seq(Nat) /\ produced[d] \in Nat
    BY <1>6, UnderWayCases DEF Discard, Answer
  <2> DEFINE s == Append(queue[d], produced[d])
  <2>3. s # <<>> /\ queue[d] = SubSeq(s, 1, Len(s) - 1)
    BY <2>2, ChannelOps
  <2>4. Items[d] = s
    BY <2>2
  <2> HIDE DEF s
  <2>5. Items[d] # <<>> /\ Items'[d] = SubSeq(Items[d], 1, Len(Items[d]) - 1)
    BY <2>2, <2>3, <2>4
  <2> QED
    BY <1>6, <2>1, <2>5 DEF Discard, Answer, Channel!LoseNewest, Items
<1>7. ASSUME NEW d \in Devices, OpenDev(d) \/ PollNothing(d) PROVE UNCHANGED ChannelVars
  BY <1>0, <1>7 DEF OpenDev, PollNothing
<1>8. ASSUME NEW d \in Devices,
             WaitBegin(d) \/ WaitSatisfied(d) \/ WaitOver(d) \/ WaitSignalled(d)
      PROVE  UNCHANGED ChannelVars
  BY <1>0, <1>8 DEF WaitBegin, WaitSatisfied, WaitOver, WaitSignalled, NoOtherChange
<1>9. CASE SrqInterrupt \/ OtherInterrupt \/ ThreadSleep
  BY <1>0, <1>9 DEF SrqInterrupt, OtherInterrupt, ThreadSleep
<1>10. CASE PollBegin \/ PollEnd \/ PollFail \/ CleanupFail
  BY <1>0, <1>10 DEF PollBegin, PollEnd, PollFail, CleanupFail
<1>11. CASE UNCHANGED vars
  BY <1>0, <1>11 DEF vars
<1> QED
  BY <1>1, <1>2, <1>3, <1>4, <1>5, <1>6, <1>7, <1>8, <1>9, <1>10, <1>11
  DEF Next, Poll, PollOverflow, PollNoMemory

\* The automatic poll and ibrsp between them implement the channel: each device's
\* bytes reach ibrsp in the order it produced them and at most once, by whichever
\* of the two routes, whatever is lost, closed or reopened on the way.
THEOREM ImplementsChannel == Spec => DeliversInOrder
<1>1. TypeInv /\ TypeInv' /\ [Next]_vars => [Channel!Next]_ChannelVars
  BY NextChannel
<1> QED
  BY InitType, NextType, InitChannel, <1>1, PTL
  DEF Spec, DeliversInOrder, Channel!Spec, ChannelVars, Items

-----------------------------------------------------------------------------
(* What the channel promises its readers, and the poll those of ibrsp *)

\* q holds bytes in the order of their production, none of them delivered yet.
InOrder(q, newest, last) ==
  /\ \A i \in 1..Len(q) : last < q[i] /\ q[i] <= newest
  /\ \A i, j \in 1..Len(q) : i < j => q[i] < q[j]

ChannelInv ==
  /\ Items \in [Devices -> Seq(Nat)]
  /\ produced \in [Devices -> Nat] /\ delivered \in [Devices -> Nat]
  /\ \A d \in Devices : delivered[d] <= produced[d] /\ InOrder(Items[d], produced[d], delivered[d])

\* A delivered byte is newer than every byte delivered before it.
NewestDelivered ==
  \A d \in Devices : /\ delivered'[d] >= delivered[d]
                     /\ Channel!Deliver(d) => delivered'[d] > delivered[d]

LEMMA ChannelInit == Channel!Init => ChannelInv
<1> SUFFICES ASSUME Channel!Init PROVE ChannelInv
  OBVIOUS
<1>1. /\ Items = [d \in Devices |-> <<>>]
      /\ produced = [d \in Devices |-> 0] /\ delivered = [d \in Devices |-> 0]
  BY DEF Channel!Init, Items
<1>2. <<>> \in Seq(Nat) /\ InOrder(<<>>, 0, 0)
  BY EmptyQueue DEF InOrder
<1> HIDE DEF Items
<1> QED
  BY <1>1, <1>2 DEF ChannelInv

\* What the operations do to the order of one channel.
LEMMA OrderKept ==
  ASSUME NEW q \in Seq(Nat), NEW p \in Nat, NEW l \in Nat, l <= p, InOrder(q, p, l)
  PROVE  /\ Append(q, p + 1) \in Seq(Nat) /\ InOrder(Append(q, p + 1), p + 1, l)
         /\ q # <<>> => /\ Head(q) \in Nat /\ l < Head(q) /\ Head(q) <= p
                        /\ Tail(q) \in Seq(Nat) /\ InOrder(Tail(q), p, Head(q))
         /\ \A m \in 1..Len(q) + 1, n \in 0..Len(q) :
              SubSeq(q, m, n) \in Seq(Nat) /\ InOrder(SubSeq(q, m, n), p, l)
<1> USE DEF InOrder
<1>0. Len(q) \in Nat /\ \A i \in 1..Len(q) : q[i] \in Nat
  BY LenProperties, ElementOfSeq
<1>1. Append(q, p + 1) \in Seq(Nat) /\ InOrder(Append(q, p + 1), p + 1, l)
  <2> DEFINE s == Append(q, p + 1)
  <2>1. /\ s \in Seq(Nat) /\ Len(s) = Len(q) + 1 /\ s[Len(q) + 1] = p + 1
        /\ \A i \in 1..Len(q) : s[i] = q[i]
    BY AppendProperties
  <2> HIDE DEF s
  <2>2. ASSUME NEW i \in 1..Len(s) PROVE l < s[i] /\ s[i] <= p + 1
    BY <1>0, <2>1
  <2>3. ASSUME NEW i \in 1..Len(s), NEW j \in 1..Len(s), i < j PROVE s[i] < s[j]
    <3>1. s[i] = q[i] /\ i \in 1..Len(q)
      BY <1>0, <2>1, <2>3
    <3>2. CASE j = Len(q) + 1
      BY <1>0, <2>1, <3>1, <3>2
    <3>3. CASE j \in 1..Len(q)
      BY <1>0, <2>1, <2>3, <3>1, <3>3
    <3> QED
      BY <1>0, <2>1, <3>2, <3>3
  <2> QED
    BY <2>1, <2>2, <2>3 DEF s
<1>2. ASSUME q # <<>>
      PROVE  /\ Head(q) \in Nat /\ l < Head(q) /\ Head(q) <= p
             /\ Tail(q) \in Seq(Nat) /\ InOrder(Tail(q), p, Head(q))
  <2>1. Len(q) # 0 /\ Head(q) = q[1]
    BY <1>0, <1>2, EmptySeq
  <2> DEFINE t == Tail(q)
  <2>2. t \in Seq(Nat) /\ Len(t) = Len(q) - 1 /\ \A i \in 1..Len(t) : t[i] = q[i + 1]
    BY <1>2, HeadTailProperties
  <2> HIDE DEF t
  <2>3. ASSUME NEW i \in 1..Len(t) PROVE q[1] < t[i] /\ t[i] <= p
    <3>1. 1 \in 1..Len(q) /\ i + 1 \in 1..Len(q) /\ 1 < i + 1
      BY <1>0, <2>1, <2>2
    <3> QED
      BY <2>2, <3>1
  <2>4. ASSUME NEW i \in 1..Len(t), NEW j \in 1..Len(t), i < j PROVE t[i] < t[j]
    <3>1. i + 1 \in 1..Len(q) /\ j + 1 \in 1..Len(q) /\ i + 1 < j + 1
      BY <1>0, <2>2, <2>4
    <3> QED
      BY <2>2, <3>1
  <2> QED
    BY <1>0, <2>1, <2>2, <2>3, <2>4 DEF t
<1>3. ASSUME NEW m \in 1..Len(q) + 1, NEW n \in 0..Len(q)
      PROVE  SubSeq(q, m, n) \in Seq(Nat) /\ InOrder(SubSeq(q, m, n), p, l)
  <2> DEFINE s == SubSeq(q, m, n)
  <2>1. /\ s \in Seq(Nat) /\ Len(s) = (IF m <= n THEN n - m + 1 ELSE 0)
        /\ \A i \in 1..n - m + 1 : s[i] = q[m + i - 1]
    <3>1. \A i \in m..n : q[i] \in Nat
      BY <1>0, <1>3
    <3> QED
      BY <1>0, <1>3, <3>1, SubSeqProperties
  <2> HIDE DEF s
  <2>2. ASSUME NEW i \in 1..Len(s)
        PROVE  i \in 1..n - m + 1 /\ m + i - 1 \in 1..Len(q) /\ s[i] = q[m + i - 1]
    BY <1>0, <1>3, <2>1
  <2>3. ASSUME NEW i \in 1..Len(s), NEW j \in 1..Len(s), i < j PROVE s[i] < s[j]
    <3>1. m + i - 1 < m + j - 1
      BY <1>0, <1>3, <2>1, <2>3
    <3> QED
      BY <2>2, <3>1
  <2> QED
    BY <2>1, <2>2, <2>3 DEF s
<1> QED
  BY <1>1, <1>2, <1>3

\* The channel's operations, with its contents as Items.
Produces(d) ==
  /\ produced' = [produced EXCEPT ![d] = @ + 1]
  /\ Items' = [Items EXCEPT ![d] = Append(@, produced[d] + 1)]
  /\ UNCHANGED delivered
Delivers(d) ==
  /\ Items[d] # <<>>
  /\ delivered' = [delivered EXCEPT ![d] = Head(Items[d])]
  /\ Items' = [Items EXCEPT ![d] = Tail(@)]
  /\ UNCHANGED produced
LosesNewest(d) ==
  /\ Items[d] # <<>>
  /\ Items' = [Items EXCEPT ![d] = SubSeq(@, 1, Len(@) - 1)]
  /\ UNCHANGED <<produced, delivered>>
Forgets(d) ==
  /\ \E kept \in 0..1 :
       /\ kept <= Len(Items[d])
       /\ Items' = [Items EXCEPT ![d] = SubSeq(@, Len(@) - kept + 1, Len(@))]
  /\ UNCHANGED <<produced, delivered>>

LEMMA ChannelSteps ==
  ASSUME NEW d \in Devices
  PROVE  /\ Channel!Produce(d) <=> Produces(d)
         /\ Channel!Deliver(d) <=> Delivers(d)
         /\ Channel!LoseNewest(d) <=> LosesNewest(d)
         /\ Channel!Forget(d) <=> Forgets(d)
<1>1. Channel!Produce(d) <=> Produces(d)
  BY DEF Channel!Produce, Produces, Items
<1>2. Channel!Deliver(d) <=> Delivers(d)
  BY DEF Channel!Deliver, Delivers, Items
<1>3. Channel!LoseNewest(d) <=> LosesNewest(d)
  BY DEF Channel!LoseNewest, LosesNewest, Items
<1>4. Channel!Forget(d) <=> Forgets(d)
  BY DEF Channel!Forget, Forgets, Items
<1> QED
  BY <1>1, <1>2, <1>3, <1>4

LEMMA ChannelNext ==
  ChannelInv /\ [Channel!Next]_ChannelVars => ChannelInv' /\ NewestDelivered
<1> SUFFICES ASSUME ChannelInv, [Channel!Next]_ChannelVars
             PROVE  ChannelInv' /\ NewestDelivered
  OBVIOUS
<1> DEFINE
      Good(q, p, l) == q \in Seq(Nat) /\ p \in Nat /\ l \in Nat /\ l <= p /\ InOrder(q, p, l)
      Changed(d, q, p, l) ==
        /\ Items' = [Items EXCEPT ![d] = q] /\ produced' = [produced EXCEPT ![d] = p]
        /\ delivered' = [delivered EXCEPT ![d] = l]
<1>0. ASSUME NEW d \in Devices PROVE Good(Items[d], produced[d], delivered[d])
  BY DEF ChannelInv
<1>1. ASSUME NEW d \in Devices, NEW q, NEW p, NEW l, Good(q, p, l), Changed(d, q, p, l)
      PROVE  ChannelInv'
  BY <1>1 DEF ChannelInv
<1>2. ASSUME NEW d \in Devices, Delivers(d) PROVE ChannelInv' /\ delivered'[d] > delivered[d]
  <2> DEFINE h == Head(Items[d])
  <2>1. Good(Tail(Items[d]), produced[d], h) /\ delivered[d] < h
    BY <1>0, <1>2, OrderKept DEF Delivers
  <2>2. Changed(d, Tail(Items[d]), produced[d], h)
    BY <1>2 DEF Delivers, ChannelInv
  <2>3. delivered'[d] = h
    BY <2>2 DEF ChannelInv
  <2> HIDE DEF Good, Changed, h
  <2>4. ChannelInv'
    BY <1>1, <2>1, <2>2
  <2> QED
    BY <1>0, <2>1, <2>3, <2>4 DEF Good
<1>3. ASSUME NEW d \in Devices, Produces(d) PROVE ChannelInv'
  <2>1. Good(Append(Items[d], produced[d] + 1), produced[d] + 1, delivered[d])
    BY <1>0, OrderKept
  <2>2. Changed(d, Append(Items[d], produced[d] + 1), produced[d] + 1, delivered[d])
    BY <1>3 DEF Produces, ChannelInv
  <2> HIDE DEF Good, Changed
  <2> QED
    BY <1>1, <2>1, <2>2
<1>4. ASSUME NEW d \in Devices, LosesNewest(d) \/ Forgets(d) PROVE ChannelInv'
  <2> DEFINE s == Items[d]
  <2>0. Len(s) \in Nat /\ (s # <<>> => Len(s) # 0)
    BY <1>0, LenProperties, EmptySeq
  <2>1. PICK m \in 1..Len(s) + 1, n \in 0..Len(s) : Items' = [Items EXCEPT ![d] = SubSeq(s, m, n)]
    <3>1. CASE LosesNewest(d)
      <4>1. 1 \in 1..Len(s) + 1 /\ Len(s) - 1 \in 0..Len(s)
        BY <2>0, <3>1 DEF LosesNewest
      <4>2. Items' = [Items EXCEPT ![d] = SubSeq(s, 1, Len(s) - 1)]
        BY <3>1 DEF LosesNewest
      <4> QED
        BY <4>1, <4>2
    <3>2. CASE Forgets(d)
      <4>1. PICK kept \in 0..1 :
              kept <= Len(s) /\ Items' = [Items EXCEPT ![d] = SubSeq(s, Len(s) - kept + 1, Len(s))]
        BY <3>2 DEF Forgets
      <4>2. Len(s) - kept + 1 \in 1..Len(s) + 1 /\ Len(s) \in 0..Len(s)
        BY <2>0, <4>1
      <4> QED
        BY <4>1, <4>2
    <3> QED
      BY <1>4, <3>1, <3>2
  <2>2. Good(SubSeq(s, m, n), produced[d], delivered[d])
    <3>1. \A i \in 1..Len(s) + 1, j \in 0..Len(s) :
            SubSeq(s, i, j) \in Seq(Nat) /\ InOrder(SubSeq(s, i, j), produced[d], delivered[d])
      BY <1>0, OrderKept
    <3> QED
      BY <1>0, <3>1
  <2>3. Changed(d, SubSeq(s, m, n), produced[d], delivered[d])
    BY <1>4, <2>1 DEF LosesNewest, Forgets, ChannelInv
  <2> HIDE DEF Good, Changed, s
  <2> QED
    BY <1>1, <2>2, <2>3
<1>5. ASSUME UNCHANGED ChannelVars PROVE ChannelInv'
  BY <1>5 DEF ChannelInv, ChannelVars
<1>8. \/ UNCHANGED ChannelVars
      \/ \E d \in Devices : Produces(d) \/ Delivers(d) \/ LosesNewest(d) \/ Forgets(d)
  BY ChannelSteps DEF Channel!Next
<1>6. ChannelInv'
  BY <1>2, <1>3, <1>4, <1>5, <1>8
<1>7. ASSUME NEW d \in Devices PROVE delivered'[d] >= delivered[d]
  <2>1. ASSUME NEW e \in Devices, Delivers(e) PROVE delivered'[d] = delivered[d] \/ d = e
    BY <2>1 DEF Delivers, ChannelInv
  <2>2. delivered' = delivered \/ \E e \in Devices : Delivers(e)
    BY <1>8 DEF ChannelVars, Produces, LosesNewest, Forgets
  <2>3. delivered[d] \in Nat /\ delivered'[d] \in Nat
    BY <1>6 DEF ChannelInv
  <2>4. CASE delivered' = delivered
    BY <2>3, <2>4
  <2>5. ASSUME NEW e \in Devices, Delivers(e) PROVE delivered'[d] >= delivered[d]
    BY <1>2, <2>1, <2>3, <2>5
  <2> QED
    BY <2>2, <2>4, <2>5
<1> QED
  BY <1>2, <1>6, <1>7, ChannelSteps DEF NewestDelivered

\* However the two routes interleave, the bytes that readers get of one device are
\* in the order in which the device produced them, and none is given out twice.
THEOREM DeliveredOnce == Spec => [][NewestDelivered]_ChannelVars
<1>1. Spec => Channel!Init /\ [][Channel!Next]_ChannelVars
  BY ImplementsChannel, PTL DEF DeliversInOrder, Channel!Spec, ChannelVars, Items
<1> QED
  BY <1>1, ChannelInit, ChannelNext, PTL

\* No reader of a device gets a byte that is older than one that was read before.
THEOREM NeverOlder == Spec => [][\A d \in Devices : delivered'[d] >= delivered[d]]_delivered
<1>1. [NewestDelivered]_ChannelVars => [\A d \in Devices : delivered'[d] >= delivered[d]]_delivered
  BY DEF NewestDelivered, ChannelVars
<1> QED
  BY <1>1, DeliveredOnce, PTL
=============================================================================
