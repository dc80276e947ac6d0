---------------------------- MODULE StatusChannel ----------------------------
(***************************************************************************)
(* What the status bytes of the devices promise, from a device that        *)
(* requests service to the program that calls ibrsp: one channel for each  *)
(* device, which delivers bytes in the order in which the device produced  *)
(* them, each at most once.  The newest byte may be lost on the way, and   *)
(* closing a device empties its channel but for a byte it still holds.     *)
(* Bytes are numbered as they are produced.                                *)
(***************************************************************************)
EXTENDS Integers, Sequences

CONSTANT Devices

VARIABLES
  items,      \* the bytes under way from each device, oldest first
  produced,   \* the number of the newest byte that each device produced
  delivered   \* the number of the newest byte delivered

Init ==
  /\ items = [d \in Devices |-> <<>>]
  /\ produced = [d \in Devices |-> 0] /\ delivered = [d \in Devices |-> 0]

Produce(d) ==
  /\ produced' = [produced EXCEPT ![d] = @ + 1]
  /\ items' = [items EXCEPT ![d] = Append(@, produced[d] + 1)]
  /\ UNCHANGED delivered

Deliver(d) ==
  /\ items[d] # <<>>
  /\ delivered' = [delivered EXCEPT ![d] = Head(items[d])]
  /\ items' = [items EXCEPT ![d] = Tail(@)]
  /\ UNCHANGED produced

LoseNewest(d) ==
  /\ items[d] # <<>>
  /\ items' = [items EXCEPT ![d] = SubSeq(@, 1, Len(@) - 1)]
  /\ UNCHANGED <<produced, delivered>>

Forget(d) ==
  /\ \E kept \in 0..1 :
       /\ kept <= Len(items[d])
       /\ items' = [items EXCEPT ![d] = SubSeq(@, Len(@) - kept + 1, Len(@))]
  /\ UNCHANGED <<produced, delivered>>

Next == \E d \in Devices : Produce(d) \/ Deliver(d) \/ LoseNewest(d) \/ Forget(d)

Spec == Init /\ [][Next]_<<items, produced, delivered>>
=============================================================================
