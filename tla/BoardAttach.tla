----------------------------- MODULE BoardAttach -----------------------------
(***************************************************************************)
(* Boards that are taken online and offline: ibonline calls the driver's   *)
(* attach, and its detach if attach or the creation of the autospoll       *)
(* thread fails; iboffline calls detach.  What the driver's functions do   *)
(* is in module DriverTables.                                              *)
(*                                                                         *)
(* IBONL runs under big_gpib_mutex, of which each board has its own: the   *)
(* boards of one driver attach and detach beside each other.  Those that   *)
(* are configured are so for one device, since otherwise they do not meet. *)
(***************************************************************************)
EXTENDS DriverTables

CONSTANTS
  Boards,
  Drivers,  \* names of tables
  Leaky,    \* drivers known not to release all that they acquire,
  Rash,     \* to release what they have not acquired,
  Greedy,   \* to release what another board of theirs has acquired,
  Wild,     \* to access what they have not mapped
  None      \* no driver

ASSUME DriversAssumption ==
  /\ Drivers \subseteq DOMAIN Tables
  /\ Leaky \cup Rash \cup Greedy \cup Wild \subseteq DOMAIN Tables
  /\ None \notin Drivers

VARIABLES
  driver,  \* board->interface, and the device it is configured for
  stage,   \* where ibonline or iboffline is; "failed" is detach after a failed attach
  step,    \* in the driver's function
  held,    \* the resources that the board has acquired
  marks,   \* the fields set in board->private_data, and board->dev
  static,  \* the fields set in structures that boards share
  buffer   \* board->buffer is allocated

boards_vars == <<driver, stage, step, held, marks, static, buffer>>

\* Fields that outlive private_data, and those that do not belong to the board.
BoardFields == {"dev"}
StaticFields == {"used", "mite_phys_addr", "mite_io_addr", "daq_io_addr", "drvdata", "gpios"}

\* Resources that one board holds at a time, and is refused if another does,
\* in which it may be found released by its address.
Exclusive ==
  { "regions", "region", "region0", "region1", "region2", "region3", "clear_region",
    "dma_port", "counter", "dma_channel", "gpios", "pnp", "isapnp_cfg" }
\* Mappings of a device that are kept where every board finds them.
SharedMaps == {"mite_io", "daq"}
\* Accesses that go through a pointer, and fault without it.
Mapped ==
  {"map", "daq", "mite_io", "plx", "gpib", "sram", "borg", "misc", "fifo", "counter_map"}
\* What may be given back without having been taken: kfree(NULL), an
\* interrupt enable bit, the pseudo interrupt of the board.
Harmless == {"private", "dma_buffer", "bridge_intr", "pseudo_irq"}

AttachOf(b) == Tables[driver[b]].attach
DetachOf(b) == Tables[driver[b]].detach
Fields(b) == marks[b] \cup static
Current(b) == IF stage[b] = "attach" THEN AttachOf(b)[step[b]] ELSE DetachOf(b)[step[b]]
More(b) == step[b] <= Len(IF stage[b] = "attach" THEN AttachOf(b) ELSE DetachOf(b))
Attaching(b) == stage[b] = "attach" /\ More(b)
Detaching(b) == stage[b] \in {"failed", "detach"} /\ More(b)

\* The current step of attach is tried, and the one of detach done.
Tried(b) == Attaching(b) /\ Current(b).when \subseteq Fields(b)
Taken(b, r) ==
  \/ r \in Exclusive /\ \E c \in Boards : r \in held[c]
  \/ r = "pseudo_irq" /\ r \in held[b]
Refused(b) ==
  \/ \E r \in Current(b).get : Taken(b, r)
  \/ Current(b).absent \cap Fields(b) # {}
Faults(b) == (Current(b).need \cap Mapped) \ held[b] # {}

BoardsInit ==
  /\ \E d \in Drivers, configured \in SUBSET Boards :
       driver = [b \in Boards |-> IF b \in configured THEN d ELSE None]
  /\ stage = [b \in Boards |-> "offline"]
  /\ step = [b \in Boards |-> 1]
  /\ held = [b \in Boards |-> {}]
  /\ marks = [b \in Boards |-> {}]
  /\ static = {}
  /\ buffer = [b \in Boards |-> FALSE]

GoesTo(b, label) == stage' = [stage EXCEPT ![b] = label] /\ step' = [step EXCEPT ![b] = 1]
Advance(b) == step' = [step EXCEPT ![b] = @ + 1] /\ UNCHANGED stage

\* Set and clear fields, wherever they are.
SetFields(b, fields) ==
  /\ marks' = [marks EXCEPT ![b] = @ \cup (fields \ StaticFields)]
  /\ static' = static \cup (fields \cap StaticFields)

\* Resources are released by address: another board's, if it is not b's.
ReleaseFrom(b, resources) ==
  held' = [c \in Boards |->
             IF c = b THEN held[c] \ resources
             ELSE held[c] \ ((resources \ held[b]) \cap (Exclusive \cup SharedMaps))]

\* A mistake: private_data is allocated without being cleared.
MutantFieldsAfter(b, s) == marks[b]
\* Freeing private_data takes its fields along.
FieldsAfter(b, s) ==
  IF "private" \in s.free THEN marks[b] \cap BoardFields ELSE marks[b]

-----------------------------------------------------------------------------
(* ibonline *)

Online(b) ==
  /\ stage[b] = "offline" /\ driver[b] # None
  /\ buffer' = [buffer EXCEPT ![b] = TRUE]
  /\ marks' = [marks EXCEPT ![b] = @ \ BoardFields]
  /\ GoesTo(b, "attach")
  /\ UNCHANGED <<driver, held, static>>

AttachStep(b) ==
  /\ Tried(b)
  /\ ~Refused(b) /\ ~Faults(b)
  /\ LET s == Current(b) IN
       /\ held' = [held EXCEPT ![b] = (@ \cup s.get) \ s.drop]
       /\ SetFields(b, s.mark)
  /\ Advance(b)
  /\ UNCHANGED <<driver, buffer>>

\* A mistake: attach goes on after an error.
MutantAttachSkips(b) ==
  /\ Attaching(b)
  /\ ~Tried(b) \/ Current(b).fail # {}
  /\ Advance(b)
  /\ UNCHANGED <<driver, held, marks, static, buffer>>
\* What the configuration does not ask for, or the code does without.
AttachSkips(b) ==
  /\ Attaching(b)
  /\ ~Tried(b) \/ "skip" \in Current(b).fail
  /\ Advance(b)
  /\ UNCHANGED <<driver, held, marks, static, buffer>>

\* isapnp_cfg_begin waits for its mutex instead of failing.
AttachFails(b) ==
  /\ Tried(b)
  /\ "error" \in Current(b).fail \/ Refused(b)
  /\ Current(b).get \cap {"isapnp_cfg"} = {}
  /\ ~Faults(b)
  /\ LET s == Current(b) IN
       /\ ReleaseFrom(b, s.undo)
       /\ marks' = [marks EXCEPT ![b] = @ \cup s.leaves]
       /\ static' = static \ s.undo
  /\ GoesTo(b, "failed")
  /\ UNCHANGED <<driver, buffer>>

\* The autospoll thread is running.
GoesOnline(b) ==
  /\ stage[b] = "attach" /\ ~More(b)
  /\ GoesTo(b, "online")
  /\ UNCHANGED <<driver, held, marks, static, buffer>>

\* A mistake: ibonline leaves the board attached.
MutantThreadFails(b) ==
  /\ stage[b] = "attach" /\ ~More(b)
  /\ GoesTo(b, "offline")
  /\ UNCHANGED <<driver, held, marks, static, buffer>>
\* kthread_run failed.
ThreadFails(b) ==
  /\ stage[b] = "attach" /\ ~More(b)
  /\ GoesTo(b, "failed")
  /\ UNCHANGED <<driver, held, marks, static, buffer>>

-----------------------------------------------------------------------------
(* iboffline, and detach *)

Offline(b) ==
  /\ stage[b] = "online"
  /\ GoesTo(b, "detach")
  /\ UNCHANGED <<driver, held, marks, static, buffer>>

DetachStep(b) ==
  /\ Detaching(b)
  /\ ~(Current(b).if \subseteq Fields(b) /\ Faults(b))
  /\ LET s == Current(b) IN
       IF s.if \subseteq Fields(b)
       THEN /\ ReleaseFrom(b, s.free)
            /\ marks' = [marks EXCEPT ![b] = FieldsAfter(b, s)]
            /\ static' = static \ s.clear
       ELSE UNCHANGED <<held, marks, static>>
  /\ Advance(b)
  /\ UNCHANGED <<driver, buffer>>

\* iboffline frees the buffer, ibonline keeps it for the next time.
Detached(b) ==
  /\ stage[b] \in {"failed", "detach"} /\ ~More(b)
  /\ buffer' = [buffer EXCEPT ![b] = stage[b] = "failed"]
  /\ GoesTo(b, "offline")
  /\ UNCHANGED <<driver, held, marks, static>>

BoardsNext ==
  \E b \in Boards :
    \/ Online(b) \/ AttachStep(b) \/ AttachSkips(b) \/ AttachFails(b) \/ GoesOnline(b)
    \/ ThreadFails(b) \/ Offline(b) \/ DetachStep(b) \/ Detached(b)

BoardsSpec == BoardsInit /\ [][BoardsNext]_boards_vars

-----------------------------------------------------------------------------
Configured == {b \in Boards : driver[b] # None}
\* Boards whose driver may release what belongs to another of them.
Robbed == {b \in Configured : driver[b] \in Greedy /\ Configured # {b}}

(* "detach() shuts down board and frees resources" (gpib_types.h:61): a    *)
(* board that is offline holds nothing, wherever attach failed, but for    *)
(* the drivers with known leaks.                                           *)
Released ==
  \A b \in Configured \ Robbed :
    stage[b] = "offline" /\ driver[b] \notin Leaky => held[b] = {}

(* detach releases only what attach has acquired, however far it got: it   *)
(* releases nothing twice, and nothing of another board's.                 *)
OwnReleases ==
  \A b \in Configured \ Robbed :
    /\ driver[b] \notin Rash
    /\ Detaching(b)
    /\ Current(b).if \subseteq Fields(b)
    => Current(b).free \ Harmless \subseteq held[b]

(* Registers are accessed only while they are the board's: by attach and   *)
(* detach, and by the interrupt handler, which may run at any time between *)
(* request_irq and free_irq (and the pseudo interrupt from its timer).     *)
SafeAccess ==
  \A b \in Configured \ Robbed : driver[b] \notin Wild =>
    /\ Tried(b) \/ (Detaching(b) /\ Current(b).if \subseteq Fields(b))
         => Current(b).need \subseteq held[b]
    /\ held[b] \cap {"irq", "pseudo_irq"} # {} => Tables[driver[b]].handler \subseteq held[b]
=============================================================================
