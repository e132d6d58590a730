------------------------------ MODULE TxBroker ------------------------------
(***************************************************************************)
(* The serialized priority TX broker of keemash_mesh_tx_broker.c: any task *)
(* submits packets into a fixed set of slots, one worker task sends them,  *)
(* highest priority first and oldest first within a priority.  Each step   *)
(* is one critical section of the broker's lock, or the send between two   *)
(* of them.                                                                *)
(*                                                                         *)
(* Packet bytes, destinations, the transport result and the statistics     *)
(* other than "pending" are left out; which free slot is taken does not    *)
(* matter, so the slots in use are a set.  Tickets are naturals: the code  *)
(* compares uint32_t tickets by signed difference, which agrees as long as *)
(* two packets in the slots are less than 2^31 tickets apart.              *)
(* Waiting for a notification ends after one second at the latest, so the  *)
(* worker may wake up at any time.                                         *)
(***************************************************************************)
EXTENDS Naturals, FiniteSets, Sequences

CONSTANTS
  Slots,       \* cfg.slots
  Reserved,    \* cfg.control_reserved_slots
  Levels,      \* the priorities in use, 0 .. CONTROL
  CONTROL,     \* KEEMASH_REL_PRIORITY_CONTROL
  MaxTickets   \* bound: packets accepted

\* keemash_mesh_tx_broker_init() refuses other configurations.
ASSUME BrokerAssumption ==
  /\ Slots \in Nat /\ Reserved \in Nat /\ Reserved < Slots
  /\ CONTROL \in Nat /\ Levels \subseteq 0 .. CONTROL
  /\ MaxTickets \in Nat

VARIABLES
  slots,       \* slots with used = true
  current,     \* the slot with sending = true, in the worker's hands
  worker,      \* where the worker task is
  nextTicket,  \* next_ticket, also stats.accepted
  pending,     \* stats.pending
  stopping,    \* broker->stopping
  deinit,      \* how far keemash_mesh_tx_broker_deinit() has come
  sent,        \* history: packets given to raw_send, in order
  passed       \* history: for each ticket, packets of lower priority sent while
               \* the packet was waiting

vars == <<slots, current, worker, nextTicket, pending, stopping, deinit, sent, passed>>

Packet == [ticket: Nat, priority: Levels]

Waiting == slots \ current
FreeSlots == Slots - Cardinality(slots)

\* Mutants: newest first within a priority; lowest priority first.
Before_Newest(a, b) ==
  \/ a.priority > b.priority
  \/ a.priority = b.priority /\ a.ticket > b.ticket
Before_Lowest(a, b) ==
  \/ a.priority < b.priority
  \/ a.priority = b.priority /\ a.ticket < b.ticket

\* The order of pick_next_locked().
Before(a, b) ==
  \/ a.priority > b.priority
  \/ a.priority = b.priority /\ a.ticket < b.ticket

Init ==
  /\ slots = {} /\ current = {}
  /\ worker = "waiting"
  /\ nextTicket = 0 /\ pending = 0
  /\ stopping = FALSE /\ deinit = "no"
  /\ sent = <<>> /\ passed = <<>>

\* keemash_mesh_tx_broker_submit() of a packet that fits.  It refuses when no
\* slot is free, and a packet below CONTROL when only reserved ones are.  It does
\* not look at "stopping".
Submit(priority) ==
  /\ deinit # "freed"
  /\ nextTicket < MaxTickets
  /\ FreeSlots > 0
  /\ priority < CONTROL => FreeSlots > Reserved
  /\ nextTicket' = nextTicket + 1
  /\ slots' = slots \cup {[ticket |-> nextTicket + 1, priority |-> priority]}
  /\ pending' = pending + 1
  /\ passed' = Append(passed, 0)
  /\ UNCHANGED <<current, worker, stopping, deinit, sent>>

\* ulTaskNotifyTake() returns.
Wake ==
  /\ worker = "waiting"
  /\ worker' = "picking"
  /\ UNCHANGED <<slots, current, nextTicket, pending, stopping, deinit, sent, passed>>

PickNext ==
  /\ worker = "picking" /\ ~stopping
  /\ \E s \in Waiting :
       /\ \A t \in Waiting \ {s} : Before(s, t)
       /\ current' = {s}
  /\ worker' = "sending"
  /\ UNCHANGED <<slots, nextTicket, pending, stopping, deinit, sent, passed>>

PickNothing ==
  /\ worker = "picking" /\ ~stopping
  /\ Waiting = {}
  /\ worker' = "waiting"
  /\ UNCHANGED <<slots, current, nextTicket, pending, stopping, deinit, sent, passed>>

\* raw_send() without the lock.
PassedBy(s) == {k \in DOMAIN passed :
                  \E t \in Waiting : t.ticket = k /\ t.priority > s.priority}
RawSend ==
  /\ worker = "sending"
  /\ \E s \in current :
       /\ sent' = Append(sent, s)
       /\ passed' = [k \in DOMAIN passed |->
                       IF k \in PassedBy(s) THEN passed[k] + 1 ELSE passed[k]]
  /\ worker' = "completing"
  /\ UNCHANGED <<slots, current, nextTicket, pending, stopping, deinit>>

\* Mutant: the slot stays in use, for another try.
Complete_Retries ==
  /\ worker = "completing"
  /\ current' = {}
  /\ worker' = "picking"
  /\ UNCHANGED <<slots, nextTicket, pending, stopping, deinit, sent, passed>>
\* The slot is freed whether or not raw_send() failed.
Complete ==
  /\ worker = "completing"
  /\ slots' = slots \ current
  /\ current' = {}
  /\ pending' = pending - 1
  /\ worker' = "picking"
  /\ UNCHANGED <<nextTicket, stopping, deinit, sent, passed>>

\* Mutant: the worker also leaves when there is nothing to send.
Exit_WhenIdle ==
  /\ worker = "picking" /\ (stopping \/ Waiting = {})
  /\ worker' = "gone"
  /\ UNCHANGED <<slots, current, nextTicket, pending, stopping, deinit, sent, passed>>

\* The worker sees "stopping" and deletes itself.
Exit ==
  /\ worker = "picking" /\ stopping
  /\ worker' = "gone"
  /\ UNCHANGED <<slots, current, nextTicket, pending, stopping, deinit, sent, passed>>

\* deinit(): ask the worker to stop; the lock may not be had within 100 ms.
DeinitStart ==
  /\ deinit = "no"
  /\ deinit' = "stopping"
  /\ stopping' \in {TRUE, stopping}
  /\ UNCHANGED <<slots, current, worker, nextTicket, pending, sent, passed>>

\* Mutant: the memory is freed after the wait, worker or not.
DeinitFree_Always ==
  /\ deinit = "stopping"
  /\ deinit' = "freed"
  /\ slots' = {}
  /\ UNCHANGED <<current, worker, nextTicket, pending, stopping, sent, passed>>

\* The memory is freed once the worker is gone; after one second of waiting for
\* it deinit gives up and leaves the broker allocated.
DeinitFree ==
  /\ deinit = "stopping"
  /\ deinit' = IF worker = "gone" THEN "freed" ELSE "abandoned"
  /\ slots' = IF worker = "gone" THEN {} ELSE slots
  /\ UNCHANGED <<current, worker, nextTicket, pending, stopping, sent, passed>>

Worker == Wake \/ PickNext \/ PickNothing \/ RawSend \/ Complete \/ Exit
Next ==
  \/ \E priority \in Levels : Submit(priority)
  \/ Worker
  \/ DeinitStart
  \/ DeinitFree

Spec == Init /\ [][Next]_vars

\* The worker task keeps running.
FairSpec == Spec /\ WF_vars(Worker)

----------------------------------------------------------------------------
\* The slots and counters of the broker; stats.pending is unsigned and must not be
\* decremented below 0.
TypeOK ==
  /\ slots \in SUBSET Packet
  /\ current \in SUBSET Packet
  /\ worker \in {"waiting", "picking", "sending", "completing", "gone"}
  /\ nextTicket \in Nat
  /\ pending \in Nat
  /\ stopping \in BOOLEAN
  /\ deinit \in {"no", "stopping", "abandoned", "freed"}
  /\ sent \in Seq(Packet)
  /\ passed \in Seq(Nat)

NonControl == {s \in slots : s.priority < CONTROL}

\* README v0.5.6: "log or telemetry traffic cannot consume every slot needed by
\* CONTROL packets".  Packets below CONTROL, the one being sent included, never
\* occupy more than the slots outside the reserve, however submits, sends and
\* completions interleave (submit reserve check).
ControlReserve == Cardinality(NonControl) <= Slots - Reserved

\* Two packets of the same priority leave in the order they were accepted, and
\* none leaves twice (pick_next_locked ticket order across the unlocked send).
FirstInFirstOut ==
  \A i, j \in DOMAIN sent :
    i < j /\ sent[i].priority = sent[j].priority => sent[i].ticket < sent[j].ticket

\* An accepted packet has been sent or is still in a slot, and the packets in
\* slots not being completed have not been sent: nothing is dropped or sent
\* again (broker_task).
Tickets(S) == {s.ticket : s \in S}
SentTickets == {sent[i].ticket : i \in DOMAIN sent}
Conserved ==
  deinit # "freed" =>
    /\ 1 .. nextTicket = SentTickets \cup Tickets(slots)
    /\ SentTickets \cap Tickets(Waiting) = {}

\* stats.pending, maintained by two increments and decrements in different
\* critical sections, is the number of slots in use.
PendingExact == deinit # "freed" => pending = Cardinality(slots)

\* A packet waits for at most one packet of lower priority: the one already on
\* its way when it was accepted.
OneInversion == \A k \in DOMAIN passed : passed[k] <= 1

\* The memory of the broker is only freed when the worker no longer uses it
\* (keemash_mesh_tx_broker_deinit waits for task = NULL).
FreedAfterWorker == deinit = "freed" => worker = "gone" /\ current = {}

\* The pool is accounted for through every interleaving of submitters, worker and
\* deinit: the reserve is free, the counter is exact, and nothing is freed under
\* the worker.
SlotsAccounted == TypeOK /\ ControlReserve /\ PendingExact /\ FreedAfterWorker

\* A CONTROL packet that was accepted is sent eventually, unless the broker is
\* being stopped, even if packets keep being submitted.
ControlWaiting(k) == \E s \in slots : s.ticket = k /\ s.priority = CONTROL
ControlSent ==
  \A k \in 1 .. MaxTickets :
    ControlWaiting(k) ~> (k \in SentTickets \/ stopping)
=============================================================================
