---------------------------- MODULE EventOutbox ----------------------------
(***************************************************************************)
(* The event outbox of keemash_mesh_event_outbox.c: application tasks      *)
(* enqueue texts into a fixed array of slots, one worker task sends them   *)
(* oldest first and tries a failed one again.  An event with a replace key *)
(* takes the place of a waiting event with that key.  Each step is one     *)
(* critical section of the outbox's lock, or the send between two of them. *)
(*                                                                         *)
(* A text is the number of the enqueue that brought it.  Tickets are       *)
(* naturals (see TxBroker).  Calls that refuse their arguments or find no  *)
(* room change nothing but counters and are left out.  Waiting for a       *)
(* notification ends after retry_ms at the latest, so the worker may wake  *)
(* up at any time.                                                         *)
(***************************************************************************)
EXTENDS Naturals, FiniteSets, Sequences

CONSTANTS
  Slots,       \* cfg.slots
  Keys,        \* the replace keys in use, and what is stored of them
  Cut,         \* Cut[key]: what event_slot_t holds of a key, its first 15 characters
  NoKey,       \* replace_key NULL or empty: a FIFO event
  Groups,      \* sizes of the groups enqueued
  MaxTickets   \* bound: events enqueued

ASSUME OutboxAssumption ==
  /\ Slots \in Nat \ {0}
  /\ NoKey \notin Keys
  /\ Cut \in [Keys -> Keys] /\ \A key \in Keys : Cut[Cut[key]] = Cut[key]
  /\ Groups \subseteq 1 .. Slots
  /\ MaxTickets \in Nat

VARIABLES
  slots,       \* outbox->slots
  current,     \* the index the worker is sending, 0 for none
  worker,      \* where the worker task is
  nextTicket,  \* next_ticket
  pending,     \* stats.pending
  stopping,    \* outbox->stopping
  deinit,      \* how far keemash_mesh_event_outbox_deinit() has come
  keyOf,       \* history: the key of each text
  groups,      \* history: the texts of each accepted group, as <<first, last>>
  delivered    \* history: texts send() took, in order

callers == <<nextTicket, pending, keyOf, groups>>
teardown == <<stopping, deinit>>
vars == <<slots, current, worker, callers, teardown, delivered>>

Index == 1 .. Slots
Free == [used |-> FALSE]
Event == [used: {TRUE}, sending: BOOLEAN, ticket: Nat, key: Keys \cup {NoKey}, text: Nat]

Used == {i \in Index : slots[i].used}
Waiting == {i \in Used : ~slots[i].sending}
FreeSlots == Index \ Used
First(S) == CHOOSE i \in S : \A j \in S : i <= j

Stored(key) == IF key = NoKey THEN NoKey ELSE Cut[key]

NewEvent(number, key) ==
  [used |-> TRUE, sending |-> FALSE, ticket |-> number, key |-> Stored(key), text |-> number]

Init ==
  /\ slots = [i \in Index |-> Free]
  /\ current = 0
  /\ worker = "waiting"
  /\ nextTicket = 0 /\ pending = 0
  /\ stopping = FALSE /\ deinit = "no"
  /\ keyOf = <<>> /\ groups = {} /\ delivered = <<>>

----------------------------------------------------------------------------
(* keemash_mesh_event_outbox_enqueue(), which does not look at "stopping"  *)

Numbered(count, key) ==
  /\ deinit # "freed"
  /\ nextTicket + count <= MaxTickets
  /\ nextTicket' = nextTicket + count
  /\ keyOf' = keyOf \o [k \in 1 .. count |-> key]
  /\ UNCHANGED <<current, worker, teardown, delivered>>

\* Mutants: a slot being sent is taken too; the search stops at it.
SameKey_Sending(key) == {i \in Used : key # NoKey /\ slots[i].key = key}
SameKey_StopsAtSending(key) ==
  IF \E i \in Used \ Waiting : slots[i].key = key THEN {}
  ELSE {i \in Waiting : key # NoKey /\ slots[i].key = key}

\* The key given, uncut, against the keys stored: one that was cut matches no slot, not
\* even its own; a short one matches the slots of every key that was cut to it.
SameKey(key) == {i \in Waiting : key # NoKey /\ slots[i].key = key}

\* Mutant: the replaced event keeps its place in the queue.
Coalesce_KeepsTicket(key) ==
  /\ Numbered(1, key)
  /\ SameKey(key) # {}
  /\ slots' = [slots EXCEPT ![First(SameKey(key))].text = nextTicket + 1]
  /\ UNCHANGED <<pending, groups>>
\* The first slot, by index, that waits with this key gets the new text and goes
\* to the end of the queue.
Coalesce(key) ==
  /\ Numbered(1, key)
  /\ SameKey(key) # {}
  /\ slots' = [slots EXCEPT ![First(SameKey(key))] =
                 [@ EXCEPT !.ticket = nextTicket + 1, !.text = nextTicket + 1]]
  /\ UNCHANGED <<pending, groups>>

\* No such slot: the first free one.
Add(key) ==
  /\ Numbered(1, key)
  /\ SameKey(key) = {}
  /\ FreeSlots # {}
  /\ slots' = [slots EXCEPT ![First(FreeSlots)] = NewEvent(nextTicket + 1, key)]
  /\ pending' = pending + 1
  /\ UNCHANGED groups

\* The place of i among the free slots: free_locked() hands them out by index.
Rank(i) == Cardinality({j \in FreeSlots : j <= i})

\* keemash_mesh_event_outbox_enqueue_group(): room for all, or nothing is added.
EnqueueGroup(count) ==
  /\ Cardinality(FreeSlots) >= count
  /\ Numbered(count, NoKey)
  /\ slots' = [i \in Index |->
                 IF i \in FreeSlots /\ Rank(i) <= count
                 THEN NewEvent(nextTicket + Rank(i), NoKey) ELSE slots[i]]
  /\ pending' = pending + count
  /\ groups' = groups \cup {<<nextTicket + 1, nextTicket + count>>}

----------------------------------------------------------------------------
(* event_worker() *)

\* ulTaskNotifyTake() returns, or the delay after a failed send is over.
Wake ==
  /\ worker = "waiting"
  /\ worker' = "picking"
  /\ UNCHANGED <<slots, current, callers, teardown, delivered>>

PickOldest ==
  /\ worker = "picking" /\ ~stopping
  /\ \E i \in Waiting :
       /\ \A j \in Waiting : slots[i].ticket <= slots[j].ticket
       /\ slots' = [slots EXCEPT ![i].sending = TRUE]
       /\ current' = i
  /\ worker' = "sending"
  /\ UNCHANGED <<callers, teardown, delivered>>

PickNothing ==
  /\ worker = "picking" /\ ~stopping
  /\ Waiting = {}
  /\ worker' = "waiting"
  /\ UNCHANGED <<slots, current, callers, teardown, delivered>>

\* cfg.send() without the lock, on the text the slot has then.
SendOk ==
  /\ worker = "sending"
  /\ delivered' = Append(delivered, slots[current].text)
  /\ worker' = "sent"
  /\ UNCHANGED <<slots, current, callers, teardown>>

SendFails ==
  /\ worker = "sending"
  /\ worker' = "failed"
  /\ UNCHANGED <<slots, current, callers, teardown, delivered>>

Release ==
  /\ worker = "sent"
  /\ slots' = [slots EXCEPT ![current] = Free]
  /\ current' = 0
  /\ pending' = pending - 1
  /\ worker' = "picking"
  /\ UNCHANGED <<nextTicket, keyOf, groups, teardown, delivered>>

\* Mutant: the task ends with the first send that fails.
Retry_Ends ==
  /\ worker = "failed"
  /\ slots' = [slots EXCEPT ![current].sending = FALSE]
  /\ current' = 0
  /\ worker' = "gone"
  /\ UNCHANGED <<callers, teardown, delivered>>

Retry ==
  /\ worker = "failed"
  /\ slots' = [slots EXCEPT ![current].sending = FALSE]
  /\ current' = 0
  /\ worker' = "waiting"
  /\ UNCHANGED <<callers, teardown, delivered>>

Exit ==
  /\ worker = "picking" /\ stopping
  /\ worker' = "gone"
  /\ UNCHANGED <<slots, current, callers, teardown, delivered>>

----------------------------------------------------------------------------
(* keemash_mesh_event_outbox_deinit() *)

\* Ask the worker to stop; the lock may not be had within 100 ms.
DeinitStart ==
  /\ deinit = "no"
  /\ deinit' = "stopping"
  /\ stopping' \in {TRUE, stopping}
  /\ UNCHANGED <<slots, current, worker, callers, delivered>>

\* Free the memory if the worker is gone, otherwise give up after one second.
DeinitFree ==
  /\ deinit = "stopping"
  /\ deinit' = IF worker = "gone" THEN "freed" ELSE "abandoned"
  /\ slots' = IF worker = "gone" THEN [i \in Index |-> Free] ELSE slots
  /\ UNCHANGED <<current, worker, callers, stopping, delivered>>

Worker == \/ Wake \/ PickOldest \/ PickNothing \/ SendOk \/ SendFails
          \/ Release \/ Retry \/ Exit
Next ==
  \/ \E key \in Keys \cup {NoKey} : Coalesce(key) \/ Add(key)
  \/ \E count \in Groups : EnqueueGroup(count)
  \/ Worker
  \/ DeinitStart
  \/ DeinitFree

Spec == Init /\ [][Next]_vars

\* The worker task keeps running, and a send that is tried again and again
\* succeeds some time.
FairSpec == Spec /\ WF_vars(Worker) /\ SF_vars(SendOk)

----------------------------------------------------------------------------
(* Properties *)

\* The slots and counters of the outbox; stats.pending is unsigned and must not be
\* decremented below 0.
TypeOK ==
  /\ slots \in [Index -> Event \cup {Free}]
  /\ current \in 0 .. Slots
  /\ worker \in {"waiting", "picking", "sending", "sent", "failed", "gone"}
  /\ nextTicket \in Nat
  /\ pending \in Nat
  /\ stopping \in BOOLEAN
  /\ deinit \in {"no", "stopping", "abandoned", "freed"}
  /\ keyOf \in Seq(Keys \cup {NoKey})
  /\ groups \in SUBSET (Nat \X Nat)
  /\ delivered \in Seq(Nat)

InSlot(t) == \E i \in Used : slots[i].text = t
Delivered(t) == \E n \in DOMAIN delivered : delivered[n] = t

\* Header: "FIFO events preserve enqueue order".  send() takes the texts in the
\* order they were enqueued and none twice, failed sends, replacements and slot
\* reuse in between notwithstanding; so a group also stays together.
EnqueueOrder ==
  \A m, n \in DOMAIN delivered : m < n => delivered[m] < delivered[n]

\* An accepted text is delivered, in a slot, or was replaced: then it has a key and a
\* later text was accepted whose key is what is stored of its own.  The last text of a
\* key is never lost to a replacement that meets the worker between send and release.
Replaceable(t) ==
  keyOf[t] # NoKey /\ \E u \in DOMAIN keyOf : t < u /\ keyOf[u] = Stored(keyOf[t])
NothingLost ==
  deinit # "freed" =>
    \A t \in DOMAIN keyOf : Delivered(t) \/ InSlot(t) \/ Replaceable(t)

\* Header: "Either every item is accepted in order or none are added".  Each item
\* of an accepted group is delivered or waits in a slot.
GroupsWhole ==
  deinit # "freed" =>
    \A g \in groups : \A t \in g[1] .. g[2] : Delivered(t) \/ InSlot(t)

\* However often a key is enqueued while the link is down it takes two slots at
\* most: one that is or was being sent and one that replaces all later ones.  This
\* goes for keys that are stored whole and are no stored form of a longer key; the
\* events of a longer one never replace each other and may fill the outbox.
Distinct(key) == \A other \in Keys : Stored(other) = key <=> other = key
TwoPerKey ==
  \A key \in Keys : Distinct(key) => Cardinality({i \in Used : slots[i].key = key}) <= 2

\* stats.pending, changed in different critical sections, counts the used slots.
PendingExact == deinit # "freed" => pending = Cardinality(Used)

\* The memory is only freed when the worker no longer uses it.
FreedAfterWorker == deinit = "freed" => worker = "gone" /\ current = 0

\* What was accepted is kept until it is delivered or may be replaced, a group as a
\* whole, whichever way enqueues meet the worker between send and release.
AcceptedKept == NothingLost /\ GroupsWhole

\* The pool is accounted for: an exact counter, at most two slots of a key that
\* is stored whole, and nothing freed under the worker.
SlotsAccounted == TypeOK /\ PendingExact /\ TwoPerKey /\ FreedAfterWorker

\* A text that was accepted leaves its slot eventually: it is delivered or
\* replaced, unless the outbox is being stopped (retry after retry_ms).
EventuallyHandled ==
  \A t \in 1 .. MaxTickets : InSlot(t) ~> (~InSlot(t) \/ stopping)
=============================================================================
