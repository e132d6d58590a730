# TLA+ verification of keemash_core

keemash_core is the shared firmware library of a home mesh: ESP32 nodes in an
ESP-MESH tree talk to one root over unreliable raw packets. The library gives
them sessions, reliable channels, prioritised sending, an event outbox,
commands with remembered results, a weekly schedule and power-loss-safe firmware
updates. This directory holds TLA+ models of those
parts, TLC configurations that check them on small instances, and TLAPS proofs, for
all instances, of every safety property that those runs check.

Source paths below are relative to the repository root.

## 1. Inventory

| Part | State | Operations | Interacts with |
| --- | --- | --- | --- |
| Reliable link engine (`keemash_mesh_core.c`) | per peer: both session ids, `ready`, `route_up`, `next_seq`/`expected_seq` per channel, pending lost ranges; tx, reorder and reassembly slots | submit, handle HELLO / HELLO_ACK / DATA / ACK / LOST, poll, route change, supersede, remove peer | facades call it under one recursive lock per end; calls back `deliver` and `event`; sends through the TX broker |
| Pending lost ranges, sequence arithmetic (same file) | bounded array of ranges, `uint32_t` numbers | add with joining, step over | used by the link |
| TX broker (`keemash_mesh_tx_broker.c`) | slots, tickets, `pending`, `stopping` | submit, worker (pick, send, complete), deinit | any task submits; one worker task sends |
| Event outbox (`keemash_mesh_event_outbox.c`) | slots with text, key and ticket; `pending` | enqueue with replace key, enqueue group, worker with retry, deinit | application tasks enqueue; the worker calls the link |
| OTA v3 checkpoint journal (`keemash_ota_v3_checkpoint.c`) | two NVS blobs with generation and CRC | save, clear, load | flash receiver, boot report |
| OTA v3 receiver, stream, worker, boot report (`keemash_ota_v3_flash_receiver.c`, `keemash_ota_v3_stream.c`, `keemash_mesh_ota_v3_receiver.c`, `keemash_ota_v3_boot.c`) | receiver mode and position, queue of one message, flash, boot selection | prepare, data, commit, activate, abort, idle timeout, report, acknowledge | journal, ESP-IDF OTA, node facade |
| OTA v1/v2 receiver (`keemash_mesh_ota_receiver.c`) | `s_ota` (protocol, operation, offset, hash), reboot latch, V2 queue | V1 begin, data, end, abort; V2 prepare, data, commit, abort; watchdog; reboot task | one lock for the receiving task, the V2 worker and the watchdog; writes the same partitions as OTA v3 |
| Command cache and results (`keemash_mesh_node.c`, `keemash_mesh_root.c`) | the node's ring of results, the root's ring of results and command counter | send command, deliver command, note result, three lookups, forget root | CONTROL channel of the link; cleared by the handshake |
| Root node table (`keemash_mesh_root.c`) | entries with route, capabilities, pending TIME, ping | note HELLO, PONG, sync routes, queue TIME, flush TIME, ping, prune | a spinlock for the table and the link's lock, taken one after the other by three tasks |
| Mesh time (`keemash_mesh_time.c`) | last generation and source uptime | apply V1 / V2 TIME | TIME channel of the link |
| Weekly schedule (`keemash_weekly_schedule.c`) | configuration, stage, last run days, catch-up, retry, last clock sample, NVS record | stage begin / point / commit, task turn, start, stop, status | application callback without the lock |
| Node and root facades (same files) | HELLO timers, tables above, compatibility rings | dispatch, poll, heartbeat | link, outbox, OTA |
| Compatibility tunnel (same files) | replay rings per channel | send, ACK, NACK, LOST | peers without the reliable link |
| Log stream (`keemash_mesh_log_stream.c`) | bounded capture queue, burst | capture, worker | link |
| Codecs (`keemash_fabric.c`, `keemash_keelink.c`, `keemash_ota_v3*.c` parsers, Rust crate) | none | encode, decode, verify | all |

What is hard to test in it:

* packets, acknowledgements and handshakes of an earlier session arrive after a
  reboot, or a second time, while each end keeps its own idea of the session;
* a pool is full in the middle of a message, so part of a range of sequence
  numbers is given up, reported and stepped over at two ends in different orders;
* callbacks submit from inside the delivery loop;
* the broker and the outbox are torn down while their worker sends;
* an event is replaced while its older copy is being sent, and that send fails;
* power fails between any two writes of flash, journal and boot selection;
* three OTA protocols in three tasks share the partitions, two of them one record;
* a command is repeated after a reconnect, under another number, or to a node whose
  idea of the root's session is gone;
* the root's polling, receiving and application tasks visit the node table and the
  link under two locks, one after the other;
* the clock jumps, local minutes repeat or are left out, and edits are committed
  while a callback runs;
* sequence numbers, tickets and generations wrap.

`PROJECT.json` lists each of these at its line under `hazards`, with the
property that watches it.

What makes each part correct:

* link: in-order delivery at most once, no loss that nobody reports, agreement of
  the two sequence spaces, queues that belong to the installed session, sessions
  bound to real boots, queues that drain, ends that find each other again;
* lost ranges: the array is the set it stands for, and refuses only when full;
* broker: control packets keep their reserve, FIFO in a priority, nothing lost or
  sent twice, bounded priority inversion, safe teardown, control gets through;
* outbox: enqueue order, whole groups, no lost event, bounded slots per key, safe
  teardown, every event handled in the end;
* journal: an atomic register under torn writes;
* OTA v3: the checkpoint never promises more than the flash holds, a verified image
  is whole, one operation at a time, the running image is never written;
* OTA v1/v2: what is selected for the restart stays whole, an OK is true, no
  transfer stays open;
* commands: not run twice while remembered, results that belong to what was asked,
  an operation that is asked for again and again gets its answer;
* node table: bound nodes are listed, routed entries stay, ping times are fresh,
  TIME is kept until it is sent and gets through;
* schedule: edits whole and durable, points once a day and never skipped, the
  state in force the right one, failed callbacks settled.

## 2. Modules

| Module | Models | Notes |
| --- | --- | --- |
| `RelLink` | the link engine at the root and one node, and how the facades drive it | sequence numbers are naturals; clocks are nondeterministic |
| `LostRanges` | sets of lost numbers and the rows they take | shared by `RelLink` and `PendingLost` |
| `PendingLost` | the array of lost ranges and the wrapping comparisons | justifies the sets and naturals of `RelLink` |
| `TxBroker` | submitters, worker, deinit | one step per critical section |
| `EventOutbox` | producers, worker, deinit | one step per critical section |
| `AtomicRegister` | what the users of the journal rely on | abstract specification |
| `Journal` | the two-blob journal | implements `AtomicRegister` |
| `OtaV3` | OTA v3 on one node, with the bootloader and the flash effects of OTA v2 | uses the register that `Journal` implements |
| `OtaV2` | OTA v1/v2 receiver on one node | V1 and V2 senders are independent and send anything of theirs at any time |
| `Commands` | node cache and root results | the link is a set of messages of session pairs: more than `RelLink` lets happen |
| `RootPeers` | root node table, TIME and ping, mesh time of the nodes | the link is what it knows of each node and its unacknowledged TIME |
| `WeeklySchedule` | edits, NVS, schedule task, status | local time of each wall minute is a constant |
| `RelLink_proofs`, `TxBroker_proofs`, `EventOutbox_proofs`, `OtaV3_proofs`, `OtaV2_proofs`, `Commands_proofs`, `RootPeers_proofs`, `WeeklySchedule_proofs` | proofs about the module of that name | `RelLink_proofs` also has those about `PendingLost`, `OtaV3_proofs` those about `Journal`; section 5 |
| `MC*` | instances for TLC | |

### RelLink

`session`, `ready`, `routeUp`, `rootSession`, `nodeSession`, `nextSeq`, `expected`
and `pendingLost` are the fields of the peer record at each end; `tx`, `rx` and
`reassembly` are the slots in use. `net[e]` is the set of all packets ever sent to
`e`: handling one does not remove it, so every packet may come late, repeatedly,
in any order or never. A transport error is a packet that is never handled.

Each handler is an action: `SubmitAccept`/`SubmitOverflow` (keemash_rel_submit),
`SendHello`, `HandleHello`, `HandleHelloAck`, the disjuncts of `HandleData`,
`HandleAck` and `HandleLost`, the timers of keemash_rel_poll
(`PollRouteTimeout`, `PollRetransmit`, `PollExhausted`, `PollFragmentTimeout`),
`PeerRoute`, `Supersede`, `RemovePeer` and `Reboot`. The loop of
consume_contiguous() is one step per turn (`SkipLost`, `ConsumeRx`,
`ConsumeDone`), because its deliver callback may submit; while it runs, nothing
else happens at that end, as in the code, which holds the recursive lock.

`accepted`, `delivered`, `lost` and `tainted` are history. A session pair is
tainted when one end restarts its sequence spaces while keeping, or later
reinstalling, the same pair of ids. `InOrder`, `NoSilentLoss` and
`EndsAgree` speak of pairs that are not tainted; what happens in the tainted
ones is the subject of the run `silent_loss`.

Assumed: esp_random() does not draw the same session id twice. Left out: RTT
estimation, counters, packet bytes, integrity checks, fault injection.

### PendingLost

Numbers go over the wire modulo `Modulus` and every comparison is the signed
difference of the code. `toSkip` is a ghost: the set that `RelLink` keeps in
`pendingLost`, by the operators of `LostRanges`. The behaviours of `TableSpec` start at
wire numbers far from and just before the wrap.

### TxBroker and EventOutbox

A step is one critical section of the lock, or the send between two of them.
Waits are bounded in the code (one second, retry_ms), so a worker may wake at any
time. deinit sets `stopping`, waits for the worker for a bounded time, and
either frees the memory or abandons it.

An outbox slot keeps the first 15 characters of a replace key, and enqueue compares
the whole key with them: `Cut` says what is kept of a key and `SameKey` compares a key
with what was kept of others. A key that is longer never finds an event of its own,
and the key that is its first 15 characters does (section 6). `TwoPerKey` is about the
keys that are kept whole and are not what is kept of another (`Distinct`).

### Journal and AtomicRegister

A write goes to the blob of its generation's parity; a reset or an NVS error may
leave the old blob, the new one, or one whose CRC is wrong. The refinement mapping
takes `value` to what load() answers. The specification is `JournalSpec`.

### OtaV3

`saved` is the journal, `flash`, `boot`, `img` and `running` the device, `rcv` the
flash receiver and `step` the place of the worker between two persistent writes.
An operation stands for id, artifact and signed fields; an image is a number of
chunks. External, modelled from how the code uses it: the bootloader with rollback,
esp_ota_begin()/esp_ota_resume() refusing while the running image is on
probation, esp_ota_set_boot_partition() on the selected partition (it may or may
not put the image on probation again), the application's health check. Of OTA v2
only its PREPARE in the queue, its erasure and its completed image are kept.

### OtaV2

`ota` is `s_ota`, `latch` the three reboot variables, `queue` the V2 queue, `busy`
who holds the lock inside esp_ota_begin(), the only long hold. A V1 packet is one
step (its handler runs under the lock); a V2 message is queued by `Enqueue` and
handled by the worker's `Prepare`, `V2Data`, `Commit`, `V2Abort`, or given up by
`LockTimeout`. A BEGIN or PREPARE is two steps, before and after the erasure. `stale`
abstracts the age of `last_rx_tick`; `TimePasses` sets it. An image is a sequence of
units, so what the flash holds can be compared with what an image is. Refused packets
that change nothing are packets that do not arrive.

### Commands

`peer` and `rootSeen` are the sessions each end has of the other; `cache` with
`cacheNext` and `results` with `resultNext` are the two rings. `DeliverNew` is the
start of the application's hook, `Finish` its return, the entry in the cache and
the result; forget_root() may come between them, and between the search for a
remembered result and its sending (`DeliverWiped`). `what` tells commands apart that
carry the same number, and `numbered`, `runs`, `forgot` and `wiped` are history. The
controller's part (asking again under the same identity) is external.

### RootPeers

`table` is `s_nodes`, `rel` and `relTime` what the link knows. A step is one
critical section of the table's spinlock, or one hold of the link's lock; the two
halves of a HELLO (`RelHello`, `HelloMetadata`), of pruning (`PruneLink`,
`PruneEntry`) and of a ping (`PingMark`, `PingSend`/`PingFails`) are steps of
their own. `poll` and `hello` say where the polling and the receiving task stand.
TIME is flushed in one step: its first critical section and its last are in one
hold of the link's lock, which queueing TIME takes too. New entries take the lowest free
slots (`Places`); the table has room for all nodes of the mesh. The order and the
period of pings are open. The second half of sync_routes() is taken with the first or,
when the lock does not come in time, not at all.

A HELLO whose HELLO_ACK the transport refuses (`RelHelloUnanswered`) binds the node and
is not noted in the table; `unanswered` remembers it. A TIME carries a generation and
an uptime of the root that are independent of each other, except that within a boot
neither goes back. `Applied` is keemash_mesh_time_apply_v2(); `set`, `heard` and
`hidden` of a clock are history: the boot whose TIME set it, the boot of the last TIME,
and whether the restart between them did not show in the uptime. `TimeKept` and
`TimeGetsThrough` except only such a node, and only for generations that it is past.

### WeeklySchedule

A turn of schedule_task() is a first step with the lock (`Tick`, `TickJump`,
`NoClock`) and then a step per later hold of the lock or callback; edits and
failures fall between them. Two clock samples are continuous by choice as long as
wall time went forward by at most `MaxStep`. In the instance a day has three minutes,
the week two days; on the first day minute 1 comes again, and minute 2 is left out
after it. A start finds the record in NVS or cannot read or rejects it (`Unread`); then
it runs the default and leaves the record alone. `ran`, `tried`,
`since`, `excused` and `acked` are history.

## 3. Runs

Passing runs:

| Run | Instance | Shows |
| --- | --- | --- |
| `transfer` | root to node, 2 messages of 1 or 2 fragments on a reliable channel and TIME, 1 reorder slot, 1 reassembly slot, 1 retry, one boot of each end | `InOrder`, `NoSilentLoss`, `EndsAgree` with loss, repetition, full pools, superseded TIME, the receiver's jump, route changes and resets |
| `link` | one reboot of either end, one message of the node | `SessionInv`, `EndsAgree` across reboots; `Reconnects`; `QueueDrains` also when the other end stays silent |
| `lost_ranges` | 3 rows, 2 channels, 5 numbers, modulus 16 | `Represents`, `RefusesOnlyWhenFull`: the array is the set, in canonical form, refusing only when full |
| `broker` | 3 slots, 1 reserved, 3 priorities, 5 packets | `FirstInFirstOut`, `Conserved`, `OneInversion`, `SlotsAccounted` (reserve, counter, teardown), `ControlSent` |
| `outbox` | 3 slots, 3 keys of which one is too long and is kept as another, groups of 2, 4 events | `EnqueueOrder`, `AcceptedKept`, `SlotsAccounted` (counter, two slots per key that is kept whole, teardown), `EventuallyHandled` |
| `journal` | 2 values, 7 generations | `IsRegister` (refinement), `BlobsSound` |
| `ota` | 2 operations and OTA v2, 4 chunks, 3 resets, NVS faults | `FlashAsPromised`, `OneOperation`, `RunningUntouched` |
| `ota_v2` | 2 images of 2 units, 2 operations, chunks of 1 or 2 units, queue of 2, 5 packets, 1 reset | `SelectedTruthful`, `FlashAsAnswered`, `Settles` |
| `schedule` | 2 configurations (one kept in NVS), 2 days of 3 minutes with an irregular one, 3 edits, jumps, failures or starts that read NVS or fail to | `EditsWhole`, `OncePerDay`, `NothingSkipped`, `InForce`, `Settles` |
| `commands` | 2 commands with or without identity, rings of 1, a log switch with the same number, 2 upsets | `AtMostOnce`, `ResultsSound`, `NumberAnswer`, `Answered` |
| `peers` | 2 nodes, one of them with typed TIME, 2 generations at 2 uptimes and 2 pings (3 together in a boot), 1 upset | `TableSound`, `PongFresh`, `RoutedStays`, `TimeKept`, `TimeGetsThrough` |

Where several invariants belong to one promise, the run checks their conjunction
under one name; the parts are defined and commented one by one, and most include
the module's type invariant:

| Checked | Parts |
| --- | --- |
| `SessionInv` (`RelLink`) | `TypeOK`, `QueuedInSession`, `SessionsBound` |
| `Represents` (`PendingLost`) | `TableTypes`, `TableIsSet`, `Canonical` |
| `SlotsAccounted` (`TxBroker`) | `TypeOK`, `ControlReserve`, `PendingExact`, `FreedAfterWorker` |
| `AcceptedKept` (`EventOutbox`) | `NothingLost`, `GroupsWhole` |
| `SlotsAccounted` (`EventOutbox`) | `TypeOK`, `PendingExact`, `TwoPerKey`, `FreedAfterWorker` |
| `BlobsSound` (`Journal`) | `BlobTypes`, `Alternates` |
| `FlashAsPromised` (`OtaV3`) | `TypeOK`, `SavedMatchesFlash`, `VerifiedComplete` |
| `SelectedTruthful` (`OtaV2`) | `SelectedStaysWhole`, `CommitTruthful` |
| `FlashAsAnswered` (`OtaV2`) | `TypeOK`, `AckedIsWritten`, `PrefixOfImage` |
| `EditsWhole` (`WeeklySchedule`) | `TypeOK`, `Transactional`, `Durable` |
| `InForce` (`WeeklySchedule`) | `StatusExact`, `InSync` |
| `ResultsSound` (`Commands`) | `TypeOK`, `OperationAnswer`, `ChangedMeansRerun` |
| `TableSound` (`RootPeers`) | `TypeOK`, `BoundIsListed`, `OnePing` |

Why the bounds suffice. A message of two fragments with one reassembly and one
reorder slot meets every branch of deliver_fragment() and receiver_drop_range();
two messages are needed for one to be overtaken. One retry reaches both the
retransmission and its exhaustion. A reboot of either end lets a handshake packet
be of the current or of the previous boot of each. Four chunks in two
blocks, with a checkpoint every block, give a transfer one intermediate
checkpoint, a chunk beyond it, and an end; three resets allow an update, its
probation and its rollback. Three slots let one packet be in the worker's hands
while two wait. A V1 and a V2 transfer of two units need three packets each, so that
five let one of them complete around steps of the other. A ring of one entry turns over
with the second command; two upsets are what the longest case found needs (a restart
of the root and a node that ran out of retries). One upset of the node table is a
restart, a lost route, a lost link or a refused HELLO_ACK around every other step. Its
two uptimes differ by more than the slack, so the first TIME after a restart may
have a lower uptime that shows it, or the same or a higher one that hides it. Four
events fill the three slots with one key that is too long, or put two of a key behind
one that is being sent.

The run `transfer` follows a behaviour only while the pair of boots is untainted
(the constraint `Fresh` of `MCRelLink`): its properties are about such pairs.
`link`, `silent_loss` and the proofs use the unrestricted specification.

CHECK_DEADLOCK is off where the bounds on submits, tickets, boots or generations
let a behaviour stop (packets, events, sends and upsets in the newer modules).

One run in which TLC finds the property violated, about a sentence of the repository
(quoted in `PROJECT.json` under `findings`): `silent_loss`. A late copy of the node's
first HELLO restarts the root's sequence space only; the root's next frame counts as
old at the node, is acknowledged, and is neither delivered nor reported.

## 4. Fairness

* `PollFairness` (link): the poll task runs every 250 ms and takes the same lock as
  the receive path, which is released between packets; the poll is therefore not
  shut out for ever, but may find the condition gone at a given turn: strong
  fairness of `PollTx` and `PollRouteTimeout`. The loop of consume_contiguous()
  runs to its end: weak fairness of `Consume`.
* `HelloFairness` (link): the heartbeat sends HELLO for ever (weak), and a network
  that delivers some of infinitely many sends brings the HELLO the node sends now,
  and the HELLO_ACK of the current boots, through (strong). `QueueDrains` does not use it.
* Broker and outbox: the worker task is scheduled (weak fairness of its steps);
  `EventuallyHandled` also assumes that a send that is tried again and again
  succeeds at some time (strong fairness of the successful send).
* `OtaV2`: worker, watchdog and reboot task are scheduled, an erasure ends, and time
  passes (weak). No fairness of the senders: `Settles` holds when they fall silent.
* `WeeklySchedule`: the task runs (weak fairness of the steps of a turn), it comes
  to turns in which a retry deadline has passed (strong, since an edit may come
  first), and a clock that was lost is set again. Failures are bounded events.
* `Commands`: HELLO and its answer repeat, the hook returns, the controller asks
  again (weak), and the link brings a command that is sent again and again through
  (strong). `Answered` further assumes that upsets are finite, as the bound does.
* `RootPeers`: the polling task goes on and the link carries what it has taken
  (strong: both wait for a lock that is free again and again). `TimeGetsThrough`
  assumes in its statement that the nodes that wait are bound.

## 5. Proofs

`RelLink_proofs`, for all channels, pools, windows, retry counts, submits and boots:

* `TypeCorrect`: `Spec => []TypeOK`. In particular `expected_seq - 1` in an ACK
  never goes below 0, since a sequence space starts at 1 and no step takes it back
  to 0.
* `SessionInvAlways`, and from it `QueuedInSessionAlways` and `SessionsBoundAlways`:
  the inductive invariant is `SessionInv == TypeOK /\ QueuedInSession /\ SessionsBound`. Neither property is
  inductive alone: that a stored frame carries the installed ids needs both ids to
  change only together with a cleared queue, and that the ids are real needs the
  handshake packets in the network, of whatever age, to name real boots. The proof
  has one lemma per group of handlers; steps that change neither ids nor `ready`
  go through `QueuedSteady` and `BoundSteady`, the ones that clear through
  `QueuedCleared`.
* `EndsAgreeAlways` (`EndsAgree`), from `NumbersInv`. The network keeps every packet ever
  sent, so the invariant has to say something about each of them that stays true: a
  number that a packet names was assigned by the sender (`Assigned`) or lies before the
  receiver's position (`Past`), or its end is done with the pair of sessions (`Over`: it
  has restarted since, or the pair is tainted). `Numbered` says that accepted messages
  have disjoint ranges of assigned numbers; `Authentic` that what is queued, stored or on
  its way is of an accepted message, and that LOST and ACK packets name assigned and
  passed numbers; `Follows` that a receiver expects, or will step over, only what was
  assigned; `Unbound` that an end which is not ready is outside the consuming loop and
  remembers no pair but a tainted one.
* `InOrderAlways` (`InOrder`), from `NumbersInv` and `OrderInv`: what was delivered or is
  being reassembled lies before the expected number (`DeliveredPast`, `Partials`), so the
  next delivery has a greater number than any before it.
* `NoSilentLossAlways` (`NoSilentLoss`), from all of these and `LossInv`. `Traced` follows
  each number of a message: the sender still queues it, or the receiver has taken it, and
  what lies before the expected number or is named by an acknowledgement of whatever age
  has been taken, that is, it is in hand, delivered, reported as lost, or the pair is over.
  `PendingReported` says that a range the receiver will step over was reported. `Carries` is
  what a step may do to these facts, with one lemma for each handler that it does no more.

`RelLink_proofs` also has the proofs about `PendingLost`, for all numbers of rows,
channels and moduli:

* `TableRepresents` (`Represents`) and `TableRefusals` (`RefusesOnlyWhenFull`). The
  invariant `Represents` is inductive; the work is in what pending_lost_add() computes.
  A pass over the rows, and the passes repeated until none joins, are recursive functions
  (`JoinRows`, `Merged`); what they return is established by induction over the rows
  visited and the passes made, which `LeastNatural` and `UpTo` give for sets of naturals.
  A pass keeps the union of the rows and the new range; repeated as often as there are
  rows it ends where no row touches the range; in canonical form the rows of a channel
  stand one to one for the ranges of its set, so rows in use can be counted as
  `Ranges` and the table is full exactly when the set needs more rows. That the signed
  differences order the numbers as naturals is a lemma of its own.

`TxBroker_proofs`, for all slot counts, reserves and priorities:

* `TypeCorrect` from `Structure`: types, what the worker holds, numbering of tickets,
  exact counter;
* `ControlReserveAlways` from `Structure` and the counting of finite sets, and with it
  `AccountingAlways` (`SlotsAccounted`);
* `FirstInFirstOutAlways`, `ConservedAlways`, `OneInversionAlways` from `Promises`,
  which adds to the three properties that what was sent or is being sent precedes
  what waits in its priority, and that a packet of higher priority that arrived
  during a send has not been passed before.

`EventOutbox_proofs`, for all numbers of slots, keys, group sizes and events:

* `SentInOrder` (`EnqueueOrder`), `NothingAcceptedIsLost` (`AcceptedKept`) and
  `PoolAccounted` (`SlotsAccounted`), from `OutboxInv`. That the texts leave in order
  needs to know what the worker holds while the lock is free: the slot it took is
  marked, is the only one marked, and holds the oldest text (`CurrentOldest`); what was
  sent is older than what is left (`SentOlder`); a slot's ticket is that of its text and
  no text is in two slots (`SlotsKnown`). A failed send only takes
  the mark off its slot, and by then a newer text of the same key may wait in another;
  that is where `NothingLost` needs all three. The
  counter needs the sets of slots before and after a group to be counted: lemma `Ranks`
  numbers a finite set of naturals, from which the free slots a group takes are as many
  as it has items. All of it holds for whatever is kept of a key: a text is replaced by
  a later one whose key is what its slot holds, and for a key that is its own kept form
  and nobody else's that is the same key.

`OtaV3_proofs`, for all operations, image sizes, blocks, intervals and resets:

* `PromiseKept` (`FlashAsPromised`), `RunningPartitionUntouched` (`RunningUntouched`) and
  `OneOperationAtATime` (`OneOperation`), from `OtaInv`. A checkpoint is written after
  the flash it speaks of, so between the two writes the receiver knows more than
  the journal. `Owned` says that the checkpoint belongs to the operation and the partition
  the receiver works on, `AtBlock` that the checkpoint of a transfer stands at the start of
  a block, `Transferring` that a transfer goes to the partition that does not run, that its
  checkpoint is behind it, and that what the validator counts as written is in the
  flash, and `Between` what the worker has established between two writes. A reset
  clears everything but flash, journal and boot selection, so what they promise has to
  hold at every step and not only at the end of a message.

`OtaV3_proofs` also has the proofs about `Journal`, for all sets of checkpoints and all generations below the wrap:

* `NewestUntouched` (`BlobsSound`) and `JournalIsRegister` (`IsRegister`), the refinement
  of `AtomicRegister`: initial states map to initial states, and a write that is
  started, completed, torn or failed to a step of the register or to none. The
  invariant `JournalInv` says that a valid blob lies under the key of its generation's
  parity (`Placed`), and that the write in progress follows the newest valid
  record (`Follows`); hence it goes to the other key, and latest_record() gives the
  record before it or the one written, whatever the blob became.

`OtaV2_proofs`, for all images, sizes, chunkings, operations and queues:

* `StartsWhatWasCommitted` (`SelectedTruthful`) and `AnswersAreTrue` (`FlashAsAnswered`),
  from `OtaV2Inv`. V1 packets may write into a V2 session; the proof rests on the hash
  then being of less than was written, so that a hash that matches at COMMIT shows that
  no V1 packet interfered (`HashShowsImage`). `Locked` says what holds during the
  erasure, when the lock is held across two steps.

`Commands_proofs`, for all sizes of the two rings, operations, sends and upsets:

* `RunsAtMostOnce` (`AtMostOnce`), `ResultsAreSound` (`ResultsSound`) and `NumbersAnswered`
  (`NumberAnswer`), from `CommandsInv`. `Recent` says that the last `CacheSize` runs of
  the cache's life are in the ring, each at the place its age gives; a command that is
  found nowhere in the ring was therefore not among them. `CommandsNumbered`,
  `AnswersTold`, `CacheTold` and `ResultsTold` trace what a message or a ring entry says
  to the run that wrote it, for messages of whatever age, or to a boot of the node in
  which an answer was cleared while it was sent (`Stands`).

`RootPeers_proofs`, for all sets of nodes that fit the table, generations, pings and upsets:

* `TableAndLinkAgree` (`TableSound`), `PongsAreFresh` (`PongFresh`), `TimeIsKept`
  (`TimeKept`) and `RoutedEntriesStay` (`RoutedStays`), from `PeersInv`. Between the two
  looks of the pruning task the link knows nothing of the node (`PruneForgot`); TIME on
  the link is what the node's entry asked for last (`TimeOnLink`); an entry that waits
  for its PONG has been routed since the ping was sent (`PingRouted`), for which the ids
  of pings must be fresh (`PingIds`). That every node finds a slot is the pigeonhole
  principle (`Creates`). `TimeOrder` says
  that within a boot of the root no node is past the TIME that was handed out for it
  last, in generation or uptime; a TIME that arrives has then set the clock, or the
  clock is of an earlier boot and the uptime hid the restart (`AppliedIs`), for any
  generations and uptimes.

`WeeklySchedule_proofs`, for all configurations, numbers of points, lengths of the day
and the week, local times that satisfy `ZoneAssumption`, and events:

* `EveryEditWhole` (`EditsWhole`), from `Whole`: every configuration that is installed,
  kept in NVS, staged or snapshotted by the task is one that a caller staged whole, and
  what the task has to do refers to the snapshot it took. `acked` is what the last commit
  or the last start that read NVS made of the record; a start that cannot read it
  installs the default and changes neither.
* `OnceEveryDay` (`OncePerDay`), from `Whole` and `Once`: `last_run_day` of a point is the
  day of its last success for as long as that configuration is installed, and what the task
  is about to call, or has called and not recorded yet, has not run on that day.
* `NoPointSkipped` (`NothingSkipped`), from `Whole` and `Reached`: every due minute since
  the clock or the configuration changed was tried, or is still ahead in the list of the
  turn under way.
* `PointInForce` (`InForce`), from `Whole` and `Sync`. The status part is about the two
  searches through the week: `LatestIndex` is a point of least age and `NextIndex` one of least
  distance, whichever day of the week and minute it is. For the state in force
  the proof places calls in time: what was applied lies at or before the place where the
  task stands in its turn (`Behind`, `Ordered`, `LastIsNow`, `NotBefore`), and the latest
  point of now is applied, waits for its retry, or is being called (`NowApplied`,
  `NowRetried`, `NowCalled`, `AtRest`). The calendar lemmas say that the latest point of a
  minute stays the latest over regular minutes without points, and is the one that runs in
  a minute that has some.

Each inductive invariant was checked with TLC on the instance of its run before it was
proved.

Assumptions. `LinkAssumption`, `BrokerAssumption`, `OutboxAssumption`, `OtaAssumption`,
`OtaV2Assumption`, `CommandsAssumption` and `ScheduleAssumption` say that sizes are positive, special values
are distinct from ordinary ones, and blocks divide images and intervals; the
initialisers of the code check it or the constants of the code satisfy it.
`JournalAssumption` keeps generations below the wrap, behind which the property is false
(section 6). `RootPeersAssumption` says that the mesh has no more nodes than
`MESH_V2_MAX_NODES`; it says nothing of the uptimes. `OutboxAssumption` says of what is
kept of a key that cutting it again changes nothing. `TableAssumption` says that the numbers in use span at most half the modulus,
which the signed comparison needs and the window of the link keeps to. `ZoneAssumption`
says that a clock which goes on does not go back to an earlier day, and that within a turn
a minute of the day does not come again on another day; a zone that sets its clocks back
over midnight is outside it. The theorems are about `Spec`; the specifications with
fairness that the runs use imply it. (`Spec` of `WeeklySchedule` states its fairness
itself, and the proofs make no use of it.)

Only model-checked is liveness, since the prover does not handle fairness: `Reconnects`
and `QueueDrains` of the link, `ControlSent` of the broker, `EventuallyHandled` of the
outbox, `Settles` of OTA v1/v2 and of the schedule, `Answered` of the commands and
`TimeGetsThrough` of the node table.

## 6. Where the code keeps less than one may expect

Seen while modelling; no run is kept for these, and the properties above are
stated so that they hold with them.

* A frame in a pending lost range that is retransmitted is stored in a reorder
  slot; the receiver then steps over it and the slot stays in use until the
  session ends (`keemash_mesh_core.c`, handle_data and consume_contiguous).
* A NACK handled after the acknowledgement of the same frame reports a delivered
  frame as lost (handle_ack). `Settled` therefore asks for "delivered or
  reported", not for exactly one of the two.
* With two waiting events of one key the outbox replaces the one in the lower
  slot, which may be the older; the header says the newest. No event is lost by it
  (`NothingLost`), and a key of up to 15 characters takes no more than two slots
  (`TwoPerKey`), unless a longer key begins with it.
* A replace key of 16 or more characters is stored without its end
  (`keemash_mesh_event_outbox.c:190`) and compared whole (line 168): it never replaces
  an event, although the header says that a non-empty key does, and its events may fill
  all slots. Its first 15 characters, used as a key, replace an event of the longer
  one.
* After journal generation 0xFFFFFFFF comes 1, of the same parity, so the newest
  record is overwritten in place. It takes 2^32 writes; `Alternates` and
  `IsRegister` are checked below the wrap.
* The idle timeout of the OTA v3 worker, or an abort, clears a BOOT_PENDING record
  that nobody acknowledged.
* An activation that is given up before the reset leaves its partition selected; the
  next transfer erases it.
* A PREPARE of each OTA protocol may be queued before either worker takes its own
  up: each check sees the other idle, and both write to one partition.
* prepare() in a terminal phase and the boot report compare the partition's label
  and rollback state, not its content, so after OTA v2 has overwritten the
  partition they speak of an image that is gone. `SavedMatchesFlash` and
  `VerifiedComplete` except partitions that OTA v2 has written to.
* OTA v3: with the receiver idle after a reset, abort() finds the checkpoint of the
  operation and is then refused by abort_current(); no tombstone is written and
  other operations stay refused, although `docs/ota-v3.md:71` names a tombstone for
  cancellation. A COMMIT repeated after the reset selects the running partition
  again. The result of storing the record of a failed transfer is not looked at.
* The event outbox gives a replaced event a new ticket; one that is replaced again
  and again is put off as long.

OTA v1/v2 (`keemash_mesh_ota_receiver.c`):

* V1 DATA, END and ABORT do not look at the protocol of the session. END completes a
  V2 session without comparing the hash and does not free the hash context; a V2
  ABORT of any operation ends a V1 session. V1 chunks are not tied to an image.
  `PrefixOfImage` therefore speaks of sessions V1 packets did not write into;
  `CommitTruthful` holds in spite of it.
* After a V2 COMMIT a V1 END with number 0 and the same size is answered OK.

Commands:

* When the node's link runs out of retries its `root_session_id` becomes 0
  (`keemash_mesh_core.c:1423`). If the root restarted meanwhile, the HELLO_ACK finds
  `previous_root_session` 0, and the cache is not cleared
  (`keemash_mesh_node.c:1911`). The new root numbers from 1 again, so a new command
  without an identity may be answered from the old cache and not be run. TLC reaches
  it in ten steps; `NumberAnswer` excepts exactly this case.
* A cache cleared for a new root session forgets operations too: an operation asked
  for again after a restart of the root runs again. `AtMostOnce` counts within the
  life of the cache.
* Numbers of log switches come from the clock and may collide with the counter's.
  Results longer than 47 characters are cut in the cache, so a repeated answer raises
  the flag "text changed". Lookups while the link's lock is busy ignore sessions.
* forget_root() clears the cache without a lock. Beside a running command it only
  loses memory (it is modelled before or after the entry is stored, not in the middle of
  storing it). Between the search for a remembered result and its sending
  (`keemash_mesh_node.c:318`) it makes the repeated answer go out empty or mangled, with
  the identity of the operation; the root stores it. `Cleared` names this result.

Root node table and mesh time:

* flush_one_pending_time() tries only the first routed node that waits: one that is
  not bound keeps all later ones waiting (`TimeGetsThrough` assumes it away). A TIME
  the link drops is not queued again.
* Pruning skips an entry whose node the link does not know, so such an entry is never
  freed. A HELLO between the two looks of the pruning task may have its new binding
  removed; the node recovers when its retries run out.
* sync_routes() takes the link's lock after the table's: an older list may be applied
  to the link after a newer one.
* A HELLO whose HELLO_ACK the transport refuses leaves the node bound
  (`keemash_mesh_core.c:1129`) and without an entry (`keemash_mesh_root.c:1207`) until
  its next HELLO; `BoundIsListed` excepts it until then.
* A restart of the root is noticed only if the first TIME the node gets of the new boot
  has an uptime more than 5 s below the last one it got. If it has not (the root has been
  up as long as before, or longer, when TIME reaches this node, or either uptime is 0),
  the generations of the new boot are ignored until they pass the last one of
  the old (`keemash_mesh_time.c:58`), while the uptime is stored even so, which hides the
  restart for good. `Mistakes` names exactly this case. V1 TIME has no detection.

Weekly schedule (each is excused in `InSync`, or outside the constants' assumptions):

* A clock set back a little after a point ran leaves the older state in force until
  that point's next occurrence.
* A catch-up that succeeds marks the current minute as run; an older retry or crossed
  minute that follows is applied over it.
* A point in a minute that daylight saving leaves out is not run that day.
* latest_point_index() does not see a point that occurs only on this weekday, later
  today, though it was the latest for six days.
* There is one retry slot: the result of another point replaces it, although
  `README.md:90` says failed callbacks "remain pending on a five-second retry cadence".
* A start that cannot read the record, or rejects it, runs the empty default although
  the record is in NVS; only a later start or commit changes that. A generation that is
  used again hides a change of content. A refused commit may be
  in NVS already. deadline_reached(now, 0) is false in half of all uptimes.

## 7. Not modelled, and the plan

Left out for good: the codecs, the package verifier and inflater, packet layouts,
generated code and host tools (functions of one input without shared state), hooks
and network configuration (calls into ESP-IDF), log and telemetry formatting, the
self-tests.

Not modelled so far:

* the compatibility tunnel of the facades, which serves peers without the reliable
  link (`CONFIG_KEEMASH_V2_COMPAT_TUNNEL_ENABLE`) and which `RelLink` replaces;
* the log stream: a queue that drops by design; its one race worth a look is between
  the burst task's exit and a burst that starts at that moment;
* V1 TIME packets and a failing settimeofday().

Next would be sequence number 0 after the wrap, which NACK cannot name, and after it the
compatibility tunnel.
