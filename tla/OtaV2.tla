------------------------------- MODULE OtaV2 -------------------------------
(***************************************************************************)
(* The older OTA receiver of a node (keemash_mesh_ota_receiver.c).  It      *)
(* serves two protocols with one record s_ota: V1 packets are handled by    *)
(* the receiving task itself, V2 messages go through a queue to a worker,   *)
(* and a watchdog aborts a transfer nobody continues.  All three take one   *)
(* lock; it is held for long only while esp_ota_begin() erases.             *)
(*                                                                         *)
(* An image is a sequence of units; unit i of image m is <<m, i>>.  A hash  *)
(* is the image it is the hash of, None when all its bytes are zero.  V1    *)
(* packets may come late, repeatedly and in any order, V2 messages too: the *)
(* sender repeats them across sessions of the link.  A packet that is       *)
(* refused and changes nothing is one that does not arrive; so are packets  *)
(* with a wrong project, a bad length or a size beyond the partition, and   *)
(* those that come while OTA v3 is active.                                  *)
(* External: ESP-IDF's OTA calls.  esp_ota_end() refuses what is not an     *)
(* image.  Any of them may fail.                                            *)
(***************************************************************************)
EXTENDS Naturals, Sequences

CONSTANTS
  Images, Size,   \* images and their sizes in units
  Ops, ImageOf,   \* V2 operation ids and the image each one carries
  Seqs,           \* numbers of V1 packets
  Lens,           \* lengths of a chunk
  QueueLen,       \* MESH_OTA_V2_QUEUE_LEN
  None,           \* no operation, no hash, nobody
  MaxPackets,     \* bound: packets and messages that arrive
  MaxResets       \* bound: resets that are not the receiver's own

ASSUME OtaV2Assumption ==
  /\ Size \in [Images -> Nat \ {0}]
  /\ ImageOf \in [Ops -> Images]
  /\ None \notin Ops \cup Images
  /\ Seqs \subseteq Nat /\ Lens \subseteq Nat \ {0}
  /\ QueueLen \in Nat \ {0} /\ {MaxPackets, MaxResets} \subseteq Nat

VARIABLES
  ota,        \* s_ota; stale stands for the age of last_rx_tick
  flash,      \* what esp_ota_write() put into the update partition
  boot,       \* whether that partition is selected for the next start
  latch,      \* s_reboot_pending, s_reboot_end_seq, s_reboot_v2_op_id
  queue,      \* s_ota_v2_queue
  busy,       \* who holds the lock inside esp_ota_begin(), and for what
  okTo,       \* history: end of the last chunk of this session answered OK
  mixed,      \* history: V1 packets wrote into a V2 session
  committed,  \* history: operations whose COMMIT was answered OK since the start
  packets, resets

history == <<okTo, mixed, committed>>
vars == <<ota, flash, boot, latch, queue, busy, history, packets, resets>>

Idle == [active |-> FALSE, v2 |-> FALSE, op |-> None, seq |-> 0, size |-> 0,
         written |-> 0, hashed |-> <<>>, sha |-> None, stale |-> FALSE]
NoLatch == [pending |-> FALSE, endSeq |-> 0, op |-> None]

Units(img, off, len) == [i \in 1 .. len |-> <<img, off + i>>]
Whole(img) == Units(img, 0, Size[img])

BeginPacket == [type: {"begin"}, seq: Seqs, img: Images]
Message ==
  [type: {"prepare", "commit"}, op: Ops, sha: Images \cup {None}]
  \cup [type: {"data"}, op: Ops, off: Nat, len: Lens]
  \cup [type: {"abort"}, op: Ops]

\* finish_stale_abort(), which most handlers begin with
Current == IF ota.stale THEN Idle ELSE ota

Live == ota.active /\ ~ota.stale

Arrives ==
  /\ packets < MaxPackets
  /\ packets' = packets + 1
  /\ UNCHANGED resets

----------------------------------------------------------------------------
(* V1 packets: handled under the lock by the receiving task *)

V1Packet == busy = None /\ Arrives /\ UNCHANGED queue

\* handle_begin(): a repeated BEGIN, then a new one, which starts to erase
BeginAgain(seq, img) ==
  /\ V1Packet /\ ~latch.pending
  /\ Live /\ seq = ota.seq /\ ota.written = 0 /\ ota.size = Size[img]
  /\ ota' = [ota EXCEPT !.stale = FALSE]
  /\ UNCHANGED <<flash, boot, latch, busy, history>>

\* Mutant: a BEGIN is taken up while the reboot is pending.
Begin_NoLatch(seq, img) ==
  /\ V1Packet /\ ~Current.active
  /\ ota' = Current
  /\ busy' = [type |-> "begin", seq |-> seq, img |-> img]
  /\ UNCHANGED <<flash, boot, latch, history>>

Begin(seq, img) ==
  /\ V1Packet /\ ~latch.pending /\ ~Current.active
  /\ ota' = Current
  /\ busy' = [type |-> "begin", seq |-> seq, img |-> img]
  /\ UNCHANGED <<flash, boot, latch, history>>

\* handle_data(): neither the protocol of the session nor its image is looked at
DataWritten(seq, img, off, len) ==
  /\ V1Packet /\ Live
  /\ off = ota.written /\ off + len <= ota.size
  /\ \/ /\ flash' = flash \o Units(img, off, len)
        /\ ota' = [ota EXCEPT !.written = off + len, !.seq = seq, !.stale = FALSE]
        /\ okTo' = off + len
        /\ mixed' = (mixed \/ ota.v2)
     \/ ota' = Idle /\ UNCHANGED <<flash, okTo, mixed>>
  /\ UNCHANGED <<boot, latch, busy, committed>>

DataAgain(seq, off, len) ==
  /\ V1Packet /\ Live
  /\ seq = ota.seq /\ off < ota.written /\ off + len = ota.written
  /\ ota' = [ota EXCEPT !.stale = FALSE]
  /\ okTo' = off + len
  /\ UNCHANGED <<flash, boot, latch, busy, mixed, committed>>

\* esp_ota_end() and esp_ota_set_boot_partition(), which may fail
Complete(newLatch) ==
  /\ ota' = Idle
  /\ \/ /\ \E img \in Images : flash = Whole(img)
        /\ boot' = TRUE
        /\ latch' = newLatch
     \/ UNCHANGED <<boot, latch>>
  /\ UNCHANGED flash

\* handle_end()
End(seq, img) ==
  /\ V1Packet /\ Live
  /\ IF Size[img] = ota.size /\ ota.written = ota.size
     THEN Complete([latch EXCEPT !.pending = TRUE, !.endSeq = seq])
     ELSE ota' = Idle /\ UNCHANGED <<flash, boot, latch>>
  /\ UNCHANGED <<busy, history>>

\* handle_abort()
Abort ==
  /\ V1Packet /\ ~latch.pending
  /\ ota' = Idle
  /\ UNCHANGED <<flash, boot, latch, busy, history>>

----------------------------------------------------------------------------
(* V2 messages: queued by the receiving task, handled by the worker *)

\* keemash_mesh_ota_receiver_handle_v2(); a full queue answers BUSY
Enqueue(m) ==
  /\ busy \notin BeginPacket /\ Arrives
  /\ Len(queue) < QueueLen
  /\ queue' = Append(queue, m)
  /\ UNCHANGED <<ota, flash, boot, latch, busy, history>>

\* ota_v2_worker_task() takes the next message, with the lock ...
Take(type) ==
  /\ busy = None /\ queue # <<>> /\ Head(queue).type = type
  /\ queue' = Tail(queue)
  /\ UNCHANGED <<packets, resets>>

\* ... or gives it up when V1 holds the lock for too long.
LockTimeout ==
  /\ busy \in BeginPacket /\ queue # <<>>
  /\ queue' = Tail(queue)
  /\ UNCHANGED <<ota, flash, boot, latch, busy, history, packets, resets>>

InSession(m) == Live /\ ota.v2 /\ m.op = ota.op

\* handle_v2_prepare(): refused, repeated, or a new session, which starts to erase
Prepare ==
  /\ Take("prepare")
  /\ LET m == Head(queue) IN
     \/ /\ latch.pending \/ (Live /\ ~InSession(m))
        /\ UNCHANGED <<ota, busy>>
     \/ /\ ~latch.pending /\ InSession(m)
        /\ ota' = IF ota.written = 0 THEN [ota EXCEPT !.stale = FALSE] ELSE ota
        /\ UNCHANGED busy
     \/ /\ ~latch.pending /\ ~Current.active
        /\ ota' = Current
        /\ busy' = m
  /\ UNCHANGED <<flash, boot, latch, history>>

\* esp_ota_begin() returns: the session starts, or not; after PREPARE
\* ota_hash_start() may fail too.
Erased ==
  /\ busy # None
  /\ busy' = None
  /\ \/ ota' = IF busy.type = "begin"
               THEN [Idle EXCEPT !.active = TRUE, !.seq = busy.seq, !.size = Size[busy.img]]
               ELSE [Idle EXCEPT !.active = TRUE, !.v2 = TRUE, !.op = busy.op,
                                 !.size = Size[ImageOf[busy.op]], !.sha = busy.sha]
     \/ UNCHANGED ota
  /\ flash' = <<>>
  /\ okTo' = 0 /\ mixed' = FALSE
  /\ UNCHANGED <<boot, latch, queue, committed, packets, resets>>

\* handle_v2_data(): a chunk that lies wholly below written is a repetition
\* Mutant: any chunk that starts below written is taken for a repetition.
Repeated_Overlapping(m) == m.off < ota.written

Repeated(m) == m.off < ota.written /\ m.off + m.len <= ota.written

Continues(m) == m.off = ota.written

V2Data ==
  /\ Take("data")
  /\ LET m == Head(queue)
         img == ImageOf[m.op]
         fits == InSession(m) /\ m.off + m.len <= ota.size
     IN
     \/ /\ fits /\ Continues(m)
        /\ flash' = flash \o Units(img, m.off, m.len)
        /\ ota' = [ota EXCEPT !.written = @ + m.len, !.stale = FALSE,
                              !.hashed = @ \o Units(img, m.off, m.len)]
        /\ okTo' = m.off + m.len
     \/ fits /\ Continues(m) /\ ota' = Idle /\ UNCHANGED <<flash, okTo>>
     \/ /\ fits /\ Repeated(m)
        /\ ota' = [ota EXCEPT !.stale = FALSE]
        /\ okTo' = m.off + m.len
        /\ UNCHANGED flash
     \/ /\ ~(fits /\ (Continues(m) \/ Repeated(m)))
        /\ ota' = Current
        /\ UNCHANGED <<flash, okTo>>
  /\ UNCHANGED <<boot, latch, busy, mixed, committed>>

\* handle_v2_commit(): the hash of the commit is there, is the one PREPARE named, if
\* it named one, and is the hash of the chunks
HashOk(m) ==
  /\ m.sha # None
  /\ ota.sha # None => m.sha = ota.sha
  /\ ota.hashed = Whole(m.sha)

CommitKnown(m) == latch.pending /\ m.op = latch.op

Commit ==
  /\ Take("commit")
  /\ LET m == Head(queue) IN
     \/ /\ CommitKnown(m)
        /\ committed' = committed \cup {m.op}
        /\ UNCHANGED <<ota, flash, boot, latch>>
     \/ /\ ~CommitKnown(m) /\ InSession(m)
        /\ ota.written = ota.size /\ HashOk(m)
        /\ Complete([pending |-> TRUE, endSeq |-> 0, op |-> m.op])
        /\ committed' = IF boot' THEN committed \cup {m.op} ELSE committed
     \/ /\ ~CommitKnown(m)
        /\ ota' = IF InSession(m) THEN Idle ELSE Current
        /\ InSession(m) => ~(ota.written = ota.size /\ HashOk(m))
        /\ UNCHANGED <<flash, boot, latch, committed>>
  /\ UNCHANGED <<busy, okTo, mixed>>

\* handle_v2_abort(): the abort of another V2 operation is ignored, stale or not;
\* a V1 session is aborted by any operation's.
V2Abort ==
  /\ Take("abort")
  /\ ota' = IF latch.pending \/ (ota.v2 /\ Head(queue).op # ota.op) THEN ota ELSE Idle
  /\ UNCHANGED <<flash, boot, latch, busy, history>>

----------------------------------------------------------------------------
(* Time, the watchdog, resets *)

TimePasses ==
  /\ ota.active /\ ~ota.stale
  /\ ota' = [ota EXCEPT !.stale = TRUE]
  /\ UNCHANGED <<flash, boot, latch, queue, busy, history, packets, resets>>

\* ota_watchdog_task(), ota_rx_stale()
\* Mutant: only a V1 transfer is aborted.
Watchdog_V1Only ==
  /\ busy = None /\ ota.stale /\ ~ota.v2
  /\ ota' = Current
  /\ UNCHANGED <<flash, boot, latch, queue, busy, history, packets, resets>>

Watchdog ==
  /\ busy = None /\ ota.stale
  /\ ota' = Current
  /\ UNCHANGED <<flash, boot, latch, queue, busy, history, packets, resets>>

\* After a start the partitions may have changed roles; what the next update
\* partition holds does not matter before it is erased.
Restart ==
  /\ ota' = Idle /\ flash' = <<>> /\ boot' = FALSE /\ latch' = NoLatch
  /\ queue' = <<>> /\ busy' = None
  /\ okTo' = 0 /\ mixed' = FALSE /\ committed' = {}
  /\ UNCHANGED packets

\* reboot_task()
RebootTask == latch.pending /\ Restart /\ UNCHANGED resets

PowerFails == resets < MaxResets /\ Restart /\ resets' = resets + 1

----------------------------------------------------------------------------
Init ==
  /\ ota = Idle /\ flash = <<>> /\ boot = FALSE /\ latch = NoLatch
  /\ queue = <<>> /\ busy = None
  /\ okTo = 0 /\ mixed = FALSE /\ committed = {}
  /\ packets = 0 /\ resets = 0

\* What the senders send: their own image, at the offset it belongs to
Chunks(img) == {c \in (0 .. Size[img] - 1) \X Lens : c[1] + c[2] <= Size[img]}

V1Next ==
  \E seq \in Seqs, img \in Images :
    \/ BeginAgain(seq, img) \/ Begin(seq, img) \/ End(seq, img)
    \/ \E c \in Chunks(img) :
         DataWritten(seq, img, c[1], c[2]) \/ DataAgain(seq, c[1], c[2])

V2Arrives ==
  \E op \in Ops :
    \/ \E type \in {"prepare", "commit"}, sha \in {None, ImageOf[op]} :
         Enqueue([type |-> type, op |-> op, sha |-> sha])
    \/ \E c \in Chunks(ImageOf[op]) :
         Enqueue([type |-> "data", op |-> op, off |-> c[1], len |-> c[2]])
    \/ Enqueue([type |-> "abort", op |-> op])

Worker == Prepare \/ V2Data \/ Commit \/ V2Abort \/ LockTimeout

Next ==
  \/ V1Next \/ Abort
  \/ V2Arrives \/ Worker \/ Erased
  \/ TimePasses \/ Watchdog \/ RebootTask \/ PowerFails

\* The tasks are scheduled, erasing ends, and time passes.
Fairness ==
  /\ WF_vars(Worker) /\ WF_vars(Erased)
  /\ WF_vars(TimePasses) /\ WF_vars(Watchdog) /\ WF_vars(RebootTask)

Spec == Init /\ [][Next]_vars /\ Fairness

----------------------------------------------------------------------------
(* Properties *)

Unit == Images \X Nat

\* Types: the fields of s_ota, the latch and the queue keep their ranges, the queue
\* its bound (xQueueCreate).
TypeOK ==
  /\ ota \in [active: BOOLEAN, v2: BOOLEAN, op: Ops \cup {None}, seq: Seqs \cup {0},
              size: Nat, written: Nat, hashed: Seq(Unit),
              sha: Images \cup {None}, stale: BOOLEAN]
  /\ ota.active \/ ota = Idle
  /\ flash \in Seq(Unit) /\ boot \in BOOLEAN
  /\ latch \in [pending: BOOLEAN, endSeq: Seqs \cup {0}, op: Ops \cup {None}]
  /\ queue \in Seq(Message) /\ Len(queue) <= QueueLen
  /\ busy \in BeginPacket \cup Message \cup {None}
  /\ okTo \in Nat /\ mixed \in BOOLEAN /\ committed \subseteq Ops
  /\ packets \in 0 .. MaxPackets /\ resets \in 0 .. MaxResets

\* From the selection of the partition until the restart it holds a whole image:
\* no packet of either protocol erases, continues or aborts into it (s_reboot_pending).
SelectedStaysWhole ==
  boot => latch.pending /\ ~ota.active /\ \E img \in Images : flash = Whole(img)

\* A COMMIT that was answered OK, the first time or on repetition, means that the
\* image of that operation is the one that will start (handle_v2_commit), whatever V1
\* packets wrote in between.
CommitTruthful ==
  \A op \in committed : boot /\ flash = Whole(ImageOf[op])

\* The partition that will start holds what was promised: a whole image, and that of
\* every operation whose COMMIT was answered OK.
SelectedTruthful == SelectedStaysWhole /\ CommitTruthful

\* A chunk that was answered OK is in the flash, also when the answer was to a
\* repetition (handle_data, handle_v2_data).
AckedIsWritten ==
  ota.active => okTo <= Len(flash) /\ ota.written = Len(flash)

\* What a V2 session has written is the beginning of its image, as long as no V1
\* packet interfered: chunks that come twice, too early or late change nothing.
PrefixOfImage ==
  ota.v2 /\ ~mixed => flash = Units(ImageOf[ota.op], 0, ota.written)

\* The session, the flash and the answers given agree.
FlashAsAnswered == TypeOK /\ AckedIsWritten /\ PrefixOfImage

\* When the senders fall silent the receiver comes to rest: messages are worked off,
\* a transfer left half way is aborted by the watchdog, and a pending reboot happens.
Settles == <>[](~ota.active /\ busy = None /\ queue = <<>> /\ ~latch.pending)

=============================================================================
