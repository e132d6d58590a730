------------------------------- MODULE OtaV3 -------------------------------
(***************************************************************************)
(* The OTA v3 update of one node: the mesh worker                          *)
(* (keemash_mesh_ota_v3_receiver.c), the flash receiver it drives          *)
(* (keemash_ota_v3_flash_receiver.c) with the stream validator under it    *)
(* (keemash_ota_v3_stream.c), and the boot report and its acknowledgement  *)
(* (keemash_ota_v3_boot.c).  Power may fail between any two writes to      *)
(* persistent storage.                                                     *)
(*                                                                         *)
(* An operation stands for the operation id, the artifact and its signed   *)
(* fields; an image is a sequence of chunks of equal size, counted.  The   *)
(* checkpoint journal is one register ("saved"): module Journal shows that *)
(* it may be taken so.  A failed save may have been stored or not.         *)
(* Messages may come in any order and any number of times: the root        *)
(* retries, and OTA messages outlive a session of the reliable link.       *)
(* Signature, target and preflight checks that fail refuse the message and *)
(* change nothing, and so does a lack of memory.  QUERY and the periodic   *)
(* report only read.                                                       *)
(* External: ESP-IDF's OTA calls, its bootloader with rollback enabled     *)
(* (esp_ota_begin() and esp_ota_resume() then refuse while the running     *)
(* image is on probation),                                                 *)
(* the application's health check.  Of OTA v2 (keemash_mesh_ota_receiver.c)*)
(* only what it does to the flash is kept.                                 *)
(***************************************************************************)
EXTENDS Naturals, Sequences

CONSTANTS
  Ops,             \* update operations
  None,            \* no operation, no checkpoint
  Old, V2Image,    \* images that did not come by OTA v3
  Mixed,           \* what two writers leave behind
  Chunks,          \* chunks of an image
  ChunksPerBlock,  \* chunks of a block
  Interval,        \* CHECKPOINT_INTERVAL, in chunks
  QueueLen,        \* OTA_V3_QUEUE_LEN
  NvsFaults,       \* whether NVS writes may fail
  WithV2,          \* whether OTA v2 runs as well
  MaxBoots         \* bound: resets

ASSUME OtaAssumption ==
  /\ {None, Old, V2Image, Mixed} \cap Ops = {}
  /\ {Chunks, ChunksPerBlock, Interval, QueueLen} \subseteq Nat \ {0}
  /\ Chunks % ChunksPerBlock = 0 /\ Interval % ChunksPerBlock = 0
  /\ {NvsFaults, WithV2} \subseteq BOOLEAN
  /\ MaxBoots \in Nat

VARIABLES
  saved,     \* the checkpoint in the journal, or None
  flash,     \* for each partition, whose image it holds and how much of it
  boot,      \* the partition otadata selects
  img,       \* the rollback state of each partition
  running,   \* the partition that runs
  rcv,       \* keemash_ota_v3_flash_receiver_t
  step,      \* where the worker is inside process_message()
  queue,     \* s_queue
  v2,        \* whether OTA v2 has a PREPARE queued, or is active
  boots      \* resets so far

device == <<flash, boot, img, running>>
volatile == <<rcv, step, queue, v2>>
vars == <<saved, device, volatile, boots>>

Partitions == {"ota_0", "ota_1"}
Other(p) == IF p = "ota_0" THEN "ota_1" ELSE "ota_0"

Phases == {"transferring", "verified", "boot_pending"}
Checkpoint == [phase: Phases, op: Ops, at: 0 .. Chunks, part: Partitions]
Image == [op: Ops \cup {Old, V2Image, Mixed}, n: 0 .. Chunks]
ImageStates == {"undefined", "new", "pending", "valid", "aborted"}
Receiver == [mode: {"idle", "active", "verified"}, op: Ops \cup {None},
             part: Partitions \cup {None}, at: 0 .. Chunks, dup: BOOLEAN,
             cp: 0 .. Chunks]
Reset == [mode |-> "idle", op |-> None, part |-> None, at |-> 0, dup |-> FALSE, cp |-> 0]

BootStates == {"validated", "rolled_back", "failed"}
Message ==
  [type: {"prepare", "commit", "abort"}, op: Ops]
  \cup [type: {"data"}, op: Ops, chunk: 0 .. Chunks - 1]
  \cup [type: {"ack"}, op: Ops, state: BootStates]

Whole(p, op) == flash[p] = [op |-> op, n |-> Chunks]
Holds(p, op, n) == flash[p].op = op /\ flash[p].n >= n

----------------------------------------------------------------------------
(* Saving and clearing the checkpoint *)

Save(cp) == saved' = cp
SaveFails(cp) == NvsFaults /\ saved' \in {saved, cp}

\* fill_checkpoint(), save_terminal_checkpoint()
Filled(phase, at) == [phase |-> phase, op |-> rcv.op, at |-> at, part |-> rcv.part]

\* Mutant: the resume point of a finished transfer is left out.
Terminal_NoResumePoint(phase) == Filled(phase, 0)

Terminal(phase) == Filled(phase, Chunks)

\* fail_receiver(): whether the tombstone was stored is not looked at.
FailReceiver ==
  /\ Save(None) \/ SaveFails(None)
  /\ rcv' = Reset
  /\ step' = "idle"

----------------------------------------------------------------------------
(* The queue.  The node facade looks at OTA v2 when a message arrives, not  *)
(* when the worker takes it up.                                            *)

Enqueue(m) ==
  /\ v2 # "active"
  /\ Len(queue) < QueueLen
  /\ queue' = Append(queue, m)
  /\ UNCHANGED <<saved, device, rcv, step, v2, boots>>

Taken(type, op) ==
  /\ step = "idle" /\ queue # <<>>
  /\ Head(queue).type = type /\ Head(queue).op = op
  /\ queue' = Tail(queue)
  /\ UNCHANGED <<v2, boots>>

\* A message that is refused, repeated, or fails a check: it only leaves the queue.
Refuse(op) ==
  /\ \E type \in {"prepare", "data", "commit", "abort", "ack"} : Taken(type, op)
  /\ UNCHANGED <<saved, device, rcv, step>>

----------------------------------------------------------------------------
(* keemash_ota_v3_flash_receiver_prepare() *)

\* Mutant: the partition that is selected instead of the next one.
Target_Boot == boot

Target == Other(running)

\* A terminal checkpoint of this operation: nothing is left to transfer.
PrepareTerminal(op) ==
  /\ Taken("prepare", op)
  /\ rcv.mode = "idle"
  /\ saved # None /\ saved.phase # "transferring" /\ saved.op = op
  /\ rcv' = [Reset EXCEPT !.mode = "verified", !.op = op, !.part = saved.part]
  /\ UNCHANGED <<saved, device, step>>

\* A transfer was interrupted: go on at the checkpoint if the flash still holds
\* what was written before it.
PrepareResume(op) ==
  /\ Taken("prepare", op)
  /\ rcv.mode = "idle"
  /\ saved # None /\ saved.phase = "transferring" /\ saved.op = op
  /\ saved.part = Target
  /\ Holds(Target, op, saved.at)
  /\ img[running] # "pending"
  /\ rcv' = [Reset EXCEPT !.mode = "active", !.op = op, !.part = Target,
                          !.at = saved.at, !.cp = saved.at]
  /\ UNCHANGED <<saved, device, step>>

PrepareBegin(op) ==
  /\ Taken("prepare", op)
  /\ rcv.mode = "idle"
  /\ saved = None
  /\ img[running] # "pending"
  /\ rcv' = [Reset EXCEPT !.mode = "active", !.op = op, !.part = Target]
  /\ UNCHANGED <<saved, device, step>>

----------------------------------------------------------------------------
(* keemash_ota_v3_flash_receiver_write() and the stream validator *)

DataTaken(op) == Taken("data", op) /\ rcv.mode = "active" /\ rcv.op = op
Chunk == Head(queue).chunk

\* The latest chunk again is accepted and ignored.
Repeated == rcv.dup /\ Chunk + 1 = rcv.at

\* stream->raw_offset only moves when a block ends.
RawOffset(at) == at - (at % ChunksPerBlock)
CheckpointDue(at) ==
  /\ RawOffset(at) \notin {rcv.cp, 0}
  /\ RawOffset(at) < Chunks
  /\ RawOffset(at) % Interval = 0

\* The sectors from the chunk on are erased before it is written.
StartChunk(op) ==
  /\ DataTaken(op)
  /\ Chunk = rcv.at
  /\ flash' = [flash EXCEPT ![rcv.part] =
                 IF rcv.at = 0 THEN [op |-> op, n |-> 0]
                 ELSE IF @.op = op /\ @.n >= rcv.at THEN [op |-> op, n |-> rcv.at]
                 ELSE [op |-> Mixed, n |-> 0]]
  /\ step' = "write"
  /\ UNCHANGED <<saved, boot, img, running, rcv>>

\* Mutant: the checkpoint is stored before the chunk is written.
WriteChunk_SavesFirst ==
  /\ step = "write"
  /\ LET due == CheckpointDue(rcv.at + 1)
     IN  /\ saved' = IF due THEN Filled("transferring", rcv.at + 1) ELSE saved
         /\ flash' = IF due THEN flash
                     ELSE [flash EXCEPT ![rcv.part].n =
                             IF flash[rcv.part].op = rcv.op THEN rcv.at + 1 ELSE 0]
  /\ rcv' = [rcv EXCEPT !.at = @ + 1, !.dup = TRUE]
  /\ step' = "idle"
  /\ UNCHANGED <<boot, img, running, queue, v2, boots>>

WriteChunk ==
  /\ step = "write"
  /\ flash' = [flash EXCEPT ![rcv.part].n =
                 IF flash[rcv.part].op = rcv.op THEN rcv.at + 1 ELSE 0]
  /\ rcv' = [rcv EXCEPT !.at = @ + 1, !.dup = TRUE]
  /\ step' = IF CheckpointDue(rcv.at + 1) THEN "checkpoint" ELSE "idle"
  /\ UNCHANGED <<saved, boot, img, running, queue, v2, boots>>

\* Any other chunk: the transfer is given up.
RejectChunk(op) ==
  /\ DataTaken(op)
  /\ Chunk # rcv.at /\ ~Repeated
  /\ FailReceiver
  /\ UNCHANGED device

SaveCheckpoint ==
  /\ step = "checkpoint"
  /\ \/ /\ Save(Filled("transferring", RawOffset(rcv.at)))
        /\ rcv' = [rcv EXCEPT !.cp = RawOffset(rcv.at)]
        /\ step' = "idle"
     \/ /\ SaveFails(Filled("transferring", RawOffset(rcv.at)))
        /\ step' = "failing"
        /\ UNCHANGED rcv
  /\ UNCHANGED <<device, queue, v2, boots>>

\* fail_receiver() after a failed write or save.
Failing ==
  /\ step \in {"write", "failing"}
  /\ FailReceiver
  /\ UNCHANGED <<device, queue, v2, boots>>

----------------------------------------------------------------------------
(* COMMIT: verify(), then activate(), the status and the reset *)

CommitTaken(op) == Taken("commit", op) /\ rcv.op = op

\* keemash_ota_v3_stream_finish() wants the end of the stream, esp_ota_end() a
\* complete image.
Verify(op) ==
  /\ CommitTaken(op) /\ rcv.mode = "active"
  /\ rcv.at = Chunks
  /\ flash[rcv.part].n = Chunks
  /\ rcv' = [rcv EXCEPT !.mode = "verified"]
  /\ step' = "ended"
  /\ UNCHANGED <<saved, device>>

VerifyFails(op) ==
  /\ CommitTaken(op) /\ rcv.mode = "active"
  /\ FailReceiver
  /\ UNCHANGED device

CommitAgain(op) ==
  /\ CommitTaken(op) /\ rcv.mode = "verified"
  /\ step' = "activate"
  /\ UNCHANGED <<saved, device, rcv>>

SaveVerified ==
  /\ step = "ended"
  /\ \/ Save(Terminal("verified")) /\ step' = "activate"
     \/ SaveFails(Terminal("verified")) /\ step' = "failing"
  /\ UNCHANGED <<device, rcv, queue, v2, boots>>

\* The preflight may refuse.
SaveBootPending ==
  /\ step = "activate"
  /\ \/ Save(Terminal("boot_pending")) /\ step' = "select"
     \/ SaveFails(Terminal("boot_pending")) /\ step' = "idle"
     \/ UNCHANGED saved /\ step' = "idle"
  /\ UNCHANGED <<device, rcv, queue, v2, boots>>

\* esp_ota_set_boot_partition(), which checks the image.  Selecting the partition
\* that is selected already may or may not start its probation anew.
SelectBoot ==
  /\ step = "select"
  /\ \/ /\ flash[rcv.part].n = Chunks
        /\ boot' = rcv.part
        /\ \/ img' = [img EXCEPT ![rcv.part] = "new"]
           \/ boot = rcv.part /\ UNCHANGED img
        /\ step' = "report"
     \/ step' = "restore" /\ UNCHANGED <<boot, img>>
  /\ UNCHANGED <<saved, flash, running, rcv, queue, v2, boots>>

RestoreVerified ==
  /\ step = "restore"
  /\ Save(Terminal("verified")) \/ SaveFails(Terminal("verified"))
  /\ step' = "idle"
  /\ UNCHANGED <<device, rcv, queue, v2, boots>>

\* The status goes out, or the node stays up without a reset.
SendStatus ==
  /\ step = "report"
  /\ step' \in {"restart", "idle"}
  /\ UNCHANGED <<saved, device, rcv, queue, v2, boots>>

----------------------------------------------------------------------------
(* Cancelling, and the end of an operation *)

\* keemash_ota_v3_flash_receiver_abort_current()
AbortCurrent ==
  /\ rcv.mode # "idle"
  /\ \/ Save(None) /\ rcv' = Reset
     \/ SaveFails(None) /\ UNCHANGED rcv
  /\ UNCHANGED <<device, step>>

Abort(op) == Taken("abort", op) /\ rcv.op = op /\ AbortCurrent

\* With the receiver idle abort() finds the checkpoint of the operation, and
\* abort_current() then refuses.
AbortIdle(op) ==
  /\ Taken("abort", op)
  /\ rcv.mode = "idle"
  /\ saved # None /\ saved.op = op
  /\ UNCHANGED <<saved, device, rcv, step>>

\* OTA_V3_IDLE_TIMEOUT_MS without a message.
IdleTimeout ==
  /\ step = "idle" /\ queue = <<>>
  /\ AbortCurrent
  /\ UNCHANGED <<queue, v2, boots>>

\* keemash_ota_v3_boot_report(), for a checkpoint in phase BOOT_PENDING
BootState ==
  IF running # saved.part THEN "rolled_back"
  ELSE IF img[running] = "valid" THEN "validated"
  ELSE IF img[running] \in {"new", "pending"} THEN "pending"
  ELSE "failed"

\* keemash_ota_v3_boot_ack()
BootAck(op) ==
  /\ Taken("ack", op)
  /\ saved # None /\ saved.phase = "boot_pending" /\ saved.op = op
  /\ Head(queue).state = BootState
  /\ Save(None) \/ SaveFails(None)
  /\ UNCHANGED <<device, rcv, step>>

----------------------------------------------------------------------------
(* Resets, the health check, OTA v2 *)

\* A reset, wanted or not.  The bootloader runs the selected partition; one that
\* was started before and not validated, or is not whole, gives way to the other.
Restart ==
  /\ boots < MaxBoots
  /\ boots' = boots + 1
  /\ LET runs == flash[boot].n = Chunks /\ img[boot] # "pending"
     IN  /\ running' = IF runs THEN boot ELSE Other(boot)
         /\ boot' = IF runs \/ flash[boot].n < Chunks THEN boot ELSE Other(boot)
         /\ img' = [img EXCEPT ![boot] = IF runs /\ @ = "new" THEN "pending"
                                         ELSE IF ~runs /\ @ = "pending" THEN "aborted"
                                         ELSE @]
  /\ rcv' = Reset /\ step' = "idle" /\ queue' = <<>> /\ v2' = "idle"
  /\ UNCHANGED <<saved, flash>>

MarkValid ==
  /\ img[running] = "pending"
  /\ img' = [img EXCEPT ![running] = "valid"]
  /\ UNCHANGED <<saved, flash, boot, running, volatile, boots>>

\* A PREPARE of OTA v2 is queued when the v3 receiver says it is not active; the
\* worker of OTA v2 takes it up later.
V2Arrive ==
  /\ WithV2 /\ v2 = "idle"
  /\ step = "idle" /\ rcv.mode = "idle"
  /\ v2' = "queued"
  /\ UNCHANGED <<saved, device, rcv, step, queue, boots>>

\* handle_v2_prepare() erases the partition, or refuses.
V2Begin ==
  /\ v2 = "queued"
  /\ \/ /\ img[running] # "pending"
        /\ v2' = "active"
        /\ flash' = [flash EXCEPT ![Target] = [op |-> V2Image, n |-> 0]]
     \/ v2' = "idle" /\ UNCHANGED flash
  /\ UNCHANGED <<saved, boot, img, running, rcv, step, queue, boots>>

\* handle_v2_data() and handle_v2_commit() write the image and select it, or it is
\* given up.
V2End ==
  /\ v2 = "active"
  /\ \/ /\ flash[Target].op = V2Image
        /\ flash' = [flash EXCEPT ![Target].n = Chunks]
        /\ boot' = Target
        /\ img' = [img EXCEPT ![Target] = "new"]
     \/ UNCHANGED <<flash, boot, img>>
  /\ v2' = "idle"
  /\ UNCHANGED <<saved, running, rcv, step, queue, boots>>

----------------------------------------------------------------------------
Init ==
  /\ saved = None
  /\ flash = [p \in Partitions |->
                [op |-> Old, n |-> IF p = "ota_0" THEN Chunks ELSE 0]]
  /\ boot = "ota_0" /\ running = "ota_0"
  /\ img = [p \in Partitions |-> IF p = "ota_0" THEN "valid" ELSE "undefined"]
  /\ rcv = Reset /\ step = "idle" /\ queue = <<>> /\ v2 = "idle"
  /\ boots = 0

Prepare(op) == PrepareTerminal(op) \/ PrepareResume(op) \/ PrepareBegin(op)
Commits(op) == Verify(op) \/ VerifyFails(op) \/ CommitAgain(op)
Worker ==
  \/ WriteChunk \/ SaveCheckpoint \/ Failing \/ SaveVerified \/ SaveBootPending
  \/ SelectBoot \/ RestoreVerified \/ SendStatus \/ IdleTimeout

Next ==
  \/ \E m \in Message : Enqueue(m)
  \/ \E op \in Ops : \/ Prepare(op) \/ StartChunk(op) \/ RejectChunk(op) \/ Commits(op)
                     \/ Abort(op) \/ AbortIdle(op) \/ BootAck(op) \/ Refuse(op)
  \/ Worker
  \/ Restart \/ MarkValid
  \/ V2Arrive \/ V2Begin \/ V2End

Spec == Init /\ [][Next]_vars

----------------------------------------------------------------------------
(* Properties *)

\* What the receiver, the journal and the worker may hold.
TypeOK ==
  /\ saved \in Checkpoint \cup {None}
  /\ flash \in [Partitions -> Image]
  /\ boot \in Partitions /\ running \in Partitions
  /\ img \in [Partitions -> ImageStates]
  /\ rcv \in Receiver
  /\ step \in {"idle", "write", "checkpoint", "failing", "ended", "activate",
              "select", "restore", "report", "restart"}
  /\ queue \in Seq(Message) /\ Len(queue) <= QueueLen
  /\ v2 \in {"idle", "queued", "active"}
  /\ boots \in 0 .. MaxBoots

\* OTA v2 has written to the partition since.
Overwritten(p) == flash[p].op \in {V2Image, Mixed}

\* Whatever power loss, failed NVS write or repeated message came before: what the
\* checkpoint says is in the partition is in it, unless OTA v2 overwrote it.
\* prepare() trusts it for a terminal phase (no hash is computed) and resumes at it
\* otherwise.
SavedMatchesFlash ==
  saved # None /\ ~Overwritten(saved.part) =>
    IF saved.phase = "transferring"
    THEN Holds(saved.part, saved.op, saved.at) /\ saved.at % Interval = 0
    ELSE Whole(saved.part, saved.op)

\* The receiver calls an operation verified, also after a reset, only while the
\* partition it would activate holds the whole image of that operation, again
\* unless OTA v2 overwrote it.
VerifiedComplete ==
  rcv.mode = "verified" /\ ~Overwritten(rcv.part) => Whole(rcv.part, rcv.op)

\* What the journal and the receiver promise about the flash is in it, at every point
\* where power may fail.
FlashAsPromised == TypeOK /\ SavedMatchesFlash /\ VerifiedComplete

\* No step of either OTA protocol writes to the partition that runs, whichever one
\* resets and rollbacks have made that.
RunningUntouched == [][running' = running => flash'[running] = flash[running]]_vars

\* The journal goes from one operation to another only through its tombstone, and
\* until then its position never moves back: a transfer that resumes does not
\* repeat what it has saved.
OneOperation ==
  [][saved # None /\ saved' # None =>
       /\ saved'.op = saved.op /\ saved'.part = saved.part
       /\ saved'.at >= saved.at]_vars
=============================================================================
