---------------------------- MODULE OtaV3_proofs ----------------------------
(***************************************************************************)
(* Proofs about the OTA v3 update: for every image and block size, queue   *)
(* length and number of resets, with OTA v2 beside it or not.  And about   *)
(* the checkpoint journal, the register the update keeps its progress in:  *)
(* up to the wrap of the generations a write never touches the newest      *)
(* record, and the two blobs implement an atomic register, for every set   *)
(* of checkpoints and every modulus.                                       *)
(***************************************************************************)
EXTENDS OtaV3, Journal, Integers, TLAPS

\* The checkpoint belongs to the operation the receiver works on: both came from
\* the same PREPARE.
Owned == rcv.mode # "idle" =>
  /\ rcv.op \in Ops /\ rcv.part \in Partitions
  /\ saved # None => saved.op = rcv.op /\ saved.part = rcv.part

\* A checkpoint of a transfer stands at the start of a block.
AtBlock == saved # None /\ saved.phase = "transferring" => RawOffset(saved.at) = saved.at

\* A transfer goes to the partition that does not run, its checkpoint is behind it,
\* and what the stream validator counts as written is in the flash.
Transferring == rcv.mode = "active" =>
  /\ rcv.part = Other(running)
  /\ saved # None => saved.phase = "transferring" /\ saved.at <= RawOffset(rcv.at)
  /\ rcv.at > 0 => Overwritten(rcv.part) \/ Holds(rcv.part, rcv.op, rcv.at)

\* What the worker has established when it is between two writes.
Between ==
  /\ step = "write" =>
       /\ rcv.mode = "active" /\ rcv.at < Chunks
       /\ Overwritten(rcv.part) \/ flash[rcv.part] = [op |-> rcv.op, n |-> rcv.at]
  /\ step = "checkpoint" =>
       rcv.mode = "active" /\ rcv.at > 0 /\ RawOffset(rcv.at) % Interval = 0
  /\ step \in {"ended", "activate", "select", "restore"} => rcv.mode = "verified"

OtaInv == FlashAsPromised /\ Owned /\ AtBlock /\ Transferring /\ Between

----------------------------------------------------------------------------
(* Arithmetic of blocks *)


LEMMA Sizes == /\ Chunks \in Nat /\ Chunks > 0
               /\ ChunksPerBlock \in Nat /\ ChunksPerBlock > 0
               /\ Interval \in Nat /\ Interval > 0
  BY OtaAssumption

\* Quotients of different size leave a difference of at least the divisor.
LEMMA Apart ==
  ASSUME NEW c \in Nat, NEW q \in Int, NEW p \in Int, q < p
  PROVE  c * q + c <= c * p
<1> DEFINE d == p - q - 1
<1>1. d \in Nat /\ p = q + d + 1
  OBVIOUS
<1>2. c * d >= 0
  BY <1>1
<1>3. c * p = c * q + c * d + c
  BY <1>1
<1> HIDE DEF d
<1> QED
  BY <1>1, <1>2, <1>3

\* The remainder is the only number below the divisor that differs from the dividend
\* by a multiple of it.
LEMMA Remainder ==
  ASSUME NEW c \in Nat, c > 0, NEW q \in Int, NEW r \in 0 .. c - 1
  PROVE  (c * q + r) % c = r
<1> DEFINE a == c * q + r
           p == a \div c
           s == a % c
<1>1. a \in Int /\ p \in Int /\ s \in 0 .. c - 1 /\ a = c * p + s
  OBVIOUS
<1> HIDE DEF p, s
<1>2. ~(q < p)
  BY <1>1, Apart
<1>3. ~(p < q)
  BY <1>1, Apart
<1>4. p = q
  BY <1>1, <1>2, <1>3
<1> QED
  BY <1>1, <1>4 DEF s

\* raw_offset is the start of a block, not after the position and never moving back.
LEMMA Blocks ==
  ASSUME NEW a \in Nat
  PROVE  /\ RawOffset(a) \in 0 .. a
         /\ RawOffset(RawOffset(a)) = RawOffset(a)
         /\ RawOffset(a) <= RawOffset(a + 1)
<1> DEFINE c == ChunksPerBlock
           q == a \div c
           r == a % c
           s == (a + 1) % c
<1>1. c \in Nat /\ c > 0
  BY Sizes
<1> HIDE DEF c
<1>2. q \in Nat /\ r \in 0 .. c - 1 /\ a = c * q + r
  BY <1>1
<1> HIDE DEF q, r
<1>3. (c * q) % c = 0
  BY <1>1, <1>2, Remainder
<1>4. c * q \in Nat
  BY <1>1, <1>2
<1>5. s <= r + 1
  <2>1. CASE r + 1 < c
    <3>1. s = r + 1
      BY <2>1, <1>1, <1>2, Remainder
    <3> QED
      BY <3>1, <1>1, <1>2
  <2>2. CASE r + 1 = c
    <3>1. a + 1 = c * (q + 1) + 0
      BY <2>2, <1>1, <1>2
    <3>2. s = 0
      BY <3>1, <1>1, <1>2, Remainder
    <3> QED
      BY <3>2, <1>1, <1>2
  <2> QED
    BY <2>1, <2>2, <1>1, <1>2
<1> QED
  BY <1>1, <1>2, <1>3, <1>4, <1>5 DEF RawOffset, c

----------------------------------------------------------------------------
(* Steps of the worker preserve the invariant *)

LEMMA Outside == None \notin Ops /\ V2Image \notin Ops /\ Mixed \notin Ops
  BY OtaAssumption

\* Taking a message from the queue.
LEMMA TakenIs ==
  ASSUME TypeOK, NEW type, NEW op, Taken(type, op)
  PROVE  /\ step = "idle" /\ Head(queue) \in Message
         /\ Head(queue).type = type /\ Head(queue).op = op
         /\ queue' \in Seq(Message) /\ Len(queue') <= QueueLen
         /\ v2' = v2 /\ boots' = boots
<1>1. QueueLen \in Nat /\ queue \in Seq(Message) /\ queue # <<>> /\ Len(queue) <= QueueLen
  BY OtaAssumption DEF TypeOK, Taken
<1>2. Head(queue) \in Message /\ Tail(queue) \in Seq(Message)
      /\ Len(Tail(queue)) = Len(queue) - 1 /\ Len(queue) \in Nat
  BY <1>1
<1> QED
  BY <1>1, <1>2 DEF Taken

\* A chunk in the queue is one of the image.
LEMMA ChunkIs ==
  ASSUME TypeOK, NEW op, Taken("data", op)
  PROVE  Chunk \in 0 .. Chunks - 1
<1>1. Head(queue) \in Message /\ Head(queue).type = "data"
  BY TakenIs
<1> QED
  BY <1>1 DEF Message, Chunk

\* A step that only takes or adds messages, or moves OTA v2, keeps the invariant.
LEMMA QueueInv ==
  ASSUME OtaInv, UNCHANGED <<saved, device, rcv, step>>,
         queue' \in Seq(Message), Len(queue') <= QueueLen,
         v2' \in {"idle", "queued", "active"}, boots' \in 0 .. MaxBoots
  PROVE  OtaInv'
  BY DEF OtaInv, FlashAsPromised, TypeOK, SavedMatchesFlash, VerifiedComplete, Owned,
         AtBlock, Transferring, Between, Overwritten, Holds, Whole, device

\* The receiver is reset, the checkpoint kept or cleared.
LEMMA ResetInv ==
  ASSUME OtaInv, UNCHANGED device, rcv' = Reset, step' = "idle",
         saved' \in {saved, None},
         queue' \in Seq(Message), Len(queue') <= QueueLen,
         v2' = v2, boots' = boots
  PROVE  OtaInv'
<1>1. TypeOK'
  BY Sizes DEF OtaInv, FlashAsPromised, TypeOK, device, Receiver, Reset
<1>2. rcv'.mode = "idle" /\ step' = "idle"
  BY DEF Reset
<1>3. SavedMatchesFlash' /\ AtBlock'
  BY DEF OtaInv, FlashAsPromised, SavedMatchesFlash, AtBlock, Overwritten, Holds, Whole, device
<1> QED
  BY <1>1, <1>2, <1>3 DEF OtaInv, FlashAsPromised, VerifiedComplete, Owned, Transferring,
     Between

\* Only the worker's place inside process_message() moves.
LEMMA PlaceInv ==
  ASSUME OtaInv, UNCHANGED <<saved, device, rcv>>,
         queue' \in Seq(Message), Len(queue') <= QueueLen, v2' = v2, boots' = boots,
         \/ step' \in {"idle", "failing", "report", "restart"}
         \/ step' \in {"activate", "select", "restore"} /\ rcv.mode = "verified"
  PROVE  OtaInv'
  BY DEF OtaInv, FlashAsPromised, TypeOK, SavedMatchesFlash, VerifiedComplete, Owned,
         AtBlock, Transferring, Between, Overwritten, Holds, Whole, device

\* A receiver that is verified saves a terminal checkpoint, or clears it.
LEMMA TerminalInv ==
  ASSUME OtaInv, rcv.mode = "verified", UNCHANGED <<device, rcv>>,
         saved' \in {saved, None, Terminal("verified"), Terminal("boot_pending")},
         step' \in {"idle", "failing", "activate", "select", "restore", "report", "restart"},
         queue' \in Seq(Message), Len(queue') <= QueueLen, v2' = v2, boots' = boots
  PROVE  OtaInv'
<1>1. rcv.op \in Ops /\ rcv.part \in Partitions
  BY DEF OtaInv, Owned
<1>2. CASE saved' \in {saved, None}
  BY <1>2 DEF OtaInv, FlashAsPromised, TypeOK, SavedMatchesFlash, VerifiedComplete, Owned,
     AtBlock, Transferring, Between, Overwritten, Holds, Whole, device
<1>3. ASSUME NEW phase \in {"verified", "boot_pending"}, saved' = Terminal(phase)
      PROVE  OtaInv'
  <2>1. /\ saved' \in Checkpoint
        /\ saved'.phase # "transferring" /\ saved'.op = rcv.op /\ saved'.part = rcv.part
    BY <1>1, <1>3, Sizes DEF Terminal, Filled, Checkpoint, Phases
  <2>2. TypeOK'
    BY <2>1 DEF OtaInv, FlashAsPromised, TypeOK, device
  <2>3. VerifiedComplete' /\ SavedMatchesFlash'
    BY <2>1 DEF OtaInv, FlashAsPromised, SavedMatchesFlash, VerifiedComplete, Overwritten,
       Whole, device
  <2> QED
    BY <2>1, <2>2, <2>3 DEF OtaInv, FlashAsPromised, Owned, AtBlock, Transferring, Between
<1> QED
  BY <1>2, <1>3

LEMMA PrepareTerminalInv ==
  ASSUME OtaInv, NEW op \in Ops, PrepareTerminal(op)
  PROVE  OtaInv'
<1>1. TypeOK
  BY DEF OtaInv, FlashAsPromised
<1>2. /\ UNCHANGED <<saved, device, step, v2, boots>> /\ step = "idle"
      /\ queue' \in Seq(Message) /\ Len(queue') <= QueueLen
      /\ saved \in Checkpoint /\ saved # None
      /\ saved.phase # "transferring" /\ saved.op = op
  BY <1>1, TakenIs DEF PrepareTerminal, TypeOK
<1>3. /\ rcv' \in Receiver
      /\ rcv'.mode = "verified" /\ rcv'.op = op /\ rcv'.part = saved.part
      /\ saved.part \in Partitions
  <2>1. rcv' = [mode |-> "verified", op |-> op, part |-> saved.part, at |-> 0,
                dup |-> FALSE, cp |-> 0]
    BY DEF PrepareTerminal, Reset
  <2>2. saved.part \in Partitions
    BY <1>2 DEF Checkpoint
  <2> QED
    BY <2>1, <2>2, Sizes DEF Receiver
<1>4. TypeOK'
  BY <1>1, <1>2, <1>3 DEF TypeOK, device
<1>5. SavedMatchesFlash' /\ VerifiedComplete'
  BY <1>2, <1>3 DEF OtaInv, FlashAsPromised, SavedMatchesFlash, VerifiedComplete, Overwritten,
     Whole, Holds, device
<1> QED
  BY <1>2, <1>3, <1>4, <1>5 DEF OtaInv, FlashAsPromised, Owned, AtBlock, Transferring, Between

LEMMA PrepareResumeInv ==
  ASSUME OtaInv, NEW op \in Ops, PrepareResume(op)
  PROVE  OtaInv'
<1>1. TypeOK
  BY DEF OtaInv, FlashAsPromised
<1>2. /\ UNCHANGED <<saved, device, step, v2, boots>> /\ step = "idle"
      /\ queue' \in Seq(Message) /\ Len(queue') <= QueueLen
      /\ saved \in Checkpoint /\ saved # None
      /\ saved.phase = "transferring" /\ saved.op = op
      /\ saved.part = Other(running) /\ Holds(saved.part, op, saved.at)
  BY <1>1, TakenIs DEF PrepareResume, TypeOK, Target
<1>3. /\ rcv' \in Receiver
      /\ rcv'.mode = "active" /\ rcv'.op = op /\ rcv'.part = saved.part /\ rcv'.at = saved.at
      /\ saved.part \in Partitions /\ saved.at \in Nat
  <2>1. rcv' = [mode |-> "active", op |-> op, part |-> saved.part, at |-> saved.at,
                dup |-> FALSE, cp |-> saved.at]
    BY DEF PrepareResume, Reset, Target
  <2>2. saved.part \in Partitions /\ saved.at \in 0 .. Chunks
    BY <1>2 DEF Checkpoint
  <2> QED
    BY <2>1, <2>2, Sizes DEF Receiver
<1>4. TypeOK'
  BY <1>1, <1>2, <1>3 DEF TypeOK, device
<1>5. SavedMatchesFlash' /\ VerifiedComplete'
  BY <1>2, <1>3 DEF OtaInv, FlashAsPromised, SavedMatchesFlash, VerifiedComplete, Overwritten,
     Whole, Holds, device
<1>6. RawOffset(saved.at) = saved.at
  BY <1>2 DEF OtaInv, AtBlock
<1>7. Transferring'
  BY <1>2, <1>3, <1>6 DEF Transferring, Holds, device
<1> QED
  BY <1>2, <1>3, <1>4, <1>5, <1>7 DEF OtaInv, FlashAsPromised, Owned, AtBlock, Between

LEMMA PrepareBeginInv ==
  ASSUME OtaInv, NEW op \in Ops, PrepareBegin(op)
  PROVE  OtaInv'
<1>1. TypeOK
  BY DEF OtaInv, FlashAsPromised
<1>2. /\ UNCHANGED <<saved, device, step, v2, boots>> /\ step = "idle"
      /\ queue' \in Seq(Message) /\ Len(queue') <= QueueLen
      /\ saved = None
  BY <1>1, TakenIs DEF PrepareBegin
<1>3. /\ rcv' \in Receiver
      /\ rcv'.mode = "active" /\ rcv'.op = op /\ rcv'.part = Other(running) /\ rcv'.at = 0
      /\ Other(running) \in Partitions
  <2>1. rcv' = [mode |-> "active", op |-> op, part |-> Other(running), at |-> 0,
                dup |-> FALSE, cp |-> 0]
    BY DEF PrepareBegin, Reset, Target
  <2>2. Other(running) \in Partitions
    BY DEF Other, Partitions
  <2> QED
    BY <2>1, <2>2, Sizes DEF Receiver
<1>4. TypeOK'
  BY <1>1, <1>2, <1>3 DEF TypeOK, device
<1> QED
  BY <1>2, <1>3, <1>4 DEF OtaInv, FlashAsPromised, SavedMatchesFlash, VerifiedComplete,
     Owned, AtBlock, Transferring, Between, device

LEMMA StartChunkInv ==
  ASSUME OtaInv, NEW op \in Ops, StartChunk(op)
  PROVE  OtaInv'
<1>1. TypeOK
  BY DEF OtaInv, FlashAsPromised
<1>2. /\ UNCHANGED <<saved, boot, img, running, rcv, v2, boots>> /\ step' = "write"
      /\ queue' \in Seq(Message) /\ Len(queue') <= QueueLen
      /\ rcv.mode = "active" /\ rcv.op = op
      /\ rcv.at \in 0 .. Chunks - 1 /\ rcv.part \in Partitions
  BY <1>1, TakenIs, ChunkIs DEF StartChunk, DataTaken, OtaInv, Owned
<1> DEFINE new == IF rcv.at = 0 THEN [op |-> op, n |-> 0]
                  ELSE IF flash[rcv.part].op = op /\ flash[rcv.part].n >= rcv.at
                       THEN [op |-> op, n |-> rcv.at]
                  ELSE [op |-> Mixed, n |-> 0]
<1>3. flash' = [flash EXCEPT ![rcv.part] = new]
  BY DEF StartChunk
<1>4. new \in Image /\ new.op \in {op, Mixed} /\ (new.op # Mixed => new = [op |-> op, n |-> rcv.at])
  BY <1>2, Sizes DEF Image
<1> HIDE DEF new
<1>5. TypeOK'
  BY <1>1, <1>2, <1>3, <1>4 DEF TypeOK
<1>6. flash'[rcv.part] = new
  BY <1>1, <1>2, <1>3 DEF TypeOK
<1>7. SavedMatchesFlash'
  <2> SUFFICES ASSUME saved # None, new.op \notin {V2Image, Mixed}
               PROVE  /\ saved.phase = "transferring" /\ saved.part = rcv.part
                      /\ Holds(saved.part, saved.op, saved.at)' /\ saved.at % Interval = 0
    BY <1>2, <1>6 DEF SavedMatchesFlash, Overwritten, OtaInv, Owned, Holds
  <2>1. /\ saved.phase = "transferring" /\ saved.op = op /\ saved.part = rcv.part
        /\ saved.at <= RawOffset(rcv.at) /\ saved.at \in Nat
    BY <1>1, <1>2 DEF OtaInv, Owned, Transferring, TypeOK, Checkpoint
  <2>2. saved.at <= rcv.at /\ new.n = rcv.at /\ new.op = op
    <3>1. RawOffset(rcv.at) \in 0 .. rcv.at /\ rcv.at \in Nat
      <4>1. rcv.at \in Nat
        BY <1>2
      <4> QED
        BY <4>1, Blocks
    <3>2. new = [op |-> op, n |-> rcv.at]
      BY <1>4
    <3> QED
      BY <2>1, <3>1, <3>2
  <2>3. saved.at % Interval = 0
    <3>1. CASE rcv.at = 0
      BY <3>1, <2>1, <2>2, Sizes
    <3>2. CASE rcv.at # 0
      <4>1. ~Overwritten(rcv.part)
        BY <3>2, <1>2, <2>2, Outside DEF Overwritten, new
      <4> QED
        BY <4>1, <2>1 DEF OtaInv, FlashAsPromised, SavedMatchesFlash
    <3> QED
      BY <3>1, <3>2
  <2> QED
    BY <2>1, <2>2, <2>3, <1>2, <1>6 DEF Holds
<1>8. Transferring'
  <2>1. new.op = Mixed \/ new = [op |-> op, n |-> rcv.at]
    BY <1>4
  <2>2. (Overwritten(rcv.part) \/ Holds(rcv.part, rcv.op, rcv.at))'
    BY <2>1, <1>2, <1>6, Sizes DEF Holds, Overwritten
  <2> QED
    BY <2>2, <1>2 DEF OtaInv, Transferring, RawOffset
<1>9. Between'
  BY <1>2, <1>4, <1>6, Sizes DEF Between, Overwritten
<1> QED
  BY <1>2, <1>5, <1>7, <1>8, <1>9 DEF OtaInv, FlashAsPromised, VerifiedComplete, Owned, AtBlock

LEMMA WriteChunkInv ==
  ASSUME OtaInv, WriteChunk
  PROVE  OtaInv'
<1>1. TypeOK
  BY DEF OtaInv, FlashAsPromised
<1>2. /\ UNCHANGED <<saved, boot, img, running, queue, v2, boots>>
      /\ step' = (IF CheckpointDue(rcv.at + 1) THEN "checkpoint" ELSE "idle")
      /\ rcv.mode = "active" /\ rcv.op \in Ops
      /\ rcv.at \in 0 .. Chunks - 1 /\ rcv.part \in Partitions
  <2>1. rcv.mode = "active" /\ rcv.at < Chunks
    BY DEF WriteChunk, OtaInv, Between
  <2>2. rcv.at \in 0 .. Chunks
    BY <1>1 DEF TypeOK, Receiver
  <2> QED
    BY <2>1, <2>2, Sizes DEF WriteChunk, OtaInv, Owned
<1>3. /\ rcv' \in Receiver
      /\ rcv'.mode = "active" /\ rcv'.op = rcv.op /\ rcv'.part = rcv.part
      /\ rcv'.at = rcv.at + 1
  <2>1. rcv \in Receiver /\ rcv.at + 1 \in 0 .. Chunks
    BY <1>1, <1>2, Sizes DEF TypeOK
  <2>2. rcv' = [mode |-> rcv.mode, op |-> rcv.op, part |-> rcv.part, at |-> rcv.at + 1,
                dup |-> TRUE, cp |-> rcv.cp]
    BY <2>1 DEF WriteChunk, Receiver
  <2>3. rcv.mode \in {"idle", "active", "verified"} /\ rcv.op \in Ops \cup {None}
        /\ rcv.part \in Partitions \cup {None} /\ rcv.cp \in 0 .. Chunks
    BY <2>1 DEF Receiver
  <2> QED
    BY <2>1, <2>2, <2>3, <1>2 DEF Receiver
<1> DEFINE new == [op |-> flash[rcv.part].op,
                   n |-> IF flash[rcv.part].op = rcv.op THEN rcv.at + 1 ELSE 0]
<1>4. flash' = [flash EXCEPT ![rcv.part] = new]
  <2>1. flash[rcv.part] \in Image
    BY <1>1, <1>2 DEF TypeOK
  <2>2. \A e : [flash[rcv.part] EXCEPT !.n = e] = [op |-> flash[rcv.part].op, n |-> e]
    BY <2>1 DEF Image
  <2> QED
    BY <2>2 DEF WriteChunk
<1>5. /\ new \in Image /\ new.op = flash[rcv.part].op
      /\ flash[rcv.part].op = rcv.op => new.n = rcv.at + 1
  <2>1. flash[rcv.part].op \in Ops \cup {Old, V2Image, Mixed}
    BY <1>1, <1>2 DEF TypeOK, Image
  <2> QED
    BY <2>1, <1>2, Sizes DEF Image
<1> HIDE DEF new
<1>6. TypeOK'
  BY <1>1, <1>2, <1>3, <1>4, <1>5 DEF TypeOK
<1>7. flash'[rcv.part] = new
  BY <1>1, <1>2, <1>4 DEF TypeOK
<1>8. \/ Overwritten(rcv.part)
      \/ flash[rcv.part].op = rcv.op /\ flash[rcv.part].n = rcv.at
  BY DEF WriteChunk, OtaInv, Between
<1>9. rcv.at \in Nat /\ RawOffset(rcv.at) \in 0 .. rcv.at
      /\ RawOffset(rcv.at) <= RawOffset(rcv.at + 1)
      /\ RawOffset(rcv.at + 1) \in 0 .. rcv.at + 1
  <2>1. rcv.at \in Nat /\ rcv.at + 1 \in Nat
    BY <1>2
  <2> QED
    BY <2>1, Blocks
<1>10. SavedMatchesFlash'
  <2> SUFFICES ASSUME saved # None, new.op \notin {V2Image, Mixed}
               PROVE  /\ saved.phase = "transferring" /\ saved.part = rcv.part
                      /\ Holds(saved.part, saved.op, saved.at)' /\ saved.at % Interval = 0
    BY <1>2, <1>7 DEF SavedMatchesFlash, Overwritten, OtaInv, Owned, Holds
  <2>1. /\ saved.phase = "transferring" /\ saved.op = rcv.op /\ saved.part = rcv.part
        /\ saved.at <= RawOffset(rcv.at) /\ saved.at \in Nat
    BY <1>1, <1>2 DEF OtaInv, Owned, Transferring, TypeOK, Checkpoint
  <2>2. ~Overwritten(rcv.part) /\ saved.at % Interval = 0
    BY <2>1, <1>5 DEF OtaInv, FlashAsPromised, SavedMatchesFlash, Overwritten
  <2>3. new.op = rcv.op /\ new.n = rcv.at + 1 /\ saved.at <= rcv.at + 1
    BY <2>1, <2>2, <1>5, <1>8, <1>9
  <2> QED
    BY <2>1, <2>2, <2>3, <1>2, <1>7 DEF Holds
<1>11. Transferring'
  <2>1. (Overwritten(rcv.part) \/ Holds(rcv.part, rcv.op, rcv.at))'
    BY <1>3, <1>5, <1>7, <1>8, <1>9 DEF Overwritten, Holds
  <2>2. saved # None => saved.at <= RawOffset(rcv.at + 1) /\ saved.phase = "transferring"
    <3>1. saved # None => saved.at \in Nat /\ saved.at <= RawOffset(rcv.at)
                          /\ saved.phase = "transferring"
      BY <1>1, <1>2 DEF OtaInv, Transferring, TypeOK, Checkpoint
    <3> QED
      BY <3>1, <1>9
  <2>3. RawOffset(rcv.at)' = RawOffset(rcv.at + 1)
    BY <1>3 DEF RawOffset
  <2> QED
    BY <2>1, <2>2, <2>3, <1>2, <1>3 DEF OtaInv, Transferring
<1>12. Between'
  <2>1. RawOffset(rcv.at)' = RawOffset(rcv.at + 1)
    BY <1>3 DEF RawOffset
  <2> QED
    BY <2>1, <1>2, <1>3, <1>9 DEF Between, CheckpointDue
<1> QED
  BY <1>2, <1>3, <1>6, <1>10, <1>11, <1>12 DEF OtaInv, FlashAsPromised, VerifiedComplete,
     Owned, AtBlock

LEMMA SaveCheckpointInv ==
  ASSUME OtaInv, SaveCheckpoint
  PROVE  OtaInv'
<1>1. TypeOK
  BY DEF OtaInv, FlashAsPromised
<1> DEFINE raw == RawOffset(rcv.at)
           cp == Filled("transferring", raw)
<1>2. /\ UNCHANGED <<device, queue, v2, boots>> /\ step' \in {"idle", "failing"}
      /\ rcv.mode = "active" /\ rcv.op \in Ops
      /\ rcv.at \in 1 .. Chunks /\ rcv.part \in Partitions /\ raw % Interval = 0
  BY <1>1 DEF SaveCheckpoint, OtaInv, Owned, Between, TypeOK, Receiver
<1>3. saved' \in {saved, cp} /\ rcv' \in {rcv, [rcv EXCEPT !.cp = raw]}
  BY DEF SaveCheckpoint, Save, SaveFails
<1>4. raw \in 0 .. rcv.at /\ RawOffset(raw) = raw /\ raw \in 0 .. Chunks
  <2>1. rcv.at \in Nat
    BY <1>2
  <2>2. raw \in 0 .. rcv.at /\ RawOffset(raw) = raw
    BY <2>1, Blocks
  <2> QED
    BY <2>2, <1>2, Sizes
<1> HIDE DEF raw
<1>5. /\ rcv' \in Receiver /\ rcv'.mode = rcv.mode /\ rcv'.op = rcv.op
      /\ rcv'.part = rcv.part /\ rcv'.at = rcv.at
  BY <1>1, <1>3, <1>4 DEF TypeOK, Receiver
<1>6. /\ cp \in Checkpoint /\ cp.phase = "transferring" /\ cp.op = rcv.op
      /\ cp.part = rcv.part /\ cp.at = raw
  BY <1>2, <1>4 DEF Filled, Checkpoint, Phases
<1> HIDE DEF cp
<1>7. TypeOK'
  BY <1>1, <1>2, <1>3, <1>5, <1>6 DEF TypeOK, device
<1>8. RawOffset(rcv.at)' = raw
  BY <1>5 DEF raw, RawOffset
<1>9. Owned' /\ AtBlock'
  BY <1>3, <1>4, <1>5, <1>6 DEF OtaInv, Owned, AtBlock, RawOffset
<1>10. CASE saved' = saved
  BY <1>10, <1>2, <1>5, <1>7, <1>8, <1>9 DEF OtaInv, FlashAsPromised, SavedMatchesFlash,
     VerifiedComplete, Transferring, Between, Overwritten, Holds, Whole, device, raw
<1>11. CASE saved' = cp
  <2>1. Overwritten(rcv.part) \/ Holds(rcv.part, rcv.op, raw)
    <3>1. Overwritten(rcv.part) \/ Holds(rcv.part, rcv.op, rcv.at)
      BY <1>2 DEF OtaInv, Transferring
    <3>2. flash[rcv.part].n \in Nat
      BY <1>1, <1>2 DEF TypeOK, Image
    <3> QED
      BY <3>1, <3>2, <1>2, <1>4 DEF Holds
  <2>2. SavedMatchesFlash'
    BY <2>1, <1>2, <1>6, <1>11 DEF SavedMatchesFlash, Overwritten, Holds, device
  <2>3. Transferring'
    BY <1>2, <1>4, <1>5, <1>6, <1>8, <1>11 DEF OtaInv, Transferring, Overwritten, Holds, device
  <2> QED
    BY <2>2, <2>3, <1>2, <1>5, <1>7, <1>9 DEF OtaInv, FlashAsPromised,
       VerifiedComplete, Between
<1> QED
  BY <1>3, <1>10, <1>11

LEMMA VerifyInv ==
  ASSUME OtaInv, NEW op \in Ops, Verify(op)
  PROVE  OtaInv'
<1>1. TypeOK
  BY DEF OtaInv, FlashAsPromised
<1>2. /\ UNCHANGED <<saved, device, v2, boots>> /\ step' = "ended"
      /\ queue' \in Seq(Message) /\ Len(queue') <= QueueLen
      /\ rcv.mode = "active" /\ rcv.at = Chunks /\ flash[rcv.part].n = Chunks
  BY <1>1, TakenIs DEF Verify, CommitTaken
<1>3. /\ rcv' \in Receiver
      /\ rcv'.mode = "verified" /\ rcv'.op = rcv.op /\ rcv'.part = rcv.part
  BY <1>1 DEF Verify, TypeOK, Receiver
<1>4. rcv.part \in Partitions /\ flash[rcv.part] \in Image
  BY <1>1, <1>2 DEF OtaInv, Owned, TypeOK
<1>5. TypeOK'
  BY <1>1, <1>2, <1>3 DEF TypeOK, device
<1>6. Overwritten(rcv.part) \/ Holds(rcv.part, rcv.op, Chunks)
  BY <1>2, Sizes DEF OtaInv, Transferring
<1>7. Holds(rcv.part, rcv.op, Chunks) => Whole(rcv.part, rcv.op)
  BY <1>2, <1>4 DEF Holds, Whole, Image
<1>8. VerifiedComplete'
  BY <1>2, <1>3, <1>6, <1>7 DEF VerifiedComplete, Overwritten, Whole, device
<1>9. SavedMatchesFlash'
  BY <1>2 DEF OtaInv, FlashAsPromised, SavedMatchesFlash, Overwritten, Whole, Holds, device
<1> QED
  BY <1>2, <1>3, <1>5, <1>8, <1>9 DEF OtaInv, FlashAsPromised, Owned, AtBlock, Transferring,
     Between

LEMMA SelectBootInv ==
  ASSUME OtaInv, SelectBoot
  PROVE  OtaInv'
<1>1. rcv.mode = "verified" /\ rcv.part \in Partitions
  BY DEF SelectBoot, OtaInv, Between, Owned
<1>2. /\ UNCHANGED <<saved, flash, running, rcv, queue, v2, boots>>
      /\ step' \in {"report", "restore"}
      /\ boot' \in {boot, rcv.part} /\ img' \in {img, [img EXCEPT ![rcv.part] = "new"]}
  BY DEF SelectBoot
<1>3. TypeOK'
  BY <1>1, <1>2 DEF OtaInv, FlashAsPromised, TypeOK, ImageStates
<1> QED
  BY <1>1, <1>2, <1>3 DEF OtaInv, FlashAsPromised, SavedMatchesFlash, VerifiedComplete, Owned,
     AtBlock, Transferring, Between, Overwritten, Holds, Whole

\* The checkpoint is cleared, or the clear fails, and the receiver stays as it is.
LEMMA ClearInv ==
  ASSUME OtaInv, UNCHANGED <<device, rcv, step>>, saved' \in {saved, None},
         queue' \in Seq(Message), Len(queue') <= QueueLen, v2' = v2, boots' = boots
  PROVE  OtaInv'
  BY DEF OtaInv, FlashAsPromised, TypeOK, SavedMatchesFlash, VerifiedComplete, Owned,
         AtBlock, Transferring, Between, Overwritten, Holds, Whole, device

LEMMA AbortCurrentInv ==
  ASSUME OtaInv, AbortCurrent, step = "idle",
         queue' \in Seq(Message), Len(queue') <= QueueLen, v2' = v2, boots' = boots
  PROVE  OtaInv'
<1>1. CASE rcv' = Reset
  BY <1>1, ResetInv DEF AbortCurrent, Save, SaveFails
<1>2. CASE rcv' = rcv
  BY <1>2, ClearInv DEF AbortCurrent, Save, SaveFails
<1> QED
  BY <1>1, <1>2 DEF AbortCurrent

LEMMA RestartInv ==
  ASSUME OtaInv, Restart
  PROVE  OtaInv'
<1>1. boots' \in 0 .. MaxBoots
  BY OtaAssumption DEF Restart, OtaInv, FlashAsPromised, TypeOK
<1>2. running' \in Partitions /\ boot' \in Partitions /\ img' \in [Partitions -> ImageStates]
  <2>1. \A p \in Partitions : Other(p) \in Partitions
    BY DEF Other, Partitions
  <2>2. boot \in Partitions /\ img \in [Partitions -> ImageStates]
    BY DEF OtaInv, FlashAsPromised, TypeOK
  <2>3. running' \in {boot, Other(boot)} /\ boot' \in {boot, Other(boot)}
    BY DEF Restart
  <2>4. \E s \in {"pending", "aborted", img[boot]} : img' = [img EXCEPT ![boot] = s]
    BY DEF Restart
  <2>5. img[boot] \in ImageStates /\ {"pending", "aborted"} \subseteq ImageStates
    BY <2>2 DEF ImageStates
  <2> QED
    BY <2>1, <2>2, <2>3, <2>4, <2>5
<1>3. /\ UNCHANGED <<saved, flash>> /\ rcv' = Reset /\ step' = "idle" /\ queue' = <<>>
      /\ v2' = "idle"
  BY DEF Restart
<1>4. rcv' \in Receiver /\ rcv'.mode = "idle"
  BY <1>3, Sizes DEF Reset, Receiver
<1>5. TypeOK'
  BY <1>1, <1>2, <1>3, <1>4, OtaAssumption DEF OtaInv, FlashAsPromised, TypeOK
<1>6. SavedMatchesFlash' /\ AtBlock'
  BY <1>3 DEF OtaInv, FlashAsPromised, SavedMatchesFlash, AtBlock, Overwritten, Holds, Whole
<1> QED
  BY <1>3, <1>4, <1>5, <1>6 DEF OtaInv, FlashAsPromised, VerifiedComplete, Owned,
     Transferring, Between

LEMMA MarkValidInv ==
  ASSUME OtaInv, MarkValid
  PROVE  OtaInv'
<1>1. /\ UNCHANGED <<saved, flash, boot, running, rcv, step, queue, v2, boots>>
      /\ img' = [img EXCEPT ![running] = "valid"]
  BY DEF MarkValid, volatile
<1>2. TypeOK'
  BY <1>1 DEF OtaInv, FlashAsPromised, TypeOK, ImageStates
<1> QED
  BY <1>1, <1>2 DEF OtaInv, FlashAsPromised, SavedMatchesFlash, VerifiedComplete, Owned,
     AtBlock, Transferring, Between, Overwritten, Holds, Whole

\* OTA v2 writes its image, or a part of it, over the partition that does not run.
LEMMA V2WriteInv ==
  ASSUME OtaInv, NEW image \in Image, image.op = V2Image,
         flash' = [flash EXCEPT ![Target] = image],
         UNCHANGED <<saved, running, rcv, step, queue, boots>>,
         boot' \in Partitions, img' \in [Partitions -> ImageStates],
         v2' \in {"idle", "active"}
  PROVE  OtaInv'
<1>1. TypeOK
  BY DEF OtaInv, FlashAsPromised
<1>2. Target \in Partitions
  BY DEF Target, Other, Partitions
<1>3. flash'[Target] = image /\ \A p \in Partitions : p # Target => flash'[p] = flash[p]
  BY <1>1, <1>2 DEF TypeOK
<1>4. TypeOK'
  BY <1>1, <1>2 DEF TypeOK
<1>5. \A p \in Partitions : Overwritten(p)' \/ flash'[p] = flash[p]
  BY <1>3 DEF Overwritten
<1>6. saved # None => saved.part \in Partitions
  BY <1>1 DEF TypeOK, Checkpoint
<1>7. SavedMatchesFlash'
  BY <1>5, <1>6 DEF OtaInv, FlashAsPromised, SavedMatchesFlash, Overwritten, Holds, Whole
<1>8. rcv.mode # "idle" => rcv.part \in Partitions
  BY DEF OtaInv, Owned
<1>9. VerifiedComplete'
  BY <1>5, <1>8 DEF OtaInv, FlashAsPromised, VerifiedComplete, Overwritten, Whole
<1>10. Transferring' /\ Between'
  BY <1>5, <1>8 DEF OtaInv, Transferring, Between, Overwritten, Holds, RawOffset
<1> QED
  BY <1>4, <1>7, <1>9, <1>10 DEF OtaInv, FlashAsPromised, Owned, AtBlock, RawOffset

----------------------------------------------------------------------------
(* The invariant *)

LEMMA OtaInit ==
  ASSUME Init
  PROVE  OtaInv
<1>1. flash \in [Partitions -> Image] /\ img \in [Partitions -> ImageStates]
  BY Sizes DEF Init, Image, ImageStates
<1>2. rcv \in Receiver /\ rcv.mode = "idle"
  BY Sizes DEF Init, Reset, Receiver
<1>3. TypeOK
  BY <1>1, <1>2, OtaAssumption DEF Init, TypeOK, Partitions
<1> QED
  BY <1>2, <1>3 DEF Init, OtaInv, FlashAsPromised, SavedMatchesFlash, VerifiedComplete, Owned,
     AtBlock, Transferring, Between

LEMMA OtaStep ==
  ASSUME OtaInv, [Next]_vars
  PROVE  OtaInv'
<1>1. /\ TypeOK /\ queue \in Seq(Message) /\ Len(queue) <= QueueLen
      /\ boots \in 0 .. MaxBoots /\ v2 \in {"idle", "queued", "active"}
  BY DEF OtaInv, FlashAsPromised, TypeOK
<1>2. ASSUME NEW m \in Message, Enqueue(m)
      PROVE  OtaInv'
  <2>1. queue' \in Seq(Message) /\ Len(queue') <= QueueLen
    BY <1>1, <1>2, OtaAssumption DEF Enqueue
  <2> QED
    BY <2>1, <1>1, <1>2, QueueInv DEF Enqueue
<1>3. ASSUME NEW op \in Ops, Prepare(op)
      PROVE  OtaInv'
  BY <1>3, PrepareTerminalInv, PrepareResumeInv, PrepareBeginInv DEF Prepare
<1>4. ASSUME NEW op \in Ops, StartChunk(op)
      PROVE  OtaInv'
  BY <1>4, StartChunkInv
<1>5. ASSUME NEW op \in Ops, RejectChunk(op)
      PROVE  OtaInv'
  BY <1>1, <1>5, TakenIs, ResetInv DEF RejectChunk, DataTaken, FailReceiver, Save, SaveFails
<1>6. ASSUME NEW op \in Ops, Commits(op)
      PROVE  OtaInv'
  <2>1. CASE Verify(op)
    BY <2>1, VerifyInv
  <2>2. CASE VerifyFails(op)
    BY <1>1, <2>2, TakenIs, ResetInv DEF VerifyFails, CommitTaken, FailReceiver, Save, SaveFails
  <2>3. CASE CommitAgain(op)
    BY <1>1, <2>3, TakenIs, PlaceInv DEF CommitAgain, CommitTaken
  <2> QED
    BY <1>6, <2>1, <2>2, <2>3 DEF Commits
<1>7. ASSUME NEW op \in Ops, Abort(op)
      PROVE  OtaInv'
  BY <1>1, <1>7, TakenIs, AbortCurrentInv DEF Abort
<1>8. ASSUME NEW op \in Ops, AbortIdle(op)
      PROVE  OtaInv'
  BY <1>1, <1>8, TakenIs, QueueInv DEF AbortIdle
<1>9. ASSUME NEW op \in Ops, BootAck(op)
      PROVE  OtaInv'
  BY <1>1, <1>9, TakenIs, ClearInv DEF BootAck, Save, SaveFails
<1>10. ASSUME NEW op \in Ops, Refuse(op)
       PROVE  OtaInv'
  BY <1>1, <1>10, TakenIs, QueueInv DEF Refuse
<1>11. CASE Worker
  <2>1. CASE WriteChunk
    BY <2>1, WriteChunkInv
  <2>2. CASE SaveCheckpoint
    BY <2>2, SaveCheckpointInv
  <2>3. CASE Failing
    BY <1>1, <2>3, ResetInv DEF Failing, FailReceiver, Save, SaveFails
  <2>4. CASE SaveVerified
    BY <1>1, <2>4, TerminalInv DEF SaveVerified, Save, SaveFails, OtaInv, Between
  <2>5. CASE SaveBootPending
    BY <1>1, <2>5, TerminalInv DEF SaveBootPending, Save, SaveFails, OtaInv, Between
  <2>6. CASE SelectBoot
    BY <2>6, SelectBootInv
  <2>7. CASE RestoreVerified
    BY <1>1, <2>7, TerminalInv DEF RestoreVerified, Save, SaveFails, OtaInv, Between
  <2>8. CASE SendStatus
    BY <1>1, <2>8, PlaceInv DEF SendStatus
  <2>9. CASE IdleTimeout
    BY <1>1, <2>9, AbortCurrentInv DEF IdleTimeout
  <2> QED
    BY <1>11, <2>1, <2>2, <2>3, <2>4, <2>5, <2>6, <2>7, <2>8, <2>9 DEF Worker
<1>12. CASE Restart
  BY <1>12, RestartInv
<1>13. CASE MarkValid
  BY <1>13, MarkValidInv
<1>14. CASE V2Arrive
  BY <1>1, <1>14, QueueInv DEF V2Arrive
<1>15. CASE V2Begin
  <2>1. CASE flash' = flash
    BY <1>1, <1>15, <2>1, QueueInv DEF V2Begin, device
  <2>2. CASE flash' = [flash EXCEPT ![Target] = [op |-> V2Image, n |-> 0]] /\ v2' = "active"
    <3>1. [op |-> V2Image, n |-> 0] \in Image
      BY Sizes DEF Image
    <3> QED
      BY <3>1, <1>1, <1>15, <2>2, V2WriteInv DEF V2Begin, TypeOK
  <2> QED
    BY <1>15, <2>1, <2>2 DEF V2Begin
<1>16. CASE V2End
  <2>1. CASE UNCHANGED <<flash, boot, img>>
    BY <1>1, <1>16, <2>1, QueueInv DEF V2End, device
  <2>2. CASE /\ flash[Target].op = V2Image
             /\ flash' = [flash EXCEPT ![Target].n = Chunks]
             /\ boot' = Target
             /\ img' = [img EXCEPT ![Target] = "new"]
    <3> DEFINE image == [op |-> V2Image, n |-> Chunks]
    <3>1. Target \in Partitions
      BY DEF Target, Other, Partitions
    <3>2. flash[Target] \in Image
      BY <3>1, <1>1 DEF TypeOK
    <3>3. [flash[Target] EXCEPT !.n = Chunks] = image /\ image \in Image
      BY <3>2, <2>2, Sizes DEF Image
    <3>4. flash' = [flash EXCEPT ![Target] = image]
      BY <3>3, <2>2
    <3>5. img' \in [Partitions -> ImageStates]
      BY <3>1, <1>1, <2>2 DEF TypeOK, ImageStates
    <3> QED
      BY <3>1, <3>3, <3>4, <3>5, <1>16, <2>2, V2WriteInv DEF V2End
  <2> QED
    BY <1>16, <2>1, <2>2 DEF V2End
<1>17. CASE UNCHANGED vars
  BY <1>1, <1>17, QueueInv DEF vars, volatile
<1> QED
  BY <1>2, <1>3, <1>4, <1>5, <1>6, <1>7, <1>8, <1>9, <1>10, <1>11, <1>12, <1>13, <1>14,
     <1>15, <1>16, <1>17 DEF Next

\* OtaInv is an invariant of the update.
THEOREM OtaInvariant == Spec => []OtaInv
<1>1. Init => OtaInv
  BY OtaInit
<1>2. OtaInv /\ [Next]_vars => OtaInv'
  BY OtaStep
<1> QED
  BY <1>1, <1>2, PTL DEF Spec

\* At every point where power may fail, after any number of resets, failed NVS writes
\* and repeated messages: what the checkpoint and the receiver say is in the flash is
\* in it, or OTA v2 has written over it.  keemash_ota_v3_flash_receiver_prepare() may
\* trust a terminal checkpoint without hashing the partition.
THEOREM PromiseKept == Spec => []FlashAsPromised
<1>1. OtaInv => FlashAsPromised
  BY DEF OtaInv
<1> QED
  BY <1>1, OtaInvariant, PTL

----------------------------------------------------------------------------
(* What a step may not do *)

\* A write to the flash goes to the partition that does not run.
LEMMA StepLeavesRunning ==
  ASSUME OtaInv, [Next]_vars, running' = running
  PROVE  flash'[running] = flash[running]
<1>1. /\ flash \in [Partitions -> Image] /\ running \in Partitions
      /\ Other(running) # running /\ Other(running) \in Partitions
  BY DEF OtaInv, FlashAsPromised, TypeOK, Other, Partitions
<1>2. \A x : [flash EXCEPT ![Other(running)] = x][running] = flash[running]
  BY <1>1
<1>3. rcv.mode = "active" => rcv.part = Other(running)
  BY DEF OtaInv, Transferring
<1>4. ASSUME NEW op \in Ops, StartChunk(op)
      PROVE  flash'[running] = flash[running]
  BY <1>2, <1>3, <1>4 DEF StartChunk, DataTaken
<1>5. CASE WriteChunk
  BY <1>2, <1>3, <1>5 DEF WriteChunk, OtaInv, Between
<1>6. CASE V2Begin \/ V2End
  BY <1>2, <1>6 DEF V2Begin, V2End, Target
<1>7. CASE flash' = flash
  BY <1>7
<1>8. ASSUME NEW op \in Ops,
             \/ Prepare(op) \/ RejectChunk(op) \/ Commits(op) \/ Abort(op)
             \/ AbortIdle(op) \/ BootAck(op) \/ Refuse(op)
      PROVE  flash' = flash
  BY <1>8 DEF Prepare, PrepareTerminal, PrepareResume, PrepareBegin, RejectChunk, Commits,
     Verify, VerifyFails, CommitAgain, Abort, AbortIdle, AbortCurrent, BootAck, Refuse, device
<1>9. CASE Worker /\ ~WriteChunk
  <2>1. flash' = flash
    BY <1>9 DEF Worker, SaveCheckpoint, Failing, SaveVerified, SaveBootPending, SelectBoot,
       RestoreVerified, SendStatus, IdleTimeout, AbortCurrent, device
  <2> QED
    BY <2>1
<1>10. CASE Restart \/ MarkValid \/ V2Arrive \/ UNCHANGED vars
  <2>1. flash' = flash
    BY <1>10 DEF Restart, MarkValid, V2Arrive, vars, device
  <2> QED
    BY <2>1
<1>11. ASSUME NEW m \in Message, Enqueue(m)
       PROVE  flash' = flash
  BY <1>11 DEF Enqueue, device
<1> QED
  BY <1>4, <1>5, <1>6, <1>7, <1>8, <1>9, <1>10, <1>11 DEF Next

\* Neither OTA v3 nor OTA v2 ever writes to the partition that runs, whichever one
\* resets and rollbacks have made that: esp_ota_get_next_update_partition() is asked
\* anew after each of them, and a transfer does not outlive one.
THEOREM RunningPartitionUntouched == Spec => RunningUntouched
<1>1. OtaInv /\ [Next]_vars =>
        [running' = running => flash'[running] = flash[running]]_vars
  BY StepLeavesRunning
<1> QED
  BY <1>1, OtaInvariant, PTL DEF Spec, RunningUntouched

\* The checkpoint moves on within its operation, or is cleared.
LEMMA StepKeepsOperation ==
  ASSUME OtaInv, [Next]_vars, saved # None, saved' # None
  PROVE  saved'.op = saved.op /\ saved'.part = saved.part /\ saved'.at >= saved.at
<1>1. saved \in Checkpoint /\ saved.at \in 0 .. Chunks
  BY DEF OtaInv, FlashAsPromised, TypeOK, Checkpoint
<1>2. rcv.mode # "idle" => saved.op = rcv.op /\ saved.part = rcv.part
  BY DEF OtaInv, Owned
<1>3. CASE saved' = saved
  BY <1>1, <1>3
<1>4. ASSUME NEW phase, rcv.mode = "verified", saved' = Terminal(phase)
      PROVE  saved'.op = saved.op /\ saved'.part = saved.part /\ saved'.at >= saved.at
  BY <1>1, <1>2, <1>4, Sizes DEF Terminal, Filled
<1>5. CASE SaveCheckpoint
  <2>1. saved.at <= RawOffset(rcv.at) /\ rcv.mode = "active" /\ rcv.at \in Nat
    BY <1>5 DEF SaveCheckpoint, OtaInv, Between, Transferring, FlashAsPromised, TypeOK, Receiver
  <2>2. RawOffset(rcv.at) \in 0 .. rcv.at
    BY <2>1, Blocks
  <2>3. CASE saved' = Filled("transferring", RawOffset(rcv.at))
    BY <2>1, <2>2, <2>3, <1>1, <1>2 DEF Filled
  <2> QED
    BY <2>3, <1>3, <1>5 DEF SaveCheckpoint, Save, SaveFails
<1>6. CASE SaveVerified \/ SaveBootPending \/ RestoreVerified
  <2>1. rcv.mode = "verified"
    BY <1>6 DEF SaveVerified, SaveBootPending, RestoreVerified, OtaInv, Between
  <2>2. \/ saved' = saved \/ saved' = Terminal("verified")
        \/ saved' = Terminal("boot_pending")
    BY <1>6 DEF SaveVerified, SaveBootPending, RestoreVerified, Save, SaveFails
  <2> QED
    BY <2>1, <2>2, <1>3, <1>4
<1>7. ASSUME NEW op \in Ops,
             \/ Prepare(op) \/ StartChunk(op) \/ RejectChunk(op) \/ Commits(op)
             \/ Abort(op) \/ AbortIdle(op) \/ BootAck(op) \/ Refuse(op)
      PROVE  saved' = saved
  BY <1>7 DEF Prepare, PrepareTerminal, PrepareResume, PrepareBegin, StartChunk, RejectChunk,
     Commits, Verify, VerifyFails, CommitAgain, Abort, AbortIdle, AbortCurrent, BootAck,
     Refuse, FailReceiver, Save, SaveFails
<1>8. CASE WriteChunk \/ Failing \/ SelectBoot \/ SendStatus \/ IdleTimeout
  <2>1. saved' = saved
    BY <1>8 DEF WriteChunk, Failing, SelectBoot, SendStatus, IdleTimeout, AbortCurrent,
       FailReceiver, Save, SaveFails
  <2> QED
    BY <2>1, <1>3
<1>9. CASE Restart \/ MarkValid \/ V2Arrive \/ V2Begin \/ V2End \/ UNCHANGED vars
  <2>1. saved' = saved
    BY <1>9 DEF Restart, MarkValid, V2Arrive, V2Begin, V2End, vars
  <2> QED
    BY <2>1, <1>3
<1>10. ASSUME NEW m \in Message, Enqueue(m)
       PROVE  saved' = saved
  BY <1>10 DEF Enqueue
<1> QED
  BY <1>3, <1>5, <1>6, <1>7, <1>8, <1>9, <1>10 DEF Next, Worker

\* The journal goes from one operation to another only through the tombstone, and
\* within one its position never moves back, whatever is retried or fails.
THEOREM OneOperationAtATime == Spec => OneOperation
<1>1. OtaInv /\ [Next]_vars =>
        [saved # None /\ saved' # None =>
           /\ saved'.op = saved.op /\ saved'.part = saved.part
           /\ saved'.at >= saved.at]_vars
  BY StepKeepsOperation
<1> QED
  BY <1>1, OtaInvariant, PTL DEF Spec, OneOperation

----------------------------------------------------------------------------
(* The checkpoint journal *)

\* A valid blob lies under the key of its generation, and the generations of two
\* valid blobs are neighbours: this is what makes the signed comparison of
\* latest_record() pick the one written later.
Placed ==
  /\ \A k \in Keys : nvs[k].valid =>
       Key(nvs[k].generation) = k /\ nvs[k].generation <= MaxGeneration
  /\ nvs["v3a"].valid /\ nvs["v3b"].valid =>
       \/ nvs["v3a"].generation = nvs["v3b"].generation + 1
       \/ nvs["v3b"].generation = nvs["v3a"].generation + 1

\* The record being written is the one after the newest.
Follows == writing # Nothing =>
  /\ writing.generation <= MaxGeneration
  /\ writing.generation = IF Latest.valid THEN Latest.generation + 1 ELSE 1

JournalInv == BlobTypes /\ Placed /\ Follows

----------------------------------------------------------------------------
(* Generations *)

LEMMA GenerationWidth ==
  /\ Modulus \in Nat /\ Modulus > 3
  /\ FirstGeneration \in Nat /\ FirstGeneration # 1
  /\ FirstGeneration <= MaxGeneration
  /\ MaxGeneration \in Nat /\ 1 <= MaxGeneration /\ MaxGeneration < Modulus
  /\ Nothing \notin Record /\ Nothing \notin Values
  BY JournalAssumption

\* The successor of a generation below the bound is not reduced, and goes under the
\* other key.
LEMMA NextNumber ==
  ASSUME NEW g \in Nat, g < MaxGeneration
  PROVE  /\ (g + 1) % Modulus = g + 1 /\ g + 1 # 0
         /\ Key(g + 1) # Key(g)
<1>1. (g + 1) % Modulus = g + 1
  BY GenerationWidth
<1>2. (g + 1) % 2 # g % 2
  OBVIOUS
<1>3. g % 2 \in {0, 1} /\ (g + 1) % 2 \in {0, 1}
  OBVIOUS
<1> QED
  BY <1>1, <1>2, <1>3 DEF Key

\* Of two neighbours the signed comparison finds the greater one newer.
LEMMA Neighbours ==
  ASSUME NEW g \in Nat
  PROVE  Newer(g + 1, g) /\ ~Newer(g, g + 1)
<1>1. Modulus \div 2 \in Nat /\ Modulus \div 2 >= 2 /\ 2 * (Modulus \div 2) <= Modulus
  BY GenerationWidth
<1>2. (g + 1) - g = 1 /\ g - (g + 1) = -1
  OBVIOUS
<1>3. 1 % Modulus = 1 /\ (-1) % Modulus = Modulus - 1
  BY GenerationWidth
<1> QED
  BY <1>1, <1>2, <1>3, GenerationWidth DEF Newer

----------------------------------------------------------------------------
(* The newest record *)

\* Empty blobs and records are told apart by their "valid" field.
LEMMA Blobs ==
  ASSUME BlobTypes
  PROVE  /\ \A k \in Keys : \/ nvs[k] = Blank /\ ~nvs[k].valid
                            \/ nvs[k] \in Record /\ nvs[k].valid
         /\ \A k \in Keys : nvs[k].valid => nvs[k].generation \in Nat /\ nvs[k].generation > 0
<1> SUFFICES ASSUME NEW k \in Keys
             PROVE  /\ \/ nvs[k] = Blank /\ ~nvs[k].valid
                       \/ nvs[k] \in Record /\ nvs[k].valid
                    /\ nvs[k].valid => nvs[k].generation \in Nat /\ nvs[k].generation > 0
  OBVIOUS
<1>1. CASE nvs[k] = Blank
  <2>1. ~nvs[k].valid
    BY <1>1 DEF Blank
  <2> QED
    BY <1>1, <2>1
<1>2. CASE nvs[k] \in Record
  <2>1. nvs[k].valid = TRUE /\ nvs[k].generation \in 1 .. Modulus - 1
    BY <1>2 DEF Record
  <2> QED
    BY <1>2, <2>1, GenerationWidth
<1> QED
  BY <1>1, <1>2 DEF BlobTypes

\* Latest is the valid record with the greatest generation, under the key of that
\* generation.
LEMMA LatestIs ==
  ASSUME BlobTypes, Placed
  PROVE  /\ \A k \in Keys : nvs[k].valid => Latest.valid
         /\ Latest.valid =>
              /\ Latest \in Record
              /\ Latest.generation \in Nat \ {0}
              /\ Latest.generation <= MaxGeneration
              /\ nvs[Key(Latest.generation)] = Latest
              /\ \A k \in Keys : nvs[k].valid /\ nvs[k] # Latest =>
                   nvs[k].generation = Latest.generation - 1
         /\ ~Latest.valid => Latest = Blank /\ nvs["v3a"] = Blank /\ nvs["v3b"] = Blank
<1> DEFINE a == nvs["v3a"]
           b == nvs["v3b"]
<1>1. Keys = {"v3a", "v3b"} /\ Latest \in {a, b}
  BY DEF Keys, Latest
<1>2. CASE a.valid /\ b.valid
  <2>1. CASE a.generation = b.generation + 1
    <3>1. ~Newer(b.generation, a.generation)
      BY <2>1, <1>2, <1>1, Blobs, Neighbours
    <3>2. Latest = a
      BY <3>1, <1>2 DEF Latest
    <3> QED
      BY <3>2, <2>1, <1>1, <1>2, Blobs DEF Placed
  <2>2. CASE b.generation = a.generation + 1
    <3>1. Newer(b.generation, a.generation)
      BY <2>2, <1>2, <1>1, Blobs, Neighbours
    <3>2. Latest = b
      BY <3>1, <1>2 DEF Latest
    <3> QED
      BY <3>2, <2>2, <1>1, <1>2, Blobs DEF Placed
  <2> QED
    BY <2>1, <2>2, <1>2 DEF Placed
<1>3. CASE ~a.valid /\ b.valid
  <2>1. Latest = b
    BY <1>3 DEF Latest
  <2> QED
    BY <2>1, <1>1, <1>3, Blobs DEF Placed
<1>4. CASE ~b.valid
  <2>1. Latest = a
    BY <1>4 DEF Latest
  <2> QED
    BY <2>1, <1>1, <1>4, Blobs DEF Placed
<1> QED
  BY <1>2, <1>3, <1>4

\* The generation of the next record, below the bound.
LEMMA NextIs ==
  ASSUME BlobTypes, Placed, Latest.valid => Latest.generation # MaxGeneration
  PROVE  /\ NextGeneration = IF Latest.valid THEN Latest.generation + 1 ELSE 1
         /\ NextGeneration \in 1 .. MaxGeneration
<1>1. CASE Latest.valid
  <2>1. Latest.generation \in Nat /\ Latest.generation < MaxGeneration
    BY <1>1, LatestIs, GenerationWidth
  <2>2. (Latest.generation + 1) % Modulus = Latest.generation + 1
    BY <2>1, NextNumber
  <2> QED
    BY <1>1, <2>1, <2>2, GenerationWidth DEF NextGeneration
<1>2. CASE ~Latest.valid
  BY <1>2, GenerationWidth DEF NextGeneration
<1> QED
  BY <1>1, <1>2

----------------------------------------------------------------------------
(* The invariant *)

\* The write that is under way goes to the key the newest record does not use.
LEMMA WritesElsewhere ==
  ASSUME JournalInv
  PROVE  Alternates
<1> SUFFICES ASSUME writing # Nothing, Latest.valid
             PROVE  Key(writing.generation) # Key(Latest.generation)
  BY DEF Alternates
<1>1. writing.generation = Latest.generation + 1 /\ writing.generation <= MaxGeneration
  BY DEF JournalInv, Follows
<1>2. Latest.generation \in Nat /\ Latest.generation < MaxGeneration
  BY <1>1, LatestIs, GenerationWidth DEF JournalInv
<1> QED
  BY <1>1, <1>2, NextNumber

\* Whatever a write leaves in its blob, the blobs stay in their places, and the
\* newest record is the one before or, if it was stored, the one written.
LEMMA AfterWrite ==
  ASSUME JournalInv, writing # Nothing,
         NEW blob \in {nvs[Key(writing.generation)], writing, Blank},
         nvs' = [nvs EXCEPT ![Key(writing.generation)] = blob],
         writing' = Nothing, result' \in {"ok", "failed"}
  PROVE  /\ JournalInv'
         /\ Latest' \in {Latest, writing}
         /\ blob = writing => Latest' = writing
<1> DEFINE k == Key(writing.generation)
           o == IF k = "v3a" THEN "v3b" ELSE "v3a"
<1>1. k \in Keys /\ o \in Keys /\ k # o /\ Keys = {k, o}
  BY DEF Key, Keys
<1>2. /\ writing \in Record /\ writing.valid
      /\ writing.generation \in Nat \ {0} /\ writing.generation <= MaxGeneration
  <2>1. writing \in Record /\ writing.generation <= MaxGeneration
    BY DEF JournalInv, BlobTypes, Follows
  <2>2. writing.valid = TRUE /\ writing.generation \in 1 .. Modulus - 1
    BY <2>1 DEF Record
  <2> QED
    BY <2>1, <2>2, GenerationWidth
<1>3. nvs'[k] = blob /\ nvs'[o] = nvs[o]
  BY <1>1 DEF JournalInv, BlobTypes
<1>4. BlobTypes'
  BY <1>1, <1>2 DEF JournalInv, BlobTypes
<1>5. Latest.valid => Latest = nvs[o]
  BY <1>1, WritesElsewhere, LatestIs DEF Alternates, JournalInv, Key, Keys
<1>6. CASE blob = writing
  <2>1. nvs[o].valid => nvs[o] = Latest /\ writing.generation = nvs[o].generation + 1
    BY <1>1, <1>5, LatestIs DEF JournalInv, Follows
  <2>2. Placed'
    BY <2>1, <1>1, <1>2, <1>3, <1>6 DEF Placed, JournalInv, Keys
  <2>3. Latest' = writing
    <3>1. CASE ~nvs[o].valid
      BY <3>1, <1>1, <1>2, <1>3, <1>6 DEF Latest, Keys
    <3>2. CASE nvs[o].valid
      <4>1. nvs[o].generation \in Nat
        BY <3>2, <1>1, Blobs DEF JournalInv
      <4>2. /\ Newer(writing.generation, nvs[o].generation)
            /\ ~Newer(nvs[o].generation, writing.generation)
        BY <4>1, <3>2, <2>1, Neighbours
      <4> QED
        BY <4>2, <1>1, <1>2, <1>3, <1>6 DEF Latest, Keys
    <3> QED
      BY <3>1, <3>2
  <2> QED
    BY <2>2, <2>3, <1>4, <1>6 DEF JournalInv, Follows
<1>7. CASE blob # writing /\ blob = nvs[k]
  <2>1. nvs' = nvs
    BY <1>7, <1>1 DEF JournalInv, BlobTypes
  <2>2. Latest' = Latest /\ Placed'
    BY <2>1 DEF Latest, Placed, JournalInv
  <2> QED
    BY <2>2, <1>4, <1>7 DEF JournalInv, Follows
<1>8. CASE blob # writing /\ blob = Blank
  <2>1. ~blob.valid
    BY <1>8 DEF Blank
  <2>2. Placed'
    BY <2>1, <1>1, <1>3 DEF Placed, JournalInv
  <2>3. Latest' = Latest
    <3>1. CASE Latest.valid
      BY <3>1, <2>1, <1>1, <1>3, <1>5 DEF Latest, Keys
    <3>2. CASE ~Latest.valid
      BY <3>2, <2>1, <1>1, <1>3, <1>8, LatestIs DEF Latest, JournalInv, Keys
    <3> QED
      BY <3>1, <3>2
  <2> QED
    BY <2>2, <2>3, <1>4, <1>8 DEF JournalInv, Follows
<1> QED
  BY <1>6, <1>7, <1>8

LEMMA JournalStarts ==
  ASSUME JournalInit
  PROVE  JournalInv
<1>1. CASE FirstGeneration = 0
  <2>1. nvs = [k \in Keys |-> Blank]
    BY <1>1 DEF JournalInit
  <2>2. \A k \in Keys : nvs[k] = Blank /\ ~nvs[k].valid
    BY <2>1 DEF Blank
  <2> QED
    BY <2>1, <2>2 DEF JournalInit, JournalInv, BlobTypes, Placed, Follows, Keys
<1>2. CASE FirstGeneration # 0
  <2> DEFINE gen(k) == IF k = Key(FirstGeneration) THEN FirstGeneration
                       ELSE FirstGeneration - 1
  <2>1. /\ FirstGeneration - 1 \in Nat \ {0} /\ FirstGeneration - 1 < MaxGeneration
        /\ Key(FirstGeneration) # Key(FirstGeneration - 1)
        /\ FirstGeneration - 1 + 1 = FirstGeneration
    BY <1>2, GenerationWidth, NextNumber
  <2>2. {Key(FirstGeneration), Key(FirstGeneration - 1)} = Keys
    BY <2>1 DEF Key, Keys
  <2>3. \A k \in Keys : gen(k) \in 1 .. Modulus - 1 /\ gen(k) <= MaxGeneration
                         /\ Key(gen(k)) = k
    BY <2>1, <2>2, <1>2, GenerationWidth
  <2>4. \A k \in Keys : nvs[k] = [valid |-> TRUE, content |-> Cleared, generation |-> gen(k)]
    BY <1>2 DEF JournalInit
  <2>5. nvs \in [Keys -> Record]
    BY <1>2, <2>3 DEF JournalInit, Record, Values
  <2>6. Placed
    BY <2>1, <2>2, <2>3, <2>4, GenerationWidth DEF Placed, Keys
  <2> QED
    BY <2>5, <2>6 DEF JournalInit, JournalInv, BlobTypes, Follows
<1> QED
  BY <1>1, <1>2

LEMMA JournalStep ==
  ASSUME JournalInv, [JournalNext]_journalVars
  PROVE  JournalInv'
<1>1. ASSUME NEW v \in Values, Begin(v)
      PROVE  JournalInv'
  <2>1. /\ NextGeneration = IF Latest.valid THEN Latest.generation + 1 ELSE 1
        /\ NextGeneration \in 1 .. MaxGeneration
    BY <1>1, NextIs DEF Begin, JournalInv
  <2>2. writing' \in Record
    BY <1>1, <2>1, GenerationWidth DEF Begin, Record
  <2>3. Latest' = Latest /\ Placed' /\ BlobTypes'
    BY <1>1, <2>2 DEF Begin, Latest, Placed, BlobTypes, JournalInv
  <2> QED
    BY <1>1, <2>1, <2>3, GenerationWidth DEF Begin, JournalInv, Follows
<1>2. CASE Commit
  BY <1>2, AfterWrite DEF Commit
<1>3. CASE CutOff
  <2>1. PICK blob \in {nvs[Key(writing.generation)], writing, Blank} :
          nvs' = [nvs EXCEPT ![Key(writing.generation)] = blob]
    BY <1>3 DEF CutOff
  <2> QED
    BY <1>3, <2>1, AfterWrite DEF CutOff
<1>4. CASE UNCHANGED journalVars
  BY <1>4 DEF journalVars, JournalInv, BlobTypes, Placed, Follows, Latest
<1> QED
  BY <1>1, <1>2, <1>3, <1>4 DEF JournalNext

\* Up to the wrap, for every sequence of saves, clears, errors and resets: the record
\* being written goes under the key that does not hold the newest record, so that
\* write_record() cut off at any point leaves latest_record() a valid one.
THEOREM NewestUntouched == JournalSpec => []BlobsSound
<1>1. JournalInit => JournalInv
  BY JournalStarts
<1>2. JournalInv /\ [JournalNext]_journalVars => JournalInv'
  BY JournalStep
<1>3. JournalInv => BlobsSound
  BY WritesElsewhere DEF BlobsSound, JournalInv
<1> QED
  BY <1>1, <1>2, <1>3, PTL DEF JournalSpec

----------------------------------------------------------------------------
(* The register *)

LEMMA RegisterStarts ==
  ASSUME JournalInit
  PROVE  Register!Init
<1>1. CASE FirstGeneration = 0
  BY <1>1 DEF JournalInit, Register!Init, Load, Latest, Blank, Keys
<1>2. CASE FirstGeneration # 0
  BY <1>2 DEF JournalInit, Register!Init, Load, Latest, Keys
<1> QED
  BY <1>1, <1>2

\* The content written is a value, and a value is not Nothing.
LEMMA WrittenContent ==
  ASSUME JournalInv, writing # Nothing
  PROVE  writing.content \in Values /\ writing.content # Nothing /\ writing.valid
<1>1. writing \in Record
  BY DEF JournalInv, BlobTypes
<1>2. writing.content \in Values /\ writing.valid = TRUE
  BY <1>1 DEF Record
<1> QED
  BY <1>2, GenerationWidth

LEMMA RegisterStep ==
  ASSUME JournalInv, [JournalNext]_journalVars
  PROVE  [Register!Next]_(Register!vars)
<1>1. ASSUME NEW v \in Values, Begin(v)
      PROVE  Register!Start(v)
  <2>1. writing' # Nothing /\ writing'.content = v
    <3>1. NextGeneration \in 1 .. MaxGeneration
      BY <1>1, NextIs DEF Begin, JournalInv
    <3>2. writing' \in Record
      BY <1>1, <3>1, GenerationWidth DEF Begin, Record
    <3> QED
      BY <1>1, <3>2, GenerationWidth DEF Begin
  <2>2. Load' = Load
    BY <1>1 DEF Begin, Load, Latest
  <2> QED
    BY <1>1, <2>1, <2>2 DEF Begin, Register!Start
<1>2. CASE Commit
  <2>1. Latest' = writing
    BY <1>2, AfterWrite DEF Commit
  <2> QED
    BY <1>2, <2>1, WrittenContent DEF Commit, Register!Succeed, Register!Next, Load
<1>3. CASE CutOff
  <2>1. PICK blob \in {nvs[Key(writing.generation)], writing, Blank} :
          nvs' = [nvs EXCEPT ![Key(writing.generation)] = blob]
    BY <1>3 DEF CutOff
  <2>2. Latest' \in {Latest, writing}
    BY <1>3, <2>1, AfterWrite DEF CutOff
  <2> QED
    BY <1>3, <2>2, WrittenContent DEF CutOff, Register!Fail, Register!Next, Load
<1>4. CASE UNCHANGED journalVars
  BY <1>4 DEF journalVars, Register!vars, Load, Latest
<1> QED
  BY <1>1, <1>2, <1>3, <1>4 DEF JournalNext, Register!Next

\* The two blobs implement one register that is written atomically: load() after a
\* write that was cut off or failed gives the value before it or the one written,
\* and after a write that reported ESP_OK the one written.
THEOREM JournalIsRegister == JournalSpec => IsRegister
<1>1. JournalInit => JournalInv /\ Register!Init
  BY JournalStarts, RegisterStarts
<1>2. JournalInv /\ [JournalNext]_journalVars => JournalInv' /\ [Register!Next]_(Register!vars)
  BY JournalStep, RegisterStep
<1> QED
  BY <1>1, <1>2, PTL DEF JournalSpec, IsRegister, Register!Spec
=============================================================================
