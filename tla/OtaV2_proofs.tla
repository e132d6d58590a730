---------------------------- MODULE OtaV2_proofs ----------------------------
(***************************************************************************)
(* What the older OTA receiver promises, for all images, operations, chunk  *)
(* lengths and bounds: the partition that is selected for the next start    *)
(* holds a whole image, that of every operation whose COMMIT was answered   *)
(* OK, and what was answered OK is in the flash.                            *)
(***************************************************************************)
EXTENDS OtaV2, SequenceTheorems, TLAPS

OtaRecord ==
  [active: BOOLEAN, v2: BOOLEAN, op: Ops \cup {None}, seq: Seqs \cup {0},
   size: Nat, written: Nat, hashed: Seq(Unit),
   sha: Images \cup {None}, stale: BOOLEAN]

PrepareMessage == [type: {"prepare"}, op: Ops, sha: Images \cup {None}]

\* The queue holds what the senders send: a commit names no hash but its image's.
QueueInv ==
  /\ queue \in Seq(Message) /\ Len(queue) <= QueueLen
  /\ \A i \in 1 .. Len(queue) :
       queue[i].type = "commit" => queue[i].sha \in {None, ImageOf[queue[i].op]}

CountInv == packets \in 0 .. MaxPackets /\ resets \in 0 .. MaxResets

Types ==
  /\ ota \in OtaRecord
  /\ ota.active \/ ota = Idle
  /\ flash \in Seq(Unit) /\ boot \in BOOLEAN
  /\ latch \in [pending: BOOLEAN, endSeq: Seqs \cup {0}, op: Ops \cup {None}]
  /\ okTo \in Nat /\ mixed \in BOOLEAN /\ committed \subseteq Ops

\* Who holds the lock inside esp_ota_begin(): nobody while a session is active or
\* the reboot is pending.
Locked ==
  /\ busy \in BeginPacket \cup PrepareMessage \cup {None}
  /\ busy # None => ~ota.active /\ ~boot

\* An active session: a V2 session has written the beginning of its image, unless V1
\* packets wrote into it; then its hash runs over less than was written.
Session ==
  ota.active =>
    /\ ~boot
    /\ okTo <= ota.written /\ ota.written = Len(flash)
    /\ ota.v2 =>
         /\ ota.op \in Ops
         /\ ota.size = Size[ImageOf[ota.op]]
         /\ Len(ota.hashed) <= ota.written
         /\ mixed => Len(ota.hashed) < ota.written
         /\ ~mixed => flash = Units(ImageOf[ota.op], 0, ota.written)

\* The latch and the selected partition: one is set with the other, and the latch
\* names an operation only when its image is in the flash.
Selected ==
  /\ boot = latch.pending
  /\ ~latch.pending => latch = NoLatch
  /\ boot => \E img \in Images : flash = Whole(img)
  /\ latch.op \in Ops => flash = Whole(ImageOf[latch.op])
  /\ \A op \in committed : boot /\ flash = Whole(ImageOf[op])

Core == Types /\ Locked /\ Session /\ Selected

OtaV2Inv == Core /\ QueueInv /\ CountInv

----------------------------------------------------------------------------
(* Units, records and the queue *)

\* A run of units is a sequence of units of that length.
LEMMA UnitsType ==
  ASSUME NEW img \in Images, NEW off \in Nat, NEW len \in Nat
  PROVE  Units(img, off, len) \in Seq(Unit) /\ Len(Units(img, off, len)) = len
BY DEF Units, Unit

\* Consecutive runs of an image join; the empty run is the empty sequence.
LEMMA UnitsJoin ==
  ASSUME NEW img \in Images, NEW n \in Nat, NEW len \in Nat
  PROVE  Units(img, 0, n) \o Units(img, n, len) = Units(img, 0, n + len)
<1> DEFINE a == Units(img, 0, n)
           b == Units(img, n, len)
           c == Units(img, 0, n + len)
<1>1. /\ a \in Seq(Unit) /\ Len(a) = n
      /\ b \in Seq(Unit) /\ Len(b) = len
      /\ c \in Seq(Unit) /\ Len(c) = n + len
  <2>1. n + len \in Nat OBVIOUS
  <2> QED BY <2>1, UnitsType
<1>2. /\ \A i \in 1 .. n : a[i] = <<img, i>>
      /\ \A i \in 1 .. len : b[i] = <<img, n + i>>
      /\ \A i \in 1 .. n + len : c[i] = <<img, i>>
  BY DEF Units
<1> HIDE DEF a, b, c
<1>3. a \o b \in Seq(Unit) /\ Len(a \o b) = n + len
  BY <1>1
<1>4. ASSUME NEW i \in 1 .. n + len PROVE (a \o b)[i] = c[i]
  <2>1. CASE i <= n
    <3>1. i \in 1 .. n BY <2>1
    <3>2. (a \o b)[i] = a[i] BY <1>1, <2>1, ConcatProperties
    <3> QED BY <1>2, <3>1, <3>2
  <2>2. CASE i > n
    <3>1. i - n \in 1 .. len /\ n + (i - n) = i BY <2>2
    <3>2. (a \o b)[i] = b[i - n] BY <1>1, <2>2
    <3> QED BY <1>2, <3>1, <3>2
  <2>3. i <= n \/ i > n OBVIOUS
  <2> QED BY <2>1, <2>2, <2>3, Zenon
<1>5. a \o b = c
  <2>1. Len(a \o b) = Len(c) /\ \A i \in 1 .. Len(a \o b) : (a \o b)[i] = c[i]
    BY <1>1, <1>3, <1>4
  <2>2. a \o b \in Seq(Unit) /\ c \in Seq(Unit)
    BY <1>1, <1>3
  <2> QED BY <2>1, <2>2, SeqEqual, Zenon
<1> QED BY <1>5 DEF a, b, c

LEMMA UnitsNone ==
  ASSUME NEW img \in Images PROVE Units(img, 0, 0) = <<>>
<1>1. Units(img, 0, 0) \in Seq(Unit) /\ Len(Units(img, 0, 0)) = 0
  BY UnitsType
<1> QED BY <1>1

\* The record of no session.
LEMMA IdleIs ==
  /\ Idle \in OtaRecord
  /\ ~Idle.active /\ ~Idle.v2 /\ ~Idle.stale
BY OtaV2Assumption DEF Idle, OtaRecord, Unit

\* What a message at the head of the queue is, and what stays.
LEMMA Taken ==
  ASSUME QueueInv, queue # <<>>, queue' = Tail(queue)
  PROVE  /\ QueueInv'
         /\ Head(queue) \in Message
         /\ Head(queue).type = "commit" => Head(queue).sha \in {None, ImageOf[Head(queue).op]}
<1>1. queue \in Seq(Message) /\ Len(queue) \in Nat /\ Len(queue) > 0
  BY DEF QueueInv
<1>2. Head(queue) = queue[1] /\ queue[1] \in Message
  BY <1>1
<1>3. /\ Tail(queue) \in Seq(Message) /\ Len(Tail(queue)) = Len(queue) - 1
      /\ \A i \in 1 .. Len(queue) - 1 : Tail(queue)[i] = queue[i + 1]
  BY <1>1
<1>4. QueueInv'
  BY <1>1, <1>3, OtaV2Assumption DEF QueueInv
<1> QED BY <1>1, <1>2, <1>4 DEF QueueInv

LEMMA Queued ==
  ASSUME QueueInv, NEW m \in Message, Len(queue) < QueueLen, queue' = Append(queue, m),
         m.type = "commit" => m.sha \in {None, ImageOf[m.op]}
  PROVE  QueueInv'
<1>1. queue \in Seq(Message) /\ Len(queue) \in Nat
  BY DEF QueueInv
<1>2. /\ queue' \in Seq(Message) /\ Len(queue') = Len(queue) + 1
      /\ \A i \in 1 .. Len(queue) : queue'[i] = queue[i]
      /\ queue'[Len(queue) + 1] = m
  BY <1>1
<1>3. Len(queue') <= QueueLen
  BY <1>1, <1>2, OtaV2Assumption
<1>4. ASSUME NEW i \in 1 .. Len(queue'), queue'[i].type = "commit"
      PROVE  queue'[i].sha \in {None, ImageOf[queue'[i].op]}
  <2>1. CASE i \in 1 .. Len(queue) BY <1>2, <1>4, <2>1 DEF QueueInv
  <2>2. CASE i = Len(queue) + 1 BY <1>2, <1>4, <2>2
  <2> QED BY <1>1, <1>2, <2>1, <2>2
<1> QED BY <1>2, <1>3, <1>4 DEF QueueInv

----------------------------------------------------------------------------
(* Steps that leave the flash alone *)

\* A session goes on as it is, or ends.
LEMMA GoesOn ==
  ASSUME Core, UNCHANGED <<flash, boot, latch, busy, mixed, committed>>,
         ota' \in OtaRecord, ota'.active \/ ota' = Idle,
         ota'.active => /\ ota.active
                        /\ ota'.v2 = ota.v2 /\ ota'.op = ota.op /\ ota'.size = ota.size
                        /\ ota'.written = ota.written /\ ota'.hashed = ota.hashed,
         okTo' \in Nat, ota'.active => okTo' <= ota.written
  PROVE  Core'
<1>1. Types' BY DEF Core, Types
<1>2. Locked' BY DEF Core, Locked
<1>3. Session' BY DEF Core, Session
<1>4. Selected' BY DEF Core, Selected
<1> QED BY <1>1, <1>2, <1>3, <1>4 DEF Core

LEMMA Ends ==
  ASSUME Core, UNCHANGED <<flash, boot, latch, busy, okTo, mixed, committed>>, ota' = Idle
  PROVE  Core'
<1>1. okTo \in Nat BY DEF Core, Types
<1> QED BY <1>1, IdleIs, GoesOn

LEMMA Stays ==
  ASSUME Core, UNCHANGED <<ota, flash, boot, latch, busy, okTo, mixed, committed>>
  PROVE  Core'
BY DEF Core, Types, Locked, Session, Selected

\* The mark of the age is set or cleared.
LEMMA Touched ==
  ASSUME Core, UNCHANGED <<flash, boot, latch, busy, mixed, committed>>, ota.active,
         NEW v \in BOOLEAN, ota' = [ota EXCEPT !.stale = v],
         okTo' \in Nat, okTo' <= ota.written
  PROVE  Core'
<1>1. ota \in OtaRecord
  BY DEF Core, Types
<1>2. /\ ota' \in OtaRecord
      /\ ota'.active = ota.active /\ ota'.v2 = ota.v2 /\ ota'.op = ota.op
      /\ ota'.size = ota.size /\ ota'.written = ota.written /\ ota'.hashed = ota.hashed
  BY <1>1 DEF OtaRecord
<1> QED BY <1>2, GoesOn

LEMMA CurrentIs ==
  ASSUME Core PROVE Current \in {ota, Idle} /\ (~Current.active => Current = Idle)
BY DEF Core, Types, Current

LEMMA Refreshed ==
  ASSUME Core, UNCHANGED <<flash, boot, latch, busy, okTo, mixed, committed>>, ota' = Current
  PROVE  Core'
BY CurrentIs, Stays, Ends

\* esp_ota_begin() starts to erase: no session is active, no reboot pending.
LEMMA Erases ==
  ASSUME Core, UNCHANGED <<flash, boot, latch, okTo, mixed, committed>>,
         ~latch.pending, ota' = Idle, busy' \in BeginPacket \cup PrepareMessage
  PROVE  Core'
<1>1. Types' BY IdleIs DEF Core, Types
<1>2. Locked' BY IdleIs DEF Core, Locked, Selected
<1>3. Session' BY IdleIs DEF Core, Session
<1>4. Selected' BY DEF Core, Selected
<1> QED BY <1>1, <1>2, <1>3, <1>4 DEF Core

----------------------------------------------------------------------------
(* Steps that write, select or start over *)

\* A V1 chunk is written, at the end of what is there.
WrittenV1(seq, img, len) ==
  /\ flash' = flash \o Units(img, ota.written, len)
  /\ ota' = [ota EXCEPT !.written = ota.written + len, !.seq = seq, !.stale = FALSE]
  /\ okTo' = ota.written + len /\ mixed' = (mixed \/ ota.v2)

LEMMA V1Writes ==
  ASSUME Core, ota.active, NEW seq \in Seqs, NEW img \in Images, NEW len \in Lens,
         WrittenV1(seq, img, len), UNCHANGED <<boot, latch, busy, committed>>
  PROVE  Core'
<1>1. /\ ota \in OtaRecord /\ flash \in Seq(Unit) /\ len \in Nat \ {0}
      /\ ota.written \in Nat /\ mixed \in BOOLEAN
  BY OtaV2Assumption DEF Core, Types, OtaRecord
<1>2. /\ ota' \in OtaRecord
      /\ ota'.active = ota.active /\ ota'.v2 = ota.v2 /\ ota'.op = ota.op
      /\ ota'.size = ota.size /\ ota'.written = ota.written + len
      /\ ota'.hashed = ota.hashed
  <2>1. ota.written + len \in Nat /\ ota.hashed \in Seq(Unit)
    BY <1>1 DEF OtaRecord
  <2>2. PICK v \in BOOLEAN, w \in Nat :
          /\ w = ota.written + len
          /\ ota' = [ota EXCEPT !.written = w, !.seq = seq, !.stale = v]
    BY <2>1, Zenon DEF WrittenV1
  <2>3. ota' = [[[ota EXCEPT !.written = w] EXCEPT !.seq = seq] EXCEPT !.stale = v]
    BY <2>2
  <2> QED BY <1>1, <2>2, <2>3 DEF OtaRecord
<1>3. flash' \in Seq(Unit) /\ Len(flash') = Len(flash) + len
  <2>1. ota.written \in Nat /\ len \in Nat BY <1>1
  <2>2. /\ Units(img, ota.written, len) \in Seq(Unit)
        /\ Len(Units(img, ota.written, len)) = len
    BY <2>1, UnitsType
  <2>3. flash' = flash \o Units(img, ota.written, len) BY DEF WrittenV1
  <2> QED BY <1>1, <2>1, <2>2, <2>3, ConcatProperties
<1>9. okTo' = ota.written + len /\ mixed' = (mixed \/ ota.v2)
  BY DEF WrittenV1
<1>4. Types' BY <1>9, <1>1, <1>2, <1>3 DEF Core, Types
<1>5. Locked' BY <1>2 DEF Core, Locked
<1>6. Session'
  <2>1. ~boot /\ ota.written = Len(flash) /\ okTo' <= ota'.written /\ ota'.written = Len(flash')
    <3>1. ~boot /\ ota.written = Len(flash)
      BY <1>1 DEF Core, Session
    <3>2. okTo' = ota'.written /\ ota'.written \in Nat
      BY <1>1, <1>2, <1>9
    <3> QED BY <1>2, <1>3, <3>1, <3>2
  <2>2. ASSUME ota'.v2
        PROVE /\ mixed' /\ ota'.op \in Ops /\ ota'.size = Size[ImageOf[ota'.op]]
              /\ Len(ota'.hashed) < ota'.written
    <3>1. mixed' /\ ota.op \in Ops /\ ota.size = Size[ImageOf[ota.op]]
      BY <1>1, <1>2, <1>9, <2>2 DEF Core, Session
    <3>2. Len(ota.hashed) <= ota.written
      BY <1>1, <1>2, <2>2 DEF Core, Session
    <3>3. Len(ota.hashed) \in Nat BY <1>1 DEF OtaRecord
    <3> QED BY <1>1, <1>2, <3>1, <3>2, <3>3
  <2> QED BY <2>1, <2>2 DEF Session
<1>7. Selected'
  BY OtaV2Assumption DEF Core, Session, Selected, NoLatch
<1> QED BY <1>4, <1>5, <1>6, <1>7 DEF Core

\* A V2 chunk is written, at the end of what is there, and hashed.
WrittenV2(len) ==
  LET chunk == Units(ImageOf[ota.op], ota.written, len) IN
  /\ flash' = flash \o chunk
  /\ ota' = [ota EXCEPT !.written = ota.written + len, !.stale = FALSE,
                        !.hashed = ota.hashed \o chunk]
  /\ okTo' = ota.written + len

LEMMA V2Writes ==
  ASSUME Core, ota.active, ota.v2, NEW len \in Lens,
         WrittenV2(len), UNCHANGED <<boot, latch, busy, mixed, committed>>
  PROVE  Core'
<1> DEFINE img == ImageOf[ota.op]
           chunk == Units(img, ota.written, len)
<1>1. /\ ota \in OtaRecord /\ flash \in Seq(Unit) /\ len \in Nat \ {0}
      /\ ota.written \in Nat /\ mixed \in BOOLEAN /\ ota.hashed \in Seq(Unit)
  BY OtaV2Assumption DEF Core, Types, OtaRecord
<1>2. /\ ~boot /\ ota.written = Len(flash)
      /\ ota.op \in Ops /\ img \in Images /\ ota.size = Size[img]
      /\ Len(ota.hashed) <= ota.written
      /\ mixed => Len(ota.hashed) < ota.written
      /\ ~mixed => flash = Units(img, 0, ota.written)
  BY OtaV2Assumption DEF Core, Session
<1>3. chunk \in Seq(Unit) /\ Len(chunk) = len
  BY <1>1, <1>2, UnitsType
<1>4. ASSUME ~mixed PROVE flash \o chunk = Units(img, 0, ota.written + len)
  <2>1. len \in Nat BY <1>1
  <2>2. Units(img, 0, ota.written) \o chunk = Units(img, 0, ota.written + len)
    BY <1>1, <1>2, <2>1, UnitsJoin, Zenon
  <2>3. flash = Units(img, 0, ota.written) BY <1>2, <1>4
  <2> QED BY <2>2, <2>3, Zenon
<1> HIDE DEF chunk
<1>5. /\ flash' = flash \o chunk
      /\ okTo' = ota.written + len
      /\ \E v \in BOOLEAN : ota' = [ota EXCEPT !.written = ota.written + len, !.stale = v,
                                              !.hashed = ota.hashed \o chunk]
  BY Zenon DEF chunk, WrittenV2
<1>6. /\ flash' \in Seq(Unit) /\ Len(flash') = Len(flash) + len
      /\ ota.hashed \o chunk \in Seq(Unit)
      /\ Len(ota.hashed \o chunk) = Len(ota.hashed) + len
  <2>1. flash \in Seq(Unit) /\ ota.hashed \in Seq(Unit) /\ chunk \in Seq(Unit)
    BY <1>1, <1>3
  <2>2. flash \o chunk \in Seq(Unit) /\ Len(flash \o chunk) = Len(flash) + Len(chunk)
    BY <2>1, ConcatProperties, Zenon
  <2>3. /\ ota.hashed \o chunk \in Seq(Unit)
        /\ Len(ota.hashed \o chunk) = Len(ota.hashed) + Len(chunk)
    BY <2>1, ConcatProperties, Zenon
  <2> QED BY <1>3, <1>5, <2>2, <2>3, Zenon
<1>7. /\ ota' \in OtaRecord
      /\ ota'.active = ota.active /\ ota'.v2 = ota.v2 /\ ota'.op = ota.op
      /\ ota'.size = ota.size /\ ota'.written = ota.written + len
      /\ ota'.hashed = ota.hashed \o chunk
  <2>1. ota.written + len \in Nat BY <1>1
  <2>2. PICK v \in BOOLEAN, w \in Nat, h \in Seq(Unit) :
          /\ w = ota.written + len /\ h = ota.hashed \o chunk
          /\ ota' = [ota EXCEPT !.written = w, !.stale = v, !.hashed = h]
    BY <1>5, <1>6, <2>1, Zenon
  <2>3. ota' = [[[ota EXCEPT !.written = w] EXCEPT !.stale = v] EXCEPT !.hashed = h]
    BY <2>2
  <2>4. /\ ota' \in OtaRecord
        /\ ota'.active = ota.active /\ ota'.v2 = ota.v2 /\ ota'.op = ota.op
        /\ ota'.size = ota.size /\ ota'.written = w /\ ota'.hashed = h
    BY <1>1, <2>3 DEF OtaRecord
  <2> QED BY <2>2, <2>4, Zenon
<1>8. Types' BY <1>1, <1>5, <1>6, <1>7 DEF Core, Types
<1>9. Locked' BY <1>7 DEF Core, Locked
<1>10. Session'
  <2>1. Len(ota.hashed) \in Nat BY <1>1
  <2>2. /\ ~boot' /\ okTo' <= ota'.written /\ ota'.written = Len(flash')
        /\ Len(ota'.hashed) <= ota'.written
        /\ mixed' => Len(ota'.hashed) < ota'.written
    <3> HIDE DEF img
    <3>1. /\ okTo' = ota.written + len /\ ota'.written = ota.written + len
          /\ Len(flash') = Len(flash) + len /\ Len(ota'.hashed) = Len(ota.hashed) + len
      BY <1>5, <1>6, <1>7, Zenon
    <3>2. ~boot' /\ mixed' = mixed BY <1>2
    <3>3. /\ ota.written = Len(flash) /\ Len(ota.hashed) <= ota.written
          /\ mixed => Len(ota.hashed) < ota.written
      BY <1>2
    <3>4. ota.written \in Nat /\ len \in Nat BY <1>1
    <3> QED BY <2>1, <3>1, <3>2, <3>3, <3>4
  <2>3. ota'.op \in Ops /\ ota'.size = Size[ImageOf[ota'.op]]
    BY <1>2, <1>7
  <2>4. ~mixed' => flash' = Units(ImageOf[ota'.op], 0, ota'.written)
    BY <1>4, <1>5, <1>7
  <2> QED BY <2>2, <2>3, <2>4 DEF Session
<1>11. Selected'
  BY OtaV2Assumption DEF Core, Session, Selected, NoLatch
<1> QED BY <1>8, <1>9, <1>10, <1>11 DEF Core

\* esp_ota_end() and esp_ota_set_boot_partition() succeed: the partition is selected
\* and the latch set, for an operation whose image is in the flash.
LEMMA Completes ==
  ASSUME Core, ota.active, ota' = Idle,
         NEW img \in Images, flash = Whole(img), boot' = TRUE,
         latch' \in [pending: BOOLEAN, endSeq: Seqs \cup {0}, op: Ops \cup {None}],
         latch'.pending, latch'.op \in Ops => flash = Whole(ImageOf[latch'.op]),
         committed' \subseteq committed \cup (Ops \cap {latch'.op}),
         UNCHANGED <<flash, busy, okTo, mixed>>
  PROVE  Core'
<1>1. Types' BY IdleIs DEF Core, Types
<1>2. Locked' BY IdleIs DEF Core, Locked
<1>3. Session' BY IdleIs DEF Core, Session
<1>4. committed = {} BY DEF Core, Session, Selected
<1>5. boot' = latch'.pending /\ ~(~latch'.pending)
  BY DEF Core, Types
<1>6. Selected' BY <1>4, <1>5 DEF Selected
<1> QED BY <1>1, <1>2, <1>3, <1>6 DEF Core

\* The erasing ends and a session starts.
LEMMA Starts ==
  ASSUME Core, busy # None, busy' = None, flash' = <<>>, okTo' = 0, mixed' = FALSE,
         UNCHANGED <<boot, latch, committed>>,
         ota' \in OtaRecord, ota'.active \/ ota' = Idle,
         ota'.active =>
           /\ ota'.written = 0 /\ ota'.hashed = <<>>
           /\ ota'.v2 => ota'.op \in Ops /\ ota'.size = Size[ImageOf[ota'.op]]
  PROVE  Core'
<1>1. ~boot BY DEF Core, Locked
<1>2. flash' \in Seq(Unit) /\ Len(flash') = 0 OBVIOUS
<1>3. Types' BY <1>2 DEF Core, Types
<1>4. Locked' BY DEF Locked
<1>5. Session'
  <2>1. ASSUME ota'.active, ota'.v2 PROVE flash' = Units(ImageOf[ota'.op], 0, ota'.written)
    BY <2>1, UnitsNone, OtaV2Assumption
  <2>2. ota'.active => Len(ota'.hashed) = 0 OBVIOUS
  <2> QED BY <1>1, <1>2, <2>1, <2>2 DEF Session
<1>6. Selected' BY <1>1, OtaV2Assumption DEF Core, Selected, NoLatch
<1> QED BY <1>3, <1>4, <1>5, <1>6 DEF Core

\* A start: nothing is left of a session, the queue or the latch.
LEMMA Restarts ==
  ASSUME Restart PROVE Core' /\ QueueInv'
<1> USE DEF Restart
<1>1. /\ NoLatch \in [pending: BOOLEAN, endSeq: Seqs \cup {0}, op: Ops \cup {None}]
      /\ ~NoLatch.pending /\ NoLatch.op = None
  BY DEF NoLatch
<1>2. Types'
  <2>1. flash' \in Seq(Unit) OBVIOUS
  <2>2. boot' \in BOOLEAN /\ mixed' \in BOOLEAN /\ okTo' \in Nat OBVIOUS
  <2> QED BY <1>1, <2>1, <2>2, IdleIs DEF Types
<1>3. Locked' BY DEF Locked
<1>4. Session' BY IdleIs DEF Session
<1>5. Selected'
  <2>1. boot' = latch'.pending BY DEF NoLatch
  <2> QED BY <1>1, <2>1, OtaV2Assumption DEF Selected
<1>6. QueueInv' BY OtaV2Assumption DEF QueueInv
<1> QED BY <1>2, <1>3, <1>4, <1>5, <1>6 DEF Core

----------------------------------------------------------------------------
(* The actions *)

LEMMA ArrivesCounts ==
  ASSUME CountInv, Arrives PROVE CountInv'
BY OtaV2Assumption DEF CountInv, Arrives

LEMMA BeginStep ==
  ASSUME OtaV2Inv, NEW seq \in Seqs, NEW img \in Images,
         BeginAgain(seq, img) \/ Begin(seq, img)
  PROVE  OtaV2Inv'
<1>1. Core /\ QueueInv /\ CountInv
  BY DEF OtaV2Inv
<1>2. QueueInv' /\ CountInv'
  BY <1>1, ArrivesCounts DEF V1Packet, BeginAgain, Begin, QueueInv
<1>3. CASE BeginAgain(seq, img)
  <2>1. /\ UNCHANGED <<flash, boot, latch, busy, okTo, mixed, committed>>
        /\ ota.active /\ \E v \in BOOLEAN : ota' = [ota EXCEPT !.stale = v]
    BY <1>3, Zenon DEF BeginAgain, Live, history
  <2>2. okTo' \in Nat /\ okTo' <= ota.written
    BY <1>1, <2>1 DEF Core, Types, Session
  <2> QED BY <1>1, <1>2, <2>1, <2>2, Touched DEF OtaV2Inv
<1>4. CASE Begin(seq, img)
  <2>1. /\ UNCHANGED <<flash, boot, latch, okTo, mixed, committed>>
        /\ ~latch.pending /\ ota' = Idle
    BY <1>1, <1>4, CurrentIs DEF Begin, history
  <2>2. busy' \in BeginPacket BY <1>4 DEF Begin, BeginPacket
  <2>3. Core' BY <1>1, <2>1, <2>2, Erases
  <2> QED BY <1>2, <2>3 DEF OtaV2Inv
<1> QED BY <1>3, <1>4

LEMMA DataStep ==
  ASSUME OtaV2Inv, NEW seq \in Seqs, NEW img \in Images, NEW off \in Nat, NEW len \in Lens,
         DataWritten(seq, img, off, len) \/ DataAgain(seq, off, len)
  PROVE  OtaV2Inv'
<1>1. Core /\ QueueInv /\ CountInv
  BY DEF OtaV2Inv
<1>2. QueueInv' /\ CountInv'
  BY <1>1, ArrivesCounts DEF V1Packet, DataWritten, DataAgain, QueueInv
<1>3. CASE DataWritten(seq, img, off, len)
  <2>1. UNCHANGED <<boot, latch, busy, committed>> /\ ota.active
    BY <1>3 DEF DataWritten, Live
  <2>2. \/ WrittenV1(seq, img, len)
        \/ ota' = Idle /\ UNCHANGED <<flash, okTo, mixed>>
    BY <1>3, Zenon DEF DataWritten, WrittenV1
  <2>3. Core'
    BY <1>1, <2>1, <2>2, V1Writes, Ends
  <2> QED BY <1>2, <2>3 DEF OtaV2Inv
<1>4. CASE DataAgain(seq, off, len)
  <2>1. /\ UNCHANGED <<flash, boot, latch, busy, mixed, committed>>
        /\ ota.active /\ \E v \in BOOLEAN : ota' = [ota EXCEPT !.stale = v]
    BY <1>4, Zenon DEF DataAgain, Live
  <2>2. okTo' \in Nat /\ okTo' <= ota.written
    BY <1>1, <1>4, OtaV2Assumption DEF DataAgain, Core, Types, OtaRecord
  <2> QED BY <1>1, <1>2, <2>1, <2>2, Touched DEF OtaV2Inv
<1> QED BY <1>3, <1>4

LEMMA EndStep ==
  ASSUME OtaV2Inv, NEW seq \in Seqs, NEW img \in Images, End(seq, img)
  PROVE  OtaV2Inv'
<1>1. Core /\ QueueInv /\ CountInv
  BY DEF OtaV2Inv
<1>2. QueueInv' /\ CountInv'
  BY <1>1, ArrivesCounts DEF V1Packet, End, QueueInv
<1>3. UNCHANGED <<flash, busy, okTo, mixed, committed>> /\ ota.active /\ ota' = Idle
  BY DEF End, Complete, Live, history
<1>4. CASE UNCHANGED <<boot, latch>>
  BY <1>1, <1>2, <1>3, <1>4, Ends DEF OtaV2Inv
<1>5. CASE /\ \E m \in Images : flash = Whole(m)
           /\ boot' = TRUE /\ latch' = [latch EXCEPT !.pending = TRUE, !.endSeq = seq]
  <2>1. PICK m \in Images : flash = Whole(m) BY <1>5
  <2>2. latch = NoLatch BY <1>1, <1>3 DEF Core, Session, Selected
  <2>3. latch' = [pending |-> TRUE, endSeq |-> seq, op |-> None]
    BY <1>5, <2>2, Zenon DEF NoLatch
  <2>4. /\ latch' \in [pending: BOOLEAN, endSeq: Seqs \cup {0}, op: Ops \cup {None}]
        /\ latch'.pending /\ latch'.op = None
    BY <2>3
  <2>5. Core'
    BY <1>1, <1>3, <1>5, <2>1, <2>4, Completes, OtaV2Assumption
  <2> QED BY <1>2, <2>5 DEF OtaV2Inv
<1> QED BY <1>4, <1>5 DEF End, Complete

LEMMA AbortStep ==
  ASSUME OtaV2Inv, Abort PROVE OtaV2Inv'
<1>1. Core /\ QueueInv /\ CountInv
  BY DEF OtaV2Inv
<1>2. QueueInv' /\ CountInv'
  BY <1>1, ArrivesCounts DEF V1Packet, Abort, QueueInv
<1>3. Core'
  BY <1>1, Ends DEF Abort, history
<1> QED BY <1>2, <1>3 DEF OtaV2Inv

LEMMA ArrivalStep ==
  ASSUME OtaV2Inv, V2Arrives PROVE OtaV2Inv'
<1>1. Core /\ QueueInv /\ CountInv
  BY DEF OtaV2Inv
<1>2. ASSUME NEW m \in Message, m.type = "commit" => m.sha \in {None, ImageOf[m.op]},
             Enqueue(m)
      PROVE  OtaV2Inv'
  <2>1. QueueInv' BY <1>1, <1>2, Queued DEF Enqueue
  <2>2. CountInv' BY <1>1, <1>2, ArrivesCounts DEF Enqueue
  <2>3. Core' BY <1>1, <1>2, Stays DEF Enqueue, history
  <2> QED BY <2>1, <2>2, <2>3 DEF OtaV2Inv
<1>3. PICK op \in Ops :
        \/ \E type \in {"prepare", "commit"}, sha \in {None, ImageOf[op]} :
             Enqueue([type |-> type, op |-> op, sha |-> sha])
        \/ \E c \in Chunks(ImageOf[op]) :
             Enqueue([type |-> "data", op |-> op, off |-> c[1], len |-> c[2]])
        \/ Enqueue([type |-> "abort", op |-> op])
  BY DEF V2Arrives
<1>4. ImageOf[op] \in Images BY OtaV2Assumption
<1>5. ASSUME NEW type \in {"prepare", "commit"}, NEW sha \in {None, ImageOf[op]},
             Enqueue([type |-> type, op |-> op, sha |-> sha])
      PROVE  OtaV2Inv'
  <2> DEFINE m == [type |-> type, op |-> op, sha |-> sha]
  <2>1. m \in Message BY <1>4 DEF Message
  <2>2. m.type = "commit" => m.sha \in {None, ImageOf[m.op]} OBVIOUS
  <2> HIDE DEF m
  <2>3. Enqueue(m) BY <1>5 DEF m
  <2> QED BY <2>1, <2>2, <2>3, <1>2
<1>6. ASSUME NEW c \in Chunks(ImageOf[op]),
             Enqueue([type |-> "data", op |-> op, off |-> c[1], len |-> c[2]])
      PROVE  OtaV2Inv'
  <2> DEFINE m == [type |-> "data", op |-> op, off |-> c[1], len |-> c[2]]
  <2>1. c[1] \in Nat /\ c[2] \in Lens BY <1>4, OtaV2Assumption DEF Chunks
  <2>2. m \in Message BY <2>1 DEF Message
  <2>3. m.type # "commit" OBVIOUS
  <2> HIDE DEF m
  <2>4. Enqueue(m) BY <1>6 DEF m
  <2> QED BY <2>2, <2>3, <2>4, <1>2
<1>7. CASE Enqueue([type |-> "abort", op |-> op])
  <2> DEFINE m == [type |-> "abort", op |-> op]
  <2>1. m \in Message BY DEF Message
  <2>2. m.type # "commit" OBVIOUS
  <2> HIDE DEF m
  <2>3. Enqueue(m) BY <1>7 DEF m
  <2> QED BY <2>1, <2>2, <2>3, <1>2
<1> QED BY <1>3, <1>5, <1>6, <1>7

\* The worker takes a message: what it is, and that the rest of the queue is left.
LEMMA TakeIs ==
  ASSUME OtaV2Inv, NEW type, Take(type)
  PROVE  /\ Core /\ QueueInv' /\ CountInv'
         /\ Head(queue) \in Message /\ Head(queue).type = type
         /\ type = "commit" => Head(queue).sha \in {None, ImageOf[Head(queue).op]}
<1>1. Core /\ QueueInv /\ CountInv
  BY DEF OtaV2Inv
<1>2. CountInv' BY <1>1 DEF Take, CountInv
<1>3. queue # <<>> /\ queue' = Tail(queue) /\ Head(queue).type = type
  BY DEF Take
<1> QED BY <1>1, <1>2, <1>3, Taken

LEMMA PrepareStep ==
  ASSUME OtaV2Inv, Prepare PROVE OtaV2Inv'
<1> DEFINE m == Head(queue)
<1>1. /\ Core /\ QueueInv' /\ CountInv'
      /\ m \in Message /\ m.type = "prepare"
  BY TakeIs DEF Prepare
<1>2. UNCHANGED <<flash, boot, latch, okTo, mixed, committed>>
  BY DEF Prepare, history
<1>3. CASE UNCHANGED <<ota, busy>>
  BY <1>1, <1>2, <1>3, Stays DEF OtaV2Inv
<1>4. CASE InSession(m) /\ UNCHANGED busy /\ ota' = [ota EXCEPT !.stale = FALSE]
  <2>1. ota.active /\ \E v \in BOOLEAN : ota' = [ota EXCEPT !.stale = v]
    BY <1>4, Zenon DEF InSession, Live
  <2>2. okTo' \in Nat /\ okTo' <= ota.written
    BY <1>1, <1>2, <2>1 DEF Core, Types, Session
  <2> QED BY <1>1, <1>2, <1>4, <2>1, <2>2, Touched DEF OtaV2Inv
<1>5. CASE ~latch.pending /\ ~Current.active /\ ota' = Current /\ busy' = m
  <2>1. m \in PrepareMessage BY <1>1 DEF Message, PrepareMessage
  <2>2. ota' = Idle BY <1>1, <1>5, CurrentIs
  <2> QED BY <1>1, <1>2, <1>5, <2>1, <2>2, Erases DEF OtaV2Inv
<1> QED BY <1>3, <1>4, <1>5, Zenon DEF Prepare

LEMMA V2DataStep ==
  ASSUME OtaV2Inv, V2Data PROVE OtaV2Inv'
<1> DEFINE m == Head(queue)
           img == ImageOf[m.op]
           fits == InSession(m) /\ m.off + m.len <= ota.size
<1>1. /\ Core /\ QueueInv' /\ CountInv'
      /\ m \in Message /\ m.type = "data"
  BY TakeIs DEF V2Data
<1>2. m.off \in Nat /\ m.len \in Lens
  BY <1>1 DEF Message
<1>3. UNCHANGED <<boot, latch, busy, mixed, committed>>
  BY DEF V2Data
<1>4. CASE /\ fits /\ Continues(m)
           /\ flash' = flash \o Units(img, m.off, m.len)
           /\ ota' = [ota EXCEPT !.written = @ + m.len, !.stale = FALSE,
                                 !.hashed = @ \o Units(img, m.off, m.len)]
           /\ okTo' = m.off + m.len
  <2>1. ota.active /\ ota.v2 /\ m.op = ota.op /\ m.off = ota.written
    BY <1>4 DEF InSession, Live, Continues
  <2>2. WrittenV2(m.len)
    BY <1>4, <2>1, Zenon DEF WrittenV2
  <2>3. Core'
    BY <1>1, <1>2, <1>3, <2>1, <2>2, V2Writes
  <2> QED BY <1>1, <2>3 DEF OtaV2Inv
<1>5. CASE ota' = Idle /\ UNCHANGED <<flash, okTo>>
  BY <1>1, <1>3, <1>5, Ends DEF OtaV2Inv
<1>6. CASE /\ fits /\ Repeated(m)
           /\ ota' = [ota EXCEPT !.stale = FALSE]
           /\ okTo' = m.off + m.len
           /\ UNCHANGED flash
  <2>1. ota.active /\ \E v \in BOOLEAN : ota' = [ota EXCEPT !.stale = v]
    BY <1>6, Zenon DEF InSession, Live
  <2>2. okTo' \in Nat /\ okTo' <= ota.written
    BY <1>2, <1>6, OtaV2Assumption DEF Repeated
  <2>3. Core'
    BY <1>1, <1>3, <1>6, <2>1, <2>2, Touched
  <2> QED BY <1>1, <2>3 DEF OtaV2Inv
<1>7. CASE ota' = Current /\ UNCHANGED <<flash, okTo>>
  BY <1>1, <1>3, <1>7, Refreshed DEF OtaV2Inv
<1> QED BY <1>4, <1>5, <1>6, <1>7, Zenon DEF V2Data

\* A session whose hash is that of a whole image, and that has written its size, has
\* written that image: no V1 packet interfered.
LEMMA HashShowsImage ==
  ASSUME Core, NEW m, InSession(m), ota.written = ota.size, HashOk(m),
         m.sha \in {None, ImageOf[m.op]}
  PROVE  m.op \in Ops /\ flash = Whole(ImageOf[m.op])
<1>1. /\ ota.active /\ ota.v2 /\ m.op = ota.op /\ ota.op \in Ops
      /\ ota.size = Size[ImageOf[ota.op]]
  BY DEF InSession, Live, Core, Session
<1>2. ota.hashed = Whole(ImageOf[ota.op])
  BY <1>1 DEF HashOk
<1>3. ImageOf[ota.op] \in Images /\ Size[ImageOf[ota.op]] \in Nat
  BY <1>1, OtaV2Assumption
<1>4. Len(ota.hashed) = ota.written
  BY <1>1, <1>2, <1>3, UnitsType DEF Whole
<1>5. ~mixed
  BY <1>1, <1>3, <1>4 DEF Core, Session
<1> QED BY <1>1, <1>5 DEF Core, Session, Whole

LEMMA CommitStep ==
  ASSUME OtaV2Inv, Commit PROVE OtaV2Inv'
<1> DEFINE m == Head(queue)
           new == [pending |-> TRUE, endSeq |-> 0, op |-> m.op]
<1>1. /\ Core /\ QueueInv' /\ CountInv'
      /\ m \in Message /\ m.type = "commit"
      /\ m.sha \in {None, ImageOf[m.op]}
  BY TakeIs DEF Commit
<1>2. UNCHANGED <<busy, okTo, mixed>> /\ m.op \in Ops
  BY <1>1 DEF Commit, Message
<1>3. CASE /\ CommitKnown(m)
           /\ committed' = committed \cup {m.op}
           /\ UNCHANGED <<ota, flash, boot, latch>>
  <2>1. boot /\ flash = Whole(ImageOf[m.op])
    BY <1>1, <1>2, <1>3 DEF CommitKnown, Core, Selected
  <2>2. Types' BY <1>1, <1>2, <1>3 DEF Core, Types
  <2>3. Locked' /\ Session' BY <1>1, <1>2, <1>3 DEF Core, Locked, Session
  <2>4. Selected' BY <1>1, <1>3, <2>1 DEF Core, Selected
  <2> QED BY <1>1, <2>2, <2>3, <2>4 DEF OtaV2Inv, Core
<1>4. CASE /\ InSession(m) /\ ota.written = ota.size /\ HashOk(m)
           /\ Complete(new)
           /\ committed' = IF boot' THEN committed \cup {m.op} ELSE committed
  <2>1. flash = Whole(ImageOf[m.op])
    BY <1>1, <1>4, HashShowsImage
  <2>2. ota.active /\ ~boot /\ ota' = Idle /\ UNCHANGED flash
    BY <1>1, <1>4 DEF InSession, Live, Complete, Core, Session
  <2>3. CASE boot' = TRUE /\ latch' = new
    <3>1. /\ latch' \in [pending: BOOLEAN, endSeq: Seqs \cup {0}, op: Ops \cup {None}]
          /\ latch'.pending /\ latch'.op = m.op
      BY <1>2, <2>3
    <3>2. committed' \subseteq committed \cup (Ops \cap {latch'.op})
      BY <1>2, <1>4, <2>3, <3>1
    <3>3. ImageOf[m.op] \in Images BY <1>2, OtaV2Assumption
    <3>4. Core'
      BY <1>1, <1>2, <2>1, <2>2, <2>3, <3>1, <3>2, <3>3, Completes
    <3> QED BY <1>1, <3>4 DEF OtaV2Inv
  <2>4. CASE UNCHANGED <<boot, latch>>
    BY <1>1, <1>2, <1>4, <2>2, <2>4, Ends DEF OtaV2Inv
  <2> QED BY <1>4, <2>3, <2>4 DEF Complete
<1>5. CASE /\ ota' = IF InSession(m) THEN Idle ELSE Current
           /\ UNCHANGED <<flash, boot, latch, committed>>
  BY <1>1, <1>2, <1>5, Ends, Refreshed DEF OtaV2Inv
<1> QED BY <1>3, <1>4, <1>5, Zenon DEF Commit

LEMMA V2AbortStep ==
  ASSUME OtaV2Inv, V2Abort PROVE OtaV2Inv'
<1>1. Core /\ QueueInv' /\ CountInv'
  BY TakeIs DEF V2Abort
<1>2. UNCHANGED <<flash, boot, latch, busy, okTo, mixed, committed>> /\ ota' \in {ota, Idle}
  BY DEF V2Abort, history
<1> QED BY <1>1, <1>2, Stays, Ends DEF OtaV2Inv

LEMMA ErasedStep ==
  ASSUME OtaV2Inv, Erased PROVE OtaV2Inv'
<1>1. Core /\ QueueInv /\ CountInv
  BY DEF OtaV2Inv
<1>2. QueueInv' /\ CountInv'
  BY <1>1 DEF Erased, QueueInv, CountInv
<1>3. /\ busy # None /\ busy' = None /\ flash' = <<>> /\ okTo' = 0 /\ mixed' = FALSE
      /\ UNCHANGED <<boot, latch, committed>>
  BY DEF Erased
<1>4. ~ota.active /\ ota = Idle /\ busy \in BeginPacket \cup PrepareMessage
  BY <1>1, <1>3 DEF Core, Types, Locked
<1>5. CASE UNCHANGED ota
  BY <1>1, <1>2, <1>3, <1>4, <1>5, IdleIs, Starts DEF OtaV2Inv
<1>6. CASE busy.type = "begin" /\
           ota' = [Idle EXCEPT !.active = TRUE, !.seq = busy.seq, !.size = Size[busy.img]]
  <2>1. busy.seq \in Seqs /\ Size[busy.img] \in Nat
    BY <1>4, <1>6, OtaV2Assumption DEF BeginPacket, PrepareMessage
  <2>2. ota' = [active |-> TRUE, v2 |-> FALSE, op |-> None, seq |-> busy.seq,
                size |-> Size[busy.img], written |-> 0, hashed |-> <<>>, sha |-> None,
                stale |-> FALSE]
    BY <1>6, Zenon DEF Idle
  <2>3. /\ ota' \in OtaRecord /\ ota'.active /\ ~ota'.v2
        /\ ota'.written = 0 /\ ota'.hashed = <<>>
    BY <2>1, <2>2 DEF OtaRecord, Unit
  <2> QED BY <1>1, <1>2, <1>3, <2>3, Starts DEF OtaV2Inv
<1>7. CASE busy.type # "begin" /\
           ota' = [Idle EXCEPT !.active = TRUE, !.v2 = TRUE, !.op = busy.op,
                               !.size = Size[ImageOf[busy.op]], !.sha = busy.sha]
  <2>1. /\ busy.op \in Ops /\ Size[ImageOf[busy.op]] \in Nat
        /\ busy.sha \in Images \cup {None}
    BY <1>4, <1>7, OtaV2Assumption DEF BeginPacket, PrepareMessage
  <2>2. ota' = [active |-> TRUE, v2 |-> TRUE, op |-> busy.op, seq |-> 0,
                size |-> Size[ImageOf[busy.op]], written |-> 0, hashed |-> <<>>,
                sha |-> busy.sha, stale |-> FALSE]
    BY <1>7, Zenon DEF Idle
  <2>3. /\ ota' \in OtaRecord /\ ota'.active
        /\ ota'.op = busy.op /\ ota'.size = Size[ImageOf[busy.op]]
        /\ ota'.written = 0 /\ ota'.hashed = <<>>
    BY <2>1, <2>2 DEF OtaRecord, Unit
  <2> QED BY <1>1, <1>2, <1>3, <2>1, <2>3, Starts DEF OtaV2Inv
<1> QED BY <1>5, <1>6, <1>7 DEF Erased

----------------------------------------------------------------------------
(* The theorems *)

LEMMA InitInv ==
  ASSUME Init PROVE OtaV2Inv
<1> USE DEF Init
<1>1. /\ NoLatch \in [pending: BOOLEAN, endSeq: Seqs \cup {0}, op: Ops \cup {None}]
      /\ ~NoLatch.pending /\ NoLatch.op = None
  BY DEF NoLatch
<1>2. Types
  <2>1. flash \in Seq(Unit) OBVIOUS
  <2>2. boot \in BOOLEAN /\ mixed \in BOOLEAN /\ okTo \in Nat OBVIOUS
  <2> QED BY <1>1, <2>1, <2>2, IdleIs DEF Types
<1>3. Locked BY DEF Locked
<1>4. Session BY IdleIs DEF Session
<1>5. Selected
  <2>1. boot = latch.pending BY DEF NoLatch
  <2> QED BY <1>1, <2>1, OtaV2Assumption DEF Selected
<1>6. QueueInv BY OtaV2Assumption DEF QueueInv
<1>7. CountInv BY OtaV2Assumption DEF CountInv
<1> QED BY <1>2, <1>3, <1>4, <1>5, <1>6, <1>7 DEF OtaV2Inv, Core

LEMMA StepInv ==
  ASSUME OtaV2Inv, [Next]_vars PROVE OtaV2Inv'
<1>1. Core /\ QueueInv /\ CountInv
  BY DEF OtaV2Inv
<1>2. CASE V1Next
  <2>1. PICK seq \in Seqs, img \in Images :
          \/ BeginAgain(seq, img) \/ Begin(seq, img) \/ End(seq, img)
          \/ \E c \in Chunks(img) :
               DataWritten(seq, img, c[1], c[2]) \/ DataAgain(seq, c[1], c[2])
    BY <1>2 DEF V1Next
  <2>2. ASSUME NEW c \in Chunks(img),
               DataWritten(seq, img, c[1], c[2]) \/ DataAgain(seq, c[1], c[2])
        PROVE  OtaV2Inv'
    <3>1. c[1] \in Nat /\ c[2] \in Lens BY OtaV2Assumption DEF Chunks
    <3> QED BY <2>2, <3>1, DataStep
  <2> QED BY <2>1, <2>2, BeginStep, EndStep
<1>3. CASE Abort BY <1>3, AbortStep
<1>4. CASE V2Arrives BY <1>4, ArrivalStep
<1>5. CASE Worker
  <2>1. CASE LockTimeout
    <3>1. queue # <<>> /\ queue' = Tail(queue)
      BY <2>1 DEF LockTimeout
    <3>2. QueueInv' BY <1>1, <3>1, Taken
    <3>3. CountInv' BY <1>1, <2>1 DEF LockTimeout, CountInv
    <3>4. Core' BY <1>1, <2>1, Stays DEF LockTimeout, history
    <3> QED BY <3>2, <3>3, <3>4 DEF OtaV2Inv
  <2> QED BY <1>5, <2>1, PrepareStep, V2DataStep, CommitStep, V2AbortStep DEF Worker
<1>6. CASE Erased BY <1>6, ErasedStep
<1>7. CASE TimePasses
  <2>1. /\ UNCHANGED <<flash, boot, latch, busy, okTo, mixed, committed>>
        /\ ota.active /\ \E v \in BOOLEAN : ota' = [ota EXCEPT !.stale = v]
    BY <1>7, Zenon DEF TimePasses, history
  <2>2. okTo' \in Nat /\ okTo' <= ota.written
    BY <1>1, <2>1 DEF Core, Types, Session
  <2>3. Core' BY <1>1, <2>1, <2>2, Touched
  <2>4. QueueInv' /\ CountInv' BY <1>1, <1>7 DEF TimePasses, QueueInv, CountInv
  <2> QED BY <2>3, <2>4 DEF OtaV2Inv
<1>8. CASE Watchdog
  <2>1. Core' BY <1>1, <1>8, Refreshed DEF Watchdog, history
  <2>2. QueueInv' /\ CountInv' BY <1>1, <1>8 DEF Watchdog, QueueInv, CountInv
  <2> QED BY <2>1, <2>2 DEF OtaV2Inv
<1>9. CASE RebootTask \/ PowerFails
  <2>1. Core' /\ QueueInv' BY <1>9, Restarts DEF RebootTask, PowerFails
  <2>2. CountInv'
    BY <1>1, <1>9, OtaV2Assumption DEF RebootTask, PowerFails, Restart, CountInv
  <2> QED BY <2>1, <2>2 DEF OtaV2Inv
<1>10. CASE UNCHANGED vars
  <2>1. Core' BY <1>1, <1>10, Stays DEF vars, history
  <2>2. QueueInv' /\ CountInv' BY <1>1, <1>10 DEF vars, QueueInv, CountInv
  <2> QED BY <2>1, <2>2 DEF OtaV2Inv
<1> QED BY <1>2, <1>3, <1>4, <1>5, <1>6, <1>7, <1>8, <1>9, <1>10 DEF Next

\* The inductive invariant: the session, the latch and the flash agree in every
\* reachable state of the receiver.
THEOREM OtaV2Invariant == Spec => []OtaV2Inv
<1>1. Init => OtaV2Inv BY InitInv
<1>2. OtaV2Inv /\ [Next]_vars => OtaV2Inv' BY StepInv
<1> QED BY <1>1, <1>2, PTL DEF Spec

\* The partition that will start holds a whole image, and that of every operation
\* whose COMMIT was answered OK, whatever V1 packets wrote into the session.
THEOREM StartsWhatWasCommitted == Spec => []SelectedTruthful
<1>1. OtaV2Inv => SelectedTruthful
  BY DEF OtaV2Inv, Core, Session, Selected, SelectedTruthful, SelectedStaysWhole,
         CommitTruthful
<1> QED BY <1>1, OtaV2Invariant, PTL

\* A chunk that was answered OK is in the flash, and an undisturbed V2 session has
\* written the beginning of its image.
THEOREM AnswersAreTrue == Spec => []FlashAsAnswered
<1>1. OtaV2Inv => TypeOK
  <2>1. PrepareMessage \subseteq Message BY DEF PrepareMessage, Message
  <2> QED BY <2>1 DEF OtaV2Inv, Core, Types, Locked, QueueInv, CountInv, TypeOK, OtaRecord
<1>2. OtaV2Inv => AckedIsWritten
  BY DEF OtaV2Inv, Core, Session, AckedIsWritten
<1>3. OtaV2Inv => PrefixOfImage
  BY IdleIs DEF OtaV2Inv, Core, Types, Session, PrefixOfImage
<1> QED BY <1>1, <1>2, <1>3, OtaV2Invariant, PTL DEF FlashAsAnswered
=============================================================================
