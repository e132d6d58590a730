--------------------------- MODULE RelLink_proofs ---------------------------
(* Type correctness, session consistency, agreement on sequence numbers,   *)
(* order of delivery and no silent loss of the reliable link, for every    *)
(* number of slots, channels, retries, submits and boots.  And of the      *)
(* table of pending lost ranges: the array with its wrapping numbers       *)
(* stands for the set the link works with, for every number of rows and    *)
(* channels, every start and every modulus.                                *)
EXTENDS RelLink, PendingLost, FiniteSetTheorems, WellFoundedInduction, TLAPS

USE DEF Ends

\* What the helpers return.
LEMMA PeerType == \A e \in Ends : Peer(e) \in Ends
  BY DEF Peer

LEMMA AckPacketType ==
  ASSUME TypeOK, NEW e \in Ends, NEW ch \in Channels, NEW at \in Nat \ {0},
         NEW buffered \in SUBSET Nat, NEW isNack \in BOOLEAN
  PROVE  AckPacket(e, ch, at, buffered, isNack) \in Packet
<1>1. SackBitmap(at, buffered) \in SUBSET Nat
  BY DEF SackBitmap
<1>2. /\ rootSession[e] \in Nat /\ nodeSession[e] \in Nat
      /\ at - 1 \in Nat /\ (IF isNack THEN at ELSE 0) \in Nat
  BY DEF TypeOK
<1> QED
  BY <1>1, <1>2 DEF AckPacket, Packet, Ack

LEMMA LostPacketType ==
  ASSUME TypeOK, NEW e \in Ends, NEW ch \in Channels, NEW first \in Nat,
         NEW last \in Nat, NEW drop \in BOOLEAN
  PROVE  LostPacket(e, ch, first, last, drop) \in Packet
  BY DEF LostPacket, Packet, Lost, TypeOK

LEMMA DataPacketType == \A f \in Frame : DataPacket(f) \in Packet
  BY DEF DataPacket, Packet, Data

LEMMA ReportsType ==
  ASSUME TypeOK, NEW e \in Ends, NEW src \in Ends, NEW ch \in Channels,
         NEW range \in SUBSET Nat
  PROVE  Reports(e, src, ch, range) \in SUBSET Report
<1>1. rootSession[e] \in Nat /\ nodeSession[e] \in Nat
  BY DEF TypeOK
<1>2. ASSUME NEW q \in range
      PROVE  [src |-> src, rs |-> rootSession[e], ns |-> nodeSession[e], ch |-> ch,
              seq |-> q] \in Report
  BY <1>1 DEF Report
<1> QED
  BY <1>2 DEF Reports

LEMMA MessageType ==
  ASSUME NEW f \in Frame
  PROVE  /\ MessageOf(f) \in Message
         /\ f.first .. LastSeq(f) \in SUBSET Nat
  BY DEF MessageOf, Message, Frame, LastSeq

LEMMA ExpectedType ==
  ASSUME TypeOK, NEW e \in Ends, NEW ch \in Channels
  PROVE  expected[e][ch] \in Nat \ {0}
  BY DEF TypeOK

LEMMA BufferedType ==
  ASSUME TypeOK, NEW e \in Ends, NEW ch \in Channels
  PROVE  Buffered(e, ch) \in SUBSET Nat
<1>1. \A f \in rx[e] : f \in Frame
  BY DEF TypeOK
<1> QED
  BY <1>1 DEF Buffered, Frame

LEMMA SendType ==
  ASSUME TypeOK, NEW e \in Ends, NEW packets \in SUBSET Packet, Send(e, packets)
  PROVE  net' \in [Ends -> SUBSET Packet]
<1>1. Peer(e) \in Ends
  BY PeerType
<1> QED
  BY <1>1 DEF Send, TypeOK

\* The fields of what is queued.
LEMMA SlotFields ==
  ASSUME TypeOK, NEW e \in Ends, NEW s \in tx[e]
  PROVE  /\ s \in Slot /\ s.f \in Frame /\ s.retries \in Nat
         /\ s.f.ch \in Channels /\ s.f.seq \in Nat
<1>1. s \in Slot
  BY DEF TypeOK
<1> QED
  BY <1>1 DEF Slot, Frame

LEMMA FrameFields ==
  ASSUME TypeOK, NEW e \in Ends, NEW f \in rx[e]
  PROVE  f \in Frame /\ f.ch \in Channels /\ f.seq \in Nat
<1>1. f \in Frame
  BY DEF TypeOK
<1> QED
  BY <1>1 DEF Frame

LEMMA PartialFields ==
  ASSUME TypeOK, NEW e \in Ends, NEW r \in reassembly[e]
  PROVE  /\ r \in Partial /\ r.ch \in Channels /\ r.first \in Nat
         /\ LastSeq(r) \in Nat /\ r.first .. LastSeq(r) \in SUBSET Nat
<1>1. r \in Partial
  BY DEF TypeOK
<1>2. r.ch \in Channels /\ r.first \in Nat /\ r.n \in Nat \ {0}
  BY <1>1 DEF Partial
<1> QED
  BY <1>1, <1>2 DEF LastSeq

LEMMA TxReportsType ==
  ASSUME TypeOK, NEW e \in Ends
  PROVE  TxReports(e) \in SUBSET Report
<1>1. ASSUME NEW s \in tx[e], NEW t \in ChannelUnacked(e, s.f.ch)
      PROVE  Reports(e, e, s.f.ch, s.f.seq .. t.f.seq) \in SUBSET Report
  <2>1. t \in tx[e]
    BY DEF ChannelUnacked
  <2>2. s.f.seq .. t.f.seq \in SUBSET Nat /\ s.f.ch \in Channels
    BY <2>1, SlotFields
  <2> QED
    BY <2>2, ReportsType
<1> QED
  BY <1>1 DEF TxReports

LEMMA RxReportsType ==
  ASSUME TypeOK, NEW e \in Ends
  PROVE  RxReports(e) \in SUBSET Report
<1>1. ASSUME NEW f \in rx[e]
      PROVE  Reports(e, Peer(e), f.ch, {f.seq}) \in SUBSET Report
  <2>1. f.ch \in Channels /\ {f.seq} \in SUBSET Nat
    BY FrameFields
  <2> QED
    BY <2>1, PeerType, ReportsType
<1>2. ASSUME NEW r \in reassembly[e]
      PROVE  Reports(e, Peer(e), r.ch, r.first .. LastSeq(r)) \in SUBSET Report
  BY PartialFields, PeerType, ReportsType
<1> QED
  BY <1>1, <1>2 DEF RxReports

\* clear_peer_buffers() and the other restarts of the sequence spaces.
RestartType ==
  /\ nextSeq' \in [Ends -> [Channels -> Nat \ {0}]]
  /\ expected' \in [Ends -> [Channels -> Nat \ {0}]]
  /\ pendingLost' \in [Ends -> [Channels -> SUBSET Nat]]
  /\ tx' \in [Ends -> SUBSET Slot]
  /\ rx' \in [Ends -> SUBSET Frame]
  /\ reassembly' \in [Ends -> SUBSET Partial]

LEMMA RestartedType ==
  ASSUME TypeOK, NEW e \in Ends, RestartSpaces(e)
  PROVE  RestartType
<1>1. Ones \in [Channels -> Nat \ {0}] /\ Empty \in [Channels -> SUBSET Nat]
  BY DEF Ones, Empty
<1> QED
  BY <1>1 DEF RestartSpaces, RestartType, TypeOK

LEMMA TaintType ==
  ASSUME TypeOK, NEW e \in Ends, Taint(e)
  PROVE  tainted' \in SUBSET (Nat \X Nat)
<1>1. Pair(e) \in Nat \X Nat
  BY DEF Pair, TypeOK
<1> QED
  BY <1>1 DEF Taint, TypeOK

LEMMA ClearType ==
  ASSUME TypeOK, NEW e \in Ends, NEW alsoLost \in SUBSET Report,
         ClearPeerBuffers(e, alsoLost)
  PROVE  /\ RestartType
         /\ lost' \in SUBSET Report
         /\ tainted' \in SUBSET (Nat \X Nat)
<1>1. RestartSpaces(e) /\ Taint(e) /\ lost' = lost \cup TxReports(e) \cup RxReports(e) \cup alsoLost
  BY DEF ClearPeerBuffers
<1>2. RestartType
  BY <1>1, RestartedType
<1>3. lost' \in SUBSET Report
  BY <1>1, TxReportsType, RxReportsType DEF TypeOK
<1> QED
  BY <1>1, <1>2, <1>3, TaintType DEF RestartType

\* deliver_fragment() at the expected position.
LEMMA DeliverType ==
  ASSUME TypeOK, NEW e \in Ends, NEW f \in Frame,
         NEW rxLeft \in SUBSET Frame, DeliverFragment(e, f, rxLeft)
  PROVE  /\ expected' \in [Ends -> [Channels -> Nat \ {0}]]
         /\ rx' \in [Ends -> SUBSET Frame]
         /\ reassembly' \in [Ends -> SUBSET Partial]
         /\ delivered' \in [Ends -> Seq(Message)]
         /\ lost' \in SUBSET Report
         /\ net' \in [Ends -> SUBSET Packet]
<1>1. /\ f.ch \in Channels /\ f.seq \in Nat /\ f.first \in Nat /\ f.n \in Nat \ {0}
      /\ f.id \in Nat
  BY DEF Frame
<1>2. MessageOf(f) \in Message /\ f.first .. LastSeq(f) \in SUBSET Nat
  BY MessageType
<1>3. ASSUME Deliver(e, MessageOf(f))
      PROVE  delivered' \in [Ends -> Seq(Message)]
  BY <1>2, <1>3 DEF Deliver, TypeOK
<1>4. CASE DeliverWhole(e, f, rxLeft)
  <2>1. f.seq + 1 \in Nat \ {0}
    BY <1>1
  <2>2. expected' \in [Ends -> [Channels -> Nat \ {0}]]
    BY <1>1, <1>4, <2>1 DEF DeliverWhole, TypeOK
  <2>3. delivered' \in [Ends -> Seq(Message)]
    BY <1>3, <1>4 DEF DeliverWhole
  <2> QED
    BY <1>4, <2>2, <2>3 DEF DeliverWhole, TypeOK
<1>5. CASE DeliverPart(e, f, rxLeft)
  <2>1. PICK r \in ReassemblyFind(e, f) :
          LET got == r.got \cup {f.seq}
              others == reassembly[e] \ {r}
          IN  IF got = f.first .. LastSeq(f)
              THEN /\ Deliver(e, MessageOf(f))
                   /\ reassembly' = [reassembly EXCEPT ![e] = others]
              ELSE /\ reassembly' = [reassembly EXCEPT ![e] =
                                       others \cup {[r EXCEPT !.got = got]}]
                   /\ UNCHANGED delivered
    BY <1>5 DEF DeliverPart
  <2>2. r \in Partial
    <3>1. [ch |-> f.ch, id |-> f.id, first |-> f.first, n |-> f.n, got |-> {}] \in Partial
      BY <1>1 DEF Partial
    <3>2. reassembly[e] \in SUBSET Partial
      BY DEF TypeOK
    <3> QED
      BY <3>1, <3>2 DEF ReassemblyFind
  <2>3. [r EXCEPT !.got = r.got \cup {f.seq}] \in Partial
    BY <1>1, <2>2 DEF Partial
  <2>4. reassembly' \in [Ends -> SUBSET Partial]
    <3> DEFINE got == r.got \cup {f.seq}
               others == reassembly[e] \ {r}
    <3>1. others \in SUBSET Partial /\ others \cup {[r EXCEPT !.got = got]} \in SUBSET Partial
      BY <2>3 DEF TypeOK
    <3>2. \E left \in SUBSET Partial : reassembly' = [reassembly EXCEPT ![e] = left]
      BY <2>1, <3>1
    <3> QED
      BY <3>2 DEF TypeOK
  <2>5. delivered' \in [Ends -> Seq(Message)]
    BY <2>1, <1>3 DEF TypeOK
  <2>6. f.seq + 1 \in Nat \ {0}
    BY <1>1
  <2>7. expected' \in [Ends -> [Channels -> Nat \ {0}]]
    BY <1>1, <1>5, <2>6 DEF DeliverPart, TypeOK
  <2> QED
    BY <1>5, <2>4, <2>5, <2>7 DEF DeliverPart, TypeOK
<1>6. CASE DeliverNoSlot(e, f, rxLeft)
  <2>1. f.n > 1 /\ LastSeq(f) \in Nat /\ LastSeq(f) + 1 \in Nat \ {0}
    BY <1>1, <1>6 DEF DeliverNoSlot, LastSeq
  <2>2. Reports(e, Peer(e), f.ch, f.first .. LastSeq(f)) \in SUBSET Report
    BY <1>1, <1>2, PeerType, ReportsType
  <2>3. net' \in [Ends -> SUBSET Packet]
    <3>1. LostPacket(e, f.ch, f.first, LastSeq(f), TRUE) \in Packet
      BY <1>1, <2>1, LostPacketType
    <3> QED
      BY <3>1, <1>6, SendType DEF DeliverNoSlot
  <2> QED
    BY <1>1, <1>6, <2>1, <2>2, <2>3 DEF DeliverNoSlot, TypeOK
<1> QED
  BY <1>4, <1>5, <1>6 DEF DeliverFragment

\* A packet of a type has the fields of that type.
LEMMA PacketFields ==
  ASSUME TypeOK, NEW e \in Ends, NEW p \in net[e]
  PROVE  /\ p.type = "hello" => p.ns \in Nat /\ p.seen \in Nat
         /\ p.type = "hello_ack" => p.rs \in Nat /\ p.ns \in Nat /\ p.reset \in BOOLEAN
         /\ p.type = "data" => p.f \in Frame
         /\ p.type = "ack" => p.ch \in Channels /\ p.nack \in Nat
         /\ p.type = "lost" => /\ p.ch \in Channels /\ p.first \in Nat
                               /\ p.last \in Nat /\ p.drop \in BOOLEAN
<1>1. p \in Packet
  BY DEF TypeOK
<1> QED
  BY <1>1 DEF Packet, Hello, HelloAck, Data, Ack, Lost

LEMMA TypeInit == Init => TypeOK
<1> SUFFICES ASSUME Init PROVE TypeOK
  OBVIOUS
<1>1. Ones \in [Channels -> Nat \ {0}] /\ Empty \in [Channels -> SUBSET Nat]
  BY DEF Ones, Empty
<1> QED
  BY <1>1 DEF Init, TypeOK

LEMMA CountType ==
  ASSUME TypeOK, NEW e \in Ends
  PROVE  submits[e] + 1 \in Nat
<1>1. submits[e] \in Nat
  BY DEF TypeOK
<1> QED
  BY <1>1

LEMMA SessionType ==
  ASSUME TypeOK, NEW e \in Ends
  PROVE  session[e] + 1 \in Nat
<1>1. session[e] \in Nat
  BY DEF TypeOK
<1> QED
  BY <1>1

LEMMA TypeSubmit ==
  ASSUME TypeOK, NEW e \in Ends, Submit(e)
  PROVE  TypeOK'
<1>1. PICK ch \in Channels, n \in Frags, priority \in Priorities :
        SubmitAccept(e, ch, n, priority) \/ SubmitOverflow(e, ch, n, priority)
  BY DEF Submit
<1> DEFINE first == nextSeq[e][ch]
           last == (first + n) - 1
<1>2. n \in Nat \ {0}
  BY LinkAssumption
<1>3. first \in Nat \ {0} /\ last \in Nat /\ first + n \in Nat \ {0}
  <2>1. first \in Nat \ {0}
    BY DEF TypeOK
  <2> QED
    BY <1>2, <2>1
<1>c. ASSUME /\ nextSeq' = [nextSeq EXCEPT ![e][ch] = @ + n]
             /\ submits' = [submits EXCEPT ![e] = @ + 1]
      PROVE  nextSeq' \in [Ends -> [Channels -> Nat \ {0}]] /\ submits' \in [Ends -> Nat]
  <2>1. nextSeq' = [nextSeq EXCEPT ![e][ch] = first + n]
    BY <1>c
  <2>2. submits[e] + 1 \in Nat
    BY CountType
  <2> HIDE DEF first
  <2>3. nextSeq' \in [Ends -> [Channels -> Nat \ {0}]]
    BY <1>3, <2>1 DEF TypeOK
  <2> QED
    BY <1>c, <2>2, <2>3 DEF TypeOK
<1>4. CASE SubmitAccept(e, ch, n, priority)
  <2> DEFINE m == [ch |-> ch, first |-> first, n |-> n, id |-> submits[e] + 1,
                   rs |-> rootSession[e], ns |-> nodeSession[e]]
             frames == {[ch |-> ch, seq |-> q, first |-> m.first, n |-> n,
                         id |-> m.id, rs |-> m.rs, ns |-> m.ns] :
                          q \in m.first .. LastSeq(m)}
             added == {[f |-> f, retries |-> 0] : f \in frames}
             packets == {DataPacket(f) : f \in frames}
  <2>1. /\ tx' = [tx EXCEPT ![e] = @ \cup added]
        /\ Send(e, IF routeUp[e] THEN packets ELSE {})
        /\ accepted' = [accepted EXCEPT ![e] = @ \cup {m}]
        /\ nextSeq' = [nextSeq EXCEPT ![e][ch] = @ + n]
        /\ submits' = [submits EXCEPT ![e] = @ + 1]
        /\ UNCHANGED <<link, expected, pendingLost, rx, reassembly, loop, delivered,
                       lost, tainted>>
    BY <1>4 DEF SubmitAccept
  <2>2. m \in Message
    <3>1. submits[e] + 1 \in Nat
      BY CountType
    <3>2. rootSession[e] \in Nat /\ nodeSession[e] \in Nat
      BY DEF TypeOK
    <3> QED
      BY <1>2, <1>3, <3>1, <3>2 DEF Message
  <2>3. frames \in SUBSET Frame
    <3>1. ASSUME NEW q \in m.first .. LastSeq(m)
          PROVE  [ch |-> ch, seq |-> q, first |-> m.first, n |-> n,
                  id |-> m.id, rs |-> m.rs, ns |-> m.ns] \in Frame
      BY <2>2, <1>2, <1>3 DEF Frame, Message, LastSeq
    <3> QED
      BY <3>1
  <2> HIDE DEF frames
  <2>4. added \in SUBSET Slot
    BY <2>3 DEF Slot
  <2>5. packets \in SUBSET Packet
    BY <2>3, DataPacketType
  <2> HIDE DEF added, packets, m
  <2>6. net' \in [Ends -> SUBSET Packet]
    BY <2>1, <2>5, SendType
  <2>7. tx' \in [Ends -> SUBSET Slot]
    BY <2>1, <2>4 DEF TypeOK
  <2>8. accepted' \in [Ends -> SUBSET Message]
    BY <2>1, <2>2 DEF TypeOK
  <2>9. nextSeq' \in [Ends -> [Channels -> Nat \ {0}]] /\ submits' \in [Ends -> Nat]
    BY <2>1, <1>c
  <2> QED
    BY <2>1, <2>6, <2>7, <2>8, <2>9 DEF TypeOK, link, loop
<1>5. CASE SubmitOverflow(e, ch, n, priority)
  <2>1. Reports(e, e, ch, first .. last) \in SUBSET Report
    BY <1>3, ReportsType
  <2>2. LostPacket(e, ch, first, last, FALSE) \in Packet
    BY <1>3, LostPacketType
  <2>3. net' \in [Ends -> SUBSET Packet]
    BY <1>5, <2>2, SendType DEF SubmitOverflow
  <2>4. nextSeq' \in [Ends -> [Channels -> Nat \ {0}]] /\ submits' \in [Ends -> Nat]
    BY <1>5, <1>c DEF SubmitOverflow
  <2>5. lost' \in SUBSET Report
    BY <1>5, <2>1 DEF SubmitOverflow, TypeOK
  <2> QED
    BY <1>5, <2>3, <2>4, <2>5 DEF SubmitOverflow, TypeOK, link, slots, loop
<1> QED
  BY <1>1, <1>4, <1>5

LEMMA TypeConsume ==
  ASSUME TypeOK, NEW e \in Ends, Consume(e)
  PROVE  TypeOK'
<1>1. ~Idle(e)
  BY DEF Consume, SkipLost, ConsumeRx, ConsumeDone
<1> DEFINE ch == consuming[e]
           at == expected[e][ch]
<1>2. ch \in Channels /\ at \in Nat \ {0} /\ pendingLost[e][ch] \in SUBSET Nat
  BY <1>1 DEF Idle, TypeOK
<1>3. CASE SkipLost(e)
  <2> DEFINE gone == pendingLost[e][ch]
  <2>1. PICK last \in gone :
          /\ expected' = [expected EXCEPT ![e][ch] = last + 1]
          /\ pendingLost' = [pendingLost EXCEPT ![e][ch] =
               {q \in gone : ~(q .. at \subseteq gone /\ q <= last)}]
    BY <1>3 DEF SkipLost
  <2>2. last + 1 \in Nat \ {0}
    BY <1>2
  <2> DEFINE left == {q \in gone : ~(q .. at \subseteq gone /\ q <= last)}
  <2>3. left \in SUBSET Nat
    BY <1>2
  <2> HIDE DEF left
  <2>4. expected' \in [Ends -> [Channels -> Nat \ {0}]]
    BY <2>1, <2>2, <1>2 DEF TypeOK
  <2>5. pendingLost' \in [Ends -> [Channels -> SUBSET Nat]]
    BY <2>1, <2>3, <1>2 DEF TypeOK, left
  <2> QED
    BY <1>3, <2>4, <2>5 DEF SkipLost, TypeOK, link, slots, loop, hist
<1>4. CASE ConsumeRx(e)
  <2>1. PICK f \in rx[e] : DeliverFragment(e, f, rx[e] \ {f})
    BY <1>4 DEF ConsumeRx
  <2>2. f \in Frame /\ rx[e] \ {f} \in SUBSET Frame
    BY DEF TypeOK
  <2> QED
    BY <1>4, <2>1, <2>2, DeliverType DEF ConsumeRx, TypeOK, link, loop
<1>5. CASE ConsumeDone(e)
  <2>1. AckPacket(e, ch, at, Buffered(e, ch), FALSE) \in Packet
    BY <1>2, BufferedType, AckPacketType
  <2>2. net' \in [Ends -> SUBSET Packet]
    BY <1>5, <2>1, SendType DEF ConsumeDone
  <2> QED
    BY <1>5, <2>2 DEF ConsumeDone, EnterLoop, TypeOK, link, seqs, slots, hist
<1> QED
  BY <1>3, <1>4, <1>5 DEF Consume

LEMMA ResentType ==
  ASSUME NEW s \in Slot
  PROVE  Resent(s) \in Slot
<1>1. s.retries \in Nat /\ s.retries + 1 \in Nat
  BY DEF Slot
<1> QED
  BY <1>1 DEF Resent, Slot

LEMMA TypeReceiveSession ==
  ASSUME TypeOK, NEW e \in Ends, NEW p \in net[e],
         (e = "root" /\ HandleHello(p)) \/ (e = "node" /\ HandleHelloAck(p))
  PROVE  TypeOK'
<1>1. CASE e = "root" /\ HandleHello(p)
  <2>1. p.ns \in Nat /\ session["root"] \in Nat
    BY <1>1, PacketFields DEF HandleHello, TypeOK
  <2>2. HelloReset(p) \in BOOLEAN
    BY DEF HelloReset
  <2>3. [type |-> "hello_ack", rs |-> session["root"], ns |-> p.ns,
         reset |-> HelloReset(p)] \in Packet
    BY <2>1, <2>2 DEF Packet, HelloAck
  <2>4. net' \in [Ends -> SUBSET Packet]
    BY <1>1, <2>3, SendType DEF HandleHello
  <2>5. /\ session' = session
        /\ ready' \in [Ends -> BOOLEAN] /\ routeUp' \in [Ends -> BOOLEAN]
        /\ rootSession' \in [Ends -> Nat] /\ nodeSession' \in [Ends -> Nat]
    BY <1>1, <2>1 DEF HandleHello, TypeOK
  <2>6. CASE ClearPeerBuffers("root", {})
    BY <1>1, <2>4, <2>5, <2>6, ClearType DEF HandleHello, RestartType, TypeOK, loop
  <2>7. CASE KeepBuffers
    BY <1>1, <2>4, <2>5, <2>7 DEF HandleHello, KeepBuffers, TypeOK, seqs, slots, loop
  <2> QED
    BY <1>1, <2>6, <2>7 DEF HandleHello
<1>2. CASE e = "node" /\ HandleHelloAck(p)
  <2>1. p.rs \in Nat /\ session["node"] \in Nat
    BY <1>2, PacketFields DEF HandleHelloAck, TypeOK
  <2>2. /\ session' = session
        /\ ready' \in [Ends -> BOOLEAN] /\ routeUp' \in [Ends -> BOOLEAN]
        /\ rootSession' \in [Ends -> Nat] /\ nodeSession' \in [Ends -> Nat]
    BY <1>2, <2>1 DEF HandleHelloAck, TypeOK
  <2>3. CASE ClearPeerBuffers("node", {})
    BY <1>2, <2>2, <2>3, ClearType DEF HandleHelloAck, RestartType, TypeOK, loop
  <2>4. CASE KeepBuffers
    BY <1>2, <2>2, <2>4 DEF HandleHelloAck, KeepBuffers, TypeOK, seqs, slots, loop
  <2> QED
    BY <1>2, <2>3, <2>4 DEF HandleHelloAck
<1> QED
  BY <1>1, <1>2

LEMMA RangeType ==
  ASSUME TypeOK, NEW e \in Ends, NEW ch \in Channels, NEW first \in Nat, NEW last \in Nat
  PROVE  WithRange(pendingLost[e], ch, first, last) \in [Channels -> SUBSET Nat]
<1>1. pendingLost[e] \in [Channels -> SUBSET Nat]
  BY DEF TypeOK
<1>2. first .. last \in SUBSET Nat
  OBVIOUS
<1> QED
  BY <1>1, <1>2 DEF WithRange

LEMMA TypeReceiveData ==
  ASSUME TypeOK, NEW e \in Ends, NEW p \in net[e], HandleData(e, p)
  PROVE  TypeOK'
<1> DEFINE f == p.f
           at == expected[e][f.ch]
<1>1. f \in Frame
  BY PacketFields DEF HandleData, DataOld, DataInOrder, DataNotStored, DataStored,
     DataDropped, DataOverflow, DataAhead, DataArrives, NoRxSlot
<1>2. f.ch \in Channels /\ f.seq \in Nat
  BY <1>1 DEF Frame
<1>3. at \in Nat \ {0} /\ Buffered(e, f.ch) \in SUBSET Nat
  <2>1. at \in Nat \ {0}
    BY <1>2, ExpectedType
  <2> QED
    BY <1>2, <2>1, BufferedType
<1> HIDE DEF at
<1>4. \A buffered \in SUBSET Nat, isNack \in BOOLEAN :
        AckPacket(e, f.ch, at, buffered, isNack) \in Packet
  BY <1>2, <1>3, AckPacketType
<1>5. ASSUME RouteSeen(e)
      PROVE  routeUp' \in [Ends -> BOOLEAN]
  BY <1>5 DEF RouteSeen, TypeOK
<1>6. CASE DataOld(e, p)
  <2>1. net' \in [Ends -> SUBSET Packet]
    BY <1>3, <1>4, <1>6, SendType DEF DataOld, at
  <2> QED
    BY <1>5, <1>6, <2>1 DEF DataOld, DataArrives, KeepSession, TypeOK, seqs, slots,
       loop, hist
<1>7. CASE DataInOrder(e, p)
  <2> DEFINE left == IF Jumps(e, f) THEN {g \in rx[e] : g.ch # TIME} ELSE rx[e]
  <2>1. left \in SUBSET Frame
    BY DEF TypeOK
  <2>2. DeliverFragment(e, f, left)
    BY <1>7 DEF DataInOrder
  <2>3. pendingLost' \in [Ends -> [Channels -> SUBSET Nat]]
    BY <1>2, <1>7 DEF DataInOrder, Jumps, TypeOK
  <2>4. /\ expected' \in [Ends -> [Channels -> Nat \ {0}]]
        /\ rx' \in [Ends -> SUBSET Frame]
        /\ reassembly' \in [Ends -> SUBSET Partial]
        /\ delivered' \in [Ends -> Seq(Message)]
        /\ lost' \in SUBSET Report
        /\ net' \in [Ends -> SUBSET Packet]
    BY <1>1, <2>1, <2>2, DeliverType
  <2>5. consuming' \in [Ends -> Channels \cup {None}] /\ ackDue' \in [Ends -> BOOLEAN]
    BY <1>2, <1>7 DEF DataInOrder, EnterLoop, TypeOK
  <2> QED
    BY <1>5, <1>7, <2>3, <2>4, <2>5 DEF DataInOrder, DataArrives, KeepSession, TypeOK
<1>8. CASE DataNotStored(e, p)
  <2>1. net' \in [Ends -> SUBSET Packet]
    BY <1>3, <1>4, <1>8, SendType DEF DataNotStored, at
  <2> QED
    BY <1>5, <1>8, <2>1 DEF DataNotStored, DataAhead, DataArrives, KeepSession, TypeOK,
       seqs, slots, loop, hist
<1>9. CASE DataStored(e, p)
  <2>1. Buffered(e, f.ch) \cup {f.seq} \in SUBSET Nat
    BY <1>2, <1>3
  <2>2. net' \in [Ends -> SUBSET Packet]
    BY <1>4, <1>9, <2>1, SendType DEF DataStored, at
  <2>3. rx' \in [Ends -> SUBSET Frame]
    BY <1>1, <1>9 DEF DataStored, TypeOK
  <2> QED
    BY <1>5, <1>9, <2>2, <2>3 DEF DataStored, DataAhead, DataArrives, KeepSession,
       TypeOK, seqs, loop, hist
<1>10. DropReports(e, f) \in SUBSET Report
  <2>1. {f.seq} \in SUBSET Nat
    BY <1>2
  <2> QED
    BY <1>2, <2>1, PeerType, ReportsType DEF DropReports
<1>11. CASE DataDropped(e, p)
  <2>1. LostPacket(e, f.ch, f.seq, f.seq, TRUE) \in Packet
    BY <1>2, LostPacketType
  <2>2. net' \in [Ends -> SUBSET Packet]
    BY <1>11, <2>1, SendType DEF DataDropped
  <2>3. pendingLost' \in [Ends -> [Channels -> SUBSET Nat]]
    <3>1. WithRange(pendingLost[e], f.ch, f.seq, f.seq) \in [Channels -> SUBSET Nat]
      BY <1>2, RangeType
    <3> QED
      BY <1>11, <3>1 DEF DataDropped, TypeOK
  <2>4. reassembly' \in [Ends -> SUBSET Partial] /\ lost' \in SUBSET Report
    BY <1>10, <1>11 DEF DataDropped, TypeOK
  <2> QED
    BY <1>5, <1>11, <2>2, <2>3, <2>4 DEF DataDropped, NoRxSlot, TypeOK, loop
<1>12. CASE DataOverflow(e, p)
  <2>1. RestartType /\ lost' \in SUBSET Report /\ tainted' \in SUBSET (Nat \X Nat)
    BY <1>10, <1>12, ClearType DEF DataOverflow
  <2> QED
    BY <1>5, <1>12, <2>1 DEF DataOverflow, NoRxSlot, RestartType, TypeOK, loop
<1> QED
  BY <1>6, <1>7, <1>8, <1>9, <1>11, <1>12 DEF HandleData

LEMMA TypeReceiveAck ==
  ASSUME TypeOK, NEW e \in Ends, NEW p \in net[e], HandleAck(e, p)
  PROVE  TypeOK'
<1>1. p.type = "ack" /\ p.ch \in Channels /\ p.nack \in Nat
  BY PacketFields DEF HandleAck
<1> DEFINE left == tx[e] \ Acked(e, p)
           asked == {s \in left : s.f.ch = p.ch /\ s.f.seq = p.nack}
<1>2. tx[e] \in SUBSET Slot /\ left \in SUBSET Slot
  BY DEF TypeOK
<1>3. /\ routeUp' \in [Ends -> BOOLEAN]
      /\ UNCHANGED <<session, ready, rootSession, nodeSession>>
      /\ UNCHANGED <<seqs, rx, reassembly, loop, submits, accepted, delivered, tainted>>
  BY DEF HandleAck, RouteSeen, KeepSession, TypeOK
<1>4. CASE tx' = [tx EXCEPT ![e] = left] /\ UNCHANGED <<net, lost>>
  BY <1>2, <1>3, <1>4 DEF TypeOK, seqs, loop
<1>5. CASE /\ \E s \in asked :
                /\ tx' = [tx EXCEPT ![e] = (left \ {s}) \cup {Resent(s)}]
                /\ Send(e, {DataPacket(s.f)})
           /\ UNCHANGED lost
  <2>1. PICK s \in asked : /\ tx' = [tx EXCEPT ![e] = (left \ {s}) \cup {Resent(s)}]
                           /\ Send(e, {DataPacket(s.f)})
    BY <1>5
  <2>2. s \in tx[e]
    OBVIOUS
  <2>3. Resent(s) \in Slot /\ s.f \in Frame
    BY <2>2, SlotFields, ResentType
  <2>4. net' \in [Ends -> SUBSET Packet]
    BY <2>1, <2>3, DataPacketType, SendType
  <2>5. tx' \in [Ends -> SUBSET Slot]
    BY <1>2, <2>1, <2>3 DEF TypeOK
  <2> QED
    BY <1>3, <1>5, <2>4, <2>5 DEF TypeOK, seqs, loop
<1>6. CASE /\ tx' = [tx EXCEPT ![e] = left]
           /\ lost' = lost \cup Reports(e, e, p.ch, {p.nack})
           /\ Send(e, {LostPacket(e, p.ch, p.nack, p.nack, FALSE)})
  <2>1. {p.nack} \in SUBSET Nat
    BY <1>1
  <2>2. Reports(e, e, p.ch, {p.nack}) \in SUBSET Report
    BY <1>1, <2>1, ReportsType
  <2>3. net' \in [Ends -> SUBSET Packet]
    <3>1. LostPacket(e, p.ch, p.nack, p.nack, FALSE) \in Packet
      BY <1>1, LostPacketType
    <3> QED
      BY <1>6, <3>1, SendType
  <2> QED
    BY <1>2, <1>3, <1>6, <2>2, <2>3 DEF TypeOK, seqs, loop
<1> QED
  BY <1>4, <1>5, <1>6 DEF HandleAck

LEMMA TypeReceiveLost ==
  ASSUME TypeOK, NEW e \in Ends, NEW p \in net[e], HandleLost(e, p)
  PROVE  TypeOK'
<1>1. LostArrives(e, p)
  BY DEF HandleLost, LostByReceiver, LostExpected, LostAhead, LostBehind
<1>2. /\ p.ch \in Channels /\ p.first \in Nat /\ p.last \in Nat
      /\ p.first .. p.last \in SUBSET Nat
  BY <1>1, PacketFields DEF LostArrives
<1>3. /\ routeUp' \in [Ends -> BOOLEAN]
      /\ UNCHANGED <<session, rootSession, nodeSession>>
  BY <1>1 DEF LostArrives, TypeOK
<1>4. /\ Reports(e, e, p.ch, p.first .. p.last) \in SUBSET Report
      /\ Reports(e, Peer(e), p.ch, p.first .. p.last) \in SUBSET Report
  BY <1>2, PeerType, ReportsType
<1>5. CASE LostByReceiver(e, p)
  BY <1>3, <1>4, <1>5 DEF LostByReceiver, TypeOK, seqs, loop
<1>6. CASE LostExpected(e, p)
  <2>1. p.last + 1 \in Nat \ {0}
    BY <1>2
  <2>2. expected' \in [Ends -> [Channels -> Nat \ {0}]]
    BY <1>2, <1>6, <2>1 DEF LostExpected, TypeOK
  <2>3. consuming' \in [Ends -> Channels \cup {None}] /\ ackDue' \in [Ends -> BOOLEAN]
    BY <1>2, <1>6 DEF LostExpected, EnterLoop, TypeOK
  <2> QED
    BY <1>3, <1>4, <1>6, <2>2, <2>3 DEF LostExpected, TypeOK, slots
<1>7. CASE LostAhead(e, p)
  <2> DEFINE pending == WithRange(pendingLost[e], p.ch, p.first, p.last)
  <2>1. pending \in [Channels -> SUBSET Nat]
    BY <1>2, RangeType
  <2> HIDE DEF pending
  <2>2. CASE /\ pendingLost' = [pendingLost EXCEPT ![e] = pending]
             /\ lost' = lost \cup Reports(e, Peer(e), p.ch, p.first .. p.last)
             /\ UNCHANGED <<ready, nextSeq, expected, slots, tainted>>
    BY <1>3, <1>4, <1>7, <2>1, <2>2 DEF LostAhead, TypeOK, slots, loop
  <2>3. CASE /\ ClearPeerBuffers(e, {})
             /\ ready' = [ready EXCEPT ![e] = FALSE]
    <3>1. RestartType /\ lost' \in SUBSET Report /\ tainted' \in SUBSET (Nat \X Nat)
      BY <2>3, ClearType
    <3> QED
      BY <1>3, <1>7, <2>3, <3>1 DEF LostAhead, RestartType, TypeOK, loop
  <2> QED
    BY <1>7, <2>2, <2>3 DEF LostAhead, pending
<1>8. CASE LostBehind(e, p)
  BY <1>3, <1>4, <1>8 DEF LostBehind, TypeOK, seqs, slots, loop
<1> QED
  BY <1>5, <1>6, <1>7, <1>8 DEF HandleLost

LEMMA TypeReceive ==
  ASSUME TypeOK, NEW e \in Ends, Receive(e)
  PROVE  TypeOK'
  BY TypeReceiveSession, TypeReceiveData, TypeReceiveAck, TypeReceiveLost DEF Receive

LEMMA TypePoll ==
  ASSUME TypeOK, NEW e \in Ends, PollTx(e) \/ PollFragmentTimeout(e) \/ PollRouteTimeout(e)
  PROVE  TypeOK'
<1>1. CASE PollRetransmit(e)
  <2>1. PICK s \in tx[e] : /\ tx' = [tx EXCEPT ![e] = (@ \ {s}) \cup {Resent(s)}]
                           /\ Send(e, {DataPacket(s.f)})
    BY <1>1 DEF PollRetransmit
  <2>2. Resent(s) \in Slot /\ s.f \in Frame
    BY SlotFields, ResentType
  <2>3. net' \in [Ends -> SUBSET Packet]
    BY <2>1, <2>2, DataPacketType, SendType
  <2>4. tx' \in [Ends -> SUBSET Slot]
    BY <2>1, <2>2 DEF TypeOK
  <2> QED
    BY <1>1, <2>3, <2>4 DEF PollRetransmit, TypeOK, link, seqs, loop, hist
<1>2. CASE PollExhausted(e)
  <2>1. PICK s \in tx[e] : Send(e, {LostPacket(e, s.f.ch, s.f.seq, s.f.seq, FALSE)})
    BY <1>2 DEF PollExhausted
  <2>2. net' \in [Ends -> SUBSET Packet]
    <3>1. LostPacket(e, s.f.ch, s.f.seq, s.f.seq, FALSE) \in Packet
      BY SlotFields, LostPacketType
    <3> QED
      BY <2>1, <3>1, SendType
  <2>3. RestartType /\ lost' \in SUBSET Report /\ tainted' \in SUBSET (Nat \X Nat)
    BY <1>2, ClearType DEF PollExhausted
  <2>4. rootSession' \in [Ends -> Nat] /\ nodeSession' \in [Ends -> Nat]
    BY <1>2 DEF PollExhausted, TypeOK
  <2> QED
    BY <1>2, <2>2, <2>3, <2>4 DEF PollExhausted, RestartType, TypeOK, loop
<1>3. CASE PollFragmentTimeout(e)
  <2>1. PICK r \in reassembly[e] :
          /\ reassembly' = [reassembly EXCEPT ![e] = @ \ {r}]
          /\ lost' = lost \cup Reports(e, Peer(e), r.ch, r.first .. LastSeq(r))
          /\ Send(e, {LostPacket(e, r.ch, r.first, LastSeq(r), TRUE)})
    BY <1>3 DEF PollFragmentTimeout
  <2>2. lost' \in SUBSET Report
    BY <2>1, PartialFields, PeerType, ReportsType DEF TypeOK
  <2>3. net' \in [Ends -> SUBSET Packet]
    <3>1. LostPacket(e, r.ch, r.first, LastSeq(r), TRUE) \in Packet
      BY PartialFields, LostPacketType
    <3> QED
      BY <2>1, <3>1, SendType
  <2> QED
    BY <1>3, <2>1, <2>2, <2>3 DEF PollFragmentTimeout, TypeOK, link, seqs, loop
<1>4. CASE PollRouteTimeout(e)
  <2>1. RestartType /\ lost' \in SUBSET Report /\ tainted' \in SUBSET (Nat \X Nat)
    BY <1>4, ClearType DEF PollRouteTimeout
  <2> QED
    BY <1>4, <2>1 DEF PollRouteTimeout, RestartType, TypeOK, loop
<1> QED
  BY <1>1, <1>2, <1>3, <1>4 DEF PollTx

LEMMA TypeEnvironment ==
  ASSUME TypeOK, Environment
  PROVE  TypeOK'
<1>1. CASE SendHello
  <2>1. [type |-> "hello", ns |-> session["node"], seen |-> rootSession["node"]] \in Packet
    BY DEF Packet, Hello, TypeOK
  <2>2. net' \in [Ends -> SUBSET Packet]
    BY <1>1, <2>1, SendType DEF SendHello
  <2> QED
    BY <1>1, <2>2 DEF SendHello, TypeOK, link, seqs, slots, loop, hist
<1>2. CASE Supersede
  BY <1>2 DEF Supersede, TypeOK, link, seqs, loop, hist
<1>3. CASE RemovePeer
  <2>1. RestartType /\ tainted' \in SUBSET (Nat \X Nat)
    BY <1>3, RestartedType, TaintType DEF RemovePeer
  <2> QED
    BY <1>3, <2>1 DEF RemovePeer, RestartType, TypeOK, loop
<1>4. ASSUME NEW e \in Ends, PollRouteTimeout(e)
      PROVE  TypeOK'
  BY <1>4, TypePoll
<1>5. ASSUME NEW e \in Ends, NEW up \in BOOLEAN, PeerRoute(e, up)
      PROVE  TypeOK'
  BY <1>5 DEF PeerRoute, TypeOK, seqs, slots, loop, hist
<1>6. ASSUME NEW e \in Ends, Reboot(e)
      PROVE  TypeOK'
  <2>1. RestartType
    BY <1>6, RestartedType DEF Reboot
  <2>2. session' \in [Ends -> Nat]
    <3>1. session[e] + 1 \in Nat
      BY SessionType
    <3> QED
      BY <1>6, <3>1 DEF Reboot, TypeOK
  <2> QED
    BY <1>6, <2>1, <2>2 DEF Reboot, EnterLoop, RestartType, TypeOK, hist
<1> QED
  BY <1>1, <1>2, <1>3, <1>4, <1>5, <1>6 DEF Environment

\* Every reachable state is well typed: slots only hold frames, positions are
\* positive (so the cumulative ACK expected - 1 of send_ack never goes below 0),
\* packets have the fields their handlers read.
THEOREM TypeCorrect == Spec => []TypeOK
<1>1. Init => TypeOK
  BY TypeInit
<1>2. TypeOK /\ [Next]_vars => TypeOK'
  <2> SUFFICES ASSUME TypeOK, [Next]_vars PROVE TypeOK'
    OBVIOUS
  <2>1. CASE Environment
    BY <2>1, TypeEnvironment
  <2>2. ASSUME NEW e \in Ends, Transfer(e) PROVE TypeOK'
    BY <2>2, TypeSubmit, TypeConsume, TypeReceive, TypePoll DEF Transfer
  <2>3. CASE UNCHANGED vars
    BY <2>3 DEF vars, link, seqs, slots, loop, hist, TypeOK
  <2> QED
    BY <2>1, <2>2, <2>3 DEF Next
<1> QED
  BY <1>1, <1>2, PTL DEF Spec

----------------------------------------------------------------------------
(* Session consistency.  QueuedInSession alone is not inductive: a HELLO    *)
(* without reset, or a HELLO_ACK the node takes as a first binding, installs *)
(* ids under the queued frames; that these are the same ids needs           *)
(* SessionsBound.                                                           *)

\* A step that keeps the binding and queues only frames of it.
LEMMA QueuedSteady ==
  ASSUME QueuedInSession, UNCHANGED <<ready, rootSession, nodeSession>>,
         \A e \in Ends : \A s \in tx'[e] :
           \/ \E t \in tx[e] : t.f = s.f
           \/ Installed(e, s.f.rs, s.f.ns),
         \A e \in Ends : \A f \in rx'[e] : f \in rx[e] \/ Installed(e, f.rs, f.ns),
         \A e \in Ends : reassembly'[e] # {} => reassembly[e] # {} \/ ready[e]
  PROVE  QueuedInSession'
  BY DEF QueuedInSession, Installed

\* A step that empties the queues of one end and keeps those, and the binding, of
\* the other.
LEMMA QueuedCleared ==
  ASSUME TypeOK, QueuedInSession, NEW e \in Ends, RestartSpaces(e),
         \A o \in Ends \ {e} : /\ ready'[o] = ready[o]
                               /\ rootSession'[o] = rootSession[o]
                               /\ nodeSession'[o] = nodeSession[o]
  PROVE  QueuedInSession'
<1>1. /\ tx'[e] = {} /\ rx'[e] = {} /\ reassembly'[e] = {}
      /\ \A o \in Ends \ {e} : tx'[o] = tx[o] /\ rx'[o] = rx[o] /\ reassembly'[o] = reassembly[o]
  BY DEF RestartSpaces, TypeOK
<1> QED
  BY <1>1 DEF QueuedInSession, Installed

\* Packets other than the handshake do not matter to SessionsBound.
Ordinary(packets) == \A p \in packets : p.type \notin {"hello", "hello_ack"}

LEMMA BoundSteady ==
  ASSUME TypeOK, SessionsBound, NEW e \in Ends, NEW packets,
         UNCHANGED <<session, rootSession, nodeSession>>,
         \A o \in Ends : ready'[o] => ready[o],
         Ordinary(packets), net' = net \/ Send(e, packets)
  PROVE  SessionsBound'
<1>1. \A o \in Ends : net'[o] \subseteq net[o] \cup packets
  BY DEF Send, Peer, TypeOK
<1> QED
  BY <1>1 DEF SessionsBound, Ordinary

LEMMA OrdinaryPackets ==
  /\ Ordinary({})
  /\ \A e, ch, at, buffered, isNack : Ordinary({AckPacket(e, ch, at, buffered, isNack)})
  /\ \A e, ch, first, last, drop : Ordinary({LostPacket(e, ch, first, last, drop)})
  /\ \A frames : Ordinary({DataPacket(f) : f \in frames})
  /\ \A f : Ordinary({DataPacket(f)})
  BY DEF Ordinary, AckPacket, LostPacket, DataPacket

\* An end gives its queues up and is not ready any more.
LEMMA SessionUnready ==
  ASSUME SessionInv, NEW e \in Ends, RestartSpaces(e), net' = net,
         ready' = [ready EXCEPT ![e] = FALSE],
         UNCHANGED <<session, rootSession, nodeSession>>
  PROVE  QueuedInSession' /\ SessionsBound'
<1>1. ~ready'[e] /\ \A o \in Ends \ {e} : ready'[o] = ready[o]
  BY DEF SessionInv, TypeOK
<1>2. QueuedInSession'
  BY <1>1, QueuedCleared DEF SessionInv
<1>3. SessionsBound'
  BY <1>1, BoundSteady, OrdinaryPackets DEF SessionInv
<1> QED
  BY <1>2, <1>3

LEMMA SessionSubmit ==
  ASSUME SessionInv, NEW e \in Ends, Submit(e)
  PROVE  QueuedInSession' /\ SessionsBound'
<1>1. PICK ch \in Channels, n \in Frags, priority \in Priorities :
        SubmitAccept(e, ch, n, priority) \/ SubmitOverflow(e, ch, n, priority)
  BY DEF Submit
<1>2. UNCHANGED link /\ rx' = rx /\ reassembly' = reassembly
  BY <1>1 DEF SubmitAccept, SubmitOverflow, slots
<1>3. CASE SubmitAccept(e, ch, n, priority)
  <2> DEFINE m == [ch |-> ch, first |-> nextSeq[e][ch], n |-> n, id |-> submits[e] + 1,
                   rs |-> rootSession[e], ns |-> nodeSession[e]]
             frames == {[ch |-> ch, seq |-> q, first |-> m.first, n |-> n,
                         id |-> m.id, rs |-> m.rs, ns |-> m.ns] :
                          q \in m.first .. LastSeq(m)}
  <2>1. /\ ready[e]
        /\ tx' = [tx EXCEPT ![e] = @ \cup {[f |-> f, retries |-> 0] : f \in frames}]
        /\ Send(e, IF routeUp[e] THEN {DataPacket(f) : f \in frames} ELSE {})
    BY <1>3 DEF SubmitAccept, MaySubmit
  <2>2. \A f \in frames : f.rs = rootSession[e] /\ f.ns = nodeSession[e]
    OBVIOUS
  <2> HIDE DEF frames
  <2>3. \A s \in tx'[e] : s \in tx[e] \/ Installed(e, s.f.rs, s.f.ns)
    <3>1. tx'[e] = tx[e] \cup {[f |-> f, retries |-> 0] : f \in frames}
      BY <2>1 DEF SessionInv, TypeOK
    <3>2. ASSUME NEW f \in frames
          PROVE  LET s == [f |-> f, retries |-> 0] IN Installed(e, s.f.rs, s.f.ns)
      BY <2>1, <2>2 DEF Installed
    <3> QED
      BY <3>1, <3>2
  <2>4. \A o \in Ends \ {e} : tx'[o] = tx[o]
    BY <2>1 DEF SessionInv, TypeOK
  <2>5. QueuedInSession'
    BY <1>2, <2>3, <2>4, QueuedSteady DEF SessionInv, link
  <2>6. SessionsBound'
    BY <1>2, <2>1, BoundSteady, OrdinaryPackets DEF SessionInv, link
  <2> QED
    BY <2>5, <2>6
<1>4. CASE SubmitOverflow(e, ch, n, priority)
  <2> DEFINE first == nextSeq[e][ch]
             last == (first + n) - 1
  <2>1. tx' = tx /\ Send(e, {LostPacket(e, ch, first, last, FALSE)})
    BY <1>4 DEF SubmitOverflow, slots
  <2>2. QueuedInSession'
    BY <1>2, <2>1, QueuedSteady DEF SessionInv, link
  <2>3. SessionsBound'
    BY <1>2, <2>1, BoundSteady, OrdinaryPackets DEF SessionInv, link
  <2> QED
    BY <2>2, <2>3
<1> QED
  BY <1>1, <1>3, <1>4

\* What deliver_fragment() leaves queued.
LEMMA DeliverKeeps ==
  ASSUME TypeOK, NEW e \in Ends, NEW f, NEW rxLeft \in SUBSET rx[e],
         DeliverFragment(e, f, rxLeft)
  PROVE  /\ \A o \in Ends : rx'[o] \subseteq rx[o]
         /\ \A o \in Ends \ {e} : reassembly'[o] = reassembly[o]
         /\ \E packets : Ordinary(packets) /\ (net' = net \/ Send(e, packets))
<1>1. \A o \in Ends : rx'[o] \subseteq rx[o]
  <2>1. \E left \in SUBSET rx[e] : rx' = [rx EXCEPT ![e] = left]
    <3>1. CASE DeliverWhole(e, f, rxLeft) \/ DeliverPart(e, f, rxLeft)
      BY <3>1 DEF DeliverWhole, DeliverPart
    <3>2. CASE DeliverNoSlot(e, f, rxLeft)
      BY <3>2 DEF DeliverNoSlot
    <3> QED
      BY <3>1, <3>2 DEF DeliverFragment
  <2> QED
    BY <2>1 DEF TypeOK
<1>2. \A o \in Ends \ {e} : reassembly'[o] = reassembly[o]
  BY DEF DeliverFragment, DeliverWhole, DeliverPart, DeliverNoSlot, TypeOK
<1>3. \E packets : Ordinary(packets) /\ (net' = net \/ Send(e, packets))
  <2>1. CASE DeliverWhole(e, f, rxLeft) \/ DeliverPart(e, f, rxLeft)
    BY <2>1, OrdinaryPackets DEF DeliverWhole, DeliverPart
  <2>2. CASE DeliverNoSlot(e, f, rxLeft)
    <3>1. Send(e, {LostPacket(e, f.ch, f.first, LastSeq(f), TRUE)})
      BY <2>2 DEF DeliverNoSlot
    <3> QED
      BY <3>1, OrdinaryPackets
  <2> QED
    BY <2>1, <2>2 DEF DeliverFragment
<1> QED
  BY <1>1, <1>2, <1>3

LEMMA SessionConsume ==
  ASSUME SessionInv, NEW e \in Ends, Consume(e)
  PROVE  QueuedInSession' /\ SessionsBound'
<1>1. UNCHANGED link /\ tx' = tx
  BY DEF Consume, SkipLost, ConsumeRx, ConsumeDone, slots
<1>2. CASE ConsumeRx(e)
  <2>1. PICK f \in rx[e] : DeliverFragment(e, f, rx[e] \ {f})
    BY <1>2 DEF ConsumeRx
  <2>2. ready[e]
    BY DEF SessionInv, QueuedInSession, Installed
  <2>3. /\ \A o \in Ends : rx'[o] \subseteq rx[o]
        /\ \A o \in Ends \ {e} : reassembly'[o] = reassembly[o]
        /\ \E packets : Ordinary(packets) /\ (net' = net \/ Send(e, packets))
    BY <2>1, DeliverKeeps DEF SessionInv
  <2>4. QueuedInSession'
    BY <1>1, <2>2, <2>3, QueuedSteady DEF SessionInv, link
  <2>5. SessionsBound'
    BY <1>1, <2>3, BoundSteady DEF SessionInv, link
  <2> QED
    BY <2>4, <2>5
<1>3. CASE SkipLost(e) \/ ConsumeDone(e)
  <2>1. rx' = rx /\ reassembly' = reassembly
    BY <1>3 DEF SkipLost, ConsumeDone, slots
  <2>2. \E packets : Ordinary(packets) /\ (net' = net \/ Send(e, packets))
    BY <1>3, OrdinaryPackets DEF SkipLost, ConsumeDone
  <2>3. QueuedInSession'
    BY <1>1, <2>1, QueuedSteady DEF SessionInv, link
  <2>4. SessionsBound'
    BY <1>1, <2>2, BoundSteady DEF SessionInv, link
  <2> QED
    BY <2>3, <2>4
<1> QED
  BY <1>2, <1>3 DEF Consume

LEMMA SessionHello ==
  ASSUME SessionInv, NEW p \in net["root"], HandleHello(p)
  PROVE  QueuedInSession' /\ SessionsBound'
<1>1. /\ p.type = "hello" /\ p.ns # 0 /\ session["root"] # 0
      /\ session' = session
      /\ ready' = [ready EXCEPT !["root"] = TRUE]
      /\ rootSession' = [rootSession EXCEPT !["root"] = session["root"]]
      /\ nodeSession' = [nodeSession EXCEPT !["root"] = p.ns]
  BY DEF HandleHello, SessionInv, SessionsBound
<1>2. /\ ready'["root"] /\ rootSession'["root"] = session["root"]
      /\ nodeSession'["root"] = p.ns
      /\ \A o \in Ends \ {"root"} : /\ ready'[o] = ready[o]
                                    /\ rootSession'[o] = rootSession[o]
                                    /\ nodeSession'[o] = nodeSession[o]
  BY <1>1 DEF SessionInv, TypeOK
<1>3. QueuedInSession'
  <2>1. CASE HelloReset(p)
    <3>1. RestartSpaces("root")
      BY <2>1 DEF HandleHello, ClearPeerBuffers
    <3> QED
      BY <1>2, <3>1, QueuedCleared DEF SessionInv
  <2>2. CASE ~HelloReset(p)
    <3>1. UNCHANGED slots
      BY <2>2 DEF HandleHello, KeepBuffers
    <3>2. nodeSession["root"] = p.ns /\ (ready["root"] => rootSession["root"] = session["root"])
      BY <2>2 DEF HelloReset, SessionInv, SessionsBound
    <3> QED
      BY <1>2, <3>1, <3>2 DEF SessionInv, QueuedInSession, Installed, slots
  <2> QED
    BY <2>1, <2>2
<1>4. SessionsBound'
  <2> DEFINE a == [type |-> "hello_ack", rs |-> session["root"], ns |-> p.ns,
                   reset |-> HelloReset(p)]
  <2>1. Send("root", {a})
    BY DEF HandleHello
  <2>2. net'["root"] = net["root"] /\ net'["node"] = net["node"] \cup {a}
    BY <2>1 DEF Send, Peer, SessionInv, TypeOK
  <2> QED
    BY <1>1, <1>2, <2>2 DEF SessionInv, SessionsBound
<1> QED
  BY <1>3, <1>4

LEMMA SessionHelloAck ==
  ASSUME SessionInv, NEW p \in net["node"], HandleHelloAck(p)
  PROVE  QueuedInSession' /\ SessionsBound'
<1>1. /\ p.type = "hello_ack" /\ p.rs # 0 /\ p.ns = session["node"]
      /\ session' = session /\ net' = net
      /\ ready' = [ready EXCEPT !["node"] = TRUE]
      /\ rootSession' = [rootSession EXCEPT !["node"] = p.rs]
      /\ nodeSession' = [nodeSession EXCEPT !["node"] = session["node"]]
  BY DEF HandleHelloAck, SessionInv, SessionsBound
<1>2. /\ ready'["node"] /\ rootSession'["node"] = p.rs
      /\ nodeSession'["node"] = session["node"]
      /\ \A o \in Ends \ {"node"} : /\ ready'[o] = ready[o]
                                    /\ rootSession'[o] = rootSession[o]
                                    /\ nodeSession'[o] = nodeSession[o]
  BY <1>1 DEF SessionInv, TypeOK
<1>3. QueuedInSession'
  <2>1. CASE ClearPeerBuffers("node", {})
    <3>1. RestartSpaces("node")
      BY <2>1 DEF ClearPeerBuffers
    <3> QED
      BY <1>2, <3>1, QueuedCleared DEF SessionInv
  <2>2. CASE ~SessionChanged(p) /\ KeepBuffers
    <3>1. UNCHANGED slots
      BY <2>2 DEF KeepBuffers
    <3>2. ready["node"] => /\ rootSession["node"] = p.rs
                           /\ nodeSession["node"] = session["node"]
      BY <2>2 DEF SessionChanged, SessionInv, SessionsBound
    <3> QED
      BY <1>2, <3>1, <3>2 DEF SessionInv, QueuedInSession, Installed, slots
  <2> QED
    BY <2>1, <2>2 DEF HandleHelloAck
<1>4. SessionsBound'
  BY <1>1, <1>2 DEF SessionInv, SessionsBound
<1> QED
  BY <1>3, <1>4

LEMMA SessionData ==
  ASSUME SessionInv, NEW e \in Ends, NEW p \in net[e], HandleData(e, p)
  PROVE  QueuedInSession' /\ SessionsBound'
<1> DEFINE f == p.f
<1>1. /\ Installed(e, f.rs, f.ns) /\ UNCHANGED <<session, rootSession, nodeSession>>
      /\ ready[e]
  BY DEF HandleData, DataOld, DataInOrder, DataNotStored, DataStored,
     DataDropped, DataOverflow, DataAhead, DataArrives, NoRxSlot, KeepSession, Installed
<1>2. CASE DataOld(e, p) \/ DataNotStored(e, p)
  <2>1. UNCHANGED <<ready, slots>>
    BY <1>2 DEF DataOld, DataNotStored, DataAhead, DataArrives, KeepSession
  <2>2. \E packets : Ordinary(packets) /\ (net' = net \/ Send(e, packets))
    BY <1>2, OrdinaryPackets DEF DataOld, DataNotStored
  <2>3. QueuedInSession'
    BY <1>1, <2>1, QueuedSteady DEF SessionInv, slots
  <2>4. SessionsBound'
    BY <1>1, <2>1, <2>2, BoundSteady DEF SessionInv
  <2> QED
    BY <2>3, <2>4
<1>3. CASE DataInOrder(e, p)
  <2>1. UNCHANGED <<ready, tx>>
    BY <1>3 DEF DataInOrder, DataArrives, KeepSession
  <2>2. \E left \in SUBSET rx[e] : DeliverFragment(e, f, left)
    <3>1. {g \in rx[e] : g.ch # TIME} \in SUBSET rx[e]
      OBVIOUS
    <3> QED
      BY <1>3, <3>1 DEF DataInOrder
  <2>3. /\ \A o \in Ends : rx'[o] \subseteq rx[o]
        /\ \A o \in Ends \ {e} : reassembly'[o] = reassembly[o]
        /\ \E packets : Ordinary(packets) /\ (net' = net \/ Send(e, packets))
    BY <2>2, DeliverKeeps DEF SessionInv
  <2>4. QueuedInSession'
    BY <1>1, <2>1, <2>3, QueuedSteady DEF SessionInv
  <2>5. SessionsBound'
    BY <1>1, <2>1, <2>3, BoundSteady DEF SessionInv
  <2> QED
    BY <2>4, <2>5
<1>4. CASE DataStored(e, p)
  <2>1. UNCHANGED <<ready, tx, reassembly>>
    BY <1>4 DEF DataStored, DataAhead, DataArrives, KeepSession
  <2>2. \E packets : Ordinary(packets) /\ (net' = net \/ Send(e, packets))
    BY <1>4, OrdinaryPackets DEF DataStored
  <2>3. \A o \in Ends : \A g \in rx'[o] : g \in rx[o] \/ Installed(o, g.rs, g.ns)
    BY <1>1, <1>4 DEF DataStored, SessionInv, TypeOK
  <2>4. QueuedInSession'
    BY <1>1, <2>1, <2>3, QueuedSteady DEF SessionInv
  <2>5. SessionsBound'
    BY <1>1, <2>1, <2>2, BoundSteady DEF SessionInv
  <2> QED
    BY <2>4, <2>5
<1>5. CASE DataDropped(e, p)
  <2>1. UNCHANGED <<ready, tx, rx>>
    BY <1>5 DEF DataDropped
  <2>2. \E packets : Ordinary(packets) /\ (net' = net \/ Send(e, packets))
    BY <1>5, OrdinaryPackets DEF DataDropped
  <2>3. \A o \in Ends : reassembly'[o] \subseteq reassembly[o]
    BY <1>5 DEF DataDropped, SessionInv, TypeOK
  <2>4. QueuedInSession'
    BY <1>1, <2>1, <2>3, QueuedSteady DEF SessionInv
  <2>5. SessionsBound'
    BY <1>1, <2>1, <2>2, BoundSteady DEF SessionInv
  <2> QED
    BY <2>4, <2>5
<1>6. CASE DataOverflow(e, p)
  <2>1. /\ RestartSpaces(e) /\ net' = net
        /\ ready' = [ready EXCEPT ![e] = FALSE]
    BY <1>6 DEF DataOverflow, ClearPeerBuffers
  <2> QED
    BY <1>1, <2>1, SessionUnready
<1> QED
  BY <1>2, <1>3, <1>4, <1>5, <1>6 DEF HandleData

\* A retransmission changes the retries of a slot, not its frame.
LEMMA ResentFrame ==
  ASSUME NEW s \in Slot
  PROVE  Resent(s).f = s.f
  BY DEF Resent, Slot

LEMMA SessionAck ==
  ASSUME SessionInv, NEW e \in Ends, NEW p \in net[e], HandleAck(e, p)
  PROVE  QueuedInSession' /\ SessionsBound'
<1> DEFINE left == tx[e] \ Acked(e, p)
           asked == {s \in left : s.f.ch = p.ch /\ s.f.seq = p.nack}
<1>1. UNCHANGED <<session, ready, rootSession, nodeSession, rx, reassembly>>
  BY DEF HandleAck, KeepSession
<1>2. CASE tx' = [tx EXCEPT ![e] = left] /\ net' = net
  <2>1. \A o \in Ends : tx'[o] \subseteq tx[o]
    BY <1>2 DEF SessionInv, TypeOK
  <2> QED
    BY <1>1, <1>2, <2>1, QueuedSteady, BoundSteady, OrdinaryPackets DEF SessionInv
<1>3. CASE \E s \in asked : /\ tx' = [tx EXCEPT ![e] = (left \ {s}) \cup {Resent(s)}]
                            /\ Send(e, {DataPacket(s.f)})
  <2>1. PICK s \in asked : /\ tx' = [tx EXCEPT ![e] = (left \ {s}) \cup {Resent(s)}]
                           /\ Send(e, {DataPacket(s.f)})
    BY <1>3
  <2>2. s \in tx[e] /\ Resent(s).f = s.f
    BY ResentFrame, SlotFields DEF SessionInv
  <2>3. \A o \in Ends : \A t \in tx'[o] : \E u \in tx[o] : u.f = t.f
    BY <2>1, <2>2 DEF SessionInv, TypeOK
  <2>4. QueuedInSession'
    BY <1>1, <2>3, QueuedSteady DEF SessionInv
  <2>5. SessionsBound'
    BY <1>1, <2>1, BoundSteady, OrdinaryPackets DEF SessionInv
  <2> QED
    BY <2>4, <2>5
<1>4. CASE /\ tx' = [tx EXCEPT ![e] = left]
           /\ Send(e, {LostPacket(e, p.ch, p.nack, p.nack, FALSE)})
  <2>1. \A o \in Ends : tx'[o] \subseteq tx[o]
    BY <1>4 DEF SessionInv, TypeOK
  <2>2. QueuedInSession'
    BY <1>1, <2>1, QueuedSteady DEF SessionInv
  <2>3. SessionsBound'
    BY <1>1, <1>4, BoundSteady, OrdinaryPackets DEF SessionInv
  <2> QED
    BY <2>2, <2>3
<1> QED
  BY <1>2, <1>3, <1>4 DEF HandleAck

LEMMA SessionLost ==
  ASSUME SessionInv, NEW e \in Ends, NEW p \in net[e], HandleLost(e, p)
  PROVE  QueuedInSession' /\ SessionsBound'
<1>1. UNCHANGED <<session, rootSession, nodeSession>> /\ net' = net
  BY DEF HandleLost, LostByReceiver, LostExpected, LostAhead, LostBehind, LostArrives
<1>2. CASE LostAhead(e, p) /\ ClearPeerBuffers(e, {}) /\ ready' = [ready EXCEPT ![e] = FALSE]
  BY <1>1, <1>2, SessionUnready DEF ClearPeerBuffers
<1>3. CASE LostByReceiver(e, p) \/ LostExpected(e, p) \/ LostBehind(e, p)
           \/ (LostAhead(e, p) /\ UNCHANGED <<ready, slots>>)
  <2>1. /\ UNCHANGED <<ready, rx, reassembly>>
        /\ \A o \in Ends : tx'[o] \subseteq tx[o]
    BY <1>3 DEF LostByReceiver, LostExpected, LostBehind, slots, SessionInv, TypeOK
  <2>2. QueuedInSession'
    BY <1>1, <2>1, QueuedSteady DEF SessionInv
  <2>3. SessionsBound'
    BY <1>1, <2>1, BoundSteady, OrdinaryPackets DEF SessionInv
  <2> QED
    BY <2>2, <2>3
<1> QED
  BY <1>2, <1>3 DEF HandleLost, LostAhead

LEMMA SessionPoll ==
  ASSUME SessionInv, NEW e \in Ends,
         PollTx(e) \/ PollFragmentTimeout(e) \/ PollRouteTimeout(e)
  PROVE  QueuedInSession' /\ SessionsBound'
<1>1. CASE PollRetransmit(e)
  <2>1. PICK s \in tx[e] : /\ tx' = [tx EXCEPT ![e] = (@ \ {s}) \cup {Resent(s)}]
                           /\ Send(e, {DataPacket(s.f)})
    BY <1>1 DEF PollRetransmit
  <2>2. UNCHANGED <<session, ready, rootSession, nodeSession, rx, reassembly>>
    BY <1>1 DEF PollRetransmit, link
  <2>3. Resent(s).f = s.f
    BY ResentFrame, SlotFields DEF SessionInv
  <2>4. \A o \in Ends : \A t \in tx'[o] : \E u \in tx[o] : u.f = t.f
    BY <2>1, <2>3 DEF SessionInv, TypeOK
  <2>5. QueuedInSession'
    BY <2>2, <2>4, QueuedSteady DEF SessionInv
  <2>6. SessionsBound'
    BY <2>1, <2>2, BoundSteady, OrdinaryPackets DEF SessionInv
  <2> QED
    BY <2>5, <2>6
<1>2. CASE PollExhausted(e)
  <2>1. PICK s \in tx[e] : Send(e, {LostPacket(e, s.f.ch, s.f.seq, s.f.seq, FALSE)})
    BY <1>2 DEF PollExhausted
  <2>2. /\ RestartSpaces(e) /\ session' = session
        /\ ~ready'[e]
        /\ \A o \in Ends \ {e} : /\ ready'[o] = ready[o]
                                 /\ rootSession'[o] = rootSession[o]
                                 /\ nodeSession'[o] = nodeSession[o]
    BY <1>2 DEF PollExhausted, ClearPeerBuffers, SessionInv, TypeOK
  <2>3. QueuedInSession'
    BY <2>2, QueuedCleared DEF SessionInv
  <2>4. \A o \in Ends :
          net'[o] \subseteq net[o] \cup {LostPacket(e, s.f.ch, s.f.seq, s.f.seq, FALSE)}
    BY <2>1 DEF Send, Peer, SessionInv, TypeOK
  <2>5. SessionsBound'
    BY <2>2, <2>4 DEF LostPacket, SessionInv, SessionsBound
  <2> QED
    BY <2>3, <2>5
<1>3. CASE PollFragmentTimeout(e)
  <2>1. PICK r \in reassembly[e] :
          /\ reassembly' = [reassembly EXCEPT ![e] = @ \ {r}]
          /\ Send(e, {LostPacket(e, r.ch, r.first, LastSeq(r), TRUE)})
    BY <1>3 DEF PollFragmentTimeout
  <2>2. UNCHANGED <<session, ready, rootSession, nodeSession, tx, rx>>
    BY <1>3 DEF PollFragmentTimeout, link
  <2>3. \A o \in Ends : reassembly'[o] \subseteq reassembly[o]
    BY <2>1 DEF SessionInv, TypeOK
  <2>4. QueuedInSession'
    BY <2>2, <2>3, QueuedSteady DEF SessionInv
  <2>5. SessionsBound'
    BY <2>1, <2>2, BoundSteady, OrdinaryPackets DEF SessionInv
  <2> QED
    BY <2>4, <2>5
<1>4. CASE PollRouteTimeout(e)
  BY <1>4, SessionUnready DEF PollRouteTimeout, ClearPeerBuffers
<1> QED
  BY <1>1, <1>2, <1>3, <1>4 DEF PollTx

LEMMA SessionEnvironment ==
  ASSUME SessionInv, Environment
  PROVE  QueuedInSession' /\ SessionsBound'
<1>1. CASE SendHello
  <2> DEFINE h == [type |-> "hello", ns |-> session["node"], seen |-> rootSession["node"]]
  <2>1. UNCHANGED <<link, slots>> /\ Send("node", {h})
    BY <1>1 DEF SendHello
  <2>2. QueuedInSession'
    BY <2>1, QueuedSteady DEF SessionInv, link, slots
  <2>3. net'["root"] = net["root"] \cup {h} /\ net'["node"] = net["node"]
    BY <2>1 DEF Send, Peer, SessionInv, TypeOK
  <2>4. SessionsBound'
    BY <2>1, <2>3 DEF SessionInv, SessionsBound, link
  <2> QED
    BY <2>2, <2>4
<1>2. CASE Supersede
  <2>1. UNCHANGED <<link, rx, reassembly, net>> /\ \A o \in Ends : tx'[o] \subseteq tx[o]
    BY <1>2 DEF Supersede, SessionInv, TypeOK
  <2>2. QueuedInSession'
    BY <2>1, QueuedSteady DEF SessionInv, link
  <2>3. SessionsBound'
    BY <2>1, BoundSteady, OrdinaryPackets DEF SessionInv, link
  <2> QED
    BY <2>2, <2>3
<1>3. CASE RemovePeer
  <2>1. /\ RestartSpaces("root") /\ UNCHANGED <<session, net>>
        /\ ~ready'["root"] /\ ready'["node"] = ready["node"]
        /\ rootSession'["node"] = rootSession["node"]
        /\ nodeSession'["node"] = nodeSession["node"]
    BY <1>3 DEF RemovePeer, SessionInv, TypeOK
  <2>2. QueuedInSession'
    BY <2>1, QueuedCleared DEF SessionInv
  <2>3. SessionsBound'
    BY <2>1 DEF SessionInv, SessionsBound
  <2> QED
    BY <2>2, <2>3
<1>4. ASSUME NEW e \in Ends, PollRouteTimeout(e)
      PROVE  QueuedInSession' /\ SessionsBound'
  BY <1>4, SessionPoll
<1>5. ASSUME NEW e \in Ends, NEW up \in BOOLEAN, PeerRoute(e, up)
      PROVE  QueuedInSession' /\ SessionsBound'
  <2>1. UNCHANGED <<session, ready, rootSession, nodeSession, slots, net>>
    BY <1>5 DEF PeerRoute
  <2>2. QueuedInSession'
    BY <2>1, QueuedSteady DEF SessionInv, slots
  <2>3. SessionsBound'
    BY <2>1, BoundSteady, OrdinaryPackets DEF SessionInv
  <2> QED
    BY <2>2, <2>3
<1>6. ASSUME NEW e \in Ends, Reboot(e)
      PROVE  QueuedInSession' /\ SessionsBound'
  <2>1. /\ RestartSpaces(e) /\ net' = net
        /\ ~ready'[e] /\ session'[e] = session[e] + 1
        /\ \A o \in Ends \ {e} : /\ ready'[o] = ready[o] /\ session'[o] = session[o]
                                 /\ rootSession'[o] = rootSession[o]
                                 /\ nodeSession'[o] = nodeSession[o]
    BY <1>6 DEF Reboot, SessionInv, TypeOK
  <2>2. session'[e] # 0
    <3>1. session[e] \in Nat
      BY DEF SessionInv, TypeOK
    <3> QED
      BY <2>1, <3>1
  <2>3. QueuedInSession'
    BY <2>1, QueuedCleared DEF SessionInv
  <2>4. SessionsBound'
    BY <2>1, <2>2 DEF SessionInv, SessionsBound
  <2> QED
    BY <2>3, <2>4
<1> QED
  BY <1>1, <1>2, <1>3, <1>4, <1>5, <1>6 DEF Environment

LEMMA SessionStep == SessionInv /\ [Next]_vars => QueuedInSession' /\ SessionsBound'
<1> SUFFICES ASSUME SessionInv, [Next]_vars PROVE QueuedInSession' /\ SessionsBound'
  OBVIOUS
<1>1. CASE Environment
  BY <1>1, SessionEnvironment
<1>2. ASSUME NEW e \in Ends, Receive(e) PROVE QueuedInSession' /\ SessionsBound'
  BY <1>2, SessionHello, SessionHelloAck, SessionData, SessionAck, SessionLost DEF Receive
<1>3. ASSUME NEW e \in Ends, Transfer(e) PROVE QueuedInSession' /\ SessionsBound'
  BY <1>2, <1>3, SessionSubmit, SessionConsume, SessionPoll DEF Transfer
<1>4. CASE UNCHANGED vars
  BY <1>4 DEF vars, link, slots, SessionInv, QueuedInSession, SessionsBound, Installed
<1> QED
  BY <1>1, <1>3, <1>4 DEF Next

\* The inductive invariant of the handshake holds in every reachable state, for
\* every window, pool and number of reboots: handle_hello, handle_hello_ack,
\* clear_peer_buffers and the removal of a peer leave no end ready under an id
\* that is not its own, and no frame queued under a binding that has gone.
THEOREM SessionInvAlways == Spec => []SessionInv
<1>1. Init => QueuedInSession /\ SessionsBound
  BY DEF Init, QueuedInSession, SessionsBound
<1>2. TypeOK /\ QueuedInSession /\ SessionsBound /\ [Next]_vars
      => QueuedInSession' /\ SessionsBound'
  BY SessionStep DEF SessionInv
<1>3. TypeOK /\ QueuedInSession /\ SessionsBound => SessionInv
  BY DEF SessionInv
<1> QED
  BY <1>1, <1>2, <1>3, TypeCorrect, PTL DEF Spec

\* Whatever handshakes, reboots, route losses and resets interleave, a queue only
\* holds frames of the session pair its end has installed (handle_hello,
\* handle_hello_ack, clear_peer_buffers): no frame of an earlier boot is sent,
\* resent, delivered or assembled.
THEOREM QueuedInSessionAlways == Spec => []QueuedInSession
<1>1. SessionInv => QueuedInSession
  BY DEF SessionInv
<1> QED
  BY <1>1, SessionInvAlways, PTL

\* A ready end is bound to its own current boot, so that the packets it sends
\* carry an id the other end can only have learnt from it.
THEOREM SessionsBoundAlways == Spec => []SessionsBound
<1>1. SessionInv => SessionsBound
  BY DEF SessionInv
<1> QED
  BY <1>1, SessionInvAlways, PTL

----------------------------------------------------------------------------
(* Sequence numbers of the two ends.  The network keeps every packet, so    *)
(* the invariant speaks of packets of any age: what a packet says of a      *)
(* session pair is true, or an end is done with that pair (Over).  Neither  *)
(* can be undone: a number once assigned or passed stays so until its end   *)
(* leaves the pair, and a pair that was left is tainted or of an old boot.  *)

Own(e, pair) == IF e = "root" THEN pair[1] ELSE pair[2]

\* The session pair of a packet or message, the numbers a message covers.
Ids(x) == <<x.rs, x.ns>>
Covers(m) == m.first .. LastSeq(m)

\* End e will not count in this pair again, or an end restarted its counting.
Over(e, pair) == pair \in tainted \/ Own(e, pair) < session[e]
Holds(e, pair) == ready[e] /\ Pair(e) = pair

\* Number q of channel ch in this pair has been assigned by the sender e; the
\* receiver e has gone past it.
Assigned(e, pair, ch, q) == Over(e, pair) \/ (Holds(e, pair) /\ q < nextSeq[e][ch])
Past(e, pair, ch, q) == Over(e, pair) \/ (Holds(e, pair) /\ q < expected[e][ch])

\* Messages of one channel and pair cover disjoint numbers, and ids are unique.
Numbered ==
  \A e \in Ends :
    /\ \A m \in accepted[e] :
         /\ Assigned(e, Ids(m), m.ch, LastSeq(m))
         /\ m.first # 0 /\ m.rs # 0 /\ m.ns # 0 /\ m.id <= submits[e]
    /\ \A a, b \in accepted[e] :
         /\ a.id = b.id => a = b
         /\ a.ch = b.ch /\ Ids(a) = Ids(b) /\ Sound(a)
            => a = b \/ LastSeq(a) < b.first \/ LastSeq(b) < a.first

\* What a packet sent to end d says is true: a frame is of an accepted message, the
\* numbers it names were assigned, and what it acknowledges has been passed.
Genuine(e, f) == MessageOf(f) \in accepted[e] /\ f.seq \in Covers(f)
Fits(d, p) ==
  /\ p.type = "data" => Genuine(Peer(d), p.f)
  /\ p.type = "lost" /\ ~p.drop => Assigned(Peer(d), Ids(p), p.ch, p.last)
  /\ p.type = "ack" =>
       /\ p.nack # 0 => Assigned(d, Ids(p), p.ch, p.nack)
       /\ \A q \in p.sack : Assigned(d, Ids(p), p.ch, q)
       /\ Past(Peer(d), Ids(p), p.ch, p.ack)

Authentic ==
  \A e \in Ends :
    /\ \A s \in tx[e] : Genuine(e, s.f)
    /\ \A f \in rx[e] : Genuine(Peer(e), f)
    /\ \A p \in net[e] : Fits(e, p)

\* A receiver expects, or steps over, only what the sender has assigned.
FollowsAt(e) ==
  \A ch \in Channels :
    /\ \/ expected[e][ch] = 1
       \/ ready[e] /\ Assigned(Peer(e), Pair(e), ch, expected[e][ch] - 1)
    /\ \A q \in pendingLost[e][ch] : ready[e] /\ Assigned(Peer(e), Pair(e), ch, q)

\* An end that is not ready is outside the loop, and the pair it still remembers,
\* if any, is tainted.
UnboundAt(e) ==
  ~ready[e] => /\ consuming[e] = None
               /\ rootSession[e] # 0 /\ nodeSession[e] # 0 => Pair(e) \in tainted

Follows == \A e \in Ends : FollowsAt(e)
Unbound == \A e \in Ends : UnboundAt(e)

\* The inductive invariant of EndsAgree.
NumbersInv == SessionInv /\ Numbered /\ Authentic /\ Follows /\ Unbound

----------------------------------------------------------------------------
\* What a step may do to an end: it goes on counting, or its pair is over and it
\* holds nothing.
Steady(e) ==
  /\ session'[e] = session[e] /\ ready'[e] = ready[e] /\ Pair(e)' = Pair(e)
  /\ \A ch \in Channels : /\ nextSeq[e][ch] <= nextSeq'[e][ch]
                          /\ expected[e][ch] <= expected'[e][ch]
Leaves(e) == \A pair \in Nat \X Nat : Holds(e, pair) => Over(e, pair)'
Onward ==
  /\ tainted \subseteq tainted'
  /\ \A e \in Ends : accepted[e] \subseteq accepted'[e]
  /\ \A e \in Ends :
       /\ session[e] <= session'[e]
       /\ \/ Steady(e)
          \/ Leaves(e) /\ tx'[e] = {} /\ rx'[e] = {} /\ reassembly'[e] = {}

LEMMA Peers ==
  /\ \A e \in Ends : Peer(Peer(e)) = e /\ Peer(e) # e /\ Peer(e) \in Ends
  /\ \A e, o \in Ends : o = e \/ o = Peer(e)
  BY DEF Peer

LEMMA OwnType ==
  ASSUME NEW e \in Ends, NEW pair \in Nat \X Nat
  PROVE  Own(e, pair) \in Nat
  BY DEF Own

LEMMA IdsType ==
  /\ \A m \in Message : Ids(m) \in Nat \X Nat
  /\ \A p \in Ack \cup Lost : Ids(p) \in Nat \X Nat
  BY DEF Ids, Message, Ack, Lost

LEMMA PairType ==
  ASSUME TypeOK, NEW e \in Ends
  PROVE  Pair(e) \in Nat \X Nat
  BY DEF Pair, TypeOK

LEMMA CountTypes ==
  ASSUME TypeOK, NEW e \in Ends, NEW ch \in Channels
  PROVE  nextSeq[e][ch] \in Nat \ {0} /\ expected[e][ch] \in Nat \ {0}
  BY DEF TypeOK

\* The domains that a step's EXCEPT needs, and the types after a step.
LEMMA Domains ==
  ASSUME TypeOK
  PROVE  /\ session \in [Ends -> Nat]
         /\ expected \in [Ends -> [Channels -> Nat \ {0}]]
         /\ nextSeq \in [Ends -> [Channels -> Nat \ {0}]]
         /\ pendingLost \in [Ends -> [Channels -> SUBSET Nat]]
         /\ rx \in [Ends -> SUBSET Frame]
         /\ reassembly \in [Ends -> SUBSET Partial]
         /\ net \in [Ends -> SUBSET Packet]
  BY DEF TypeOK

LEMMA NextTypes ==
  ASSUME TypeOK', NEW e \in Ends, NEW ch \in Channels
  PROVE  expected'[e][ch] \in Nat \ {0} /\ pendingLost'[e][ch] \subseteq Nat
  BY DEF TypeOK

LEMMA SameSession ==
  ASSUME TypeOK, NEW e \in Ends, session'[e] = session[e]
  PROVE  session[e] <= session'[e]
<1>1. session[e] \in Nat
  BY DEF TypeOK
<1> QED
  BY <1>1

LEMMA OverKept ==
  ASSUME TypeOK, TypeOK', Onward, NEW e \in Ends, NEW pair \in Nat \X Nat, Over(e, pair)
  PROVE  Over(e, pair)'
<1>1. CASE pair \in tainted
  BY <1>1 DEF Onward, Over
<1>2. CASE Own(e, pair) < session[e]
  <2>1. session[e] \in Nat /\ session'[e] \in Nat /\ Own(e, pair) \in Nat
    BY OwnType DEF TypeOK
  <2>2. session[e] <= session'[e]
    BY DEF Onward
  <2>3. Own(e, pair) < session'[e]
    BY <1>2, <2>1, <2>2
  <2> QED
    BY <2>3 DEF Over, Own
<1> QED
  BY <1>1, <1>2 DEF Over

LEMMA CountsKept ==
  ASSUME TypeOK, TypeOK', Onward, NEW e \in Ends, NEW pair \in Nat \X Nat,
         NEW ch \in Channels, NEW q \in Nat
  PROVE  /\ Assigned(e, pair, ch, q) => Assigned(e, pair, ch, q)'
         /\ Past(e, pair, ch, q) => Past(e, pair, ch, q)'
<1>1. Over(e, pair) => Over(e, pair)'
  BY OverKept
<1>2. /\ nextSeq[e][ch] \in Nat /\ nextSeq'[e][ch] \in Nat
      /\ expected[e][ch] \in Nat /\ expected'[e][ch] \in Nat
  BY DEF TypeOK
<1>3. ASSUME Steady(e)
      PROVE  /\ Holds(e, pair) => Holds(e, pair)'
             /\ q < nextSeq[e][ch] => q < nextSeq'[e][ch]
             /\ q < expected[e][ch] => q < expected'[e][ch]
  <2>1. nextSeq[e][ch] <= nextSeq'[e][ch] /\ expected[e][ch] <= expected'[e][ch]
    BY <1>3 DEF Steady
  <2>2. Holds(e, pair) => Holds(e, pair)'
    BY <1>3 DEF Steady, Holds
  <2> QED
    BY <1>2, <2>1, <2>2
<1>4. ASSUME Leaves(e), Holds(e, pair)
      PROVE  Over(e, pair)'
  BY <1>4 DEF Leaves
<1> QED
  BY <1>1, <1>3, <1>4 DEF Assigned, Past, Onward

LEMMA GenuineKept ==
  ASSUME Onward, NEW e \in Ends, NEW f, Genuine(e, f)
  PROVE  Genuine(e, f)'
  BY DEF Onward, Genuine, MessageOf, Covers, LastSeq

LEMMA FitsKept ==
  ASSUME TypeOK, TypeOK', Onward, NEW d \in Ends, NEW p \in Packet, Fits(d, p)
  PROVE  Fits(d, p)'
<1>1. p.type = "data" => Genuine(Peer(d), p.f)'
  BY Peers, GenuineKept DEF Fits
<1>2. p.type = "lost" /\ ~p.drop => Assigned(Peer(d), Ids(p), p.ch, p.last)'
  <2>1. p.type = "lost" => p \in Lost /\ p.ch \in Channels /\ p.last \in Nat
    BY DEF Packet, Hello, HelloAck, Data, Ack, Lost
  <2> QED
    BY <2>1, Peers, IdsType, CountsKept DEF Fits
<1>3. ASSUME p.type = "ack"
      PROVE  /\ p.nack # 0 => Assigned(d, Ids(p), p.ch, p.nack)'
             /\ \A q \in p.sack : Assigned(d, Ids(p), p.ch, q)'
             /\ Past(Peer(d), Ids(p), p.ch, p.ack)'
  <2>1. /\ p \in Ack /\ p.ch \in Channels /\ p.nack \in Nat /\ p.ack \in Nat
        /\ \A q \in p.sack : q \in Nat
    BY <1>3 DEF Packet, Hello, HelloAck, Data, Ack, Lost
  <2> QED
    BY <1>3, <2>1, Peers, IdsType, CountsKept DEF Fits
<1> QED
  BY <1>1, <1>2, <1>3 DEF Fits

LEMMA MessageFields ==
  ASSUME TypeOK, NEW e \in Ends, NEW m \in accepted[e]
  PROVE  /\ m \in Message /\ m.ch \in Channels /\ m.first \in Nat /\ m.n \in Nat \ {0}
         /\ m.id \in Nat /\ m.rs \in Nat /\ m.ns \in Nat
         /\ LastSeq(m) \in Nat /\ m.first <= LastSeq(m) /\ Ids(m) \in Nat \X Nat
<1>1. m \in Message
  BY DEF TypeOK
<1>2. /\ m.ch \in Channels /\ m.first \in Nat /\ m.n \in Nat \ {0}
      /\ m.id \in Nat /\ m.rs \in Nat /\ m.ns \in Nat
  BY <1>1 DEF Message
<1>3. LastSeq(m) \in Nat /\ m.first <= LastSeq(m)
  BY <1>2 DEF LastSeq
<1> QED
  BY <1>1, <1>2, <1>3, IdsType

LEMMA NumberedKept ==
  ASSUME NumbersInv, TypeOK', Onward, accepted' = accepted,
         \A e \in Ends : submits[e] <= submits'[e]
  PROVE  Numbered'
<1>1. TypeOK /\ Numbered
  BY DEF NumbersInv, SessionInv
<1>2. ASSUME NEW e \in Ends, NEW m \in accepted[e]
      PROVE  Assigned(e, Ids(m), m.ch, LastSeq(m))'
  <2>1. Assigned(e, Ids(m), m.ch, LastSeq(m))
    BY <1>1 DEF Numbered
  <2> QED
    BY <1>1, <2>1, MessageFields, CountsKept
<1>3. \A m : Sound(m)' => Sound(m)
  BY DEF Onward, Sound
<1>4. ASSUME NEW e \in Ends, NEW m \in accepted[e]
      PROVE  m.id <= submits'[e]
  <2>1. m.id \in Nat /\ submits[e] \in Nat /\ submits'[e] \in Nat /\ m.id <= submits[e]
    BY <1>1, MessageFields DEF Numbered, TypeOK
  <2>2. submits[e] <= submits'[e]
    OBVIOUS
  <2> QED
    BY <2>1, <2>2
<1> QED
  BY <1>1, <1>2, <1>3, <1>4 DEF Numbered, Ids, LastSeq

LEMMA SubmitsSame ==
  ASSUME TypeOK, submits' = submits
  PROVE  \A e \in Ends : submits[e] <= submits'[e]
  BY DEF TypeOK

\* Packets from end e are added to the network; what is queued comes from a queue,
\* a packet or a submit.
LEMMA AuthenticKept ==
  ASSUME NumbersInv, TypeOK', Onward, NEW e \in Ends, NEW packets,
         net' = net \/ Send(e, packets),
         \A p \in packets : Fits(Peer(e), p)',
         \A o \in Ends : \A s \in tx'[o] :
           (\E t \in tx[o] : t.f = s.f) \/ Genuine(o, s.f)',
         \A o \in Ends : \A f \in rx'[o] : f \in rx[o] \/ Genuine(Peer(o), f)
  PROVE  Authentic'
<1>1. TypeOK /\ Authentic
  BY DEF NumbersInv, SessionInv
<1>2. ASSUME NEW o \in Ends, NEW s \in tx'[o]
      PROVE  Genuine(o, s.f)'
  BY <1>1, GenuineKept DEF Authentic
<1>3. ASSUME NEW o \in Ends, NEW f \in rx'[o]
      PROVE  Genuine(Peer(o), f)'
  BY <1>1, Peers, GenuineKept DEF Authentic
<1>4. ASSUME NEW o \in Ends, NEW p \in net'[o]
      PROVE  Fits(o, p)'
  <2>1. p \in net[o] \/ (o = Peer(e) /\ p \in packets)
    BY <1>1, Peers, Domains DEF Send
  <2>2. CASE p \in net[o]
    <3>1. p \in Packet /\ Fits(o, p)
      BY <1>1, <2>2 DEF TypeOK, Authentic
    <3> QED
      BY <1>1, <3>1, FitsKept
  <2> QED
    BY <2>1, <2>2
<1> QED
  BY <1>2, <1>3, <1>4 DEF Authentic

\* An end that keeps its binding and moves on only to what was assigned.
LEMMA FollowsKept ==
  ASSUME NumbersInv, TypeOK', Onward, NEW o \in Ends,
         ready'[o] = ready[o], Pair(o)' = Pair(o),
         \A ch \in Channels :
           \/ expected'[o][ch] = expected[o][ch]
           \/ ready[o] /\ Assigned(Peer(o), Pair(o), ch, expected'[o][ch] - 1),
         \A ch \in Channels : \A q \in pendingLost'[o][ch] :
           q \in pendingLost[o][ch] \/ (ready[o] /\ Assigned(Peer(o), Pair(o), ch, q))
  PROVE  FollowsAt(o)'
<1>1. TypeOK /\ FollowsAt(o) /\ Peer(o) \in Ends
  BY Peers DEF NumbersInv, SessionInv, Follows
<1>2. PICK pair \in Nat \X Nat : pair = Pair(o) /\ pair = Pair(o)'
  BY <1>1, PairType
<1>3. ASSUME NEW ch \in Channels
      PROVE  (\/ expected[o][ch] = 1
              \/ ready[o] /\ Assigned(Peer(o), pair, ch, expected[o][ch] - 1))'
  <2>1. expected'[o][ch] \in Nat \ {0}
    BY NextTypes
  <2>2. PICK x \in Nat : x = expected'[o][ch] - 1
    BY <2>1
  <2>3. expected'[o][ch] = 1 \/ (ready[o] /\ Assigned(Peer(o), pair, ch, x))
    BY <1>1, <1>2, <2>2 DEF FollowsAt
  <2>4. expected'[o][ch] = 1 \/ (ready'[o] /\ Assigned(Peer(o), pair, ch, x)')
    BY <1>1, <2>2, <2>3, CountsKept
  <2> QED
    BY <2>2, <2>4
<1>4. ASSUME NEW ch \in Channels, NEW q \in pendingLost'[o][ch]
      PROVE  ready'[o] /\ Assigned(Peer(o), pair, ch, q)'
  <2>1. q \in Nat
    BY NextTypes
  <2>2. ready[o] /\ Assigned(Peer(o), pair, ch, q)
    BY <1>1, <1>2 DEF FollowsAt
  <2> QED
    BY <1>1, <2>1, <2>2, CountsKept
<1> QED
  BY <1>2, <1>3, <1>4 DEF FollowsAt

LEMMA FollowsFresh ==
  ASSUME NEW o \in Ends, expected'[o] = Ones, pendingLost'[o] = Empty
  PROVE  FollowsAt(o)'
  BY DEF FollowsAt, Ones, Empty

\* The numbers are kept in order.
NumbersKept == Onward /\ Numbered' /\ Authentic' /\ Follows' /\ Unbound'

\* A step that changes no binding and no count of a sender.
LEMMA PlainStep ==
  ASSUME NumbersInv, TypeOK', NEW e \in Ends, NEW packets,
         UNCHANGED <<session, ready, rootSession, nodeSession, nextSeq, submits,
                     accepted, tainted>>,
         net' = net \/ Send(e, packets),
         \A p \in packets : p \in Packet /\ Fits(Peer(e), p),
         \A o \in Ends : \A s \in tx'[o] : \E t \in tx[o] : t.f = s.f,
         \A o \in Ends : \A f \in rx'[o] : f \in rx[o] \/ Genuine(Peer(o), f),
         \A o \in Ends, ch \in Channels :
           \/ expected'[o][ch] = expected[o][ch]
           \/ /\ expected[o][ch] <= expected'[o][ch]
              /\ ready[o] /\ Assigned(Peer(o), Pair(o), ch, expected'[o][ch] - 1),
         \A o \in Ends, ch \in Channels : \A q \in pendingLost'[o][ch] :
           q \in pendingLost[o][ch] \/ (ready[o] /\ Assigned(Peer(o), Pair(o), ch, q)),
         \A o \in Ends : consuming'[o] # None => consuming[o] # None \/ ready[o]
  PROVE  NumbersKept
<1>1. TypeOK /\ Unbound
  BY DEF NumbersInv, SessionInv
<1>2. Onward
  <2>1. \A o \in Ends : session[o] \in Nat
    BY <1>1 DEF TypeOK
  <2>2. \A o \in Ends : session[o] <= session[o]
    BY <2>1
  <2>3. ASSUME NEW o \in Ends, NEW ch \in Channels
        PROVE  nextSeq[o][ch] <= nextSeq'[o][ch] /\ expected[o][ch] <= expected'[o][ch]
    <3>1. nextSeq[o][ch] \in Nat /\ expected[o][ch] \in Nat
      BY <1>1 DEF TypeOK
    <3>2. \/ expected'[o][ch] = expected[o][ch]
          \/ expected[o][ch] <= expected'[o][ch]
      OBVIOUS
    <3> QED
      BY <3>1, <3>2
  <2>4. \A o \in Ends : Steady(o)
    BY <2>3 DEF Steady, Pair
  <2> QED
    BY <2>2, <2>4 DEF Onward
<1>3. Numbered'
  BY <1>1, <1>2, SubmitsSame, NumberedKept
<1>4. Authentic'
  <2>1. \A p \in packets : Fits(Peer(e), p)'
    BY <1>1, <1>2, Peers, FitsKept
  <2> QED
    BY <1>2, <2>1, AuthenticKept
<1>5. Follows'
  <2>1. ASSUME NEW o \in Ends PROVE FollowsAt(o)'
    <3>1. ready'[o] = ready[o] /\ Pair(o)' = Pair(o)
      BY DEF Pair
    <3>2. \A ch \in Channels :
           \/ expected'[o][ch] = expected[o][ch]
           \/ ready[o] /\ Assigned(Peer(o), Pair(o), ch, expected'[o][ch] - 1)
      OBVIOUS
    <3> QED
      BY <1>2, <3>1, <3>2, FollowsKept
  <2> QED
    BY <2>1 DEF Follows
<1>6. Unbound'
  BY <1>1 DEF Unbound, UnboundAt, Pair
<1> QED
  BY <1>2, <1>3, <1>4, <1>5, <1>6 DEF NumbersKept

\* The same for a step that sends nothing.
LEMMA QuietStep ==
  ASSUME NumbersInv, TypeOK', net' = net,
         UNCHANGED <<session, ready, rootSession, nodeSession, nextSeq, submits,
                     accepted, tainted>>,
         \A o \in Ends : \A s \in tx'[o] : \E t \in tx[o] : t.f = s.f,
         \A o \in Ends : \A f \in rx'[o] : f \in rx[o] \/ Genuine(Peer(o), f),
         \A o \in Ends, ch \in Channels :
           \/ expected'[o][ch] = expected[o][ch]
           \/ /\ expected[o][ch] <= expected'[o][ch]
              /\ ready[o] /\ Assigned(Peer(o), Pair(o), ch, expected'[o][ch] - 1),
         \A o \in Ends, ch \in Channels : \A q \in pendingLost'[o][ch] :
           q \in pendingLost[o][ch] \/ (ready[o] /\ Assigned(Peer(o), Pair(o), ch, q)),
         \A o \in Ends : consuming'[o] # None => consuming[o] # None \/ ready[o]
  PROVE  NumbersKept
<1> DEFINE nothing == {}
<1>1. \A p \in nothing : p \in Packet /\ Fits(Peer("root"), p)
  OBVIOUS
<1>2. "root" \in Ends
  OBVIOUS
<1> HIDE DEF nothing
<1> QED
  BY <1>1, <1>2, PlainStep

----------------------------------------------------------------------------
\* Packets that say the truth.
LEMMA AssignedBelow ==
  ASSUME TypeOK, NEW e \in Ends, NEW pair, NEW ch \in Channels, NEW q \in Nat,
         NEW r \in Nat, r <= q, Assigned(e, pair, ch, q)
  PROVE  Assigned(e, pair, ch, r)
<1>1. nextSeq[e][ch] \in Nat
  BY DEF TypeOK
<1>2. q < nextSeq[e][ch] => r < nextSeq[e][ch]
  BY <1>1
<1> QED
  BY <1>2 DEF Assigned

LEMMA GenuineFrame ==
  ASSUME NumbersInv, NEW e \in Ends, NEW f \in Frame, Genuine(e, f)
  PROVE  /\ f.ch \in Channels /\ f.seq \in Nat /\ LastSeq(f) \in Nat /\ f.first \in Nat
         /\ f.first <= f.seq /\ f.seq <= LastSeq(f)
         /\ \A q \in Nat : q <= LastSeq(f) => Assigned(e, Ids(f), f.ch, q)
<1>1. f.ch \in Channels /\ f.seq \in Nat /\ f.first \in Nat /\ f.n \in Nat \ {0}
  BY DEF Frame
<1>2. LastSeq(f) \in Nat
  BY <1>1 DEF LastSeq
<1>3. f.first <= f.seq /\ f.seq <= LastSeq(f)
  BY <1>1, <1>2 DEF Genuine, Covers
<1> DEFINE m == MessageOf(f)
<1>4. m.ch = f.ch /\ Ids(m) = Ids(f) /\ LastSeq(m) = LastSeq(f)
  BY DEF MessageOf, Ids, LastSeq
<1>5. Assigned(e, Ids(m), m.ch, LastSeq(m))
  BY DEF NumbersInv, Numbered, Genuine
<1>6. TypeOK
  BY DEF NumbersInv, SessionInv
<1>7. Assigned(e, Ids(f), f.ch, LastSeq(f))
  BY <1>4, <1>5
<1> QED
  BY <1>1, <1>2, <1>3, <1>6, <1>7, AssignedBelow

LEMMA DataFits ==
  ASSUME NumbersInv, NEW e \in Ends, NEW s \in tx[e]
  PROVE  DataPacket(s.f) \in Packet /\ Fits(Peer(e), DataPacket(s.f))
<1>1. s.f \in Frame /\ Genuine(e, s.f)
  BY SlotFields DEF NumbersInv, SessionInv, Authentic
<1> QED
  BY <1>1, Peers, DataPacketType DEF Fits, DataPacket

LEMMA LostFits ==
  ASSUME NumbersInv, NEW e \in Ends, NEW ch \in Channels, NEW first \in Nat,
         NEW last \in Nat, NEW drop \in BOOLEAN,
         drop \/ Assigned(e, Pair(e), ch, last)
  PROVE  /\ LostPacket(e, ch, first, last, drop) \in Packet
         /\ Fits(Peer(e), LostPacket(e, ch, first, last, drop))
<1> DEFINE p == LostPacket(e, ch, first, last, drop)
<1>1. p \in Packet
  BY LostPacketType DEF NumbersInv, SessionInv
<1>2. p.type = "lost" /\ p.drop = drop /\ Ids(p) = Pair(e) /\ p.ch = ch /\ p.last = last
  BY DEF LostPacket, Ids, Pair
<1> HIDE DEF p
<1>3. Fits(Peer(e), p)
  BY <1>2, Peers DEF Fits
<1> QED
  BY <1>1, <1>3 DEF p

LEMMA AckFits ==
  ASSUME NumbersInv, NEW e \in Ends, NEW ch \in Channels, ready[e],
         NEW buffered \in SUBSET Nat, NEW isNack \in BOOLEAN,
         \A q \in buffered : Assigned(Peer(e), Pair(e), ch, q),
         isNack => Assigned(Peer(e), Pair(e), ch, expected[e][ch])
  PROVE  /\ AckPacket(e, ch, expected[e][ch], buffered, isNack) \in Packet
         /\ Fits(Peer(e), AckPacket(e, ch, expected[e][ch], buffered, isNack))
<1> DEFINE p == AckPacket(e, ch, expected[e][ch], buffered, isNack)
<1>1. expected[e][ch] \in Nat \ {0}
  BY ExpectedType DEF NumbersInv, SessionInv
<1>2. p \in Packet
  BY <1>1, AckPacketType DEF NumbersInv, SessionInv
<1>3. /\ p.type = "ack" /\ Ids(p) = Pair(e) /\ p.ch = ch /\ p.ack = expected[e][ch] - 1
      /\ p.sack \subseteq buffered /\ p.nack = IF isNack THEN expected[e][ch] ELSE 0
  BY DEF AckPacket, Ids, Pair, SackBitmap
<1>4. Past(e, Pair(e), ch, expected[e][ch] - 1)
  <2>1. expected[e][ch] - 1 < expected[e][ch]
    BY <1>1
  <2> QED
    BY <2>1 DEF Past, Holds
<1> HIDE DEF p
<1>5. Fits(Peer(e), p)
  BY <1>3, <1>4, Peers DEF Fits
<1> QED
  BY <1>2, <1>5 DEF p

\* What is buffered was assigned.
LEMMA BufferedAssigned ==
  ASSUME NumbersInv, NEW e \in Ends, NEW ch \in Channels, NEW q \in Buffered(e, ch)
  PROVE  Assigned(Peer(e), Pair(e), ch, q)
<1>1. PICK f \in rx[e] : f.ch = ch /\ f.seq = q
  BY DEF Buffered
<1>2. f \in Frame /\ Genuine(Peer(e), f) /\ Ids(f) = Pair(e)
  BY FrameFields DEF NumbersInv, SessionInv, Authentic, QueuedInSession, Installed, Ids, Pair
<1> QED
  BY <1>1, <1>2, Peers, GenuineFrame

\* deliver_fragment() at the expected position, or ahead of it.
LEMMA DeliverNumbers ==
  ASSUME NumbersInv, TypeOK', NEW e \in Ends, NEW f \in Frame, Genuine(Peer(e), f),
         Installed(e, f.rs, f.ns), expected[e][f.ch] <= f.seq,
         NEW rxLeft \in SUBSET rx[e], DeliverFragment(e, f, rxLeft)
  PROVE  /\ \A o \in Ends : rx'[o] \subseteq rx[o]
         /\ \A o \in Ends, ch \in Channels :
              \/ expected'[o][ch] = expected[o][ch]
              \/ /\ expected[o][ch] <= expected'[o][ch]
                 /\ ready[o] /\ Assigned(Peer(o), Pair(o), ch, expected'[o][ch] - 1)
         /\ \E packets : /\ net' = net \/ Send(e, packets)
                         /\ \A p \in packets : p \in Packet /\ Fits(Peer(e), p)
<1>1. TypeOK /\ ready[e] /\ Ids(f) = Pair(e)
  BY DEF NumbersInv, SessionInv, Installed, Ids, Pair
<1>2. /\ f.ch \in Channels /\ f.seq \in Nat /\ LastSeq(f) \in Nat /\ f.first \in Nat
      /\ f.first <= f.seq /\ f.seq <= LastSeq(f)
      /\ \A q \in Nat : q <= LastSeq(f) => Assigned(Peer(e), Ids(f), f.ch, q)
  BY Peers, GenuineFrame
<1>3. \A o \in Ends : rx'[o] \subseteq rx[o]
  BY <1>1, DeliverKeeps
<1>4. PICK last \in Nat : /\ f.seq <= last /\ last <= LastSeq(f)
                          /\ expected' = [expected EXCEPT ![e][f.ch] = last + 1]
  <2>1. CASE DeliverWhole(e, f, rxLeft) \/ DeliverPart(e, f, rxLeft)
    BY <1>2, <2>1 DEF DeliverWhole, DeliverPart
  <2>2. CASE DeliverNoSlot(e, f, rxLeft)
    <3>1. /\ expected' = [expected EXCEPT ![e][f.ch] = LastSeq(f) + 1]
          /\ LastSeq(f) <= LastSeq(f)
      BY <1>2, <2>2 DEF DeliverNoSlot
    <3> QED
      BY <1>2, <3>1
  <2> QED
    BY <2>1, <2>2 DEF DeliverFragment
<1>5. ASSUME NEW o \in Ends, NEW ch \in Channels
      PROVE  \/ expected'[o][ch] = expected[o][ch]
             \/ /\ expected[o][ch] <= expected'[o][ch]
                /\ ready[o] /\ Assigned(Peer(o), Pair(o), ch, expected'[o][ch] - 1)
  <2>1. CASE o = e /\ ch = f.ch
    <3>1. expected'[e][f.ch] = last + 1
      BY <1>1, <1>2, <1>4 DEF TypeOK
    <3>2. expected[e][f.ch] \in Nat
      BY <1>1, <1>2, ExpectedType
    <3>3. expected[e][f.ch] <= last + 1 /\ (last + 1) - 1 = last
      BY <1>2, <1>4, <3>2
    <3>4. Assigned(Peer(e), Pair(e), f.ch, last)
      BY <1>1, <1>2, <1>4
    <3> QED
      BY <1>1, <2>1, <3>1, <3>3, <3>4
  <2>2. CASE ~(o = e /\ ch = f.ch)
    BY <1>1, <1>4, <2>2 DEF TypeOK
  <2> QED
    BY <2>1, <2>2
<1>6. \E packets : /\ net' = net \/ Send(e, packets)
                   /\ \A p \in packets : p \in Packet /\ Fits(Peer(e), p)
  <2>1. CASE net' = net
    <3> WITNESS {}
    <3> QED
      BY <2>1
  <2>2. CASE DeliverNoSlot(e, f, rxLeft)
    <3> DEFINE p == LostPacket(e, f.ch, f.first, LastSeq(f), TRUE)
    <3>1. p \in Packet /\ Fits(Peer(e), p)
      BY <1>2, LostFits
    <3> HIDE DEF p
    <3>2. Send(e, {p})
      BY <2>2 DEF DeliverNoSlot, p
    <3> QED
      BY <3>1, <3>2
  <2> QED
    BY <2>1, <2>2 DEF DeliverFragment, DeliverWhole, DeliverPart
<1> QED
  BY <1>3, <1>5, <1>6

----------------------------------------------------------------------------
(* The steps. *)

LEMMA NumbersConsume ==
  ASSUME NumbersInv, TypeOK', NEW e \in Ends, Consume(e)
  PROVE  NumbersKept
<1> DEFINE ch == consuming[e]
           at == expected[e][ch]
<1>1. TypeOK /\ ready[e] /\ ch \in Channels /\ at \in Nat \ {0}
  <2>1. TypeOK /\ ~Idle(e)
    BY DEF NumbersInv, SessionInv, Consume, SkipLost, ConsumeRx, ConsumeDone
  <2>2. ch \in Channels
    BY <2>1 DEF Idle, TypeOK
  <2>3. ready[e]
    BY <2>1 DEF Idle, NumbersInv, Unbound, UnboundAt
  <2> QED
    BY <2>1, <2>2, <2>3, ExpectedType
<1>2. /\ UNCHANGED <<session, ready, rootSession, nodeSession, nextSeq, submits,
                     accepted, tainted, tx>>
      /\ \A o \in Ends : consuming'[o] # None => consuming[o] # None \/ ready[o]
  BY <1>1 DEF Consume, SkipLost, ConsumeRx, ConsumeDone, link, seqs, slots, loop, hist,
     EnterLoop, TypeOK
<1>3. \A o \in Ends : \A s \in tx'[o] : \E t \in tx[o] : t.f = s.f
  BY <1>2
<1>4. CASE SkipLost(e)
  <2> DEFINE gone == pendingLost[e][ch]
  <2>1. PICK last \in gone :
          /\ at <= last
          /\ expected' = [expected EXCEPT ![e][ch] = last + 1]
          /\ pendingLost' = [pendingLost EXCEPT ![e][ch] =
               {q \in gone : ~(q .. at \subseteq gone /\ q <= last)}]
    BY <1>4 DEF SkipLost
  <2>2. last \in Nat /\ Assigned(Peer(e), Pair(e), ch, last)
    BY <1>1 DEF TypeOK, NumbersInv, Follows, FollowsAt
  <2>3. ASSUME NEW o \in Ends, NEW c \in Channels
        PROVE  \/ expected'[o][c] = expected[o][c]
               \/ /\ expected[o][c] <= expected'[o][c]
                  /\ ready[o] /\ Assigned(Peer(o), Pair(o), c, expected'[o][c] - 1)
    <3>1. CASE o = e /\ c = ch
      <4>1. expected'[e][ch] = last + 1
        BY <1>1, <2>1 DEF TypeOK
      <4>2. at <= last + 1 /\ (last + 1) - 1 = last
        BY <1>1, <2>1, <2>2
      <4> QED
        BY <1>1, <2>2, <3>1, <4>1, <4>2
    <3>2. CASE ~(o = e /\ c = ch)
      BY <1>1, <2>1, <3>2 DEF TypeOK
    <3> QED
      BY <3>1, <3>2
  <2>4. \A o \in Ends, c \in Channels : pendingLost'[o][c] \subseteq pendingLost[o][c]
    BY <1>1, <2>1 DEF TypeOK
  <2>5. net' = net /\ rx' = rx
    BY <1>4 DEF SkipLost, slots
  <2> QED
    BY <1>2, <1>3, <2>3, <2>4, <2>5, QuietStep
<1>5. CASE ConsumeRx(e)
  <2>1. PICK f \in rx[e] : f.ch = ch /\ f.seq = at /\ DeliverFragment(e, f, rx[e] \ {f})
    BY <1>5 DEF ConsumeRx
  <2>2. f \in Frame /\ Genuine(Peer(e), f) /\ Installed(e, f.rs, f.ns)
    BY FrameFields DEF NumbersInv, SessionInv, Authentic, QueuedInSession
  <2>3. expected[e][f.ch] <= f.seq
    BY <1>1, <2>1
  <2>4. rx[e] \ {f} \in SUBSET rx[e]
    OBVIOUS
  <2>5. /\ \A o \in Ends : rx'[o] \subseteq rx[o]
        /\ \A o \in Ends, c \in Channels :
             \/ expected'[o][c] = expected[o][c]
             \/ /\ expected[o][c] <= expected'[o][c]
                /\ ready[o] /\ Assigned(Peer(o), Pair(o), c, expected'[o][c] - 1)
        /\ \E packets : /\ net' = net \/ Send(e, packets)
                        /\ \A p \in packets : p \in Packet /\ Fits(Peer(e), p)
    BY <2>1, <2>2, <2>3, <2>4, DeliverNumbers
  <2>6. pendingLost' = pendingLost
    BY <1>5 DEF ConsumeRx
  <2> QED
    BY <1>2, <1>3, <2>5, <2>6, PlainStep
<1>6. CASE ConsumeDone(e)
  <2> DEFINE packets == IF ackDue[e] THEN {AckPacket(e, ch, at, Buffered(e, ch), FALSE)}
                        ELSE {}
  <2>1. \A p \in packets : p \in Packet /\ Fits(Peer(e), p)
    BY <1>1, AckFits, BufferedAssigned, BufferedType
  <2>2. Send(e, packets) /\ UNCHANGED <<expected, pendingLost, rx>>
    BY <1>6 DEF ConsumeDone, seqs, slots
  <2> HIDE DEF packets
  <2> QED
    BY <1>2, <1>3, <2>1, <2>2, PlainStep
<1> QED
  BY <1>4, <1>5, <1>6 DEF Consume

LEMMA NumbersData ==
  ASSUME NumbersInv, TypeOK', NEW e \in Ends, NEW p \in net[e],
         HandleData(e, p), ~DataOverflow(e, p)
  PROVE  NumbersKept
<1> DEFINE f == p.f
           at == expected[e][f.ch]
<1>1. /\ p.type = "data" /\ Installed(e, f.rs, f.ns) /\ ready[e]
      /\ UNCHANGED <<session, ready, rootSession, nodeSession, nextSeq, submits,
                     accepted, tainted, tx>>
  BY DEF HandleData, DataOld, DataInOrder, DataNotStored, DataStored,
     DataDropped, DataAhead, DataArrives, NoRxSlot, KeepSession, Installed, seqs, slots, hist
<1>2. TypeOK /\ f \in Frame /\ Genuine(Peer(e), f) /\ Ids(f) = Pair(e)
  BY <1>1, Peers, PacketFields DEF NumbersInv, SessionInv, Authentic, Fits, Installed, Ids, Pair
<1>3. /\ f.ch \in Channels /\ f.seq \in Nat /\ LastSeq(f) \in Nat
      /\ f.first <= f.seq /\ f.seq <= LastSeq(f)
      /\ \A q \in Nat : q <= LastSeq(f) => Assigned(Peer(e), Pair(e), f.ch, q)
  BY <1>2, Peers, GenuineFrame
<1>4. at \in Nat \ {0} /\ Buffered(e, f.ch) \in SUBSET Nat
  BY <1>2, <1>3, ExpectedType, BufferedType
<1>5. \A o \in Ends : \A s \in tx'[o] : \E t \in tx[o] : t.f = s.f
  BY <1>1
<1>6. \A o \in Ends : consuming'[o] # None => consuming[o] # None \/ ready[o]
  BY <1>1, <1>2 DEF HandleData, DataOld, DataInOrder, DataNotStored, DataStored,
     DataDropped, EnterLoop, loop, TypeOK
<1>7. CASE DataOld(e, p)
  <2> DEFINE packets == {AckPacket(e, f.ch, at, Buffered(e, f.ch), FALSE)}
  <2>1. \A x \in packets : x \in Packet /\ Fits(Peer(e), x)
    BY <1>1, <1>3, <1>4, AckFits, BufferedAssigned
  <2>2. Send(e, packets) /\ UNCHANGED <<expected, pendingLost, rx>>
    BY <1>7 DEF DataOld, seqs, slots
  <2> HIDE DEF packets
  <2> QED
    BY <1>1, <1>5, <1>6, <2>1, <2>2, PlainStep
<1>8. CASE DataInOrder(e, p)
  <2> DEFINE left == IF Jumps(e, f) THEN {g \in rx[e] : g.ch # TIME} ELSE rx[e]
  <2>1. DeliverFragment(e, f, left) /\ left \in SUBSET rx[e]
    BY <1>8 DEF DataInOrder
  <2>2. at <= f.seq
    BY <1>3, <1>4, <1>8 DEF DataInOrder, Jumps
  <2> HIDE DEF left
  <2>3. /\ \A o \in Ends : rx'[o] \subseteq rx[o]
        /\ \A o \in Ends, c \in Channels :
             \/ expected'[o][c] = expected[o][c]
             \/ /\ expected[o][c] <= expected'[o][c]
                /\ ready[o] /\ Assigned(Peer(o), Pair(o), c, expected'[o][c] - 1)
        /\ \E packets : /\ net' = net \/ Send(e, packets)
                        /\ \A x \in packets : x \in Packet /\ Fits(Peer(e), x)
    BY <1>1, <1>2, <2>1, <2>2, DeliverNumbers
  <2>4. \A o \in Ends, c \in Channels : pendingLost'[o][c] \subseteq pendingLost[o][c]
    BY <1>2, <1>8 DEF DataInOrder, TypeOK
  <2> QED
    BY <1>1, <1>5, <1>6, <2>3, <2>4, PlainStep
<1>9. CASE DataNotStored(e, p) \/ DataStored(e, p)
  <2>1. PICK buffered \in SUBSET Nat :
          /\ \A q \in buffered : Assigned(Peer(e), Pair(e), f.ch, q)
          /\ Send(e, {AckPacket(e, f.ch, at, buffered, TRUE)})
    <3>1. CASE DataNotStored(e, p)
      BY <1>3, <1>4, <3>1, BufferedAssigned DEF DataNotStored
    <3>2. CASE DataStored(e, p)
      <4> DEFINE b == Buffered(e, f.ch) \cup {f.seq}
      <4>1. b \in SUBSET Nat /\ \A q \in b : Assigned(Peer(e), Pair(e), f.ch, q)
        BY <1>3, <1>4, BufferedAssigned
      <4>2. Send(e, {AckPacket(e, f.ch, at, b, TRUE)})
        BY <3>2 DEF DataStored
      <4> HIDE DEF b
      <4> QED
        BY <4>1, <4>2
    <3> QED
      BY <1>9, <3>1, <3>2
  <2>2. Assigned(Peer(e), Pair(e), f.ch, at)
    <3>1. at <= LastSeq(f)
      BY <1>3, <1>4, <1>9 DEF DataNotStored, DataStored, DataAhead
    <3> QED
      BY <1>3, <1>4, <3>1
  <2> DEFINE packets == {AckPacket(e, f.ch, at, buffered, TRUE)}
  <2>3. \A x \in packets : x \in Packet /\ Fits(Peer(e), x)
    BY <1>1, <1>3, <2>1, <2>2, AckFits
  <2>4. UNCHANGED <<expected, pendingLost>>
    BY <1>9 DEF DataNotStored, DataStored, seqs
  <2>5. \A o \in Ends : \A g \in rx'[o] : g \in rx[o] \/ Genuine(Peer(o), g)
    <3>1. CASE DataNotStored(e, p)
      BY <3>1 DEF DataNotStored, slots
    <3>2. CASE DataStored(e, p)
      BY <1>2, <3>2 DEF DataStored, TypeOK
    <3> QED
      BY <1>9, <3>1, <3>2
  <2>6. Send(e, packets)
    BY <2>1
  <2> HIDE DEF packets
  <2> QED
    BY <1>1, <1>5, <1>6, <2>3, <2>4, <2>5, <2>6, PlainStep
<1>10. CASE DataDropped(e, p)
  <2> DEFINE packets == {LostPacket(e, f.ch, f.seq, f.seq, TRUE)}
  <2>1. \A x \in packets : x \in Packet /\ Fits(Peer(e), x)
    BY <1>3, LostFits
  <2>2. Send(e, packets) /\ UNCHANGED <<expected, rx>>
    BY <1>10 DEF DataDropped
  <2>3. \A o \in Ends, c \in Channels : \A q \in pendingLost'[o][c] :
          q \in pendingLost[o][c] \/ (ready[o] /\ Assigned(Peer(o), Pair(o), c, q))
    <3>1. f.seq .. f.seq = {f.seq}
      BY <1>3
    <3>2. Assigned(Peer(e), Pair(e), f.ch, f.seq)
      BY <1>3
    <3>3. pendingLost' = [pendingLost EXCEPT ![e] =
            [pendingLost[e] EXCEPT ![f.ch] = @ \cup {f.seq}]]
      BY <1>10, <3>1 DEF DataDropped, WithRange
    <3> QED
      BY <1>1, <1>2, <1>3, <3>2, <3>3 DEF TypeOK
  <2> HIDE DEF packets
  <2> QED
    BY <1>1, <1>5, <1>6, <2>1, <2>2, <2>3, PlainStep
<1> QED
  BY <1>7, <1>8, <1>9, <1>10 DEF HandleData

LEMMA NumbersAck ==
  ASSUME NumbersInv, TypeOK', NEW e \in Ends, NEW p \in net[e], HandleAck(e, p)
  PROVE  NumbersKept
<1> DEFINE left == tx[e] \ Acked(e, p)
           asked == {s \in left : s.f.ch = p.ch /\ s.f.seq = p.nack}
<1>1. /\ TypeOK /\ p.type = "ack" /\ p.ch \in Channels /\ p.nack \in Nat
      /\ Installed(e, p.rs, p.ns) /\ Fits(e, p)
  BY PacketFields DEF HandleAck, NumbersInv, SessionInv, Authentic
<1>2. /\ UNCHANGED <<session, ready, rootSession, nodeSession, nextSeq, submits,
                     accepted, tainted, rx, expected, pendingLost>>
      /\ \A o \in Ends : consuming'[o] # None => consuming[o] # None \/ ready[o]
  BY DEF HandleAck, KeepSession, seqs, loop
<1>3. ASSUME tx' = [tx EXCEPT ![e] = left]
      PROVE  \A o \in Ends : \A s \in tx'[o] : \E t \in tx[o] : t.f = s.f
  BY <1>1, <1>3 DEF TypeOK
<1>4. CASE tx' = [tx EXCEPT ![e] = left] /\ net' = net
  BY <1>2, <1>3, <1>4, QuietStep
<1>5. CASE \E s \in asked : /\ tx' = [tx EXCEPT ![e] = (left \ {s}) \cup {Resent(s)}]
                            /\ Send(e, {DataPacket(s.f)})
  <2>1. PICK s \in asked : /\ tx' = [tx EXCEPT ![e] = (left \ {s}) \cup {Resent(s)}]
                           /\ Send(e, {DataPacket(s.f)})
    BY <1>5
  <2>2. s \in tx[e] /\ Resent(s).f = s.f
    BY <1>1, ResentFrame, SlotFields
  <2>3. \A o \in Ends : \A t \in tx'[o] : \E u \in tx[o] : u.f = t.f
    BY <1>1, <2>1, <2>2 DEF TypeOK
  <2> DEFINE packets == {DataPacket(s.f)}
  <2>4. \A x \in packets : x \in Packet /\ Fits(Peer(e), x)
    BY <2>2, DataFits
  <2>5. Send(e, packets)
    BY <2>1
  <2> HIDE DEF packets
  <2> QED
    BY <1>2, <2>3, <2>4, <2>5, PlainStep
<1>6. CASE /\ tx' = [tx EXCEPT ![e] = left] /\ p.nack # 0
           /\ Send(e, {LostPacket(e, p.ch, p.nack, p.nack, FALSE)})
  <2> DEFINE packets == {LostPacket(e, p.ch, p.nack, p.nack, FALSE)}
  <2>1. Assigned(e, Pair(e), p.ch, p.nack)
    BY <1>1, <1>6 DEF Fits, Installed, Ids, Pair
  <2>2. \A x \in packets : x \in Packet /\ Fits(Peer(e), x)
    BY <1>1, <2>1, LostFits
  <2>3. Send(e, packets)
    BY <1>6
  <2> HIDE DEF packets
  <2> QED
    BY <1>2, <1>3, <1>6, <2>2, <2>3, PlainStep
<1> QED
  BY <1>4, <1>5, <1>6 DEF HandleAck

LEMMA NumbersLost ==
  ASSUME NumbersInv, TypeOK', NEW e \in Ends, NEW p \in net[e], HandleLost(e, p), ready' = ready
  PROVE  NumbersKept
<1>1. LostArrives(e, p)
  BY DEF HandleLost, LostByReceiver, LostExpected, LostAhead, LostBehind
<1>2. /\ TypeOK /\ p.type = "lost" /\ p.ch \in Channels /\ p.first \in Nat /\ p.last \in Nat
      /\ ready[e] /\ Fits(e, p) /\ Ids(p) = Pair(e)
  BY <1>1, PacketFields
     DEF LostArrives, Installed, NumbersInv, SessionInv, Authentic, Ids, Pair
<1>3. /\ UNCHANGED <<session, ready, rootSession, nodeSession, net, submits, accepted>>
      /\ \A o \in Ends : consuming'[o] # None => consuming[o] # None \/ ready[o]
  BY <1>1, <1>2 DEF HandleLost, LostByReceiver, LostExpected, LostAhead, LostBehind,
     LostArrives, EnterLoop, loop, TypeOK
<1>4. ASSUME ~p.drop, NEW q \in Nat, q <= p.last
      PROVE  Assigned(Peer(e), Pair(e), p.ch, q)
  <2>1. Assigned(Peer(e), Pair(e), p.ch, p.last)
    BY <1>2, <1>4 DEF Fits
  <2> QED
    BY <1>2, <1>4, <2>1, Peers, AssignedBelow
<1>5. CASE LostByReceiver(e, p) \/ LostBehind(e, p)
  <2>1. /\ UNCHANGED <<nextSeq, expected, pendingLost, rx, tainted>>
        /\ \A o \in Ends : \A s \in tx'[o] : \E t \in tx[o] : t.f = s.f
    <3>1. CASE LostByReceiver(e, p)
      BY <1>2, <3>1 DEF LostByReceiver, seqs, TypeOK
    <3>2. CASE LostBehind(e, p)
      BY <3>2 DEF LostBehind, seqs, slots
    <3> QED
      BY <1>5, <3>1, <3>2
  <2> QED
    BY <1>3, <2>1, QuietStep
<1>6. CASE LostExpected(e, p)
  <2>1. /\ UNCHANGED <<nextSeq, pendingLost, tx, rx, tainted>> /\ ~p.drop
        /\ expected' = [expected EXCEPT ![e][p.ch] = p.last + 1]
        /\ expected[e][p.ch] \in p.first .. p.last
    BY <1>6 DEF LostExpected, slots
  <2>2. ASSUME NEW o \in Ends, NEW c \in Channels
        PROVE  \/ expected'[o][c] = expected[o][c]
               \/ /\ expected[o][c] <= expected'[o][c]
                  /\ ready[o] /\ Assigned(Peer(o), Pair(o), c, expected'[o][c] - 1)
    <3>1. CASE o = e /\ c = p.ch
      <4>1. expected'[e][p.ch] = p.last + 1
        BY <1>2, <2>1 DEF TypeOK
      <4>2. expected[e][p.ch] <= p.last + 1 /\ (p.last + 1) - 1 = p.last /\ p.last <= p.last
        BY <1>2, <2>1
      <4>3. Assigned(Peer(e), Pair(e), p.ch, p.last)
        BY <1>2, <1>4, <2>1, <4>2
      <4> QED
        BY <1>2, <3>1, <4>1, <4>2, <4>3
    <3>2. CASE ~(o = e /\ c = p.ch)
      BY <1>2, <2>1, <3>2 DEF TypeOK
    <3> QED
      BY <3>1, <3>2
  <2>3. \A o \in Ends : \A s \in tx'[o] : \E t \in tx[o] : t.f = s.f
    BY <2>1
  <2> QED
    BY <1>3, <2>1, <2>2, <2>3, QuietStep
<1>7. CASE LostAhead(e, p)
  <2>1. ~(ready' = [ready EXCEPT ![e] = FALSE])
    BY <1>2 DEF TypeOK
  <2>2. /\ UNCHANGED <<nextSeq, expected, tx, rx, tainted>> /\ ~p.drop
        /\ pendingLost' = [pendingLost EXCEPT ![e] =
             [pendingLost[e] EXCEPT ![p.ch] = @ \cup p.first .. p.last]]
    BY <1>7, <2>1 DEF LostAhead, WithRange, slots
  <2>3. \A q \in p.first .. p.last : ready[e] /\ Assigned(Peer(e), Pair(e), p.ch, q)
    BY <1>2, <1>4, <2>2
  <2> DEFINE range == p.first .. p.last
  <2> HIDE DEF range
  <2>4. \A o \in Ends, c \in Channels : \A q \in pendingLost'[o][c] :
          q \in pendingLost[o][c] \/ (ready[o] /\ Assigned(Peer(o), Pair(o), c, q))
    <3>1. \A q \in range : ready[e] /\ Assigned(Peer(e), Pair(e), p.ch, q)
      BY <2>3 DEF range
    <3>2. pendingLost' = [pendingLost EXCEPT ![e] =
            [pendingLost[e] EXCEPT ![p.ch] = @ \cup range]]
      BY <2>2 DEF range
    <3> QED
      BY <1>2, <3>1, <3>2, Domains
  <2>5. \A o \in Ends : \A s \in tx'[o] : \E t \in tx[o] : t.f = s.f
    BY <2>2
  <2> QED
    BY <1>3, <2>2, <2>4, <2>5, QuietStep
<1> QED
  BY <1>5, <1>6, <1>7 DEF HandleLost

LEMMA NumbersPoll ==
  ASSUME NumbersInv, TypeOK', NEW e \in Ends, PollRetransmit(e) \/ PollFragmentTimeout(e)
  PROVE  NumbersKept
<1>1. TypeOK
  BY DEF NumbersInv, SessionInv
<1>2. /\ UNCHANGED <<session, ready, rootSession, nodeSession, nextSeq, expected,
                     pendingLost, submits, accepted, tainted, rx>>
      /\ \A o \in Ends : consuming'[o] # None => consuming[o] # None \/ ready[o]
  BY DEF PollRetransmit, PollFragmentTimeout, link, seqs, loop, hist
<1>3. CASE PollRetransmit(e)
  <2>1. PICK s \in tx[e] : /\ tx' = [tx EXCEPT ![e] = (@ \ {s}) \cup {Resent(s)}]
                           /\ Send(e, {DataPacket(s.f)})
    BY <1>3 DEF PollRetransmit
  <2>2. Resent(s).f = s.f
    BY <1>1, ResentFrame, SlotFields
  <2>3. \A o \in Ends : \A t \in tx'[o] : \E u \in tx[o] : u.f = t.f
    BY <1>1, <2>1, <2>2 DEF TypeOK
  <2> DEFINE packets == {DataPacket(s.f)}
  <2>4. \A x \in packets : x \in Packet /\ Fits(Peer(e), x)
    BY DataFits
  <2>5. Send(e, packets)
    BY <2>1
  <2> HIDE DEF packets
  <2> QED
    BY <1>2, <2>3, <2>4, <2>5, PlainStep
<1>4. CASE PollFragmentTimeout(e)
  <2>1. PICK r \in reassembly[e] : Send(e, {LostPacket(e, r.ch, r.first, LastSeq(r), TRUE)})
    BY <1>4 DEF PollFragmentTimeout
  <2> DEFINE packets == {LostPacket(e, r.ch, r.first, LastSeq(r), TRUE)}
  <2>2. \A x \in packets : x \in Packet /\ Fits(Peer(e), x)
    BY <1>1, PartialFields, LostFits
  <2>3. Send(e, packets) /\ tx' = tx
    BY <1>4, <2>1 DEF PollFragmentTimeout
  <2> HIDE DEF packets
  <2> QED
    BY <1>2, <2>2, <2>3, PlainStep
<1> QED
  BY <1>3, <1>4

\* A step that empties the queues of an end, restarts its counting, and leaves or
\* taints its pair.
LEMMA ClearedStep ==
  ASSUME NumbersInv, TypeOK', NEW e \in Ends, NEW packets, RestartSpaces(e),
         Leaves(e), session[e] <= session'[e], tainted \subseteq tainted', UnboundAt(e)',
         \A o \in Ends \ {e} : /\ session'[o] = session[o] /\ ready'[o] = ready[o]
                               /\ rootSession'[o] = rootSession[o]
                               /\ nodeSession'[o] = nodeSession[o]
                               /\ consuming'[o] = consuming[o],
         UNCHANGED <<submits, accepted>>,
         net' = net \/ Send(e, packets),
         \A p \in packets : p \in Packet /\ Fits(Peer(e), p)
  PROVE  NumbersKept
<1>1. TypeOK
  BY DEF NumbersInv, SessionInv
<1>2. /\ tx'[e] = {} /\ rx'[e] = {} /\ reassembly'[e] = {}
      /\ expected'[e] = Ones /\ pendingLost'[e] = Empty
      /\ \A o \in Ends \ {e} :
           /\ tx'[o] = tx[o] /\ rx'[o] = rx[o] /\ nextSeq'[o] = nextSeq[o]
           /\ expected'[o] = expected[o] /\ pendingLost'[o] = pendingLost[o]
  BY <1>1 DEF RestartSpaces, TypeOK
<1>3. \A o \in Ends \ {e} : ready'[o] = ready[o] /\ Pair(o)' = Pair(o)
  BY DEF Pair
<1>4. Onward
  <2>1. \A o \in Ends \ {e} : session[o] <= session'[o]
    BY <1>1, SameSession
  <2>2. ASSUME NEW o \in Ends \ {e}, NEW ch \in Channels
        PROVE  nextSeq[o][ch] <= nextSeq'[o][ch] /\ expected[o][ch] <= expected'[o][ch]
    <3>1. nextSeq[o][ch] \in Nat /\ expected[o][ch] \in Nat
      BY <1>1, CountTypes
    <3> QED
      BY <1>2, <3>1
  <2>3. \A o \in Ends \ {e} : Steady(o)
    BY <1>3, <2>2 DEF Steady
  <2> QED
    BY <1>2, <2>1, <2>3 DEF Onward
<1>5. Numbered'
  BY <1>1, <1>4, SubmitsSame, NumberedKept
<1>6. Authentic'
  <2>1. \A p \in packets : Fits(Peer(e), p)'
    BY <1>1, <1>4, Peers, FitsKept
  <2>2. /\ \A o \in Ends : \A s \in tx'[o] : \E t \in tx[o] : t.f = s.f
        /\ \A o \in Ends : \A f \in rx'[o] : f \in rx[o]
    BY <1>2
  <2> QED
    BY <1>4, <2>1, <2>2, AuthenticKept
<1>7. Follows'
  <2>1. FollowsAt(e)'
    BY <1>2, FollowsFresh
  <2>2. ASSUME NEW o \in Ends \ {e} PROVE FollowsAt(o)'
    BY <1>2, <1>3, <1>4, FollowsKept
  <2> QED
    BY <2>1, <2>2 DEF Follows
<1>8. Unbound'
  <2>1. ASSUME NEW o \in Ends \ {e} PROVE UnboundAt(o)'
    BY <1>3 DEF NumbersInv, Unbound, UnboundAt
  <2> QED
    BY <2>1 DEF Unbound
<1> QED
  BY <1>4, <1>5, <1>6, <1>7, <1>8 DEF NumbersKept

LEMMA TaintLeaves ==
  ASSUME SessionInv, NEW e \in Ends, Taint(e)
  PROVE  /\ tainted \subseteq tainted' /\ Leaves(e)
         /\ rootSession[e] # 0 /\ nodeSession[e] # 0 => Pair(e) \in tainted'
<1>1. rootSession[e] # 0 /\ nodeSession[e] # 0 => Pair(e) \in tainted'
  BY DEF Taint, Pair
<1>2. ready[e] => rootSession[e] # 0 /\ nodeSession[e] # 0
  BY DEF SessionInv, SessionsBound
<1>3. Leaves(e)
  BY <1>1, <1>2 DEF Leaves, Holds, Over
<1> QED
  BY <1>1, <1>3 DEF Taint

\* An end gives up its peer: it keeps the ids and is not ready any more.
LEMMA UnreadyStep ==
  ASSUME NumbersInv, TypeOK', NEW e \in Ends, NEW alsoLost, Idle(e),
         ClearPeerBuffers(e, alsoLost), ready' = [ready EXCEPT ![e] = FALSE],
         UNCHANGED <<session, rootSession, nodeSession, loop, net, submits, accepted>>
  PROVE  NumbersKept
<1>1. SessionInv /\ TypeOK
  BY DEF NumbersInv, SessionInv
<1>2. RestartSpaces(e) /\ Taint(e)
  BY DEF ClearPeerBuffers
<1>3. session[e] <= session'[e]
  <2>1. session[e] \in Nat /\ session' = session
    BY <1>1 DEF TypeOK
  <2> QED
    BY <2>1
<1>4. Pair(e)' = Pair(e)
  BY DEF Pair
<1>5. UnboundAt(e)'
  BY <1>1, <1>2, <1>4, TaintLeaves DEF UnboundAt, Idle, loop
<1>6. \A o \in Ends \ {e} : /\ session'[o] = session[o] /\ ready'[o] = ready[o]
                            /\ rootSession'[o] = rootSession[o]
                            /\ nodeSession'[o] = nodeSession[o]
                            /\ consuming'[o] = consuming[o]
  BY <1>1 DEF loop, TypeOK
<1> DEFINE nothing == {}
<1>7. \A p \in nothing : p \in Packet /\ Fits(Peer(e), p)
  OBVIOUS
<1> HIDE DEF nothing
<1> QED
  BY <1>1, <1>2, <1>3, <1>5, <1>6, <1>7, TaintLeaves, ClearedStep

LEMMA NumbersGivenUp ==
  ASSUME NumbersInv, TypeOK', NEW e \in Ends,
         \/ \E p \in net[e] : DataOverflow(e, p)
         \/ \E p \in net[e] : LostAhead(e, p) /\ ready' # ready
         \/ PollRouteTimeout(e)
  PROVE  NumbersKept
<1>1. CASE \E p \in net[e] : DataOverflow(e, p)
  BY <1>1, UnreadyStep DEF DataOverflow, NoRxSlot
<1>2. CASE \E p \in net[e] : LostAhead(e, p) /\ ready' # ready
  BY <1>2, UnreadyStep DEF LostAhead, LostArrives
<1>3. CASE PollRouteTimeout(e)
  BY <1>3, UnreadyStep DEF PollRouteTimeout
<1> QED
  BY <1>1, <1>2, <1>3

LEMMA NumbersExhausted ==
  ASSUME NumbersInv, TypeOK', NEW e \in Ends, PollExhausted(e)
  PROVE  NumbersKept
<1>1. SessionInv /\ TypeOK
  BY DEF NumbersInv, SessionInv
<1>2. PICK s \in tx[e] : Send(e, {LostPacket(e, s.f.ch, s.f.seq, s.f.seq, FALSE)})
  BY DEF PollExhausted
<1> DEFINE packets == {LostPacket(e, s.f.ch, s.f.seq, s.f.seq, FALSE)}
<1>3. /\ RestartSpaces(e) /\ Taint(e) /\ Idle(e)
      /\ UNCHANGED <<session, loop, submits, accepted>>
      /\ ready' = [ready EXCEPT ![e] = FALSE]
      /\ rootSession' = IF e = "node" THEN [rootSession EXCEPT ![e] = 0] ELSE rootSession
      /\ nodeSession' = IF e = "root" THEN [nodeSession EXCEPT ![e] = 0] ELSE nodeSession
  BY DEF PollExhausted, ClearPeerBuffers
<1>4. session[e] <= session'[e]
  BY <1>1, <1>3 DEF TypeOK
<1>5. rootSession'[e] = 0 \/ nodeSession'[e] = 0
  BY <1>1, <1>3 DEF TypeOK
<1>6. UnboundAt(e)'
  BY <1>1, <1>3, <1>5 DEF UnboundAt, Idle, loop
<1>7. \A o \in Ends \ {e} : /\ session'[o] = session[o] /\ ready'[o] = ready[o]
                            /\ rootSession'[o] = rootSession[o]
                            /\ nodeSession'[o] = nodeSession[o]
                            /\ consuming'[o] = consuming[o]
  BY <1>1, <1>3 DEF loop, TypeOK
<1>8. \A p \in packets : p \in Packet /\ Fits(Peer(e), p)
  <2>1. /\ s.f \in Frame /\ Genuine(e, s.f) /\ Ids(s.f) = Pair(e)
        /\ s.f.ch \in Channels /\ s.f.seq \in Nat
    BY <1>1, SlotFields DEF NumbersInv, Authentic, SessionInv, QueuedInSession,
       Installed, Ids, Pair
  <2>2. Assigned(e, Pair(e), s.f.ch, s.f.seq)
    BY <2>1, GenuineFrame
  <2> QED
    BY <2>1, <2>2, LostFits
<1>9. Send(e, packets)
  BY <1>2
<1> HIDE DEF packets
<1> QED
  BY <1>1, <1>3, <1>4, <1>6, <1>7, <1>8, <1>9, TaintLeaves, ClearedStep

LEMMA NumbersReboot ==
  ASSUME NumbersInv, TypeOK', NEW e \in Ends, Reboot(e)
  PROVE  NumbersKept
<1>1. SessionInv /\ TypeOK
  BY DEF NumbersInv, SessionInv
<1>2. /\ RestartSpaces(e) /\ net' = net /\ tainted' = tainted
      /\ UNCHANGED <<submits, accepted>>
      /\ rootSession'[e] = 0 /\ consuming'[e] = None /\ session'[e] = session[e] + 1
      /\ \A o \in Ends \ {e} : /\ session'[o] = session[o] /\ ready'[o] = ready[o]
                               /\ rootSession'[o] = rootSession[o]
                               /\ nodeSession'[o] = nodeSession[o]
                               /\ consuming'[o] = consuming[o]
  BY <1>1 DEF Reboot, EnterLoop, hist, TypeOK
<1>3. session[e] < session'[e] /\ session[e] <= session'[e]
  <2>1. session[e] \in Nat
    BY <1>1 DEF TypeOK
  <2> QED
    BY <1>2, <2>1
<1>4. Leaves(e)
  <2>1. ready[e] => Own(e, Pair(e)) = session[e]
    BY <1>1 DEF SessionInv, SessionsBound, Own, Pair
  <2>2. ASSUME NEW pair \in Nat \X Nat, Holds(e, pair)
        PROVE  Over(e, pair)'
    <3>1. Own(e, pair) < session'[e]
      BY <1>3, <2>1, <2>2 DEF Holds
    <3> QED
      BY <3>1 DEF Over, Own
  <2> QED
    BY <2>2 DEF Leaves
<1>5. UnboundAt(e)'
  BY <1>2 DEF UnboundAt
<1> DEFINE nothing == {}
<1>6. \A p \in nothing : p \in Packet /\ Fits(Peer(e), p)
  OBVIOUS
<1> HIDE DEF nothing
<1> QED
  BY <1>2, <1>3, <1>4, <1>5, <1>6, ClearedStep

LEMMA NumbersRemoved ==
  ASSUME NumbersInv, TypeOK', RemovePeer
  PROVE  NumbersKept
<1>1. SessionInv /\ TypeOK /\ "root" \in Ends
  BY DEF NumbersInv, SessionInv
<1>2. /\ RestartSpaces("root") /\ Taint("root") /\ net' = net
      /\ UNCHANGED <<submits, accepted>> /\ consuming["root"] = None
      /\ rootSession'["root"] = 0 /\ consuming' = consuming /\ session' = session
      /\ \A o \in Ends \ {"root"} : /\ ready'[o] = ready[o]
                                    /\ rootSession'[o] = rootSession[o]
                                    /\ nodeSession'[o] = nodeSession[o]
  BY <1>1 DEF RemovePeer, Idle, loop, TypeOK
<1>3. session["root"] <= session'["root"]
  <2>1. session["root"] \in Nat
    BY <1>1 DEF TypeOK
  <2> QED
    BY <1>2, <2>1
<1>4. UnboundAt("root")'
  BY <1>2 DEF UnboundAt
<1> DEFINE nothing == {}
<1>5. \A p \in nothing : p \in Packet /\ Fits(Peer("root"), p)
  OBVIOUS
<1> HIDE DEF nothing
<1> QED
  BY <1>1, <1>2, <1>3, <1>4, <1>5, TaintLeaves, ClearedStep

\* A handshake that keeps the buffers: the binding stays, or the end was not ready.
LEMMA KeptStep ==
  ASSUME NumbersInv, TypeOK', NEW e \in Ends, NEW packets, KeepBuffers, ready'[e],
         ready[e] => Pair(e)' = Pair(e),
         \A o \in Ends \ {e} : /\ ready'[o] = ready[o]
                               /\ rootSession'[o] = rootSession[o]
                               /\ nodeSession'[o] = nodeSession[o],
         UNCHANGED <<session, loop, submits, accepted>>,
         net' = net \/ Send(e, packets),
         \A p \in packets : p \in Packet /\ Fits(Peer(e), p)
  PROVE  NumbersKept
<1>1. TypeOK /\ Unbound /\ FollowsAt(e)
  BY DEF NumbersInv, SessionInv, Follows
<1>2. UNCHANGED <<nextSeq, expected, pendingLost, tx, rx, reassembly, tainted, consuming>>
  BY DEF KeepBuffers, seqs, slots, loop
<1>3. \A o \in Ends \ {e} : ready'[o] = ready[o] /\ Pair(o)' = Pair(o)
  BY DEF Pair
<1>4. Onward
  <2>1. \A o \in Ends : session[o] <= session'[o]
    BY <1>1, SameSession
  <2>2. ASSUME NEW o \in Ends, NEW ch \in Channels
        PROVE  nextSeq[o][ch] <= nextSeq'[o][ch] /\ expected[o][ch] <= expected'[o][ch]
    BY <1>1, <1>2, CountTypes
  <2>3. \A o \in Ends \ {e} : Steady(o)
    BY <1>3, <2>2 DEF Steady
  <2>4. ready[e] => Steady(e)
    BY <1>1, <2>2 DEF Steady, TypeOK
  <2>5. ~ready[e] => Leaves(e) /\ tx'[e] = {} /\ rx'[e] = {} /\ reassembly'[e] = {}
    BY <1>2 DEF Leaves, Holds, NumbersInv, SessionInv, QueuedInSession, Installed
  <2> QED
    BY <1>2, <2>1, <2>3, <2>4, <2>5 DEF Onward
<1>5. Numbered'
  BY <1>1, <1>4, SubmitsSame, NumberedKept
<1>6. Authentic'
  <2>1. \A p \in packets : Fits(Peer(e), p)'
    BY <1>1, <1>4, Peers, FitsKept
  <2> QED
    BY <1>2, <1>4, <2>1, AuthenticKept
<1>7. Follows'
  <2>1. FollowsAt(e)'
    <3>1. CASE ready[e]
      <4>1. ready'[e] = ready[e] /\ Pair(e)' = Pair(e)
        BY <1>1, <3>1 DEF TypeOK
      <4> QED
        BY <1>2, <1>4, <4>1, FollowsKept
    <3>2. CASE ~ready[e]
      BY <1>1, <1>2, <3>2 DEF FollowsAt
    <3> QED
      BY <3>1, <3>2
  <2>2. ASSUME NEW o \in Ends \ {e} PROVE FollowsAt(o)'
    BY <1>2, <1>3, <1>4, FollowsKept
  <2> QED
    BY <2>1, <2>2 DEF Follows
<1>8. Unbound'
  BY <1>1, <1>2, <1>3 DEF Unbound, UnboundAt
<1> QED
  BY <1>4, <1>5, <1>6, <1>7, <1>8 DEF NumbersKept

LEMMA NumbersHello ==
  ASSUME NumbersInv, TypeOK', NEW p \in net["root"], HandleHello(p)
  PROVE  NumbersKept
<1> DEFINE answer == [type |-> "hello_ack", rs |-> session["root"], ns |-> p.ns,
                      reset |-> HelloReset(p)]
           packets == {answer}
<1>1. SessionInv /\ TypeOK /\ "root" \in Ends
  BY DEF NumbersInv, SessionInv
<1>2. /\ UNCHANGED <<session, loop, submits, accepted>>
      /\ ready' = [ready EXCEPT !["root"] = TRUE]
      /\ rootSession' = [rootSession EXCEPT !["root"] = session["root"]]
      /\ nodeSession' = [nodeSession EXCEPT !["root"] = p.ns]
      /\ Send("root", packets)
  BY DEF HandleHello
<1>3. /\ ready'["root"] /\ rootSession'["root"] = session["root"]
      /\ nodeSession'["root"] = p.ns
      /\ \A o \in Ends \ {"root"} : /\ ready'[o] = ready[o]
                                    /\ rootSession'[o] = rootSession[o]
                                    /\ nodeSession'[o] = nodeSession[o]
  BY <1>1, <1>2 DEF TypeOK
<1>4. \A x \in packets : x \in Packet /\ Fits(Peer("root"), x)
  <2>1. p.ns \in Nat /\ session["root"] \in Nat
    BY <1>1, PacketFields DEF HandleHello, TypeOK
  <2>2. HelloReset(p) \in BOOLEAN
    BY DEF HelloReset
  <2>3. answer \in Packet
    BY <2>1, <2>2 DEF Packet, HelloAck
  <2>4. answer.type = "hello_ack"
    OBVIOUS
  <2> HIDE DEF answer
  <2>5. Fits(Peer("root"), answer)
    BY <2>4 DEF Fits
  <2> QED
    BY <2>3, <2>5
<1> HIDE DEF packets
<1>5. CASE ClearPeerBuffers("root", {})
  <2>1. RestartSpaces("root") /\ Taint("root")
    BY <1>5 DEF ClearPeerBuffers
  <2>2. session["root"] <= session'["root"]
    <3>1. session["root"] \in Nat
      BY <1>1 DEF TypeOK
    <3> QED
      BY <1>2, <3>1
  <2>3. UnboundAt("root")'
    BY <1>3 DEF UnboundAt
  <2>4. \A o \in Ends \ {"root"} : session'[o] = session[o] /\ consuming'[o] = consuming[o]
    BY <1>2 DEF loop
  <2> QED
    BY <1>1, <1>2, <1>3, <1>4, <2>1, <2>2, <2>3, <2>4, TaintLeaves, ClearedStep
<1>6. CASE ~HelloReset(p) /\ KeepBuffers
  <2>1. ready["root"] => Pair("root")' = Pair("root")
    BY <1>1, <1>3, <1>6 DEF HelloReset, Pair, SessionInv, SessionsBound
  <2> QED
    BY <1>1, <1>2, <1>3, <1>4, <1>6, <2>1, KeptStep
<1> QED
  BY <1>5, <1>6 DEF HandleHello

LEMMA NumbersHelloAck ==
  ASSUME NumbersInv, TypeOK', NEW p \in net["node"], HandleHelloAck(p)
  PROVE  NumbersKept
<1>1. SessionInv /\ TypeOK /\ "node" \in Ends
  BY DEF NumbersInv, SessionInv
<1>2. /\ UNCHANGED <<session, loop, submits, accepted>> /\ net' = net
      /\ p.ns = session["node"]
      /\ ready' = [ready EXCEPT !["node"] = TRUE]
      /\ rootSession' = [rootSession EXCEPT !["node"] = p.rs]
      /\ nodeSession' = [nodeSession EXCEPT !["node"] = session["node"]]
  BY DEF HandleHelloAck
<1>3. /\ ready'["node"] /\ rootSession'["node"] = p.rs
      /\ nodeSession'["node"] = session["node"]
      /\ \A o \in Ends \ {"node"} : /\ ready'[o] = ready[o]
                                    /\ rootSession'[o] = rootSession[o]
                                    /\ nodeSession'[o] = nodeSession[o]
  BY <1>1, <1>2 DEF TypeOK
<1> DEFINE nothing == {}
<1>4. \A x \in nothing : x \in Packet /\ Fits(Peer("node"), x)
  OBVIOUS
<1> HIDE DEF nothing
<1>5. CASE ClearPeerBuffers("node", {})
  <2>1. RestartSpaces("node") /\ Taint("node")
    BY <1>5 DEF ClearPeerBuffers
  <2>2. session["node"] <= session'["node"]
    <3>1. session["node"] \in Nat
      BY <1>1 DEF TypeOK
    <3> QED
      BY <1>2, <3>1
  <2>3. UnboundAt("node")'
    BY <1>3 DEF UnboundAt
  <2>4. \A o \in Ends \ {"node"} : session'[o] = session[o] /\ consuming'[o] = consuming[o]
    BY <1>2 DEF loop
  <2> QED
    BY <1>1, <1>2, <1>3, <1>4, <2>1, <2>2, <2>3, <2>4, TaintLeaves, ClearedStep
<1>6. CASE ~SessionChanged(p) /\ KeepBuffers
  <2>1. ready["node"] => Pair("node")' = Pair("node")
    BY <1>1, <1>2, <1>3, <1>6 DEF SessionChanged, Pair, SessionInv, SessionsBound
  <2> QED
    BY <1>1, <1>2, <1>3, <1>4, <1>6, <2>1, KeptStep
<1> QED
  BY <1>5, <1>6 DEF HandleHelloAck

\* A submit assigns the next numbers of a channel.
LEMMA SubmitOnward ==
  ASSUME NumbersInv, TypeOK', NEW e \in Ends, NEW c \in Channels, NEW n \in Nat,
         nextSeq' = [nextSeq EXCEPT ![e][c] = @ + n],
         \A o \in Ends : accepted[o] \subseteq accepted'[o],
         UNCHANGED <<session, ready, rootSession, nodeSession, expected, tainted>>
  PROVE  Onward
<1>1. TypeOK
  BY DEF NumbersInv, SessionInv
<1>2. \A o \in Ends : session[o] <= session'[o]
  BY <1>1, SameSession
<1>3. ASSUME NEW o \in Ends, NEW ch \in Channels
      PROVE  nextSeq[o][ch] <= nextSeq'[o][ch] /\ expected[o][ch] <= expected'[o][ch]
  <2>1. nextSeq[o][ch] \in Nat /\ expected[o][ch] \in Nat
    BY <1>1, CountTypes
  <2>2. nextSeq'[o][ch] = nextSeq[o][ch] \/ nextSeq'[o][ch] = nextSeq[o][ch] + n
    BY <1>1 DEF TypeOK
  <2> QED
    BY <2>1, <2>2
<1>4. \A o \in Ends : Steady(o)
  BY <1>3 DEF Steady, Pair
<1> QED
  BY <1>2, <1>4 DEF Onward

\* In a pair that is not over for the end that holds it, numbers assigned lie below
\* next_seq.
LEMMA AssignedHere ==
  ASSUME SessionInv, NEW e \in Ends, ready[e], NEW ch, NEW q,
         Pair(e) \notin tainted, Assigned(e, Pair(e), ch, q)
  PROVE  q < nextSeq[e][ch]
<1>1. Own(e, Pair(e)) = session[e]
  BY DEF SessionInv, SessionsBound, Own, Pair
<1>2. session[e] \in Nat
  BY DEF SessionInv, TypeOK
<1>3. ~(Own(e, Pair(e)) < session[e])
  BY <1>1, <1>2
<1> QED
  BY <1>3 DEF Assigned, Over

LEMMA NumbersSubmit ==
  ASSUME NumbersInv, TypeOK', NEW e \in Ends, Submit(e)
  PROVE  NumbersKept
<1>1. PICK ch \in Channels, n \in Frags, priority \in Priorities :
        SubmitAccept(e, ch, n, priority) \/ SubmitOverflow(e, ch, n, priority)
  BY DEF Submit
<1>2. SessionInv /\ TypeOK /\ Numbered
  BY DEF NumbersInv, SessionInv
<1>3. n \in Nat \ {0} /\ n \in Nat
  BY LinkAssumption
<1>f. PICK first \in Nat \ {0} : first = nextSeq[e][ch]
  BY <1>2, CountTypes
<1>4. PICK last \in Nat : last = (first + n) - 1 /\ last < first + n /\ first <= last
  BY <1>3
<1>5. /\ ready[e] /\ rootSession[e] # 0 /\ nodeSession[e] # 0
      /\ submits[e] \in Nat /\ submits'[e] = submits[e] + 1
      /\ \A o \in Ends \ {e} : submits'[o] = submits[o]
      /\ nextSeq' = [nextSeq EXCEPT ![e][ch] = @ + n]
      /\ nextSeq'[e][ch] = first + n
      /\ UNCHANGED <<session, ready, rootSession, nodeSession, expected, pendingLost,
                     rx, tainted, consuming>>
      /\ \A o \in Ends : accepted[o] \subseteq accepted'[o]
  <2>1. /\ ready[e]
        /\ UNCHANGED <<session, ready, rootSession, nodeSession, expected, pendingLost,
                       rx, tainted, consuming>>
        /\ submits' = [submits EXCEPT ![e] = @ + 1]
        /\ nextSeq' = [nextSeq EXCEPT ![e][ch] = @ + n]
    BY <1>1 DEF SubmitAccept, SubmitOverflow, MaySubmit, link, slots, loop
  <2>2. \A o \in Ends : accepted[o] \subseteq accepted'[o]
    <3>1. CASE SubmitAccept(e, ch, n, priority)
      BY <1>2, <3>1 DEF SubmitAccept, TypeOK
    <3>2. CASE SubmitOverflow(e, ch, n, priority)
      BY <3>2 DEF SubmitOverflow
    <3> QED
      BY <1>1, <3>1, <3>2
  <2> QED
    BY <1>2, <1>f, <2>1, <2>2 DEF TypeOK, SessionInv, SessionsBound
<1>6. Onward
  BY <1>3, <1>5, SubmitOnward
<1>7. Follows'
  <2>1. ASSUME NEW o \in Ends PROVE FollowsAt(o)'
    <3>1. ready'[o] = ready[o] /\ Pair(o)' = Pair(o)
      BY <1>5 DEF Pair
    <3> QED
      BY <1>5, <1>6, <3>1, FollowsKept
  <2> QED
    BY <2>1 DEF Follows
<1>8. Unbound'
  BY <1>5 DEF NumbersInv, Unbound, UnboundAt, Pair
<1>9. PICK pair \in Nat \X Nat : pair = Pair(e) /\ pair = Pair(e)'
  BY <1>2, <1>5, PairType DEF Pair
<1>10. Assigned(e, pair, ch, last)'
  <2>1. Holds(e, pair)' /\ last < nextSeq'[e][ch]
    BY <1>4, <1>5, <1>9 DEF Holds
  <2> QED
    BY <2>1 DEF Assigned
<1>11. CASE SubmitOverflow(e, ch, n, priority)
  <2> DEFINE p == LostPacket(e, ch, first, last, FALSE)
  <2>1. p.type = "lost" /\ Ids(p) = pair /\ p.ch = ch /\ p.last = last
    BY <1>9 DEF LostPacket, Ids, Pair
  <2>2. Send(e, {p}) /\ UNCHANGED <<accepted, tx>>
    BY <1>f, <1>4, <1>11 DEF SubmitOverflow, slots
  <2>3. PICK x : x = p
    OBVIOUS
  <2> HIDE DEF p
  <2>4. Fits(Peer(e), x)'
    BY <1>10, <2>1, <2>3, Peers DEF Fits, Ids
  <2> DEFINE packets == {x}
  <2>5. \A y \in packets : Fits(Peer(e), y)'
    BY <2>4
  <2>6. Send(e, packets)
    BY <2>2, <2>3
  <2> HIDE DEF packets
  <2>7. Authentic'
    BY <1>5, <1>6, <2>2, <2>5, <2>6, AuthenticKept
  <2>8. Numbered'
    <3>1. \A o \in Ends : submits[o] <= submits'[o]
      <4>1. \A o \in Ends : submits[o] \in Nat
        BY <1>2 DEF TypeOK
      <4> QED
        BY <1>5, <4>1
    <3> QED
      BY <1>6, <2>2, <3>1, NumberedKept
  <2> QED
    BY <1>6, <1>7, <1>8, <2>7, <2>8 DEF NumbersKept
<1>12. CASE SubmitAccept(e, ch, n, priority)
  <2> DEFINE m == [ch |-> ch, first |-> first, n |-> n, id |-> submits[e] + 1,
                   rs |-> rootSession[e], ns |-> nodeSession[e]]
             frames == {[ch |-> ch, seq |-> q, first |-> m.first, n |-> n,
                         id |-> m.id, rs |-> m.rs, ns |-> m.ns] :
                          q \in m.first .. LastSeq(m)}
             added == {[f |-> f, retries |-> 0] : f \in frames}
             packets == IF routeUp[e] THEN {DataPacket(f) : f \in frames} ELSE {}
  <2>1. /\ tx' = [tx EXCEPT ![e] = @ \cup added]
        /\ Send(e, packets)
        /\ accepted' = [accepted EXCEPT ![e] = @ \cup {m}]
    BY <1>f, <1>12 DEF SubmitAccept
  <2>2. /\ m.ch = ch /\ m.first = first /\ LastSeq(m) = last /\ Ids(m) = pair
        /\ m.id = submits[e] + 1 /\ m.rs = rootSession[e] /\ m.ns = nodeSession[e]
    BY <1>4, <1>9 DEF LastSeq, Ids, Pair
  <2>3. m \in accepted'[e] /\ accepted'[e] = accepted[e] \cup {m}
        /\ \A o \in Ends \ {e} : accepted'[o] = accepted[o]
    BY <1>2, <2>1 DEF TypeOK
  <2>4. \A f \in frames : MessageOf(f) = m /\ f.seq \in Covers(f)
    BY DEF MessageOf, Covers, LastSeq
  <2> HIDE DEF m, frames
  <2>5. \A f \in frames : Genuine(e, f)'
    BY <2>3, <2>4 DEF Genuine, MessageOf, Covers, LastSeq
  <2>6. \A o \in Ends : \A s \in tx'[o] : s \in tx[o] \/ (o = e /\ s.f \in frames)
    BY <1>2, <2>1 DEF TypeOK
  <2>7. \A p \in packets : Fits(Peer(e), p)'
    BY <2>5, Peers DEF Fits, DataPacket
  <2> HIDE DEF packets
  <2>8. Authentic'
    BY <1>5, <1>6, <2>1, <2>5, <2>6, <2>7, AuthenticKept
  <2>9. PICK x : x = m
    OBVIOUS
  <2>10. ASSUME NEW o \in Ends, NEW a \in accepted[o]
         PROVE  /\ Assigned(o, Ids(a), a.ch, LastSeq(a))'
                /\ a.first # 0 /\ a.rs # 0 /\ a.ns # 0 /\ a.id <= submits'[o]
    <3>1. /\ Assigned(o, Ids(a), a.ch, LastSeq(a))
          /\ a.first # 0 /\ a.rs # 0 /\ a.ns # 0 /\ a.id <= submits[o]
      BY <1>2 DEF Numbered
    <3>2. a.id \in Nat /\ submits[o] \in Nat
      BY <1>2, MessageFields DEF TypeOK
    <3>3. a.id <= submits'[o]
      BY <1>5, <3>1, <3>2
    <3> QED
      BY <1>2, <1>6, <3>1, <3>3, MessageFields, CountsKept
  <2>11. /\ Assigned(e, Ids(x), x.ch, LastSeq(x))'
         /\ x.first # 0 /\ x.rs # 0 /\ x.ns # 0 /\ x.id <= submits'[e]
    <3>1. Ids(x) = pair /\ x.ch = ch /\ LastSeq(x) = last
      BY <2>2, <2>9
    <3>2. submits[e] + 1 <= submits'[e]
      BY <1>5
    <3> QED
      BY <1>4, <1>5, <1>10, <2>2, <2>9, <3>1, <3>2
  <2>12. ASSUME NEW a \in accepted[e]
         PROVE  /\ a.id # x.id
                /\ a.ch = x.ch /\ Ids(a) = Ids(x) /\ Sound(a)' => LastSeq(a) < x.first
    <3>1. a.id \in Nat /\ a.id <= submits[e]
      BY <1>2, MessageFields DEF Numbered
    <3>2. a.id # x.id
      BY <1>5, <2>2, <2>9, <3>1
    <3>3. ASSUME a.ch = x.ch, Ids(a) = Ids(x), Sound(a)'
          PROVE  LastSeq(a) < x.first
      <4>1. Pair(e) \notin tainted
        BY <1>5, <1>9, <2>2, <2>9, <3>3 DEF Sound, Ids
      <4>2. Assigned(e, Pair(e), ch, LastSeq(a))
        BY <1>2, <1>9, <2>2, <2>9, <3>3 DEF Numbered
      <4>3. LastSeq(a) < nextSeq[e][ch]
        BY <1>2, <1>5, <4>1, <4>2, AssignedHere
      <4> QED
        BY <1>f, <2>2, <2>9, <4>3
    <3> QED
      BY <3>2, <3>3
  <2>13. \A a, b \in accepted'[e] :
           /\ a.id = b.id => a = b
           /\ a.ch = b.ch /\ Ids(a) = Ids(b) /\ Sound(a)'
              => a = b \/ LastSeq(a) < b.first \/ LastSeq(b) < a.first
    <3>1. \A a : Sound(a)' => Sound(a)
      BY <1>5 DEF Sound
    <3>2. \A a, b : Ids(a) = Ids(b) /\ Sound(a)' => Sound(b)'
      BY DEF Sound, Ids
    <3> QED
      BY <1>2, <2>3, <2>9, <2>12, <3>1, <3>2 DEF Numbered
  <2>14. Numbered'
    BY <1>2, <1>5, <2>3, <2>9, <2>10, <2>11, <2>13 DEF Numbered, Ids, LastSeq, Sound
  <2> QED
    BY <1>6, <1>7, <1>8, <2>8, <2>14 DEF NumbersKept
<1> QED
  BY <1>1, <1>11, <1>12

LEMMA NumbersHeartbeat ==
  ASSUME NumbersInv, TypeOK', SendHello
  PROVE  NumbersKept
<1> DEFINE h == [type |-> "hello", ns |-> session["node"], seen |-> rootSession["node"]]
           packets == {h}
<1>1. TypeOK /\ "node" \in Ends
  BY DEF NumbersInv, SessionInv
<1>2. Send("node", packets) /\ UNCHANGED <<link, seqs, slots, loop, hist>>
  BY DEF SendHello
<1>3. \A x \in packets : x \in Packet /\ Fits(Peer("node"), x)
  <2>1. h \in Packet
    BY <1>1 DEF Packet, Hello, TypeOK
  <2>2. h.type = "hello"
    OBVIOUS
  <2> HIDE DEF h
  <2>3. Fits(Peer("node"), h)
    BY <2>2 DEF Fits
  <2> QED
    BY <2>1, <2>3
<1> HIDE DEF packets
<1> QED
  BY <1>1, <1>2, <1>3, PlainStep DEF link, seqs, slots, loop, hist

LEMMA NumbersOutside ==
  ASSUME NumbersInv, TypeOK',
         \/ Supersede
         \/ \E e \in Ends, up \in BOOLEAN : PeerRoute(e, up)
         \/ UNCHANGED vars
  PROVE  NumbersKept
<1>1. TypeOK
  BY DEF NumbersInv, SessionInv
<1>2. /\ UNCHANGED <<session, ready, rootSession, nodeSession, nextSeq, expected,
                     pendingLost, submits, accepted, tainted, rx, net, consuming>>
  BY DEF Supersede, PeerRoute, vars, link, seqs, slots, loop, hist
<1>3. \A o \in Ends : tx'[o] \subseteq tx[o]
  <2>1. CASE Supersede
    BY <1>1, <2>1 DEF Supersede, TypeOK
  <2>2. CASE tx' = tx
    BY <2>2
  <2> QED
    BY <2>1, <2>2 DEF PeerRoute, vars, slots
<1> QED
  BY <1>2, <1>3, QuietStep

LEMMA NumbersStep == NumbersInv /\ TypeOK' /\ [Next]_vars => NumbersKept
<1> SUFFICES ASSUME NumbersInv, TypeOK', [Next]_vars PROVE NumbersKept
  OBVIOUS
<1>1. CASE Environment
  BY <1>1, NumbersHeartbeat, NumbersOutside, NumbersRemoved, NumbersGivenUp, NumbersReboot
     DEF Environment
<1>2. ASSUME NEW e \in Ends, Receive(e) PROVE NumbersKept
  <2>1. PICK p \in net[e] : \/ e = "root" /\ HandleHello(p)
                            \/ e = "node" /\ HandleHelloAck(p)
                            \/ HandleData(e, p) \/ HandleAck(e, p) \/ HandleLost(e, p)
    BY <1>2 DEF Receive
  <2>2. CASE HandleData(e, p)
    BY <2>2, NumbersData, NumbersGivenUp
  <2>3. CASE HandleLost(e, p)
    <3>1. ready' # ready => LostAhead(e, p)
      BY <2>3 DEF HandleLost, LostByReceiver, LostExpected, LostBehind
    <3> QED
      BY <2>3, <3>1, NumbersLost, NumbersGivenUp
  <2> QED
    BY <2>1, <2>2, <2>3, NumbersHello, NumbersHelloAck, NumbersAck
<1>3. ASSUME NEW e \in Ends, Transfer(e) PROVE NumbersKept
  BY <1>2, <1>3, NumbersSubmit, NumbersConsume, NumbersPoll, NumbersExhausted
     DEF Transfer, PollTx
<1>4. CASE UNCHANGED vars
  BY <1>4, NumbersOutside
<1> QED
  BY <1>1, <1>3, <1>4 DEF Next

\* Sequence numbers are told the same by both ends and by every packet between
\* them, in every reachable state and for every window, pool, number of retries,
\* submits and boots: what a packet of whatever age acknowledges, asks for or
\* gives up was assigned in its session pair, unless the pair is over.
THEOREM NumbersInvAlways == Spec => []NumbersInv
<1>1. Init => Numbered /\ Authentic /\ Follows /\ Unbound
  BY DEF Init, Numbered, Authentic, Follows, FollowsAt, Unbound, UnboundAt, Ones, Empty
<1>2. /\ SessionInv /\ SessionInv' /\ Numbered /\ Authentic /\ Follows /\ Unbound
      /\ [Next]_vars
      => Numbered' /\ Authentic' /\ Follows' /\ Unbound'
  BY NumbersStep DEF NumbersInv, NumbersKept, SessionInv
<1>3. SessionInv /\ Numbered /\ Authentic /\ Follows /\ Unbound => NumbersInv
  BY DEF NumbersInv
<1> QED
  BY <1>1, <1>2, <1>3, SessionInvAlways, PTL DEF Spec

\* A receiver never expects a number its sender has still to assign, whatever the
\* network loses, repeats or delays and whoever restarts in between.
THEOREM EndsAgreeAlways == Spec => []EndsAgree
<1>1. NumbersInv => EndsAgree
  <2> SUFFICES ASSUME NumbersInv, NEW e \in Ends, NEW ch \in Channels,
                      ready[e], ready[Peer(e)], Pair(e) = Pair(Peer(e)),
                      Pair(e) \notin tainted
               PROVE  expected[Peer(e)][ch] <= nextSeq[e][ch]
    BY DEF EndsAgree
  <2>1. SessionInv /\ FollowsAt(Peer(e))
    BY Peers DEF NumbersInv, Follows
  <2>2. nextSeq[e][ch] \in Nat \ {0} /\ expected[Peer(e)][ch] \in Nat \ {0}
    BY <2>1, Peers, CountTypes DEF SessionInv
  <2>3. CASE expected[Peer(e)][ch] = 1
    BY <2>2, <2>3
  <2>4. CASE Assigned(Peer(Peer(e)), Pair(Peer(e)), ch, expected[Peer(e)][ch] - 1)
    <3>1. expected[Peer(e)][ch] - 1 < nextSeq[e][ch]
      BY <2>1, <2>4, Peers, AssignedHere
    <3> QED
      BY <2>2, <3>1
  <2> QED
    BY <2>1, <2>3, <2>4 DEF FollowsAt
<1> QED
  BY <1>1, NumbersInvAlways, PTL

----------------------------------------------------------------------------
(* Order of delivery.  A message comes after those delivered before it      *)
(* because they lie before the expected position, which only moves on, and  *)
(* because messages cover disjoint numbers.                                 *)

\* The message that reassembly slot r of end d is for.
MessageIn(d, r) ==
  [ch |-> r.ch, first |-> r.first, n |-> r.n, id |-> r.id,
   rs |-> rootSession[d], ns |-> nodeSession[d]]

\* Fragments that were collected, and messages that were delivered, belong to
\* accepted messages and lie before the expected position.
Partials ==
  \A d \in Ends : \A r \in reassembly[d] :
    /\ MessageIn(d, r) \in accepted[Peer(d)]
    /\ \A q \in r.got : q < expected[d][r.ch]
DeliveredPast ==
  \A d \in Ends : \A i \in DOMAIN delivered[d] :
    LET m == delivered[d][i]
    IN  m \in accepted[Peer(d)] /\ Past(d, Ids(m), m.ch, LastSeq(m))

\* The inductive invariant of InOrder, on top of NumbersInv.
OrderInv == Partials /\ DeliveredPast /\ InOrder

LEMMA PastHere ==
  ASSUME SessionInv, NEW e \in Ends, ready[e], NEW ch, NEW q,
         Pair(e) \notin tainted, Past(e, Pair(e), ch, q)
  PROVE  q < expected[e][ch]
<1>1. Own(e, Pair(e)) = session[e]
  BY DEF SessionInv, SessionsBound, Own, Pair
<1>2. session[e] \in Nat
  BY DEF SessionInv, TypeOK
<1>3. ~(Own(e, Pair(e)) < session[e])
  BY <1>1, <1>2
<1> QED
  BY <1>3 DEF Past, Over

LEMMA DeliveredFields ==
  ASSUME TypeOK, NEW d \in Ends, NEW i \in DOMAIN delivered[d]
  PROVE  /\ delivered[d][i] \in Message /\ delivered[d][i].ch \in Channels
         /\ LastSeq(delivered[d][i]) \in Nat /\ Ids(delivered[d][i]) \in Nat \X Nat
<1>1. delivered[d] \in Seq(Message)
  BY DEF TypeOK
<1>2. PICK m \in Message : m = delivered[d][i]
  BY <1>1
<1>3. m.ch \in Channels /\ m.first \in Nat /\ m.n \in Nat \ {0}
  BY DEF Message
<1>4. LastSeq(m) \in Nat
  BY <1>3 DEF LastSeq
<1> QED
  BY <1>2, <1>3, <1>4, IdsType

\* What was delivered stays behind the expected position.
LEMMA PastKept ==
  ASSUME TypeOK, TypeOK', Onward, DeliveredPast, NEW d \in Ends,
         NEW i \in DOMAIN delivered[d], NEW m, m = delivered[d][i]
  PROVE  /\ m \in accepted'[Peer(d)]
         /\ Past(d, Ids(m), m.ch, LastSeq(m))'
<1>1. m \in accepted[Peer(d)] /\ Past(d, Ids(m), m.ch, LastSeq(m))
  BY DEF DeliveredPast
<1>2. m \in accepted'[Peer(d)]
  BY <1>1, Peers DEF Onward
<1>3. PICK pair \in Nat \X Nat, ch \in Channels, last \in Nat :
        pair = Ids(m) /\ ch = m.ch /\ last = LastSeq(m)
  BY DeliveredFields
<1>4. Past(d, pair, ch, last)'
  BY <1>1, <1>3, CountsKept
<1> QED
  BY <1>2, <1>3, <1>4

LEMMA PartialsKept ==
  ASSUME TypeOK, TypeOK', Onward, Partials, NEW d \in Ends,
         NEW r \in reassembly[d], r \in reassembly'[d]
  PROVE  MessageIn(d, r)' \in accepted'[Peer(d)] /\ \A q \in r.got : q < expected'[d][r.ch]
<1>1. /\ MessageIn(d, r) \in accepted[Peer(d)]
      /\ \A q \in r.got : q < expected[d][r.ch]
  BY DEF Partials
<1>2. Steady(d) /\ accepted[Peer(d)] \subseteq accepted'[Peer(d)]
  BY Peers DEF Onward
<1>3. MessageIn(d, r)' = MessageIn(d, r)
  BY <1>2 DEF Steady, MessageIn, Pair
<1>4. r \in Partial /\ r.ch \in Channels /\ \A q \in r.got : q \in Nat
  <2>1. r \in Partial
    BY PartialFields
  <2> QED
    BY <2>1 DEF Partial
<1>5. expected[d][r.ch] \in Nat /\ expected'[d][r.ch] \in Nat
  BY <1>4, CountTypes DEF TypeOK
<1>6. expected[d][r.ch] <= expected'[d][r.ch]
  BY <1>2, <1>4 DEF Steady
<1>7. \A q \in r.got : q < expected'[d][r.ch]
  BY <1>1, <1>4, <1>5, <1>6
<1> QED
  BY <1>1, <1>2, <1>3, <1>7

\* A step that delivers nothing and collects nothing.
LEMMA OrderSteady ==
  ASSUME TypeOK, TypeOK', Onward, OrderInv, delivered' = delivered,
         \A d \in Ends : reassembly'[d] \subseteq reassembly[d]
  PROVE  OrderInv'
<1>1. Partials'
  <2>1. ASSUME NEW d \in Ends, NEW r \in reassembly'[d]
        PROVE  MessageIn(d, r)' \in accepted'[Peer(d)] /\ \A q \in r.got : q < expected'[d][r.ch]
    BY PartialsKept DEF OrderInv
  <2> QED
    BY <2>1 DEF Partials
<1>2. DeliveredPast'
  <2>1. ASSUME NEW d \in Ends, NEW i \in DOMAIN delivered[d], NEW m, m = delivered[d][i]
        PROVE  m \in accepted'[Peer(d)] /\ Past(d, Ids(m), m.ch, LastSeq(m))'
    BY <2>1, PastKept DEF OrderInv
  <2> QED
    BY <2>1 DEF DeliveredPast
<1>3. InOrder'
  BY DEF Onward, OrderInv, InOrder, Sound
<1> QED
  BY <1>1, <1>2, <1>3 DEF OrderInv

LEMMA Appended ==
  ASSUME NEW S, NEW s \in Seq(S), NEW m \in S, NEW i \in DOMAIN Append(s, m)
  PROVE  /\ i \in Nat
         /\ \/ i \in DOMAIN s /\ Append(s, m)[i] = s[i]
            \/ i = Len(s) + 1 /\ Append(s, m)[i] = m
  OBVIOUS

\* The messages of a channel and pair that were delivered precede one whose
\* fragment lies at or beyond the expected position.
LEMMA DeliveredBefore ==
  ASSUME NumbersInv, OrderInv, NEW d \in Ends, NEW f \in Frame, Genuine(Peer(d), f),
         Installed(d, f.rs, f.ns), expected[d][f.ch] <= f.seq,
         NEW i \in DOMAIN delivered[d], NEW a, a = delivered[d][i],
         a.ch = f.ch, Ids(a) = Ids(f), Sound(a)
  PROVE  LastSeq(a) < f.seq /\ a.first < f.first
<1>1. SessionInv /\ TypeOK /\ ready[d] /\ Ids(f) = Pair(d) /\ Pair(d) \notin tainted
  BY DEF NumbersInv, SessionInv, Installed, Ids, Pair, Sound
<1>2. a \in accepted[Peer(d)] /\ Past(d, Ids(a), a.ch, LastSeq(a))
  BY DEF OrderInv, DeliveredPast
<1>3. LastSeq(a) < expected[d][f.ch]
  BY <1>1, <1>2, PastHere
<1>4. /\ LastSeq(a) \in Nat /\ a.first \in Nat /\ a.first <= LastSeq(a)
  BY <1>1, <1>2, Peers, MessageFields
<1>5. /\ f.ch \in Channels /\ f.seq \in Nat /\ LastSeq(f) \in Nat /\ f.first \in Nat
      /\ f.first <= f.seq /\ f.seq <= LastSeq(f)
  BY Peers, GenuineFrame
<1>6. expected[d][f.ch] \in Nat
  BY <1>1, <1>5, CountTypes
<1>7. LastSeq(a) < f.seq
  BY <1>3, <1>4, <1>5, <1>6
<1> DEFINE m == MessageOf(f)
<1>8. m \in accepted[Peer(d)] /\ m.ch = f.ch /\ Ids(m) = Ids(f) /\ LastSeq(m) = LastSeq(f)
      /\ m.first = f.first
  BY DEF Genuine, MessageOf, Ids, LastSeq
<1> HIDE DEF m
<1>9. a = m \/ LastSeq(a) < m.first \/ LastSeq(m) < a.first
  BY <1>2, <1>8, Peers DEF NumbersInv, Numbered
<1>10. a # m
  BY <1>4, <1>5, <1>7, <1>8
<1> QED
  BY <1>4, <1>5, <1>7, <1>8, <1>9, <1>10

\* The deliver callback gets the next message of its channel.
LEMMA DeliverNext ==
  ASSUME NumbersInv, TypeOK', Onward, OrderInv, NEW d \in Ends, NEW f \in Frame,
         Genuine(Peer(d), f), Installed(d, f.rs, f.ns), expected[d][f.ch] <= f.seq,
         Deliver(d, MessageOf(f)), LastSeq(f) < expected'[d][f.ch],
         UNCHANGED <<session, ready, rootSession, nodeSession, tainted>>
  PROVE  DeliveredPast' /\ InOrder'
<1>1. TypeOK /\ DeliveredPast /\ InOrder
  BY DEF NumbersInv, SessionInv, OrderInv
<1>2. PICK m \in Message : m = MessageOf(f)
  BY MessageType
<1>3. /\ m.ch = f.ch /\ Ids(m) = Ids(f) /\ LastSeq(m) = LastSeq(f) /\ m.first = f.first
      /\ m \in accepted[Peer(d)] /\ m.ch \in Channels
  BY <1>2 DEF MessageOf, Ids, LastSeq, Genuine, Message
<1>4. CASE delivered' = delivered
  <2>1. DeliveredPast'
    <3>1. ASSUME NEW o \in Ends, NEW i \in DOMAIN delivered[o], NEW a, a = delivered[o][i]
          PROVE  a \in accepted'[Peer(o)] /\ Past(o, Ids(a), a.ch, LastSeq(a))'
      BY <1>1, <3>1, PastKept
    <3> QED
      BY <1>4, <3>1 DEF DeliveredPast
  <2>2. InOrder'
    BY <1>1, <1>4 DEF InOrder, Sound
  <2> QED
    BY <2>1, <2>2
<1>5. CASE delivered' = [delivered EXCEPT ![d] = Append(@, m)]
  <2> DEFINE s == delivered[d]
  <2>1. /\ s \in Seq(Message) /\ delivered'[d] = Append(s, m)
        /\ \A o \in Ends \ {d} : delivered'[o] = delivered[o]
    BY <1>1, <1>5 DEF TypeOK
  <2>2. Past(d, Ids(m), m.ch, LastSeq(m))'
    <3>1. PICK pair, ch, last : pair = Ids(m) /\ ch = m.ch /\ last = LastSeq(m)
      OBVIOUS
    <3>2. Holds(d, pair)' /\ last < expected'[d][ch]
      BY <1>3, <3>1 DEF Holds, Installed, Ids, Pair
    <3>3. Past(d, pair, ch, last)'
      BY <3>2 DEF Past
    <3> QED
      BY <3>1, <3>3
  <2>3. m \in accepted'[Peer(d)]
    BY <1>3, Peers DEF Onward
  <2>4. DeliveredPast'
    <3>1. ASSUME NEW o \in Ends, NEW i \in DOMAIN delivered[o], NEW a, a = delivered[o][i]
          PROVE  a \in accepted'[Peer(o)] /\ Past(o, Ids(a), a.ch, LastSeq(a))'
      BY <1>1, <3>1, PastKept
    <3>2. ASSUME NEW o \in Ends, NEW i \in DOMAIN delivered'[o], NEW a, a = delivered'[o][i]
          PROVE  a \in accepted'[Peer(o)] /\ Past(o, Ids(a), a.ch, LastSeq(a))'
      <4>1. CASE o = d
        <5>1. i \in DOMAIN Append(s, m) /\ a = Append(s, m)[i]
          BY <2>1, <3>2, <4>1
        <5>2. (i \in DOMAIN s /\ a = s[i]) \/ a = m
          BY <2>1, <5>1, Appended
        <5>3. CASE a = m
          BY <2>2, <2>3, <4>1, <5>3
        <5>4. CASE i \in DOMAIN s /\ a = s[i]
          BY <3>1, <4>1, <5>4
        <5> QED
          BY <5>2, <5>3, <5>4
      <4>2. CASE o # d
        BY <2>1, <3>1, <3>2, <4>2
      <4> QED
        BY <4>1, <4>2
    <3> QED
      BY <3>2 DEF DeliveredPast
  <2>5. InOrder'
    <3> SUFFICES ASSUME NEW o \in Ends, NEW i \in DOMAIN delivered'[o],
                        NEW j \in DOMAIN delivered'[o], NEW a, NEW b,
                        a = delivered'[o][i], b = delivered'[o][j],
                        i < j, a.ch = b.ch, Ids(a) = Ids(b), Sound(a)'
                 PROVE  a.first < b.first
      BY DEF InOrder, Ids
    <3>1. Sound(a)
      BY DEF Sound
    <3>2. ASSUME i \in DOMAIN delivered[o], j \in DOMAIN delivered[o],
                 a = delivered[o][i], b = delivered[o][j]
          PROVE  a.first < b.first
      BY <1>1, <3>1, <3>2 DEF InOrder, Ids
    <3>3. CASE o # d
      BY <2>1, <3>2, <3>3
    <3>4. CASE o = d
      <4>1. /\ i \in Nat /\ j \in Nat
            /\ (i \in DOMAIN s /\ a = s[i]) \/ i = Len(s) + 1
            /\ (j \in DOMAIN s /\ b = s[j]) \/ (j = Len(s) + 1 /\ b = m)
        <5>1. i \in DOMAIN Append(s, m) /\ j \in DOMAIN Append(s, m)
          BY <2>1, <3>4
        <5>2. a = Append(s, m)[i] /\ b = Append(s, m)[j]
          BY <2>1, <3>4
        <5> HIDE DEF s
        <5>3. i \in Nat /\ ((i \in DOMAIN s /\ a = s[i]) \/ i = Len(s) + 1)
          BY <2>1, <5>1, <5>2, Appended
        <5>4. j \in Nat /\ ((j \in DOMAIN s /\ b = s[j]) \/ (j = Len(s) + 1 /\ b = m))
          BY <2>1, <5>1, <5>2, Appended
        <5> QED
          BY <5>3, <5>4
      <4>2. \A k \in DOMAIN s : k \in Nat /\ k <= Len(s)
        BY <2>1
      <4>3. i # Len(s) + 1
        <5>1. Len(s) \in Nat
          BY <2>1
        <5> QED
          BY <4>1, <4>2, <5>1
      <4>4. CASE b = m
        BY <1>3, <3>1, <3>4, <4>1, <4>3, <4>4, DeliveredBefore
      <4> QED
        BY <3>2, <3>4, <4>1, <4>3, <4>4
    <3> QED
      BY <3>3, <3>4
  <2> QED
    BY <2>4, <2>5
<1> QED
  BY <1>2, <1>4, <1>5 DEF Deliver

\* deliver_fragment(): the whole message, a fragment of it, or none of it.
LEMMA OrderDeliver ==
  ASSUME NumbersInv, TypeOK', Onward, OrderInv, NEW d \in Ends, NEW f \in Frame,
         Genuine(Peer(d), f), Installed(d, f.rs, f.ns), expected[d][f.ch] <= f.seq,
         NEW rxLeft, DeliverFragment(d, f, rxLeft),
         UNCHANGED <<session, ready, rootSession, nodeSession, tainted>>
  PROVE  OrderInv'
<1>1. TypeOK /\ Partials
  BY DEF NumbersInv, SessionInv, OrderInv
<1>2. /\ f.ch \in Channels /\ f.seq \in Nat /\ LastSeq(f) \in Nat /\ f.first \in Nat
      /\ f.n \in Nat /\ f.first <= f.seq /\ f.seq <= LastSeq(f)
  BY Peers, GenuineFrame DEF Frame
<1>3. CASE DeliverNoSlot(d, f, rxLeft)
  <2>1. delivered' = delivered /\ \A o \in Ends : reassembly'[o] \subseteq reassembly[o]
    BY <1>1, <1>3 DEF DeliverNoSlot, TypeOK
  <2> QED
    BY <1>1, <2>1, OrderSteady
<1>4. CASE DeliverWhole(d, f, rxLeft)
  <2>1. f.n = 1 /\ expected' = [expected EXCEPT ![d][f.ch] = f.seq + 1]
        /\ Deliver(d, MessageOf(f)) /\ reassembly' = reassembly
    BY <1>4 DEF DeliverWhole
  <2>2. expected'[d][f.ch] = f.seq + 1
    BY <1>1, <1>2, <2>1 DEF TypeOK
  <2>3. LastSeq(f) < expected'[d][f.ch]
    <3>1. LastSeq(f) = f.first
      BY <1>2, <2>1 DEF LastSeq
    <3> QED
      BY <1>2, <2>2, <3>1
  <2>4. DeliveredPast' /\ InOrder'
    BY <2>1, <2>3, DeliverNext
  <2>5. Partials'
    <3>1. ASSUME NEW o \in Ends, NEW r \in reassembly[o]
          PROVE  MessageIn(o, r)' \in accepted'[Peer(o)] /\ \A q \in r.got : q < expected'[o][r.ch]
      BY <1>1, <2>1, PartialsKept
    <3> QED
      BY <2>1, <3>1 DEF Partials
  <2> QED
    BY <2>4, <2>5 DEF OrderInv
<1>5. CASE DeliverPart(d, f, rxLeft)
  <2>1. PICK r \in ReassemblyFind(d, f) :
          LET got == r.got \cup {f.seq}
              others == reassembly[d] \ {r}
          IN  IF got = f.first .. LastSeq(f)
              THEN /\ Deliver(d, MessageOf(f))
                   /\ reassembly' = [reassembly EXCEPT ![d] = others]
              ELSE /\ reassembly' = [reassembly EXCEPT ![d] =
                                       others \cup {[r EXCEPT !.got = got]}]
                   /\ UNCHANGED delivered
    BY <1>5 DEF DeliverPart
  <2>2. expected'[d][f.ch] = f.seq + 1
    BY <1>1, <1>2, <1>5 DEF DeliverPart, TypeOK
  <2>3. /\ r.ch = f.ch /\ r.id = f.id /\ r.n = f.n /\ r.first = f.first
        /\ r \in reassembly[d] \/ r.got = {}
    BY <2>1 DEF ReassemblyFind
  <2>4. \A q \in r.got : q \in Nat /\ q < f.seq + 1
    <3>1. CASE r.got = {}
      BY <3>1
    <3>2. CASE r \in reassembly[d]
      <4>1. \A q \in r.got : q < expected[d][f.ch]
        BY <1>1, <2>3, <3>2 DEF Partials
      <4>2. \A q \in r.got : q \in Nat
        <5>1. r \in Partial
          BY <1>1, <3>2, PartialFields
        <5> QED
          BY <5>1 DEF Partial
      <4>3. expected[d][f.ch] \in Nat
        BY <1>1, <1>2, CountTypes
      <4> QED
        BY <1>2, <4>1, <4>2, <4>3
    <3> QED
      BY <2>3, <3>1, <3>2
  <2> DEFINE got == r.got \cup {f.seq}
             others == reassembly[d] \ {r}
             grown == [r EXCEPT !.got = got]
  <2>5. \A q \in got : q < f.seq + 1
    BY <1>2, <2>4
  <2>6. CASE got = f.first .. LastSeq(f)
    <3>1. Deliver(d, MessageOf(f)) /\ reassembly' = [reassembly EXCEPT ![d] = others]
      BY <2>1, <2>6
    <3>2. LastSeq(f) < f.seq + 1
      <4>1. LastSeq(f) \in f.first .. LastSeq(f)
        BY <1>2
      <4> QED
        BY <2>5, <2>6, <4>1
    <3>3. DeliveredPast' /\ InOrder'
      BY <2>2, <3>1, <3>2, DeliverNext
    <3>4. \A o \in Ends : reassembly'[o] \subseteq reassembly[o]
      BY <1>1, <3>1 DEF TypeOK
    <3>5. Partials'
      <4>1. ASSUME NEW o \in Ends, NEW x \in reassembly'[o]
            PROVE  MessageIn(o, x)' \in accepted'[Peer(o)] /\ \A q \in x.got : q < expected'[o][x.ch]
        BY <1>1, <3>4, PartialsKept
      <4> QED
        BY <4>1 DEF Partials
    <3> QED
      BY <3>3, <3>5 DEF OrderInv
  <2>7. CASE got # f.first .. LastSeq(f)
    <3>1. delivered' = delivered /\ reassembly' = [reassembly EXCEPT ![d] = others \cup {grown}]
      BY <2>1, <2>7
    <3>2. r \in Partial
      <4>1. CASE r \in reassembly[d]
        BY <1>1, <4>1, PartialFields
      <4>2. CASE r = [ch |-> f.ch, id |-> f.id, first |-> f.first, n |-> f.n, got |-> {}]
        BY <4>2 DEF Partial, Frame
      <4> QED
        BY <2>1, <4>1, <4>2 DEF ReassemblyFind
    <3>3. /\ grown.ch = f.ch /\ grown.id = f.id /\ grown.n = f.n /\ grown.first = f.first
          /\ grown.got = got
      BY <2>3, <3>2 DEF Partial
    <3> HIDE DEF grown, got
    <3>4. PICK x : x = grown
      OBVIOUS
    <3>5. MessageIn(d, x)' \in accepted'[Peer(d)] /\ \A q \in x.got : q < expected'[d][x.ch]
      <4>1. MessageIn(d, x)' = MessageOf(f)
        BY <3>3, <3>4 DEF MessageIn, MessageOf, Installed
      <4>2. MessageOf(f) \in accepted'[Peer(d)]
        BY Peers DEF Genuine, Onward
      <4> QED
        BY <2>2, <2>5, <3>3, <3>4, <4>1, <4>2
    <3>6. \A o \in Ends : \A y \in reassembly'[o] : y \in reassembly[o] \/ (o = d /\ y = x)
      BY <1>1, <3>1, <3>4 DEF TypeOK
    <3>7. Partials'
      <4>1. ASSUME NEW o \in Ends, NEW y \in reassembly'[o]
            PROVE  MessageIn(o, y)' \in accepted'[Peer(o)] /\ \A q \in y.got : q < expected'[o][y.ch]
        BY <1>1, <3>5, <3>6, PartialsKept
      <4> QED
        BY <4>1 DEF Partials
    <3>8. DeliveredPast' /\ InOrder'
      <4>1. ASSUME NEW o \in Ends, NEW i \in DOMAIN delivered[o], NEW a, a = delivered[o][i]
            PROVE  a \in accepted'[Peer(o)] /\ Past(o, Ids(a), a.ch, LastSeq(a))'
        BY <1>1, <4>1, PastKept DEF OrderInv
      <4>2. DeliveredPast'
        BY <3>1, <4>1 DEF DeliveredPast
      <4> QED
        BY <3>1, <4>2 DEF OrderInv, InOrder, Sound
    <3> QED
      BY <3>7, <3>8 DEF OrderInv
  <2> QED
    BY <2>6, <2>7
<1> QED
  BY <1>3, <1>4, <1>5 DEF DeliverFragment

\* All other steps deliver nothing and collect nothing.
LEMMA OrderOther ==
  ASSUME TypeOK, [Next]_vars,
         \A e \in Ends : ~ConsumeRx(e) /\ \A p \in net[e] : ~DataInOrder(e, p)
  PROVE  delivered' = delivered /\ \A o \in Ends : reassembly'[o] \subseteq reassembly[o]
<1> DEFINE Other == delivered' = delivered
                    /\ \A o \in Ends : reassembly'[o] \subseteq reassembly[o]
<1> SUFFICES Other
  OBVIOUS
<1>1. ASSUME UNCHANGED <<delivered, reassembly>> PROVE Other
  BY <1>1
<1>2. ASSUME NEW e \in Ends, delivered' = delivered, NEW left, left \subseteq reassembly[e],
             reassembly' = [reassembly EXCEPT ![e] = left]
      PROVE  Other
  BY <1>2 DEF TypeOK
<1>3. ASSUME NEW e \in Ends, delivered' = delivered, RestartSpaces(e) PROVE Other
  BY <1>2, <1>3 DEF RestartSpaces
<1>4. CASE Environment \/ UNCHANGED vars
  <2>1. CASE SendHello \/ Supersede \/ UNCHANGED vars
    BY <1>1, <2>1 DEF SendHello, Supersede, vars, slots, hist
  <2>2. CASE RemovePeer
    BY <1>3, <2>2 DEF RemovePeer
  <2>3. ASSUME NEW e \in Ends,
               PollRouteTimeout(e) \/ (\E up \in BOOLEAN : PeerRoute(e, up)) \/ Reboot(e)
        PROVE  Other
    BY <1>1, <1>3, <2>3 DEF PollRouteTimeout, PeerRoute, Reboot, ClearPeerBuffers, slots, hist
  <2> HIDE DEF Other
  <2> QED
    BY <1>4, <2>1, <2>2, <2>3 DEF Environment
<1>5. ASSUME NEW e \in Ends, Transfer(e) PROVE Other
  <2>1. CASE Submit(e)
    BY <1>1, <2>1 DEF Submit, SubmitAccept, SubmitOverflow, slots
  <2>2. CASE Consume(e)
    BY <1>1, <2>2 DEF Consume, SkipLost, ConsumeDone, slots, hist
  <2>3. CASE PollTx(e)
    BY <1>1, <1>3, <2>3 DEF PollTx, PollRetransmit, PollExhausted, ClearPeerBuffers, hist
  <2>4. CASE PollFragmentTimeout(e)
    <3>1. PICK r \in reassembly[e] : reassembly' = [reassembly EXCEPT ![e] = @ \ {r}]
      BY <2>4 DEF PollFragmentTimeout
    <3>2. delivered' = delivered
      BY <2>4 DEF PollFragmentTimeout
    <3> QED
      BY <1>2, <3>1, <3>2
  <2>5. CASE Receive(e)
    <3>1. PICK p \in net[e] : \/ e = "root" /\ HandleHello(p)
                              \/ e = "node" /\ HandleHelloAck(p)
                              \/ HandleData(e, p) \/ HandleAck(e, p) \/ HandleLost(e, p)
      BY <2>5 DEF Receive
    <3>2. CASE e = "root" /\ HandleHello(p)
      BY <1>1, <1>3, <3>2 DEF HandleHello, ClearPeerBuffers, KeepBuffers, slots
    <3>3. CASE e = "node" /\ HandleHelloAck(p)
      BY <1>1, <1>3, <3>3 DEF HandleHelloAck, ClearPeerBuffers, KeepBuffers, slots
    <3>4. CASE HandleData(e, p)
      <4>1. CASE DataDropped(e, p)
        BY <1>2, <4>1 DEF DataDropped
      <4>2. CASE DataOverflow(e, p)
        BY <1>3, <4>2 DEF DataOverflow, ClearPeerBuffers
      <4>3. CASE DataOld(e, p) \/ DataNotStored(e, p) \/ DataStored(e, p)
        BY <1>1, <4>3 DEF DataOld, DataNotStored, DataStored, slots, hist
      <4> QED
        BY <3>4, <4>1, <4>2, <4>3 DEF HandleData
    <3>5. CASE HandleAck(e, p)
      BY <1>1, <3>5 DEF HandleAck
    <3>6. CASE HandleLost(e, p)
      BY <1>1, <1>3, <3>6 DEF HandleLost, LostByReceiver, LostExpected, LostAhead,
         LostBehind, ClearPeerBuffers, slots
    <3> QED
      BY <3>1, <3>2, <3>3, <3>4, <3>5, <3>6
  <2> QED
    BY <1>5, <2>1, <2>2, <2>3, <2>4, <2>5 DEF Transfer
<1> HIDE DEF Other
<1> QED
  BY <1>4, <1>5 DEF Next

\* The frame a delivering step takes.
LEMMA TakenFrame ==
  ASSUME NumbersInv, NEW e \in Ends, ConsumeRx(e) \/ \E p \in net[e] : DataInOrder(e, p)
  PROVE  \E f \in Frame, left \in SUBSET rx[e] :
           /\ Genuine(Peer(e), f) /\ Installed(e, f.rs, f.ns)
           /\ expected[e][f.ch] <= f.seq
           /\ f.ch # TIME => f.seq = expected[e][f.ch]
           /\ DeliverFragment(e, f, left)
           /\ UNCHANGED <<session, ready, rootSession, nodeSession, tainted, accepted, tx>>
           /\ \A g \in rx[e] : g \in left \/ g = f \/ g.ch = TIME
           /\ pendingLost'[Peer(e)] = pendingLost[Peer(e)]
           /\ \A ch \in Channels : pendingLost'[e][ch] \subseteq pendingLost[e][ch]
<1>1. TypeOK
  BY DEF NumbersInv, SessionInv
<1>2. CASE ConsumeRx(e)
  <2>1. PICK f \in rx[e] : /\ f.ch = consuming[e] /\ f.seq = expected[e][consuming[e]]
                           /\ DeliverFragment(e, f, rx[e] \ {f})
    BY <1>2 DEF ConsumeRx
  <2>2. f \in Frame /\ Genuine(Peer(e), f) /\ Installed(e, f.rs, f.ns)
    BY FrameFields DEF NumbersInv, SessionInv, Authentic, QueuedInSession
  <2>3. expected[e][f.ch] <= f.seq
    <3>1. f.seq \in Nat
      BY <1>1, FrameFields
    <3> QED
      BY <2>1, <3>1
  <2>4. UNCHANGED <<session, ready, rootSession, nodeSession, tainted, accepted, tx>>
    BY <1>2 DEF ConsumeRx, link
  <2>7. /\ pendingLost'[Peer(e)] = pendingLost[Peer(e)]
        /\ \A ch \in Channels : pendingLost'[e][ch] \subseteq pendingLost[e][ch]
    BY <1>2 DEF ConsumeRx
  <2> DEFINE left == rx[e] \ {f}
  <2>5. left \in SUBSET rx[e] /\ \A g \in rx[e] : g \in left \/ g = f
    OBVIOUS
  <2>6. DeliverFragment(e, f, left)
    BY <2>1
  <2> HIDE DEF left
  <2> QED
    BY <2>1, <2>2, <2>3, <2>4, <2>5, <2>6, <2>7
<1>3. ASSUME NEW p \in net[e], DataInOrder(e, p)
      PROVE  \E f \in Frame, left \in SUBSET rx[e] :
               /\ Genuine(Peer(e), f) /\ Installed(e, f.rs, f.ns)
               /\ expected[e][f.ch] <= f.seq
               /\ f.ch # TIME => f.seq = expected[e][f.ch]
               /\ DeliverFragment(e, f, left)
               /\ UNCHANGED <<session, ready, rootSession, nodeSession, tainted, accepted, tx>>
               /\ \A g \in rx[e] : g \in left \/ g = f \/ g.ch = TIME
               /\ pendingLost'[Peer(e)] = pendingLost[Peer(e)]
               /\ \A ch \in Channels : pendingLost'[e][ch] \subseteq pendingLost[e][ch]
  <2> DEFINE f == p.f
             left == IF Jumps(e, f) THEN {g \in rx[e] : g.ch # TIME} ELSE rx[e]
  <2>1. /\ p.type = "data" /\ Installed(e, f.rs, f.ns)
        /\ f.seq = expected[e][f.ch] \/ Jumps(e, f)
        /\ DeliverFragment(e, f, left)
        /\ UNCHANGED <<session, ready, rootSession, nodeSession, tainted, accepted, tx>>
    BY <1>3 DEF DataInOrder, DataArrives, KeepSession
  <2>2. f \in Frame /\ Genuine(Peer(e), f)
    BY <1>1, <2>1, Peers, PacketFields DEF NumbersInv, Authentic, Fits
  <2>3. f.seq \in Nat /\ expected[e][f.ch] \in Nat
    BY <1>1, <2>2, CountTypes DEF Frame
  <2>4. expected[e][f.ch] <= f.seq
    BY <2>1, <2>3 DEF Jumps
  <2>5. left \in SUBSET rx[e] /\ \A g \in rx[e] : g \in left \/ g.ch = TIME
    OBVIOUS
  <2>6. /\ pendingLost'[Peer(e)] = pendingLost[Peer(e)]
        /\ \A ch \in Channels : pendingLost'[e][ch] \subseteq pendingLost[e][ch]
    <3>1. \/ pendingLost' = pendingLost
          \/ f.ch = TIME /\ pendingLost' = [pendingLost EXCEPT ![e][TIME] = {}]
      BY <1>3 DEF DataInOrder, Jumps
    <3>2. f.ch \in Channels /\ Peer(e) # e /\ Peer(e) \in Ends
      BY <2>2, Peers DEF Frame
    <3>3. CASE pendingLost' = pendingLost
      BY <3>3
    <3>4. CASE f.ch = TIME /\ pendingLost' = [pendingLost EXCEPT ![e][TIME] = {}]
      <4>1. TIME \in Channels
        BY <3>2, <3>4
      <4> HIDE DEF f
      <4> QED
        BY <1>1, <3>2, <3>4, <4>1 DEF TypeOK
    <3> QED
      BY <3>1, <3>3, <3>4
  <2>7. f.ch # TIME => f.seq = expected[e][f.ch]
    BY <2>1 DEF Jumps
  <2> HIDE DEF left, f
  <2> QED
    BY <2>1, <2>2, <2>4, <2>5, <2>6, <2>7
<1> QED
  BY <1>2, <1>3

LEMMA OrderStep == NumbersInv /\ TypeOK' /\ OrderInv /\ [Next]_vars => OrderInv'
<1> SUFFICES ASSUME NumbersInv, TypeOK', OrderInv, [Next]_vars PROVE OrderInv'
  OBVIOUS
<1>1. TypeOK /\ Onward
  BY NumbersStep DEF NumbersInv, SessionInv, NumbersKept
<1>2. ASSUME NEW e \in Ends, ConsumeRx(e) \/ \E p \in net[e] : DataInOrder(e, p)
      PROVE  OrderInv'
  <2>1. PICK f \in Frame, left \in SUBSET rx[e] :
           /\ Genuine(Peer(e), f) /\ Installed(e, f.rs, f.ns)
           /\ expected[e][f.ch] <= f.seq
           /\ DeliverFragment(e, f, left)
           /\ UNCHANGED <<session, ready, rootSession, nodeSession, tainted, accepted, tx>>
    BY <1>2, TakenFrame
  <2> QED
    BY <1>1, <2>1, OrderDeliver
<1> QED
  BY <1>1, <1>2, OrderOther, OrderSteady

\* Within one session pair whose counting nobody restarted, the deliver callback
\* gets the messages of a channel in the order of their submits and each once, for
\* every number of fragments, window, pool and whatever the network does.
THEOREM InOrderAlways == Spec => []InOrder
<1>1. Init => OrderInv
  BY DEF Init, OrderInv, Partials, DeliveredPast, InOrder
<1>2. NumbersInv /\ NumbersInv' /\ OrderInv /\ [Next]_vars => OrderInv'
  BY OrderStep DEF NumbersInv, SessionInv
<1>3. OrderInv => InOrder
  BY DEF OrderInv
<1> QED
  BY <1>1, <1>2, <1>3, NumbersInvAlways, PTL DEF Spec

----------------------------------------------------------------------------
(* Nothing accepted is lost in silence.  A sender drops a fragment on the   *)
(* word of an ACK that may be old; the invariant therefore says of every    *)
(* ACK in the network, and of everything before the expected position, that *)
(* the receiver has the fragment, delivered or reported its message, or is  *)
(* done with the pair.                                                      *)

\* The report of number q of channel ch, of frames that src sent, in the pair of d.
Rep(d, src, ch, q) ==
  [src |-> src, rs |-> rootSession[d], ns |-> nodeSession[d], ch |-> ch, seq |-> q]

WasDelivered(d, m) == \E i \in DOMAIN delivered[d] : delivered[d][i] = m
Reported(e, m) ==
  \E r \in lost : /\ r.src = e /\ r.rs = m.rs /\ r.ns = m.ns /\ r.ch = m.ch
                  /\ r.seq \in m.first .. LastSeq(m)
Done(e, m) == WasDelivered(Peer(e), m) \/ Reported(e, m)

\* Fragment q of m is in the send queue of e, or with the receiver d.
Queued(e, m, q) == \E s \in tx[e] : s.f.seq = q /\ MessageOf(s.f) = m
InHand(d, m, q) ==
  \/ \E f \in rx[d] : f.seq = q /\ MessageOf(f) = m
  \/ \E r \in reassembly[d] : r.ch = m.ch /\ r.id = m.id /\ q \in r.got

\* The sender e need not keep fragment q of m any more.
Taken(e, m, q) == Over(Peer(e), Ids(m)) \/ Done(e, m) \/ InHand(Peer(e), m, q)

\* What is not queued any more was taken; what the receiver has gone past, and
\* what an ACK of whatever age claims, was taken.
TracedMessage(e, m) ==
  /\ Over(e, Ids(m)) \/ \A q \in Covers(m) : Queued(e, m, q) \/ Taken(e, m, q)
  /\ Holds(Peer(e), Ids(m)) =>
       \A q \in Covers(m) : q < expected[Peer(e)][m.ch] => Taken(e, m, q)
  /\ \A p \in net[e] : p.type = "ack" /\ Ids(p) = Ids(m) /\ p.ch = m.ch =>
       \A q \in Covers(m) : q \in p.sack => Taken(e, m, q)
Traced == \A e \in Ends : \A m \in accepted[e] : m.ch # TIME => TracedMessage(e, m)

\* A range a receiver will step over was reported.
PendingReported ==
  \A d \in Ends, ch \in Channels : \A q \in pendingLost[d][ch] :
    Rep(d, Peer(d), ch, q) \in lost

\* The inductive invariant of NoSilentLoss, on top of NumbersInv and OrderInv.
LossInv == Traced /\ PendingReported

LEMMA RepMakes ==
  ASSUME NEW d \in Ends, NEW e, NEW m, NEW q \in Covers(m), Pair(d) = Ids(m),
         Rep(d, e, m.ch, q) \in lost'
  PROVE  Reported(e, m)'
<1>1. PICK r \in lost' : r = Rep(d, e, m.ch, q)
  OBVIOUS
<1>2. r.src = e /\ r.rs = m.rs /\ r.ns = m.ns /\ r.ch = m.ch /\ r.seq \in m.first .. LastSeq(m)
  BY <1>1 DEF Rep, Pair, Ids, Covers
<1> QED
  BY <1>2 DEF Reported, LastSeq

\* Messages of one end that share a number of a pair nobody restarted are one.
LEMMA SameMessage ==
  ASSUME NumbersInv, NEW e \in Ends, NEW a \in accepted[e], NEW b \in accepted[e],
         a.ch = b.ch, Ids(a) = Ids(b), Ids(a) \notin tainted,
         NEW q \in Nat, q \in Covers(a), q \in Covers(b)
  PROVE  a = b
<1>1. TypeOK
  BY DEF NumbersInv, SessionInv
<1>2. /\ a.first \in Nat /\ LastSeq(a) \in Nat /\ b.first \in Nat /\ LastSeq(b) \in Nat
  BY <1>1, MessageFields
<1>3. a.first <= q /\ q <= LastSeq(a) /\ b.first <= q /\ q <= LastSeq(b)
  BY <1>2 DEF Covers
<1>4. a = b \/ LastSeq(a) < b.first \/ LastSeq(b) < a.first
  BY DEF NumbersInv, Numbered, Sound, Ids
<1> QED
  BY <1>2, <1>3, <1>4

LEMMA SameMessageNext ==
  ASSUME NumbersInv', NEW e \in Ends, NEW a \in accepted'[e], NEW b \in accepted'[e],
         a.ch = b.ch, Ids(a) = Ids(b), Ids(a) \notin tainted',
         NEW q \in Nat, q \in Covers(a), q \in Covers(b)
  PROVE  a = b
<1>1. a \in Message /\ b \in Message
  BY DEF NumbersInv, SessionInv, TypeOK
<1>2. a.first \in Nat /\ LastSeq(a) \in Nat /\ b.first \in Nat /\ LastSeq(b) \in Nat
  BY <1>1 DEF Message, LastSeq
<1>3. a.first <= q /\ q <= LastSeq(a) /\ b.first <= q /\ q <= LastSeq(b)
  BY <1>2 DEF Covers
<1>4. a = b \/ LastSeq(a) < b.first \/ LastSeq(b) < a.first
  BY DEF NumbersInv, Numbered, Sound, Ids, LastSeq
<1> QED
  BY <1>2, <1>3, <1>4

LEMMA CoversType ==
  ASSUME TypeOK, NEW e \in Ends, NEW m \in accepted[e], NEW q \in Covers(m)
  PROVE  q \in Nat /\ m.first <= q /\ q <= LastSeq(m)
<1>1. m.first \in Nat /\ LastSeq(m) \in Nat
  BY MessageFields
<1> QED
  BY <1>1 DEF Covers

\* A message of which an end has a fragment belongs to the pair the end holds.
LEMMA HandHolds ==
  ASSUME NumbersInv, OrderInv, NEW e \in Ends, NEW m \in accepted[e], NEW q,
         InHand(Peer(e), m, q)
  PROVE  /\ Holds(Peer(e), Ids(m)) /\ Pair(Peer(e)) = Ids(m)
         /\ \A r \in reassembly[Peer(e)] :
              r.ch = m.ch /\ r.id = m.id => MessageIn(Peer(e), r) = m
<1> DEFINE d == Peer(e)
<1>1. d \in Ends /\ Peer(d) = e
  BY Peers
<1> HIDE DEF d
<1>2. ASSUME NEW r \in reassembly[d], r.id = m.id
      PROVE  MessageIn(d, r) = m /\ ready[d]
  <2>1. MessageIn(d, r) \in accepted[e]
    BY <1>1 DEF OrderInv, Partials
  <2>2. MessageIn(d, r).id = m.id
    BY <1>2 DEF MessageIn
  <2>3. MessageIn(d, r) = m
    BY <2>1, <2>2 DEF NumbersInv, Numbered
  <2> QED
    BY <1>1, <2>3 DEF NumbersInv, SessionInv, QueuedInSession
<1>3. ASSUME NEW f \in rx[d], MessageOf(f) = m
      PROVE  Holds(d, Ids(m)) /\ Pair(d) = Ids(m)
  <2>1. Installed(d, f.rs, f.ns)
    BY <1>1 DEF NumbersInv, SessionInv, QueuedInSession
  <2>2. m.rs = f.rs /\ m.ns = f.ns
    BY <1>3 DEF MessageOf
  <2> QED
    BY <2>1, <2>2 DEF Installed, Holds, Pair, Ids
<1>4. ASSUME NEW r \in reassembly[d], r.id = m.id
      PROVE  Holds(d, Ids(m)) /\ Pair(d) = Ids(m)
  <2>1. MessageIn(d, r) = m /\ ready[d]
    BY <1>2, <1>4
  <2>2. m.rs = rootSession[d] /\ m.ns = nodeSession[d]
    BY <2>1 DEF MessageIn
  <2> QED
    BY <2>1, <2>2 DEF Holds, Pair, Ids
<1>5. InHand(d, m, q)
  BY DEF d
<1>6. Holds(d, Ids(m)) /\ Pair(d) = Ids(m)
  BY <1>3, <1>4, <1>5 DEF InHand
<1> QED
  BY <1>2, <1>6 DEF d

----------------------------------------------------------------------------
\* Reports and deliveries are never taken back.
Growing ==
  /\ lost \subseteq lost'
  /\ \A d \in Ends : \A m : WasDelivered(d, m) => WasDelivered(d, m)'

\* What the receiver d has, and what it goes past, ends up somewhere.
Reaches(d) ==
  \A m \in accepted[Peer(d)], q \in Nat :
    /\ m.ch # TIME /\ Ids(m) = Pair(d) /\ Pair(d) \notin tainted /\ q \in Covers(m)
    /\ InHand(d, m, q) \/ (expected[d][m.ch] <= q /\ q < expected'[d][m.ch])
    => Done(Peer(d), m)' \/ InHand(d, m, q)'
RxSide(d) ==
  \/ Leaves(d) /\ \A ch \in Channels : expected'[d][ch] = 1 /\ pendingLost'[d][ch] = {}
  \/ /\ ready'[d] = ready[d] /\ Pair(d)' = Pair(d)
     /\ Reaches(d)
     /\ \A ch \in Channels : \A q \in pendingLost'[d][ch] :
          q \in pendingLost[d][ch] \/ Rep(d, Peer(d), ch, q) \in lost'

\* What the sender e drops was acknowledged, reported, or replaced (TIME).
TxSide(e) ==
  \/ Leaves(e)
  \/ \A s \in tx[e] :
       \/ \E t \in tx'[e] : t.f = s.f
       \/ s.f.ch = TIME
       \/ Rep(e, e, s.f.ch, s.f.seq) \in lost'
       \/ \E p \in net[e] : p.type = "ack" /\ Ids(p) = Pair(e) /\ s \in Acked(e, p)

\* A new message is queued in full, with numbers not assigned before.
NewSide(e) ==
  \A m \in accepted'[e] :
    \/ m \in accepted[e]
    \/ /\ \A q \in Covers(m) : Queued(e, m, q)'
       /\ nextSeq[e][m.ch] <= m.first /\ Holds(e, Ids(m)) /\ net'[e] = net[e]
       /\ UNCHANGED <<expected, session, ready, rootSession, nodeSession, tainted>>

\* A new ACK claims only what its sender has.
AckSide(e) ==
  \A p \in net'[e] :
    p \in net[e] \/ (p.type = "ack" =>
      /\ ready'[Peer(e)] /\ Ids(p) = Pair(Peer(e))'
      /\ \A q \in p.sack : \E g \in rx'[Peer(e)] : g.ch = p.ch /\ g.seq = q)

\* What a step may do to what it finds, at both ends; LossCarried shows that it is
\* enough, and the lemmas Loss... that every step does no more.
Carries ==
  Growing /\ \A e \in Ends : RxSide(e) /\ TxSide(e) /\ NewSide(e) /\ AckSide(e)

\* What was taken stays taken.
LEMMA TakenKept ==
  ASSUME NumbersInv, TypeOK', OrderInv, Onward, Carries, NEW e \in Ends,
         NEW m \in accepted[e], m.ch # TIME, NEW q \in Covers(m), Taken(e, m, q)
  PROVE  Taken(e, m, q)'
<1> DEFINE d == Peer(e)
<1>1. d \in Ends /\ Peer(d) = e
  BY Peers
<1>2. TypeOK /\ Ids(m) \in Nat \X Nat /\ q \in Nat
  BY MessageFields, CoversType DEF NumbersInv, SessionInv
<1>3. PICK pair \in Nat \X Nat : pair = Ids(m)
  BY <1>2
<1> HIDE DEF d
<1>4. CASE Over(d, pair)
  <2>1. Over(d, pair)'
    BY <1>1, <1>2, <1>4, OverKept
  <2> QED
    BY <1>3, <2>1 DEF Taken, d
<1>5. CASE Done(e, m)
  <2>1. Done(e, m)'
    BY <1>1, <1>5 DEF Done, Reported, Carries, Growing, d
  <2> QED
    BY <2>1 DEF Taken
<1>6. CASE InHand(d, m, q)
  <2>1. Holds(d, pair) /\ Pair(d) = pair
    BY <1>3, <1>6, HandHolds DEF d
  <2>2. RxSide(d)
    BY <1>1 DEF Carries
  <2>3. CASE Leaves(d) \/ pair \in tainted
    <3>1. Over(d, pair)'
      BY <1>1, <1>2, <2>1, <2>3, OverKept DEF Leaves, Over
    <3> QED
      BY <1>3, <3>1 DEF Taken, d
  <2>4. CASE Reaches(d) /\ pair \notin tainted
    <3>1. Done(e, m)' \/ InHand(d, m, q)'
      BY <1>1, <1>2, <1>3, <1>6, <2>1, <2>4 DEF Reaches
    <3> QED
      BY <3>1 DEF Taken, d
  <2> QED
    BY <2>2, <2>3, <2>4 DEF RxSide
<1> QED
  BY <1>3, <1>4, <1>5, <1>6 DEF Taken, d

\* A message accepted before the step.
LEMMA TracedOld ==
  ASSUME NumbersInv, NumbersInv', OrderInv, LossInv, Onward, Carries, NEW e \in Ends,
         NEW m \in accepted[e], m.ch # TIME
  PROVE  TracedMessage(e, m)'
<1> DEFINE d == Peer(e)
<1>1. d \in Ends /\ Peer(d) = e
  BY Peers
<1>2. TypeOK /\ TypeOK' /\ Ids(m) \in Nat \X Nat /\ m.ch \in Channels /\ m.first \in Nat \ {0}
  BY MessageFields DEF NumbersInv, SessionInv, Numbered
<1>3. PICK pair \in Nat \X Nat : pair = Ids(m)
  BY <1>2
<1>4. TracedMessage(e, m) /\ RxSide(d) /\ TxSide(e) /\ AckSide(e)
  BY <1>1 DEF LossInv, Traced, Carries
<1>5. \A q \in Covers(m) : q \in Nat /\ m.first <= q
  BY <1>2, CoversType
<1>6. \A q \in Covers(m) : Taken(e, m, q) => Taken(e, m, q)'
  BY <1>2, TakenKept
<1>o. ASSUME NEW q, Over(d, pair)' PROVE Taken(e, m, q)'
  BY <1>3, <1>o DEF Taken
<1> HIDE DEF d
<1>7. Over(e, pair)' \/ \A q \in Covers(m) : Queued(e, m, q)' \/ Taken(e, m, q)'
  <2>1. CASE Over(e, pair)
    BY <1>2, <2>1, OverKept
  <2>2. ASSUME ~Over(e, pair)', NEW q \in Covers(m), Queued(e, m, q)
        PROVE  Queued(e, m, q)' \/ Taken(e, m, q)'
    <3>1. PICK s \in tx[e] : s.f.seq = q /\ MessageOf(s.f) = m
      BY <2>2 DEF Queued
    <3>2. s.f.ch = m.ch /\ s.f.rs = m.rs /\ s.f.ns = m.ns
      BY <3>1 DEF MessageOf
    <3>3. Holds(e, pair) /\ Pair(e) = pair
      BY <1>3, <3>2 DEF NumbersInv, SessionInv, QueuedInSession, Installed, Holds, Pair, Ids
    <3>4. ~Leaves(e)
      BY <2>2, <3>3 DEF Leaves
    <3>5. CASE \E t \in tx'[e] : t.f = s.f
      BY <3>1, <3>5 DEF Queued
    <3>6. CASE Rep(e, e, s.f.ch, s.f.seq) \in lost'
      <4>1. Reported(e, m)'
        BY <1>3, <3>1, <3>2, <3>3, <3>6, RepMakes
      <4> QED
        BY <4>1 DEF Taken, Done
    <3>7. ASSUME NEW p \in net[e], p.type = "ack", Ids(p) = Pair(e), s \in Acked(e, p)
          PROVE  Taken(e, m, q)
      <4>1. p.ch = m.ch /\ (q <= p.ack \/ q \in p.sack)
        BY <3>1, <3>2, <3>7 DEF Acked
      <4>2. CASE q \in p.sack
        BY <1>3, <1>4, <3>3, <3>7, <4>1, <4>2 DEF TracedMessage
      <4>3. CASE q <= p.ack
        <5>1. Past(d, pair, m.ch, p.ack)
          BY <3>3, <3>7, <4>1 DEF NumbersInv, Authentic, Fits, d
        <5>2. CASE Over(d, pair)
          BY <1>3, <5>2 DEF Taken, d
        <5>3. CASE Holds(d, pair) /\ p.ack < expected[d][m.ch]
          <6>1. p.ack \in Nat /\ expected[d][m.ch] \in Nat
            <7>1. p \in Packet
              BY <1>2 DEF TypeOK
            <7> QED
              BY <1>1, <1>2, <3>7, <7>1, CountTypes DEF Packet, Hello, HelloAck, Data, Ack, Lost
          <6>2. q < expected[d][m.ch]
            BY <1>5, <4>3, <5>3, <6>1
          <6> QED
            BY <1>3, <1>4, <5>3, <6>2 DEF TracedMessage, d
        <5> QED
          BY <5>1, <5>2, <5>3 DEF Past
      <4> QED
        BY <4>1, <4>2, <4>3
    <3> QED
      BY <1>4, <1>6, <3>2, <3>4, <3>5, <3>6, <3>7 DEF TxSide
  <2>3. Over(e, pair) \/ \A q \in Covers(m) : Queued(e, m, q) \/ Taken(e, m, q)
    BY <1>3, <1>4 DEF TracedMessage
  <2> QED
    BY <1>6, <2>1, <2>2, <2>3
<1>8. ASSUME Holds(d, pair)', NEW q \in Covers(m), q < expected'[d][m.ch]
      PROVE  Taken(e, m, q)'
  <2>1. q \in Nat /\ m.first <= q /\ expected[d][m.ch] \in Nat /\ expected'[d][m.ch] \in Nat
    BY <1>1, <1>2, <1>5 DEF TypeOK
  <2>2. ~(\A ch \in Channels : expected'[d][ch] = 1)
    BY <1>2, <1>8, <2>1
  <2>3. ready'[d] = ready[d] /\ Pair(d)' = Pair(d) /\ Reaches(d)
    BY <1>4, <2>2 DEF RxSide
  <2>4. Holds(d, pair) /\ Pair(d) = pair
    BY <1>8, <2>3 DEF Holds
  <2>5. CASE q < expected[d][m.ch]
    BY <1>3, <1>4, <1>6, <2>4, <2>5 DEF TracedMessage, d
  <2>6. CASE expected[d][m.ch] <= q /\ pair \in tainted
    BY <1>1, <1>o, <2>6 DEF Onward, Over
  <2>7. CASE expected[d][m.ch] <= q /\ pair \notin tainted
    <3>1. Done(e, m)' \/ InHand(d, m, q)'
      BY <1>1, <1>3, <1>8, <2>1, <2>3, <2>4, <2>7 DEF Reaches
    <3> QED
      BY <3>1 DEF Taken, d
  <2> QED
    BY <2>1, <2>5, <2>6, <2>7
<1>9. ASSUME NEW p \in net'[e], p.type = "ack", Ids(p) = pair, p.ch = m.ch,
             NEW q \in Covers(m), q \in p.sack
      PROVE  Taken(e, m, q)'
  <2>1. CASE p \in net[e]
    BY <1>3, <1>4, <1>6, <1>9, <2>1 DEF TracedMessage
  <2>2. CASE p \notin net[e]
    <3>1. Pair(d)' = pair /\ \E g \in rx'[d] : g.ch = p.ch /\ g.seq = q
      BY <1>4, <1>9, <2>2 DEF AckSide, d
    <3>2. PICK g \in rx'[d] : g.ch = m.ch /\ g.seq = q
      BY <1>9, <3>1
    <3>3. Genuine(e, g)' /\ Ids(g) = pair
      BY <1>1, <3>1 DEF NumbersInv, SessionInv, QueuedInSession, Installed, Authentic,
         Pair, Ids
    <3>4. PICK b : b = MessageOf(g)
      OBVIOUS
    <3>5. /\ b \in accepted'[e] /\ b.ch = m.ch /\ Ids(b) = pair /\ q \in Covers(b)
      BY <3>2, <3>3, <3>4 DEF Genuine, MessageOf, Ids, Covers, LastSeq
    <3>6. m \in accepted'[e]
      BY DEF Onward
    <3>7. CASE pair \in tainted'
      BY <1>o, <3>7 DEF Over
    <3>8. CASE pair \notin tainted'
      <4>1. b = m
        BY <1>3, <1>5, <3>5, <3>6, <3>8, SameMessageNext
      <4>2. InHand(d, m, q)'
        BY <3>2, <3>4, <4>1 DEF InHand
      <4> QED
        BY <4>2 DEF Taken, d
    <3> QED
      BY <3>7, <3>8
  <2> QED
    BY <2>1, <2>2
<1> QED
  BY <1>3, <1>7, <1>8, <1>9 DEF TracedMessage, d

\* A message the step accepts.
LEMMA TracedNew ==
  ASSUME NumbersInv, NumbersInv', Onward, Carries, NEW e \in Ends,
         NEW m \in accepted'[e], m \notin accepted[e]
  PROVE  TracedMessage(e, m)'
<1> DEFINE d == Peer(e)
<1>1. d \in Ends /\ Peer(d) = e
  BY Peers
<1>2. /\ \A q \in Covers(m) : Queued(e, m, q)'
      /\ nextSeq[e][m.ch] <= m.first /\ Holds(e, Ids(m)) /\ net'[e] = net[e]
      /\ UNCHANGED <<expected, session, ready, rootSession, nodeSession, tainted>>
  BY DEF Carries, NewSide
<1>3. SessionInv /\ TypeOK /\ Follows /\ m \in Message
  BY DEF NumbersInv, SessionInv, TypeOK
<1>4. m.ch \in Channels /\ m.first \in Nat /\ LastSeq(m) \in Nat
  BY <1>3 DEF Message, LastSeq
<1>5. ASSUME NEW q \in Covers(m) PROVE q \in Nat /\ m.first <= q
  BY <1>4 DEF Covers
<1>6. PICK pair : pair = Ids(m) /\ pair = Pair(e) /\ ready[e]
  BY <1>2 DEF Holds
<1>7. nextSeq[e][m.ch] \in Nat /\ expected[d][m.ch] \in Nat \ {0}
  BY <1>1, <1>3, <1>4, CountTypes
<1> HIDE DEF d
<1>8. ASSUME Over(d, pair)', NEW q PROVE Taken(e, m, q)'
  BY <1>6, <1>8 DEF Taken, d
<1>9. CASE pair \in tainted
  BY <1>2, <1>6, <1>8, <1>9 DEF TracedMessage, Over
<1>10. CASE pair \notin tainted
  <2>1. ASSUME Holds(d, pair), NEW q \in Covers(m), q < expected[d][m.ch] PROVE FALSE
    <3>1. expected[d][m.ch] <= nextSeq[e][m.ch]
      <4>1. FollowsAt(d)
        BY <1>1, <1>3 DEF Follows
      <4>2. CASE expected[d][m.ch] = 1
        <5>1. nextSeq[e][m.ch] # 0
          BY <1>3, <1>4, CountTypes
        <5> QED
          BY <1>7, <4>2, <5>1
      <4>3. CASE Assigned(e, pair, m.ch, expected[d][m.ch] - 1)
        <5>1. expected[d][m.ch] - 1 < nextSeq[e][m.ch]
          BY <1>3, <1>6, <1>10, <4>3, AssignedHere
        <5> QED
          BY <1>7, <5>1
      <4> QED
        BY <1>1, <1>4, <2>1, <4>1, <4>2, <4>3 DEF FollowsAt, Holds
    <3> QED
      BY <1>2, <1>4, <1>5, <1>7, <2>1, <3>1
  <2>2. ASSUME NEW p \in net[e], p.type = "ack", Ids(p) = pair, p.ch = m.ch,
               NEW q \in Covers(m), q \in p.sack
        PROVE  FALSE
    <3>1. Assigned(e, Pair(e), m.ch, q)
      BY <1>6, <2>2 DEF NumbersInv, Authentic, Fits
    <3>2. q < nextSeq[e][m.ch]
      BY <1>3, <1>6, <1>10, <3>1, AssignedHere
    <3> QED
      BY <1>2, <1>4, <1>5, <1>7, <3>2
  <2>3. Holds(d, pair)' => Holds(d, pair)
    BY <1>2 DEF Holds, Pair
  <2> QED
    BY <1>2, <1>6, <2>1, <2>2, <2>3 DEF TracedMessage, d
<1> QED
  BY <1>9, <1>10

\* Steps that carry everything on keep the invariant.
LEMMA LossCarried ==
  ASSUME NumbersInv, NumbersInv', OrderInv, LossInv, Onward, Carries
  PROVE  LossInv'
<1>1. Traced'
  BY TracedOld, TracedNew DEF Traced
<1>2. ASSUME NEW d \in Ends, NEW ch \in Channels, NEW q \in pendingLost'[d][ch]
      PROVE  Rep(d, Peer(d), ch, q)' \in lost'
  <2>1. RxSide(d) /\ lost \subseteq lost'
    BY DEF Carries, Growing
  <2>2. /\ Pair(d)' = Pair(d)
        /\ q \in pendingLost[d][ch] \/ Rep(d, Peer(d), ch, q) \in lost'
    BY <1>2, <2>1 DEF RxSide
  <2>3. Rep(d, Peer(d), ch, q)' = Rep(d, Peer(d), ch, q)
    BY <2>2 DEF Rep, Pair
  <2> QED
    BY <2>1, <2>2, <2>3 DEF LossInv, PendingReported
<1> QED
  BY <1>1, <1>2 DEF LossInv, PendingReported

----------------------------------------------------------------------------
(* Every step carries on what it found.                                    *)

\* A receiver that goes on, delivers nothing and reports what it drops or skips.
LEMMA RxPlain ==
  ASSUME NumbersInv, OrderInv, NEW d \in Ends,
         ready'[d] = ready[d], Pair(d)' = Pair(d), rx[d] \subseteq rx'[d],
         \A r \in reassembly[d] :
           \/ r \in reassembly'[d]
           \/ \E q \in r.first .. LastSeq(r) : Rep(d, Peer(d), r.ch, q) \in lost',
         \A ch \in Channels, q \in Nat :
           expected[d][ch] <= q /\ q < expected'[d][ch] => Rep(d, Peer(d), ch, q) \in lost',
         \A ch \in Channels : \A q \in pendingLost'[d][ch] :
           q \in pendingLost[d][ch] \/ Rep(d, Peer(d), ch, q) \in lost'
  PROVE  RxSide(d)
<1>1. TypeOK /\ Peer(d) \in Ends /\ Peer(Peer(d)) = d
  BY Peers DEF NumbersInv, SessionInv
<1>2. ASSUME NEW m \in accepted[Peer(d)], NEW q \in Nat, Ids(m) = Pair(d), q \in Covers(m),
             InHand(d, m, q) \/ (expected[d][m.ch] <= q /\ q < expected'[d][m.ch])
      PROVE  Done(Peer(d), m)' \/ InHand(d, m, q)'
  <2>1. ASSUME NEW x \in Covers(m), Rep(d, Peer(d), m.ch, x) \in lost'
        PROVE  Done(Peer(d), m)'
    <3>1. Reported(Peer(d), m)'
      BY <1>2, <2>1, RepMakes
    <3> QED
      BY <3>1 DEF Done
  <2>2. ASSUME NEW f \in rx[d], f.seq = q, MessageOf(f) = m
        PROVE  InHand(d, m, q)'
    BY <2>2 DEF InHand
  <2>3. ASSUME NEW r \in reassembly[d], r.ch = m.ch, r.id = m.id, q \in r.got
        PROVE  Done(Peer(d), m)' \/ InHand(d, m, q)'
    <3>1. CASE r \in reassembly'[d]
      BY <2>3, <3>1 DEF InHand
    <3>2. ASSUME NEW x \in r.first .. LastSeq(r), Rep(d, Peer(d), r.ch, x) \in lost'
          PROVE  Done(Peer(d), m)'
      <4>1. InHand(d, m, q)
        BY <2>3 DEF InHand
      <4>2. MessageIn(d, r) = m
        BY <1>1, <2>3, <4>1, HandHolds
      <4>3. m.first = r.first /\ LastSeq(m) = LastSeq(r)
        BY <4>2 DEF MessageIn, LastSeq
      <4> QED
        BY <2>1, <2>3, <3>2, <4>3 DEF Covers
    <3> QED
      BY <3>1, <3>2
  <2>4. CASE expected[d][m.ch] <= q /\ q < expected'[d][m.ch]
    <3>1. m.ch \in Channels
      BY <1>1, MessageFields
    <3> QED
      BY <1>2, <2>1, <2>4, <3>1
  <2> QED
    BY <1>2, <2>2, <2>3, <2>4 DEF InHand
<1>3. Reaches(d)
  BY <1>2 DEF Reaches
<1> QED
  BY <1>3 DEF RxSide

\* A step that leaves end o alone.
Aside(o) ==
  /\ ready'[o] = ready[o] /\ Pair(o)' = Pair(o)
  /\ expected'[o] = expected[o] /\ pendingLost'[o] = pendingLost[o]
  /\ tx'[o] = tx[o] /\ rx'[o] = rx[o] /\ reassembly'[o] = reassembly[o]

LEMMA AsideRx ==
  ASSUME NumbersInv, OrderInv, NEW d \in Ends,
         ready'[d] = ready[d], Pair(d)' = Pair(d), rx[d] \subseteq rx'[d],
         expected'[d] = expected[d], pendingLost'[d] = pendingLost[d],
         reassembly'[d] = reassembly[d]
  PROVE  RxSide(d)
<1>1. TypeOK
  BY DEF NumbersInv, SessionInv
<1>2. ASSUME NEW ch \in Channels, NEW q \in Nat, expected[d][ch] <= q, q < expected'[d][ch]
      PROVE  FALSE
  <2>1. expected[d][ch] \in Nat
    BY <1>1, CountTypes
  <2> QED
    BY <1>2, <2>1
<1> QED
  BY <1>2, RxPlain

\* A step of end e that accepts no message.
LEMMA CarriesBy ==
  ASSUME NumbersInv, OrderInv, Growing, NEW e \in Ends, NEW packets,
         net' = net \/ Send(e, packets), accepted' = accepted,
         Aside(Peer(e)), RxSide(e), TxSide(e),
         \A p \in packets : p.type = "ack" =>
           /\ ready'[e] /\ Ids(p) = Pair(e)'
           /\ \A q \in p.sack : \E g \in rx'[e] : g.ch = p.ch /\ g.seq = q
  PROVE  Carries
<1>1. TypeOK /\ Peer(e) \in Ends /\ Peer(Peer(e)) = e /\ \A o \in Ends : o = e \/ o = Peer(e)
  BY Peers DEF NumbersInv, SessionInv
<1>2. RxSide(Peer(e))
  BY <1>1, AsideRx DEF Aside
<1>3. TxSide(Peer(e))
  BY DEF Aside, TxSide
<1>4. \A o \in Ends : NewSide(o)
  BY DEF NewSide
<1>5. ASSUME NEW o \in Ends, NEW p \in net'[o], p \notin net[o], p.type = "ack"
      PROVE  /\ ready'[Peer(o)] /\ Ids(p) = Pair(Peer(o))'
             /\ \A q \in p.sack : \E g \in rx'[Peer(o)] : g.ch = p.ch /\ g.seq = q
  <2>1. o = Peer(e) /\ p \in packets
    BY <1>1, <1>5 DEF Send, TypeOK
  <2> QED
    BY <1>1, <1>5, <2>1
<1>6. \A o \in Ends : AckSide(o)
  BY <1>5 DEF AckSide
<1> QED
  BY <1>1, <1>2, <1>3, <1>4, <1>6 DEF Carries

\* The same for a step that sends no ACK.
LEMMA CarriesQuiet ==
  ASSUME NumbersInv, OrderInv, Growing, NEW e \in Ends, NEW packets,
         net' = net \/ Send(e, packets), accepted' = accepted,
         Aside(Peer(e)), RxSide(e), TxSide(e), \A p \in packets : p.type # "ack"
  PROVE  Carries
  BY CarriesBy

\* A step that empties end e and leaves its pair.
LEMMA CarriesCleared ==
  ASSUME NumbersInv, OrderInv, Growing, NEW e \in Ends, NEW packets,
         net' = net \/ Send(e, packets), accepted' = accepted,
         RestartSpaces(e), Leaves(e),
         ready'[Peer(e)] = ready[Peer(e)], Pair(Peer(e))' = Pair(Peer(e)),
         \A p \in packets : p.type # "ack"
  PROVE  Carries
<1>1. TypeOK /\ Peer(e) \in Ends /\ Peer(e) # e
  BY Peers DEF NumbersInv, SessionInv
<1>2. expected'[e] = Ones /\ pendingLost'[e] = Empty
  BY <1>1 DEF RestartSpaces, TypeOK
<1>3. RxSide(e)
  BY <1>2 DEF RxSide, Ones, Empty
<1>4. TxSide(e)
  BY DEF TxSide
<1>5. Aside(Peer(e))
  BY <1>1 DEF Aside, RestartSpaces, TypeOK
<1> QED
  BY <1>3, <1>4, <1>5, CarriesQuiet

LEMMA CarriesGivenUp ==
  ASSUME NumbersInv, OrderInv, NEW e \in Ends, NEW packets, NEW alsoLost,
         ClearPeerBuffers(e, alsoLost), net' = net \/ Send(e, packets),
         UNCHANGED <<accepted, delivered>>,
         ready'[Peer(e)] = ready[Peer(e)], Pair(Peer(e))' = Pair(Peer(e)),
         \A p \in packets : p.type # "ack"
  PROVE  Carries
<1>1. SessionInv /\ RestartSpaces(e) /\ Taint(e)
  BY DEF NumbersInv, ClearPeerBuffers
<1>2. lost \subseteq lost'
  BY DEF ClearPeerBuffers
<1>3. Growing
  BY <1>2 DEF Growing, WasDelivered
<1> QED
  BY <1>1, <1>3, TaintLeaves, CarriesCleared

\* An end gives its peer up.
LEMMA LossGivenUp ==
  ASSUME NumbersInv, OrderInv, NEW e \in Ends,
         \/ \E p \in net[e] : DataOverflow(e, p)
         \/ \E p \in net[e] : LostAhead(e, p) /\ ready' # ready
         \/ PollRouteTimeout(e)
         \/ PollExhausted(e)
  PROVE  Carries
<1>1. TypeOK /\ Peer(e) \in Ends /\ Peer(e) # e
  BY Peers DEF NumbersInv, SessionInv
<1> DEFINE nothing == {}
<1>2. \A p \in nothing : p.type # "ack"
  OBVIOUS
<1>3. ready' = [ready EXCEPT ![e] = FALSE] => ready'[Peer(e)] = ready[Peer(e)]
  BY <1>1 DEF TypeOK
<1> HIDE DEF nothing
<1>4. ASSUME NEW also, ClearPeerBuffers(e, also), ready' = [ready EXCEPT ![e] = FALSE],
             UNCHANGED <<net, accepted, delivered, rootSession, nodeSession>>
      PROVE  Carries
  <2>1. Pair(Peer(e))' = Pair(Peer(e))
    BY <1>4 DEF Pair
  <2> QED
    BY <1>2, <1>3, <1>4, <2>1, CarriesGivenUp
<1>5. CASE \E p \in net[e] : DataOverflow(e, p)
  BY <1>4, <1>5 DEF DataOverflow, NoRxSlot
<1>6. CASE \E p \in net[e] : LostAhead(e, p) /\ ready' # ready
  BY <1>4, <1>6 DEF LostAhead, LostArrives
<1>7. CASE PollRouteTimeout(e)
  BY <1>4, <1>7 DEF PollRouteTimeout
<1>8. CASE PollExhausted(e)
  <2>1. PICK s \in tx[e] : Send(e, {LostPacket(e, s.f.ch, s.f.seq, s.f.seq, FALSE)})
    BY <1>8 DEF PollExhausted
  <2> DEFINE packets == {LostPacket(e, s.f.ch, s.f.seq, s.f.seq, FALSE)}
  <2>2. Send(e, packets) /\ \A p \in packets : p.type # "ack"
    BY <2>1 DEF LostPacket
  <2>3. ready'[Peer(e)] = ready[Peer(e)] /\ Pair(Peer(e))' = Pair(Peer(e))
    BY <1>1, <1>8 DEF PollExhausted, Pair, TypeOK
  <2> HIDE DEF packets
  <2> QED
    BY <1>8, <2>2, <2>3, CarriesGivenUp DEF PollExhausted
<1> QED
  BY <1>5, <1>6, <1>7, <1>8

LEMMA LossReboot ==
  ASSUME NumbersInv, OrderInv, Onward, NEW e \in Ends, Reboot(e)
  PROVE  Carries
<1>1. TypeOK /\ Peer(e) \in Ends /\ Peer(e) # e
  BY Peers DEF NumbersInv, SessionInv
<1>2. /\ RestartSpaces(e) /\ net' = net /\ session'[e] = session[e] + 1
      /\ UNCHANGED <<accepted, delivered, lost>>
      /\ ready'[Peer(e)] = ready[Peer(e)] /\ Pair(Peer(e))' = Pair(Peer(e))
  BY <1>1 DEF Reboot, hist, TypeOK, Pair
<1>3. Leaves(e)
  <2>1. session[e] \in Nat
    BY <1>1 DEF TypeOK
  <2> QED
    BY <1>2, <2>1 DEF Onward, Steady
<1>4. Growing
  BY <1>2 DEF Growing, WasDelivered
<1> DEFINE nothing == {}
<1>5. \A p \in nothing : p.type # "ack"
  OBVIOUS
<1> HIDE DEF nothing
<1> QED
  BY <1>2, <1>3, <1>4, <1>5, CarriesCleared

LEMMA LossRemoved ==
  ASSUME NumbersInv, OrderInv, RemovePeer
  PROVE  Carries
<1>1. SessionInv /\ TypeOK /\ Peer("root") = "node" /\ "root" \in Ends
  BY DEF NumbersInv, SessionInv, Peer
<1>2. /\ RestartSpaces("root") /\ Taint("root") /\ net' = net
      /\ UNCHANGED <<accepted, delivered, lost>>
      /\ ready'["node"] = ready["node"] /\ Pair("node")' = Pair("node")
  BY <1>1 DEF RemovePeer, TypeOK, Pair
<1>3. Growing
  BY <1>2 DEF Growing, WasDelivered
<1> DEFINE nothing == {}
<1>4. \A p \in nothing : p.type # "ack"
  OBVIOUS
<1> HIDE DEF nothing
<1> QED
  BY <1>1, <1>2, <1>3, <1>4, TaintLeaves, CarriesCleared

\* A handshake that keeps the buffers.
LEMMA CarriesKept ==
  ASSUME NumbersInv, OrderInv, NEW e \in Ends, NEW packets, KeepBuffers, ready'[e],
         ready[e] => Pair(e)' = Pair(e),
         ready'[Peer(e)] = ready[Peer(e)], Pair(Peer(e))' = Pair(Peer(e)),
         UNCHANGED <<accepted, delivered>>,
         net' = net \/ Send(e, packets), \A p \in packets : p.type # "ack"
  PROVE  Carries
<1>1. TypeOK /\ FollowsAt(e)
  BY DEF NumbersInv, SessionInv, Follows
<1>2. UNCHANGED <<expected, pendingLost, tx, rx, reassembly, lost>>
  BY DEF KeepBuffers, seqs, slots
<1>3. RxSide(e)
  <2>1. CASE ready[e]
    <3>1. ready'[e] = ready[e]
      BY <1>1, <2>1 DEF TypeOK
    <3> QED
      BY <1>2, <2>1, <3>1, AsideRx
  <2>2. CASE ~ready[e]
    BY <1>1, <1>2, <2>2 DEF RxSide, FollowsAt, Leaves, Holds
  <2> QED
    BY <2>1, <2>2
<1>4. TxSide(e)
  BY <1>2 DEF TxSide
<1>5. Aside(Peer(e)) /\ Growing
  BY <1>2 DEF Aside, Growing, WasDelivered
<1> QED
  BY <1>3, <1>4, <1>5, CarriesQuiet

LEMMA LossHello ==
  ASSUME NumbersInv, OrderInv, NEW p \in net["root"], HandleHello(p)
  PROVE  Carries
<1> DEFINE packets == {[type |-> "hello_ack", rs |-> session["root"], ns |-> p.ns,
                        reset |-> HelloReset(p)]}
<1>1. SessionInv /\ TypeOK /\ Peer("root") = "node" /\ "root" \in Ends
  BY DEF NumbersInv, SessionInv, Peer
<1>2. /\ UNCHANGED <<session, accepted, delivered>> /\ Send("root", packets)
      /\ \A x \in packets : x.type # "ack"
  BY DEF HandleHello
<1>3. /\ ready'["root"] /\ rootSession'["root"] = session["root"]
      /\ nodeSession'["root"] = p.ns
      /\ ready'["node"] = ready["node"] /\ Pair("node")' = Pair("node")
  BY <1>1 DEF HandleHello, TypeOK, Pair
<1> HIDE DEF packets
<1>4. CASE ClearPeerBuffers("root", {})
  BY <1>1, <1>2, <1>3, <1>4, CarriesGivenUp
<1>5. CASE ~HelloReset(p) /\ KeepBuffers
  <2>1. ready["root"] => Pair("root")' = Pair("root")
    BY <1>1, <1>3, <1>5 DEF HelloReset, Pair, SessionInv, SessionsBound
  <2> QED
    BY <1>1, <1>2, <1>3, <1>5, <2>1, CarriesKept
<1> QED
  BY <1>4, <1>5 DEF HandleHello

LEMMA LossHelloAck ==
  ASSUME NumbersInv, OrderInv, NEW p \in net["node"], HandleHelloAck(p)
  PROVE  Carries
<1>1. SessionInv /\ TypeOK /\ Peer("node") = "root" /\ "node" \in Ends
  BY DEF NumbersInv, SessionInv, Peer
<1>2. UNCHANGED <<session, accepted, delivered>> /\ net' = net /\ p.ns = session["node"]
  BY DEF HandleHelloAck
<1>3. /\ ready'["node"] /\ rootSession'["node"] = p.rs
      /\ nodeSession'["node"] = session["node"]
      /\ ready'["root"] = ready["root"] /\ Pair("root")' = Pair("root")
  BY <1>1 DEF HandleHelloAck, TypeOK, Pair
<1> DEFINE nothing == {}
<1>4. \A x \in nothing : x.type # "ack"
  OBVIOUS
<1> HIDE DEF nothing
<1>5. CASE ClearPeerBuffers("node", {})
  BY <1>1, <1>2, <1>3, <1>4, <1>5, CarriesGivenUp
<1>6. CASE ~SessionChanged(p) /\ KeepBuffers
  <2>1. ready["node"] => Pair("node")' = Pair("node")
    BY <1>1, <1>2, <1>3, <1>6 DEF SessionChanged, Pair, SessionInv, SessionsBound
  <2> QED
    BY <1>1, <1>2, <1>3, <1>4, <1>6, <2>1, CarriesKept
<1> QED
  BY <1>5, <1>6 DEF HandleHelloAck

\* A step that only sends, changes the route or drops frames to send.
LEMMA CarriesTx ==
  ASSUME NumbersInv, OrderInv, NEW e \in Ends, NEW packets,
         net' = net \/ Send(e, packets), \A p \in packets : p.type # "ack",
         lost \subseteq lost',
         UNCHANGED <<ready, rootSession, nodeSession, expected, pendingLost, rx,
                     reassembly, accepted, delivered>>,
         tx'[Peer(e)] = tx[Peer(e)], TxSide(e)
  PROVE  Carries
<1>1. \A o \in Ends : Pair(o)' = Pair(o)
  BY DEF Pair
<1>2. RxSide(e)
  BY <1>1, AsideRx
<1>3. Aside(Peer(e))
  BY <1>1, Peers DEF Aside
<1>4. Growing
  BY DEF Growing, WasDelivered
<1> QED
  BY <1>2, <1>3, <1>4, CarriesQuiet

LEMMA LossOutside ==
  ASSUME NumbersInv, OrderInv,
         \/ SendHello
         \/ Supersede
         \/ \E e \in Ends, up \in BOOLEAN : PeerRoute(e, up)
         \/ UNCHANGED vars
  PROVE  Carries
<1>1. TypeOK
  BY DEF NumbersInv, SessionInv
<1>2. UNCHANGED <<ready, rootSession, nodeSession, expected, pendingLost, rx,
                  reassembly, accepted, delivered, lost>>
  BY DEF SendHello, Supersede, PeerRoute, vars, link, seqs, slots, hist
<1>3. CASE tx' = tx /\ net' = net
  <2> DEFINE nothing == {}
  <2>1. \A p \in nothing : p.type # "ack"
    OBVIOUS
  <2> HIDE DEF nothing
  <2>2. TxSide("root") /\ "root" \in Ends
    BY <1>3 DEF TxSide
  <2> QED
    BY <1>2, <1>3, <2>1, <2>2, CarriesTx
<1>4. CASE SendHello
  <2> DEFINE packets == {[type |-> "hello", ns |-> session["node"],
                          seen |-> rootSession["node"]]}
  <2>1. /\ Send("node", packets) /\ \A p \in packets : p.type # "ack"
        /\ tx' = tx /\ "node" \in Ends
    BY <1>4 DEF SendHello, slots
  <2> HIDE DEF packets
  <2>2. TxSide("node")
    BY <2>1 DEF TxSide
  <2> QED
    BY <1>2, <2>1, <2>2, CarriesTx
<1>5. CASE Supersede
  <2>1. /\ tx'["root"] = tx["root"] \ ChannelUnacked("root", TIME)
        /\ tx'[Peer("root")] = tx[Peer("root")] /\ net' = net /\ "root" \in Ends
    BY <1>1, <1>5 DEF Supersede, TypeOK, Peer
  <2>2. TxSide("root")
    BY <2>1 DEF TxSide, ChannelUnacked
  <2> DEFINE nothing == {}
  <2>3. \A p \in nothing : p.type # "ack"
    OBVIOUS
  <2> HIDE DEF nothing
  <2> QED
    BY <1>2, <2>1, <2>2, <2>3, CarriesTx
<1> QED
  BY <1>3, <1>4, <1>5 DEF PeerRoute, vars, slots

LEMMA LossRetransmit ==
  ASSUME NumbersInv, OrderInv, NEW e \in Ends, PollRetransmit(e)
  PROVE  Carries
<1>1. TypeOK /\ Peer(e) # e /\ Peer(e) \in Ends
  BY Peers DEF NumbersInv, SessionInv
<1>2. PICK s \in tx[e] : /\ tx' = [tx EXCEPT ![e] = (@ \ {s}) \cup {Resent(s)}]
                         /\ Send(e, {DataPacket(s.f)})
  BY DEF PollRetransmit
<1>3. /\ tx'[e] = (tx[e] \ {s}) \cup {Resent(s)} /\ tx'[Peer(e)] = tx[Peer(e)]
      /\ Resent(s).f = s.f
  BY <1>1, <1>2, SlotFields, ResentFrame DEF TypeOK
<1>4. TxSide(e)
  BY <1>3 DEF TxSide
<1> DEFINE packets == {DataPacket(s.f)}
<1>5. Send(e, packets) /\ \A p \in packets : p.type # "ack"
  BY <1>2 DEF DataPacket
<1> HIDE DEF packets
<1> QED
  BY <1>3, <1>4, <1>5, CarriesTx DEF PollRetransmit, link, seqs, hist

LEMMA LossAck ==
  ASSUME NumbersInv, OrderInv, NEW e \in Ends, NEW p \in net[e], HandleAck(e, p)
  PROVE  Carries
<1> DEFINE left == tx[e] \ Acked(e, p)
           asked == {s \in left : s.f.ch = p.ch /\ s.f.seq = p.nack}
<1>1. TypeOK /\ Peer(e) # e /\ Peer(e) \in Ends
  BY Peers DEF NumbersInv, SessionInv
<1>2. /\ UNCHANGED <<ready, rootSession, nodeSession, expected, pendingLost, rx,
                     reassembly, accepted, delivered>>
      /\ p.type = "ack" /\ Ids(p) = Pair(e)
  BY DEF HandleAck, KeepSession, seqs, Installed, Ids, Pair
<1>3. ASSUME NEW q, tx' = [tx EXCEPT ![e] = q],
             \A s \in left : \E t \in q : t.f = s.f
      PROVE  TxSide(e) /\ tx'[Peer(e)] = tx[Peer(e)]
  <2>1. tx'[e] = q /\ tx'[Peer(e)] = tx[Peer(e)]
    BY <1>1, <1>3 DEF TypeOK
  <2>2. \A s \in tx[e] : (\E t \in tx'[e] : t.f = s.f) \/ s \in Acked(e, p)
    BY <1>3, <2>1
  <2> QED
    BY <1>2, <2>1, <2>2 DEF TxSide
<1>4. CASE tx' = [tx EXCEPT ![e] = left] /\ net' = net /\ lost' = lost
  <2> DEFINE nothing == {}
  <2>1. \A x \in nothing : x.type # "ack"
    OBVIOUS
  <2> HIDE DEF nothing
  <2> QED
    BY <1>2, <1>3, <1>4, <2>1, CarriesTx
<1>5. ASSUME NEW s \in asked, Send(e, {DataPacket(s.f)}), lost' = lost,
             tx' = [tx EXCEPT ![e] = (left \ {s}) \cup {Resent(s)}]
      PROVE  Carries
  <2>1. Resent(s).f = s.f
    BY <1>1, SlotFields, ResentFrame
  <2>2. TxSide(e) /\ tx'[Peer(e)] = tx[Peer(e)]
    <3> DEFINE q == (left \ {s}) \cup {Resent(s)}
    <3>1. \A x \in left : \E t \in q : t.f = x.f
      BY <2>1
    <3>2. tx' = [tx EXCEPT ![e] = q]
      BY <1>5
    <3> HIDE DEF q, left, asked
    <3> QED
      BY <1>3, <3>1, <3>2
  <2> DEFINE packets == {DataPacket(s.f)}
  <2>3. Send(e, packets) /\ \A x \in packets : x.type # "ack"
    BY <1>5 DEF DataPacket
  <2> HIDE DEF packets
  <2> QED
    BY <1>2, <1>5, <2>2, <2>3, CarriesTx
<1>6. CASE /\ tx' = [tx EXCEPT ![e] = left]
           /\ lost' = lost \cup Reports(e, e, p.ch, {p.nack})
           /\ Send(e, {LostPacket(e, p.ch, p.nack, p.nack, FALSE)})
  <2> DEFINE packets == {LostPacket(e, p.ch, p.nack, p.nack, FALSE)}
  <2>1. Send(e, packets) /\ \A x \in packets : x.type # "ack"
    BY <1>6 DEF LostPacket
  <2>2. lost \subseteq lost'
    BY <1>6
  <2>3. TxSide(e) /\ tx'[Peer(e)] = tx[Peer(e)]
    <3> HIDE DEF left
    <3> QED
      BY <1>3, <1>6
  <2> HIDE DEF packets, left, asked
  <2> QED
    BY <1>2, <2>1, <2>2, <2>3, CarriesTx
<1> QED
  BY <1>4, <1>5, <1>6 DEF HandleAck

LEMMA LossByReceiver ==
  ASSUME NumbersInv, OrderInv, NEW e \in Ends, NEW p \in net[e], LostByReceiver(e, p)
  PROVE  Carries
<1>1. TypeOK /\ Peer(e) # e /\ Peer(e) \in Ends
  BY Peers DEF NumbersInv, SessionInv
<1>2. /\ UNCHANGED <<ready, rootSession, nodeSession, expected, pendingLost, rx,
                     reassembly, net, accepted, delivered>>
      /\ lost' = lost \cup Reports(e, e, p.ch, p.first .. p.last)
  BY DEF LostByReceiver, LostArrives, seqs
<1>3. /\ tx'[e] = {s \in tx[e] : ~(s.f.ch = p.ch /\ s.f.seq \in p.first .. p.last)}
      /\ tx'[Peer(e)] = tx[Peer(e)]
  BY <1>1 DEF LostByReceiver, TypeOK
<1>4. ASSUME NEW s \in tx[e], s.f.ch = p.ch, s.f.seq \in p.first .. p.last
      PROVE  Rep(e, e, s.f.ch, s.f.seq) \in lost'
  BY <1>2, <1>4 DEF Rep, Reports
<1>5. TxSide(e)
  BY <1>3, <1>4 DEF TxSide
<1>6. lost \subseteq lost'
  BY <1>2
<1> DEFINE nothing == {}
<1>7. \A x \in nothing : x.type # "ack"
  OBVIOUS
<1> HIDE DEF nothing
<1> QED
  BY <1>2, <1>3, <1>5, <1>6, <1>7, CarriesTx

\* A step of a receiver that delivers nothing and sends no ACK.
LEMMA CarriesRx ==
  ASSUME NumbersInv, OrderInv, NEW e \in Ends, NEW packets,
         net' = net \/ Send(e, packets), \A p \in packets : p.type # "ack",
         lost \subseteq lost', tx' = tx, rx' = rx,
         UNCHANGED <<ready, rootSession, nodeSession, accepted, delivered>>,
         \A o \in Ends \ {e} : /\ expected'[o] = expected[o]
                               /\ pendingLost'[o] = pendingLost[o]
                               /\ reassembly'[o] = reassembly[o],
         \A r \in reassembly[e] :
           \/ r \in reassembly'[e]
           \/ \E q \in r.first .. LastSeq(r) : Rep(e, Peer(e), r.ch, q) \in lost',
         \A ch \in Channels, q \in Nat :
           expected[e][ch] <= q /\ q < expected'[e][ch] => Rep(e, Peer(e), ch, q) \in lost',
         \A ch \in Channels : \A q \in pendingLost'[e][ch] :
           q \in pendingLost[e][ch] \/ Rep(e, Peer(e), ch, q) \in lost'
  PROVE  Carries
<1>1. \A o \in Ends : Pair(o)' = Pair(o)
  BY DEF Pair
<1>2. RxSide(e)
  BY <1>1, RxPlain
<1>3. TxSide(e)
  BY DEF TxSide
<1>4. Aside(Peer(e))
  BY <1>1, Peers DEF Aside
<1>5. Growing
  BY DEF Growing, WasDelivered
<1> QED
  BY <1>2, <1>3, <1>4, <1>5, CarriesQuiet

\* A step that sends an ACK of what is buffered after it.
LEMMA CarriesAck ==
  ASSUME NumbersInv, OrderInv, NEW e \in Ends, NEW ch \in Channels, NEW at, NEW buffered,
         NEW isNack, Send(e, {AckPacket(e, ch, at, buffered, isNack)}), ready[e],
         \A q \in buffered : \E g \in rx'[e] : g.ch = ch /\ g.seq = q,
         UNCHANGED <<ready, rootSession, nodeSession, expected, pendingLost, tx,
                     reassembly, accepted, delivered, lost>>,
         rx[e] \subseteq rx'[e], rx'[Peer(e)] = rx[Peer(e)]
  PROVE  Carries
<1> DEFINE p == AckPacket(e, ch, at, buffered, isNack)
           packets == {p}
<1>1. \A o \in Ends : Pair(o)' = Pair(o)
  BY DEF Pair
<1>2. RxSide(e)
  BY <1>1, AsideRx
<1>3. TxSide(e)
  BY DEF TxSide
<1>4. Aside(Peer(e))
  BY <1>1, Peers DEF Aside
<1>5. Growing
  BY DEF Growing, WasDelivered
<1>6. Ids(p) = Pair(e) /\ p.ch = ch /\ p.sack \subseteq buffered
  BY DEF AckPacket, SackBitmap, Ids, Pair
<1>7. \A x \in packets : x.type = "ack" =>
        /\ ready'[e] /\ Ids(x) = Pair(e)'
        /\ \A q \in x.sack : \E g \in rx'[e] : g.ch = x.ch /\ g.seq = q
  BY <1>1, <1>6
<1>8. Send(e, packets)
  OBVIOUS
<1> HIDE DEF packets, p
<1> QED
  BY <1>2, <1>3, <1>4, <1>5, <1>7, <1>8, CarriesBy

LEMMA LossConsume ==
  ASSUME NumbersInv, OrderInv, LossInv, NEW e \in Ends, SkipLost(e) \/ ConsumeDone(e)
  PROVE  Carries
<1>1. TypeOK /\ Unbound
  BY DEF NumbersInv, SessionInv
<1> DEFINE ch == consuming[e]
<1>2. ch \in Channels /\ ready[e]
  <2>1. ~Idle(e)
    BY DEF SkipLost, ConsumeDone
  <2>2. ch # None
    BY <2>1 DEF Idle
  <2> QED
    BY <1>1, <2>2 DEF Unbound, UnboundAt, TypeOK
<1> DEFINE nothing == {}
<1>3. \A p \in nothing : p.type # "ack"
  OBVIOUS
<1> HIDE DEF ch, nothing
<1>4. CASE SkipLost(e)
  <2> DEFINE at == expected[e][ch]
             gone == pendingLost[e][ch]
  <2>1. PICK last \in gone :
          /\ at <= last /\ at .. last \subseteq gone
          /\ expected' = [expected EXCEPT ![e][ch] = last + 1]
          /\ pendingLost' = [pendingLost EXCEPT ![e][ch] =
               {q \in gone : ~(q .. at \subseteq gone /\ q <= last)}]
    BY <1>4 DEF SkipLost, ch
  <2>2. /\ UNCHANGED <<ready, rootSession, nodeSession, accepted, delivered, net, lost>>
        /\ UNCHANGED <<tx, rx, reassembly>>
    BY <1>4 DEF SkipLost, link, slots, hist
  <2>3. /\ expected'[e][ch] = last + 1
        /\ \A c \in Channels \ {ch} : expected'[e][c] = expected[e][c]
        /\ \A c \in Channels : pendingLost'[e][c] \subseteq pendingLost[e][c]
        /\ \A o \in Ends \ {e} : expected'[o] = expected[o] /\ pendingLost'[o] = pendingLost[o]
    BY <1>1, <1>2, <2>1 DEF TypeOK
  <2>4. at \in Nat /\ last \in Nat
    BY <1>1, <1>2, CountTypes DEF TypeOK
  <2>5. ASSUME NEW c \in Channels, NEW q \in Nat, expected[e][c] <= q, q < expected'[e][c]
        PROVE  Rep(e, Peer(e), c, q) \in lost'
    <3>1. expected[e][c] \in Nat
      BY <1>1, CountTypes
    <3>2. c = ch
      BY <2>3, <2>5, <3>1
    <3>3. q \in at .. last
      BY <2>3, <2>4, <2>5, <3>2
    <3> QED
      BY <2>1, <2>2, <3>2, <3>3 DEF LossInv, PendingReported
  <2> HIDE DEF at, gone
  <2> QED
    BY <1>3, <2>2, <2>3, <2>5, CarriesRx
<1>5. CASE ConsumeDone(e)
  <2>1. UNCHANGED <<ready, rootSession, nodeSession, expected, pendingLost, tx, rx,
                    reassembly, accepted, delivered, lost>>
    BY <1>5 DEF ConsumeDone, link, seqs, slots, hist
  <2>2. Send(e, IF ackDue[e]
                THEN {AckPacket(e, ch, expected[e][ch], Buffered(e, ch), FALSE)} ELSE {})
    BY <1>5 DEF ConsumeDone, ch
  <2>3. CASE ackDue[e]
    <3>1. \A q \in Buffered(e, ch) : \E g \in rx'[e] : g.ch = ch /\ g.seq = q
      BY <2>1 DEF Buffered
    <3>2. PICK isNack \in BOOLEAN :
            Send(e, {AckPacket(e, ch, expected[e][ch], Buffered(e, ch), isNack)})
      BY <2>2, <2>3
    <3>3. rx[e] \subseteq rx'[e] /\ rx'[Peer(e)] = rx[Peer(e)]
      BY <2>1
    <3> QED
      BY <1>2, <2>1, <3>1, <3>2, <3>3, CarriesAck
  <2>4. CASE ~ackDue[e]
    <3>1. Send(e, nothing)
      BY <2>2, <2>4 DEF nothing
    <3>2. TxSide(e)
      BY <2>1 DEF TxSide
    <3> QED
      BY <1>3, <2>1, <3>1, <3>2, CarriesTx
  <2> QED
    BY <2>3, <2>4
<1> QED
  BY <1>4, <1>5

LEMMA LossData ==
  ASSUME NumbersInv, OrderInv, NEW e \in Ends, NEW p \in net[e],
         \/ DataOld(e, p) \/ DataNotStored(e, p) \/ DataStored(e, p) \/ DataDropped(e, p)
  PROVE  Carries
<1>1. TypeOK /\ Peer(e) \in Ends /\ Peer(e) # e
  BY Peers DEF NumbersInv, SessionInv
<1> DEFINE f == p.f
<1>2. /\ f \in Frame /\ f.ch \in Channels /\ f.seq \in Nat /\ ready[e]
      /\ UNCHANGED <<rootSession, nodeSession, accepted, delivered, ready>>
  <2>1. p.type = "data" /\ ready[e]
    BY DEF DataOld, DataNotStored, DataStored, DataDropped, DataAhead, DataArrives,
       NoRxSlot, Installed
  <2>2. UNCHANGED <<rootSession, nodeSession, accepted, delivered, ready>>
    BY DEF DataOld, DataNotStored, DataStored, DataDropped, DataAhead, DataArrives,
       NoRxSlot, KeepSession, hist
  <2>3. f \in Frame
    BY <1>1, <2>1, PacketFields
  <2> QED
    BY <2>1, <2>2, <2>3 DEF Frame
<1>3. CASE DataOld(e, p) \/ DataNotStored(e, p)
  <2>1. UNCHANGED <<expected, pendingLost, tx, rx, reassembly, lost>>
    BY <1>3 DEF DataOld, DataNotStored, seqs, slots, hist
  <2>2. \A q \in Buffered(e, f.ch) : \E g \in rx'[e] : g.ch = f.ch /\ g.seq = q
    BY <2>1 DEF Buffered
  <2>3. PICK isNack \in BOOLEAN :
          Send(e, {AckPacket(e, f.ch, expected[e][f.ch], Buffered(e, f.ch), isNack)})
    BY <1>3 DEF DataOld, DataNotStored
  <2>4. rx[e] \subseteq rx'[e] /\ rx'[Peer(e)] = rx[Peer(e)]
    BY <2>1
  <2> HIDE DEF f
  <2> QED
    BY <1>2, <2>1, <2>2, <2>3, <2>4, CarriesAck
<1>4. CASE DataStored(e, p)
  <2>1. /\ UNCHANGED <<expected, pendingLost, tx, reassembly, lost>>
        /\ rx'[e] = rx[e] \cup {f} /\ rx'[Peer(e)] = rx[Peer(e)]
        /\ Send(e, {AckPacket(e, f.ch, expected[e][f.ch], Buffered(e, f.ch) \cup {f.seq}, TRUE)})
    <3>1. /\ UNCHANGED <<expected, pendingLost, tx, reassembly, lost>>
          /\ rx' = [rx EXCEPT ![e] = @ \cup {f}]
          /\ Send(e, {AckPacket(e, f.ch, expected[e][f.ch], Buffered(e, f.ch) \cup {f.seq}, TRUE)})
      BY <1>4 DEF DataStored, seqs, hist
    <3> QED
      BY <1>1, <3>1, Domains
  <2>2. \A q \in Buffered(e, f.ch) \cup {f.seq} : \E g \in rx'[e] : g.ch = f.ch /\ g.seq = q
    BY <2>1 DEF Buffered
  <2> HIDE DEF f
  <2>3. /\ rx[e] \subseteq rx'[e] /\ rx'[Peer(e)] = rx[Peer(e)]
        /\ UNCHANGED <<ready, rootSession, nodeSession, expected, pendingLost, tx,
                       reassembly, accepted, delivered, lost>>
    BY <1>2, <2>1
  <2>4. PICK at, buffered :
          /\ Send(e, {AckPacket(e, f.ch, at, buffered, TRUE)})
          /\ \A q \in buffered : \E g \in rx'[e] : g.ch = f.ch /\ g.seq = q
    BY <2>1, <2>2
  <2>5. ready[e] /\ f.ch \in Channels
    BY <1>2
  <2> QED
    BY <2>3, <2>4, <2>5, CarriesAck
<1>5. CASE DataDropped(e, p)
  <2>1. /\ UNCHANGED <<expected, tx, rx>>
        /\ lost' = lost \cup DropReports(e, f)
        /\ Send(e, {LostPacket(e, f.ch, f.seq, f.seq, TRUE)})
        /\ reassembly' = [reassembly EXCEPT ![e] = @ \ Overlapping(e, f.ch, f.seq, f.seq)]
        /\ pendingLost' = [pendingLost EXCEPT ![e] =
                             WithRange(pendingLost[e], f.ch, f.seq, f.seq)]
    BY <1>5 DEF DataDropped
  <2>2. /\ reassembly'[e] = reassembly[e] \ Overlapping(e, f.ch, f.seq, f.seq)
        /\ pendingLost'[e] = [pendingLost[e] EXCEPT ![f.ch] = @ \cup f.seq .. f.seq]
        /\ \A o \in Ends \ {e} : /\ reassembly'[o] = reassembly[o]
                                 /\ pendingLost'[o] = pendingLost[o]
    BY <1>1, <2>1, Domains DEF WithRange
  <2>3. Rep(e, Peer(e), f.ch, f.seq) \in lost'
    BY <2>1 DEF Rep, DropReports, Reports
  <2>4. ASSUME NEW c \in Channels, NEW q \in pendingLost'[e][c]
        PROVE  q \in pendingLost[e][c] \/ Rep(e, Peer(e), c, q) \in lost'
    <3>1. q \in pendingLost[e][c] \/ (c = f.ch /\ q \in f.seq .. f.seq)
      BY <1>1, <1>2, <2>2, <2>4, Domains
    <3>2. q \in f.seq .. f.seq => q = f.seq
      BY <1>2
    <3> QED
      BY <2>3, <3>1, <3>2
  <2>5. ASSUME NEW r \in reassembly[e]
        PROVE  \/ r \in reassembly'[e]
               \/ \E q \in r.first .. LastSeq(r) : Rep(e, Peer(e), r.ch, q) \in lost'
    <3>1. r.first \in Nat /\ LastSeq(r) \in Nat
      BY <1>1, PartialFields
    <3>2. CASE r \in Overlapping(e, f.ch, f.seq, f.seq)
      <4>1. f.seq \in r.first .. LastSeq(r) /\ r.ch = f.ch
        BY <1>2, <3>1, <3>2 DEF Overlapping
      <4> QED
        BY <2>3, <4>1
    <3> QED
      BY <2>2, <3>2
  <2>6. ASSUME NEW c \in Channels, NEW q \in Nat, expected[e][c] <= q, q < expected'[e][c]
        PROVE  FALSE
    <3>1. expected[e][c] \in Nat
      BY <1>1, CountTypes
    <3> QED
      BY <2>1, <2>6, <3>1
  <2> DEFINE packets == {LostPacket(e, f.ch, f.seq, f.seq, TRUE)}
  <2>7. Send(e, packets) /\ \A x \in packets : x.type # "ack"
    BY <2>1 DEF LostPacket
  <2>8. lost \subseteq lost'
    BY <2>1
  <2> HIDE DEF packets, f
  <2> QED
    BY <1>2, <2>1, <2>2, <2>4, <2>5, <2>6, <2>7, <2>8, CarriesRx
<1> QED
  BY <1>3, <1>4, <1>5

LEMMA LossLost ==
  ASSUME NumbersInv, OrderInv, NEW e \in Ends, NEW p \in net[e],
         LostExpected(e, p) \/ (LostAhead(e, p) /\ ready' = ready) \/ LostBehind(e, p),
         ready[e] => ready'[e]
  PROVE  Carries
<1>1. TypeOK /\ Peer(e) \in Ends /\ Peer(e) # e
  BY Peers DEF NumbersInv, SessionInv
<1>2. /\ p.type = "lost" /\ ready[e] /\ p.ch \in Channels /\ p.first \in Nat /\ p.last \in Nat
      /\ UNCHANGED <<rootSession, nodeSession, accepted, delivered, ready, net>>
  <2>1. p.type = "lost" /\ ready[e]
    BY DEF LostExpected, LostAhead, LostBehind, LostArrives, Installed
  <2>2. UNCHANGED <<rootSession, nodeSession, accepted, delivered, ready, net>>
    BY DEF LostExpected, LostAhead, LostBehind, LostArrives
  <2> QED
    BY <1>1, <2>1, <2>2, PacketFields
<1>3. /\ lost' = lost \cup Reports(e, Peer(e), p.ch, p.first .. p.last)
      /\ UNCHANGED <<tx, rx, reassembly>>
      /\ \/ UNCHANGED <<expected, pendingLost>>
         \/ /\ pendingLost' = [pendingLost EXCEPT ![e] =
                 WithRange(pendingLost[e], p.ch, p.first, p.last)]
            /\ UNCHANGED expected
         \/ /\ expected' = [expected EXCEPT ![e][p.ch] = p.last + 1]
            /\ expected[e][p.ch] \in p.first .. p.last
            /\ UNCHANGED pendingLost
  <2>1. CASE LostExpected(e, p)
    BY <2>1 DEF LostExpected, slots
  <2>2. CASE LostBehind(e, p)
    BY <2>2 DEF LostBehind, slots, seqs
  <2>3. CASE LostAhead(e, p)
    <3>1. ready' # [ready EXCEPT ![e] = FALSE]
      BY <1>1, <1>2 DEF TypeOK
    <3> QED
      BY <2>3, <3>1 DEF LostAhead, slots
  <2> QED
    BY <2>1, <2>2, <2>3
<1>4. \A q \in p.first .. p.last : Rep(e, Peer(e), p.ch, q) \in lost'
  BY <1>3 DEF Rep, Reports
<1>5. ASSUME NEW c \in Channels, NEW q \in Nat, expected[e][c] <= q, q < expected'[e][c]
      PROVE  Rep(e, Peer(e), c, q) \in lost'
  <2>1. expected[e][c] \in Nat /\ expected[e][p.ch] \in Nat
    BY <1>1, <1>2, CountTypes
  <2>2. CASE expected' = expected
    BY <1>5, <2>1, <2>2
  <2>3. CASE /\ expected' = [expected EXCEPT ![e][p.ch] = p.last + 1]
             /\ expected[e][p.ch] \in p.first .. p.last
    <3>1. /\ expected'[e][p.ch] = p.last + 1
          /\ c # p.ch => expected'[e][c] = expected[e][c]
      BY <1>1, <1>2, <2>3 DEF TypeOK
    <3>2. c = p.ch
      BY <1>5, <2>1, <3>1
    <3>3. q \in p.first .. p.last
      BY <1>2, <1>5, <2>1, <2>3, <3>1, <3>2
    <3> QED
      BY <1>4, <3>2, <3>3
  <2> QED
    BY <1>3, <2>2, <2>3
<1>6. ASSUME NEW c \in Channels, NEW q \in pendingLost'[e][c]
      PROVE  q \in pendingLost[e][c] \/ Rep(e, Peer(e), c, q) \in lost'
  <2>1. CASE pendingLost' = pendingLost
    BY <1>6, <2>1
  <2>2. CASE pendingLost' = [pendingLost EXCEPT ![e] =
               WithRange(pendingLost[e], p.ch, p.first, p.last)]
    <3>1. q \in pendingLost[e][c] \/ (c = p.ch /\ q \in p.first .. p.last)
      BY <1>1, <1>2, <1>6, <2>2 DEF WithRange, TypeOK
    <3> QED
      BY <1>4, <3>1
  <2> QED
    BY <1>3, <2>1, <2>2
<1>7. \A o \in Ends \ {e} : expected'[o] = expected[o] /\ pendingLost'[o] = pendingLost[o]
  BY <1>1, <1>3 DEF TypeOK
<1> DEFINE nothing == {}
<1>8. \A x \in nothing : x.type # "ack"
  OBVIOUS
<1>9. lost \subseteq lost'
  BY <1>3
<1> HIDE DEF nothing
<1> QED
  BY <1>2, <1>3, <1>5, <1>6, <1>7, <1>8, <1>9, CarriesRx

LEMMA LossFragmentTimeout ==
  ASSUME NumbersInv, OrderInv, NEW e \in Ends, PollFragmentTimeout(e)
  PROVE  Carries
<1>1. TypeOK /\ Peer(e) \in Ends /\ Peer(e) # e
  BY Peers DEF NumbersInv, SessionInv
<1>2. PICK r \in reassembly[e] :
        /\ reassembly' = [reassembly EXCEPT ![e] = @ \ {r}]
        /\ lost' = lost \cup Reports(e, Peer(e), r.ch, r.first .. LastSeq(r))
        /\ Send(e, {LostPacket(e, r.ch, r.first, LastSeq(r), TRUE)})
  BY DEF PollFragmentTimeout
<1>3. UNCHANGED <<ready, rootSession, nodeSession, expected, pendingLost, tx, rx,
                  accepted, delivered>>
  BY DEF PollFragmentTimeout, link, seqs
<1>4. /\ reassembly'[e] = reassembly[e] \ {r}
      /\ \A o \in Ends \ {e} : reassembly'[o] = reassembly[o]
  BY <1>1, <1>2 DEF TypeOK
<1>5. \E q \in r.first .. LastSeq(r) : Rep(e, Peer(e), r.ch, q) \in lost'
  <2>1. r.first \in Nat /\ r.n \in Nat \ {0}
    <3>1. r \in Partial
      BY <1>1, PartialFields
    <3> QED
      BY <3>1 DEF Partial
  <2>2. r.first \in r.first .. LastSeq(r)
    BY <2>1 DEF LastSeq
  <2>3. Rep(e, Peer(e), r.ch, r.first) \in lost'
    BY <1>2, <2>2 DEF Rep, Reports
  <2> QED
    BY <2>2, <2>3
<1>6. ASSUME NEW c \in Channels, NEW q \in Nat, expected[e][c] <= q, q < expected'[e][c]
      PROVE  FALSE
  <2>1. expected[e][c] \in Nat
    BY <1>1, CountTypes
  <2> QED
    BY <1>3, <1>6, <2>1
<1> DEFINE packets == {LostPacket(e, r.ch, r.first, LastSeq(r), TRUE)}
<1>7. Send(e, packets) /\ \A x \in packets : x.type # "ack"
  BY <1>2 DEF LostPacket
<1>8. lost \subseteq lost'
  BY <1>2
<1>9. \A s \in reassembly[e] :
        \/ s \in reassembly'[e]
        \/ \E q \in s.first .. LastSeq(s) : Rep(e, Peer(e), s.ch, q) \in lost'
  BY <1>4, <1>5
<1> HIDE DEF packets
<1> QED
  BY <1>3, <1>4, <1>6, <1>7, <1>8, <1>9, CarriesRx

LEMMA LossOverflow ==
  ASSUME NumbersInv, OrderInv, NEW e \in Ends, NEW ch \in Channels, NEW n \in Frags,
         NEW priority, SubmitOverflow(e, ch, n, priority)
  PROVE  Carries
<1>1. PICK first, last :
        /\ lost' = lost \cup Reports(e, e, ch, first .. last)
        /\ Send(e, {LostPacket(e, ch, first, last, FALSE)})
  BY DEF SubmitOverflow
<1>2. UNCHANGED <<ready, rootSession, nodeSession, expected, pendingLost, tx, rx,
                  reassembly, accepted, delivered>>
  BY DEF SubmitOverflow, link, slots
<1> DEFINE packets == {LostPacket(e, ch, first, last, FALSE)}
<1>3. Send(e, packets) /\ \A x \in packets : x.type # "ack"
  BY <1>1 DEF LostPacket
<1>4. lost \subseteq lost' /\ TxSide(e)
  BY <1>1, <1>2 DEF TxSide
<1> HIDE DEF packets
<1> QED
  BY <1>2, <1>3, <1>4, CarriesTx

LEMMA LossAccept ==
  ASSUME NumbersInv, OrderInv, NEW e \in Ends, NEW ch \in Channels, NEW n \in Frags,
         NEW priority, SubmitAccept(e, ch, n, priority)
  PROVE  Carries
<1> DEFINE m == [ch |-> ch, first |-> nextSeq[e][ch], n |-> n, id |-> submits[e] + 1,
                 rs |-> rootSession[e], ns |-> nodeSession[e]]
           frames == {[ch |-> ch, seq |-> q, first |-> m.first, n |-> n,
                       id |-> m.id, rs |-> m.rs, ns |-> m.ns] :
                        q \in m.first .. LastSeq(m)}
           packets == IF routeUp[e] THEN {DataPacket(f) : f \in frames} ELSE {}
<1>1. TypeOK /\ Peer(e) \in Ends /\ Peer(e) # e /\ \A o \in Ends : o = e \/ o = Peer(e)
  BY Peers DEF NumbersInv, SessionInv
<1>2. /\ tx' = [tx EXCEPT ![e] = @ \cup {[f |-> f, retries |-> 0] : f \in frames}]
      /\ Send(e, packets) /\ accepted' = [accepted EXCEPT ![e] = @ \cup {m}]
      /\ ready[e]
      /\ UNCHANGED <<session, ready, rootSession, nodeSession, expected, pendingLost, rx,
                     reassembly, delivered, lost, tainted>>
  BY DEF SubmitAccept, MaySubmit, link
<1>3. \A o \in Ends : Pair(o)' = Pair(o)
  BY <1>2 DEF Pair
<1>4. \A o \in Ends : RxSide(o)
  BY <1>2, <1>3, AsideRx
<1>5. /\ tx'[e] = tx[e] \cup {[f |-> f, retries |-> 0] : f \in frames}
      /\ tx'[Peer(e)] = tx[Peer(e)]
      /\ accepted'[e] = accepted[e] \cup {m} /\ accepted'[Peer(e)] = accepted[Peer(e)]
  BY <1>1, <1>2 DEF TypeOK
<1>6. \A o \in Ends : TxSide(o)
  BY <1>1, <1>5 DEF TxSide
<1>7. net'[e] = net[e] /\ net'[Peer(e)] = net[Peer(e)] \cup packets
  BY <1>1, <1>2 DEF Send, TypeOK
<1>8. \A p \in packets : p.type # "ack"
  BY DEF DataPacket
<1>9. \A o \in Ends : AckSide(o)
  BY <1>1, <1>7, <1>8 DEF AckSide
<1>m. PICK x : x = m
  OBVIOUS
<1>10. ASSUME NEW q \in Covers(x) PROVE Queued(e, x, q)'
  <2> DEFINE f == [ch |-> ch, seq |-> q, first |-> x.first, n |-> n,
                   id |-> x.id, rs |-> x.rs, ns |-> x.ns]
             s == [f |-> f, retries |-> 0]
  <2>1. f \in frames
    BY <1>m, <1>10 DEF Covers
  <2>2. s \in tx'[e]
    BY <1>5, <2>1
  <2>3. s.f = f /\ f.seq = q /\ MessageOf(f) = x
    BY <1>m DEF MessageOf
  <2> HIDE DEF s, f, m
  <2> QED
    BY <2>2, <2>3 DEF Queued
<1>11. nextSeq[e][m.ch] <= m.first /\ Holds(e, Ids(m))
  <2>1. nextSeq[e][ch] \in Nat
    BY <1>1, CountTypes
  <2>2. Ids(m) = Pair(e)
    BY DEF Ids, Pair
  <2> QED
    BY <1>2, <2>1, <2>2 DEF Holds
<1>12. \A o \in Ends : NewSide(o)
  <2>1. /\ nextSeq[e][x.ch] <= x.first /\ Holds(e, Ids(x))
        /\ accepted'[e] = accepted[e] \cup {x}
    BY <1>m, <1>5, <1>11
  <2> HIDE DEF m, frames, packets
  <2> QED
    BY <1>1, <1>2, <1>5, <1>7, <1>10, <2>1 DEF NewSide
<1>13. Growing
  BY <1>2 DEF Growing, WasDelivered
<1> QED
  BY <1>4, <1>6, <1>9, <1>12, <1>13 DEF Carries

LEMMA RangesMeet ==
  ASSUME NEW a \in Nat, NEW b \in Nat, NEW c \in Nat, NEW d \in Nat,
         a <= d, c <= b, a <= b, c <= d
  PROVE  \E x \in Nat : x \in a .. b /\ x \in c .. d
<1>1. CASE a <= c
  BY <1>1
<1>2. CASE c <= a
  BY <1>2
<1> QED
  BY <1>1, <1>2

\* The fragment that deliver_fragment() takes is delivered, collected or reported.
LEMMA DeliverTakes ==
  ASSUME NumbersInv, NEW d \in Ends, NEW f \in Frame, NEW left, DeliverFragment(d, f, left),
         Genuine(Peer(d), f), Pair(d) = Ids(f), Pair(d) \notin tainted, NEW m,
         m = MessageOf(f)
  PROVE  Done(Peer(d), m)' \/ InHand(d, m, f.seq)'
<1>1. TypeOK /\ Peer(Peer(d)) = d
  BY Peers DEF NumbersInv, SessionInv
<1>2. /\ m \in Message /\ m.ch = f.ch /\ m.id = f.id /\ Ids(m) = Ids(f) /\ m.first = f.first
      /\ LastSeq(m) = LastSeq(f)
  BY MessageType DEF MessageOf, Ids, LastSeq
<1>3. f.seq \in Covers(m)
  BY <1>2 DEF Genuine, Covers
<1>4. ASSUME Deliver(d, m) PROVE Done(Peer(d), m)'
  <2>1. delivered'[d] = Append(delivered[d], m) /\ delivered[d] \in Seq(Message)
    BY <1>1, <1>4 DEF Deliver, IsTainted, TypeOK
  <2> DEFINE i == Len(delivered[d]) + 1
  <2>2. i \in DOMAIN delivered'[d] /\ delivered'[d][i] = m
    BY <1>2, <2>1
  <2>3. WasDelivered(d, m)'
    BY <2>2 DEF WasDelivered
  <2> QED
    BY <1>1, <2>3 DEF Done
<1>5. CASE DeliverWhole(d, f, left)
  BY <1>4, <1>5 DEF DeliverWhole
<1>6. CASE DeliverPart(d, f, left)
  <2>1. PICK r \in ReassemblyFind(d, f) :
          LET got == r.got \cup {f.seq}
              others == reassembly[d] \ {r}
          IN  IF got = f.first .. LastSeq(f)
              THEN /\ Deliver(d, MessageOf(f))
                   /\ reassembly' = [reassembly EXCEPT ![d] = others]
              ELSE /\ reassembly' = [reassembly EXCEPT ![d] =
                                       others \cup {[r EXCEPT !.got = got]}]
                   /\ UNCHANGED delivered
    BY <1>6 DEF DeliverPart
  <2> DEFINE got == r.got \cup {f.seq}
             others == reassembly[d] \ {r}
             grown == [r EXCEPT !.got = got]
  <2>2. CASE got = f.first .. LastSeq(f)
    BY <1>4, <2>1, <2>2
  <2>3. CASE got # f.first .. LastSeq(f)
    <3>1. reassembly'[d] = others \cup {grown}
      BY <1>1, <2>1, <2>3 DEF TypeOK
    <3>2. r \in Partial /\ r.ch = f.ch /\ r.id = f.id
      <4>1. CASE r \in reassembly[d]
        BY <1>1, <2>1, <4>1, PartialFields DEF ReassemblyFind
      <4>2. CASE r = [ch |-> f.ch, id |-> f.id, first |-> f.first, n |-> f.n, got |-> {}]
        BY <4>2 DEF Partial, Frame
      <4> QED
        BY <2>1, <4>1, <4>2 DEF ReassemblyFind
    <3>3. grown.ch = f.ch /\ grown.id = f.id /\ f.seq \in grown.got
      BY <3>2 DEF Partial
    <3> HIDE DEF grown, others, got
    <3>4. InHand(d, m, f.seq)'
      BY <1>2, <3>1, <3>3 DEF InHand
    <3> QED
      BY <3>4
  <2> QED
    BY <2>2, <2>3
<1>7. CASE DeliverNoSlot(d, f, left)
  <2>1. Rep(d, Peer(d), m.ch, f.seq) \in lost'
    BY <1>2, <1>3, <1>7 DEF DeliverNoSlot, Reports, Rep, Covers
  <2>2. Reported(Peer(d), m)'
    BY <1>2, <1>3, <2>1, RepMakes
  <2> QED
    BY <2>2 DEF Done
<1> QED
  BY <1>5, <1>6, <1>7 DEF DeliverFragment

\* What was collected before it is kept, delivered or reported.
LEMMA DeliverCollected ==
  ASSUME NumbersInv, OrderInv, NEW d \in Ends, NEW f \in Frame, NEW left,
         DeliverFragment(d, f, left), Genuine(Peer(d), f), Pair(d) = Ids(f),
         Pair(d) \notin tainted, NEW m \in accepted[Peer(d)], Ids(m) = Pair(d),
         NEW q, NEW r \in reassembly[d], r.ch = m.ch, r.id = m.id, q \in r.got
  PROVE  Done(Peer(d), m)' \/ InHand(d, m, q)'
<1>1. TypeOK /\ Peer(Peer(d)) = d /\ Peer(d) \in Ends
  BY Peers DEF NumbersInv, SessionInv
<1>2. InHand(d, m, q)
  BY DEF InHand
<1>3. MessageIn(d, r) = m
  BY <1>1, <1>2, HandHolds
<1>4. /\ m.first = r.first /\ LastSeq(m) = LastSeq(r)
      /\ m.first \in Nat /\ LastSeq(m) \in Nat /\ m.first <= LastSeq(m)
  BY <1>1, <1>3, MessageFields DEF MessageIn, LastSeq
<1>5. ASSUME r \in reassembly'[d] PROVE InHand(d, m, q)'
  BY <1>5 DEF InHand
<1>6. CASE DeliverWhole(d, f, left)
  BY <1>5, <1>6 DEF DeliverWhole
<1>7. CASE DeliverPart(d, f, left)
  <2>1. PICK x \in ReassemblyFind(d, f) :
          LET got == x.got \cup {f.seq}
              others == reassembly[d] \ {x}
          IN  IF got = f.first .. LastSeq(f)
              THEN /\ Deliver(d, MessageOf(f))
                   /\ reassembly' = [reassembly EXCEPT ![d] = others]
              ELSE /\ reassembly' = [reassembly EXCEPT ![d] =
                                       others \cup {[x EXCEPT !.got = got]}]
                   /\ UNCHANGED delivered
    BY <1>7 DEF DeliverPart
  <2> DEFINE got == x.got \cup {f.seq}
             others == reassembly[d] \ {x}
             grown == [x EXCEPT !.got = got]
  <2>2. /\ others \subseteq reassembly'[d]
        /\ got # f.first .. LastSeq(f) => grown \in reassembly'[d]
        /\ got = f.first .. LastSeq(f) => Deliver(d, MessageOf(f))
    <3> HIDE DEF grown
    <3>1. \/ /\ got = f.first .. LastSeq(f)
             /\ Deliver(d, MessageOf(f))
             /\ reassembly' = [reassembly EXCEPT ![d] = others]
          \/ /\ got # f.first .. LastSeq(f)
             /\ reassembly' = [reassembly EXCEPT ![d] = others \cup {grown}]
      BY <2>1 DEF grown
    <3> QED
      BY <1>1, <3>1, Domains
  <2>3. CASE r # x
    <3>1. r \in others
      BY <2>3
    <3> QED
      BY <1>5, <2>2, <3>1
  <2>4. CASE r = x /\ got # f.first .. LastSeq(f)
    <3>1. r \in Partial
      BY <1>1, PartialFields
    <3>2. grown.ch = m.ch /\ grown.id = m.id /\ q \in grown.got
      BY <2>4, <3>1 DEF Partial
    <3> HIDE DEF grown, got, others
    <3>3. InHand(d, m, q)'
      BY <2>2, <2>4, <3>2 DEF InHand
    <3> QED
      BY <3>3
  <2>5. CASE r = x /\ got = f.first .. LastSeq(f)
    <3>1. x.id = f.id
      BY <2>1 DEF ReassemblyFind
    <3>2. MessageOf(f) \in accepted[Peer(d)] /\ MessageOf(f).id = m.id
      BY <2>5, <3>1 DEF Genuine, MessageOf
    <3>3. m = MessageOf(f)
      BY <1>1, <3>2 DEF NumbersInv, Numbered
    <3>4. Deliver(d, m)
      BY <2>2, <2>5, <3>3
    <3>5. delivered'[d] = Append(delivered[d], m) /\ delivered[d] \in Seq(Message) /\ m \in Message
      BY <1>1, <3>4, MessageFields DEF Deliver, IsTainted, TypeOK
    <3> DEFINE i == Len(delivered[d]) + 1
    <3>6. i \in DOMAIN delivered'[d] /\ delivered'[d][i] = m
      BY <3>5
    <3>7. WasDelivered(d, m)'
      BY <3>6 DEF WasDelivered
    <3> QED
      BY <1>1, <3>7 DEF Done
  <2> QED
    BY <2>3, <2>4, <2>5
<1>8. CASE DeliverNoSlot(d, f, left)
  <2>1. /\ reassembly'[d] = reassembly[d] \ Overlapping(d, f.ch, f.first, LastSeq(f))
        /\ \A x \in f.first .. LastSeq(f) : Rep(d, Peer(d), f.ch, x) \in lost'
    BY <1>1, <1>8 DEF DeliverNoSlot, Reports, Rep, TypeOK
  <2>2. CASE r \notin Overlapping(d, f.ch, f.first, LastSeq(f))
    BY <1>5, <2>1, <2>2
  <2>3. CASE r \in Overlapping(d, f.ch, f.first, LastSeq(f))
    <3>1. r.ch = f.ch /\ r.first <= LastSeq(f) /\ f.first <= LastSeq(r)
      BY <2>3 DEF Overlapping
    <3>2. f.first \in Nat /\ LastSeq(f) \in Nat /\ f.first <= LastSeq(f)
      <4>1. f.first \in Nat /\ f.n \in Nat \ {0}
        BY DEF Frame
      <4> QED
        BY <4>1 DEF LastSeq
    <3>3. PICK x \in Nat : x \in m.first .. LastSeq(m) /\ x \in f.first .. LastSeq(f)
      BY <1>4, <3>1, <3>2, RangesMeet
    <3>4. Reported(Peer(d), m)'
      <4>1. Rep(d, Peer(d), m.ch, x) \in lost' /\ x \in Covers(m)
        BY <2>1, <3>1, <3>3 DEF Covers
      <4> QED
        BY <4>1, RepMakes
    <3> QED
      BY <3>4 DEF Done
  <2> QED
    BY <2>2, <2>3
<1> QED
  BY <1>6, <1>7, <1>8 DEF DeliverFragment

\* Where the expected position goes, and what stays in the reorder buffer.
LEMMA DeliverMoves ==
  ASSUME TypeOK, NEW d \in Ends, NEW f \in Frame, NEW left, DeliverFragment(d, f, left)
  PROVE  /\ \A ch \in Channels \ {f.ch} : expected'[d][ch] = expected[d][ch]
         /\ \/ expected'[d][f.ch] = f.seq + 1 /\ rx'[d] = left
            \/ /\ expected'[d][f.ch] = LastSeq(f) + 1
               /\ \A q \in f.first .. LastSeq(f) : Rep(d, Peer(d), f.ch, q) \in lost'
               /\ \A g \in left : g \in rx'[d] \/ (g.ch = f.ch /\ g.seq \in f.first .. LastSeq(f))
         /\ lost \subseteq lost'
         /\ expected'[Peer(d)] = expected[Peer(d)] /\ rx'[Peer(d)] = rx[Peer(d)]
         /\ reassembly'[Peer(d)] = reassembly[Peer(d)]
<1>1. f.ch \in Channels /\ Peer(d) \in Ends /\ Peer(d) # d
  BY Peers DEF Frame
<1>2. CASE DeliverWhole(d, f, left)
  BY <1>1, <1>2 DEF DeliverWhole, TypeOK
<1>3. CASE DeliverPart(d, f, left)
  <2>1. reassembly'[Peer(d)] = reassembly[Peer(d)]
    BY <1>1, <1>3 DEF DeliverPart, TypeOK
  <2>2. /\ expected' = [expected EXCEPT ![d][f.ch] = f.seq + 1]
        /\ rx' = [rx EXCEPT ![d] = left] /\ lost' = lost
    BY <1>3 DEF DeliverPart
  <2> QED
    BY <1>1, <2>1, <2>2 DEF TypeOK
<1>4. CASE DeliverNoSlot(d, f, left)
  <2>1. \A q \in f.first .. LastSeq(f) : Rep(d, Peer(d), f.ch, q) \in lost'
    BY <1>4 DEF DeliverNoSlot, Reports, Rep
  <2>2. \A g \in left : g \in rx'[d] \/ (g.ch = f.ch /\ g.seq \in f.first .. LastSeq(f))
    BY <1>4 DEF DeliverNoSlot, TypeOK
  <2> QED
    BY <1>1, <1>4, <2>1, <2>2 DEF DeliverNoSlot, TypeOK
<1> QED
  BY <1>2, <1>3, <1>4 DEF DeliverFragment

LEMMA DeliverReaches ==
  ASSUME NumbersInv, OrderInv, NEW d \in Ends, NEW f \in Frame, NEW left,
         DeliverFragment(d, f, left), Genuine(Peer(d), f), Installed(d, f.rs, f.ns),
         f.ch # TIME => f.seq = expected[d][f.ch],
         \A g \in rx[d] : g \in left \/ g = f \/ g.ch = TIME
  PROVE  Reaches(d)
<1>1. TypeOK /\ Peer(Peer(d)) = d /\ Peer(d) \in Ends
  BY Peers DEF NumbersInv, SessionInv
<1>2. Pair(d) = Ids(f)
  BY DEF Installed, Pair, Ids
<1> SUFFICES ASSUME NEW m \in accepted[Peer(d)], NEW q \in Nat, m.ch # TIME,
                    Ids(m) = Pair(d), Pair(d) \notin tainted, q \in Covers(m),
                    InHand(d, m, q) \/ (expected[d][m.ch] <= q /\ q < expected'[d][m.ch])
             PROVE  Done(Peer(d), m)' \/ InHand(d, m, q)'
  BY DEF Reaches
<1>3. /\ f.ch \in Channels /\ f.seq \in Nat /\ LastSeq(f) \in Nat /\ f.first \in Nat
      /\ f.first <= f.seq /\ f.seq <= LastSeq(f)
  BY <1>1, GenuineFrame
<1>4. m.ch \in Channels
  BY <1>1, MessageFields
<1>5. ASSUME m = MessageOf(f), q = f.seq PROVE Done(Peer(d), m)' \/ InHand(d, m, q)'
  BY <1>2, <1>5, DeliverTakes
<1>6. ASSUME Rep(d, Peer(d), m.ch, q) \in lost' PROVE Done(Peer(d), m)'
  <2>1. Reported(Peer(d), m)'
    BY <1>6, RepMakes
  <2> QED
    BY <2>1 DEF Done
<1>7. ASSUME NEW g \in rx[d], g.seq = q, MessageOf(g) = m
      PROVE  Done(Peer(d), m)' \/ InHand(d, m, q)'
  <2>1. g.ch = m.ch
    BY <1>7 DEF MessageOf
  <2>2. CASE g = f
    BY <1>5, <1>7, <2>2
  <2>3. CASE g \in rx'[d]
    BY <1>7, <2>3 DEF InHand
  <2>4. CASE /\ g.ch = f.ch /\ g.seq \in f.first .. LastSeq(f)
             /\ \A x \in f.first .. LastSeq(f) : Rep(d, Peer(d), f.ch, x) \in lost'
    BY <1>6, <1>7, <2>1, <2>4
  <2> QED
    BY <1>1, <2>1, <2>2, <2>3, <2>4, DeliverMoves
<1>8. ASSUME NEW r \in reassembly[d], r.ch = m.ch, r.id = m.id, q \in r.got
      PROVE  Done(Peer(d), m)' \/ InHand(d, m, q)'
  BY <1>2, <1>8, DeliverCollected
<1>9. CASE expected[d][m.ch] <= q /\ q < expected'[d][m.ch]
  <2>1. expected[d][m.ch] \in Nat
    BY <1>1, <1>4, CountTypes
  <2>2. m.ch = f.ch
    <3>1. CASE m.ch # f.ch
      <4>1. expected'[d][m.ch] = expected[d][m.ch]
        BY <1>1, <1>4, <3>1, DeliverMoves
      <4> QED
        BY <1>9, <2>1, <4>1
    <3> QED
      BY <3>1
  <2>3. f.seq = expected[d][m.ch]
    BY <2>2
  <2>4. CASE expected'[d][f.ch] = f.seq + 1
    <3>1. q = f.seq
      BY <1>3, <1>9, <2>1, <2>2, <2>3, <2>4
    <3>2. PICK b : b = MessageOf(f)
      OBVIOUS
    <3>3. b \in accepted[Peer(d)] /\ b.ch = m.ch /\ Ids(b) = Ids(m) /\ q \in Covers(b)
      BY <1>2, <2>2, <3>1, <3>2 DEF Genuine, MessageOf, Ids, Covers, LastSeq
    <3>4. m = b
      BY <1>1, <3>3, SameMessage
    <3> QED
      BY <1>5, <3>1, <3>2, <3>4
  <2>5. CASE /\ expected'[d][f.ch] = LastSeq(f) + 1
             /\ \A x \in f.first .. LastSeq(f) : Rep(d, Peer(d), f.ch, x) \in lost'
    <3>1. q \in f.first .. LastSeq(f)
      BY <1>3, <1>9, <2>1, <2>2, <2>3, <2>5
    <3> QED
      BY <1>6, <2>2, <2>5, <3>1
  <2> QED
    BY <1>1, <2>4, <2>5, DeliverMoves
<1> QED
  BY <1>7, <1>8, <1>9 DEF InHand

LEMMA LossDeliver ==
  ASSUME NumbersInv, OrderInv, NEW e \in Ends,
         ConsumeRx(e) \/ \E p \in net[e] : DataInOrder(e, p)
  PROVE  Carries
<1>1. TypeOK /\ Peer(Peer(e)) = e /\ Peer(e) \in Ends /\ Peer(e) # e
  BY Peers DEF NumbersInv, SessionInv
<1>2. PICK f \in Frame, left \in SUBSET rx[e] :
        /\ Genuine(Peer(e), f) /\ Installed(e, f.rs, f.ns)
        /\ f.ch # TIME => f.seq = expected[e][f.ch]
        /\ DeliverFragment(e, f, left)
        /\ UNCHANGED <<session, ready, rootSession, nodeSession, tainted, accepted, tx>>
        /\ \A g \in rx[e] : g \in left \/ g = f \/ g.ch = TIME
        /\ pendingLost'[Peer(e)] = pendingLost[Peer(e)]
        /\ \A ch \in Channels : pendingLost'[e][ch] \subseteq pendingLost[e][ch]
  BY TakenFrame
<1>3. \A o \in Ends : Pair(o)' = Pair(o) /\ ready'[o] = ready[o] /\ tx'[o] = tx[o]
  BY <1>2 DEF Pair
<1>4. RxSide(e)
  <2>1. Reaches(e)
    BY <1>2, DeliverReaches
  <2> QED
    BY <1>2, <1>3, <2>1 DEF RxSide
<1>5. TxSide(e)
  BY <1>3 DEF TxSide
<1>6. Aside(Peer(e))
  BY <1>1, <1>2, <1>3, DeliverMoves DEF Aside
<1>7. Growing
  <2>1. lost \subseteq lost'
    BY <1>1, <1>2, DeliverMoves
  <2>2. PICK m \in Message : m = MessageOf(f)
    BY MessageType
  <2>3. delivered' = delivered \/ delivered' = [delivered EXCEPT ![e] = Append(@, m)]
    BY <1>2, <2>2 DEF DeliverFragment, DeliverWhole, DeliverPart, DeliverNoSlot, Deliver
  <2>4. CASE delivered' = delivered
    BY <2>1, <2>4 DEF Growing, WasDelivered
  <2>5. CASE delivered' = [delivered EXCEPT ![e] = Append(@, m)]
    <3>1. /\ delivered[e] \in Seq(Message) /\ delivered'[e] = Append(delivered[e], m)
          /\ \A o \in Ends \ {e} : delivered'[o] = delivered[o]
      BY <1>1, <2>5 DEF TypeOK
    <3>2. ASSUME NEW i \in DOMAIN delivered[e]
          PROVE  i \in DOMAIN delivered'[e] /\ delivered'[e][i] = delivered[e][i]
      BY <3>1, <3>2
    <3>3. ASSUME NEW o \in Ends, NEW x, WasDelivered(o, x) PROVE WasDelivered(o, x)'
      BY <3>1, <3>2, <3>3 DEF WasDelivered
    <3> QED
      BY <2>1, <3>3 DEF Growing
  <2> QED
    BY <2>3, <2>4, <2>5
<1>8. PICK packets : /\ net' = net \/ Send(e, packets)
                     /\ \A p \in packets : p.type # "ack"
  <2> DEFINE gone == {LostPacket(e, f.ch, f.first, LastSeq(f), TRUE)}
  <2>1. net' = net \/ Send(e, gone)
    BY <1>2 DEF DeliverFragment, DeliverWhole, DeliverPart, DeliverNoSlot
  <2>2. \A p \in gone : p.type # "ack"
    BY DEF LostPacket
  <2> HIDE DEF gone
  <2> QED
    BY <2>1, <2>2
<1> QED
  BY <1>2, <1>4, <1>5, <1>6, <1>7, <1>8, CarriesQuiet

LEMMA LossStep == NumbersInv /\ NumbersInv' /\ OrderInv /\ LossInv /\ [Next]_vars => LossInv'
<1> SUFFICES ASSUME NumbersInv, NumbersInv', OrderInv, LossInv, [Next]_vars PROVE LossInv'
  OBVIOUS
<1>1. TypeOK /\ Onward
  BY NumbersStep DEF NumbersInv, SessionInv, NumbersKept
<1>2. CASE Environment
  <2>1. Carries
    BY <1>1, <1>2, LossOutside, LossRemoved, LossGivenUp, LossReboot DEF Environment
  <2> QED
    BY <1>1, <2>1, LossCarried
<1>3. ASSUME NEW e \in Ends, Receive(e) PROVE Carries
  <2>1. PICK p \in net[e] : \/ e = "root" /\ HandleHello(p)
                            \/ e = "node" /\ HandleHelloAck(p)
                            \/ HandleData(e, p) \/ HandleAck(e, p) \/ HandleLost(e, p)
    BY <1>3 DEF Receive
  <2>2. CASE HandleData(e, p)
    BY <2>2, LossData, LossDeliver, LossGivenUp DEF HandleData
  <2>3. CASE HandleLost(e, p)
    <3>1. CASE ready' = ready
      BY <2>3, <3>1, LossByReceiver, LossLost DEF HandleLost
    <3>2. CASE ready' # ready
      <4>1. LostAhead(e, p)
        BY <2>3, <3>2 DEF HandleLost, LostByReceiver, LostExpected, LostBehind
      <4> QED
        BY <3>2, <4>1, LossGivenUp
    <3> QED
      BY <3>1, <3>2
  <2> QED
    BY <2>1, <2>2, <2>3, LossHello, LossHelloAck, LossAck
<1>4. ASSUME NEW e \in Ends, Submit(e) PROVE Carries
  BY <1>4, LossAccept, LossOverflow DEF Submit
<1>5. ASSUME NEW e \in Ends, Transfer(e) PROVE LossInv'
  <2>1. Carries
    BY <1>3, <1>4, <1>5, LossConsume, LossDeliver, LossRetransmit, LossGivenUp,
       LossFragmentTimeout DEF Transfer, Consume, PollTx
  <2> QED
    BY <1>1, <2>1, LossCarried
<1>6. CASE UNCHANGED vars
  <2>1. Carries
    BY <1>6, LossOutside
  <2> QED
    BY <1>1, <2>1, LossCarried
<1> QED
  BY <1>2, <1>5, <1>6 DEF Next

\* While both ends keep the pair a message was accepted in, and nobody restarted its
\* counting, the message was delivered, was reported by the event callback, or is
\* still held in full between the two ends: for every window, pool, number of
\* fragments and retries, whatever the network does and whoever restarts.
THEOREM NoSilentLossAlways == Spec => []NoSilentLoss
<1>1. Init => OrderInv /\ LossInv
  BY DEF Init, OrderInv, Partials, DeliveredPast, InOrder, LossInv, Traced,
     PendingReported, Empty
<1>2. NumbersInv /\ NumbersInv' /\ OrderInv /\ LossInv /\ [Next]_vars => OrderInv' /\ LossInv'
  BY OrderStep, LossStep DEF NumbersInv, SessionInv
<1>3. NumbersInv /\ LossInv => NoSilentLoss
  <2> SUFFICES ASSUME NumbersInv, LossInv, NEW e \in Ends, NEW m \in accepted[e],
                      m.ch # TIME, Shared(m), Sound(m)
               PROVE  Settled(e, m)
    BY DEF NoSilentLoss
  <2>1. SessionInv /\ TypeOK /\ Unbound /\ m.rs # 0 /\ m.ns # 0
    BY DEF NumbersInv, SessionInv, Numbered
  <2>2. ASSUME NEW o \in Ends PROVE ~Over(o, Ids(m))
    <3>1. Pair(o) = Ids(m) /\ Ids(m) \notin tainted
      BY DEF Shared, Sound, Ids
    <3>2. rootSession[o] # 0 /\ nodeSession[o] # 0
      BY <2>1, <3>1 DEF Pair, Ids
    <3>3. ready[o]
      BY <2>1, <3>1, <3>2 DEF Unbound, UnboundAt
    <3>4. session[o] \in Nat
      BY <2>1, Domains
    <3>5. Own(o, Ids(m)) = session[o]
      BY <2>1, <3>1, <3>3 DEF SessionInv, SessionsBound, Own, Pair
    <3> QED
      BY <3>1, <3>4, <3>5 DEF Over
  <2>3. TracedMessage(e, m)
    BY DEF LossInv, Traced
  <2>4. \A q \in Covers(m) : Queued(e, m, q) \/ Done(e, m) \/ InHand(Peer(e), m, q)
    BY <2>2, <2>3, Peers DEF TracedMessage, Taken
  <2>5. CASE Done(e, m)
    BY <2>5 DEF Done, WasDelivered, Reported, Settled
  <2>6. CASE ~Done(e, m)
    <3>1. \A q \in m.first .. LastSeq(m) : Held(e, m, q)
      BY <2>4, <2>6 DEF Queued, InHand, Held, Covers
    <3> QED
      BY <3>1 DEF Settled
  <2> QED
    BY <2>5, <2>6
<1> QED
  BY <1>1, <1>2, <1>3, NumbersInvAlways, PTL DEF Spec

----------------------------------------------------------------------------
(* The table of pending lost ranges *)

\* A set of natural numbers has a least element.
LEMMA LeastNatural ==
  ASSUME NEW S \in SUBSET Nat, S # {}
  PROVE  \E m \in S : \A k \in S : m <= k
<1>1. PICK m \in S : \A k \in S : ~(<<k, m>> \in OpToRel(<, Nat))
  BY NatLessThanWellFounded, WFMin, Zenon
<1>2. \A k \in S : ~(k < m)
  BY <1>1 DEF OpToRel
<1> QED
  BY <1>2

\* Induction up to a bound: what holds of 0 and passes to the successor.
LEMMA UpTo ==
  ASSUME NEW N \in Nat, NEW S, 0 \in S, \A n \in 0 .. N - 1 : n \in S => n + 1 \in S
  PROVE  \A n \in 0 .. N : n \in S
<1> SUFFICES ASSUME NEW x \in 0 .. N, x \notin S PROVE FALSE
  OBVIOUS
<1> DEFINE T == {n \in 0 .. N : n \notin S}
<1>1. T \in SUBSET Nat /\ T # {}
  OBVIOUS
<1>2. PICK m \in T : \A k \in T : m <= k
  BY <1>1, LeastNatural
<1>3. m # 0 /\ m - 1 \in 0 .. N - 1
  BY <1>2
<1>4. m - 1 \in S
  BY <1>2, <1>3
<1>5. m - 1 + 1 \in S
  BY <1>3, <1>4
<1> QED
  BY <1>2, <1>5

\* The numbers of a channel take up less than half of the 32-bit numbers.
LEMMA Width32 ==
  /\ Modulus \in Nat /\ Horizon \in Nat /\ 2 * (Horizon + 1) <= Modulus
  /\ PendingLostRanges \in Nat \ {0}
  BY TableAssumption

\* Reducing a sum of two numbers on the wire.
LEMMA Residue ==
  ASSUME NEW m \in Nat, NEW x \in Int, 0 <= x, x < 2 * m
  PROVE  x % m = IF x < m THEN x ELSE x - m
  OBVIOUS

\* Reducing a difference of two numbers on the wire.
LEMMA ResidueBelow ==
  ASSUME NEW m \in Nat, NEW x \in Int, -m <= x, x < m
  PROVE  x % m = IF x >= 0 THEN x ELSE x + m
  OBVIOUS

----------------------------------------------------------------------------
(* From numbers on the wire to the numbers they stand for *)

Numbers == 0 .. Horizon

\* The row that stands for a .. b, and whether two such ranges overlap or touch.
Span(ch, a, b) == Range0(ch, Wire(a), Wire(b))
Touch(a, b, c, d) == a <= d + 1 /\ c <= b + 1

\* Number q on the wire: the sum, wrapped around at most once.
LEMMA WireIs ==
  ASSUME start \in 0 .. Modulus - 1, NEW q \in 0 .. Horizon + 1
  PROVE  /\ Wire(q) \in 0 .. Modulus - 1
         /\ Wire(q) = IF start + q < Modulus THEN start + q ELSE start + q - Modulus
<1>1. PICK x \in Int : x = start + q /\ 0 <= x /\ x < 2 * Modulus
  BY Width32
<1>2. x % Modulus = IF x < Modulus THEN x ELSE x - Modulus
  BY <1>1, Width32, Residue
<1>3. Wire(q) = x % Modulus
  BY <1>1 DEF Wire
<1> QED
  BY <1>1, <1>2, <1>3, Width32

\* The 32-bit difference of two numbers on the wire.
LEMMA WireMinus ==
  ASSUME start \in 0 .. Modulus - 1, NEW a \in 0 .. Horizon + 1, NEW b \in 0 .. Horizon + 1
  PROVE  Minus(Wire(b), Wire(a)) = IF a <= b THEN b - a ELSE b - a + Modulus
<1> DEFINE d == Wire(b) - Wire(a)
<1>1. a \in Nat /\ b \in Nat /\ a < Modulus /\ b < Modulus
  BY Width32
<1>2. d \in {b - a, b - a + Modulus, b - a - Modulus} /\ -Modulus <= d /\ d < Modulus
      /\ d \in Int
  BY <1>1, WireIs, Width32
<1>3. d % Modulus = IF d >= 0 THEN d ELSE d + Modulus
  BY <1>2, Width32, ResidueBelow
<1> HIDE DEF d
<1>4. d % Modulus = IF a <= b THEN b - a ELSE b - a + Modulus
  BY <1>1, <1>2, <1>3, Width32
<1> QED
  BY <1>4 DEF d, Minus

\* On the wire as on the numbers: order, successor, ranges.
LEMMA WireOrder ==
  ASSUME start \in 0 .. Modulus - 1, NEW a \in Numbers, NEW b \in Numbers
  PROVE  /\ SeqBefore(Wire(a), Wire(b)) <=> a < b
         /\ SeqAfter(Wire(a), Wire(b)) <=> b < a
         /\ Succ(Wire(a)) = Wire(b) <=> a + 1 = b
         /\ Wire(a) = Wire(b) <=> a = b
<1>1. a \in 0 .. Horizon + 1 /\ b \in 0 .. Horizon + 1
  BY Width32 DEF Numbers
<1>2. Minus(Wire(a), Wire(b)) = IF b <= a THEN a - b ELSE a - b + Modulus
  BY <1>1, WireMinus
<1>3. Minus(Wire(b), Wire(a)) = IF a <= b THEN b - a ELSE b - a + Modulus
  BY <1>1, WireMinus
<1>4. SeqBefore(Wire(a), Wire(b)) <=> a < b
  BY <1>2, Width32 DEF SeqBefore, Numbers
<1>5. SeqAfter(Wire(a), Wire(b)) <=> b < a
  BY <1>3, Width32 DEF SeqBefore, SeqAfter, Numbers
<1>6. Wire(a) = Wire(b) <=> a = b
  BY <1>1, WireIs, Width32 DEF Numbers
<1>7. Succ(Wire(a)) = Wire(b) <=> a + 1 = b
  <2>1. PICK x \in Int : x = Wire(a) + 1 /\ 0 <= x /\ x < 2 * Modulus
    BY <1>1, WireIs, Width32
  <2>2. Succ(Wire(a)) = IF x < Modulus THEN x ELSE x - Modulus
    BY <2>1, Width32, Residue DEF Succ
  <2>3. a + 1 \in 0 .. Horizon + 1
    BY Width32 DEF Numbers
  <2>4. Succ(Wire(a)) = Wire(a + 1)
    BY <1>1, <2>1, <2>2, <2>3, WireIs, Width32
  <2>5. Wire(a + 1) = Wire(b) => a + 1 = b
    BY <1>1, <2>3, WireIs, Width32
  <2> QED
    BY <2>4, <2>5
<1> QED
  BY <1>4, <1>5, <1>6, <1>7

\* seq_in_range() on the wire is membership in the range of numbers.
LEMMA WireRange ==
  ASSUME start \in 0 .. Modulus - 1, NEW a \in Numbers, NEW b \in Numbers, a <= b,
         NEW q \in Numbers
  PROVE  SeqInRange(Wire(q), Wire(a), Wire(b)) <=> q \in a .. b
<1>1. a \in 0 .. Horizon + 1 /\ b \in 0 .. Horizon + 1 /\ q \in 0 .. Horizon + 1
  BY Width32 DEF Numbers
<1>2. Minus(Wire(q), Wire(a)) = IF a <= q THEN q - a ELSE q - a + Modulus
  BY <1>1, WireMinus
<1>3. Minus(Wire(b), Wire(a)) = b - a
  BY <1>1, WireMinus
<1> QED
  BY <1>2, <1>3, Width32 DEF SeqInRange, Numbers

\* pending_lost_add() finds that two ranges overlap or touch when their numbers do.
LEMMA SpanJoins ==
  ASSUME start \in 0 .. Modulus - 1, NEW ch, NEW a \in Numbers, NEW b \in Numbers, a <= b,
         NEW c \in Numbers, NEW d \in Numbers, c <= d
  PROVE  Joins(Span(ch, a, b), Span(ch, c, d)) <=> Touch(a, b, c, d)
<1> DEFINE r == Span(ch, a, b)
           s == Span(ch, c, d)
<1>1. /\ r.first = Wire(a) /\ r.last = Wire(b) /\ s.first = Wire(c) /\ s.last = Wire(d)
  BY DEF Span, Range0
<1>2. /\ SeqInRange(r.first, s.first, s.last) <=> a \in c .. d
      /\ SeqInRange(r.last, s.first, s.last) <=> b \in c .. d
      /\ SeqInRange(s.first, r.first, r.last) <=> c \in a .. b
      /\ SeqInRange(s.last, r.first, r.last) <=> d \in a .. b
  BY <1>1, WireRange
<1>3. /\ Succ(r.last) = s.first <=> b + 1 = c
      /\ Succ(s.last) = r.first <=> d + 1 = a
  BY <1>1, WireOrder
<1>4. Touch(a, b, c, d) <=>
        \/ a \in c .. d \/ b \in c .. d \/ c \in a .. b \/ d \in a .. b
        \/ b + 1 = c \/ d + 1 = a
  BY DEF Touch, Numbers
<1> HIDE DEF r, s
<1>5. Joins(r, s) <=> Touch(a, b, c, d)
  BY <1>2, <1>3, <1>4 DEF Joins
<1> QED
  BY <1>5 DEF r, s

\* What it makes of two ranges it joins runs from the lesser first number to the
\* greater last one.
LEMMA SpanCovers ==
  ASSUME start \in 0 .. Modulus - 1, NEW ch, NEW a \in Numbers, NEW b \in Numbers, a <= b,
         NEW c \in Numbers, NEW d \in Numbers, c <= d
  PROVE  Cover(Span(ch, a, b), Span(ch, c, d)) =
           Span(ch, IF c < a THEN c ELSE a, IF b < d THEN d ELSE b)
<1>1. SeqBefore(Wire(c), Wire(a)) <=> c < a
  BY WireOrder
<1>2. SeqAfter(Wire(d), Wire(b)) <=> b < d
  BY WireOrder
<1> DEFINE r == Span(ch, a, b)
           s == Span(ch, c, d)
<1>3. /\ r.ch = ch /\ r.first = Wire(a) /\ r.last = Wire(b)
      /\ s.first = Wire(c) /\ s.last = Wire(d)
  BY DEF Span, Range0
<1> HIDE DEF r, s
<1>4. Cover(r, s) = Range0(ch, IF c < a THEN Wire(c) ELSE Wire(a),
                               IF b < d THEN Wire(d) ELSE Wire(b))
  BY <1>1, <1>2, <1>3, Zenon DEF Cover
<1> QED
  BY <1>4, Zenon DEF r, s, Span

----------------------------------------------------------------------------
(* Rows as ranges of numbers *)

\* The numbers a row begins and ends with, and a row that stands for a range.
Lo(row) == Minus(row.first, start)
Hi(row) == Minus(row.last, start)
IsSpan(row) ==
  /\ row.used /\ row.ch \in Channels
  /\ Lo(row) \in Numbers /\ Hi(row) \in Numbers /\ Lo(row) <= Hi(row)
  /\ row = Span(row.ch, Lo(row), Hi(row))
Meet(r, s) == Touch(Lo(r), Hi(r), Lo(s), Hi(s))

\* A row stands for the range it was made of.
LEMMA SpanIs ==
  ASSUME start \in 0 .. Modulus - 1, NEW ch \in Channels, NEW a \in Numbers, NEW b \in Numbers,
         a <= b
  PROVE  /\ IsSpan(Span(ch, a, b))
         /\ Lo(Span(ch, a, b)) = a /\ Hi(Span(ch, a, b)) = b /\ Span(ch, a, b).ch = ch
<1> DEFINE r == Span(ch, a, b)
<1>1. a \in 0 .. Horizon + 1 /\ b \in 0 .. Horizon + 1 /\ 0 \in 0 .. Horizon + 1
  BY Width32 DEF Numbers
<1>2. Wire(0) = start
  BY <1>1, WireIs, Width32
<1>3. Minus(Wire(a), Wire(0)) = a /\ Minus(Wire(b), Wire(0)) = b
  BY <1>1, WireMinus DEF Numbers
<1>4. r.used = TRUE /\ r.ch = ch /\ r.first = Wire(a) /\ r.last = Wire(b)
  BY DEF Span, Range0
<1>5. Lo(r) = a /\ Hi(r) = b
  BY <1>2, <1>3, <1>4 DEF Lo, Hi
<1> QED
  BY <1>4, <1>5 DEF IsSpan

\* Two rows of a channel are joined when their ranges overlap or touch.
LEMMA RowsMeet ==
  ASSUME start \in 0 .. Modulus - 1, NEW r, NEW s, IsSpan(r), IsSpan(s), r.ch = s.ch
  PROVE  Joins(r, s) <=> Meet(r, s)
<1>1. Joins(Span(r.ch, Lo(r), Hi(r)), Span(r.ch, Lo(s), Hi(s))) <=> Meet(r, s)
  BY SpanJoins DEF IsSpan, Meet
<1> QED
  BY <1>1 DEF IsSpan

\* The row that takes in another stands for the numbers from the lesser first to
\* the greater last.
LEMMA RowsCover ==
  ASSUME start \in 0 .. Modulus - 1, NEW r, NEW s, IsSpan(r), IsSpan(s), r.ch = s.ch
  PROVE  /\ IsSpan(Cover(r, s)) /\ Cover(r, s).ch = r.ch
         /\ Lo(Cover(r, s)) = IF Lo(s) < Lo(r) THEN Lo(s) ELSE Lo(r)
         /\ Hi(Cover(r, s)) = IF Hi(r) < Hi(s) THEN Hi(s) ELSE Hi(r)
<1> DEFINE a == IF Lo(s) < Lo(r) THEN Lo(s) ELSE Lo(r)
           b == IF Hi(r) < Hi(s) THEN Hi(s) ELSE Hi(r)
<1>1. Cover(Span(r.ch, Lo(r), Hi(r)), Span(r.ch, Lo(s), Hi(s))) = Span(r.ch, a, b)
  BY SpanCovers DEF IsSpan
<1>2. Cover(r, s) = Span(r.ch, a, b)
  BY <1>1 DEF IsSpan
<1>3. a \in Numbers /\ b \in Numbers /\ a <= b
  BY DEF IsSpan, Numbers
<1>4. r.ch \in Channels
  BY DEF IsSpan
<1> HIDE DEF a, b
<1>5. IsSpan(Cover(r, s)) /\ Cover(r, s).ch = r.ch /\ Lo(Cover(r, s)) = a /\ Hi(Cover(r, s)) = b
  BY <1>2, <1>3, <1>4, SpanIs
<1> QED
  BY <1>5 DEF a, b

\* Whether a number on the wire is in a row.
LEMMA RowHas ==
  ASSUME start \in 0 .. Modulus - 1, NEW r, IsSpan(r)
  PROVE  /\ \A q \in Numbers : SeqInRange(Wire(q), r.first, r.last) <=> q \in Lo(r) .. Hi(r)
         /\ r.first = Wire(Lo(r)) /\ r.last = Wire(Hi(r))
         /\ r.first \in 0 .. Modulus - 1 /\ r.last \in 0 .. Modulus - 1
<1>1. r = Span(r.ch, Lo(r), Hi(r)) /\ Lo(r) \in Numbers /\ Hi(r) \in Numbers /\ Lo(r) <= Hi(r)
  BY DEF IsSpan
<1>2. r.first = Wire(Lo(r)) /\ r.last = Wire(Hi(r))
  BY <1>1 DEF Span, Range0
<1>3. Wire(Lo(r)) \in 0 .. Modulus - 1 /\ Wire(Hi(r)) \in 0 .. Modulus - 1
  BY <1>1, WireIs, Width32 DEF Numbers
<1> QED
  BY <1>1, <1>2, <1>3, WireRange

----------------------------------------------------------------------------
(* The inner loop *)

RowType ==
  [used: {TRUE}, ch: Channels, first: 0 .. Modulus - 1, last: 0 .. Modulus - 1]
    \cup {Unused}

\* A table in which no two rows of a channel overlap or touch.
Good(t) ==
  /\ t \in [Row -> RowType]
  /\ \A i \in Row : t[i].used => IsSpan(t[i])
  /\ \A i, j \in Row : i # j /\ t[i].used /\ t[j].used /\ t[i].ch = t[j].ch
                       => ~Meet(t[i], t[j])

\* Row k is one that the range overlaps or touches.
Hit(t, r, k) == k \in Row /\ t[k].used /\ t[k].ch = r.ch /\ Meet(r, t[k])

\* What row i has become after n turns of the inner loop: it covers the range and
\* the rows up to n that the range meets, and nothing else; those rows are free.
Grown(t, r, i, n, u) ==
  /\ u \in [Row -> RowType]
  /\ IsSpan(u[i]) /\ u[i].ch = r.ch
  /\ Lo(u[i]) <= Lo(r) /\ Hi(r) <= Hi(u[i])
  /\ \A q \in Lo(u[i]) .. Hi(u[i]) :
       q \in Lo(r) .. Hi(r) \/ \E k \in Row : (k <= n \/ k = i) /\ Hit(t, r, k)
                                              /\ q \in Lo(t[k]) .. Hi(t[k])
  /\ \A k \in Row : (k <= n \/ k = i) /\ Hit(t, r, k)
                    => Lo(u[i]) <= Lo(t[k]) /\ Hi(t[k]) <= Hi(u[i])
  /\ \A k \in Row \ {i} : u[k] = IF k <= n /\ Hit(t, r, k) THEN Unused ELSE t[k]

\* Rows that stand for ranges are rows of the table, and used.
LEMMA RowTypes ==
  ASSUME start \in 0 .. Modulus - 1
  PROVE  /\ \A r : IsSpan(r) => r \in RowType /\ r.used = TRUE
         /\ Unused \in RowType /\ Unused.used = FALSE
         /\ \A r \in RowType : r.used => r # Unused /\ r.ch \in Channels
<1>1. Unused \in RowType /\ Unused.used = FALSE
  BY DEF RowType, Unused
<1>2. ASSUME NEW r, IsSpan(r)
      PROVE  r \in RowType /\ r.used = TRUE
  <2>1. PICK c \in Channels, f \in 0 .. Modulus - 1, l \in 0 .. Modulus - 1 : r = Range0(c, f, l)
    <3>1. r = Range0(r.ch, Wire(Lo(r)), Wire(Hi(r)))
      BY <1>2 DEF IsSpan, Span
    <3>2. r.ch \in Channels /\ Wire(Lo(r)) \in 0 .. Modulus - 1 /\ Wire(Hi(r)) \in 0 .. Modulus - 1
      BY <1>2, RowHas DEF IsSpan
    <3> QED
      BY <3>1, <3>2, Zenon
  <2> QED
    BY <2>1 DEF RowType, Range0
<1>3. \A r \in RowType : r.used => r # Unused /\ r.ch \in Channels
  BY <1>1 DEF RowType
<1> QED
  BY <1>1, <1>2, <1>3

\* A range that touches a..b touches one of its numbers.
LEMMA Bridge ==
  ASSUME NEW a \in Int, NEW b \in Int, NEW x \in Int, NEW y \in Int, a <= b, x <= y,
         Touch(a, b, x, y)
  PROVE  \E q \in a .. b : x - 1 <= q /\ q <= y + 1
<1>1. CASE x - 1 >= a
  <2>1. x - 1 \in a .. b
    BY <1>1 DEF Touch
  <2> QED
    BY <2>1
<1>2. CASE x - 1 < a
  <2>1. a \in a .. b /\ x - 1 <= a /\ a <= y + 1
    BY <1>2 DEF Touch
  <2> QED
    BY <2>1
<1> QED
  BY <1>1, <1>2

\* The bounds of a row are integers in order.
LEMMA SpanInts ==
  ASSUME NEW r, IsSpan(r)
  PROVE  Lo(r) \in Int /\ Hi(r) \in Int /\ Lo(r) <= Hi(r) /\ Lo(r) \in Numbers /\ Hi(r) \in Numbers
  BY Width32 DEF IsSpan, Numbers

\* Row i, grown, meets another row only if the range itself does.
LEMMA OnlyHits ==
  ASSUME NEW t, NEW r, NEW i \in Row, NEW n \in Nat, NEW u, Good(t), IsSpan(r),
         Grown(t, r, i, n, u),
         NEW j \in Row, j # i, ~(j <= n), t[j].used, t[j].ch = r.ch
  PROVE  Meet(u[i], t[j]) <=> Meet(r, t[j])
<1>1. IsSpan(t[j]) /\ IsSpan(u[i])
  BY DEF Good, Grown
<1> DEFINE a == Lo(u[i])
           b == Hi(u[i])
           x == Lo(t[j])
           y == Hi(t[j])
<1>2. a \in Int /\ b \in Int /\ a <= b /\ x \in Int /\ y \in Int /\ x <= y
  BY <1>1, SpanInts
<1>3. Lo(r) \in Int /\ Hi(r) \in Int /\ Lo(r) <= Hi(r)
  BY SpanInts
<1>4. ASSUME Meet(r, t[j])
      PROVE  Meet(u[i], t[j])
  <2>1. a <= Lo(r) /\ Hi(r) <= b
    BY DEF Grown
  <2> QED
    BY <1>2, <1>3, <1>4, <2>1 DEF Meet, Touch
<1>5. ASSUME Meet(u[i], t[j])
      PROVE  Meet(r, t[j])
  <2>1. Touch(a, b, x, y)
    BY <1>5 DEF Meet
  <2> HIDE DEF a, b, x, y
  <2>2. PICK q \in a .. b : x - 1 <= q /\ q <= y + 1
    BY <1>2, <2>1, Bridge
  <2>3. \/ q \in Lo(r) .. Hi(r)
        \/ \E k \in Row : (k <= n \/ k = i) /\ Hit(t, r, k) /\ q \in Lo(t[k]) .. Hi(t[k])
    BY <2>2 DEF Grown, a, b
  <2>4. CASE q \in Lo(r) .. Hi(r)
    BY <1>2, <1>3, <2>2, <2>4 DEF Meet, Touch, x, y
  <2>5. ASSUME NEW k \in Row, k <= n \/ k = i, Hit(t, r, k), q \in Lo(t[k]) .. Hi(t[k])
        PROVE  FALSE
    <3>1. k # j /\ t[k].used /\ t[k].ch = t[j].ch
      BY <2>5 DEF Hit
    <3>2. ~Meet(t[k], t[j]) /\ IsSpan(t[k])
      BY <3>1 DEF Good
    <3>3. Lo(t[k]) \in Int /\ Hi(t[k]) \in Int
      BY <3>2, SpanInts
    <3>4. Meet(t[k], t[j])
      BY <1>2, <2>2, <2>5, <3>3 DEF Meet, Touch, x, y
    <3> QED
      BY <3>2, <3>4
  <2> QED
    BY <2>3, <2>4, <2>5
<1> QED
  BY <1>4, <1>5

\* The first row the range meets takes it in.
LEMMA GrowStart ==
  ASSUME start \in 0 .. Modulus - 1, NEW t, NEW r, NEW i \in Row, Good(t), IsSpan(r), Hit(t, r, i)
  PROVE  Grown(t, r, i, 0, [t EXCEPT ![i] = Cover(t[i], r)])
<1> DEFINE c == Cover(t[i], r)
           u == [t EXCEPT ![i] = c]
<1>1. IsSpan(t[i]) /\ t[i].ch = r.ch /\ Meet(r, t[i])
  BY DEF Good, Hit
<1>2. /\ IsSpan(c) /\ c.ch = r.ch
      /\ Lo(c) = IF Lo(r) < Lo(t[i]) THEN Lo(r) ELSE Lo(t[i])
      /\ Hi(c) = IF Hi(t[i]) < Hi(r) THEN Hi(r) ELSE Hi(t[i])
  BY <1>1, RowsCover
<1> HIDE DEF c
<1>3. u \in [Row -> RowType] /\ u[i] = c /\ \A k \in Row \ {i} : u[k] = t[k]
  BY <1>2, RowTypes DEF Good
<1>4. /\ Lo(r) \in Int /\ Hi(r) \in Int /\ Lo(r) <= Hi(r)
      /\ Lo(t[i]) \in Int /\ Hi(t[i]) \in Int /\ Lo(t[i]) <= Hi(t[i])
  BY <1>1, SpanInts
<1> HIDE DEF u
<1>5. Lo(u[i]) <= Lo(r) /\ Hi(r) <= Hi(u[i]) /\ Lo(u[i]) <= Lo(t[i]) /\ Hi(t[i]) <= Hi(u[i])
  BY <1>2, <1>3, <1>4
<1>6. ASSUME NEW q \in Lo(u[i]) .. Hi(u[i])
      PROVE  q \in Lo(r) .. Hi(r) \/ q \in Lo(t[i]) .. Hi(t[i])
  BY <1>1, <1>2, <1>3, <1>4 DEF Meet, Touch
<1>7. \A k \in Row : ~(k <= 0)
  BY Width32 DEF Row
<1>8. Grown(t, r, i, 0, u)
  BY <1>2, <1>3, <1>5, <1>6, <1>7 DEF Grown
<1> QED
  BY <1>8 DEF u, c

\* A turn of the inner loop takes in row n + 1 if the range meets it.
LEMMA GrowStep ==
  ASSUME start \in 0 .. Modulus - 1, NEW t, NEW r, NEW i \in Row, NEW n \in Nat, NEW u,
         n + 1 \in Row, Good(t), IsSpan(r), Hit(t, r, i), Grown(t, r, i, n, u)
  PROVE  Grown(t, r, i, n + 1, JoinRow(u, i, n + 1))
<1> DEFINE j == n + 1
           hit == j # i /\ Hit(t, r, j)
           c == Cover(u[i], t[j])
           v == JoinRow(u, i, j)
<1>0. j \in Row /\ ~(j <= n) /\ \A k \in Row : k <= j <=> k <= n \/ k = j
  BY DEF Row
<1> HIDE DEF j
<1>1. u \in [Row -> RowType] /\ IsSpan(u[i]) /\ u[i].ch = r.ch
  BY DEF Grown
<1>2. j # i => u[j] = t[j]
  BY <1>0 DEF Grown
<1>3. j # i /\ t[j].used /\ t[j].ch = r.ch => IsSpan(t[j]) /\ (Joins(u[i], t[j]) <=> Meet(r, t[j]))
  <2> SUFFICES ASSUME j # i, t[j].used, t[j].ch = r.ch
               PROVE  IsSpan(t[j]) /\ (Joins(u[i], t[j]) <=> Meet(r, t[j]))
    OBVIOUS
  <2>1. IsSpan(t[j])
    BY <1>0 DEF Good
  <2>2. Joins(u[i], t[j]) <=> Meet(u[i], t[j])
    BY <1>1, <2>1, RowsMeet
  <2>3. Meet(u[i], t[j]) <=> Meet(r, t[j])
    BY <1>0, OnlyHits
  <2> QED
    BY <2>1, <2>2, <2>3
<1>4. v = IF hit THEN [u EXCEPT ![i] = c, ![j] = Unused] ELSE u
  BY <1>0, <1>1, <1>2, <1>3, Zenon DEF JoinRow, Hit
<1>5. CASE ~hit
  <2>1. v = u
    BY <1>4, <1>5, Zenon
  <2>2. \A k \in Row : (k <= j \/ k = i) /\ Hit(t, r, k) => k <= n \/ k = i
    BY <1>0, <1>5
  <2>3. \A k \in Row \ {i} : k <= j /\ Hit(t, r, k) <=> k <= n /\ Hit(t, r, k)
    BY <1>0, <1>5
  <2> HIDE DEF v, hit
  <2>4. \A k \in Row : k <= n => k <= j
    BY <1>0
  <2>5. Grown(t, r, i, j, u)
    <3>1. /\ u \in [Row -> RowType] /\ IsSpan(u[i]) /\ u[i].ch = r.ch
          /\ Lo(u[i]) <= Lo(r) /\ Hi(r) <= Hi(u[i])
      BY DEF Grown
    <3>2. \A q \in Lo(u[i]) .. Hi(u[i]) :
            q \in Lo(r) .. Hi(r) \/ \E k \in Row : (k <= j \/ k = i) /\ Hit(t, r, k)
                                                   /\ q \in Lo(t[k]) .. Hi(t[k])
      BY <2>4, Zenon DEF Grown
    <3>3. \A k \in Row : (k <= j \/ k = i) /\ Hit(t, r, k)
                         => Lo(u[i]) <= Lo(t[k]) /\ Hi(t[k]) <= Hi(u[i])
      BY <2>2 DEF Grown
    <3>4. \A k \in Row \ {i} : u[k] = IF k <= j /\ Hit(t, r, k) THEN Unused ELSE t[k]
      BY <2>3 DEF Grown
    <3> QED
      BY <3>1, <3>2, <3>3, <3>4, Zenon DEF Grown
  <2> QED
    BY <2>1, <2>5 DEF j, v
<1>6. CASE hit
  <2>1. j # i /\ Hit(t, r, j) /\ IsSpan(t[j]) /\ t[j].ch = r.ch
    BY <1>3, <1>6 DEF Hit
  <2>2. /\ IsSpan(c) /\ c.ch = r.ch
        /\ Lo(c) = IF Lo(t[j]) < Lo(u[i]) THEN Lo(t[j]) ELSE Lo(u[i])
        /\ Hi(c) = IF Hi(u[i]) < Hi(t[j]) THEN Hi(t[j]) ELSE Hi(u[i])
    BY <1>1, <2>1, RowsCover
  <2>3. v = [u EXCEPT ![i] = c, ![j] = Unused]
    BY <1>4, <1>6, Zenon
  <2> HIDE DEF c, v, hit
  <2>4. /\ v \in [Row -> RowType] /\ v[i] = c /\ v[j] = Unused
        /\ \A k \in Row \ {i, j} : v[k] = u[k]
    BY <1>0, <1>1, <2>1, <2>2, <2>3, RowTypes
  <2>5. /\ Lo(r) \in Int /\ Hi(r) \in Int /\ Lo(r) <= Hi(r)
        /\ Lo(t[j]) \in Int /\ Hi(t[j]) \in Int /\ Lo(t[j]) <= Hi(t[j])
        /\ Lo(u[i]) \in Int /\ Hi(u[i]) \in Int /\ Lo(u[i]) <= Hi(u[i])
    BY <1>1, <2>1, SpanInts
  <2>6. Lo(u[i]) <= Lo(r) /\ Hi(r) <= Hi(u[i])
    BY DEF Grown
  <2>7. Lo(c) <= Lo(r) /\ Hi(r) <= Hi(c)
    BY <2>2, <2>5, <2>6
  <2>8. ASSUME NEW q \in Lo(c) .. Hi(c)
        PROVE  \/ q \in Lo(r) .. Hi(r)
               \/ \E k \in Row : (k <= j \/ k = i) /\ Hit(t, r, k) /\ q \in Lo(t[k]) .. Hi(t[k])
    <3>1. q \in Lo(u[i]) .. Hi(u[i]) \/ q \in Lo(t[j]) .. Hi(t[j])
      <4>1. Meet(r, t[j])
        BY <2>1 DEF Hit
      <4> QED
        BY <2>2, <2>5, <2>6, <2>8, <4>1 DEF Meet, Touch
    <3>2. CASE q \in Lo(t[j]) .. Hi(t[j])
      BY <1>0, <2>1, <3>2
    <3>3. CASE q \in Lo(u[i]) .. Hi(u[i])
      BY <1>0, <3>3 DEF Grown
    <3> QED
      BY <3>1, <3>2, <3>3
  <2>9. ASSUME NEW k \in Row, k <= j \/ k = i, Hit(t, r, k)
        PROVE  Lo(c) <= Lo(t[k]) /\ Hi(t[k]) <= Hi(c)
    <3>1. CASE k = j
      BY <2>2, <2>5, <3>1
    <3>2. CASE k <= n \/ k = i
      <4>1. Lo(u[i]) <= Lo(t[k]) /\ Hi(t[k]) <= Hi(u[i])
        BY <2>9, <3>2 DEF Grown
      <4>2. IsSpan(t[k])
        BY <2>9 DEF Good, Hit
      <4>3. Lo(t[k]) \in Int /\ Hi(t[k]) \in Int
        BY <4>2, SpanInts
      <4> QED
        BY <2>2, <2>5, <4>1, <4>3
    <3> QED
      BY <1>0, <2>9, <3>1, <3>2
  <2>10. ASSUME NEW k \in Row \ {i}
         PROVE  v[k] = IF k <= j /\ Hit(t, r, k) THEN Unused ELSE t[k]
    <3>1. CASE k = j
      BY <1>0, <2>1, <2>4, <3>1
    <3>2. CASE k # j
      <4>1. v[k] = u[k] /\ (k <= j <=> k <= n)
        BY <1>0, <2>4, <3>2
      <4> QED
        BY <4>1 DEF Grown
    <3> QED
      BY <3>1, <3>2
  <2>11. Grown(t, r, i, j, v)
    BY <2>2, <2>4, <2>7, <2>8, <2>9, <2>10 DEF Grown
  <2> QED
    BY <2>11 DEF j, v
<1> QED
  BY <1>5, <1>6

\* The inner loop is the function its recursion defines.
LEMMA JoinRowsDef ==
  ASSUME NEW t, NEW i
  PROVE  \E u : /\ JoinRows(t, i) = u[PendingLostRanges] /\ u[0] = t
                /\ \A n \in 0 .. PendingLostRanges - 1 : u[n + 1] = JoinRow(u[n], i, n + 1)
<1> DEFINE R == PendingLostRanges
           F(u, m) == [n \in 0 .. m |-> IF n = 0 THEN t ELSE JoinRow(u[n - 1], i, n)]
           S == {m \in 0 .. R : \E u : u = F(u, m)}
<1>1. R \in Nat /\ R # 0
  BY Width32
<1> HIDE DEF R
<1>2. 0 \in S
  <2> DEFINE u == [n \in 0 .. 0 |-> t]
  <2>1. u = F(u, 0) /\ 0 \in 0 .. R
    BY <1>1
  <2> QED
    BY <2>1, Zenon
<1>3. ASSUME NEW m \in 0 .. R - 1, m \in S
      PROVE  m + 1 \in S
  <2>1. PICK u : u = F(u, m)
    BY <1>3
  <2> DEFINE w == [n \in 0 .. m + 1 |-> IF n = m + 1 THEN JoinRow(u[m], i, m + 1) ELSE u[n]]
  <2>2. ASSUME NEW n \in 0 .. m + 1
        PROVE  w[n] = IF n = 0 THEN t ELSE JoinRow(w[n - 1], i, n)
    <3>1. CASE n = 0
      <4>1. w[0] = u[0] /\ u[0] = t
        BY <1>1, <2>1
      <4> QED
        BY <3>1, <4>1
    <3>2. CASE n # 0 /\ n # m + 1
      <4>1. w[n] = u[n] /\ w[n - 1] = u[n - 1] /\ n \in 0 .. m
        BY <1>1, <3>2
      <4>2. u[n] = JoinRow(u[n - 1], i, n)
        BY <2>1, <3>2, <4>1
      <4> QED
        BY <3>2, <4>1, <4>2, Zenon
    <3>3. CASE n = m + 1
      <4>1. w[m + 1] = JoinRow(u[m], i, m + 1) /\ w[m] = u[m] /\ m + 1 # 0 /\ (m + 1) - 1 = m
        BY <1>1
      <4> QED
        BY <3>3, <4>1
    <3> QED
      BY <3>1, <3>2, <3>3
  <2>3. w = F(w, m + 1)
    <3> HIDE DEF w
    <3>1. w = [n \in 0 .. m + 1 |-> w[n]]
      BY DEF w
    <3> QED
      BY <2>2, <3>1
  <2>4. m + 1 \in 0 .. R
    BY <1>1
  <2> QED
    BY <2>3, <2>4, Zenon
<1>4. R \in S
  <2> HIDE DEF S
  <2> QED
    BY <1>1, <1>2, <1>3, UpTo
<1>5. PICK u : u = F(u, R) /\ JoinRows(t, i) = u[R]
  BY <1>4, Zenon DEF JoinRows, R
<1>6. u[0] = t
  BY <1>1, <1>5
<1>7. ASSUME NEW n \in 0 .. R - 1
      PROVE  u[n + 1] = JoinRow(u[n], i, n + 1)
  <2>1. n + 1 \in 0 .. R /\ n + 1 # 0 /\ (n + 1) - 1 = n
    BY <1>1
  <2> QED
    BY <1>5, <2>1
<1> QED
  BY <1>5, <1>6, <1>7, Zenon DEF R

\* The inner loop joins all the rows the range meets and no other.
LEMMA JoinRowsGrow ==
  ASSUME start \in 0 .. Modulus - 1, NEW t, NEW r, NEW i \in Row,
         Good(t), IsSpan(r), Hit(t, r, i)
  PROVE  Grown(t, r, i, PendingLostRanges, JoinRows([t EXCEPT ![i] = Cover(t[i], r)], i))
<1> DEFINE R == PendingLostRanges
           t0 == [t EXCEPT ![i] = Cover(t[i], r)]
           S(u) == {n \in 0 .. R : Grown(t, r, i, n, u[n])}
<1>1. R \in Nat
  BY Width32
<1>2. Grown(t, r, i, 0, t0)
  BY GrowStart
<1> HIDE DEF t0
<1>3. PICK u : /\ JoinRows(t0, i) = u[R] /\ u[0] = t0
               /\ \A n \in 0 .. R - 1 : u[n + 1] = JoinRow(u[n], i, n + 1)
  BY JoinRowsDef
<1>4. 0 \in S(u)
  BY <1>1, <1>2, <1>3
<1>5. ASSUME NEW n \in 0 .. R - 1, n \in S(u)
      PROVE  n + 1 \in S(u)
  <2>1. n \in Nat /\ n + 1 \in Row /\ n + 1 \in 0 .. R
    BY <1>1 DEF Row
  <2>2. Grown(t, r, i, n, u[n])
    BY <1>5
  <2>3. Grown(t, r, i, n + 1, JoinRow(u[n], i, n + 1))
    BY <2>1, <2>2, GrowStep
  <2> QED
    BY <1>3, <2>1, <2>3
<1>6. R \in S(u)
  <2> DEFINE SS == S(u)
  <2> HIDE DEF SS
  <2>1. 0 \in SS /\ \A n \in 0 .. R - 1 : n \in SS => n + 1 \in SS
    BY <1>4, <1>5 DEF SS
  <2>2. R \in SS
    BY <1>1, <2>1, UpTo
  <2> QED
    BY <2>2 DEF SS
<1> QED
  BY <1>3, <1>6 DEF t0

----------------------------------------------------------------------------
(* The passes *)

Has(t, ch, q) == \E k \in Row : t[k].used /\ t[k].ch = ch /\ q \in Lo(t[k]) .. Hi(t[k])

\* Joined, the table is canonical again, and has the range besides what it had.
LEMMA GrownTable ==
  ASSUME start \in 0 .. Modulus - 1, NEW t, NEW r, NEW i \in Row, NEW u,
         Good(t), IsSpan(r), Hit(t, r, i), Grown(t, r, i, PendingLostRanges, u)
  PROVE  /\ Good(u) /\ u[i].used
         /\ \A ch, q : Has(u, ch, q) <=> Has(t, ch, q) \/ (ch = r.ch /\ q \in Lo(r) .. Hi(r))
<1>1. u \in [Row -> RowType] /\ IsSpan(u[i]) /\ u[i].ch = r.ch /\ u[i].used
  BY DEF Grown, IsSpan
<1>2. \A k \in Row : k <= PendingLostRanges
  BY Width32 DEF Row
<1>3. \A k \in Row \ {i} : u[k] = IF Hit(t, r, k) THEN Unused ELSE t[k]
  BY <1>2 DEF Grown
<1>4. \A k \in Row \ {i} : u[k].used => u[k] = t[k] /\ ~Hit(t, r, k) /\ t[k].used
  BY <1>3, RowTypes
<1>5. \A k \in Row : u[k].used => IsSpan(u[k])
  BY <1>1, <1>4 DEF Good
<1>6. ASSUME NEW k \in Row \ {i}, u[k].used, u[k].ch = r.ch
      PROVE  ~Meet(u[i], u[k]) /\ ~Meet(u[k], u[i])
  <2>1. u[k] = t[k] /\ ~Meet(r, t[k]) /\ t[k].used /\ t[k].ch = r.ch /\ k \in Row /\ k # i
    BY <1>4, <1>6 DEF Hit
  <2>3. IsSpan(t[k])
    BY <1>5, <1>6, <2>1
  <2> DEFINE a == Lo(u[i])
             b == Hi(u[i])
             x == Lo(t[k])
             y == Hi(t[k])
  <2>4. a \in Int /\ b \in Int /\ a <= b /\ x \in Int /\ y \in Int /\ x <= y
    BY <1>1, <2>3, SpanInts
  <2>5. ASSUME Touch(a, b, x, y)
        PROVE  FALSE
    <3> HIDE DEF a, b, x, y
    <3>1. PICK q \in a .. b : x - 1 <= q /\ q <= y + 1
      BY <2>4, <2>5, Bridge
    <3>2. \/ q \in Lo(r) .. Hi(r)
          \/ \E l \in Row : Hit(t, r, l) /\ q \in Lo(t[l]) .. Hi(t[l])
      BY <3>1 DEF Grown, a, b
    <3>3. CASE q \in Lo(r) .. Hi(r)
      <4>1. Lo(r) \in Int /\ Hi(r) \in Int
        BY SpanInts
      <4>2. Meet(r, t[k])
        BY <2>4, <3>1, <3>3, <4>1 DEF Meet, Touch, x, y
      <4> QED
        BY <2>1, <4>2
    <3>4. ASSUME NEW l \in Row, Hit(t, r, l), q \in Lo(t[l]) .. Hi(t[l])
          PROVE  FALSE
      <4>1. l # k /\ t[l].used /\ t[l].ch = t[k].ch
        BY <1>6, <2>1, <3>4 DEF Hit
      <4>2. ~Meet(t[l], t[k]) /\ IsSpan(t[l])
        BY <2>1, <4>1 DEF Good
      <4>3. Lo(t[l]) \in Int /\ Hi(t[l]) \in Int
        BY <4>2, SpanInts
      <4>4. Meet(t[l], t[k])
        BY <2>4, <3>1, <3>4, <4>3 DEF Meet, Touch, x, y
      <4> QED
        BY <4>2, <4>4
    <3> QED
      BY <3>2, <3>3, <3>4
  <2> QED
    BY <2>1, <2>5 DEF Meet, Touch
<1>7. Good(u)
  <2>1. ASSUME NEW k \in Row, NEW l \in Row, k # l, u[k].used, u[l].used, u[k].ch = u[l].ch
        PROVE  ~Meet(u[k], u[l])
    <3>1. CASE k = i
      BY <1>1, <1>6, <2>1, <3>1
    <3>2. CASE l = i
      BY <1>1, <1>6, <2>1, <3>2
    <3>3. CASE k # i /\ l # i
      <4>1. u[k] = t[k] /\ u[l] = t[l] /\ t[k].used /\ t[l].used
        BY <1>4, <2>1, <3>3
      <4> QED
        BY <2>1, <4>1 DEF Good
    <3> QED
      BY <3>1, <3>2, <3>3
  <2> QED
    BY <1>1, <1>5, <2>1 DEF Good
<1>8. ASSUME NEW ch, NEW q, Has(u, ch, q)
      PROVE  Has(t, ch, q) \/ (ch = r.ch /\ q \in Lo(r) .. Hi(r))
  <2>1. PICK k \in Row : u[k].used /\ u[k].ch = ch /\ q \in Lo(u[k]) .. Hi(u[k])
    BY <1>8 DEF Has
  <2>2. CASE k # i
    <3>1. u[k] = t[k] /\ t[k].used
      BY <1>4, <2>1, <2>2
    <3> QED
      BY <2>1, <3>1 DEF Has
  <2>3. CASE k = i
    <3>1. q \in Lo(r) .. Hi(r) \/ \E l \in Row : Hit(t, r, l) /\ q \in Lo(t[l]) .. Hi(t[l])
      BY <2>1, <2>3 DEF Grown
    <3>2. ch = r.ch
      BY <1>1, <2>1, <2>3
    <3> QED
      BY <3>1, <3>2 DEF Has, Hit
  <2> QED
    BY <2>2, <2>3
<1>9. ASSUME NEW q, q \in Lo(r) .. Hi(r)
      PROVE  Has(u, r.ch, q)
  <2>1. Lo(u[i]) <= Lo(r) /\ Hi(r) <= Hi(u[i])
    BY DEF Grown
  <2>2. Lo(r) \in Int /\ Hi(r) \in Int /\ Lo(u[i]) \in Int /\ Hi(u[i]) \in Int
    BY <1>1, SpanInts
  <2>3. q \in Lo(u[i]) .. Hi(u[i])
    BY <1>9, <2>1, <2>2
  <2> QED
    BY <1>1, <2>3 DEF Has
<1>10. ASSUME NEW ch, NEW q, Has(t, ch, q)
       PROVE  Has(u, ch, q)
  <2>1. PICK k \in Row : t[k].used /\ t[k].ch = ch /\ q \in Lo(t[k]) .. Hi(t[k])
    BY <1>10 DEF Has
  <2>2. CASE Hit(t, r, k)
    <3>1. Lo(u[i]) <= Lo(t[k]) /\ Hi(t[k]) <= Hi(u[i])
      BY <1>2, <2>2 DEF Grown
    <3>2. IsSpan(t[k])
      BY <2>1 DEF Good
    <3>3. Lo(t[k]) \in Int /\ Hi(t[k]) \in Int /\ Lo(u[i]) \in Int /\ Hi(u[i]) \in Int
      BY <1>1, <3>2, SpanInts
    <3>4. q \in Lo(u[i]) .. Hi(u[i]) /\ ch = r.ch
      BY <2>1, <2>2, <3>1, <3>3 DEF Hit
    <3> QED
      BY <1>1, <3>4 DEF Has
  <2>3. CASE ~Hit(t, r, k)
    <3>1. k # i /\ u[k] = t[k]
      BY <1>3, <2>1, <2>3
    <3> QED
      BY <2>1, <3>1 DEF Has
  <2> QED
    BY <2>2, <2>3
<1> QED
  BY <1>1, <1>7, <1>8, <1>9, <1>10

\* The rows a pass finds are those the range overlaps or touches.
LEMMA HitsAre ==
  ASSUME start \in 0 .. Modulus - 1, NEW t, NEW r, Good(t), IsSpan(r)
  PROVE  {i \in Of(t, r.ch) : Joins(r, t[i])} = {i \in Row : Hit(t, r, i)}
<1>1. ASSUME NEW i \in Row, t[i].used, t[i].ch = r.ch
      PROVE  Joins(r, t[i]) <=> Meet(r, t[i])
  <2>1. IsSpan(t[i])
    BY <1>1 DEF Good
  <2> QED
    BY <1>1, <2>1, RowsMeet
<1> QED
  BY <1>1 DEF Of, Hit

\* The row the code stops at is one of those it looks for.
LEMMA LeastRow ==
  ASSUME NEW S \in SUBSET Row, S # {}
  PROVE  (CHOOSE i \in S : \A j \in S : i <= j) \in S
<1>1. S \in SUBSET Nat
  BY DEF Row
<1>2. \E i \in S : \A j \in S : i <= j
  BY <1>1, LeastNatural
<1> QED
  BY <1>2, Zenon

\* A range that meets no row is left alone.
LEMMA PassMisses ==
  ASSUME start \in 0 .. Modulus - 1, NEW t, NEW r, Good(t), IsSpan(r), \A i \in Row : ~Hit(t, r, i)
  PROVE  Pass([table |-> t, range |-> r]) = [table |-> t, range |-> r]
<1>1. {i \in Of(t, r.ch) : Joins(r, t[i])} = {}
  BY HitsAre, Zenon
<1> DEFINE acc == [table |-> t, range |-> r]
<1>2. acc.table = t /\ acc.range = r
  OBVIOUS
<1> HIDE DEF acc
<1>3. Pass(acc) = acc
  BY <1>1, <1>2, Zenon DEF Pass
<1> QED
  BY <1>3 DEF acc

\* A pass that meets a row leaves one row for all the range meets.
LEMMA PassHits ==
  ASSUME start \in 0 .. Modulus - 1, NEW t, NEW r, Good(t), IsSpan(r), \E i \in Row : Hit(t, r, i)
  PROVE  \E i \in Row : \E u :
           /\ Hit(t, r, i) /\ Grown(t, r, i, PendingLostRanges, u)
           /\ u = JoinRows([t EXCEPT ![i] = Cover(t[i], r)], i)
           /\ Pass([table |-> t, range |-> r]) = [table |-> u, range |-> u[i]]
<1> DEFINE hits == {i \in Of(t, r.ch) : Joins(r, t[i])}
           l == CHOOSE i \in hits : \A j \in hits : i <= j
           acc == [table |-> t, range |-> r]
           v == JoinRows([t EXCEPT ![l] = Cover(t[l], r)], l)
<1>1. hits = {i \in Row : Hit(t, r, i)}
  BY HitsAre, Zenon
<1>2. hits \in SUBSET Row /\ hits # {}
  BY <1>1
<1>3. l \in hits
  <2> HIDE DEF hits
  <2> QED
    BY <1>2, LeastRow
<1>4. acc.table = t /\ acc.range = r
  OBVIOUS
<1> HIDE DEF acc
<1>5. Pass(acc) = [table |-> v, range |-> v[l]]
  BY <1>2, <1>4, Zenon DEF Pass
<1>6. l \in Row /\ Hit(t, r, l)
  BY <1>1, <1>3
<1> HIDE DEF l
<1>7. Grown(t, r, l, PendingLostRanges, v)
  BY <1>6, JoinRowsGrow
<1> QED
  BY <1>5, <1>6, <1>7, Zenon DEF acc

\* A row of a canonical table meets no other row: a further pass finds only the row
\* itself and changes nothing.
LEMMA PassAgain ==
  ASSUME start \in 0 .. Modulus - 1, NEW u, NEW i \in Row, Good(u), u[i].used
  PROVE  Pass([table |-> u, range |-> u[i]]) = [table |-> u, range |-> u[i]]
<1> DEFINE r == u[i]
<1>1. IsSpan(r)
  BY DEF Good
<1>2. Lo(r) \in Int /\ Hi(r) \in Int /\ Lo(r) <= Hi(r)
  BY <1>1, SpanInts
<1>3. Hit(u, r, i)
  BY <1>2 DEF Hit, Meet, Touch
<1>4. \A k \in Row : Hit(u, r, k) => k = i
  <2> SUFFICES ASSUME NEW k \in Row, Hit(u, r, k), k # i PROVE FALSE
    OBVIOUS
  <2> QED
    BY DEF Good, Hit
<1>5a. PICK j \in Row : \E w :
         /\ Hit(u, r, j)
         /\ w = JoinRows([u EXCEPT ![j] = Cover(u[j], r)], j)
         /\ Pass([table |-> u, range |-> r]) = [table |-> w, range |-> w[j]]
  <2> HIDE DEF r
  <2> QED
    BY <1>1, <1>3, PassHits
<1>5. PICK w : /\ Hit(u, r, j)
               /\ w = JoinRows([u EXCEPT ![j] = Cover(u[j], r)], j)
               /\ Pass([table |-> u, range |-> r]) = [table |-> w, range |-> w[j]]
  BY <1>5a
<1>6. j = i
  BY <1>4, <1>5
<1>7. Cover(r, r) = r
  <2>1. /\ Cover(Span(r.ch, Lo(r), Hi(r)), Span(r.ch, Lo(r), Hi(r))) =
             Span(r.ch, IF Lo(r) < Lo(r) THEN Lo(r) ELSE Lo(r),
                  IF Hi(r) < Hi(r) THEN Hi(r) ELSE Hi(r))
    BY <1>1, SpanCovers DEF IsSpan
  <2> HIDE DEF r
  <2> QED
    BY <1>1, <2>1, Zenon DEF IsSpan
<1>8. [u EXCEPT ![i] = Cover(u[i], r)] = u
  <2>1. [u EXCEPT ![i] = u[i]] = u
    BY DEF Good
  <2> QED
    BY <1>7, <2>1, Zenon
<1>9. w = JoinRows(u, i)
  BY <1>5, <1>6, <1>8, Zenon
<1>10. JoinRow(u, i, i) = u
  BY DEF JoinRow
<1>11. \A n \in Row : JoinRow(u, i, n) = u
  <2> SUFFICES ASSUME NEW n \in Row, n # i PROVE JoinRow(u, i, n) = u
    BY <1>10
  <2>1. CASE u[n].used /\ u[n].ch = u[i].ch
    <3>1. IsSpan(u[n]) /\ ~Meet(u[i], u[n])
      BY <2>1 DEF Good
    <3>2. ~Joins(u[i], u[n])
      BY <1>1, <2>1, <3>1, RowsMeet
    <3> QED
      BY <3>2, Zenon DEF JoinRow
  <2>2. CASE ~(u[n].used /\ u[n].ch = u[i].ch)
    BY <2>2, Zenon DEF JoinRow
  <2> QED
    BY <2>1, <2>2
<1>12. JoinRows(u, i) = u
  <2> DEFINE R == PendingLostRanges
  <2>1. PICK f : /\ JoinRows(u, i) = f[R] /\ f[0] = u
                 /\ \A n \in 0 .. R - 1 : f[n + 1] = JoinRow(f[n], i, n + 1)
    BY JoinRowsDef
  <2> DEFINE S == {n \in 0 .. R : f[n] = u}
  <2>2. R \in Nat /\ 0 \in S
    BY <2>1, Width32
  <2>3. ASSUME NEW n \in 0 .. R - 1, n \in S
        PROVE  n + 1 \in S
    <3>1. n + 1 \in Row /\ n + 1 \in 0 .. R
      BY <2>2 DEF Row
    <3>2. f[n + 1] = JoinRow(u, i, n + 1)
      BY <2>1, <2>3
    <3> QED
      BY <1>11, <3>1, <3>2
  <2>4. R \in S
    <3> HIDE DEF S
    <3> QED
      BY <2>2, <2>3, UpTo
  <2> QED
    BY <2>1, <2>4
<1> QED
  BY <1>5, <1>6, <1>9, <1>12, Zenon

\* As many passes as there are rows do no more than one pass, when a second pass
\* finds nothing to do.
LEMMA MergedOnce ==
  ASSUME NEW t, NEW r, Pass(Pass([table |-> t, range |-> r])) = Pass([table |-> t, range |-> r])
  PROVE  Merged(t, r) = Pass([table |-> t, range |-> r])
<1> DEFINE R == PendingLostRanges
           a == [table |-> t, range |-> r]
           F(u) == [n \in 0 .. R |-> IF n = 0 THEN a ELSE Pass(u[n - 1])]
           w == [n \in 0 .. R |-> IF n = 0 THEN a ELSE Pass(a)]
<1>0. R \in Nat /\ R # 0 /\ Pass(Pass(a)) = Pass(a)
  BY Width32
<1> HIDE DEF a, R
<1>1. w = F(w)
  <2>1. ASSUME NEW n \in 0 .. R
        PROVE  w[n] = IF n = 0 THEN a ELSE Pass(w[n - 1])
    <3>1. CASE n = 0
      BY <1>0, <3>1
    <3>2. CASE n = 1
      <4>1. w[1] = Pass(a) /\ w[0] = a /\ 1 - 1 = 0
        BY <1>0, <3>2
      <4> QED
        BY <3>2, <4>1
    <3>3. CASE n # 0 /\ n # 1
      <4>1. w[n] = Pass(a) /\ w[n - 1] = Pass(a)
        BY <1>0, <3>3
      <4> QED
        BY <1>0, <3>3, <4>1
    <3> QED
      BY <3>1, <3>2, <3>3
  <2> HIDE DEF w
  <2>2. w = [n \in 0 .. R |-> w[n]]
    BY DEF w
  <2> QED
    BY <2>1, <2>2
<1>2. \E u : u = F(u)
  BY <1>1
<1>3. PICK u : u = F(u) /\ Merged(t, r) = u[R]
  BY <1>2, Zenon DEF Merged, R, a
<1> DEFINE S == {n \in 0 .. R : n # 0 => u[n] = Pass(a)}
<1>4. 0 \in S
  BY <1>0
<1>5. ASSUME NEW n \in 0 .. R - 1, n \in S
      PROVE  n + 1 \in S
  <2>1. n + 1 \in 0 .. R /\ n + 1 # 0 /\ (n + 1) - 1 = n
    BY <1>0
  <2>2. u[n + 1] = Pass(u[n])
    BY <1>3, <2>1
  <2>3. CASE n = 0
    <3>1. u[n] = a
      BY <1>0, <1>3, <2>3
    <3> QED
      BY <2>1, <2>2, <3>1
  <2>4. CASE n # 0
    BY <1>0, <1>5, <2>1, <2>2, <2>4
  <2> QED
    BY <2>3, <2>4
<1>6. R \in S
  <2> HIDE DEF S
  <2> QED
    BY <1>0, <1>4, <1>5, UpTo
<1> QED
  BY <1>0, <1>3, <1>6 DEF a

\* What pending_lost_add() does to a canonical table: the range is in it and it is
\* canonical again, or every row is in use and the range meets none of them.
Added(t, r, res) ==
  /\ res.ok \in BOOLEAN
  /\ res.ok => /\ Good(res.table)
               /\ \A ch, q : Has(res.table, ch, q) <=>
                    Has(t, ch, q) \/ (ch = r.ch /\ q \in Lo(r) .. Hi(r))
  /\ ~res.ok => res.table = t /\ \A i \in Row : t[i].used /\ ~Hit(t, r, i)

\* pending_lost_add() with a range that meets no row.
LEMMA AddMisses ==
  ASSUME start \in 0 .. Modulus - 1, NEW t, NEW r, Good(t), IsSpan(r),
         \A i \in Row : ~Hit(t, r, i)
  PROVE  Added(t, r, PendingLostAdd(t, r))
<1> DEFINE acc == [table |-> t, range |-> r]
           inside == {i \in Of(t, r.ch) : /\ SeqInRange(r.first, t[i].first, t[i].last)
                                          /\ SeqInRange(r.last, t[i].first, t[i].last)}
           free == {i \in Row : ~t[i].used}
           l == CHOOSE i \in free : \A j \in free : i <= j
           u == [t EXCEPT ![l] = r]
<1>1. acc.table = t /\ acc.range = r
  OBVIOUS
<1>2. Merged(t, r) = acc
  <2>1. Pass(acc) = acc
    BY PassMisses
  <2> QED
    BY <2>1, MergedOnce
<1> HIDE DEF acc
<1>3. inside = {}
  <2> SUFFICES ASSUME NEW i \in Row, t[i].used, t[i].ch = r.ch,
                      SeqInRange(r.first, t[i].first, t[i].last)
               PROVE  FALSE
    BY DEF Of
  <2>1. IsSpan(t[i])
    BY DEF Good
  <2>2. /\ Lo(r) \in Int /\ Hi(r) \in Int /\ Lo(r) <= Hi(r) /\ Lo(r) \in Numbers
        /\ Lo(t[i]) \in Int /\ Hi(t[i]) \in Int
    BY <2>1, SpanInts
  <2>3. r.first = Wire(Lo(r))
    BY RowHas
  <2>4. Lo(r) \in Lo(t[i]) .. Hi(t[i])
    BY <2>1, <2>2, <2>3, RowHas
  <2>5. Meet(r, t[i])
    BY <2>2, <2>4 DEF Meet, Touch
  <2> QED
    BY <2>5 DEF Hit
<1>4. PendingLostAdd(t, r) = IF free = {} THEN [table |-> t, ok |-> FALSE]
                             ELSE [table |-> u, ok |-> TRUE]
  BY <1>1, <1>2, <1>3, Zenon DEF PendingLostAdd
<1>5. CASE free = {}
  <2>1. PendingLostAdd(t, r) = [table |-> t, ok |-> FALSE]
    BY <1>4, <1>5, Zenon
  <2>2. \A i \in Row : t[i].used /\ ~Hit(t, r, i)
    BY <1>5
  <2> QED
    BY <2>1, <2>2 DEF Added
<1>6. CASE free # {}
  <2>1. PendingLostAdd(t, r) = [table |-> u, ok |-> TRUE]
    BY <1>4, <1>6, Zenon
  <2>2. l \in free
    <3>1. free \in SUBSET Row
      OBVIOUS
    <3> HIDE DEF free
    <3> QED
      BY <1>6, <3>1, LeastRow
  <2>3. l \in Row /\ ~t[l].used
    BY <2>2
  <2> HIDE DEF l, free
  <2>4. /\ u \in [Row -> RowType] /\ u[l] = r /\ \A k \in Row \ {l} : u[k] = t[k]
    BY <2>3, RowTypes DEF Good
  <2> HIDE DEF u
  <2>5. IsSpan(u[l]) /\ u[l].used /\ r.ch = u[l].ch
    BY <2>4 DEF IsSpan
  <2>6. ASSUME NEW k \in Row, NEW m \in Row, k # m, u[k].used, u[m].used, u[k].ch = u[m].ch
        PROVE  ~Meet(u[k], u[m])
    <3>1. CASE k = l
      <4>1. u[m] = t[m] /\ t[m].used /\ t[m].ch = r.ch
        BY <2>4, <2>5, <2>6, <3>1
      <4> QED
        BY <2>4, <3>1, <4>1 DEF Hit
    <3>2. CASE m = l
      <4>1. u[k] = t[k] /\ t[k].used /\ t[k].ch = r.ch
        BY <2>4, <2>5, <2>6, <3>2
      <4>2. ~Meet(r, t[k])
        BY <4>1 DEF Hit
      <4> QED
        BY <2>4, <3>2, <4>1, <4>2 DEF Meet, Touch
    <3>3. CASE k # l /\ m # l
      BY <2>4, <2>6, <3>3 DEF Good
    <3> QED
      BY <3>1, <3>2, <3>3
  <2>7. \A k \in Row : u[k].used => IsSpan(u[k])
    BY <2>4, <2>5 DEF Good
  <2>8. Good(u)
    BY <2>4, <2>6, <2>7 DEF Good
  <2>9. ASSUME NEW ch, NEW q
        PROVE  Has(u, ch, q) <=> Has(t, ch, q) \/ (ch = r.ch /\ q \in Lo(r) .. Hi(r))
    <3>1. Has(u, ch, q) => Has(t, ch, q) \/ (ch = r.ch /\ q \in Lo(r) .. Hi(r))
      BY <2>4, <2>5 DEF Has
    <3>2. Has(t, ch, q) => Has(u, ch, q)
      BY <2>3, <2>4 DEF Has
    <3>3. ch = r.ch /\ q \in Lo(r) .. Hi(r) => Has(u, ch, q)
      BY <2>3, <2>4, <2>5 DEF Has
    <3> QED
      BY <3>1, <3>2, <3>3
  <2> QED
    BY <2>1, <2>8, <2>9 DEF Added
<1> QED
  BY <1>5, <1>6

\* pending_lost_add() with a range that meets a row: it needs no free row.
LEMMA AddHits ==
  ASSUME start \in 0 .. Modulus - 1, NEW t, NEW r, Good(t), IsSpan(r),
         \E i \in Row : Hit(t, r, i)
  PROVE  Added(t, r, PendingLostAdd(t, r))
<1>0. PICK i \in Row : \E u :
        /\ Hit(t, r, i) /\ Grown(t, r, i, PendingLostRanges, u)
        /\ Pass([table |-> t, range |-> r]) = [table |-> u, range |-> u[i]]
  BY PassHits
<1>1. PICK u : /\ Hit(t, r, i) /\ Grown(t, r, i, PendingLostRanges, u)
               /\ Pass([table |-> t, range |-> r]) = [table |-> u, range |-> u[i]]
  BY <1>0
<1>2. /\ Good(u) /\ u[i].used
      /\ \A ch, q : Has(u, ch, q) <=> Has(t, ch, q) \/ (ch = r.ch /\ q \in Lo(r) .. Hi(r))
  BY <1>1, GrownTable
<1> DEFINE acc == [table |-> u, range |-> u[i]]
           row == u[i]
<1>3. Merged(t, r) = acc
  <2>1. Pass(acc) = acc
    BY <1>2, PassAgain
  <2> QED
    BY <1>1, <2>1, MergedOnce
<1>4. acc.table = u /\ acc.range = row
  OBVIOUS
<1> HIDE DEF acc
<1>5. IsSpan(row) /\ row.ch = r.ch
  BY <1>1 DEF Grown
<1>6. /\ SeqInRange(row.first, row.first, row.last) /\ SeqInRange(row.last, row.first, row.last)
  <2> HIDE DEF row
  <2>1. Lo(row) \in Lo(row) .. Hi(row) /\ Hi(row) \in Lo(row) .. Hi(row)
        /\ Lo(row) \in Numbers /\ Hi(row) \in Numbers
    BY <1>5, SpanInts
  <2> QED
    BY <1>5, <2>1, RowHas
<1>7. i \in {k \in Of(u, r.ch) : /\ SeqInRange(row.first, u[k].first, u[k].last)
                                 /\ SeqInRange(row.last, u[k].first, u[k].last)}
  BY <1>2, <1>5, <1>6 DEF Of
<1>8. PendingLostAdd(t, r) = [table |-> u, ok |-> TRUE]
  <2>1. {k \in Of(u, r.ch) : /\ SeqInRange(row.first, u[k].first, u[k].last)
                             /\ SeqInRange(row.last, u[k].first, u[k].last)} # {}
    BY <1>7, Zenon
  <2> QED
    BY <1>3, <1>4, <2>1, Zenon DEF PendingLostAdd
<1> QED
  BY <1>2, <1>8 DEF Added

\* pending_lost_add() with any range.
LEMMA AddResult ==
  ASSUME start \in 0 .. Modulus - 1, NEW t, NEW r, Good(t), IsSpan(r)
  PROVE  Added(t, r, PendingLostAdd(t, r))
  BY AddMisses, AddHits, Zenon

----------------------------------------------------------------------------
(* Rows and ranges are as many *)

\* When rows of an index set I stand for the ranges of a set without meeting, the
\* set has as many ranges as I has elements: each ends where one row ends.
LEMMA OneRowEach ==
  ASSUME NEW I, IsFiniteSet(I), NEW t, NEW s \in [Channels -> SUBSET Numbers],
         \A i \in I : IsSpan(t[i]),
         \A i, j \in I : i # j /\ t[i].ch = t[j].ch => ~Meet(t[i], t[j]),
         \A ch \in Channels, q \in Numbers :
           q \in s[ch] <=> \E i \in I : t[i].ch = ch /\ q \in Lo(t[i]) .. Hi(t[i])
  PROVE  Cardinality(Ranges(s)) = Cardinality(I)
<1> DEFINE f == [i \in I |-> <<t[i].ch, Hi(t[i])>>]
<1>1. \A i \in I : /\ t[i].ch \in Channels /\ Lo(t[i]) \in Int /\ Hi(t[i]) \in Int
                   /\ Lo(t[i]) <= Hi(t[i]) /\ Lo(t[i]) \in Numbers /\ Hi(t[i]) \in Numbers
  BY SpanInts DEF IsSpan
<1>2. ASSUME NEW i \in I
      PROVE  f[i] \in Ranges(s)
  <2>1. Hi(t[i]) \in s[t[i].ch]
    BY <1>1
  <2>2. Hi(t[i]) + 1 \notin s[t[i].ch]
    <3> SUFFICES ASSUME Hi(t[i]) + 1 \in s[t[i].ch] PROVE FALSE
      OBVIOUS
    <3>1. Hi(t[i]) + 1 \in Numbers
      BY <1>1
    <3>2. PICK j \in I : t[j].ch = t[i].ch /\ Hi(t[i]) + 1 \in Lo(t[j]) .. Hi(t[j])
      BY <1>1, <3>1
    <3>3. j # i
      BY <1>1, <3>2
    <3>4. Meet(t[i], t[j])
      BY <1>1, <3>2 DEF Meet, Touch
    <3> QED
      BY <3>2, <3>3, <3>4
  <2> QED
    BY <1>1, <2>1, <2>2 DEF Ranges
<1>3. ASSUME NEW x \in Ranges(s)
      PROVE  \E i \in I : f[i] = x
  <2>1. PICK ch \in Channels, q \in Numbers :
          q \in s[ch] /\ x = <<ch, q>> /\ q + 1 \notin s[ch]
    BY DEF Ranges
  <2>2. q \in Numbers
    BY <2>1
  <2>3. PICK i \in I : t[i].ch = ch /\ q \in Lo(t[i]) .. Hi(t[i])
    BY <2>1, <2>2
  <2>4. q = Hi(t[i])
    <3> SUFFICES ASSUME q # Hi(t[i]) PROVE FALSE
      OBVIOUS
    <3>0. Lo(t[i]) \in Int /\ Hi(t[i]) \in Int /\ Hi(t[i]) \in Numbers /\ q \in Lo(t[i]) .. Hi(t[i])
      BY <1>1, <2>3
    <3>1. q + 1 \in Lo(t[i]) .. Hi(t[i]) /\ q + 1 \in Numbers
      BY <2>2, <3>0, Width32 DEF Numbers
    <3> QED
      BY <2>1, <2>3, <3>1
  <2> QED
    BY <2>1, <2>3, <2>4
<1>4. ASSUME NEW i \in I, NEW j \in I, f[i] = f[j]
      PROVE  i = j
  <2>1. t[i].ch = t[j].ch /\ Hi(t[i]) = Hi(t[j])
    BY <1>4
  <2>2. Meet(t[i], t[j])
    BY <1>1, <2>1 DEF Meet, Touch
  <2> QED
    BY <2>1, <2>2
<1> DEFINE S == Ranges(s)
<1> HIDE DEF f, S
<1>5. f \in [I -> S]
  BY <1>2 DEF f, S
<1>6. f \in Bijection(I, S)
  BY <1>3, <1>4, <1>5, Zenon DEF Bijection, Injection, Surjection, IsInjective, S
<1> QED
  BY <1>6, FS_Bijection DEF ExistsBijection, S

----------------------------------------------------------------------------
(* The inductive invariant *)

HoldsToSkip(t, s) == \A ch \in Channels, q \in Numbers : q \in s[ch] <=> Has(t, ch, q)

TableInv ==
  /\ start \in 0 .. Modulus - 1
  /\ toSkip \in [Channels -> SUBSET Numbers]
  /\ outcome \in [ok: BOOLEAN, fits: BOOLEAN]
  /\ Good(table)
  /\ HoldsToSkip(table, toSkip)
  /\ RefusesOnlyWhenFull

\* The invariant says that the table represents the set.
LEMMA InvRepresents == TableInv => Represents
<1> SUFFICES ASSUME TableInv PROVE Represents
  OBVIOUS
<1>0. start \in 0 .. Modulus - 1 /\ Good(table)
  BY DEF TableInv
<1>1. TableTypes
  <2>1. table \in [Row -> RowType]
    BY <1>0 DEF Good
  <2> QED
    BY <2>1 DEF TableInv, TableTypes, RowType, Numbers
<1>2. ASSUME NEW ch \in Channels, NEW q \in 0 .. Horizon
      PROVE  q \in toSkip[ch] <=>
               \E i \in Of(table, ch) : SeqInRange(Wire(q), table[i].first, table[i].last)
  <2>1. q \in Numbers
    BY DEF Numbers
  <2>2. ASSUME NEW i \in Row, table[i].used
        PROVE  SeqInRange(Wire(q), table[i].first, table[i].last)
                 <=> q \in Lo(table[i]) .. Hi(table[i])
    <3>1. IsSpan(table[i])
      BY <1>0, <2>2 DEF Good
    <3> QED
      BY <1>0, <2>1, <3>1, RowHas
  <2>3. q \in toSkip[ch] <=> Has(table, ch, q)
    BY <2>1 DEF TableInv, HoldsToSkip
  <2> QED
    BY <2>2, <2>3 DEF Has, Of
<1>3. ASSUME NEW ch \in Channels, NEW i \in Of(table, ch), NEW j \in Of(table, ch), i # j
      PROVE  ~Joins(table[i], table[j])
  <2>1. /\ i \in Row /\ j \in Row /\ table[i].used /\ table[j].used
        /\ table[i].ch = ch /\ table[j].ch = ch
    BY DEF Of
  <2>2. IsSpan(table[i]) /\ IsSpan(table[j]) /\ ~Meet(table[i], table[j])
    BY <1>0, <1>3, <2>1 DEF Good
  <2> QED
    BY <1>0, <2>1, <2>2, RowsMeet
<1> QED
  BY <1>1, <1>2, <1>3 DEF Represents, TableIsSet, Canonical

\* A table that stands for a set fits.
LEMMA GoodFits ==
  ASSUME NEW t, NEW s \in [Channels -> SUBSET Numbers], Good(t), HoldsToSkip(t, s)
  PROVE  PendingFits(s)
<1> DEFINE I == {i \in Row : t[i].used}
<1>1. IsFiniteSet(Row) /\ Cardinality(Row) = PendingLostRanges
  <2>1. PendingLostRanges \in Int /\ 1 \in Int /\ ~(1 > PendingLostRanges)
    BY Width32
  <2> QED
    BY <2>1, FS_Interval DEF Row
<1>2. I \in SUBSET Row
  OBVIOUS
<1>3. IsFiniteSet(I) /\ Cardinality(I) <= PendingLostRanges
  <2> HIDE DEF I
  <2> QED
    BY <1>1, <1>2, FS_Subset
<1>4. /\ \A i \in I : IsSpan(t[i])
      /\ \A i, j \in I : i # j /\ t[i].ch = t[j].ch => ~Meet(t[i], t[j])
  BY DEF Good
<1>5. \A ch \in Channels, q \in Numbers :
        q \in s[ch] <=> \E i \in I : t[i].ch = ch /\ q \in Lo(t[i]) .. Hi(t[i])
  BY DEF HoldsToSkip, Has
<1> HIDE DEF I
<1>6. Cardinality(Ranges(s)) = Cardinality(I)
  BY <1>3, <1>4, <1>5, OneRowEach
<1> QED
  BY <1>3, <1>6 DEF PendingFits

\* A full table that no row of which meets the range cannot take it.
LEMMA FullRefuses ==
  ASSUME NEW t, NEW r, NEW s \in [Channels -> SUBSET Numbers],
         NEW more \in [Channels -> SUBSET Numbers], Good(t), HoldsToSkip(t, s), IsSpan(r),
         \A i \in Row : t[i].used /\ ~Hit(t, r, i),
         \A ch \in Channels, q \in Numbers :
           q \in more[ch] <=> q \in s[ch] \/ (ch = r.ch /\ q \in Lo(r) .. Hi(r))
  PROVE  ~PendingFits(more)
<1> DEFINE I == 0 .. PendingLostRanges
           u == [i \in I |-> IF i = 0 THEN r ELSE t[i]]
<1>1. PendingLostRanges \in Nat /\ IsFiniteSet(I) /\ Cardinality(I) = PendingLostRanges + 1
  <2>1. /\ PendingLostRanges \in Nat /\ PendingLostRanges \in Int /\ 0 \in Int
        /\ ~(0 > PendingLostRanges)
    BY Width32
  <2> QED
    BY <2>1, FS_Interval
<1>2. /\ \A i \in I : i = 0 \/ i \in Row
      /\ \A i \in Row : i \in I /\ i # 0
      /\ 0 \in I
  BY <1>1 DEF Row
<1> HIDE DEF I
<1>3. u[0] = r /\ \A i \in Row : u[i] = t[i]
  BY <1>2
<1> HIDE DEF u
<1>4. \A i \in I : IsSpan(u[i])
  BY <1>2, <1>3 DEF Good
<1>5. ASSUME NEW i \in I, NEW j \in I, i # j, u[i].ch = u[j].ch
      PROVE  ~Meet(u[i], u[j])
  <2>1. CASE i = 0
    <3>1. j \in Row /\ u[j] = t[j] /\ t[j].used /\ ~Hit(t, r, j)
      BY <1>2, <1>3, <1>5, <2>1
    <3> QED
      BY <1>3, <1>5, <2>1, <3>1 DEF Hit
  <2>2. CASE j = 0
    <3>1. i \in Row /\ u[i] = t[i] /\ t[i].used /\ ~Hit(t, r, i)
      BY <1>2, <1>3, <1>5, <2>2
    <3>2. ~Meet(r, t[i])
      BY <1>3, <1>5, <2>2, <3>1 DEF Hit
    <3> QED
      BY <1>3, <2>2, <3>1, <3>2 DEF Meet, Touch
  <2>3. CASE i # 0 /\ j # 0
    <3>1. i \in Row /\ j \in Row
      BY <1>2, <2>3
    <3> QED
      BY <1>3, <1>5, <3>1 DEF Good
  <2> QED
    BY <2>1, <2>2, <2>3
<1>6. ASSUME NEW ch \in Channels, NEW q \in Numbers
      PROVE  q \in more[ch] <=> \E i \in I : u[i].ch = ch /\ q \in Lo(u[i]) .. Hi(u[i])
  <2>1. q \in s[ch] <=> Has(t, ch, q)
    BY DEF HoldsToSkip
  <2>2. Has(t, ch, q) => \E i \in I : u[i].ch = ch /\ q \in Lo(u[i]) .. Hi(u[i])
    BY <1>2, <1>3 DEF Has
  <2>3. ASSUME NEW i \in I, u[i].ch = ch, q \in Lo(u[i]) .. Hi(u[i])
        PROVE  Has(t, ch, q) \/ (ch = r.ch /\ q \in Lo(r) .. Hi(r))
    BY <1>2, <1>3, <2>3 DEF Has
  <2>4. ch = r.ch /\ q \in Lo(r) .. Hi(r) => \E i \in I : u[i].ch = ch /\ q \in Lo(u[i]) .. Hi(u[i])
    BY <1>2, <1>3
  <2> QED
    BY <2>1, <2>2, <2>3, <2>4
<1>7. Cardinality(Ranges(more)) = PendingLostRanges + 1
  BY <1>1, <1>4, <1>5, <1>6, OneRowEach
<1> QED
  BY <1>1, <1>7 DEF PendingFits

\* start does not change: what the rows stand for in the next state is what they
\* stand for in this one.
LEMMA StartStays ==
  ASSUME start' = start, Good(table'), HoldsToSkip(table', toSkip')
  PROVE  Good(table)' /\ HoldsToSkip(table, toSkip)'
<1>1. Good(table)'
  BY DEF Good, IsSpan, Meet, Touch, Lo, Hi, Span, Range0, Wire, Minus, Numbers, Row, RowType, Unused
<1>2. HoldsToSkip(table, toSkip)'
  BY DEF HoldsToSkip, Has, Lo, Hi, Minus, Numbers, Row
<1> QED
  BY <1>1, <1>2

\* An empty table stands for the empty set.
LEMMA TableStarts == TableInit => TableInv
<1> SUFFICES ASSUME TableInit PROVE TableInv
  OBVIOUS
<1>1. start \in 0 .. Modulus - 1
  BY TableAssumption DEF TableInit
<1>2. /\ toSkip \in [Channels -> SUBSET Numbers] /\ outcome \in [ok: BOOLEAN, fits: BOOLEAN]
      /\ \A ch \in Channels : toSkip[ch] = {}
  BY DEF TableInit
<1>3. table \in [Row -> RowType] /\ \A i \in Row : table[i].used = FALSE
  BY <1>1, RowTypes DEF TableInit
<1>4. Good(table)
  BY <1>3 DEF Good
<1>5. HoldsToSkip(table, toSkip)
  BY <1>2, <1>3 DEF HoldsToSkip, Has
<1> QED
  BY <1>1, <1>2, <1>4, <1>5 DEF TableInit, TableInv, RefusesOnlyWhenFull

\* pending_lost_add() keeps the invariant, and its answer is right.
LEMMA AddKeeps ==
  ASSUME TableInv, NEW ch \in Channels, NEW first \in Numbers, NEW last \in Numbers,
         first <= last, Add(ch, first, last)
  PROVE  TableInv'
<1> DEFINE r == Range0(ch, Wire(first), Wire(last))
           res == PendingLostAdd(table, r)
           more == WithRange(toSkip, ch, first, last)
<1>0. start \in 0 .. Modulus - 1 /\ Good(table) /\ HoldsToSkip(table, toSkip)
      /\ toSkip \in [Channels -> SUBSET Numbers] /\ start' = start
  BY DEF TableInv, Add
<1>1. IsSpan(r) /\ Lo(r) = first /\ Hi(r) = last /\ r.ch = ch
  BY <1>0, SpanIs DEF Span
<1> HIDE DEF r
<1>2. Added(table, r, res)
  BY <1>0, <1>1, AddResult
<1>3. /\ table' = res.table /\ outcome' = [ok |-> res.ok, fits |-> PendingFits(more)]
      /\ toSkip' = IF res.ok THEN more ELSE toSkip
  BY DEF Add, r
<1> HIDE DEF res
<1>4. more \in [Channels -> SUBSET Numbers]
  <2>1. first .. last \in SUBSET Numbers
    BY Width32 DEF Numbers
  <2> QED
    BY <1>0, <2>1 DEF WithRange
<1>5. \A c \in Channels, q \in Numbers :
        q \in more[c] <=> q \in toSkip[c] \/ (c = r.ch /\ q \in Lo(r) .. Hi(r))
  BY <1>0, <1>1 DEF WithRange
<1> HIDE DEF more
<1>6. res.ok \in BOOLEAN
  BY <1>2 DEF Added
<1>7. CASE res.ok
  <2>1. /\ Good(table')
        /\ \A c, q : Has(table', c, q) <=>
             Has(table, c, q) \/ (c = r.ch /\ q \in Lo(r) .. Hi(r))
    BY <1>2, <1>3, <1>7 DEF Added
  <2>2. toSkip' = more
    BY <1>3, <1>7
  <2>3. HoldsToSkip(table', more)
    BY <1>0, <1>5, <2>1 DEF HoldsToSkip
  <2>4. HoldsToSkip(table', toSkip')
    BY <2>2, <2>3, Zenon
  <2>5. PendingFits(more)
    BY <1>4, <2>1, <2>3, GoodFits
  <2>6. Good(table)' /\ HoldsToSkip(table, toSkip)'
    BY <1>0, <2>1, <2>4, StartStays
  <2>7. outcome' \in [ok: BOOLEAN, fits: BOOLEAN] /\ outcome'.ok = outcome'.fits
    BY <1>3, <1>7, <2>5
  <2> QED
    BY <1>0, <1>4, <2>2, <2>6, <2>7 DEF TableInv, RefusesOnlyWhenFull, Numbers
<1>8. CASE ~res.ok
  <2>1. table' = table /\ \A i \in Row : table[i].used /\ ~Hit(table, r, i)
    BY <1>2, <1>3, <1>8 DEF Added
  <2>2. toSkip' = toSkip
    BY <1>3, <1>8
  <2>3. ~PendingFits(more)
    BY <1>0, <1>1, <1>4, <1>5, <2>1, FullRefuses
  <2>4. Good(table') /\ HoldsToSkip(table', toSkip')
    BY <1>0, <2>1, <2>2, Zenon
  <2>5. Good(table)' /\ HoldsToSkip(table, toSkip)'
    BY <1>0, <2>4, StartStays
  <2>6. PendingFits(more) = FALSE /\ res.ok = FALSE
    BY <1>6, <1>8, <2>3 DEF PendingFits
  <2>7. outcome' \in [ok: BOOLEAN, fits: BOOLEAN] /\ outcome'.ok = outcome'.fits
    BY <1>3, <2>6
  <2> QED
    BY <1>0, <2>2, <2>5, <2>7 DEF TableInv, RefusesOnlyWhenFull, Numbers
<1> QED
  BY <1>6, <1>7, <1>8

\* The numbers connected to a number of a row are those of the row.
LEMMA AroundRow ==
  ASSUME NEW t, NEW s \in [Channels -> SUBSET Numbers], Good(t), HoldsToSkip(t, s),
         NEW i \in Row, t[i].used, NEW ch \in Channels, t[i].ch = ch,
         NEW q \in Numbers, q \in Lo(t[i]) .. Hi(t[i])
  PROVE  Around(s[ch], q) = Lo(t[i]) .. Hi(t[i])
<1> DEFINE a == Lo(t[i])
           b == Hi(t[i])
           S == s[ch]
<1>1. a \in Int /\ b \in Int /\ a <= b /\ a \in Numbers /\ b \in Numbers /\ q \in a .. b
  <2>1. IsSpan(t[i])
    BY DEF Good
  <2> QED
    BY <2>1, SpanInts
<1>2. S \subseteq Numbers /\ \A p \in Numbers : p \in S <=> Has(t, ch, p)
  BY DEF HoldsToSkip
<1>3. \A p \in a .. b : p \in S
  <2> SUFFICES ASSUME NEW p \in a .. b PROVE p \in S
    OBVIOUS
  <2>1. p \in Numbers
    BY <1>1, Width32 DEF Numbers
  <2>2. Has(t, ch, p)
    BY DEF Has
  <2> QED
    BY <1>2, <2>1, <2>2
<1>4. ASSUME NEW p \in S, p = a - 1 \/ p = b + 1
      PROVE  FALSE
  <2>1. PICK k \in Row : t[k].used /\ t[k].ch = ch /\ p \in Lo(t[k]) .. Hi(t[k])
    BY <1>2 DEF Has
  <2>2. IsSpan(t[k])
    BY <2>1 DEF Good
  <2>3. Lo(t[k]) \in Int /\ Hi(t[k]) \in Int
    BY <2>2, SpanInts
  <2>4. k # i
    BY <1>1, <1>4, <2>1
  <2>5. Meet(t[k], t[i])
    BY <1>1, <1>4, <2>1, <2>3 DEF Meet, Touch
  <2> QED
    BY <2>1, <2>4, <2>5 DEF Good
<1> HIDE DEF a, b, S
<1>5. ASSUME NEW p \in a .. b
      PROVE  p \in Around(S, q)
  <2>1. p .. q \subseteq a .. b /\ q .. p \subseteq a .. b
    BY <1>1
  <2> QED
    BY <1>3, <2>1 DEF Around
<1>6. ASSUME NEW p \in Around(S, q)
      PROVE  p \in a .. b
  <2>1. p \in S /\ p .. q \subseteq S /\ q .. p \subseteq S /\ p \in Int
    BY <1>2 DEF Around, Numbers
  <2>2. CASE p < a
    <3>1. a - 1 \in p .. q
      BY <1>1, <2>1, <2>2
    <3> QED
      BY <1>4, <2>1, <3>1
  <2>3. CASE b < p
    <3>1. b + 1 \in q .. p
      BY <1>1, <2>1, <2>3
    <3> QED
      BY <1>4, <2>1, <3>1
  <2> QED
    BY <1>1, <2>1, <2>2, <2>3
<1>7. Around(S, q) = a .. b
  BY <1>5, <1>6
<1> QED
  BY <1>7 DEF S, a, b

\* Stepping over the range of the expected number keeps the invariant.
LEMMA SkipKeeps ==
  ASSUME TableInv, NEW ch \in Channels, NEW q0 \in Numbers, Skip(ch, q0)
  PROVE  TableInv'
<1>0. start \in 0 .. Modulus - 1 /\ Good(table) /\ HoldsToSkip(table, toSkip)
      /\ toSkip \in [Channels -> SUBSET Numbers] /\ start' = start /\ outcome' = outcome
  BY DEF TableInv, Skip
<1>1. PICK i \in Of(table, ch) : /\ SeqInRange(Wire(q0), table[i].first, table[i].last)
                                 /\ table' = [table EXCEPT ![i] = Unused]
  BY DEF Skip
<1>2. i \in Row /\ table[i].used /\ table[i].ch = ch
  BY DEF Of
<1>3. IsSpan(table[i])
  BY <1>0, <1>2 DEF Good
<1> DEFINE a == Lo(table[i])
           b == Hi(table[i])
<1>4. q0 \in a .. b
  BY <1>0, <1>1, <1>3, RowHas
<1>5. Around(toSkip[ch], q0) = a .. b
  BY <1>0, <1>2, <1>4, AroundRow
<1>6. a \in Int /\ b \in Int /\ a <= b
  BY <1>3, SpanInts
<1>7. toSkip' = [toSkip EXCEPT ![ch] = toSkip[ch] \ (a .. b)]
  BY <1>5 DEF Skip
<1> HIDE DEF a, b
<1>8. toSkip' \in [Channels -> SUBSET Numbers]
  BY <1>0, <1>7
<1>9. /\ table' \in [Row -> RowType] /\ table'[i] = Unused
      /\ \A k \in Row \ {i} : table'[k] = table[k]
  BY <1>0, <1>1, <1>2, RowTypes DEF Good
<1>10. ~table'[i].used
  BY <1>0, <1>9, RowTypes
<1>11. Good(table')
  BY <1>0, <1>9, <1>10 DEF Good
<1>12. ASSUME NEW c \in Channels, NEW q \in Numbers
       PROVE  q \in toSkip'[c] <=> Has(table', c, q)
  <2>1. q \in toSkip[c] <=> Has(table, c, q)
    BY <1>0 DEF HoldsToSkip
  <2>2. q \in toSkip'[c] <=> q \in toSkip[c] /\ ~(c = ch /\ q \in a .. b)
    BY <1>0, <1>7
  <2>3. ASSUME Has(table', c, q)
        PROVE  Has(table, c, q) /\ ~(c = ch /\ q \in a .. b)
    <3>1. PICK k \in Row : /\ table'[k].used /\ table'[k].ch = c
                           /\ q \in Lo(table'[k]) .. Hi(table'[k])
      BY <2>3 DEF Has
    <3>2. k # i /\ table'[k] = table[k]
      BY <1>9, <1>10, <3>1
    <3>3. Has(table, c, q)
      BY <3>1, <3>2 DEF Has
    <3>4. ASSUME c = ch, q \in a .. b
          PROVE  FALSE
      <4>1. IsSpan(table[k]) /\ ~Meet(table[k], table[i])
        BY <1>0, <1>2, <3>1, <3>2, <3>4 DEF Good
      <4>2. Lo(table[k]) \in Int /\ Hi(table[k]) \in Int
        BY <4>1, SpanInts
      <4>3. Meet(table[k], table[i])
        BY <1>6, <3>1, <3>2, <3>4, <4>2 DEF Meet, Touch, a, b
      <4> QED
        BY <4>1, <4>3
    <3> QED
      BY <3>3, <3>4
  <2>4. ASSUME Has(table, c, q), ~(c = ch /\ q \in a .. b)
        PROVE  Has(table', c, q)
    <3>1. PICK k \in Row : table[k].used /\ table[k].ch = c /\ q \in Lo(table[k]) .. Hi(table[k])
      BY <2>4 DEF Has
    <3>2. k # i
      BY <1>2, <2>4, <3>1 DEF a, b
    <3> QED
      BY <1>9, <3>1, <3>2 DEF Has
  <2> QED
    BY <2>1, <2>2, <2>3, <2>4
<1>13. HoldsToSkip(table', toSkip')
  BY <1>12 DEF HoldsToSkip
<1>14. Good(table)' /\ HoldsToSkip(table, toSkip)'
  BY <1>0, <1>11, <1>13, StartStays
<1> QED
  BY <1>0, <1>8, <1>14 DEF TableInv, RefusesOnlyWhenFull, Numbers

\* Every step keeps the invariant.
LEMMA TableStep == TableInv /\ [TableNext]_tableVars => TableInv'
<1> SUFFICES ASSUME TableInv, [TableNext]_tableVars PROVE TableInv'
  OBVIOUS
<1>1. CASE UNCHANGED tableVars
  <2>1. start' = start /\ table' = table /\ toSkip' = toSkip /\ outcome' = outcome
    BY <1>1 DEF tableVars
  <2>2. Good(table') /\ HoldsToSkip(table', toSkip')
    BY <2>1, Zenon DEF TableInv
  <2>3. Good(table)' /\ HoldsToSkip(table, toSkip)'
    BY <2>1, <2>2, StartStays
  <2> QED
    BY <2>1, <2>3 DEF TableInv, RefusesOnlyWhenFull, Numbers
<1>2. ASSUME NEW ch \in Channels, NEW first \in 0 .. Horizon, NEW last \in first .. Horizon,
             Add(ch, first, last)
      PROVE  TableInv'
  <2>1. first \in Numbers /\ last \in Numbers /\ first <= last
    BY Width32 DEF Numbers
  <2> QED
    BY <1>2, <2>1, AddKeeps
<1>3. ASSUME NEW ch \in Channels, NEW q0 \in 0 .. Horizon, Skip(ch, q0)
      PROVE  TableInv'
  BY <1>3, SkipKeeps DEF Numbers
<1> QED
  BY <1>1, <1>2, <1>3 DEF TableNext

\* Represents holds in every state: wherever the 32-bit numbers wrap around, the rows
\* of peer->pending_lost hold exactly the numbers added and not stepped over, and no
\* two rows of a channel overlap or touch (pending_lost_add(), consume_contiguous()).
THEOREM TableRepresents == TableSpec => []Represents
<1>1. TableSpec => []TableInv
  BY TableStarts, TableStep, PTL DEF TableSpec
<1> QED
  BY <1>1, InvRepresents, PTL

\* RefusesOnlyWhenFull holds in every state: pending_lost_add() refuses a range, which
\* makes the caller clear the whole peer, exactly when the ranges joined as far as
\* possible need more rows than there are.
THEOREM TableRefusals == TableSpec => []RefusesOnlyWhenFull
<1>1. TableSpec => []TableInv
  BY TableStarts, TableStep, PTL DEF TableSpec
<1>2. TableInv => RefusesOnlyWhenFull
  BY DEF TableInv
<1> QED
  BY <1>1, <1>2, PTL
=============================================================================
