------------------------------ MODULE RelLink ------------------------------
(***************************************************************************)
(* The reliable link engine of keemash_mesh_core.c between the root and    *)
(* one node.  Both ends run the same code (keemash_rel_...); the root role *)
(* only differs in who sends HELLO and who answers it.                     *)
(*                                                                         *)
(* What is abstracted:                                                     *)
(*  - the network is the set of packets ever sent to an end.  A packet may *)
(*    be handled any number of times, in any order, or never, which covers *)
(*    loss, duplication, delay and reordering.  A send that fails is a     *)
(*    packet that is never handled;                                        *)
(*  - sequence numbers are naturals and the pending lost ranges sets of    *)
(*    numbers; PendingLost relates both to the uint32_t array of the code; *)
(*  - a session id is the number of the boot that drew it, 0 is "none":    *)
(*    esp_random() is taken to never draw the same id twice;               *)
(*  - clocks: a timer (RTO, route grace, fragment timeout, stale peer) may *)
(*    be due at any poll;                                                  *)
(*  - packet bytes, CRC and MAC checks, RTT samples, counters and the      *)
(*    fault injection (off in firmware) carry no control here.             *)
(* The handlers run under one lock per end.  The loop of                   *)
(* consume_contiguous is modelled one turn per step: while consuming[e]    *)
(* names a channel, end e is inside that loop and only the loop, or a      *)
(* submit made by the deliver callback (the lock is recursive), may run.   *)
(***************************************************************************)
EXTENDS Naturals, FiniteSets, Sequences, LostRanges

CONSTANTS
  TIME,                   \* the latest-wins channel (MESH_V2_TUNNEL_CHANNEL_TIME)
  None,                   \* "not in the loop of consume_contiguous"
  Frags,                  \* fragment counts a message may have
  Window,                 \* MESH_V2_RELIABLE_WINDOW
  TxSlots, ReservedControlSlots,          \* the send pool
  PerPeerTxSlots, PerPeerControlReserve,  \* and the share of one peer
  RxSlots,                \* reorder slots of one peer
  ReassemblySlots,        \* reassembly slots of one peer
  MaxRetries,             \* cfg.max_retries
  MaxSubmit,              \* bound: submits by each end
  MaxBoots                \* bound: boots of the two ends together

Ends == {"root", "node"}
Peer(e) == IF e = "root" THEN "node" ELSE "root"
Priorities == {"control", "normal"}

ASSUME LinkAssumption ==
  /\ None \notin Channels
  /\ Frags \subseteq Nat \ {0}
  /\ {Window, TxSlots, ReservedControlSlots, PerPeerTxSlots,
      PerPeerControlReserve, RxSlots, ReassemblySlots, PendingLostRanges,
      MaxRetries} \subseteq Nat
  /\ MaxSubmit \in [Ends -> Nat]
  /\ MaxBoots \in Nat

VARIABLES
  session,      \* local_session of each end
  ready,        \* peer->ready
  routeUp,      \* peer->route_up
  rootSession,  \* peer->root_session_id
  nodeSession,  \* peer->node_session_id
  nextSeq,      \* peer->next_seq[ch]
  expected,     \* peer->expected_seq[ch]
  pendingLost,  \* peer->pending_lost, as the set of sequence numbers per channel
  tx,           \* used tx slots: a frame and its retries
  rx,           \* used rx (reorder) slots
  reassembly,   \* used reassembly slots
  consuming,    \* the channel consume_contiguous is working on, or None
  ackDue,       \* whether the caller of the loop sends an ACK afterwards
  net,          \* packets sent to each end
  submits,      \* submits so far, also the stream id of the last one
  accepted,     \* history: messages submit() accepted
  delivered,    \* history: messages handed to the deliver callback, in order
  lost,         \* history: sequence numbers reported by the event callback
  tainted       \* history: session pairs whose sequence spaces an end restarted

link  == <<session, ready, routeUp, rootSession, nodeSession>>
seqs  == <<nextSeq, expected, pendingLost>>
slots == <<tx, rx, reassembly>>
loop  == <<consuming, ackDue>>
hist  == <<submits, accepted, delivered, lost, tainted>>
vars  == <<link, seqs, slots, loop, net, hist>>

----------------------------------------------------------------------------
(* Data *)

\* One fragment on the wire: its message is (id, first, n).
Frame == [ch: Channels, seq: Nat, first: Nat, n: Nat \ {0}, id: Nat, rs: Nat, ns: Nat]
Message == [ch: Channels, first: Nat, n: Nat \ {0}, id: Nat, rs: Nat, ns: Nat]
Slot == [f: Frame, retries: Nat]
Partial == [ch: Channels, id: Nat, first: Nat, n: Nat \ {0}, got: SUBSET Nat]

Hello == [type: {"hello"}, ns: Nat, seen: Nat]
HelloAck == [type: {"hello_ack"}, rs: Nat, ns: Nat, reset: BOOLEAN]
Data == [type: {"data"}, f: Frame]
Ack == [type: {"ack"}, rs: Nat, ns: Nat, ch: Channels, ack: Nat,
        sack: SUBSET Nat, nack: Nat]
Lost == [type: {"lost"}, rs: Nat, ns: Nat, ch: Channels, first: Nat,
         last: Nat, drop: BOOLEAN]
Packet == Hello \cup HelloAck \cup Data \cup Ack \cup Lost

Report == [src: Ends, rs: Nat, ns: Nat, ch: Channels, seq: Nat]

MessageOf(f) ==
  [ch |-> f.ch, first |-> f.first, n |-> f.n, id |-> f.id, rs |-> f.rs, ns |-> f.ns]
LastSeq(m) == (m.first + m.n) - 1

Ones == [ch \in Channels |-> 1]
Empty == [ch \in Channels |-> {}]

----------------------------------------------------------------------------
(* State queries *)

Pair(e) == <<rootSession[e], nodeSession[e]>>
Installed(e, rs, ns) == ready[e] /\ rootSession[e] = rs /\ nodeSession[e] = ns
Idle(e) == consuming[e] = None

\* tx_available(): what a submit of this priority may still take.
NonControl(total, reserve) == IF total > reserve THEN total - reserve ELSE 0
TxLimit(priority) ==
  LET pool == IF priority = "control" THEN TxSlots
              ELSE NonControl(TxSlots, ReservedControlSlots)
      share == IF priority = "control" THEN PerPeerTxSlots
               ELSE NonControl(PerPeerTxSlots, PerPeerControlReserve)
  IN  IF pool < share THEN pool ELSE share
TxAvailable(e, priority, n) == Cardinality(tx[e]) + n <= TxLimit(priority)

ChannelUnacked(e, ch) == {s \in tx[e] : s.f.ch = ch}
Buffered(e, ch) == {f.seq : f \in {g \in rx[e] : g.ch = ch}}
\* Mutant: the bitmap also claims the frames missing below a buffered one.
SackBitmap_FillsGaps(at, buffered) ==
  {q \in at .. at + Window - 1 : \E b \in buffered : q <= b}

SackBitmap(at, buffered) == {q \in buffered : at <= q /\ q < at + Window}

----------------------------------------------------------------------------
(* Packets.  Each helper gives what is added to net[Peer(e)]. *)

Send(e, packets) == net' = [net EXCEPT ![Peer(e)] = @ \cup packets]

AckPacket(e, ch, at, buffered, isNack) ==
  [type |-> "ack", rs |-> rootSession[e], ns |-> nodeSession[e], ch |-> ch,
   ack |-> at - 1, sack |-> SackBitmap(at, buffered),
   nack |-> IF isNack THEN at ELSE 0]

LostPacket(e, ch, first, last, drop) ==
  [type |-> "lost", rs |-> rootSession[e], ns |-> nodeSession[e], ch |-> ch,
   first |-> first, last |-> last, drop |-> drop]

DataPacket(f) == [type |-> "data", f |-> f]

\* record_lost() on frames that "src" sent, in the session pair e has installed.
Reports(e, src, ch, range) ==
  {[src |-> src, rs |-> rootSession[e], ns |-> nodeSession[e], ch |-> ch,
    seq |-> q] : q \in range}

----------------------------------------------------------------------------
(* clear_peer_buffers(): every queue of the peer is emptied, the sequence  *)
(* spaces restart at 1, and what was queued is reported as lost: all tx    *)
(* slots of a channel as one range, each rx slot and each reassembly slot  *)
(* by itself.  The caller decides what becomes of "ready" and the ids.     *)

TxReports(e) ==
  UNION {UNION {Reports(e, e, s.f.ch, s.f.seq .. t.f.seq) :
                  t \in ChannelUnacked(e, s.f.ch)} : s \in tx[e]}
RxReports(e) ==
  (UNION {Reports(e, Peer(e), f.ch, {f.seq}) : f \in rx[e]})
  \cup (UNION {Reports(e, Peer(e), r.ch, r.first .. LastSeq(r)) : r \in reassembly[e]})

\* Mutant: expected_seq keeps its old value.
RestartSpaces_KeepsExpected(e) ==
  /\ nextSeq' = [nextSeq EXCEPT ![e] = Ones]
  /\ pendingLost' = [pendingLost EXCEPT ![e] = Empty]
  /\ tx' = [tx EXCEPT ![e] = {}]
  /\ rx' = [rx EXCEPT ![e] = {}]
  /\ reassembly' = [reassembly EXCEPT ![e] = {}]
  /\ UNCHANGED expected
RestartSpaces(e) ==
  /\ nextSeq' = [nextSeq EXCEPT ![e] = Ones]
  /\ expected' = [expected EXCEPT ![e] = Ones]
  /\ pendingLost' = [pendingLost EXCEPT ![e] = Empty]
  /\ tx' = [tx EXCEPT ![e] = {}]
  /\ rx' = [rx EXCEPT ![e] = {}]
  /\ reassembly' = [reassembly EXCEPT ![e] = {}]

Taint(e) == tainted' = tainted \cup {p \in {Pair(e)} : p[1] # 0 /\ p[2] # 0}

ClearPeerBuffers(e, alsoLost) ==
  /\ RestartSpaces(e)
  /\ lost' = lost \cup TxReports(e) \cup RxReports(e) \cup alsoLost
  /\ Taint(e)

KeepBuffers == UNCHANGED <<seqs, slots, lost, tainted>>

----------------------------------------------------------------------------
(* deliver_fragment(): f has just been taken at the expected position.     *)
(* rxLeft and pendingLeft are the reorder slots and pending ranges the     *)
(* caller leaves behind.                                                   *)

IsTainted(e) == Pair(e) \in tainted

\* The deliver callback.  Once a pair is tainted a message may come again; the
\* history keeps the first time only.
Deliver(e, m) ==
  delivered' = IF IsTainted(e) /\ \E i \in DOMAIN delivered[e] : delivered[e][i] = m
               THEN delivered
               ELSE [delivered EXCEPT ![e] = Append(@, m)]

\* reassembly_find(.., create = true): the slots f may go to, at most one.
ReassemblyFind(e, f) ==
  LET same == {r \in reassembly[e] : r.ch = f.ch /\ r.id = f.id}
      fresh == [ch |-> f.ch, id |-> f.id, first |-> f.first, n |-> f.n, got |-> {}]
  IN  IF same # {} THEN {r \in same : r.n = f.n /\ r.first = f.first}
      ELSE IF Cardinality(reassembly[e]) < ReassemblySlots THEN {fresh} ELSE {}

Overlapping(e, ch, first, last) ==
  {r \in reassembly[e] : r.ch = ch /\ r.first <= last /\ first <= LastSeq(r)}

DeliverWhole(e, f, rxLeft) ==
  /\ f.n = 1
  /\ Deliver(e, MessageOf(f))
  /\ expected' = [expected EXCEPT ![e][f.ch] = f.seq + 1]
  /\ rx' = [rx EXCEPT ![e] = rxLeft]
  /\ UNCHANGED <<reassembly, lost, net>>

DeliverPart(e, f, rxLeft) ==
  /\ f.n > 1
  /\ \E r \in ReassemblyFind(e, f) :
       LET got == r.got \cup {f.seq}
           others == reassembly[e] \ {r}
       IN  IF got = f.first .. LastSeq(f)
           THEN /\ Deliver(e, MessageOf(f))
                /\ reassembly' = [reassembly EXCEPT ![e] = others]
           ELSE /\ reassembly' = [reassembly EXCEPT ![e] =
                                    others \cup {[r EXCEPT !.got = got]}]
                /\ UNCHANGED delivered
  /\ expected' = [expected EXCEPT ![e][f.ch] = f.seq + 1]
  /\ rx' = [rx EXCEPT ![e] = rxLeft]
  /\ UNCHANGED <<lost, net>>

\* No reassembly slot: receiver_drop_range() gives up the whole message.  The
\* position after f is inside the range unless f was its last fragment.
DeliverNoSlot(e, f, rxLeft) ==
  /\ f.n > 1
  /\ ReassemblyFind(e, f) = {}
  /\ expected' = [expected EXCEPT ![e][f.ch] = LastSeq(f) + 1]
  /\ rx' = [rx EXCEPT ![e] =
              {g \in rxLeft : ~(g.ch = f.ch /\ g.seq \in f.first .. LastSeq(f))}]
  /\ reassembly' = [reassembly EXCEPT ![e] =
                      @ \ Overlapping(e, f.ch, f.first, LastSeq(f))]
  /\ lost' = lost \cup Reports(e, Peer(e), f.ch, f.first .. LastSeq(f))
  /\ Send(e, {LostPacket(e, f.ch, f.first, LastSeq(f), TRUE)})
  /\ UNCHANGED delivered

DeliverFragment(e, f, rxLeft) ==
  \/ DeliverWhole(e, f, rxLeft)
  \/ DeliverPart(e, f, rxLeft)
  \/ DeliverNoSlot(e, f, rxLeft)

----------------------------------------------------------------------------
(* consume_contiguous(), one turn per step *)

EnterLoop(e, ch, ack) ==
  /\ consuming' = [consuming EXCEPT ![e] = ch]
  /\ ackDue' = [ackDue EXCEPT ![e] = ack]

\* The expected position is in a pending lost range: step over the whole range.
SkipLost(e) ==
  /\ ~Idle(e)
  /\ LET ch == consuming[e]
         at == expected[e][ch]
         gone == pendingLost[e][ch]
     IN  \E last \in gone :
           /\ at <= last /\ at .. last \subseteq gone /\ last + 1 \notin gone
           /\ expected' = [expected EXCEPT ![e][ch] = last + 1]
           /\ pendingLost' = [pendingLost EXCEPT ![e][ch] =
                {q \in gone : ~(q .. at \subseteq gone /\ q <= last)}]
  /\ UNCHANGED <<link, nextSeq, slots, loop, net, hist>>

\* The frame of the expected position was buffered: deliver it.
ConsumeRx(e) ==
  /\ ~Idle(e)
  /\ LET ch == consuming[e]
     IN  /\ expected[e][ch] \notin pendingLost[e][ch]
         /\ \E f \in rx[e] : /\ f.ch = ch /\ f.seq = expected[e][ch]
                             /\ DeliverFragment(e, f, rx[e] \ {f})
  /\ UNCHANGED <<link, nextSeq, pendingLost, tx, loop, submits, accepted, tainted>>

\* Neither: leave the loop; handle_data() then acknowledges.
ConsumeDone(e) ==
  /\ ~Idle(e)
  /\ LET ch == consuming[e]
     IN  /\ expected[e][ch] \notin pendingLost[e][ch] \cup Buffered(e, ch)
         /\ Send(e, IF ackDue[e]
                    THEN {AckPacket(e, ch, expected[e][ch], Buffered(e, ch), FALSE)}
                    ELSE {})
  /\ EnterLoop(e, None, FALSE)
  /\ UNCHANGED <<link, seqs, slots, hist>>

----------------------------------------------------------------------------
(* keemash_rel_submit() *)

\* The TIME channel is only used by the root facade, which sends one fragment
\* at a time and only when nothing is unacknowledged (flush_one_pending_time).
MaySubmit(e, ch, n, priority) ==
  /\ submits[e] < MaxSubmit[e]
  /\ ready[e]
  /\ ch = TIME => /\ e = "root" /\ n = 1 /\ priority = "normal"
                  /\ ChannelUnacked(e, ch) = {}

SubmitAccept(e, ch, n, priority) ==
  /\ MaySubmit(e, ch, n, priority)
  /\ TxAvailable(e, priority, n)
  /\ LET m == [ch |-> ch, first |-> nextSeq[e][ch], n |-> n, id |-> submits[e] + 1,
               rs |-> rootSession[e], ns |-> nodeSession[e]]
         frames == {[ch |-> ch, seq |-> q, first |-> m.first, n |-> n,
                     id |-> m.id, rs |-> m.rs, ns |-> m.ns] :
                      q \in m.first .. LastSeq(m)}
     IN  /\ tx' = [tx EXCEPT ![e] = @ \cup {[f |-> f, retries |-> 0] : f \in frames}]
         /\ Send(e, IF routeUp[e] THEN {DataPacket(f) : f \in frames} ELSE {})
         /\ accepted' = [accepted EXCEPT ![e] = @ \cup {m}]
  /\ nextSeq' = [nextSeq EXCEPT ![e][ch] = @ + n]
  /\ submits' = [submits EXCEPT ![e] = @ + 1]
  /\ UNCHANGED <<link, expected, pendingLost, rx, reassembly, loop, delivered,
                 lost, tainted>>

\* Mutant: the sequence numbers reported as lost are used again.
SubmitOverflow_Reuses(e, ch, n, priority) ==
  /\ MaySubmit(e, ch, n, priority)
  /\ ~TxAvailable(e, priority, n)
  /\ LET first == nextSeq[e][ch]
         last == (first + n) - 1
     IN  /\ lost' = lost \cup Reports(e, e, ch, first .. last)
         /\ Send(e, {LostPacket(e, ch, first, last, FALSE)})
  /\ submits' = [submits EXCEPT ![e] = @ + 1]
  /\ UNCHANGED <<link, seqs, slots, loop, accepted, delivered, tainted>>

\* No room: the sequence numbers are used up and reported as lost.
SubmitOverflow(e, ch, n, priority) ==
  /\ MaySubmit(e, ch, n, priority)
  /\ ~TxAvailable(e, priority, n)
  /\ LET first == nextSeq[e][ch]
         last == (first + n) - 1
     IN  /\ lost' = lost \cup Reports(e, e, ch, first .. last)
         /\ Send(e, {LostPacket(e, ch, first, last, FALSE)})
  /\ nextSeq' = [nextSeq EXCEPT ![e][ch] = @ + n]
  /\ submits' = [submits EXCEPT ![e] = @ + 1]
  /\ UNCHANGED <<link, expected, pendingLost, slots, loop, accepted, delivered,
                 tainted>>

----------------------------------------------------------------------------
(* Session negotiation *)

\* keemash_rel_send_hello(): at boot, on reconnection, as heartbeat and after a
\* packet was refused, so at any time.
SendHello ==
  /\ Idle("node")
  /\ Send("node", {[type |-> "hello", ns |-> session["node"],
                    seen |-> rootSession["node"]]})
  /\ UNCHANGED <<link, seqs, slots, loop, hist>>

HelloReset(p) == nodeSession["root"] # p.ns \/ p.seen # session["root"]

\* Mutants: the root id is taken from the packet; a HELLO without reset does not
\* make the peer ready.
HandleHello_SeenId(p) ==
  /\ Idle("root")
  /\ p.type = "hello"
  /\ IF HelloReset(p) THEN ClearPeerBuffers("root", {}) ELSE KeepBuffers
  /\ rootSession' = [rootSession EXCEPT !["root"] = p.seen]
  /\ nodeSession' = [nodeSession EXCEPT !["root"] = p.ns]
  /\ routeUp' = [routeUp EXCEPT !["root"] = TRUE]
  /\ ready' = [ready EXCEPT !["root"] = TRUE]
  /\ Send("root", {[type |-> "hello_ack", rs |-> session["root"], ns |-> p.ns,
                    reset |-> HelloReset(p)]})
  /\ UNCHANGED <<session, loop, submits, accepted, delivered>>
HandleHello_ReadyOnReset(p) ==
  /\ Idle("root")
  /\ p.type = "hello"
  /\ IF HelloReset(p) THEN ClearPeerBuffers("root", {}) ELSE KeepBuffers
  /\ rootSession' = [rootSession EXCEPT !["root"] = session["root"]]
  /\ nodeSession' = [nodeSession EXCEPT !["root"] = p.ns]
  /\ routeUp' = [routeUp EXCEPT !["root"] = TRUE]
  /\ ready' = [ready EXCEPT !["root"] = @ \/ HelloReset(p)]
  /\ Send("root", {[type |-> "hello_ack", rs |-> session["root"], ns |-> p.ns,
                    reset |-> HelloReset(p)]})
  /\ UNCHANGED <<session, loop, submits, accepted, delivered>>

HandleHello(p) ==
  /\ Idle("root")
  /\ p.type = "hello"
  /\ IF HelloReset(p) THEN ClearPeerBuffers("root", {}) ELSE KeepBuffers
  /\ rootSession' = [rootSession EXCEPT !["root"] = session["root"]]
  /\ nodeSession' = [nodeSession EXCEPT !["root"] = p.ns]
  /\ routeUp' = [routeUp EXCEPT !["root"] = TRUE]
  /\ ready' = [ready EXCEPT !["root"] = TRUE]
  /\ Send("root", {[type |-> "hello_ack", rs |-> session["root"], ns |-> p.ns,
                    reset |-> HelloReset(p)]})
  /\ UNCHANGED <<session, loop, submits, accepted, delivered>>

SameBinding(p) == Installed("node", p.rs, p.ns)
SessionChanged(p) ==
  \/ rootSession["node"] # 0 /\ rootSession["node"] # p.rs
  \/ nodeSession["node"] # 0 /\ nodeSession["node"] # p.ns

HandleHelloAck(p) ==
  /\ Idle("node")
  /\ p.type = "hello_ack" /\ p.ns = session["node"]
  /\ IF SessionChanged(p) \/ (p.reset /\ ~SameBinding(p))
     THEN ClearPeerBuffers("node", {}) ELSE KeepBuffers
  /\ rootSession' = [rootSession EXCEPT !["node"] = p.rs]
  /\ nodeSession' = [nodeSession EXCEPT !["node"] = session["node"]]
  /\ routeUp' = [routeUp EXCEPT !["node"] = TRUE]
  /\ ready' = [ready EXCEPT !["node"] = TRUE]
  /\ UNCHANGED <<session, loop, net, submits, accepted, delivered>>

----------------------------------------------------------------------------
(* handle_data() *)

\* What every packet does to the route flag: the root facade marks the route up
\* before it hands the packet over, DATA and ACK handlers do so themselves.
RouteSeen(e) == routeUp' = [routeUp EXCEPT ![e] = TRUE]
KeepSession == UNCHANGED <<session, ready, rootSession, nodeSession>>

DataArrives(e, p) ==
  /\ Idle(e)
  /\ p.type = "data"
  /\ Installed(e, p.f.rs, p.f.ns)
  /\ RouteSeen(e)
  /\ KeepSession

\* A frame before the expected position is acknowledged again.
DataOld(e, p) ==
  /\ DataArrives(e, p)
  /\ p.f.seq < expected[e][p.f.ch]
  /\ Send(e, {AckPacket(e, p.f.ch, expected[e][p.f.ch], Buffered(e, p.f.ch), FALSE)})
  /\ UNCHANGED <<seqs, slots, loop, hist>>

\* Mutant: an older TIME frame moves the position back.
Jumps_Back(e, f) == f.ch = TIME /\ expected[e][f.ch] # f.seq

\* The expected frame.  A later TIME frame first moves the position up to itself
\* and drops what the channel had buffered.
Jumps(e, f) == f.ch = TIME /\ expected[e][f.ch] < f.seq

DataInOrder(e, p) ==
  /\ DataArrives(e, p)
  /\ p.f.seq = expected[e][p.f.ch] \/ Jumps(e, p.f)
  /\ DeliverFragment(e, p.f, IF Jumps(e, p.f) THEN {g \in rx[e] : g.ch # TIME}
                             ELSE rx[e])
  /\ pendingLost' = IF Jumps(e, p.f) THEN [pendingLost EXCEPT ![e][TIME] = {}]
                    ELSE pendingLost
  /\ EnterLoop(e, p.f.ch, TRUE)
  /\ UNCHANGED <<nextSeq, tx, submits, accepted, tainted>>

DataAhead(e, p) ==
  /\ DataArrives(e, p)
  /\ p.f.ch # TIME
  /\ expected[e][p.f.ch] < p.f.seq

NeedsSlot(e, f) ==
  /\ f.seq < expected[e][f.ch] + Window
  /\ f.seq \notin Buffered(e, f.ch)

\* Beyond the window, or buffered before: only a NACK for the expected frame.
DataNotStored(e, p) ==
  /\ DataAhead(e, p)
  /\ ~NeedsSlot(e, p.f)
  /\ Send(e, {AckPacket(e, p.f.ch, expected[e][p.f.ch], Buffered(e, p.f.ch), TRUE)})
  /\ UNCHANGED <<seqs, slots, loop, hist>>

DataStored(e, p) ==
  /\ DataAhead(e, p)
  /\ NeedsSlot(e, p.f)
  /\ Cardinality(rx[e]) < RxSlots
  /\ rx' = [rx EXCEPT ![e] = @ \cup {p.f}]
  /\ Send(e, {AckPacket(e, p.f.ch, expected[e][p.f.ch],
                        Buffered(e, p.f.ch) \cup {p.f.seq}, TRUE)})
  /\ UNCHANGED <<seqs, tx, reassembly, loop, hist>>

\* No reorder slot: receiver_drop_range(seq, seq).  Remembering the range may
\* fail too; then the whole peer is cleared and nothing is sent.
DropReports(e, f) == Reports(e, Peer(e), f.ch, {f.seq})
NoRxSlot(e, p) ==
  /\ Idle(e) /\ p.type = "data" /\ Installed(e, p.f.rs, p.f.ns)
  /\ p.f.ch # TIME /\ expected[e][p.f.ch] < p.f.seq
  /\ NeedsSlot(e, p.f)
  /\ Cardinality(rx[e]) >= RxSlots
  /\ RouteSeen(e)
  /\ UNCHANGED <<session, rootSession, nodeSession>>

DataDropped(e, p) ==
  /\ NoRxSlot(e, p)
  /\ LET pending == WithRange(pendingLost[e], p.f.ch, p.f.seq, p.f.seq)
     IN  /\ PendingFits(pending)
         /\ pendingLost' = [pendingLost EXCEPT ![e] = pending]
  /\ reassembly' = [reassembly EXCEPT ![e] =
                      @ \ Overlapping(e, p.f.ch, p.f.seq, p.f.seq)]
  /\ lost' = lost \cup DropReports(e, p.f)
  /\ Send(e, {LostPacket(e, p.f.ch, p.f.seq, p.f.seq, TRUE)})
  /\ UNCHANGED <<ready, nextSeq, expected, tx, rx, loop, submits, accepted,
                 delivered, tainted>>

DataOverflow(e, p) ==
  /\ NoRxSlot(e, p)
  /\ ~PendingFits(WithRange(pendingLost[e], p.f.ch, p.f.seq, p.f.seq))
  /\ ClearPeerBuffers(e, DropReports(e, p.f))
  /\ ready' = [ready EXCEPT ![e] = FALSE]
  /\ UNCHANGED <<loop, net, submits, accepted, delivered>>

HandleData(e, p) ==
  \/ DataOld(e, p) \/ DataInOrder(e, p) \/ DataNotStored(e, p)
  \/ DataStored(e, p) \/ DataDropped(e, p) \/ DataOverflow(e, p)

----------------------------------------------------------------------------
(* handle_ack_packet(): free what is acknowledged, then serve the NACK: the *)
(* frame again if it is still queued, otherwise report it lost.            *)

Acked(e, p) ==
  {s \in tx[e] : s.f.ch = p.ch /\ (s.f.seq <= p.ack \/ s.f.seq \in p.sack)}

Resent(s) == [s EXCEPT !.retries = IF @ < MaxRetries THEN @ + 1 ELSE @]

HandleAck(e, p) ==
  /\ Idle(e)
  /\ p.type = "ack"
  /\ Installed(e, p.rs, p.ns)
  /\ RouteSeen(e)
  /\ LET left == tx[e] \ Acked(e, p)
         asked == {s \in left : s.f.ch = p.ch /\ s.f.seq = p.nack}
     IN  \/ /\ p.nack = 0
            /\ tx' = [tx EXCEPT ![e] = left]
            /\ UNCHANGED <<net, lost>>
         \/ /\ p.nack # 0
            /\ \E s \in asked :
                 /\ tx' = [tx EXCEPT ![e] = (left \ {s}) \cup {Resent(s)}]
                 /\ Send(e, {DataPacket(s.f)})
            /\ UNCHANGED lost
         \/ /\ p.nack # 0
            /\ asked = {}
            /\ tx' = [tx EXCEPT ![e] = left]
            /\ lost' = lost \cup Reports(e, e, p.ch, {p.nack})
            /\ Send(e, {LostPacket(e, p.ch, p.nack, p.nack, FALSE)})
  /\ KeepSession
  /\ UNCHANGED <<seqs, rx, reassembly, loop, submits, accepted, delivered, tainted>>

----------------------------------------------------------------------------
(* handle_lost_packet() *)

LostArrives(e, p) ==
  /\ Idle(e)
  /\ p.type = "lost"
  /\ Installed(e, p.rs, p.ns)
  /\ routeUp' = [routeUp EXCEPT ![e] = @ \/ e = "root"]
  /\ UNCHANGED <<session, rootSession, nodeSession>>

\* The receiver gave up frames of ours.
LostByReceiver(e, p) ==
  /\ LostArrives(e, p)
  /\ p.drop
  /\ tx' = [tx EXCEPT ![e] =
              {s \in @ : ~(s.f.ch = p.ch /\ s.f.seq \in p.first .. p.last)}]
  /\ lost' = lost \cup Reports(e, e, p.ch, p.first .. p.last)
  /\ UNCHANGED <<ready, seqs, rx, reassembly, loop, net, submits, accepted,
                 delivered, tainted>>

\* The sender gave up the frame we expect: step over the range.
LostExpected(e, p) ==
  /\ LostArrives(e, p)
  /\ ~p.drop
  /\ expected[e][p.ch] \in p.first .. p.last
  /\ expected' = [expected EXCEPT ![e][p.ch] = p.last + 1]
  /\ lost' = lost \cup Reports(e, Peer(e), p.ch, p.first .. p.last)
  /\ EnterLoop(e, p.ch, FALSE)
  /\ UNCHANGED <<ready, nextSeq, pendingLost, slots, net, submits, accepted,
                 delivered, tainted>>

\* It gave up frames further ahead: remember the range, or clear the peer.
LostAhead(e, p) ==
  /\ LostArrives(e, p)
  /\ ~p.drop
  /\ expected[e][p.ch] < p.first
  /\ LET pending == WithRange(pendingLost[e], p.ch, p.first, p.last)
     IN  \/ /\ PendingFits(pending)
            /\ pendingLost' = [pendingLost EXCEPT ![e] = pending]
            /\ lost' = lost \cup Reports(e, Peer(e), p.ch, p.first .. p.last)
            /\ UNCHANGED <<ready, nextSeq, expected, slots, tainted>>
         \/ /\ ~PendingFits(pending)
            /\ ClearPeerBuffers(e, {})
            /\ ready' = [ready EXCEPT ![e] = FALSE]
  /\ UNCHANGED <<loop, net, submits, accepted, delivered>>

\* It is behind us: only the report.
LostBehind(e, p) ==
  /\ LostArrives(e, p)
  /\ ~p.drop
  /\ p.last < expected[e][p.ch]
  /\ lost' = lost \cup Reports(e, Peer(e), p.ch, p.first .. p.last)
  /\ UNCHANGED <<ready, seqs, slots, loop, net, submits, accepted, delivered, tainted>>

HandleLost(e, p) ==
  LostByReceiver(e, p) \/ LostExpected(e, p) \/ LostAhead(e, p) \/ LostBehind(e, p)

----------------------------------------------------------------------------
(* keemash_rel_poll().  A poll serves the timers that are due; any set of   *)
(* them may be, so it is one step per timer.                               *)

\* Mutant: a peer with frames to send is not given up.
PollRouteTimeout_NothingQueued(e) ==
  /\ Idle(e)
  /\ ready[e] /\ ~routeUp[e] /\ tx[e] = {}
  /\ ClearPeerBuffers(e, {})
  /\ ready' = [ready EXCEPT ![e] = FALSE]
  /\ UNCHANGED <<session, routeUp, rootSession, nodeSession, loop, net, submits,
                 accepted, delivered>>

\* route_grace_ms after the route went down.
PollRouteTimeout(e) ==
  /\ Idle(e)
  /\ ready[e] /\ ~routeUp[e]
  /\ ClearPeerBuffers(e, {})
  /\ ready' = [ready EXCEPT ![e] = FALSE]
  /\ UNCHANGED <<session, routeUp, rootSession, nodeSession, loop, net, submits,
                 accepted, delivered>>

PollRetransmit(e) ==
  /\ Idle(e)
  /\ ready[e] /\ routeUp[e]
  /\ \E s \in tx[e] :
       /\ s.retries < MaxRetries
       /\ tx' = [tx EXCEPT ![e] = (@ \ {s}) \cup {Resent(s)}]
       /\ Send(e, {DataPacket(s.f)})
  /\ UNCHANGED <<link, seqs, rx, reassembly, loop, hist>>

\* Out of retries: one LOST packet, everything is cleared, and the session of
\* the other end is forgotten so that the next HELLO renegotiates.
PollExhausted(e) ==
  /\ Idle(e)
  /\ ready[e] /\ routeUp[e]
  /\ \E s \in tx[e] :
       /\ s.retries >= MaxRetries
       /\ Send(e, {LostPacket(e, s.f.ch, s.f.seq, s.f.seq, FALSE)})
  /\ ClearPeerBuffers(e, {})
  /\ ready' = [ready EXCEPT ![e] = FALSE]
  /\ rootSession' = IF e = "node" THEN [rootSession EXCEPT ![e] = 0] ELSE rootSession
  /\ nodeSession' = IF e = "root" THEN [nodeSession EXCEPT ![e] = 0] ELSE nodeSession
  /\ UNCHANGED <<session, routeUp, loop, submits, accepted, delivered>>

\* fragment_timeout_ms without a new fragment.
PollFragmentTimeout(e) ==
  /\ Idle(e)
  /\ \E r \in reassembly[e] :
       /\ reassembly' = [reassembly EXCEPT ![e] = @ \ {r}]
       /\ lost' = lost \cup Reports(e, Peer(e), r.ch, r.first .. LastSeq(r))
       /\ Send(e, {LostPacket(e, r.ch, r.first, LastSeq(r), TRUE)})
  /\ UNCHANGED <<link, seqs, tx, rx, loop, submits, accepted, delivered, tainted>>

----------------------------------------------------------------------------
(* Calls of the facades *)

\* keemash_rel_peer_route(): ESP-MESH reports a route change.
PeerRoute(e, up) ==
  /\ Idle(e)
  /\ routeUp[e] # up
  /\ routeUp' = [routeUp EXCEPT ![e] = up]
  /\ UNCHANGED <<session, ready, rootSession, nodeSession, seqs, slots, loop, net,
                 hist>>

\* keemash_rel_supersede_channel(): the root has a newer TIME to send.
Supersede ==
  /\ Idle("root")
  /\ ChannelUnacked("root", TIME) # {}
  /\ tx' = [tx EXCEPT !["root"] = @ \ ChannelUnacked("root", TIME)]
  /\ UNCHANGED <<link, seqs, rx, reassembly, loop, net, hist>>

\* keemash_rel_remove_peer(): the root forgets a peer whose route has been down
\* for stale_peer_ms, provided nothing is queued.
RemovePeer ==
  /\ Idle("root")
  /\ ~routeUp["root"]
  /\ nodeSession["root"] # 0 \/ rootSession["root"] # 0
  /\ tx["root"] = {} /\ rx["root"] = {} /\ reassembly["root"] = {}
  /\ RestartSpaces("root")
  /\ Taint("root")
  /\ ready' = [ready EXCEPT !["root"] = FALSE]
  /\ rootSession' = [rootSession EXCEPT !["root"] = 0]
  /\ nodeSession' = [nodeSession EXCEPT !["root"] = 0]
  /\ UNCHANGED <<session, routeUp, loop, net, submits, accepted, delivered, lost>>

\* Power loss and keemash_rel_init(): nothing survives but the world outside.
Reboot(e) ==
  /\ session["root"] + session["node"] < MaxBoots
  /\ session' = [session EXCEPT ![e] = @ + 1]
  /\ ready' = [ready EXCEPT ![e] = FALSE]
  /\ routeUp' = [routeUp EXCEPT ![e] = FALSE]
  /\ rootSession' = [rootSession EXCEPT ![e] = 0]
  /\ nodeSession' = [nodeSession EXCEPT ![e] = 0]
  /\ RestartSpaces(e)
  /\ EnterLoop(e, None, FALSE)
  /\ UNCHANGED <<net, hist>>

----------------------------------------------------------------------------
Init ==
  /\ session = [e \in Ends |-> 1]
  /\ ready = [e \in Ends |-> FALSE]
  /\ routeUp = [e \in Ends |-> FALSE]
  /\ rootSession = [e \in Ends |-> 0]
  /\ nodeSession = [e \in Ends |-> 0]
  /\ nextSeq = [e \in Ends |-> Ones]
  /\ expected = [e \in Ends |-> Ones]
  /\ pendingLost = [e \in Ends |-> Empty]
  /\ tx = [e \in Ends |-> {}]
  /\ rx = [e \in Ends |-> {}]
  /\ reassembly = [e \in Ends |-> {}]
  /\ consuming = [e \in Ends |-> None]
  /\ ackDue = [e \in Ends |-> FALSE]
  /\ net = [e \in Ends |-> {}]
  /\ submits = [e \in Ends |-> 0]
  /\ accepted = [e \in Ends |-> {}]
  /\ delivered = [e \in Ends |-> <<>>]
  /\ lost = {}
  /\ tainted = {}

Submit(e) ==
  \E ch \in Channels, n \in Frags, priority \in Priorities :
    SubmitAccept(e, ch, n, priority) \/ SubmitOverflow(e, ch, n, priority)

Consume(e) == SkipLost(e) \/ ConsumeRx(e) \/ ConsumeDone(e)

\* keemash_rel_handle_rx(); a packet a handler refuses changes nothing but the
\* route flag, which PeerRoute covers.
Receive(e) ==
  \E p \in net[e] :
    \/ e = "root" /\ HandleHello(p)
    \/ e = "node" /\ HandleHelloAck(p)
    \/ HandleData(e, p)
    \/ HandleAck(e, p)
    \/ HandleLost(e, p)

PollTx(e) == PollRetransmit(e) \/ PollExhausted(e)

\* What goes on between two ends that stay powered and bound to each other.
Transfer(e) == Submit(e) \/ Consume(e) \/ Receive(e) \/ PollTx(e) \/ PollFragmentTimeout(e)
Environment ==
  \/ SendHello
  \/ Supersede
  \/ RemovePeer
  \/ \E e \in Ends : \/ PollRouteTimeout(e)
                     \/ \E up \in BOOLEAN : PeerRoute(e, up)
                     \/ Reboot(e)

Next == Environment \/ \E e \in Ends : Transfer(e)

Spec == Init /\ [][Next]_vars

----------------------------------------------------------------------------
(* Properties *)

\* The fields of both ends; sequence spaces start at 1, so that ack = expected - 1
\* is never below 0.
TypeOK ==
  /\ session \in [Ends -> Nat]
  /\ ready \in [Ends -> BOOLEAN]
  /\ routeUp \in [Ends -> BOOLEAN]
  /\ rootSession \in [Ends -> Nat]
  /\ nodeSession \in [Ends -> Nat]
  /\ nextSeq \in [Ends -> [Channels -> Nat \ {0}]]
  /\ expected \in [Ends -> [Channels -> Nat \ {0}]]
  /\ pendingLost \in [Ends -> [Channels -> SUBSET Nat]]
  /\ tx \in [Ends -> SUBSET Slot]
  /\ rx \in [Ends -> SUBSET Frame]
  /\ reassembly \in [Ends -> SUBSET Partial]
  /\ consuming \in [Ends -> Channels \cup {None}]
  /\ ackDue \in [Ends -> BOOLEAN]
  /\ net \in [Ends -> SUBSET Packet]
  /\ submits \in [Ends -> Nat]
  /\ accepted \in [Ends -> SUBSET Message]
  /\ delivered \in [Ends -> Seq(Message)]
  /\ lost \in SUBSET Report
  /\ tainted \in SUBSET (Nat \X Nat)

\* A session pair in which both ends still count from the same start.
Sound(m) == <<m.rs, m.ns>> \notin tainted

\* Within one session pair whose sequence spaces nobody restarted, the deliver
\* callback sees the messages of a channel in the order they were submitted and
\* each at most once, whatever the network loses, repeats or reorders (README
\* "reorder buffering and in-order delivery"; handle_data, consume_contiguous).
InOrder ==
  \A e \in Ends : \A i, j \in DOMAIN delivered[e] :
    LET a == delivered[e][i]
        b == delivered[e][j]
    IN  i < j /\ a.ch = b.ch /\ <<a.rs, a.ns>> = <<b.rs, b.ns>> /\ Sound(a)
          => a.first < b.first

Held(e, m, q) ==
  \/ \E s \in tx[e] : s.f.seq = q /\ MessageOf(s.f) = m
  \/ \E f \in rx[Peer(e)] : f.seq = q /\ MessageOf(f) = m
  \/ \E r \in reassembly[Peer(e)] : r.ch = m.ch /\ r.id = m.id /\ q \in r.got

\* Delivered, reported by the event callback at one end, or still in full
\* between the queues of the two ends.
Settled(e, m) ==
  \/ \E i \in DOMAIN delivered[Peer(e)] : delivered[Peer(e)][i] = m
  \/ \E r \in lost : /\ r.src = e /\ r.rs = m.rs /\ r.ns = m.ns /\ r.ch = m.ch
                     /\ r.seq \in m.first .. LastSeq(m)
  \/ \A q \in m.first .. LastSeq(m) : Held(e, m, q)

Shared(m) == \A e \in Ends : Pair(e) = <<m.rs, m.ns>>

\* While both ends keep the session pair a message was accepted in, and nobody
\* restarted its sequence spaces, the message does not vanish: it is delivered,
\* reported lost, or still held (README "explicit LOST ranges").  TIME is
\* excepted: a newer one replaces it.
NoSilentLoss ==
  \A e \in Ends : \A m \in accepted[e] :
    m.ch # TIME /\ Shared(m) /\ Sound(m) => Settled(e, m)

\* The receiver never expects a sequence number the sender has still to assign:
\* otherwise the next frames would count as old ones, be acknowledged and not be
\* delivered (handle_data, seq_before).  It relates expected_seq of one end to
\* next_seq of the other.
EndsAgree ==
  \A e \in Ends, ch \in Channels :
    /\ ready[e] /\ ready[Peer(e)]
    /\ Pair(e) = Pair(Peer(e)) /\ Pair(e) \notin tainted
    => expected[Peer(e)][ch] <= nextSeq[e][ch]

\* Every queued frame, to send or to deliver, carries the session ids the end has
\* installed, and an end that is not ready queues nothing: a frame of another
\* session would be retransmitted and refused until the retries run out, or
\* reach the application out of an earlier boot (handle_hello, handle_hello_ack).
QueuedInSession ==
  \A e \in Ends :
    /\ \A s \in tx[e] : Installed(e, s.f.rs, s.f.ns)
    /\ \A f \in rx[e] : Installed(e, f.rs, f.ns)
    /\ reassembly[e] # {} => ready[e]

\* An end that is ready is bound to its own current boot and to a boot of the
\* other end, and no handshake packet of whatever age names boot 0, the value for
\* "none": a ready end whose id were stale would refuse every packet and answer
\* with nothing that repairs it.
SessionsBound ==
  /\ \A e \in Ends : session[e] # 0
  /\ ready["root"] => rootSession["root"] = session["root"] /\ nodeSession["root"] # 0
  /\ ready["node"] => nodeSession["node"] = session["node"] /\ rootSession["node"] # 0
  /\ \A p \in net["root"] : p.type = "hello" => p.ns # 0
  /\ \A p \in net["node"] : p.type = "hello_ack" => p.rs # 0

\* What an end has bound and queued belongs to boots that exist, its own being the
\* current one, whatever handshakes, clears, removals and reboots came in between
\* and however old the packets are that the network still holds.
SessionInv == TypeOK /\ QueuedInSession /\ SessionsBound

----------------------------------------------------------------------------
(* Liveness.  The poll task of each end runs every 250 ms; it shares the    *)
(* lock with the receive path, which is released between packets, so it is  *)
(* not shut out for ever (strong fairness).  The heartbeat sends HELLO for  *)
(* ever, and a network that delivers some of infinitely many sends brings   *)
(* the HELLO the node sends now, and its answer, through.                  *)

PollFairness ==
  \A e \in Ends : /\ WF_vars(Consume(e))
                  /\ SF_vars(PollTx(e))
                  /\ SF_vars(PollRouteTimeout(e))

CurrentHello ==
  \E p \in net["root"] :
    HandleHello(p) /\ p.ns = session["node"] /\ p.seen = rootSession["node"]
CurrentHelloAck ==
  \E p \in net["node"] : HandleHelloAck(p) /\ p.rs = session["root"]
HelloFairness ==
  /\ WF_vars(SendHello)
  /\ SF_vars(CurrentHello)
  /\ SF_vars(CurrentHelloAck)

\* The other end may stay silent for ever; Reconnects adds that neither does.
PollSpec == Spec /\ PollFairness

\* A send queue never holds a frame for ever, even if the other end stays silent:
\* it is acknowledged, given up after the retries, or given up after the route
\* grace, provided the route does not change for ever (keemash_rel_poll).
RouteSettles(e) == <>[]routeUp[e] \/ <>[]~routeUp[e]
QueueDrains ==
  (\A e \in Ends : RouteSettles(e)) => \A e \in Ends : tx[e] # {} ~> tx[e] = {}

\* Packets of earlier handshakes, route losses and reboots.
Disturbance ==
  \/ \E p \in net["root"] : HandleHello(p) /\ p.ns # session["node"]
  \/ \E p \in net["node"] : HandleHelloAck(p) /\ p.rs # session["root"]
  \/ \E e \in Ends : PeerRoute(e, FALSE) \/ Reboot(e)

\* Once the disturbances cease and HELLOs come through, both ends come to hold the ids of both current
\* boots, and keep them, whatever ids each had before (README v0.5.8 heartbeat).
Agreed ==
  \A e \in Ends : Installed(e, session["root"], session["node"])
Reconnects == HelloFairness /\ <>[][~Disturbance]_vars => <>[]Agreed

----------------------------------------------------------------------------
(* What the documentation says and the code does not keep.                 *)

\* README: "explicit LOST ranges" and "explicit route loss".  While both ends keep
\* the session pair a message was accepted in, it is delivered, reported or held.
ExplicitLoss ==
  \A e \in Ends : \A m \in accepted[e] :
    m.ch # TIME /\ Shared(m) /\ ready[e] /\ ready[Peer(e)] => Settled(e, m)
=============================================================================
