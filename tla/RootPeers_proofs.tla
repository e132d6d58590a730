-------------------------- MODULE RootPeers_proofs --------------------------
(***************************************************************************)
(* Proofs about the root's table of nodes: for every set of nodes that     *)
(* fits the table, and any number of generations, pings and upsets.        *)
(* FairSpec adds only fairness to Spec.                                    *)
(***************************************************************************)
EXTENDS RootPeers, Integers, FiniteSetTheorems, TLAPS

Times == [gen: 1 .. MaxGen, up: Uptimes]

Entries ==
  [used: {TRUE}, mac: Nodes, route: {"up", "down"}, caps: BOOLEAN, due: Times \cup {NoTime},
   wanted: Times \cup {NoTime}, dropped: BOOLEAN, pending: BOOLEAN, pingId: Nat,
   valid: BOOLEAN, late: BOOLEAN]

Pinging == [at: {"ping"}, mac: Nodes, id: Nat]
Pruning == [at: {"prune"}, slot: 1 .. Slots, mac: Nodes]
Ping == [mac: Nodes, id: Nat, boot: Nat, lost: BOOLEAN]

TableTypes == table \in [1 .. Slots -> {Free} \cup Entries]

TaskTypes ==
  /\ boot \in Nat \ {0} /\ upsets \in 0 .. MaxUpsets /\ boot <= upsets + 1
  /\ generation \in 0 .. MaxGen /\ uptime \in Uptimes \cup {0}
  /\ nextPing \in 1 .. MaxPings + 1
  /\ poll \in {Resting} \cup Pinging \cup Pruning
  /\ hello \in Nodes \cup {None} /\ unanswered \subseteq Nodes
  /\ pings \subseteq Ping

LinkTypes ==
  /\ rel \in [Nodes -> {"absent", "known", "ready"}]
  /\ relTime \in [Nodes -> Times \cup {NoTime}]

Clocks ==
  [gen: 0 .. MaxGen, up: Uptimes \cup {0}, set: Nat, heard: Nat, hidden: BOOLEAN]

\* A clock is set by TIME the node has heard, and the node that heard of this boot and
\* did not set its clock by it has mistaken it for an earlier one.
ClockTypes ==
  /\ clock \in [Nodes -> Clocks]
  /\ \A n \in Nodes :
       /\ clock[n].set <= clock[n].heard /\ clock[n].heard <= boot
       /\ clock[n].heard = boot /\ clock[n].set # boot => clock[n].hidden

\* No node has two entries, and what waits in one is what was asked for last.
Unique ==
  /\ \A i, j \in 1 .. Slots :
       table[i].used /\ table[j].used /\ table[i].mac = table[j].mac => i = j
  /\ \A i \in 1 .. Slots : table[i].used => table[i].due \in {NoTime, table[i].wanted}

\* TIME on the link is what was asked for last, in the entry of its node.
TimeOnLink ==
  \A n \in Nodes : relTime[n] # NoTime =>
    \E i \in 1 .. Slots : Uses(i, n) /\ table[i].wanted = relTime[n]

\* Between its two looks the pruning task leaves the link no trace of the node.
PruneForgot == poll.at = "prune" => rel[poll.mac] = "absent" /\ relTime[poll.mac] = NoTime

\* The pings of this boot have ids that were given out.
PingIds ==
  /\ \A p \in pings : p.boot <= boot /\ (p.boot = boot => p.id < nextPing)
  /\ poll.at = "ping" => poll.id < nextPing

\* An entry that waits for its PONG is routed, and has been since its ping was sent.
PingRouted ==
  \A i \in 1 .. Slots : table[i].used /\ table[i].pending =>
    /\ table[i].route = "up"
    /\ \A p \in pings :
         p.boot = boot /\ p.mac = table[i].mac /\ p.id = table[i].pingId => ~p.lost

OnlyPing ==
  \A i, j \in 1 .. Slots :
    table[i].used /\ table[i].pending /\ table[j].used /\ table[j].pending => i = j

\* Within a boot of the root uptimes and generations only grow: no node is past the TIME
\* that was handed out for it last.
Past(c, t) == (c.heard = boot => c.up <= t.up) /\ (c.set = boot => c.gen <= t.gen)

TimeOrder ==
  /\ \A n \in Nodes : Past(clock[n], Time(generation, uptime))
  /\ \A i \in 1 .. Slots : table[i].used /\ table[i].wanted # NoTime =>
       /\ table[i].wanted.gen <= generation /\ table[i].wanted.up <= uptime
       /\ Past(clock[table[i].mac], table[i].wanted)

TimeInv == TimeOnLink /\ TimeKept /\ TimeOrder

\* What TimeKept says of the clock of a node in boot b of the root.
Heard(c, t, b) ==
  \/ c.set = b /\ c.gen = t.gen /\ c.up = t.up
  \/ c.heard = b /\ c.hidden /\ c.set < b /\ c.gen >= t.gen

PingInv == PingIds /\ PingRouted /\ OnlyPing /\ PongFresh

PeersInv ==
  /\ TableTypes /\ TaskTypes /\ LinkTypes /\ ClockTypes
  /\ Unique /\ PruneForgot /\ BoundIsListed
  /\ TimeInv /\ PingInv

----------------------------------------------------------------------------
(* Slots *)

LEMMA Bounds ==
  /\ Slots \in Nat \ {0} /\ None \notin Nodes /\ Timed \subseteq Nodes
  /\ Uptimes \subseteq Nat /\ RestartSlack \in Nat
  /\ MaxGen \in Nat /\ MaxPings \in Nat /\ MaxUpsets \in Nat
  BY RootPeersAssumption

\* NoTime is no TIME, and TIME consists of numbers.
LEMMA TimesAre ==
  /\ NoTime \notin Times
  /\ \A t \in Times : t.gen \in 1 .. MaxGen /\ t.gen \in Nat /\ t.gen >= 1
                       /\ t.up \in Uptimes /\ t.up \in Nat
<1>1. NoTime.gen = 0
  BY DEF NoTime, Time
<1>2. ASSUME NEW t \in Times
      PROVE  /\ t.gen \in 1 .. MaxGen /\ t.gen \in Nat /\ t.gen >= 1
             /\ t.up \in Uptimes /\ t.up \in Nat
  <2>1. t.gen \in 1 .. MaxGen /\ t.up \in Uptimes
    BY DEF Times
  <2>2. t.up \in Nat
    <3>1. \A up \in Uptimes : up \in Nat
      BY RootPeersAssumption
    <3> QED
      BY <2>1, <3>1
  <2> QED
    BY <2>1, <2>2, Bounds
<1> QED
  BY <1>1, <1>2

\* What a node knows of TIME consists of numbers.
LEMMA ClocksAre ==
  ASSUME NEW c \in Clocks
  PROVE  /\ c.gen \in 0 .. MaxGen /\ c.gen \in Nat /\ c.up \in Nat
         /\ c.set \in Nat /\ c.heard \in Nat
<1>1. c.gen \in 0 .. MaxGen /\ c.up \in Uptimes \cup {0} /\ c.set \in Nat /\ c.heard \in Nat
  BY DEF Clocks
<1>2. c.up \in Nat
  <2>1. \A up \in Uptimes : up \in Nat
    BY RootPeersAssumption
  <2> QED
    BY <1>1, <2>1
<1> QED
  BY <1>1, <1>2, Bounds

LEMMA FreeIs == ~Free.used
  BY DEF Free

\* A slot in use holds an entry.
LEMMA UsedIs ==
  ASSUME TableTypes, NEW i \in 1 .. Slots
  PROVE  /\ table[i] \in {Free} \cup Entries
         /\ table[i].used => table[i] \in Entries
         /\ ~table[i].used => table[i] = Free
<1>1. \A e \in Entries : e.used
  BY DEF Entries
<1> QED
  BY <1>1, FreeIs DEF TableTypes

\* A new entry waits for nothing.
LEMMA EntryIs ==
  ASSUME NEW n \in Nodes
  PROVE  /\ Entry(n) \in Entries /\ Entry(n).used /\ Entry(n).mac = n
         /\ Entry(n).due = NoTime /\ Entry(n).wanted = NoTime
         /\ ~Entry(n).pending /\ ~Entry(n).valid
  BY Bounds DEF Entry, Entries

\* find_node_locked() keeps the entries there are and gives each node at most one;
\* since the table has room for every node, each node looked up has one afterwards.
LEMMA Creates ==
  ASSUME TableTypes, Unique, NEW macs \in SUBSET Nodes,
         NEW place \in [1 .. Slots -> macs \cup {None}], Places(place, macs)
  PROVE  /\ \A i \in 1 .. Slots :
              \/ Placed(place, i) = table[i] /\ place[i] = None
              \/ /\ ~table[i].used /\ place[i] \in macs
                 /\ Placed(place, i) = Entry(place[i])
         /\ \A i, j \in 1 .. Slots :
              /\ Placed(place, i).used /\ Placed(place, j).used
              /\ Placed(place, i).mac = Placed(place, j).mac
              => i = j
         /\ \A n \in macs : \E i \in 1 .. Slots :
              Placed(place, i).used /\ Placed(place, i).mac = n
<1> DEFINE t(i) == Placed(place, i)
<1>1. \A i \in 1 .. Slots :
        \/ t(i) = table[i] /\ place[i] = None
        \/ ~table[i].used /\ place[i] \in macs /\ t(i) = Entry(place[i])
  BY Bounds DEF Places, Placed
<1>2. \A i \in 1 .. Slots : place[i] \in macs =>
        t(i) = Entry(place[i]) /\ t(i).used /\ t(i).mac = place[i]
  BY <1>1, EntryIs, Bounds
<1>3. ASSUME NEW i \in 1 .. Slots, NEW j \in 1 .. Slots,
             t(i).used, t(j).used, t(i).mac = t(j).mac
      PROVE  i = j
  <2>1. CASE place[i] = None /\ place[j] = None
    BY <1>1, <1>3, <2>1, Bounds DEF Unique
  <2>2. CASE place[i] \in macs /\ place[j] \in macs
    BY <1>2, <1>3, <2>2, Bounds DEF Places
  <2>3. CASE place[i] \in macs /\ place[j] = None
    <3>1. table[j].used /\ table[j].mac = place[i]
      BY <1>1, <1>2, <1>3, <2>3, Bounds
    <3> QED
      BY <3>1, <2>3, Bounds DEF Places, Listed, Uses
  <2>4. CASE place[i] = None /\ place[j] \in macs
    <3>1. table[i].used /\ table[i].mac = place[j]
      BY <1>1, <1>2, <1>3, <2>4, Bounds
    <3> QED
      BY <3>1, <2>4, Bounds DEF Places, Listed, Uses
  <2> QED
    BY <2>1, <2>2, <2>3, <2>4
<1>4. ASSUME NEW n \in macs, \A i \in 1 .. Slots : ~(t(i).used /\ t(i).mac = n)
      PROVE  FALSE
  <2>1. ~Listed(n) /\ \A i \in 1 .. Slots : place[i] # n
    <3>1. \A i \in 1 .. Slots : place[i] # n
      BY <1>2, <1>4
    <3>2. ASSUME NEW i \in 1 .. Slots, Uses(i, n)
          PROVE  FALSE
      BY <1>1, <1>4, <3>2 DEF Uses
    <3> QED
      BY <3>1, <3>2 DEF Listed
  <2>2. \A i \in 1 .. Slots : table[i].used \/ place[i] # None
    BY <2>1 DEF Places
  <2>3. \A i \in 1 .. Slots : t(i).used
    BY <1>1, <1>2, <2>2
  <2>4. \A i \in 1 .. Slots : t(i).mac \in Nodes \ {n}
    <3> TAKE i \in 1 .. Slots
    <3>1. CASE place[i] = None
      <4>1. t(i) \in Entries
        BY <1>1, <2>3, <3>1, UsedIs, Bounds
      <4> QED
        BY <4>1, <2>3, <1>4 DEF Entries
    <3>2. CASE place[i] \in macs
      BY <1>2, <1>4, <3>2
    <3> QED
      BY <3>1, <3>2
  <2> DEFINE f == [i \in 1 .. Slots |-> t(i).mac]
  <2>5. f \in [1 .. Slots -> Nodes \ {n}]
    BY <2>4
  <2>6. IsFiniteSet(1 .. Slots) /\ Cardinality(1 .. Slots) = Slots
    <3>1. 1 \in Int /\ Slots \in Int /\ ~(1 > Slots) /\ Slots - 1 + 1 = Slots
      BY Bounds
    <3> QED
      BY <3>1, FS_Interval
  <2>7. IsFiniteSet(Nodes \ {n}) /\ Cardinality(Nodes \ {n}) < Slots
    <3>1. IsFiniteSet(Nodes) /\ Cardinality(Nodes) <= Slots
      BY RootPeersAssumption
    <3>2. Cardinality(Nodes) \in Nat
      BY <3>1, FS_CardinalityType
    <3>3. IsFiniteSet(Nodes \ {n}) /\ Cardinality(Nodes \ {n}) = Cardinality(Nodes) - 1
      BY <3>1, FS_RemoveElement
    <3> QED
      BY <3>1, <3>2, <3>3, Bounds
  <2>8. \E i, j \in 1 .. Slots : i # j /\ f[i] = f[j]
    <3> DEFINE S == 1 .. Slots
               T == Nodes \ {n}
    <3>1. IsFiniteSet(S) /\ IsFiniteSet(T) /\ Cardinality(T) < Cardinality(S)
      BY <2>6, <2>7
    <3>2. f \in [S -> T]
      BY <2>5
    <3>3. \E i, j \in S : i # j /\ f[i] = f[j]
      <4> HIDE DEF f, S, T
      <4> QED
        BY <3>1, <3>2, FS_PigeonHole
    <3> QED
      BY <3>3
  <2> QED
    BY <2>3, <2>8, <1>3
<1> QED
  BY <1>1, <1>3, <1>4

----------------------------------------------------------------------------
(* What a step leaves as it was *)

\* Slot i holds the same entry as before, as far as TIME is concerned.
SameTime(i) ==
  /\ table'[i].used /\ table'[i].mac = table[i].mac
  /\ table'[i].due = table[i].due /\ table'[i].wanted = table[i].wanted
  /\ table[i].dropped => table'[i].dropped

\* Entries are new, or as they were; those that go have no TIME on the link.
TimeSlots ==
  \A i \in 1 .. Slots :
    /\ table'[i].used =>
         \/ table'[i].wanted = NoTime /\ table'[i].due = NoTime
         \/ table[i].used /\ SameTime(i)
    /\ table[i].used => SameTime(i) \/ relTime[table[i].mac] = NoTime

\* Entries wait for no PONG that they did not wait for before.
PingSlots ==
  \A i \in 1 .. Slots : table'[i].used =>
    \/ ~table'[i].pending /\ ~table'[i].valid
    \/ /\ table[i].used /\ table'[i].mac = table[i].mac
       /\ table'[i].pending => table[i].pending /\ table'[i].pingId = table[i].pingId
       /\ table'[i].valid => table[i].valid
       /\ table'[i].late => table[i].late
       /\ table'[i].route \in {"up", table[i].route}

\* No slot changes its node.
SameNodes ==
  \A i \in 1 .. Slots :
    /\ table'[i].used => table[i].used
    /\ table[i].used => table'[i].used /\ table'[i].mac = table[i].mac

\* A routed entry keeps its slot.
RoutedKept ==
  \A i \in 1 .. Slots : table[i].used /\ table[i].route = "up" =>
    table'[i].used /\ table'[i].mac = table[i].mac

LEMMA NodesStay ==
  ASSUME TableTypes, Unique, SameNodes
  PROVE  /\ \A i, j \in 1 .. Slots :
              table'[i].used /\ table'[j].used /\ table'[i].mac = table'[j].mac => i = j
         /\ \A n \in Nodes : Listed(n) <=> Listed(n)'
  BY DEF SameNodes, Unique, Listed, Uses

\* A TIME on the link, or the link's loss of it.
LEMMA TimeStays ==
  ASSUME PeersInv, TimeSlots, LinkTypes', UNCHANGED <<boot, generation, uptime, clock>>,
         \A n \in Nodes : \/ relTime'[n] = relTime[n]
                          \/ /\ relTime'[n] = NoTime
                             /\ \A i \in 1 .. Slots :
                                  table'[i].used /\ table'[i].mac = n /\ table'[i].wanted # NoTime
                                  /\ relTime[n] # NoTime => table'[i].dropped
  PROVE  /\ TimeInv'
         /\ \A i \in 1 .. Slots : table'[i].used => table'[i].due \in {NoTime, table'[i].wanted}
<1> USE DEF PeersInv, TimeInv
<1>1. \A i \in 1 .. Slots : table'[i].used => table'[i].due \in {NoTime, table'[i].wanted}
  BY DEF TimeSlots, SameTime, Unique
<1>2. ASSUME NEW n \in Nodes, relTime'[n] # NoTime
      PROVE  \E i \in 1 .. Slots :
               table'[i].used /\ table'[i].mac = n /\ table'[i].wanted = relTime'[n]
  <2>1. relTime'[n] = relTime[n]
    BY <1>2
  <2>2. PICK i \in 1 .. Slots : Uses(i, n) /\ table[i].wanted = relTime[n]
    BY <1>2, <2>1 DEF TimeOnLink
  <2>3. SameTime(i)
    BY <1>2, <2>1, <2>2 DEF TimeSlots, Uses
  <2> QED
    BY <2>1, <2>2, <2>3 DEF SameTime, Uses
<1>3. ASSUME NEW i \in 1 .. Slots, table'[i].used, table'[i].wanted # NoTime
      PROVE  \/ table'[i].due = table'[i].wanted \/ relTime'[table'[i].mac] = table'[i].wanted
             \/ table'[i].dropped \/ Heard(clock'[table'[i].mac], table'[i].wanted, boot')
  <2>1. table[i].used /\ SameTime(i)
    BY <1>3 DEF TimeSlots
  <2>2. table[i].mac \in Nodes
    BY <2>1, UsedIs DEF Entries
  <2>3. \/ table[i].due = table[i].wanted \/ relTime[table[i].mac] = table[i].wanted
        \/ table[i].dropped \/ Heard(clock[table[i].mac], table[i].wanted, boot)
    BY <1>3, <2>1 DEF TimeKept, SameTime, Has, Mistakes, Heard
  <2>4. CASE relTime[table[i].mac] = table[i].wanted
    BY <1>3, <2>1, <2>2, <2>4 DEF SameTime
  <2> QED
    BY <2>1, <2>3, <2>4 DEF SameTime
<1>4. TimeKept'
  BY <1>3 DEF TimeKept, Has, Mistakes, Heard
<1>5. TimeOrder'
  <2>1. ASSUME NEW i \in 1 .. Slots, table'[i].used, table'[i].wanted # NoTime
        PROVE  /\ table[i].used /\ table[i].wanted # NoTime
               /\ table'[i].mac = table[i].mac /\ table'[i].wanted = table[i].wanted
    BY <2>1 DEF TimeSlots, SameTime
  <2> QED
    BY <2>1 DEF TimeOrder, Past
<1> QED
  BY <1>1, <1>2, <1>4, <1>5 DEF TimeOnLink, Uses

\* Pings that are sent already, or are marked as lost with their route.
LEMMA PingStays ==
  ASSUME PeersInv, PingSlots, boot' = boot, nextPing' = nextPing,
         poll' = poll \/ poll'.at # "ping",
         \A p \in pings' : \E q \in pings :
           /\ q.boot = p.boot /\ q.mac = p.mac /\ q.id = p.id
           /\ \A i \in 1 .. Slots :
                table'[i].used /\ table'[i].mac = p.mac /\ table'[i].pending /\ p.lost => q.lost
  PROVE  PingInv'
<1> USE DEF PeersInv, PingInv
<1>1. PingIds'
  BY DEF PingIds
<1>2. PongFresh'
  BY DEF PingSlots, PongFresh
<1>3. OnlyPing'
  BY DEF PingSlots, OnlyPing
<1>4. ASSUME NEW i \in 1 .. Slots, table'[i].used, table'[i].pending
      PROVE  /\ table'[i].route = "up"
             /\ \A p \in pings' :
                  p.boot = boot' /\ p.mac = table'[i].mac /\ p.id = table'[i].pingId => ~p.lost
  <2>1. /\ table[i].used /\ table[i].pending /\ table'[i].mac = table[i].mac
        /\ table'[i].pingId = table[i].pingId /\ table'[i].route \in {"up", table[i].route}
    BY <1>4 DEF PingSlots
  <2>2. table'[i].route = "up"
    BY <2>1 DEF PingRouted
  <2>3. ASSUME NEW p \in pings', p.boot = boot', p.mac = table'[i].mac,
               p.id = table'[i].pingId, p.lost
        PROVE  FALSE
    <3>1. PICK q \in pings :
            q.boot = p.boot /\ q.mac = p.mac /\ q.id = p.id /\ q.lost
      BY <1>4, <2>3
    <3> QED
      BY <2>1, <2>3, <3>1 DEF PingRouted
  <2> QED
    BY <2>2, <2>3
<1> QED
  BY <1>1, <1>2, <1>3, <1>4 DEF PingRouted

----------------------------------------------------------------------------
(* The receiving task *)

\* The link drops what it has queued for n, and says so in the entry of n.
LEMMA DropsSteady ==
  ASSUME PeersInv, NEW n \in Nodes, Drops(n)
  PROVE  /\ TableTypes' /\ SameNodes /\ TimeSlots /\ PingSlots
         /\ relTime' \in [Nodes -> Times \cup {NoTime}]
         /\ relTime'[n] = NoTime /\ \A m \in Nodes : m # n => relTime'[m] = relTime[m]
         /\ \A i \in 1 .. Slots :
              table'[i].used /\ table'[i].mac = n /\ relTime[n] # NoTime => table'[i].dropped
<1> DEFINE new(e) == [e EXCEPT !.dropped = @ \/ relTime[n] # NoTime]
<1>1. \A e \in Entries :
        /\ new(e) \in Entries /\ new(e).used /\ new(e).mac = e.mac /\ new(e).route = e.route
        /\ new(e).due = e.due /\ new(e).wanted = e.wanted
        /\ e.dropped => new(e).dropped
        /\ relTime[n] # NoTime => new(e).dropped
        /\ new(e).pending <=> e.pending
        /\ new(e).pingId = e.pingId
        /\ new(e).valid <=> e.valid
        /\ new(e).late <=> e.late
  <2> TAKE e \in Entries
  <2>1. PICK v \in BOOLEAN : v <=> (e.dropped \/ relTime[n] # NoTime)
    OBVIOUS
  <2>2. (e.dropped \/ relTime[n] # NoTime) = v
    BY <2>1
  <2>3. new(e) = [e EXCEPT !.dropped = v]
    BY <2>2 DEF Entries
  <2> HIDE DEF new
  <2> QED
    BY <2>1, <2>3 DEF Entries
<1>2. \A i \in 1 .. Slots :
        table'[i] = IF table[i].used /\ table[i].mac = n THEN new(table[i]) ELSE table[i]
  BY DEF Drops, Found, Uses
<1>3. DOMAIN table' = 1 .. Slots /\ table' = [i \in 1 .. Slots |-> table'[i]]
  BY DEF Drops
<1> HIDE DEF new
<1>4. \A i \in 1 .. Slots : table[i].used => table[i] \in Entries
  BY UsedIs DEF PeersInv
<1>5. TableTypes'
  <2>1. \A i \in 1 .. Slots : table'[i] \in {Free} \cup Entries
    BY <1>1, <1>2, <1>4, UsedIs DEF PeersInv
  <2> QED
    BY <1>3, <2>1 DEF TableTypes
<1>6. SameNodes
  BY <1>1, <1>2, <1>4 DEF SameNodes
<1>7. TimeSlots
  BY <1>1, <1>2, <1>4 DEF TimeSlots, SameTime
<1>8. PingSlots
  BY <1>1, <1>2, <1>4 DEF PingSlots
<1>9. \A i \in 1 .. Slots :
         table'[i].used /\ table'[i].mac = n /\ relTime[n] # NoTime => table'[i].dropped
  BY <1>1, <1>2, <1>4
<1> QED
  BY <1>5, <1>6, <1>7, <1>8, <1>9, Bounds DEF Drops, PeersInv, LinkTypes

\* A table nobody touched.
LEMMA TableSteady ==
  ASSUME PeersInv, table' = table
  PROVE  TableTypes' /\ SameNodes /\ TimeSlots /\ PingSlots
<1>1. \A i \in 1 .. Slots : table'[i] = table[i]
  OBVIOUS
<1> QED
  BY <1>1 DEF PeersInv, TableTypes, SameNodes, TimeSlots, PingSlots, SameTime, Unique

LEMMA PollIs ==
  ASSUME PeersInv
  PROVE  /\ LockFree => poll.at = "rest"
         /\ poll.at = "ping" => poll \in Pinging
         /\ poll.at = "prune" => poll \in Pruning
  BY DEF PeersInv, TaskTypes, LockFree, Resting, Pinging, Pruning

\* A node is bound, and it is noted or the HELLO_ACK was refused.
LEMMA BindsInv ==
  ASSUME PeersInv, NEW n \in Nodes, Binds(n), unanswered' \subseteq Nodes,
         upsets' \in 0 .. MaxUpsets, boot <= upsets' + 1, hello' \in {n, None},
         \A m \in Nodes : m \in unanswered /\ m # n => m \in unanswered',
         hello' = n \/ n \in unanswered'
  PROVE  PeersInv' /\ RoutedKept
<1>1. /\ TableTypes' /\ SameNodes /\ TimeSlots /\ PingSlots
      /\ relTime' \in [Nodes -> Times \cup {NoTime}]
      /\ \A m \in Nodes : \/ relTime'[m] = relTime[m]
                          \/ /\ relTime'[m] = NoTime
                             /\ \A i \in 1 .. Slots :
                                  table'[i].used /\ table'[i].mac = m /\ table'[i].wanted # NoTime
                                  /\ relTime[m] # NoTime => table'[i].dropped
  <2>1. CASE Drops(n)
    BY <2>1, DropsSteady
  <2>2. CASE UNCHANGED <<table, relTime>>
    BY <2>2, TableSteady DEF PeersInv, LinkTypes
  <2> QED
    BY <2>1, <2>2 DEF Binds
<1>2. LinkTypes' /\ TaskTypes' /\ ClockTypes'
  <2>1. LinkTypes' /\ ClockTypes'
    BY <1>1 DEF Binds, PeersInv, LinkTypes, ClockTypes
  <2> QED
    BY <2>1 DEF Binds, time, PeersInv, TaskTypes
<1>3. TimeInv' /\ Unique'
  <2>1. UNCHANGED <<boot, generation, uptime, clock>>
    BY DEF Binds, time
  <2> QED
    BY <1>1, <1>2, <2>1, TimeStays, NodesStay DEF Unique, PeersInv
<1>4. PingInv'
  BY <1>1, PingStays DEF Binds
<1>5. PruneForgot'
  BY PollIs DEF Binds, PruneForgot
<1>6. BoundIsListed'
  <2>1. \A m \in Nodes : Listed(m) => Listed(m)'
    BY <1>1, NodesStay DEF PeersInv
  <2> QED
    BY <2>1, Bounds DEF Binds, BoundIsListed, PeersInv, LinkTypes
<1> QED
  BY <1>1, <1>2, <1>3, <1>4, <1>5, <1>6 DEF RoutedKept, SameNodes, PeersInv

LEMMA RelHelloInv ==
  ASSUME PeersInv, NEW n \in Nodes, RelHello(n) \/ RelHelloUnanswered(n)
  PROVE  PeersInv' /\ RoutedKept
<1>1. /\ upsets \in 0 .. MaxUpsets /\ boot \in Nat /\ boot <= upsets + 1
      /\ unanswered \subseteq Nodes
  BY DEF PeersInv, TaskTypes
<1>2. CASE RelHello(n)
  <2>1. /\ Binds(n) /\ hello' = n /\ unanswered' = unanswered \ {n} /\ upsets' = upsets
    BY <1>2 DEF RelHello
  <2> QED
    BY <1>1, <2>1, BindsInv, Bounds
<1>3. CASE RelHelloUnanswered(n)
  <2>1. /\ Binds(n) /\ hello' = None /\ unanswered' = unanswered \cup {n}
        /\ upsets < MaxUpsets /\ upsets' = upsets + 1
    BY <1>3 DEF RelHelloUnanswered, Upset, Binds
  <2>2. upsets' \in 0 .. MaxUpsets /\ boot <= upsets' + 1
    BY <1>1, <2>1, Bounds
  <2> QED
    BY <1>1, <2>1, <2>2, BindsInv
<1> QED
  BY <1>2, <1>3

LEMMA HelloMetadataInv ==
  ASSUME PeersInv, HelloMetadata
  PROVE  PeersInv' /\ RoutedKept
<1>1. hello \in Nodes /\ hello # None
  BY DEF HelloMetadata, PeersInv, TaskTypes
<1>2. PICK place \in [1 .. Slots -> {hello, None}] :
        /\ Places(place, {hello})
        /\ table' = [i \in 1 .. Slots |->
                       IF Uses(i, hello) \/ place[i] = hello
                       THEN [Placed(place, i) EXCEPT !.caps = TRUE, !.route = "up"]
                       ELSE table[i]]
  BY DEF HelloMetadata
<1> DEFINE t(i) == Placed(place, i)
           new(e) == [e EXCEPT !.caps = TRUE, !.route = "up"]
<1>3. /\ \A i \in 1 .. Slots :
           \/ t(i) = table[i] /\ place[i] = None
           \/ ~table[i].used /\ place[i] = hello /\ t(i) = Entry(hello)
      /\ \A i, j \in 1 .. Slots : t(i).used /\ t(j).used /\ t(i).mac = t(j).mac => i = j
      /\ \E i \in 1 .. Slots : t(i).used /\ t(i).mac = hello
  <2> DEFINE M == {hello}
  <2>1. M \in SUBSET Nodes /\ place \in [1 .. Slots -> M \cup {None}] /\ Places(place, M)
    BY <1>1, <1>2
  <2>2. /\ \A i \in 1 .. Slots :
             \/ t(i) = table[i] /\ place[i] = None
             \/ ~table[i].used /\ place[i] \in M /\ t(i) = Entry(place[i])
        /\ \A i, j \in 1 .. Slots : t(i).used /\ t(j).used /\ t(i).mac = t(j).mac => i = j
        /\ \A n \in M : \E i \in 1 .. Slots : t(i).used /\ t(i).mac = n
    <3> HIDE DEF M
    <3> QED
      BY <2>1, Creates DEF PeersInv
  <2> HIDE DEF t
  <2> QED
    BY <2>2
<1>4. \A e \in Entries :
        /\ new(e) \in Entries /\ new(e).used /\ new(e).mac = e.mac /\ new(e).route = "up"
        /\ new(e).due = e.due /\ new(e).wanted = e.wanted
        /\ e.dropped <=> new(e).dropped
        /\ new(e).pending <=> e.pending
        /\ new(e).pingId = e.pingId
        /\ new(e).valid <=> e.valid
        /\ new(e).late <=> e.late
  BY DEF Entries
<1> HIDE DEF t, new
<1>5. /\ \A i \in 1 .. Slots :
           \/ ~table[i].used /\ table'[i] = table[i] /\ t(i) = table[i]
           \/ table[i].used /\ table'[i] = table[i] /\ t(i) = table[i] /\ table[i].mac # hello
           \/ table[i].used /\ table'[i] = new(table[i]) /\ t(i) = table[i]
           \/ ~table[i].used /\ t(i) = Entry(hello) /\ table'[i] = new(Entry(hello))
      /\ table' = [i \in 1 .. Slots |-> table'[i]]
  BY <1>1, <1>2, <1>3, Bounds DEF Uses, t, new
<1>6. \A i \in 1 .. Slots : table[i].used => table[i] \in Entries
  BY UsedIs DEF PeersInv
<1>7. TableTypes'
  <2>1. \A i \in 1 .. Slots : table'[i] \in {Free} \cup Entries
    BY <1>1, <1>4, <1>5, <1>6, EntryIs, UsedIs DEF PeersInv
  <2> QED
    BY <1>5, <2>1 DEF TableTypes
<1>8. \A i \in 1 .. Slots : /\ table'[i].used <=> t(i).used
                            /\ t(i).used => table'[i].mac = t(i).mac
  BY <1>1, <1>4, <1>5, <1>6, EntryIs
<1>9. TimeSlots /\ PingSlots
  <2>1. TimeSlots
    BY <1>1, <1>4, <1>5, <1>6, EntryIs DEF TimeSlots, SameTime
  <2>2. PingSlots
    BY <1>1, <1>4, <1>5, <1>6, EntryIs DEF PingSlots
  <2> QED
    BY <2>1, <2>2
<1>10. LinkTypes' /\ TaskTypes' /\ ClockTypes' /\ PruneForgot'
  BY DEF HelloMetadata, link, time, PeersInv, LinkTypes, TaskTypes, ClockTypes, PruneForgot
<1>11. TimeInv' /\ Unique'
  <2>1. relTime' = relTime /\ UNCHANGED <<boot, generation, uptime, clock>>
    BY DEF HelloMetadata, link, time
  <2>2. TimeInv' /\ \A i \in 1 .. Slots : table'[i].used => table'[i].due \in {NoTime, table'[i].wanted}
    BY <1>9, <1>10, <2>1, TimeStays
  <2> QED
    BY <1>3, <1>8, <2>2 DEF Unique
<1>12. PingInv'
  BY <1>9, PingStays DEF HelloMetadata
<1>13. BoundIsListed'
  <2>1. \A m \in Nodes : Listed(m) => Listed(m)'
    BY <1>4, <1>5, <1>6 DEF Listed, Uses
  <2>2. Listed(hello)' <=> \E i \in 1 .. Slots : table'[i].used /\ table'[i].mac = hello'
    BY DEF Listed, Uses
  <2>3. \E i \in 1 .. Slots : table'[i].used /\ table'[i].mac = hello
    BY <1>3, <1>8
  <2>4. rel' = rel
    BY DEF HelloMetadata, link
  <2> QED
    BY <2>1, <2>3, <2>4 DEF HelloMetadata, BoundIsListed, PeersInv, Listed, Uses
<1>14. RoutedKept
  BY <1>4, <1>5, <1>6 DEF RoutedKept
<1> QED
  BY <1>7, <1>10, <1>11, <1>12, <1>13, <1>14 DEF PeersInv

LEMMA PongInv ==
  ASSUME PeersInv, Pong
  PROVE  PeersInv' /\ RoutedKept
<1>1. PICK p \in pings, i \in 1 .. Slots :
        /\ p.boot = boot
        /\ Uses(i, p.mac) /\ Answers(table[i], p)
        /\ table' = [table EXCEPT ![i] = [@ EXCEPT !.pending = FALSE, !.valid = TRUE,
                                                   !.late = p.lost]]
  BY DEF Pong
<1> DEFINE new(e) == [e EXCEPT !.pending = FALSE, !.valid = TRUE, !.late = p.lost]
<1>2. p \in Ping /\ table[i] \in Entries
  BY <1>1, UsedIs DEF PeersInv, TaskTypes, Uses
<1>3. ~p.lost /\ table[i].route = "up"
  BY <1>1, <1>2 DEF PeersInv, PingInv, PingRouted, Uses, Answers
<1>4. /\ new(table[i]) \in Entries /\ new(table[i]).used
      /\ new(table[i]).mac = table[i].mac /\ new(table[i]).route = table[i].route
      /\ new(table[i]).due = table[i].due /\ new(table[i]).wanted = table[i].wanted
      /\ new(table[i]).dropped <=> table[i].dropped
      /\ ~new(table[i]).pending /\ ~new(table[i]).late
  <2> DEFINE e == table[i]
  <2>1. PICK v \in BOOLEAN : p.lost = v /\ ~v
    BY <1>2, <1>3 DEF Ping
  <2>2. new(e) = [e EXCEPT !.pending = FALSE, !.valid = TRUE, !.late = v]
    BY <2>1
  <2>3. e \in Entries
    BY <1>2
  <2> HIDE DEF e, new
  <2> QED
    BY <2>1, <2>2, <2>3 DEF Entries, e
<1> HIDE DEF new
<1>5. /\ table' = [j \in 1 .. Slots |-> table'[j]]
      /\ table'[i] = new(table[i])
      /\ \A j \in 1 .. Slots : j # i => table'[j] = table[j]
  <2>1. table' = [table EXCEPT ![i] = new(@)]
    BY <1>1 DEF new
  <2>2. table \in [1 .. Slots -> {Free} \cup Entries] /\ i \in 1 .. Slots
    BY <1>1 DEF PeersInv, TableTypes
  <2> QED
    BY <2>1, <2>2
<1>6. TableTypes'
  <2>1. \A j \in 1 .. Slots : table'[j] \in {Free} \cup Entries
    BY <1>4, <1>5 DEF PeersInv, TableTypes
  <2> QED
    BY <1>5, <2>1 DEF TableTypes
<1>7. SameNodes /\ TimeSlots
  <2>1. table[i].used
    BY <1>2 DEF Entries
  <2>2. SameTime(i)
    BY <1>4, <1>5 DEF SameTime
  <2>3. ASSUME NEW j \in 1 .. Slots, j # i, table[j].used
        PROVE  SameTime(j)
    BY <1>5, <2>3 DEF SameTime
  <2>4. SameNodes
    BY <1>4, <1>5, <2>1 DEF SameNodes
  <2>5. TimeSlots
    BY <1>5, <2>1, <2>2, <2>3 DEF TimeSlots
  <2> QED
    BY <2>4, <2>5
<1>8. /\ LinkTypes' /\ TaskTypes' /\ ClockTypes' /\ PruneForgot'
      /\ clock' = clock /\ relTime' = relTime /\ rel' = rel /\ hello' = hello
      /\ pings' = pings /\ boot' = boot /\ poll' = poll /\ nextPing' = nextPing
      /\ unanswered' = unanswered /\ generation' = generation /\ uptime' = uptime
  BY DEF Pong, link, tasks, time, PeersInv, LinkTypes, TaskTypes, ClockTypes, PruneForgot
<1>9. TimeInv' /\ Unique'
  BY <1>7, <1>8, TimeStays, NodesStay DEF Unique, PeersInv
<1>10. PingInv'
  <2>1. PongFresh'
    BY <1>3, <1>4, <1>5 DEF PeersInv, PingInv, PongFresh
  <2>2. OnlyPing'
    BY <1>4, <1>5 DEF PeersInv, PingInv, OnlyPing
  <2>3. PingRouted'
    BY <1>4, <1>5, <1>8 DEF PeersInv, PingInv, PingRouted
  <2> QED
    BY <1>8, <2>1, <2>2, <2>3 DEF PeersInv, PingInv, PingIds
<1>11. BoundIsListed'
  <2>1. \A m \in Nodes : Listed(m) => Listed(m)'
    BY <1>7, NodesStay DEF PeersInv
  <2> QED
    BY <1>8, <2>1 DEF PeersInv, BoundIsListed
<1> QED
  BY <1>7, <1>6, <1>8, <1>9, <1>10, <1>11 DEF RoutedKept, SameNodes, PeersInv

----------------------------------------------------------------------------
(* The application *)

LEMMA SyncRoutesInv ==
  ASSUME PeersInv, NEW macs \in SUBSET Nodes, SyncRoutes(macs)
  PROVE  PeersInv' /\ RoutedKept
<1>1. PICK place \in [1 .. Slots -> macs \cup {None}] :
        /\ Places(place, macs)
        /\ table' = [i \in 1 .. Slots |-> Synced(Placed(place, i), macs)]
  BY DEF SyncRoutes
<1> DEFINE t(i) == Placed(place, i)
<1>2. /\ \A i \in 1 .. Slots :
           \/ t(i) = table[i]
           \/ ~table[i].used /\ place[i] \in macs /\ t(i) = Entry(place[i])
      /\ \A i, j \in 1 .. Slots : t(i).used /\ t(j).used /\ t(i).mac = t(j).mac => i = j
  <2>1. /\ \A i \in 1 .. Slots :
             \/ t(i) = table[i] /\ place[i] = None
             \/ ~table[i].used /\ place[i] \in macs /\ t(i) = Entry(place[i])
        /\ \A i, j \in 1 .. Slots : t(i).used /\ t(j).used /\ t(i).mac = t(j).mac => i = j
        /\ \A n \in macs : \E i \in 1 .. Slots : t(i).used /\ t(i).mac = n
    BY <1>1, Creates DEF PeersInv
  <2> HIDE DEF t
  <2> QED
    BY <2>1
<1>3. \A i \in 1 .. Slots :
        /\ t(i) \in {Free} \cup Entries
        /\ t(i).used => t(i) \in Entries
        /\ ~t(i).used => t(i) = Free
  BY <1>2, UsedIs, EntryIs DEF PeersInv
<1>4. \A e \in Entries :
        /\ Synced(e, macs) \in Entries /\ Synced(e, macs).used /\ Synced(e, macs).mac = e.mac
        /\ Synced(e, macs).due = e.due /\ Synced(e, macs).wanted = e.wanted
        /\ e.dropped => Synced(e, macs).dropped
        /\ \/ ~Synced(e, macs).pending /\ ~Synced(e, macs).valid
           \/ /\ e.mac \in macs /\ Synced(e, macs).pingId = e.pingId
              /\ Synced(e, macs).pending => e.pending
              /\ Synced(e, macs).valid => e.valid
              /\ Synced(e, macs).late => e.late
              /\ Synced(e, macs).route = "up"
  <2> TAKE e \in Entries
  <2>1. CASE e.mac \in macs
    <3>1. Synced(e, macs) = [e EXCEPT !.route = "up"]
      BY <2>1 DEF Synced, Entries
    <3> QED
      BY <2>1, <3>1 DEF Entries
  <2>2. CASE e.mac \notin macs
    <3>1. Synced(e, macs) = Unroute(e)
      BY <2>2 DEF Synced, Entries
    <3> QED
      BY <3>1 DEF Entries, Unroute
  <2> QED
    BY <2>1, <2>2
<1>5. Synced(Free, macs) = Free
  BY FreeIs DEF Synced
<1>6. /\ table' = [i \in 1 .. Slots |-> table'[i]]
      /\ \A i \in 1 .. Slots : table'[i] = Synced(t(i), macs)
  BY <1>1
<1> HIDE DEF t
<1>7. \A i \in 1 .. Slots :
        \/ t(i) = Free /\ table'[i] = Free /\ ~t(i).used /\ ~table[i].used
        \/ t(i) \in Entries /\ t(i).used /\ table'[i] \in Entries /\ table'[i].used
  BY <1>2, <1>3, <1>4, <1>5, <1>6, FreeIs, EntryIs
<1>8. TableTypes'
  <2>1. \A i \in 1 .. Slots : table'[i] \in {Free} \cup Entries
    BY <1>7
  <2> QED
    BY <1>6, <2>1 DEF TableTypes
<1>9. TimeSlots
  BY <1>2, <1>3, <1>4, <1>6, <1>7, EntryIs, FreeIs DEF TimeSlots, SameTime
<1>10. PingSlots
  BY <1>2, <1>3, <1>4, <1>6, <1>7, EntryIs, FreeIs DEF PingSlots
<1>11. \A p \in pings' : \E q \in pings :
         /\ q.boot = p.boot /\ q.mac = p.mac /\ q.id = p.id
         /\ \A i \in 1 .. Slots :
              table'[i].used /\ table'[i].mac = p.mac /\ table'[i].pending /\ p.lost => q.lost
  <2>1. ASSUME NEW q \in pings
        PROVE  LET p == [q EXCEPT !.lost = @ \/ q.mac \notin macs]
               IN  /\ p \in Ping /\ q.boot = p.boot /\ q.mac = p.mac /\ q.id = p.id
                   /\ p.lost => q.lost \/ p.mac \notin macs
    <3>1. q \in Ping
      BY DEF PeersInv, TaskTypes
    <3>2. PICK v \in BOOLEAN : (q.lost \/ q.mac \notin macs) = v
      OBVIOUS
    <3>3. [q EXCEPT !.lost = @ \/ q.mac \notin macs] = [q EXCEPT !.lost = v]
      BY <3>1, <3>2 DEF Ping
    <3>4. /\ [q EXCEPT !.lost = v] \in Ping /\ [q EXCEPT !.lost = v].boot = q.boot
          /\ [q EXCEPT !.lost = v].mac = q.mac /\ [q EXCEPT !.lost = v].id = q.id
          /\ [q EXCEPT !.lost = v].lost <=> v
      BY <3>1 DEF Ping
    <3> QED
      BY <3>2, <3>3, <3>4
  <2>2. \A i \in 1 .. Slots : table'[i].used /\ table'[i].pending => table'[i].mac \in macs
    BY <1>4, <1>6, <1>7, FreeIs
  <2>3. pings' = {[q EXCEPT !.lost = @ \/ q.mac \notin macs] : q \in pings}
    BY DEF SyncRoutes
  <2> TAKE p \in pings'
  <2>4. PICK q \in pings : p = [q EXCEPT !.lost = @ \/ q.mac \notin macs]
    BY <2>3
  <2>5. /\ p \in Ping /\ q.boot = p.boot /\ q.mac = p.mac /\ q.id = p.id
        /\ p.lost => q.lost \/ p.mac \notin macs
    BY <2>1, <2>4
  <2> QED
    BY <2>2, <2>5
<1>12. pings' \subseteq Ping
  <2>1. ASSUME NEW q \in pings
        PROVE  [q EXCEPT !.lost = @ \/ q.mac \notin macs] \in Ping
    BY DEF PeersInv, TaskTypes, Ping
  <2> QED
    BY <2>1 DEF SyncRoutes
<1>13. TaskTypes' /\ LinkTypes' /\ ClockTypes'
  <2>1. upsets' \in {upsets, upsets + 1} /\ upsets' \in 0 .. MaxUpsets
    BY Bounds DEF SyncRoutes, Upset, PeersInv, TaskTypes
  <2> QED
    BY <1>12, <2>1 DEF SyncRoutes, tasks, time, PeersInv, TaskTypes, LinkTypes, ClockTypes
<1>14. TimeInv' /\ Unique'
  <2>1. relTime' = relTime /\ UNCHANGED <<boot, generation, uptime, clock>>
    BY DEF SyncRoutes, time
  <2>2. TimeInv' /\ \A i \in 1 .. Slots : table'[i].used => table'[i].due \in {NoTime, table'[i].wanted}
    BY <1>9, <1>13, <2>1, TimeStays
  <2>3. \A i \in 1 .. Slots : table'[i].used => t(i).used /\ table'[i].mac = t(i).mac
    BY <1>4, <1>6, <1>7, FreeIs
  <2> QED
    BY <1>2, <2>2, <2>3 DEF Unique, t
<1>15. PingInv'
  BY <1>10, <1>11, PingStays DEF SyncRoutes, tasks
<1>16. PruneForgot'
  BY PollIs DEF SyncRoutes, tasks, PruneForgot, PeersInv, LinkTypes
<1>17. BoundIsListed'
  <2>1. \A m \in Nodes : Listed(m) => Listed(m)'
    BY <1>2, <1>4, <1>6, <1>7 DEF Listed, Uses
  <2>2. \A m \in Nodes : rel'[m] = "ready" => rel[m] = "ready"
    BY DEF SyncRoutes
  <2> QED
    BY <2>1, <2>2 DEF PeersInv, BoundIsListed, SyncRoutes, tasks
<1>18. RoutedKept
  BY <1>2, <1>4, <1>6, <1>7 DEF RoutedKept
<1> QED
  BY <1>8, <1>13, <1>14, <1>15, <1>16, <1>17, <1>18 DEF PeersInv

\* The generation supersedes what waits and what is on the link.
LEMMA QueueInv ==
  ASSUME PeersInv, NEW macs \in SUBSET Nodes, NEW g \in Times, Queue(macs, g),
         generation <= g.gen, uptime <= g.up
  PROVE  PeersInv' /\ RoutedKept
<1> DEFINE new(e) == [e EXCEPT !.due = g, !.wanted = g, !.dropped = FALSE]
<1>0. g \in Times \cup {NoTime} /\ g.gen \in 0 .. MaxGen /\ g.up \in Uptimes
  BY TimesAre, Bounds
<1>1. \A e \in Entries :
        /\ new(e) \in Entries /\ new(e).used /\ new(e).mac = e.mac /\ new(e).route = e.route
        /\ new(e).due = g /\ new(e).wanted = g
        /\ new(e).pending <=> e.pending
        /\ new(e).pingId = e.pingId
        /\ new(e).valid <=> e.valid
        /\ new(e).late <=> e.late
  BY <1>0 DEF Entries
<1> HIDE DEF new
<1>2. /\ table' = [i \in 1 .. Slots |-> table'[i]]
      /\ \A i \in 1 .. Slots :
           table'[i] = IF table[i].used /\ table[i].mac \in macs THEN new(table[i]) ELSE table[i]
  BY DEF Queue, new
<1>3. \A i \in 1 .. Slots : table[i].used => table[i] \in Entries
  BY UsedIs DEF PeersInv
<1>4. TableTypes'
  <2>1. \A i \in 1 .. Slots : table'[i] \in {Free} \cup Entries
    BY <1>1, <1>2, <1>3, UsedIs DEF PeersInv
  <2> QED
    BY <1>2, <2>1 DEF TableTypes
<1>5. SameNodes /\ PingSlots
  BY <1>1, <1>2, <1>3 DEF SameNodes, PingSlots
<1>6. /\ LinkTypes' /\ TaskTypes' /\ ClockTypes'
      /\ UNCHANGED <<boot, clock, rel, hello, unanswered>>
      /\ generation' = g.gen /\ uptime' = g.up
      /\ \A n \in Nodes : relTime'[n] = IF n \in macs THEN NoTime ELSE relTime[n]
  <2>1. relTime' \in [Nodes -> Times \cup {NoTime}]
    BY <1>0 DEF Queue, PeersInv, LinkTypes
  <2> QED
    BY <1>0, <2>1 DEF Queue, tasks, PeersInv, LinkTypes, TaskTypes, ClockTypes
<1>7. PingInv'
  BY <1>5, PingStays DEF Queue, tasks
<1>8. PruneForgot'
  BY PollIs DEF Queue, tasks, PruneForgot
<1>9. BoundIsListed' /\ Unique'
  <2>1. /\ \A i, j \in 1 .. Slots :
             table'[i].used /\ table'[j].used /\ table'[i].mac = table'[j].mac => i = j
        /\ \A n \in Nodes : Listed(n) <=> Listed(n)'
    BY <1>5, NodesStay DEF PeersInv
  <2>2. \A i \in 1 .. Slots : table'[i].used => table'[i].due \in {NoTime, table'[i].wanted}
    BY <1>1, <1>2, <1>3 DEF PeersInv, Unique
  <2> QED
    BY <1>6, <2>1, <2>2 DEF PeersInv, BoundIsListed, Unique
<1>10. TimeOnLink'
  <2>1. ASSUME NEW n \in Nodes, relTime'[n] # NoTime
        PROVE  \E i \in 1 .. Slots :
                 table'[i].used /\ table'[i].mac = n /\ table'[i].wanted = relTime'[n]
    <3>1. n \notin macs /\ relTime'[n] = relTime[n]
      BY <1>6, <2>1
    <3>2. PICK i \in 1 .. Slots : Uses(i, n) /\ table[i].wanted = relTime[n]
      BY <2>1, <3>1 DEF PeersInv, TimeInv, TimeOnLink
    <3>3. table'[i] = table[i]
      BY <1>2, <3>1, <3>2 DEF Uses
    <3> QED
      BY <3>1, <3>2, <3>3 DEF Uses
  <2> QED
    BY <2>1 DEF TimeOnLink, Uses
<1>11. TimeKept'
  <2>1. ASSUME NEW i \in 1 .. Slots, table'[i].used, table'[i].wanted # NoTime
        PROVE  \/ table'[i].due = table'[i].wanted \/ relTime'[table'[i].mac] = table'[i].wanted
               \/ table'[i].dropped \/ Heard(clock'[table'[i].mac], table'[i].wanted, boot')
    <3>1. CASE table[i].used /\ table[i].mac \in macs
      BY <1>1, <1>2, <1>3, <3>1
    <3>2. CASE ~(table[i].used /\ table[i].mac \in macs)
      <4>1. table'[i] = table[i] /\ table[i].used /\ table[i].mac \notin macs
        BY <1>2, <2>1, <3>2
      <4>2. table[i].mac \in Nodes
        BY <1>3, <4>1 DEF Entries
      <4>3. relTime'[table[i].mac] = relTime[table[i].mac]
        BY <1>6, <4>1, <4>2
      <4> QED
        BY <1>6, <2>1, <4>1, <4>3 DEF PeersInv, TimeInv, TimeKept, Has, Mistakes, Heard
    <3> QED
      BY <3>1, <3>2
  <2> QED
    BY <2>1 DEF TimeKept, Has, Mistakes, Heard
<1>12. TimeOrder'
  <2>1. generation \in Nat /\ uptime \in Nat /\ g.gen \in Nat /\ g.up \in Nat
    BY TimesAre, Bounds DEF PeersInv, TaskTypes
  <2>2. ASSUME NEW n \in Nodes
        PROVE  (clock[n].heard = boot => clock[n].up <= g.up)
               /\ (clock[n].set = boot => clock[n].gen <= g.gen)
    <3>1. clock[n].up \in Nat /\ clock[n].gen \in Nat
      BY ClocksAre DEF PeersInv, ClockTypes
    <3>2. /\ clock[n].heard = boot => clock[n].up <= uptime
          /\ clock[n].set = boot => clock[n].gen <= generation
      BY DEF PeersInv, TimeInv, TimeOrder, Past, Time
    <3> QED
      BY <2>1, <3>1, <3>2
  <2>3. ASSUME NEW i \in 1 .. Slots, table'[i].used, table'[i].wanted # NoTime
        PROVE  /\ table'[i].wanted.gen <= g.gen /\ table'[i].wanted.up <= g.up
               /\ clock[table'[i].mac].heard = boot =>
                    clock[table'[i].mac].up <= table'[i].wanted.up
               /\ clock[table'[i].mac].set = boot =>
                    clock[table'[i].mac].gen <= table'[i].wanted.gen
    <3>1. CASE table[i].used /\ table[i].mac \in macs
      <4>1. table'[i].wanted = g /\ table'[i].mac = table[i].mac /\ table[i].mac \in Nodes
        BY <1>1, <1>2, <1>3, <3>1
      <4> QED
        BY <2>1, <2>2, <4>1
    <3>2. CASE ~(table[i].used /\ table[i].mac \in macs)
      <4>1. table'[i] = table[i] /\ table[i].used /\ table[i].wanted # NoTime
        BY <1>2, <2>3, <3>2
      <4>2. table[i].wanted \in Times
        BY <1>3, <4>1 DEF Entries
      <4>3. table[i].wanted.gen \in Nat /\ table[i].wanted.up \in Nat
        BY <4>2, TimesAre
      <4>4. /\ table[i].wanted.gen <= generation /\ table[i].wanted.up <= uptime
            /\ clock[table[i].mac].heard = boot =>
                 clock[table[i].mac].up <= table[i].wanted.up
            /\ clock[table[i].mac].set = boot =>
                 clock[table[i].mac].gen <= table[i].wanted.gen
        BY <4>1 DEF PeersInv, TimeInv, TimeOrder, Past
      <4> QED
        BY <2>1, <4>1, <4>3, <4>4
    <3> QED
      BY <3>1, <3>2
  <2> QED
    BY <1>6, <2>2, <2>3 DEF TimeOrder, Past, Time
<1> QED
  BY <1>5, <1>4, <1>6, <1>7, <1>8, <1>9, <1>10, <1>11, <1>12 DEF RoutedKept, SameNodes, PeersInv, TimeInv

LEMMA ApplicationInv ==
  ASSUME PeersInv, Application
  PROVE  PeersInv' /\ RoutedKept
<1>1. Capable \in SUBSET Nodes
  BY Bounds DEF Capable
<1>2. CASE QueueTimeAll
  <2>1. PICK up \in Uptimes : uptime <= up /\ Queue(Capable, Time(generation + 1, up))
    BY <1>2 DEF QueueTimeAll, Later
  <2> DEFINE t == Time(generation + 1, up)
  <2>2. t \in Times /\ generation <= t.gen /\ t.up = up
    BY <1>2, Bounds DEF QueueTimeAll, PeersInv, TaskTypes, Times, Time
  <2> HIDE DEF t
  <2> QED
    BY <1>1, <2>1, <2>2, QueueInv DEF t
<1>3. ASSUME NEW macs \in SUBSET Nodes, SyncRoutes(macs)
      PROVE  PeersInv' /\ RoutedKept
  BY <1>3, SyncRoutesInv
<1>4. ASSUME NEW n \in Nodes, QueueTime(n)
      PROVE  PeersInv' /\ RoutedKept
  <2>1. PICK up \in Uptimes : uptime <= up /\ Queue({n}, Time(generation, up))
    BY <1>4 DEF QueueTime, Later
  <2> DEFINE t == Time(generation, up)
  <2>2. t \in Times /\ generation <= t.gen /\ t.up = up
    BY <1>4, Bounds DEF QueueTime, PeersInv, TaskTypes, Times, Time
  <2>3. {n} \in SUBSET Nodes
    OBVIOUS
  <2> HIDE DEF t
  <2> QED
    BY <2>1, <2>2, <2>3, QueueInv DEF t
<1> QED
  BY <1>2, <1>3, <1>4 DEF Application

----------------------------------------------------------------------------
(* The polling task *)

LEMMA FlushTimeInv ==
  ASSUME PeersInv, FlushTime
  PROVE  PeersInv' /\ RoutedKept
<1>1. PICK i \in 1 .. Slots : table[i].used /\ table[i].due # NoTime /\ FlushSends(i)
  BY DEF FlushTime, Waiting
<1> DEFINE n == table[i].mac
           new == [table[i] EXCEPT !.due = NoTime]
<1>2. /\ table[i] \in Entries /\ n \in Nodes
      /\ table[i].wanted = table[i].due /\ table[i].wanted \in Times
  <2>1. table[i] \in Entries
    BY <1>1, UsedIs DEF PeersInv
  <2>2. table[i].wanted = table[i].due
    BY <1>1 DEF PeersInv, Unique
  <2> QED
    BY <1>1, <2>1, <2>2 DEF Entries
<1>3. /\ new \in Entries /\ new.used /\ new.mac = n /\ new.route = table[i].route
      /\ new.due = NoTime /\ new.wanted = table[i].wanted
      /\ new.dropped <=> table[i].dropped
      /\ new.pending <=> table[i].pending
      /\ new.pingId = table[i].pingId
      /\ new.valid <=> table[i].valid
      /\ new.late <=> table[i].late
  BY <1>2 DEF Entries
<1>4. /\ table' = [j \in 1 .. Slots |-> table'[j]]
      /\ table'[i] = new
      /\ \A j \in 1 .. Slots : j # i => table'[j] = table[j]
  BY <1>1 DEF FlushSends, PeersInv, TableTypes
<1>5. relTime' = [relTime EXCEPT ![n] = table[i].wanted]
  BY <1>1, <1>2 DEF FlushSends
<1> HIDE DEF new
<1>6. TableTypes'
  <2>1. \A j \in 1 .. Slots : table'[j] \in {Free} \cup Entries
    BY <1>3, <1>4 DEF PeersInv, TableTypes
  <2> QED
    BY <1>4, <2>1 DEF TableTypes
<1>7. SameNodes /\ PingSlots
  BY <1>1, <1>3, <1>4 DEF SameNodes, PingSlots
<1>8. /\ LinkTypes' /\ TaskTypes' /\ ClockTypes'
      /\ UNCHANGED <<boot, generation, uptime, clock, rel, hello, unanswered>>
  BY <1>2, <1>5 DEF FlushTime, tasks, time, PeersInv, LinkTypes, TaskTypes, ClockTypes
<1>9. PingInv'
  BY <1>7, PingStays DEF FlushTime, tasks
<1>10. PruneForgot'
  BY PollIs DEF FlushTime, tasks, PruneForgot
<1>11. BoundIsListed' /\ Unique'
  <2>1. /\ \A k, j \in 1 .. Slots :
             table'[k].used /\ table'[j].used /\ table'[k].mac = table'[j].mac => k = j
        /\ \A m \in Nodes : Listed(m) <=> Listed(m)'
    BY <1>7, NodesStay DEF PeersInv
  <2>2. \A j \in 1 .. Slots : table'[j].used => table'[j].due \in {NoTime, table'[j].wanted}
    BY <1>3, <1>4 DEF PeersInv, Unique
  <2> QED
    BY <1>8, <2>1, <2>2 DEF PeersInv, BoundIsListed, Unique
<1>12. TimeOnLink'
  <2>1. ASSUME NEW m \in Nodes, relTime'[m] # NoTime
        PROVE  \E j \in 1 .. Slots :
                 table'[j].used /\ table'[j].mac = m /\ table'[j].wanted = relTime'[m]
    <3>1. CASE m = n
      BY <1>2, <1>3, <1>4, <1>5, <3>1 DEF PeersInv, LinkTypes
    <3>2. CASE m # n
      <4>1. relTime'[m] = relTime[m]
        BY <1>2, <1>5, <3>2 DEF PeersInv, LinkTypes
      <4>2. PICK j \in 1 .. Slots : Uses(j, m) /\ table[j].wanted = relTime[m]
        BY <2>1, <4>1 DEF PeersInv, TimeInv, TimeOnLink
      <4>3. table'[j] = table[j]
        BY <1>4, <3>2, <4>2 DEF Uses
      <4> QED
        BY <4>1, <4>2, <4>3 DEF Uses
    <3> QED
      BY <3>1, <3>2
  <2> QED
    BY <2>1 DEF TimeOnLink, Uses
<1>13. TimeKept'
  <2>1. ASSUME NEW j \in 1 .. Slots, table'[j].used, table'[j].wanted # NoTime
        PROVE  \/ table'[j].due = table'[j].wanted \/ relTime'[table'[j].mac] = table'[j].wanted
               \/ table'[j].dropped \/ Heard(clock'[table'[j].mac], table'[j].wanted, boot')
    <3>1. CASE j = i
      BY <1>2, <1>3, <1>4, <1>5, <3>1 DEF PeersInv, LinkTypes
    <3>2. CASE j # i
      <4>1. table'[j] = table[j] /\ table[j].used
        BY <1>4, <2>1, <3>2
      <4>2. table[j].mac # n /\ table[j].mac \in Nodes
        BY <1>1, <3>2, <4>1, UsedIs DEF PeersInv, Unique, Entries
      <4>3. relTime'[table[j].mac] = relTime[table[j].mac]
        BY <1>2, <1>5, <4>2 DEF PeersInv, LinkTypes
      <4> QED
        BY <1>8, <2>1, <4>1, <4>3 DEF PeersInv, TimeInv, TimeKept, Has, Mistakes, Heard
    <3> QED
      BY <3>1, <3>2
  <2> QED
    BY <2>1 DEF TimeKept, Has, Mistakes, Heard
<1>14. TimeOrder'
  <2>1. \A j \in 1 .. Slots : table'[j].used =>
          table[j].used /\ table'[j].mac = table[j].mac /\ table'[j].wanted = table[j].wanted
    BY <1>1, <1>3, <1>4
  <2> QED
    BY <1>8, <2>1 DEF PeersInv, TimeInv, TimeOrder, Past
<1> QED
  BY <1>7, <1>6, <1>8, <1>9, <1>10, <1>11, <1>12, <1>13, <1>14 DEF RoutedKept, SameNodes, PeersInv, TimeInv

\* A step that keeps the nodes of the slots and touches neither TIME nor the link.
LEMMA TableStep ==
  ASSUME PeersInv, TableTypes', SameNodes, TimeSlots, TaskTypes', PingInv', PruneForgot',
         UNCHANGED <<boot, generation, uptime, rel, relTime, hello, unanswered, clock>>
  PROVE  PeersInv' /\ RoutedKept
<1>1. LinkTypes' /\ ClockTypes'
  BY DEF PeersInv, LinkTypes, ClockTypes
<1>2. TimeInv' /\ Unique'
  BY <1>1, TimeStays, NodesStay DEF Unique, PeersInv
<1>3. BoundIsListed'
  <2>1. \A m \in Nodes : Listed(m) => Listed(m)'
    BY NodesStay DEF PeersInv
  <2> QED
    BY <2>1 DEF PeersInv, BoundIsListed
<1> QED
  BY <1>1, <1>2, <1>3 DEF RoutedKept, SameNodes, PeersInv

\* The entries whose answer is overdue.
LEMMA TimedOutIs ==
  ASSUME PeersInv, NEW expired \in SUBSET PingOut
  PROVE  /\ TimedOut(expired) \in [1 .. Slots -> {Free} \cup Entries]
         /\ \A j \in 1 .. Slots :
              /\ ~table[j].used => TimedOut(expired)[j] = table[j]
              /\ table[j].used =>
                   LET e == TimedOut(expired)[j]
                   IN  /\ e \in Entries /\ e.used /\ e.mac = table[j].mac
                       /\ e.route = table[j].route
                       /\ e.due = table[j].due /\ e.wanted = table[j].wanted
                       /\ e.dropped <=> table[j].dropped
                       /\ \/ ~e.pending /\ ~e.valid
                          \/ e = table[j] /\ j \notin expired
                       /\ j \in expired => ~e.pending
<1> DEFINE new(e) == [e EXCEPT !.pending = FALSE, !.valid = FALSE]
<1>1. \A e \in Entries :
        /\ new(e) \in Entries /\ new(e).used /\ new(e).mac = e.mac /\ new(e).route = e.route
        /\ new(e).due = e.due /\ new(e).wanted = e.wanted
        /\ new(e).dropped <=> e.dropped
        /\ ~new(e).pending /\ ~new(e).valid
  BY DEF Entries
<1> HIDE DEF new
<1>2. \A j \in 1 .. Slots :
        TimedOut(expired)[j] = IF j \in expired THEN new(table[j]) ELSE table[j]
  BY DEF TimedOut, new
<1>3. \A j \in expired : j \in 1 .. Slots /\ table[j].used
  BY DEF PingOut
<1>4. \A j \in 1 .. Slots : table[j].used => table[j] \in Entries
  BY UsedIs DEF PeersInv
<1>5. \A e \in Entries : e.used
  BY DEF Entries
<1>6. TimedOut(expired) = [j \in 1 .. Slots |-> TimedOut(expired)[j]]
  BY DEF TimedOut
<1>7. \A j \in 1 .. Slots : TimedOut(expired)[j] \in {Free} \cup Entries
  BY <1>1, <1>2, <1>3, <1>4, UsedIs DEF PeersInv
<1>8. TimedOut(expired) \in [1 .. Slots -> {Free} \cup Entries]
  BY <1>6, <1>7
<1> QED
  BY <1>1, <1>2, <1>3, <1>4, <1>5, <1>8

LEMMA PingExpiresInv ==
  ASSUME PeersInv, PingExpires
  PROVE  PeersInv' /\ RoutedKept
<1>1. table' = TimedOut(PingOut) /\ PingOut \in SUBSET PingOut
  BY DEF PingExpires
<1>2. TableTypes' /\ SameNodes /\ TimeSlots /\ PingSlots
  BY <1>1, TimedOutIs DEF TableTypes, SameNodes, TimeSlots, SameTime, PingSlots
<1>3. PingInv'
  BY <1>2, PingStays DEF PingExpires, tasks
<1>4. TaskTypes' /\ PruneForgot'
  BY DEF PingExpires, tasks, link, time, PeersInv, TaskTypes, PruneForgot
<1> QED
  BY <1>2, <1>3, <1>4, TableStep DEF PingExpires, tasks, link, time

LEMMA PingMarkInv ==
  ASSUME PeersInv, NEW i \in 1 .. Slots, PingMark(i)
  PROVE  PeersInv' /\ RoutedKept
<1>1. PICK expired \in SUBSET PingOut :
        /\ PingOut \subseteq expired
        /\ table[i].used /\ table[i].route = "up"
        /\ table' = [TimedOut(expired) EXCEPT ![i] = [@ EXCEPT !.pending = TRUE,
                                                             !.pingId = nextPing]]
  BY DEF PingMark, MayPing
<1> DEFINE t == TimedOut(expired)
           new(e) == [e EXCEPT !.pending = TRUE, !.pingId = nextPing]
<1>2. nextPing \in Nat /\ nextPing <= MaxPings /\ nextPing >= 1
  BY Bounds DEF PingMark, PeersInv, TaskTypes
<1>3. \A e \in Entries :
        /\ new(e) \in Entries /\ new(e).used /\ new(e).mac = e.mac /\ new(e).route = e.route
        /\ new(e).due = e.due /\ new(e).wanted = e.wanted
        /\ new(e).dropped <=> e.dropped
        /\ new(e).valid <=> e.valid
        /\ new(e).late <=> e.late
        /\ new(e).pingId = nextPing
  BY <1>2 DEF Entries
<1> HIDE DEF new
<1>4. /\ t \in [1 .. Slots -> {Free} \cup Entries]
      /\ t[i] \in Entries
      /\ \A j \in 1 .. Slots :
           /\ ~table[j].used => t[j] = table[j]
           /\ table[j].used =>
                /\ t[j] \in Entries /\ t[j].used /\ t[j].mac = table[j].mac
                /\ t[j].route = table[j].route
                /\ t[j].due = table[j].due /\ t[j].wanted = table[j].wanted
                /\ t[j].dropped <=> table[j].dropped
                /\ t[j].valid => table[j].valid /\ (t[j].late <=> table[j].late)
                /\ ~t[j].pending
  <2>1. \A j \in 1 .. Slots : table[j].used /\ table[j].pending => j \in expired
    BY <1>1 DEF PingOut
  <2> HIDE DEF t
  <2> QED
    BY <1>1, <2>1, TimedOutIs DEF t
<1>5. /\ table' = [j \in 1 .. Slots |-> table'[j]]
      /\ table'[i] = new(t[i])
      /\ \A j \in 1 .. Slots : j # i => table'[j] = t[j]
  <2> HIDE DEF t
  <2> QED
    BY <1>1, <1>4 DEF t, new
<1> HIDE DEF t
<1>6. TableTypes'
  <2>1. \A j \in 1 .. Slots : table'[j] \in {Free} \cup Entries
    BY <1>3, <1>4, <1>5
  <2> QED
    BY <1>5, <2>1 DEF TableTypes
<1>7. /\ table[i].used /\ table[i].route = "up"
      /\ \A j \in 1 .. Slots :
           /\ ~table[j].used => ~table'[j].used
           /\ table[j].used =>
                /\ table'[j].used /\ table'[j].mac = table[j].mac
                /\ table'[j].route = table[j].route
                /\ table'[j].due = table[j].due /\ table'[j].wanted = table[j].wanted
                /\ table'[j].dropped <=> table[j].dropped
                /\ table'[j].valid => table[j].valid /\ (table'[j].late <=> table[j].late)
  <2>1. table[i].used /\ table[i].route = "up"
    BY <1>1
  <2> QED
    BY <2>1, <1>3, <1>4, <1>5
<1>8. SameNodes /\ TimeSlots
  BY <1>7 DEF SameNodes, TimeSlots, SameTime
<1>9. poll' \in Pinging /\ poll'.at = "ping" /\ poll'.id = nextPing
  <2>1. table[i].mac \in Nodes
    BY <1>1, UsedIs DEF PeersInv, Entries
  <2> QED
    BY <1>2, <2>1 DEF PingMark, Pinging
<1>10. TaskTypes' /\ PruneForgot'
  BY <1>2, <1>9, Bounds DEF PingMark, time, PeersInv, TaskTypes, PruneForgot
<1>11. /\ boot' = boot /\ pings' = pings /\ nextPing' = nextPing + 1
       /\ UNCHANGED <<generation, uptime, rel, relTime, hello, unanswered, clock>>
  BY DEF PingMark, link, time
<1>12. PingInv'
  <2>1. \A p \in pings : p.boot \in Nat /\ p.id \in Nat
    BY DEF PeersInv, TaskTypes, Ping
  <2>2. PingIds'
    BY <1>2, <1>9, <1>11, <2>1 DEF PeersInv, PingInv, PingIds
  <2>3. OnlyPing'
    BY <1>3, <1>4, <1>5 DEF OnlyPing
  <2>4. PingRouted'
    <3>1. \A j \in 1 .. Slots : table'[j].used /\ table'[j].pending => j = i
      BY <1>4, <1>5
    <3>2. table'[i].route = "up" /\ table'[i].pingId = nextPing
      BY <1>3, <1>4, <1>5, <1>7
    <3>3. \A p \in pings : p.boot = boot => p.id # nextPing
      BY <1>2, <2>1 DEF PeersInv, PingInv, PingIds
    <3> QED
      BY <3>1, <3>2, <3>3, <1>11 DEF PingRouted
  <2>5. PongFresh'
    BY <1>7 DEF PeersInv, PingInv, PongFresh
  <2> QED
    BY <2>2, <2>3, <2>4, <2>5 DEF PingInv
<1> QED
  BY <1>6, <1>10, <1>11, <1>12, <1>8, TableStep

LEMMA PingSendInv ==
  ASSUME PeersInv, PingSend
  PROVE  PeersInv' /\ RoutedKept
<1> DEFINE new == [mac |-> poll.mac, id |-> poll.id, boot |-> boot, lost |-> FALSE]
<1>1. poll \in Pinging /\ poll.id < nextPing
  BY PollIs DEF PingSend, PeersInv, PingInv, PingIds
<1>2. new \in Ping /\ new.boot = boot /\ new.id = poll.id /\ ~new.lost
  BY <1>1 DEF PeersInv, TaskTypes, Pinging, Ping
<1> HIDE DEF new
<1>3. /\ pings' = pings \cup {new} /\ poll' = Resting /\ table' = table
      /\ UNCHANGED <<boot, upsets, generation, uptime, nextPing, hello, unanswered, rel,
                     relTime, clock>>
  BY DEF PingSend, link, time, new
<1>4. poll'.at # "ping" /\ poll'.at # "prune"
  BY <1>3 DEF Resting
<1>5. TaskTypes' /\ PruneForgot'
  BY <1>2, <1>3, <1>4 DEF PeersInv, TaskTypes, PruneForgot
<1>6. PingInv'
  BY <1>1, <1>2, <1>3, <1>4
     DEF PeersInv, TaskTypes, PingInv, PingIds, PingRouted, OnlyPing, PongFresh
<1> QED
  BY <1>3, <1>5, <1>6, TableSteady, TableStep

LEMMA PingFailsInv ==
  ASSUME PeersInv, PingFails
  PROVE  PeersInv' /\ RoutedKept
<1> DEFINE new(e) == [e EXCEPT !.pending = FALSE]
<1>1. \A e \in Entries :
        /\ new(e) \in Entries /\ new(e).used /\ new(e).mac = e.mac /\ new(e).route = e.route
        /\ new(e).due = e.due /\ new(e).wanted = e.wanted
        /\ new(e).dropped <=> e.dropped
        /\ ~new(e).pending
        /\ new(e).pingId = e.pingId
        /\ new(e).valid <=> e.valid
        /\ new(e).late <=> e.late
  BY DEF Entries
<1> HIDE DEF new
<1>2. /\ table' = [i \in 1 .. Slots |-> table'[i]]
      /\ \A i \in 1 .. Slots : \/ table'[i] = table[i]
                               \/ table[i].used /\ table'[i] = new(table[i])
  BY DEF PingFails, Found, Uses, new
<1>3. \A i \in 1 .. Slots : table[i].used => table[i] \in Entries
  BY UsedIs DEF PeersInv
<1>4. TableTypes'
  <2>1. \A i \in 1 .. Slots : table'[i] \in {Free} \cup Entries
    BY <1>1, <1>2, <1>3, UsedIs DEF PeersInv
  <2> QED
    BY <1>2, <2>1 DEF TableTypes
<1>5. SameNodes /\ PingSlots
  BY <1>1, <1>2, <1>3 DEF SameNodes, PingSlots
<1>6. TimeSlots
  BY <1>1, <1>2, <1>3 DEF TimeSlots, SameTime
<1>7. poll' = Resting /\ poll'.at # "ping" /\ poll'.at # "prune"
  BY DEF PingFails, Resting
<1>8. TaskTypes' /\ PruneForgot'
  BY <1>7 DEF PingFails, time, link, PeersInv, TaskTypes, PruneForgot
<1>9. PingInv'
  BY <1>5, <1>7, PingStays DEF PingFails
<1> QED
  BY <1>4, <1>5, <1>6, <1>8, <1>9, TableStep DEF PingFails, link, time

LEMMA PruneLinkInv ==
  ASSUME PeersInv, NEW i \in 1 .. Slots, PruneLink(i)
  PROVE  PeersInv' /\ RoutedKept
<1> DEFINE n == table[i].mac
<1>1. table[i].used /\ n \in Nodes
  <2>1. table[i] \in Entries /\ table[i].used
    BY UsedIs DEF PruneLink, PeersInv
  <2> QED
    BY <2>1 DEF Entries
<1>2. /\ rel' = [rel EXCEPT ![n] = "absent"] /\ relTime[n] = NoTime
      /\ poll' = [at |-> "prune", slot |-> i, mac |-> n]
      /\ UNCHANGED <<boot, upsets, table, generation, uptime, nextPing, hello, unanswered,
                     relTime, pings, clock>>
  BY DEF PruneLink, time, Goes, Removes
<1> HIDE DEF n
<1>3. poll' \in Pruning /\ poll'.at = "prune" /\ poll'.mac = n
  BY <1>1, <1>2 DEF Pruning
<1>4. LinkTypes' /\ TaskTypes' /\ ClockTypes' /\ PruneForgot'
  BY <1>1, <1>2, <1>3 DEF PeersInv, LinkTypes, TaskTypes, ClockTypes, PruneForgot
<1>5. TableTypes' /\ SameNodes /\ TimeSlots /\ PingSlots
  BY <1>2, TableSteady
<1>6. TimeInv' /\ Unique'
  BY <1>2, <1>4, <1>5, TimeStays, NodesStay DEF Unique, PeersInv
<1>7. PingInv'
  BY <1>2, <1>3, <1>5, PingStays
<1>8. BoundIsListed'
  <2>1. \A m \in Nodes : Listed(m) => Listed(m)'
    BY <1>5, NodesStay DEF PeersInv
  <2>2. \A m \in Nodes : rel'[m] = "ready" => rel[m] = "ready"
    BY <1>1, <1>2 DEF PeersInv, LinkTypes
  <2> QED
    BY <1>2, <2>1, <2>2 DEF PeersInv, BoundIsListed
<1> QED
  BY <1>4, <1>5, <1>6, <1>7, <1>8 DEF RoutedKept, SameNodes, PeersInv

\* The entry that goes is of a node the link does not know any more.
LEMMA PruneEntryInv ==
  ASSUME PeersInv, PruneEntry
  PROVE  PeersInv' /\ RoutedKept
<1>1. poll \in Pruning /\ rel[poll.mac] = "absent" /\ relTime[poll.mac] = NoTime
  BY PollIs DEF PruneEntry, PeersInv, PruneForgot
<1>2. poll' = Resting /\ poll'.at # "ping" /\ poll'.at # "prune"
  BY DEF PruneEntry, Resting
<1>3. UNCHANGED <<boot, upsets, generation, uptime, nextPing, hello, unanswered, rel, relTime,
                  pings, clock>>
  BY DEF PruneEntry, link, time
<1>4. LinkTypes' /\ TaskTypes' /\ ClockTypes' /\ PruneForgot'
  BY <1>2, <1>3 DEF PeersInv, LinkTypes, TaskTypes, ClockTypes, PruneForgot
<1>5. /\ table' = [i \in 1 .. Slots |-> table'[i]]
      /\ \A i \in 1 .. Slots :
           \/ table'[i] = table[i]
           \/ /\ table'[i] = Free /\ table[i].used /\ table[i].mac = poll.mac
              /\ table[i].route = "down"
  <2>1. poll.slot \in 1 .. Slots /\ table = [i \in 1 .. Slots |-> table[i]]
    BY <1>1 DEF Pruning, PeersInv, TableTypes
  <2>2. CASE StillDown(poll.slot, poll.mac)
    <3>1. table' = [table EXCEPT ![poll.slot] = Free]
      BY <2>2 DEF PruneEntry
    <3> QED
      BY <2>1, <2>2, <3>1 DEF StillDown, Uses
  <2>3. CASE ~StillDown(poll.slot, poll.mac)
    <3>1. table' = table
      BY <2>3 DEF PruneEntry
    <3> QED
      BY <2>1, <3>1
  <2> QED
    BY <2>2, <2>3
<1>6. TableTypes'
  <2>1. \A i \in 1 .. Slots : table'[i] \in {Free} \cup Entries
    BY <1>5 DEF PeersInv, TableTypes
  <2> QED
    BY <1>5, <2>1 DEF TableTypes
<1>7. TimeSlots /\ PingSlots
  BY <1>1, <1>5, FreeIs DEF TimeSlots, SameTime, PingSlots
<1>8. TimeInv' /\ \A i \in 1 .. Slots : table'[i].used => table'[i].due \in {NoTime, table'[i].wanted}
  BY <1>3, <1>4, <1>7, TimeStays
<1>9. Unique'
  BY <1>5, <1>8, FreeIs DEF PeersInv, Unique
<1>10. PingInv'
  BY <1>2, <1>3, <1>7, PingStays
<1>11. BoundIsListed'
  <2>1. ASSUME NEW m \in Nodes, rel'[m] = "ready"
        PROVE  Listed(m)' \/ hello' = m \/ m \in unanswered'
    <3>1. m # poll.mac /\ (Listed(m) \/ hello = m \/ m \in unanswered)
      BY <1>1, <1>3, <2>1 DEF PeersInv, BoundIsListed
    <3> QED
      BY <1>3, <1>5, <3>1 DEF Listed, Uses
  <2> QED
    BY <2>1 DEF BoundIsListed
<1>12. RoutedKept
  BY <1>5 DEF RoutedKept
<1> QED
  BY <1>4, <1>6, <1>8, <1>9, <1>10, <1>11, <1>12 DEF PeersInv

LEMMA PollingInv ==
  ASSUME PeersInv, Polling
  PROVE  PeersInv' /\ RoutedKept
  BY FlushTimeInv, PingExpiresInv, PingSendInv, PingFailsInv, PruneEntryInv, PingMarkInv,
     PruneLinkInv DEF Polling

----------------------------------------------------------------------------
(* The other end and the world *)

\* TIME that arrives sets the clock, or the node goes on taking this boot for an earlier
\* one: within a boot the uptime never falls, so that only the first TIME of a boot can
\* show a restart, and if it did the node counts the generations from there.
LEMMA AppliedIs ==
  ASSUME PeersInv, NEW t \in Times, NEW c \in Clocks,
         c.set <= c.heard, c.heard <= boot,
         c.heard = boot /\ c.set # boot => c.hidden, Past(c, t)
  PROVE  LET d == Applied(c, t)
         IN  /\ d \in Clocks /\ d.set <= d.heard /\ d.heard = boot /\ d.up = t.up
             /\ d.set # boot => d.hidden
             /\ d.set = boot => d.gen = t.gen
             /\ Heard(d, t, boot)
<1> DEFINE d == Applied(c, t)
           last == IF Restarted(c, t.up) THEN 0 ELSE c.gen
           shows == t.up # 0 /\ t.up + RestartSlack < c.up
<1>1. /\ c.gen \in Nat /\ c.gen \in 0 .. MaxGen /\ c.up \in Nat /\ c.set \in Nat
      /\ c.heard \in Nat /\ boot \in Nat
      /\ t.gen \in Nat /\ t.gen >= 1 /\ t.gen \in 0 .. MaxGen
      /\ t.up \in Nat /\ t.up \in Uptimes /\ RestartSlack \in Nat
  BY TimesAre, ClocksAre, Bounds DEF PeersInv, TaskTypes
<1>2. /\ c.heard = boot => c.up <= t.up
      /\ c.set = boot => c.heard = boot /\ c.gen <= t.gen
  BY <1>1 DEF Past
<1>3. Restarted(c, t.up) <=> c.gen # 0 /\ shows
  BY <1>1 DEF Restarted
<1>4. CASE ~(t.gen <= last)
  <2>1. d = [gen |-> t.gen, up |-> t.up, set |-> boot, heard |-> boot, hidden |-> FALSE]
    BY <1>4 DEF Applied
  <2> HIDE DEF d
  <2>2. d \in Clocks
    BY <1>1, <2>1 DEF Clocks
  <2> QED
    BY <1>1, <2>1, <2>2 DEF Heard, d
<1>5. CASE t.gen <= last
  <2>1. ~Restarted(c, t.up) /\ last = c.gen /\ c.gen # 0 /\ ~shows /\ t.gen <= c.gen
    BY <1>1, <1>3, <1>5
  <2>2. PICK v \in BOOLEAN : v = IF c.heard = boot THEN c.hidden ELSE ~shows
    <3>1. c.hidden \in BOOLEAN
      BY DEF Clocks
    <3> QED
      BY <3>1
  <2>3. c.set # boot => v
    BY <2>1, <2>2
  <2>4. d = [c EXCEPT !.gen = c.gen, !.up = t.up, !.heard = boot, !.hidden = v]
    <3>1. d = [c EXCEPT !.gen = last, !.up = t.up, !.heard = boot,
                        !.hidden = IF c.heard = boot THEN c.hidden ELSE ~shows]
      BY <1>5 DEF Applied, Clocks
    <3> QED
      BY <2>1, <2>2, <3>1
  <2> HIDE DEF d
  <2>5. d \in Clocks /\ d.gen = c.gen /\ d.up = t.up /\ d.heard = boot /\ d.set = c.set
        /\ (d.hidden <=> v)
    BY <1>1, <2>4 DEF Clocks
  <2>6. c.set <= boot /\ (c.set # boot => c.set < boot)
    BY <1>1
  <2>7. c.set = boot => c.gen = t.gen
    BY <1>1, <1>2, <2>1
  <2> QED
    BY <1>1, <2>1, <2>3, <2>5, <2>6, <2>7 DEF Heard, d
<1> QED
  BY <1>4, <1>5

LEMMA TimeArrivesInv ==
  ASSUME PeersInv, NEW n \in Nodes, TimeArrives(n)
  PROVE  PeersInv' /\ RoutedKept
<1> DEFINE t == relTime[n]
           d == Applied(clock[n], t)
<1>1. t \in Times
  BY DEF TimeArrives, PeersInv, LinkTypes
<1>2. PICK j \in 1 .. Slots : Uses(j, n) /\ table[j].wanted = t
  BY DEF TimeArrives, PeersInv, TimeInv, TimeOnLink
<1>3. Past(clock[n], t) /\ t.gen <= generation /\ t.up <= uptime
  <2>1. table[j].used /\ table[j].wanted # NoTime /\ table[j].mac = n
    BY <1>2 DEF TimeArrives, Uses
  <2> QED
    BY <1>2, <2>1 DEF PeersInv, TimeInv, TimeOrder
<1>4. /\ d \in Clocks /\ d.set <= d.heard /\ d.heard = boot /\ d.up = t.up
      /\ d.set # boot => d.hidden
      /\ d.set = boot => d.gen = t.gen
      /\ Heard(d, t, boot)
  <2>1. /\ clock[n] \in Clocks /\ clock[n].set <= clock[n].heard /\ clock[n].heard <= boot
        /\ clock[n].heard = boot /\ clock[n].set # boot => clock[n].hidden
    BY DEF PeersInv, ClockTypes
  <2> QED
    BY <1>1, <1>3, <2>1, AppliedIs
<1>5. /\ clock' = [clock EXCEPT ![n] = d]
      /\ relTime' = [relTime EXCEPT ![n] = NoTime] /\ table' = table
      /\ UNCHANGED <<boot, upsets, generation, uptime, nextPing, poll, hello, unanswered, rel,
                     pings>>
  BY DEF TimeArrives, tasks, time
<1> HIDE DEF t, d
<1>6. clock'[n] = d /\ \A m \in Nodes : m # n => clock'[m] = clock[m]
  BY <1>5 DEF PeersInv, ClockTypes
<1>7. ClockTypes'
  <2>1. clock' \in [Nodes -> Clocks]
    BY <1>4, <1>5 DEF PeersInv, ClockTypes
  <2>2. d.heard <= boot
    BY <1>4 DEF PeersInv, TaskTypes
  <2> QED
    BY <1>4, <1>5, <1>6, <2>1, <2>2 DEF PeersInv, ClockTypes
<1>8. LinkTypes' /\ TaskTypes' /\ TableTypes'
  BY <1>5 DEF PeersInv, LinkTypes, TaskTypes, TableTypes
<1>9. PruneForgot'
  BY <1>5, PollIs DEF TimeArrives, PruneForgot
<1>10. PingInv'
  BY <1>5, TableSteady, PingStays
<1>11. Unique' /\ BoundIsListed'
  BY <1>5 DEF PeersInv, Unique, BoundIsListed, Listed, Uses
<1>12. TimeOnLink'
  <2>1. ASSUME NEW m \in Nodes, relTime'[m] # NoTime
        PROVE  \E i \in 1 .. Slots : Uses(i, m) /\ table[i].wanted = relTime'[m]
    BY <1>5, <2>1 DEF PeersInv, LinkTypes, TimeInv, TimeOnLink
  <2> QED
    BY <1>5, <2>1 DEF TimeOnLink, Uses
<1>13. \A i \in 1 .. Slots : table[i].used /\ table[i].mac = n => table[i].wanted = t
  BY <1>2 DEF PeersInv, Unique, Uses
<1>14. TimeKept'
  <2>1. ASSUME NEW i \in 1 .. Slots, table[i].used, table[i].wanted # NoTime
        PROVE  \/ table[i].due = table[i].wanted \/ relTime'[table[i].mac] = table[i].wanted
               \/ table[i].dropped \/ Heard(clock'[table[i].mac], table[i].wanted, boot)
    <3>1. table[i].mac \in Nodes
      BY <2>1, UsedIs DEF PeersInv, Entries
    <3>2. CASE table[i].mac = n
      BY <1>4, <1>6, <1>13, <2>1, <3>2
    <3>3. CASE table[i].mac # n
      <4>1. relTime'[table[i].mac] = relTime[table[i].mac]
        BY <1>5, <3>1, <3>3 DEF PeersInv, LinkTypes
      <4>2. clock'[table[i].mac] = clock[table[i].mac]
        BY <1>6, <3>1, <3>3
      <4> QED
        BY <2>1, <4>1, <4>2 DEF PeersInv, TimeInv, TimeKept, Has, Mistakes, Heard
    <3> QED
      BY <3>2, <3>3
  <2> QED
    BY <1>5, <2>1 DEF TimeKept, Has, Mistakes, Heard
<1>15. TimeOrder'
  <2>1. t.gen \in Nat /\ t.up \in Nat
    BY <1>1, TimesAre
  <2>2. Past(d, t) /\ Past(d, Time(generation, uptime))
    BY <1>3, <1>4, <2>1 DEF Past, Time
  <2>3. \A m \in Nodes : Past(clock'[m], Time(generation, uptime))
    BY <1>6, <2>2 DEF PeersInv, TimeInv, TimeOrder
  <2>4. ASSUME NEW i \in 1 .. Slots, table[i].used, table[i].wanted # NoTime
        PROVE  /\ table[i].wanted.gen <= generation /\ table[i].wanted.up <= uptime
               /\ Past(clock'[table[i].mac], table[i].wanted)
    <3>1. table[i].mac \in Nodes
      BY <2>4, UsedIs DEF PeersInv, Entries
    <3> QED
      BY <1>6, <1>13, <2>2, <2>4, <3>1 DEF PeersInv, TimeInv, TimeOrder
  <2> QED
    BY <1>5, <2>3, <2>4 DEF TimeOrder, Past
<1> QED
  BY <1>5, <1>7, <1>8, <1>9, <1>10, <1>11, <1>12, <1>14, <1>15 DEF RoutedKept, PeersInv, TimeInv

LEMMA LinkLostInv ==
  ASSUME PeersInv, NEW n \in Nodes, LinkLost(n)
  PROVE  PeersInv' /\ RoutedKept
<1>1. /\ TableTypes' /\ SameNodes /\ TimeSlots /\ PingSlots
      /\ relTime' \in [Nodes -> Times \cup {NoTime}]
      /\ \A m \in Nodes : \/ relTime'[m] = relTime[m]
                          \/ /\ relTime'[m] = NoTime
                             /\ \A i \in 1 .. Slots :
                                  table'[i].used /\ table'[i].mac = m /\ table'[i].wanted # NoTime
                                  /\ relTime[m] # NoTime => table'[i].dropped
  BY DropsSteady DEF LinkLost
<1>2. /\ rel' = [rel EXCEPT ![n] = "known"] /\ upsets' = upsets + 1 /\ upsets < MaxUpsets
      /\ UNCHANGED <<boot, generation, uptime, nextPing, poll, hello, unanswered, pings, clock>>
  BY DEF LinkLost, Upset, tasks, time
<1>3. LinkTypes' /\ TaskTypes' /\ ClockTypes'
  BY <1>1, <1>2, Bounds DEF PeersInv, LinkTypes, TaskTypes, ClockTypes
<1>4. TimeInv' /\ Unique'
  BY <1>1, <1>2, <1>3, TimeStays, NodesStay DEF Unique, PeersInv
<1>5. PingInv'
  BY <1>1, <1>2, PingStays
<1>6. PruneForgot'
  BY <1>2, PollIs DEF LinkLost, PruneForgot
<1>7. BoundIsListed'
  <2>1. \A m \in Nodes : Listed(m) => Listed(m)'
    BY <1>1, NodesStay DEF PeersInv
  <2>2. \A m \in Nodes : rel'[m] = "ready" => rel[m] = "ready"
    BY <1>2 DEF PeersInv, LinkTypes
  <2> QED
    BY <1>2, <2>1, <2>2 DEF PeersInv, BoundIsListed
<1> QED
  BY <1>1, <1>3, <1>4, <1>5, <1>6, <1>7 DEF RoutedKept, SameNodes, PeersInv

\* An empty table and a link that knows nobody.
LEMMA Blank ==
  ASSUME table' = [i \in 1 .. Slots |-> Free], poll' = Resting,
         rel' = [n \in Nodes |-> "absent"], relTime' = [n \in Nodes |-> NoTime]
  PROVE  /\ TableTypes' /\ LinkTypes' /\ Unique' /\ PruneForgot' /\ BoundIsListed' /\ TimeOnLink'
         /\ TimeKept' /\ PingRouted' /\ OnlyPing' /\ PongFresh'
<1>1. \A i \in 1 .. Slots : table'[i] = Free /\ ~table'[i].used
  BY FreeIs
<1>2. TableTypes' /\ LinkTypes'
  BY Bounds DEF TableTypes, LinkTypes
<1>3. PruneForgot' /\ BoundIsListed'
  BY DEF PruneForgot, BoundIsListed, Resting
<1>4. Unique' /\ TimeOnLink' /\ TimeKept' /\ PingRouted' /\ OnlyPing' /\ PongFresh'
  BY <1>1 DEF Unique, TimeOnLink, TimeKept, PingRouted, OnlyPing, PongFresh
<1> QED
  BY <1>2, <1>3, <1>4

LEMMA RebootInv ==
  ASSUME PeersInv, Reboot
  PROVE  PeersInv' /\ boot' # boot
<1>1. /\ TableTypes' /\ LinkTypes' /\ Unique' /\ PruneForgot' /\ BoundIsListed' /\ TimeOnLink'
      /\ TimeKept' /\ PingRouted' /\ OnlyPing' /\ PongFresh'
  BY Blank DEF Reboot
<1>2. TaskTypes' /\ ClockTypes'
  BY Bounds DEF Reboot, Upset, PeersInv, TaskTypes, ClockTypes, Clocks
<1>3. PingIds'
  <2>1. \A p \in pings : p.boot \in Nat /\ p.boot <= boot
    BY DEF PeersInv, TaskTypes, Ping, PingInv, PingIds
  <2>2. pings' = pings /\ boot' = boot + 1 /\ poll'.at # "ping"
    BY DEF Reboot, Resting
  <2> QED
    BY <2>1, <2>2 DEF PeersInv, TaskTypes, PingIds
<1>4. boot' # boot
  BY DEF Reboot, PeersInv, TaskTypes
<1>5. TimeOrder'
  <2>1. \A n \in Nodes : clock'[n].heard # boot' /\ clock'[n].set # boot'
    BY DEF Reboot, PeersInv, TaskTypes, ClockTypes, Clocks
  <2>2. \A i \in 1 .. Slots : ~table'[i].used
    BY FreeIs DEF Reboot
  <2> QED
    BY <2>1, <2>2 DEF TimeOrder, Past
<1> QED
  BY <1>1, <1>2, <1>3, <1>4, <1>5 DEF PeersInv, PingInv, TimeInv

----------------------------------------------------------------------------
(* The theorems *)

LEMMA InitInv == Init => PeersInv
<1> SUFFICES ASSUME Init
             PROVE  PeersInv
  OBVIOUS
<1>1. \A i \in 1 .. Slots : table[i] = Free /\ ~table[i].used
  BY FreeIs DEF Init
<1>2. TableTypes /\ LinkTypes /\ TaskTypes
  BY Bounds DEF Init, TableTypes, LinkTypes, TaskTypes
<1>3. ClockTypes
  <2>1. [gen |-> 0, up |-> 0, set |-> 0, heard |-> 0, hidden |-> FALSE] \in Clocks
    BY Bounds DEF Clocks
  <2> QED
    BY <2>1 DEF Init, ClockTypes
<1>4. PruneForgot /\ BoundIsListed /\ PingIds
  BY DEF Init, PruneForgot, BoundIsListed, PingIds, Resting
<1>5. Unique /\ TimeInv /\ PingRouted /\ OnlyPing /\ PongFresh
  BY <1>1 DEF Init, Unique, TimeInv, TimeOnLink, TimeKept, TimeOrder, Past, PingRouted,
              OnlyPing, PongFresh
<1> QED
  BY <1>2, <1>3, <1>4, <1>5 DEF PeersInv, PingInv

LEMMA StepInv == PeersInv /\ [Next]_vars => PeersInv' /\ (boot' = boot => RoutedKept)
<1> SUFFICES ASSUME PeersInv, [Next]_vars
             PROVE  PeersInv' /\ (boot' = boot => RoutedKept)
  OBVIOUS
<1>1. CASE Receiving
  BY <1>1, HelloMetadataInv, PongInv, RelHelloInv DEF Receiving
<1>2. CASE Application
  BY <1>2, ApplicationInv
<1>3. CASE Polling
  BY <1>3, PollingInv
<1>4. CASE World
  BY <1>4, RebootInv, TimeArrivesInv, LinkLostInv DEF World
<1>5. CASE UNCHANGED vars
  <2>1. /\ UNCHANGED <<boot, upsets, table, generation, uptime, nextPing, poll, hello,
                       unanswered, rel, relTime, pings, clock>>
    BY <1>5 DEF vars, tasks, link, time
  <2>2. TaskTypes' /\ PruneForgot' /\ PingInv'
    BY <2>1 DEF PeersInv, TaskTypes, PruneForgot, PingInv, PingIds, PingRouted, OnlyPing,
                PongFresh
  <2> QED
    BY <2>1, <2>2, TableSteady, TableStep
<1> QED
  BY <1>1, <1>2, <1>3, <1>4, <1>5 DEF Next

\* The inductive invariant: the table, the link and the three tasks agree in every
\* reachable state, between any two holds of the locks.
THEOREM PeersInvariant == Spec => []PeersInv
<1>1. Init => PeersInv
  BY InitInv
<1>2. PeersInv /\ [Next]_vars => PeersInv'
  BY StepInv
<1> QED
  BY <1>1, <1>2, PTL DEF Spec

\* A node has one entry; a node the link holds as bound has one, or will have it when
\* note_reliable_hello_metadata() runs, also when prune_stale_route_down_peers() is
\* between its two looks, unless its last HELLO could not be answered, which leaves it to
\* its next one; and active_ping_poll_one() has one ping out.
THEOREM TableAndLinkAgree == Spec => []TableSound
<1>1. PeersInv => TableSound
  <2> SUFFICES ASSUME PeersInv
               PROVE  TableSound
    OBVIOUS
  <2>1. TypeOK
    <3>1. \A i \in 1 .. Slots : table[i].used =>
            /\ table[i].mac \in Nodes /\ table[i].route \in {"up", "down"}
            /\ table[i].due \in {NoTime, table[i].wanted}
      BY UsedIs DEF PeersInv, Unique, Entries
    <3>2. \A i, j \in 1 .. Slots : \A n \in Nodes : Uses(i, n) /\ Uses(j, n) => i = j
      BY DEF PeersInv, Unique, Uses
    <3>3. poll.at \in {"rest", "ping", "prune"} /\ boot \in 1 .. MaxUpsets + 1
      BY Bounds DEF PeersInv, TaskTypes, Resting, Pinging, Pruning
    <3>4. clock \in [Nodes -> [gen: 0 .. MaxGen, up: Uptimes \cup {0}, set: 0 .. boot,
                               heard: 0 .. boot, hidden: BOOLEAN]]
      BY DEF PeersInv, TaskTypes, ClockTypes, Clocks
    <3> QED
      BY <3>1, <3>2, <3>3, <3>4 DEF TypeOK, PeersInv, TaskTypes, LinkTypes, Times
  <2>2. OnePing
    <3>1. CASE PingOut = {}
      <4>1. Cardinality(PingOut) = 0
        BY <3>1, FS_EmptySet
      <4> QED
        BY <4>1 DEF OnePing
    <3>2. CASE PingOut # {}
      <4>1. PICK i \in PingOut : TRUE
        BY <3>2
      <4>2. PingOut = {i}
        BY <4>1 DEF PeersInv, PingInv, OnlyPing, PingOut
      <4>3. Cardinality(PingOut) = 1
        BY <4>2, FS_Singleton
      <4> QED
        BY <4>3 DEF OnePing
    <3> QED
      BY <3>1, <3>2
  <2> QED
    BY <2>1, <2>2 DEF TableSound, PeersInv
<1> QED
  BY <1>1, PeersInvariant, PTL

\* handle_pong() never makes an entry valid by the answer to a ping of before its route
\* was reported lost, nor leaves one valid whose route is down.
THEOREM PongsAreFresh == Spec => []PongFresh
<1>1. PeersInv => PongFresh
  BY DEF PeersInv, PingInv
<1> QED
  BY <1>1, PeersInvariant, PTL

\* The TIME last handed out for a node is never forgotten on the way, whatever uptimes it
\* is handed out at: it waits, is on the link, has set the clock of the node, or was
\* dropped by the link; or the node ignores it, because the uptime in the first TIME of
\* this boot of the root had not fallen and the boot before had got further.
THEOREM TimeIsKept == Spec => []TimeKept
<1>1. PeersInv => TimeKept
  BY DEF PeersInv, TimeInv
<1> QED
  BY <1>1, PeersInvariant, PTL

\* Whatever is pruned, noted or reported: an entry whose route is up keeps its slot until
\* the root restarts, since the pruning task looks at the route again before it frees.
THEOREM RoutedEntriesStay == Spec => RoutedStays
<1>1. PeersInv /\ [Next]_vars => (boot' = boot => RoutedKept)
  BY StepInv
<1>2. PeersInv /\ [Next]_vars =>
        [boot' = boot =>
           \A i \in 1 .. Slots : table[i].used /\ table[i].route = "up" =>
             table'[i].used /\ table'[i].mac = table[i].mac]_vars
  BY <1>1 DEF RoutedKept
<1> QED
  BY <1>2, PeersInvariant, PTL DEF Spec, RoutedStays
=============================================================================
