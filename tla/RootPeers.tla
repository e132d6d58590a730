----------------------------- MODULE RootPeers ------------------------------
(***************************************************************************)
(* The root's table of nodes (s_nodes of keemash_mesh_root.c) and what the *)
(* tasks of the root do with it: the receiving task notes HELLOs and       *)
(* PONGs, the application reports routes and hands out the time, and the   *)
(* polling task sends pending times, pings one node at a time and prunes   *)
(* nodes whose route has long been down.  The receiving end of TIME is     *)
(* keemash_mesh_time.c.                                                    *)
(*                                                                         *)
(* Two locks: s_lock makes one visit of the table atomic, s_rel_lock the   *)
(* calls into the reliable link.  The polling task holds s_rel_lock for a  *)
(* whole turn, but visits the table several times in it; the route report  *)
(* and the note of a HELLO visit the table without s_rel_lock.             *)
(***************************************************************************)
EXTENDS Naturals, FiniteSets

CONSTANTS
  Nodes,        \* MAC addresses
  Timed,        \* those that advertise MESH_V2_CAP_TYPED_TIME
  Slots,        \* MESH_V2_MAX_NODES, the size of the table
  None,         \* no node
  Uptimes,      \* uptimes of the root at which TIME is handed out
  RestartSlack, \* by how much the uptime must fall to tell a restart, 5 s
  MaxGen,       \* bound on the generations of TIME of one boot
  MaxPings,     \* bound on the pings sent, and on those tried in one boot
  MaxTraffic,   \* bound on the generations and the pings of one boot together
  MaxUpsets     \* bound on the restarts, lost routes, lost links and refused answers

\* The table has room for every node of the mesh.
ASSUME RootPeersAssumption ==
  /\ None \notin Nodes /\ Timed \subseteq Nodes
  /\ Slots \in Nat \ {0}
  /\ IsFiniteSet(Nodes) /\ Cardinality(Nodes) <= Slots
  /\ Uptimes \subseteq Nat
  /\ {RestartSlack, MaxGen, MaxPings, MaxTraffic, MaxUpsets} \subseteq Nat

VARIABLES
  boot,         \* the root's session
  upsets,       \* how often something was upset
  table,        \* table[i]: the entry of s_nodes[i]
  generation,   \* the generation the application handed out last
  uptime,       \* the uptime it gave with it
  nextPing,     \* s_next_ping_id
  poll,         \* where the polling task stands between two visits
  hello,        \* the node whose HELLO the link has taken and the table not yet
  rel,          \* rel[n]: what the reliable link knows of n
  relTime,      \* relTime[n]: the unacknowledged TIME, or NoTime
  pings,        \* the PINGs sent; each may be answered at any time
  clock,        \* clock[n]: what node n knows of TIME
  unanswered    \* history: the nodes whose last HELLO the root could not answer

link == <<rel, relTime>>
time == <<generation, uptime>>
tasks == <<poll, hello, unanswered>>
vars == <<boot, upsets, table, time, nextPing, tasks, link, pings, clock>>

Free == [used |-> FALSE]
Resting == [at |-> "rest"]

\* mesh_v2_time_payload_t: the generation and the uptime of the root
Time(g, up) == [gen |-> g, up |-> up]
NoTime == Time(0, 0)

\* An entry; due is the TIME waiting to be sent.  wanted, dropped and late are for the
\* properties: the last TIME asked for, whether the link dropped it, and whether the answer that made the entry valid is to a ping of before a lost route.
Entry(n) ==
  [used |-> TRUE, mac |-> n, route |-> "down", caps |-> FALSE, due |-> NoTime,
   wanted |-> NoTime, dropped |-> FALSE,
   pending |-> FALSE, pingId |-> 0, valid |-> FALSE, late |-> FALSE]

Uses(i, n) == table[i].used /\ table[i].mac = n
Listed(n) == \E i \in 1 .. Slots : Uses(i, n)
LockFree == poll = Resting
Upset == upsets < MaxUpsets /\ upsets' = upsets + 1

----------------------------------------------------------------------------
(* find_node_locked() *)

\* Where n has its entry, if anywhere.
Found(n) == {i \in 1 .. Slots : Uses(i, n)}

\* New entries for the nodes of macs that have none: place[i] is the node that gets
\* slot i, or None.  They take the lowest free slots, in the order in which the
\* nodes are looked up, as long as there is room.
Places(place, macs) ==
  /\ \A i \in 1 .. Slots : place[i] # None =>
       /\ ~table[i].used /\ place[i] \in macs /\ ~Listed(place[i])
       /\ \A j \in 1 .. Slots :
            /\ j < i => table[j].used \/ place[j] # None
            /\ place[j] = place[i] => j = i
  /\ \/ \A n \in macs : Listed(n) \/ \E i \in 1 .. Slots : place[i] = n
     \/ \A i \in 1 .. Slots : table[i].used \/ place[i] # None

\* The entry in slot i once the new ones are there.
Placed(place, i) == IF place[i] # None THEN Entry(place[i]) ELSE table[i]

----------------------------------------------------------------------------
(* The receiving task: mesh_v2_root_handle_rx() *)

\* The link drops what it has queued for n.
Drops(n) ==
  /\ table' = [i \in 1 .. Slots |->
                 IF i \in Found(n)
                 THEN [table[i] EXCEPT !.dropped = @ \/ relTime[n] # NoTime] ELSE table[i]]
  /\ relTime' = [relTime EXCEPT ![n] = NoTime]

\* The link takes the HELLO under s_rel_lock, perhaps that of a new session.
Binds(n) ==
  /\ hello = None /\ LockFree
  /\ rel' = [rel EXCEPT ![n] = "ready"]
  /\ Drops(n) \/ UNCHANGED <<table, relTime>>
  /\ UNCHANGED <<boot, time, nextPing, poll, pings, clock>>

RelHello(n) ==
  /\ Binds(n)
  /\ hello' = n
  /\ unanswered' = unanswered \ {n}
  /\ UNCHANGED upsets

\* The transport refuses the HELLO_ACK: the node is bound, but not noted in the table.
RelHelloUnanswered(n) ==
  /\ Upset
  /\ Binds(n)
  /\ unanswered' = unanswered \cup {n}
  /\ UNCHANGED hello

\* note_reliable_hello_metadata(), after s_rel_lock has been given back.
HelloMetadata ==
  /\ hello # None
  /\ \E place \in [1 .. Slots -> {hello, None}] :
       /\ Places(place, {hello})
       /\ table' = [i \in 1 .. Slots |->
                      IF Uses(i, hello) \/ place[i] = hello
                      THEN [Placed(place, i) EXCEPT !.caps = TRUE, !.route = "up"]
                      ELSE table[i]]
  /\ hello' = None
  /\ UNCHANGED <<boot, upsets, time, nextPing, poll, unanswered, link, pings, clock>>

\* handle_pong(): counted if it answers the ping that is out.
\* Mutant: the id of the answer is not compared.
Answers_AnyPing(e, p) == e.pending

Answers(e, p) == e.pending /\ e.pingId = p.id

Pong ==
  /\ hello = None
  /\ \E p \in pings :
       /\ p.boot = boot /\ rel[p.mac] = "ready"
       /\ \E i \in 1 .. Slots :
            /\ Uses(i, p.mac) /\ Answers(table[i], p)
            /\ table' = [table EXCEPT ![i] = [@ EXCEPT !.pending = FALSE, !.valid = TRUE,
                                                       !.late = p.lost]]
  /\ UNCHANGED <<boot, upsets, time, nextPing, tasks, link, pings, clock>>

----------------------------------------------------------------------------
(* The application *)

\* mesh_v2_root_sync_routes(): the table first ...
Unroute(e) == [e EXCEPT !.route = "down", !.pending = FALSE,
                        !.valid = FALSE]

Synced(e, macs) ==
  CASE ~e.used -> Free
    [] e.used /\ e.mac \in macs -> [e EXCEPT !.route = "up"]
    [] OTHER -> Unroute(e)

Gone(macs) == {n \in Nodes \ macs : \E i \in 1 .. Slots : Uses(i, n) /\ table[i].route = "up"}

\* ... then, when s_rel_lock comes in time, the link: a routed node becomes known.
SyncRoutes(macs) ==
  /\ IF Gone(macs) = {} THEN UNCHANGED upsets ELSE Upset
  /\ \E place \in [1 .. Slots -> macs \cup {None}] :
       /\ Places(place, macs)
       /\ table' = [i \in 1 .. Slots |-> Synced(Placed(place, i), macs)]
  /\ pings' = {[p EXCEPT !.lost = @ \/ p.mac \notin macs] : p \in pings}
  /\ \/ UNCHANGED rel
     \/ LockFree /\ rel' = [n \in Nodes |-> IF n \in macs /\ rel[n] = "absent"
                                            THEN "known" ELSE rel[n]]
  /\ UNCHANGED <<boot, time, nextPing, tasks, relTime, clock>>

\* mesh_v2_root_queue_time() and mesh_v2_root_queue_time_all(): TIME that is not
\* acknowledged is superseded, and the generation waits for the polling task.
Queue(macs, t) ==
  /\ LockFree
  /\ relTime' = [n \in Nodes |-> IF n \in macs THEN NoTime ELSE relTime[n]]
  /\ table' = [i \in 1 .. Slots |->
                 IF table[i].used /\ table[i].mac \in macs
                 THEN [table[i] EXCEPT !.due = t, !.wanted = t, !.dropped = FALSE]
                 ELSE table[i]]
  /\ generation' = t.gen /\ uptime' = t.up
  /\ UNCHANGED <<boot, upsets, nextPing, tasks, rel, pings, clock>>

Capable == {n \in Timed : \E i \in 1 .. Slots : Uses(i, n) /\ table[i].caps}
Later == {up \in Uptimes : uptime <= up}
QueueTimeAll ==
  /\ generation < MaxGen /\ generation + nextPing <= MaxTraffic
  /\ \E up \in Later : Queue(Capable, Time(generation + 1, up))
QueueTime(n) ==
  /\ generation > 0 /\ n \in Capable
  /\ \E up \in Later : Queue({n}, Time(generation, up))

----------------------------------------------------------------------------
(* The polling task: rel_poll_task() *)

\* flush_one_pending_time(): only the first entry that waits is tried.
Waiting == {i \in 1 .. Slots : table[i].used /\ table[i].route = "up" /\ table[i].due # NoTime}

\* Mutant: the test for unacknowledged TIME is inverted.
FlushReady_Unacked(n) == rel[n] = "ready" /\ relTime[n] # NoTime

FlushReady(n) == rel[n] = "ready" /\ relTime[n] = NoTime

\* Mutant: the flag is cleared whether or not TIME was sent.
FlushSends_Blindly(i) ==
  /\ relTime' = [relTime EXCEPT ![table[i].mac] =
                   IF FlushReady(table[i].mac) THEN table[i].due ELSE @]
  /\ table' = [table EXCEPT ![i].due = NoTime]

FlushSends(i) ==
  /\ FlushReady(table[i].mac)
  /\ relTime' = [relTime EXCEPT ![table[i].mac] = table[i].due]
  /\ table' = [table EXCEPT ![i].due = NoTime]

FlushTime ==
  /\ LockFree
  /\ \E i \in Waiting : (\A j \in Waiting : i <= j) /\ FlushSends(i)
  /\ UNCHANGED <<boot, upsets, time, nextPing, tasks, rel, pings, clock>>

\* active_ping_poll_one(): an answer overdue makes the entry invalid; with no ping
\* out, one node whose turn has come is pinged.
TimedOut(expired) ==
  [i \in 1 .. Slots |-> IF i \in expired
                        THEN [table[i] EXCEPT !.pending = FALSE, !.valid = FALSE]
                        ELSE table[i]]

PingOut == {i \in 1 .. Slots : table[i].used /\ table[i].pending}

MayPing(expired) == PingOut \subseteq expired

PingExpires ==
  /\ LockFree
  /\ PingOut # {}
  /\ table' = TimedOut(PingOut)
  /\ UNCHANGED <<boot, upsets, time, nextPing, tasks, link, pings, clock>>

PingMark(i) ==
  /\ LockFree /\ nextPing <= MaxPings /\ Cardinality(pings) < MaxPings
  /\ generation + nextPing <= MaxTraffic
  /\ \E expired \in SUBSET PingOut :
       /\ MayPing(expired)
       /\ table[i].used /\ table[i].route = "up" /\ table[i].caps /\ i \notin PingOut \ expired
       /\ table' = [TimedOut(expired) EXCEPT ![i] = [@ EXCEPT !.pending = TRUE,
                                                            !.pingId = nextPing]]
  /\ nextPing' = nextPing + 1
  /\ poll' = [at |-> "ping", mac |-> table[i].mac, id |-> nextPing]
  /\ UNCHANGED <<boot, upsets, time, hello, unanswered, link, pings, clock>>

PingSend ==
  /\ poll.at = "ping"
  /\ rel[poll.mac] = "ready"
  /\ pings' = pings \cup {[mac |-> poll.mac, id |-> poll.id, boot |-> boot, lost |-> FALSE]}
  /\ poll' = Resting
  /\ UNCHANGED <<boot, upsets, table, time, nextPing, hello, unanswered, link, clock>>

\* The node is not bound or the transport refuses.
PingFails ==
  /\ poll.at = "ping"
  /\ table' = [i \in 1 .. Slots |->
                 IF i \in Found(poll.mac) /\ table[i].pingId = poll.id
                 THEN [table[i] EXCEPT !.pending = FALSE] ELSE table[i]]
  /\ poll' = Resting
  /\ UNCHANGED <<boot, upsets, time, nextPing, hello, unanswered, link, pings, clock>>

\* prune_stale_route_down_peers(): the link forgets the node, if it knows it and
\* has nothing queued for it; then the entry goes, unless the route is back.
Removes(n) == rel[n] # "absent" /\ relTime[n] = NoTime

\* Mutant: the entry goes although the link refused to forget the node.
Goes_Anyway(n) == TRUE

Goes(n) == Removes(n)

PruneLink(i) ==
  /\ LockFree
  /\ table[i].used /\ table[i].route = "down"
  /\ Goes(table[i].mac)
  /\ rel' = [rel EXCEPT ![table[i].mac] = IF Removes(table[i].mac) THEN "absent" ELSE @]
  /\ poll' = [at |-> "prune", slot |-> i, mac |-> table[i].mac]
  /\ UNCHANGED <<boot, upsets, table, time, nextPing, hello, unanswered, relTime, pings,
                 clock>>

\* Mutant: the entry is not looked at again after the lock was taken.
StillDown_NotLooked(i, n) == TRUE

StillDown(i, n) == Uses(i, n) /\ table[i].route = "down"

PruneEntry ==
  /\ poll.at = "prune"
  /\ table' = IF StillDown(poll.slot, poll.mac)
              THEN [table EXCEPT ![poll.slot] = Free]
              ELSE table
  /\ poll' = Resting
  /\ UNCHANGED <<boot, upsets, time, nextPing, hello, unanswered, link, pings, clock>>

----------------------------------------------------------------------------
(* The other end and the world *)

\* keemash_mesh_time_apply_v2() and apply_time(): an uptime that fell tells a new
\* boot of the root, whose generations start again.  TIME that is not newer is
\* ignored, its uptime is remembered even so.
Restarted(c, up) == c.gen # 0 /\ c.up # 0 /\ up # 0 /\ up + RestartSlack < c.up

\* For the properties: set is the boot of the root whose TIME set the clock, heard that
\* of the last TIME, and hidden tells that the restart between the two did not show: the
\* uptime in the first TIME of the new boot had not fallen.
Applied(c, t) ==
  LET last == IF Restarted(c, t.up) THEN 0 ELSE c.gen
      shows == t.up # 0 /\ t.up + RestartSlack < c.up
  IN  IF t.gen <= last
      THEN [c EXCEPT !.gen = last, !.up = t.up, !.heard = boot,
                     !.hidden = IF c.heard = boot THEN @ ELSE ~shows]
      ELSE [gen |-> t.gen, up |-> t.up, set |-> boot, heard |-> boot, hidden |-> FALSE]

TimeArrives(n) ==
  /\ LockFree
  /\ rel[n] = "ready" /\ relTime[n] # NoTime
  /\ clock' = [clock EXCEPT ![n] = Applied(@, relTime[n])]
  /\ relTime' = [relTime EXCEPT ![n] = NoTime]
  /\ UNCHANGED <<boot, upsets, table, time, nextPing, tasks, rel, pings>>

\* The link to n gives up.
LinkLost(n) ==
  /\ Upset
  /\ LockFree
  /\ rel[n] = "ready"
  /\ rel' = [rel EXCEPT ![n] = "known"]
  /\ Drops(n)
  /\ UNCHANGED <<boot, time, nextPing, tasks, pings, clock>>

Reboot ==
  /\ Upset
  /\ boot' = boot + 1
  /\ table' = [i \in 1 .. Slots |-> Free]
  /\ generation' = 0 /\ uptime' = 0 /\ nextPing' = 1
  /\ poll' = Resting /\ hello' = None /\ unanswered' = {}
  /\ rel' = [n \in Nodes |-> "absent"] /\ relTime' = [n \in Nodes |-> NoTime]
  /\ UNCHANGED <<pings, clock>>

----------------------------------------------------------------------------
Init ==
  /\ boot = 1 /\ upsets = 0
  /\ table = [i \in 1 .. Slots |-> Free]
  /\ generation = 0 /\ uptime = 0 /\ nextPing = 1
  /\ poll = Resting /\ hello = None /\ unanswered = {}
  /\ rel = [n \in Nodes |-> "absent"] /\ relTime = [n \in Nodes |-> NoTime]
  /\ pings = {}
  /\ clock = [n \in Nodes |-> [gen |-> 0, up |-> 0, set |-> 0, heard |-> 0,
                               hidden |-> FALSE]]

Receiving ==
  HelloMetadata \/ Pong \/ \E n \in Nodes : RelHello(n) \/ RelHelloUnanswered(n)
Application ==
  \/ QueueTimeAll
  \/ \E macs \in SUBSET Nodes : SyncRoutes(macs)
  \/ \E n \in Nodes : QueueTime(n)
Polling ==
  \/ FlushTime \/ PingExpires \/ PingSend \/ PingFails \/ PruneEntry
  \/ \E i \in 1 .. Slots : PingMark(i) \/ PruneLink(i)
World == Reboot \/ \E n \in Nodes : TimeArrives(n) \/ LinkLost(n)

Next == Receiving \/ Application \/ Polling \/ World

Spec == Init /\ [][Next]_vars

\* The tasks go on, and the link carries what it has taken.
Fairness ==
  /\ SF_vars(FlushTime)
  /\ WF_vars(PingSend \/ PingFails) /\ WF_vars(PruneEntry)
  /\ \A n \in Timed : SF_vars(TimeArrives(n))

FairSpec == Spec /\ Fairness

----------------------------------------------------------------------------
\* Every variable has its type, and no node has two entries.
TypeOK ==
  /\ boot \in 1 .. MaxUpsets + 1 /\ upsets \in 0 .. MaxUpsets
  /\ \A i, j \in 1 .. Slots : \A n \in Nodes : Uses(i, n) /\ Uses(j, n) => i = j
  /\ \A i \in 1 .. Slots : table[i].used =>
       /\ table[i].mac \in Nodes /\ table[i].route \in {"up", "down"}
       /\ table[i].due \in {NoTime, table[i].wanted}
  /\ generation \in 0 .. MaxGen /\ nextPing \in 1 .. MaxPings + 1
  /\ poll.at \in {"rest", "ping", "prune"}
  /\ hello \in Nodes \cup {None}
  /\ rel \in [Nodes -> {"absent", "known", "ready"}]
  /\ relTime \in [Nodes -> [gen: 1 .. MaxGen, up: Uptimes] \cup {NoTime}]
  /\ uptime \in Uptimes \cup {0} /\ unanswered \subseteq Nodes
  /\ clock \in [Nodes -> [gen: 0 .. MaxGen, up: Uptimes \cup {0}, set: 0 .. boot,
                         heard: 0 .. boot, hidden: BOOLEAN]]

\* The polling task never has two pings out, whatever becomes of the routes and
\* the entries meanwhile.
OnePing == Cardinality(PingOut) <= 1

\* A valid ping time is that of a PING this boot of the root sent to this node, and
\* the route of the node has not been reported lost since it was sent: a late PONG
\* of before counts for nothing.
PongFresh ==
  \A i \in 1 .. Slots : table[i].used /\ table[i].valid =>
    ~table[i].late /\ table[i].route = "up"

\* A node the link holds as bound has an entry, or its HELLO is just being noted:
\* pruning, which visits the table twice, and a HELLO, which takes the link first
\* and the table afterwards, never leave one without the other.  The exception is a
\* node that was bound by a HELLO the root could not answer, until it sends the next.
BoundIsListed ==
  \A n \in Nodes : rel[n] = "ready" => Listed(n) \/ hello = n \/ n \in unanswered

\* The table and the link agree on the nodes, each has one entry, and one ping is out.
TableSound == TypeOK /\ BoundIsListed /\ OnePing

\* The node has set its clock by TIME t of this boot of the root; or it takes this
\* boot for an earlier one, because the first uptime it heard of it had not fallen
\* by more than the slack, and is past t in that one.
Has(n, t) == clock[n].set = boot /\ clock[n].gen = t.gen /\ clock[n].up = t.up
Mistakes(n, t) ==
  clock[n].heard = boot /\ clock[n].hidden /\ clock[n].set < boot /\ clock[n].gen >= t.gen

\* The TIME last handed out for a node waits, is on the link, has set the
\* node's clock, or was dropped by the link: the polling task never clears the flag of
\* a TIME it did not send, and a node that noticed a restart of the root, which it does
\* if the uptime shows it, follows the generations of the new boot from then on.
TimeKept ==
  \A i \in 1 .. Slots : table[i].used /\ table[i].wanted # NoTime =>
    LET e == table[i]
    IN  \/ e.due = e.wanted \/ relTime[e.mac] = e.wanted \/ e.dropped
        \/ Has(e.mac, e.wanted) \/ Mistakes(e.mac, e.wanted)

\* An entry whose route is up stays, even when the route comes back while the
\* polling task is pruning it.
RoutedStays ==
  [][boot' = boot =>
       \A i \in 1 .. Slots : table[i].used /\ table[i].route = "up" =>
         table'[i].used /\ table'[i].mac = table[i].mac]_vars

\* The time arrives: if from some point on every routed node that waits for TIME is
\* bound, each routed node gets the generation last handed out for it, unless the
\* link dropped it or the node did not notice that the root restarted.  (One waiting
\* node that is not bound keeps all the others waiting.)
Served(i) ==
  table[i].used /\ table[i].route = "up" /\ table[i].wanted # NoTime =>
    LET e == table[i]
    IN  e.dropped \/ Has(e.mac, e.wanted) \/ Mistakes(e.mac, e.wanted)
TimeGetsThrough ==
  <>[](\A i \in Waiting : rel[table[i].mac] = "ready") =>
    []<>(\A i \in 1 .. Slots : Served(i))

=============================================================================
