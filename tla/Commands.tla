------------------------------ MODULE Commands ------------------------------
(***************************************************************************)
(* CONTROL commands between the root and one node: the node runs a command *)
(* and remembers the result in a small ring (keemash_mesh_node.c), so that *)
(* a command that comes again is answered without being run again; the     *)
(* root keeps the results it was sent in a ring of its own                 *)
(* (keemash_mesh_root.c), where the application looks them up.             *)
(*                                                                         *)
(* The reliable link below is RelLink.  Here it is a set of messages, each *)
(* of one pair of sessions: any of them may be late, doubled, or never be  *)
(* taken at all, which is a loss; an end takes only those of the pair it   *)
(* is bound to.  That is more than the link lets happen.                   *)
(***************************************************************************)
EXTENDS Naturals, Sequences, FiniteSets

CONSTANTS
  Ops,          \* operation identities of the controller; 0 is none
  LogIds,       \* values ms_now() has when a log switch is sent
  CacheSize,    \* entries of s_command_cache, 32
  ResultSize,   \* COMMAND_RESULT_CACHE_SIZE, 32
  MaxSends,     \* bound on the commands numbered in a behaviour
  MaxRuns,      \* bound on the commands the node runs
  MaxUpsets     \* bound on the restarts, forgotten sessions and late HELLO_ACKs

ASSUME CommandsAssumption ==
  /\ Ops \subseteq Nat \ {0}
  /\ LogIds \subseteq Nat \ {0}
  /\ {CacheSize, ResultSize} \subseteq Nat \ {0}
  /\ {MaxSends, MaxRuns, MaxUpsets} \subseteq Nat

VARIABLES
  session,      \* session[e]: the number of the current boot of end e
  peer,         \* the root: node_session_id of the node, 0 when unknown
  rootSeen,     \* the node: root_session_id of the root, 0 when unknown
  upsets,       \* how often the link or an end was upset
  helloAcks,    \* the HELLO_ACKs sent to this boot of the node, by root session
  wire,         \* the CONTROL messages sent, but those nobody can take any more
  nextId,       \* s_next_command_id
  results,      \* s_command_results, a ring filled in turn
  resultNext,   \* s_command_result_next
  cache,        \* s_command_cache, likewise
  cacheNext,    \* s_command_cache_next
  busy,         \* the command the node is running, in rel_deliver_cb()
  \* What happened, for the properties.
  numbered,     \* [rs, cid, op, what]: the commands the root gave a number
  runs,         \* [what, rs, ns, live, long]: the commands the node ran, in
                \* order; not live any more once the cache has been cleared,
                \* long if the result does not fit in an entry of the cache
  forgot,       \* the boots of the node in which it forgot the root's session
  wiped         \* those in which forget_root() cleared a result while it was sent

binding == <<session, peer, rootSeen, helloAcks>>
link == <<binding, upsets>>
root == <<nextId, results, resultNext>>
node == <<cache, cacheNext, busy>>
hist == <<numbered, runs, forgot, wiped>>
vars == <<link, wire, root, node, hist>>

Ends == {"root", "node"}
Bound(e, m) ==
  IF e = "root" THEN peer # 0 /\ m.rs = session[e] /\ m.ns = peer
                ELSE rootSeen # 0 /\ m.rs = rootSeen /\ m.ns = session[e]
Free == [used |-> FALSE]
Idle == busy = Free
FreeRing(size) == [i \in 1 .. size |-> Free]
Turn(next, size) == (next % size) + 1

\* The text of a result: which run of the node wrote it, 0 if it was cleared, and
\* whether it was cut to the 47 characters an entry of the cache holds.
Text(run, cut) == [run |-> run, cut |-> cut]

\* Two commands are the same: by operation identity when they carry one, by
\* number when neither does.
Same(m, op, cid) == IF op # 0 THEN m.op = op ELSE m.op = 0 /\ m.cid = cid

----------------------------------------------------------------------------
(* The link *)

\* A HELLO reaches the root.
HandleHello ==
  /\ peer' = session["node"]
  /\ helloAcks' = helloAcks \cup {session["root"]}
  /\ wire' = {m \in wire : m.ns = session["node"]}
  /\ UNCHANGED <<session, rootSeen, upsets, root, node, hist>>

CacheClear ==
  /\ cache' = FreeRing(CacheSize)
  /\ cacheNext' = 0
  /\ runs' = [i \in DOMAIN runs |-> [runs[i] EXCEPT !.live = FALSE]]

\* mesh_v2_node_handle_rx() on a HELLO_ACK: when the root's session is not the
\* one known before, what the cache holds answers nothing any more.
\* Mutant: the new session is not noticed.
RootSessionChanged_Never(previous, rs) == FALSE

RootSessionChanged(previous, rs) == previous # 0 /\ previous # rs

Bind(rs) ==
  /\ Idle
  /\ rs \in helloAcks
  /\ rootSeen' = rs
  /\ IF RootSessionChanged(rootSeen, rs)
     THEN CacheClear
     ELSE UNCHANGED <<cache, cacheNext, runs>>
  /\ UNCHANGED <<session, peer, helloAcks, wire, root, busy, numbered, forgot, wiped>>

HandleHelloAck == Bind(session["root"]) /\ UNCHANGED upsets

----------------------------------------------------------------------------
(* What upsets the link *)

Upset == upsets < MaxUpsets /\ upsets' = upsets + 1

\* The HELLO_ACK of an earlier boot of the root, late.
LateHelloAck ==
  /\ Upset
  /\ \E rs \in 1 .. session["root"] - 1 : Bind(rs)

\* An end runs out of retries and forgets the session of the other.  What it had
\* queued is dropped; copies may still be under way.
Drop(to) == wire' \in {wire, {m \in wire : m.to # to}}

ExhaustedRoot ==
  /\ Upset
  /\ peer # 0
  /\ peer' = 0
  /\ Drop("node")
  /\ UNCHANGED <<session, rootSeen, helloAcks, root, node, hist>>

ExhaustedNode ==
  /\ Upset
  /\ Idle
  /\ rootSeen # 0
  /\ rootSeen' = 0
  /\ forgot' = IF cache = FreeRing(CacheSize) THEN forgot
               ELSE forgot \cup {session["node"]}
  /\ Drop("root")
  /\ UNCHANGED <<session, peer, helloAcks, root, node, numbered, runs, wiped>>

\* mesh_v2_node_forget_root(), called by the application beside the receiving
\* task: a command may be running.
ForgetRoot ==
  /\ Upset
  /\ CacheClear
  /\ UNCHANGED <<binding, wire, root, busy, numbered, forgot, wiped>>

Boot(e) ==
  /\ Upset
  /\ session' = [session EXCEPT ![e] = @ + 1]

RebootRoot ==
  /\ Boot("root")
  /\ wire' = {m \in wire : m.to = "node"}
  /\ peer' = 0
  /\ nextId' = 1
  /\ results' = FreeRing(ResultSize)
  /\ resultNext' = 0
  /\ UNCHANGED <<rootSeen, helloAcks, node, hist>>

RebootNode ==
  /\ Boot("node")
  /\ wire' = {m \in wire : m.to = "root"}
  /\ helloAcks' = {}
  /\ rootSeen' = 0
  /\ CacheClear
  /\ busy' = Free
  /\ UNCHANGED <<peer, root, numbered, forgot, wiped>>

----------------------------------------------------------------------------
(* The root sends *)

\* mesh_v2_root_send_command_operation() over a bound link; the number is the
\* caller's, what is to be done is told apart by "what".
Dispatch(cid, op, what) ==
  /\ peer # 0
  /\ wire' = wire \cup {[to |-> "node", rs |-> session["root"], ns |-> peer, cid |-> cid,
                         op |-> op, what |-> what, text |-> Text(0, FALSE)]}
  /\ numbered' = numbered \cup {[rs |-> session["root"], cid |-> cid, op |-> op,
                                 what |-> what]}

NextCommandId == nextId
TakeId == nextId' = nextId + 1

\* A new command without an identity: nobody will ask for it again.
SendCommand ==
  /\ Cardinality(numbered) < MaxSends
  /\ Dispatch(NextCommandId, 0, <<session["root"], Cardinality(numbered)>>)
  /\ TakeId
  /\ UNCHANGED <<link, results, resultNext, node, runs, forgot, wiped>>

\* A command of the controller, sent again as often as the controller likes and
\* under a number of its own each time.
SendOperation ==
  /\ Cardinality(numbered) < MaxSends
  /\ \E op \in Ops : Dispatch(NextCommandId, op, <<0, op>>)
  /\ TakeId
  /\ UNCHANGED <<link, results, resultNext, node, runs, forgot, wiped>>

\* The controller asks for the operation again.
AskAgain(op) ==
  /\ \E n \in numbered : n.op = op /\ n.rs = session["root"] /\ Dispatch(n.cid, op, n.what)
  /\ UNCHANGED <<link, root, node, runs, forgot, wiped>>

\* mesh_v2_root_send_log_ctrl(): the number is the clock, not the counter.
SendLogCtrl ==
  /\ Cardinality(numbered) < MaxSends
  /\ \E cid \in LogIds : Dispatch(cid, 0, <<session["root"], Cardinality(numbered)>>)
  /\ UNCHANGED <<link, root, node, runs, forgot, wiped>>

----------------------------------------------------------------------------
(* The node: rel_deliver_cb() on CONTROL *)

\* rel_send_control_result(): a result the link has no room for is one that is
\* never taken.
Answer(m, text) ==
  wire' = wire \cup {[m EXCEPT !.to = "root", !.rs = rootSeen, !.text = text]}

\* command_cache_find()
\* Mutant: only the number is compared.
Cached_ByNumber(m) == {i \in 1 .. CacheSize : cache[i].used /\ cache[i].cid = m.cid}

Cached(m) == {i \in 1 .. CacheSize : cache[i].used /\ Same(cache[i], m.op, m.cid)}

\* Mutant: a command that is known is not answered.
DeliverAgain_Silent(m) ==
  /\ Cached(m) # {}
  /\ UNCHANGED vars

DeliverAgain(m) ==
  /\ \E i \in Cached(m) :
       /\ \A j \in Cached(m) : i <= j
       /\ Answer(m, cache[i].text)
  /\ UNCHANGED <<link, root, node, hist>>

\* forget_root() takes no lock: it may clear the entry that was found while the
\* result is copied from it.
DeliverWiped(m) ==
  /\ Upset
  /\ Cached(m) # {}
  /\ CacheClear
  /\ Answer(m, Text(0, FALSE))
  /\ wiped' = wiped \cup {m.ns}
  /\ UNCHANGED <<binding, root, busy, numbered, forgot>>

\* Not known: the hook of the application runs it.  The cache is written only
\* after the hook is back.
DeliverNew(m) ==
  /\ Cached(m) = {}
  /\ Len(runs) < MaxRuns
  /\ busy' = [used |-> TRUE, m |-> m]
  /\ runs' = Append(runs, [what |-> m.what, rs |-> m.rs, ns |-> m.ns,
                           live |-> TRUE, long |-> FALSE])
  /\ UNCHANGED <<link, wire, root, cache, cacheNext, numbered, forgot, wiped>>

DeliverCommand ==
  /\ Idle
  /\ \E m \in wire :
       /\ m.to = "node" /\ Bound("node", m)
       /\ DeliverAgain(m) \/ DeliverWiped(m) \/ DeliverNew(m)

\* command_cache_store(): the next entry of the ring, whatever it holds.
Entry(m, run, cut) ==
  [used |-> TRUE, cid |-> m.cid, op |-> m.op, text |-> Text(run, cut)]

CacheStore(m, run, cut) ==
  /\ cache' = [cache EXCEPT ![Turn(cacheNext, CacheSize)] = Entry(m, run, cut)]
  /\ cacheNext' = (cacheNext + 1) % CacheSize

\* Back from the hook: the result goes out whole, the cache keeps what fits.
Finish ==
  /\ ~Idle
  /\ LET m == busy.m
         run == Len(runs)
     IN  /\ \E long \in {FALSE, m.op # 0} :
              /\ CacheStore(m, run, long)
              /\ runs' = [runs EXCEPT ![run] = [@ EXCEPT !.live = TRUE, !.long = long]]
         /\ Answer(m, Text(run, FALSE))
  /\ busy' = Free
  /\ UNCHANGED <<link, root, numbered, forgot, wiped>>

----------------------------------------------------------------------------
(* The root: rel_deliver_cb() on CONTROL and note_command_result() *)

\* The entry of this command and of this pair of sessions.
\* Mutant: the sessions of the entry are not compared.
Matching_AnySession(m) ==
  {i \in 1 .. ResultSize : results[i].used /\ Same(results[i], m.op, m.cid)}

Matching(m) ==
  {i \in 1 .. ResultSize :
     /\ results[i].used
     /\ results[i].rs = session["root"] /\ results[i].ns = peer
     /\ Same(results[i], m.op, m.cid)}

NewResult(m) ==
  /\ Matching(m) = {}
  /\ results' = [results EXCEPT ![Turn(resultNext, ResultSize)] =
                   [used |-> TRUE, rs |-> session["root"], ns |-> peer,
                    cid |-> m.cid, op |-> m.op, text |-> m.text, changed |-> FALSE]]
  /\ resultNext' = (resultNext + 1) % ResultSize

KnownResult(m) ==
  /\ \E i \in Matching(m) :
       /\ \A j \in Matching(m) : i <= j
       /\ results' = [results EXCEPT ![i] =
                        [@ EXCEPT !.changed = results[i].changed \/ results[i].text # m.text,
                                  !.cid = m.cid, !.text = m.text]]
  /\ UNCHANGED resultNext

NoteResult ==
  /\ \E m \in wire : m.to = "root" /\ Bound("root", m) /\ (NewResult(m) \/ KnownResult(m))
  /\ UNCHANGED <<link, wire, nextId, node, hist>>

\* The three lookups: by number among the results of the sessions of now (or of
\* any, when the state of the link could not be read in time), by number alone,
\* and by identity.
OfNow(r) == r.rs = session["root"] /\ r.ns = peer
ForPeer(cid, haveRel) ==
  {results[i] : i \in {j \in 1 .. ResultSize :
     results[j].used /\ results[j].cid = cid /\ (haveRel => OfNow(results[j]))}}
ForOperation(op, haveRel) ==
  {results[i] : i \in {j \in 1 .. ResultSize :
     results[j].used /\ results[j].op = op /\ (haveRel => OfNow(results[j]))}}

----------------------------------------------------------------------------
Init ==
  /\ session = [e \in Ends |-> 1]
  /\ peer = 0 /\ rootSeen = 0 /\ helloAcks = {} /\ wire = {} /\ upsets = 0
  /\ nextId = 1 /\ results = FreeRing(ResultSize) /\ resultNext = 0
  /\ cache = FreeRing(CacheSize) /\ cacheNext = 0 /\ busy = Free
  /\ numbered = {} /\ runs = <<>> /\ forgot = {} /\ wiped = {}

Disturbance ==
  LateHelloAck \/ ExhaustedRoot \/ ExhaustedNode \/ ForgetRoot \/ RebootRoot \/ RebootNode

Next ==
  \/ HandleHello \/ HandleHelloAck \/ Disturbance
  \/ SendCommand \/ SendOperation \/ SendLogCtrl \/ \E op \in Ops : AskAgain(op)
  \/ DeliverCommand \/ Finish \/ NoteResult

Spec == Init /\ [][Next]_vars

\* What keeps going: HELLOs are repeated and answered, the link brings the commands
\* and the results of an operation through in the end, the hook returns, and the
\* controller asks again.
Command(op) == {m \in wire : m.to = "node" /\ m.op = op /\ Bound("node", m)}
Delivers(op) == Idle /\ \E m \in Command(op) : DeliverAgain(m) \/ DeliverNew(m)
Notes(op) == NoteResult /\ \E m \in wire : m.op = op /\ (NewResult(m) \/ KnownResult(m))

Fairness ==
  /\ WF_vars(HandleHello) /\ WF_vars(HandleHelloAck)
  /\ WF_vars(Finish)
  /\ \A op \in Ops : /\ WF_vars(AskAgain(op)) /\ SF_vars(Delivers(op)) /\ WF_vars(Notes(op))

FairSpec == Spec /\ Fairness

----------------------------------------------------------------------------
Sessions == 0 .. MaxUpsets + 1
Whats == {<<rs, n>> : rs \in Sessions, n \in 0 .. MaxSends} \cup {<<0, op>> : op \in Ops}
TextType == [run: 0 .. MaxRuns, cut: BOOLEAN]

\* Every variable has its type.
TypeOK ==
  /\ session \in [Ends -> Sessions]
  /\ {peer, rootSeen} \subseteq Sessions /\ helloAcks \subseteq Sessions
  /\ \A m \in wire : m.to \in Ends /\ m.text \in TextType /\ m.op \in Ops \cup {0}
  /\ nextId \in Nat
  /\ \A i \in 1 .. ResultSize : results[i].used => results[i].text \in TextType
  /\ resultNext \in 0 .. ResultSize - 1
  /\ \A i \in 1 .. CacheSize : cache[i].used => cache[i].text \in TextType
  /\ cacheNext \in 0 .. CacheSize - 1
  /\ busy.used => busy.m.to = "node" /\ Bound("node", busy.m)
  /\ Len(runs) <= MaxRuns

\* README "reconnect retransmission can return a cached result without repeating
\* the hardware action": in one boot of the node, and as long as the cache is not
\* cleared for a new session of the root or on forget_root(), a command runs a
\* second time only after the cache has turned over completely.
AtMostOnce ==
  \A i, j \in 1 .. Len(runs) :
    /\ i < j
    /\ runs[i].what = runs[j].what
    /\ runs[i].live /\ runs[j].live
    => j - i > CacheSize

\* A result looked up by operation identity was written by a run of that very
\* operation, in the boot of the node the entry names, whatever numbers the
\* operation was sent under and even when the state of the link is not known.  Only
\* a result that was cleared while it was sent is of no run.
Cleared(r) == r.text.run = 0 /\ r.ns \in wiped
OperationAnswer ==
  \A op \in Ops : \A r \in ForOperation(op, FALSE) :
    \/ Cleared(r)
    \/ runs[r.text.run].what = <<0, op>> /\ runs[r.text.run].ns = r.ns

\* A result of the sessions of now, looked up by number for a command without
\* identity, was written by the command this boot of the root gave that number,
\* if it gave it to one only (a log switch takes its number from the clock).  The
\* exception: once its link ran out of retries the node does not know that the
\* root's session is a new one, keeps the cache, and answers from the old one.  Nor
\* does a result say anything that was cleared while it was sent.
Numbered(cid) == {n \in numbered : n.rs = session["root"] /\ n.cid = cid /\ n.op = 0}
NumberAnswer ==
  \A n \in numbered : n.rs = session["root"] /\ Cardinality(Numbered(n.cid)) = 1 =>
    \A r \in ForPeer(n.cid, TRUE) : r.op = 0 =>
      \/ Cleared(r)
      \/ \A k \in Numbered(n.cid) : runs[r.text.run].what = k.what
      \/ r.ns \in forgot /\ runs[r.text.run].rs # r.rs

\* The flag "text changed" of an operation tells that the node ran it more than
\* once in that boot, unless its result is too long for the cache, or in that boot
\* a result was cleared while it was sent.
RunsOf(r) == {i \in 1 .. Len(runs) : runs[i].what = <<0, r.op>> /\ runs[i].ns = r.ns}
ChangedMeansRerun ==
  \A i \in 1 .. ResultSize :
    LET r == results[i]
    IN  r.used /\ r.op # 0 /\ r.changed =>
          \/ Cardinality(RunsOf(r)) > 1 \/ \E k \in RunsOf(r) : runs[k].long
          \/ r.ns \in wiped

\* What the root's ring says of operations is about those operations, and of this
\* pair of boots, after any overlap of repeated commands and late results.
ResultsSound == TypeOK /\ OperationAnswer /\ ChangedMeansRerun

\* An operation the controller keeps asking for is answered: the link being upset a
\* number of times only, the root holds the result of every operation it was asked
\* for since it started, again and again (a later result may push it out).
Asked(op) == \E n \in numbered : n.op = op /\ n.rs = session["root"]
Answered ==
  <>[](Len(runs) < MaxRuns) =>
    \A op \in Ops : []<>(Asked(op) => ForOperation(op, TRUE) # {})

=============================================================================
