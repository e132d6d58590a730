-------------------------- MODULE Commands_proofs --------------------------
(***************************************************************************)
(* What the node and the root promise about commands and their results, for *)
(* all sets of operations, all sizes of the two rings and all bounds: no    *)
(* command runs twice while its result is remembered, and a result that is *)
(* looked up belongs to the command it is looked up for.                    *)
(***************************************************************************)
EXTENDS Commands, FiniteSetTheorems, TLAPS

Message ==
  [to: Ends, rs: Nat, ns: Nat, cid: Nat, op: Ops \cup {0}, what: Nat \X Nat,
   text: TextType]
Number == [rs: Nat, cid: Nat, op: Ops \cup {0}, what: Nat \X Nat]
Run == [what: Nat \X Nat, rs: Nat \ {0}, ns: Nat, live: BOOLEAN, long: BOOLEAN]
CacheEntry == [used: {TRUE}, cid: Nat, op: Ops \cup {0}, text: TextType]
ResultEntry ==
  [used: {TRUE}, rs: Nat, ns: Nat, cid: Nat, op: Ops \cup {0}, text: TextType,
   changed: BOOLEAN]

LinkTypes ==
  /\ upsets \in 0 .. MaxUpsets
  /\ session \in [Ends -> Nat] /\ \A e \in Ends : session[e] \in 1 .. upsets + 1
  /\ {peer, rootSeen} \subseteq Sessions /\ helloAcks \subseteq Sessions

StateTypes ==
  /\ wire \subseteq Message
  /\ nextId \in Nat
  /\ results \in [1 .. ResultSize -> {Free} \cup ResultEntry]
  /\ resultNext \in 0 .. ResultSize - 1
  /\ cache \in [1 .. CacheSize -> {Free} \cup CacheEntry]
  /\ cacheNext \in 0 .. CacheSize - 1
  /\ busy \in {Free} \cup [used: {TRUE}, m: Message]
  /\ numbered \subseteq Number /\ IsFiniteSet(numbered)
  /\ runs \in Seq(Run) /\ Len(runs) <= MaxRuns

\* What a command is tells its identity, and without one its boot and number.
Numbering ==
  /\ \A n \in numbered : n.op # 0 => n.what = <<0, n.op>>
  /\ \A n \in numbered : n.op = 0 => n.what[1] # 0 /\ n.what[2] < Cardinality(numbered)
  /\ \A n, k \in numbered : n.op = 0 /\ k.op = 0 /\ n.what = k.what => n = k

Finished == IF Idle THEN Len(runs) ELSE Len(runs) - 1

\* A text was written by a finished run, in boot ns of the node, of a command with that
\* identity or that number.
Told(rn, nb, fin, text, op, cid, ns) ==
  /\ text.run \in 1 .. fin
  /\ text.cut => rn[text.run].long
  /\ rn[text.run].ns = ns
  /\ \E n \in nb : /\ n.rs = rn[text.run].rs /\ n.what = rn[text.run].what
                   /\ n.op = op /\ (op = 0 => n.cid = cid)

\* ... and in session rs of the root, unless that boot forgot the root in between.
Own(rn, fg, text, rs, ns) == rn[text.run].rs = rs \/ ns \in fg

\* A result that is under way or in the root's ring was told, or it was cleared in that
\* boot of the node while it was sent.
Stands(rn, nb, fin, fg, wp, text, op, cid, rs, ns) ==
  \/ Told(rn, nb, fin, text, op, cid, ns) /\ Own(rn, fg, text, rs, ns)
  \/ text.run = 0 /\ ns \in wp

\* The operation ran twice in that boot, or its result is too long for the cache.
Rerun(rn, fin, op, ns) ==
  \E j, k \in 1 .. fin :
    /\ rn[j].what = <<0, op>> /\ rn[j].ns = ns
    /\ rn[k].what = <<0, op>> /\ rn[k].ns = ns
    /\ j # k \/ rn[k].long

NumberOf(m) == [rs |-> m.rs, cid |-> m.cid, op |-> m.op, what |-> m.what]

CommandsNumbered == \A m \in wire : m.to = "node" => NumberOf(m) \in numbered

AnswersTold ==
  \A m \in wire : m.to = "root" =>
    Stands(runs, numbered, Finished, forgot, wiped, m.text, m.op, m.cid, m.rs, m.ns)

CacheTold ==
  \A i \in 1 .. CacheSize : cache[i].used =>
    /\ Told(runs, numbered, Finished, cache[i].text, cache[i].op, cache[i].cid,
            session["node"])
    /\ Own(runs, forgot, cache[i].text, rootSeen, session["node"])

ResultsTold ==
  \A i \in 1 .. ResultSize : results[i].used =>
    LET r == results[i]
    IN  /\ Stands(runs, numbered, Finished, forgot, wiped, r.text, r.op, r.cid, r.rs, r.ns)
        /\ r.op # 0 /\ r.changed => Rerun(runs, Finished, r.op, r.ns) \/ r.ns \in wiped

\* The command the node is running is the last one it began; when the cache was
\* cleared meanwhile, no run is live.
Running ==
  busy.used =>
    /\ busy.m.to = "node" /\ Bound("node", busy.m) /\ NumberOf(busy.m) \in numbered
    /\ Len(runs) > 0
    /\ LET last == runs[Len(runs)]
       IN  /\ last.what = busy.m.what /\ last.rs = busy.m.rs /\ last.ns = busy.m.ns
           /\ ~last.live => \A i \in 1 .. Len(runs) : ~runs[i].live

\* Where the ring keeps the result that was stored age stores ago.
Slot(next, age) == IF age < next THEN next - age ELSE next + CacheSize - age

\* The last CacheSize live runs are in the cache.
Recent ==
  \A i \in 1 .. Finished :
    runs[i].live /\ Finished - i < CacheSize =>
      /\ cache[Slot(cacheNext, Finished - i)].used
      /\ cache[Slot(cacheNext, Finished - i)].text.run = i

CommandsInv ==
  /\ LinkTypes /\ StateTypes /\ Numbering
  /\ CommandsNumbered /\ AnswersTold /\ CacheTold /\ ResultsTold
  /\ Running /\ Recent /\ AtMostOnce

----------------------------------------------------------------------------
(* Records and rings *)

LEMMA TextIs ==
  ASSUME NEW run \in 0 .. MaxRuns, NEW cut \in BOOLEAN
  PROVE  Text(run, cut) \in TextType /\ Text(run, cut).run = run /\ Text(run, cut).cut = cut
BY DEF Text, TextType

LEMMA FreeIs == ~Free.used
BY DEF Free

LEMMA FreeRingIs ==
  ASSUME NEW size \in Nat, NEW S
  PROVE  /\ FreeRing(size) \in [1 .. size -> {Free} \cup S]
         /\ \A i \in 1 .. size : ~FreeRing(size)[i].used
BY FreeIs DEF FreeRing

\* The node is idle, or runs a command.
LEMMA BusyIs ==
  ASSUME StateTypes
  PROVE  /\ Idle => ~busy.used
         /\ ~Idle => busy.used /\ busy.m \in Message
BY FreeIs DEF StateTypes, Idle

LEMMA FinishedIs ==
  ASSUME StateTypes, Running
  PROVE  /\ Len(runs) \in Nat /\ Finished \in Nat /\ Finished <= Len(runs)
         /\ Idle => Finished = Len(runs)
         /\ ~Idle => Finished + 1 = Len(runs)
<1>1. runs \in Seq(Run) /\ Len(runs) \in Nat BY DEF StateTypes
<1>2. ~Idle => Len(runs) > 0 BY BusyIs DEF Running
<1> QED BY <1>1, <1>2 DEF Finished

\* command_cache_clear() and what it means for the runs.
LEMMA Clears ==
  ASSUME StateTypes, CacheClear
  PROVE  /\ runs' \in Seq(Run) /\ Len(runs') = Len(runs)
         /\ \A i \in 1 .. Len(runs) :
              /\ runs'[i].what = runs[i].what /\ runs'[i].rs = runs[i].rs
              /\ runs'[i].ns = runs[i].ns /\ runs'[i].long = runs[i].long
              /\ ~runs'[i].live
         /\ cache' \in [1 .. CacheSize -> {Free} \cup CacheEntry]
         /\ \A i \in 1 .. CacheSize : ~cache'[i].used
         /\ cacheNext' \in 0 .. CacheSize - 1
<1>1. runs \in Seq(Run) /\ Len(runs) \in Nat /\ DOMAIN runs = 1 .. Len(runs)
  BY DEF StateTypes
<1>2. \A i \in 1 .. Len(runs) : runs[i] \in Run
  BY <1>1
<1>3. ASSUME NEW i \in 1 .. Len(runs)
      PROVE  /\ runs'[i] \in Run
             /\ runs'[i].what = runs[i].what /\ runs'[i].rs = runs[i].rs
             /\ runs'[i].ns = runs[i].ns /\ runs'[i].long = runs[i].long
             /\ ~runs'[i].live
  <2>1. runs'[i] = [runs[i] EXCEPT !.live = FALSE]
    BY <1>1 DEF CacheClear
  <2> QED BY <1>2, <2>1 DEF Run
<1>4. runs' \in [1 .. Len(runs) -> Run]
  BY <1>1, <1>3 DEF CacheClear
<1>5. runs' \in Seq(Run) /\ Len(runs') = Len(runs)
  BY <1>1, <1>4
<1>6. CacheSize \in Nat \ {0} BY CommandsAssumption
<1>7. /\ FreeRing(CacheSize) \in [1 .. CacheSize -> {Free} \cup CacheEntry]
      /\ \A i \in 1 .. CacheSize : ~FreeRing(CacheSize)[i].used
  BY <1>6, FreeRingIs
<1>8. cache' = FreeRing(CacheSize) /\ cacheNext' = 0
  BY DEF CacheClear
<1>9. cacheNext' \in 0 .. CacheSize - 1
  BY <1>6, <1>8
<1> QED BY <1>3, <1>5, <1>7, <1>8, <1>9, Zenon

----------------------------------------------------------------------------
(* What was told stays told *)

\* The history grows: runs that are finished keep what they were.
Grows ==
  /\ Finished \in Nat /\ Finished' \in Nat /\ Finished <= Finished'
  /\ numbered \subseteq numbered' /\ forgot \subseteq forgot' /\ wiped \subseteq wiped'
  /\ \A i \in 1 .. Finished :
       /\ runs'[i].what = runs[i].what /\ runs'[i].rs = runs[i].rs
       /\ runs'[i].ns = runs[i].ns /\ runs'[i].long = runs[i].long

LEMMA StaysTold ==
  ASSUME Grows
  PROVE  /\ \A text, op, cid, ns :
              Told(runs, numbered, Finished, text, op, cid, ns)
              => Told(runs', numbered', Finished', text, op, cid, ns)
         /\ \A text, op, cid, ns, rs :
              /\ Told(runs, numbered, Finished, text, op, cid, ns)
              /\ Own(runs, forgot, text, rs, ns)
              => Own(runs', forgot', text, rs, ns)
         /\ \A text, op, cid, rs, ns :
              Stands(runs, numbered, Finished, forgot, wiped, text, op, cid, rs, ns)
              => Stands(runs', numbered', Finished', forgot', wiped', text, op, cid, rs, ns)
         /\ \A op, ns :
              Rerun(runs, Finished, op, ns) => Rerun(runs', Finished', op, ns)
<1>1. ASSUME NEW text, NEW op, NEW cid, NEW ns,
             Told(runs, numbered, Finished, text, op, cid, ns)
      PROVE  Told(runs', numbered', Finished', text, op, cid, ns)
  <2>1. text.run \in 1 .. Finished BY <1>1 DEF Told
  <2>2. text.run \in 1 .. Finished' BY <2>1 DEF Grows
  <2> QED BY <1>1, <2>1, <2>2 DEF Told, Grows
<1>2. ASSUME NEW text, NEW op, NEW cid, NEW ns, NEW rs,
             Told(runs, numbered, Finished, text, op, cid, ns),
             Own(runs, forgot, text, rs, ns)
      PROVE  Own(runs', forgot', text, rs, ns)
  BY <1>2 DEF Told, Own, Grows
<1>3. ASSUME NEW op, NEW ns, Rerun(runs, Finished, op, ns)
      PROVE  Rerun(runs', Finished', op, ns)
  <2>1. PICK j \in 1 .. Finished, k \in 1 .. Finished :
          /\ runs[j].what = <<0, op>> /\ runs[j].ns = ns
          /\ runs[k].what = <<0, op>> /\ runs[k].ns = ns
          /\ j # k \/ runs[k].long
    BY <1>3 DEF Rerun
  <2>2. j \in 1 .. Finished' /\ k \in 1 .. Finished' BY DEF Grows
  <2> QED BY <2>1, <2>2 DEF Rerun, Grows
<1>4. ASSUME NEW text, NEW op, NEW cid, NEW rs, NEW ns,
             Stands(runs, numbered, Finished, forgot, wiped, text, op, cid, rs, ns)
      PROVE  Stands(runs', numbered', Finished', forgot', wiped', text, op, cid, rs, ns)
  BY <1>1, <1>2, <1>4 DEF Stands, Grows
<1> QED BY <1>1, <1>2, <1>3, <1>4

\* The messages, when none is new.
LEMMA WireKept ==
  ASSUME Grows, CommandsNumbered, AnswersTold, wire' \subseteq wire
  PROVE  CommandsNumbered' /\ AnswersTold'
<1>1. CommandsNumbered' BY DEF CommandsNumbered, Grows
<1>2. ASSUME NEW m \in wire', m.to = "root"
      PROVE  Stands(runs', numbered', Finished', forgot', wiped', m.text, m.op, m.cid, m.rs,
                    m.ns)
  <2>1. Stands(runs, numbered, Finished, forgot, wiped, m.text, m.op, m.cid, m.rs, m.ns)
    BY <1>2 DEF AnswersTold
  <2> QED BY <2>1, StaysTold
<1> QED BY <1>1, <1>2 DEF AnswersTold

\* A new command, numbered.
LEMMA WireCommand ==
  ASSUME Grows, CommandsNumbered, AnswersTold, NEW x, x.to = "node",
         NumberOf(x) \in numbered', wire' = wire \cup {x}
  PROVE  CommandsNumbered' /\ AnswersTold'
<1>1. CommandsNumbered' BY DEF CommandsNumbered, Grows
<1>2. ASSUME NEW m \in wire', m.to = "root"
      PROVE  Stands(runs', numbered', Finished', forgot', wiped', m.text, m.op, m.cid, m.rs,
                    m.ns)
  <2>1. Stands(runs, numbered, Finished, forgot, wiped, m.text, m.op, m.cid, m.rs, m.ns)
    BY <1>2 DEF AnswersTold
  <2> QED BY <2>1, StaysTold
<1> QED BY <1>1, <1>2 DEF AnswersTold

\* A new answer, told.
LEMMA WireAnswer ==
  ASSUME Grows, CommandsNumbered, AnswersTold, NEW x, x.to = "root",
         Stands(runs', numbered', Finished', forgot', wiped', x.text, x.op, x.cid, x.rs, x.ns),
         wire' = wire \cup {x}
  PROVE  CommandsNumbered' /\ AnswersTold'
<1>1. CommandsNumbered' BY DEF CommandsNumbered, Grows
<1>2. ASSUME NEW m \in wire', m.to = "root"
      PROVE  Stands(runs', numbered', Finished', forgot', wiped', m.text, m.op, m.cid, m.rs,
                    m.ns)
  <2>1. CASE m \in wire
    <3>1. Stands(runs, numbered, Finished, forgot, wiped, m.text, m.op, m.cid, m.rs, m.ns)
      BY <1>2, <2>1 DEF AnswersTold
    <3> QED BY <3>1, StaysTold
  <2>2. CASE m = x BY <2>2
  <2> QED BY <2>1, <2>2
<1> QED BY <1>1, <1>2 DEF AnswersTold

LEMMA CacheKept ==
  ASSUME Grows, CacheTold, cache' = cache, session'["node"] = session["node"],
         \A i \in 1 .. CacheSize : cache[i].used =>
           \/ rootSeen' = rootSeen
           \/ session["node"] \in forgot'
  PROVE  CacheTold'
<1>1. ASSUME NEW i \in 1 .. CacheSize, cache[i].used
      PROVE  /\ Told(runs', numbered', Finished', cache[i].text, cache[i].op, cache[i].cid,
                     session["node"])
             /\ Own(runs', forgot', cache[i].text, rootSeen', session["node"])
  <2>1. /\ Told(runs, numbered, Finished, cache[i].text, cache[i].op, cache[i].cid,
                session["node"])
        /\ Own(runs, forgot, cache[i].text, rootSeen, session["node"])
    BY <1>1 DEF CacheTold
  <2>2. CASE rootSeen' = rootSeen
    BY <2>1, <2>2, StaysTold
  <2>3. CASE session["node"] \in forgot'
    BY <2>1, <2>3, StaysTold DEF Own
  <2> QED BY <1>1, <2>2, <2>3
<1> QED BY <1>1 DEF CacheTold

LEMMA ResultsKept ==
  ASSUME Grows, ResultsTold, results' = results
  PROVE  ResultsTold'
<1>1. ASSUME NEW i \in 1 .. ResultSize, results[i].used
      PROVE  LET r == results[i]
             IN  /\ Stands(runs', numbered', Finished', forgot', wiped', r.text, r.op, r.cid,
                           r.rs, r.ns)
                 /\ r.op # 0 /\ r.changed =>
                      Rerun(runs', Finished', r.op, r.ns) \/ r.ns \in wiped'
  <2> DEFINE r == results[i]
  <2>1. /\ Stands(runs, numbered, Finished, forgot, wiped, r.text, r.op, r.cid, r.rs, r.ns)
        /\ r.op # 0 /\ r.changed => Rerun(runs, Finished, r.op, r.ns) \/ r.ns \in wiped
    BY <1>1 DEF ResultsTold
  <2> QED BY <2>1, StaysTold DEF Grows
<1> QED BY <1>1 DEF ResultsTold

----------------------------------------------------------------------------
(* Steps that run no command: the parts of the invariant they leave alone *)

\* Nothing is run, numbered or noted.
LEMMA Quiet ==
  ASSUME CommandsInv, UNCHANGED <<numbered, runs, busy>>, forgot \subseteq forgot',
         wiped \subseteq wiped'
  PROVE  Grows /\ Finished' = Finished /\ Idle' = Idle
<1>1. Finished \in Nat BY FinishedIs DEF CommandsInv
<1>2. Finished' = Finished /\ Idle' = Idle BY DEF Finished, Idle
<1> QED BY <1>1, <1>2 DEF Grows

\* The runs and the cache are as they were.
LEMMA RunsKept ==
  ASSUME CommandsInv,
         UNCHANGED <<runs, busy, cache, cacheNext>>, session'["node"] = session["node"],
         numbered \subseteq numbered', rootSeen' = rootSeen \/ Idle
  PROVE  Running' /\ Recent' /\ AtMostOnce'
<1>1. Running'
  <2>1. CASE Idle
    <3>1. ~busy.used BY <2>1, BusyIs DEF CommandsInv
    <3> QED BY <3>1 DEF Running
  <2>2. CASE rootSeen' = rootSeen
    BY <2>2 DEF CommandsInv, Running, Bound
  <2> QED BY <2>1, <2>2
<1>2. Recent' BY DEF CommandsInv, Recent, Finished, Idle
<1>3. AtMostOnce' BY DEF CommandsInv, AtMostOnce
<1> QED BY <1>1, <1>2, <1>3

\* The cache is cleared, beside a command that may be running or with a restart.
LEMMA RunsCleared ==
  ASSUME CommandsInv, CacheClear, UNCHANGED <<numbered, forgot>>, wiped \subseteq wiped',
         \/ UNCHANGED <<busy, session, rootSeen>>
         \/ busy' = Free
  PROVE  Grows /\ Running' /\ Recent' /\ AtMostOnce' /\ CacheTold'
<1>1. /\ runs' \in Seq(Run) /\ Len(runs') = Len(runs)
      /\ \A i \in 1 .. Len(runs) :
           /\ runs'[i].what = runs[i].what /\ runs'[i].rs = runs[i].rs
           /\ runs'[i].ns = runs[i].ns /\ runs'[i].long = runs[i].long
           /\ ~runs'[i].live
      /\ \A i \in 1 .. CacheSize : ~cache'[i].used
  BY Clears DEF CommandsInv
<1>2. /\ Len(runs) \in Nat /\ Finished \in Nat /\ Finished <= Len(runs)
      /\ Idle => Finished = Len(runs)
      /\ ~Idle => Finished + 1 = Len(runs)
  BY FinishedIs DEF CommandsInv
<1>3. Finished' \in Nat /\ Finished <= Finished' /\ Finished' <= Len(runs)
  BY <1>1, <1>2 DEF Finished, Idle
<1>4. Grows BY <1>1, <1>2, <1>3 DEF Grows
<1>5. Running'
  <2>1. CASE busy' = Free BY <2>1, FreeIs DEF Running
  <2>2. CASE UNCHANGED <<busy, session, rootSeen>>
    <3>1. ASSUME busy.used
          PROVE  /\ busy.m.to = "node" /\ Bound("node", busy.m)' /\ NumberOf(busy.m) \in numbered
                 /\ Len(runs) > 0
                 /\ LET last == runs[Len(runs)]
                    IN last.what = busy.m.what /\ last.rs = busy.m.rs /\ last.ns = busy.m.ns
      BY <2>2, <3>1 DEF CommandsInv, Running, Bound
    <3> QED BY <1>1, <1>2, <2>2, <3>1 DEF Running, NumberOf
  <2> QED BY <2>1, <2>2
<1>6. Recent' BY <1>1, <1>2, <1>3 DEF Recent
<1>7. AtMostOnce' BY <1>1 DEF AtMostOnce
<1>8. CacheTold' BY <1>1 DEF CacheTold
<1> QED BY <1>4, <1>5, <1>6, <1>7, <1>8

----------------------------------------------------------------------------
(* The link and what upsets it *)

LEMMA SessionsKept ==
  ASSUME LinkTypes, UNCHANGED <<session, upsets>>,
         {peer', rootSeen'} \subseteq Sessions, helloAcks' \subseteq Sessions
  PROVE  LinkTypes'
BY DEF LinkTypes

LEMMA SessionIs ==
  ASSUME LinkTypes
  PROVE  \A e \in Ends : session[e] \in Sessions \ {0}
BY CommandsAssumption DEF LinkTypes, Sessions

LEMMA UpsetIs ==
  ASSUME LinkTypes, Upset
  PROVE  upsets' \in 0 .. MaxUpsets /\ upsets' = upsets + 1
BY CommandsAssumption DEF LinkTypes, Upset

LEMMA HelloStep ==
  ASSUME CommandsInv, HandleHello PROVE CommandsInv'
<1>1. /\ peer' = session["node"] /\ wire' \subseteq wire
      /\ helloAcks' = helloAcks \cup {session["root"]}
      /\ UNCHANGED <<session, rootSeen, upsets, nextId, results, resultNext, cache,
                     cacheNext, busy, numbered, runs, forgot, wiped>>
  BY DEF HandleHello, root, node, hist
<1>2. Grows BY <1>1, Quiet
<1>3. LinkTypes'
  <2>1. {session["node"], session["root"]} \subseteq Sessions
    BY SessionIs DEF CommandsInv, Ends
  <2> QED BY <1>1, <2>1, SessionsKept DEF CommandsInv, LinkTypes
<1>4. StateTypes' BY <1>1 DEF CommandsInv, StateTypes
<1>5. Numbering' BY <1>1 DEF CommandsInv, Numbering
<1>6. CommandsNumbered' /\ AnswersTold' BY <1>1, <1>2, WireKept DEF CommandsInv
<1>7. CacheTold' BY <1>1, <1>2, CacheKept DEF CommandsInv
<1>8. ResultsTold' BY <1>1, <1>2, ResultsKept DEF CommandsInv
<1>9. Running' /\ Recent' /\ AtMostOnce' BY <1>1, RunsKept
<1> QED BY <1>3, <1>4, <1>5, <1>6, <1>7, <1>8, <1>9 DEF CommandsInv

\* A HELLO_ACK, of the root's boot of now or a late one.
LEMMA BindStep ==
  ASSUME CommandsInv, NEW rs, Bind(rs), UNCHANGED upsets \/ Upset
  PROVE  CommandsInv'
<1>1. /\ Idle /\ rs \in helloAcks /\ rootSeen' = rs
      /\ UNCHANGED <<session, peer, helloAcks, wire, nextId, results, resultNext, busy,
                     numbered, forgot, wiped>>
      /\ IF RootSessionChanged(rootSeen, rs) THEN CacheClear
         ELSE UNCHANGED <<cache, cacheNext, runs>>
  BY DEF Bind, root
<1>2. LinkTypes'
  <2>1. upsets' \in 0 .. MaxUpsets /\ upsets <= upsets'
    BY UpsetIs DEF CommandsInv, LinkTypes
  <2> QED BY <1>1, <2>1 DEF CommandsInv, LinkTypes
<1>3. Numbering' BY <1>1 DEF CommandsInv, Numbering
<1>4. CASE RootSessionChanged(rootSeen, rs)
  <2>1. CacheClear BY <1>1, <1>4
  <2>2. Grows /\ Running' /\ Recent' /\ AtMostOnce' /\ CacheTold'
    BY <1>1, <2>1, RunsCleared DEF Idle
  <2>3. StateTypes' BY <1>1, <2>1, Clears DEF CommandsInv, StateTypes
  <2>4. CommandsNumbered' /\ AnswersTold' BY <1>1, <2>2, WireKept DEF CommandsInv
  <2>5. ResultsTold' BY <1>1, <2>2, ResultsKept DEF CommandsInv
  <2> QED BY <1>2, <1>3, <2>2, <2>3, <2>4, <2>5 DEF CommandsInv
<1>5. CASE ~RootSessionChanged(rootSeen, rs)
  <2>1. UNCHANGED <<cache, cacheNext, runs>> BY <1>1, <1>5
  <2>2. Grows BY <1>1, <2>1, Quiet
  <2>3. StateTypes' BY <1>1, <2>1 DEF CommandsInv, StateTypes
  <2>4. CommandsNumbered' /\ AnswersTold' BY <1>1, <2>2, WireKept DEF CommandsInv
  <2>5. ResultsTold' BY <1>1, <2>2, ResultsKept DEF CommandsInv
  <2>6. Running' /\ Recent' /\ AtMostOnce' BY <1>1, <2>1, RunsKept
  <2>7. ASSUME NEW i \in 1 .. CacheSize, cache[i].used
        PROVE  rootSeen' = rootSeen \/ session["node"] \in forgot'
    <3>1. CASE rootSeen = rs BY <1>1, <3>1
    <3>2. CASE rootSeen = 0
      <4>1. /\ cache[i].text.run \in 1 .. Finished
            /\ runs[cache[i].text.run].rs = 0 \/ session["node"] \in forgot
        BY <2>7, <3>2 DEF CommandsInv, CacheTold, Told, Own
      <4>2. Finished <= Len(runs) /\ Len(runs) \in Nat /\ Finished \in Nat
        BY FinishedIs DEF CommandsInv
      <4>3. runs[cache[i].text.run] \in Run
        BY <4>1, <4>2 DEF CommandsInv, StateTypes
      <4>4. runs[cache[i].text.run].rs # 0 BY <4>3 DEF Run
      <4> QED BY <1>1, <4>1, <4>4
    <3> QED BY <1>5, <3>1, <3>2 DEF RootSessionChanged
  <2>8. CacheTold' BY <1>1, <2>1, <2>2, <2>7, CacheKept DEF CommandsInv
  <2> QED BY <1>2, <1>3, <2>3, <2>4, <2>5, <2>6, <2>8 DEF CommandsInv
<1> QED BY <1>4, <1>5

LEMMA ExhaustedRootStep ==
  ASSUME CommandsInv, ExhaustedRoot PROVE CommandsInv'
<1>1. /\ Upset /\ peer' = 0 /\ wire' \subseteq wire
      /\ UNCHANGED <<session, rootSeen, helloAcks, nextId, results, resultNext, cache,
                     cacheNext, busy, numbered, runs, forgot, wiped>>
  BY DEF ExhaustedRoot, Drop, root, node, hist
<1>2. Grows BY <1>1, Quiet
<1>3. LinkTypes'
  <2>1. upsets' \in 0 .. MaxUpsets /\ upsets' = upsets + 1
    BY <1>1, UpsetIs DEF CommandsInv
  <2>2. 0 \in Sessions BY CommandsAssumption DEF Sessions
  <2> QED BY <1>1, <2>1, <2>2 DEF CommandsInv, LinkTypes
<1>4. StateTypes' BY <1>1 DEF CommandsInv, StateTypes
<1>5. Numbering' BY <1>1 DEF CommandsInv, Numbering
<1>6. CommandsNumbered' /\ AnswersTold' BY <1>1, <1>2, WireKept DEF CommandsInv
<1>7. CacheTold' BY <1>1, <1>2, CacheKept DEF CommandsInv
<1>8. ResultsTold' BY <1>1, <1>2, ResultsKept DEF CommandsInv
<1>9. Running' /\ Recent' /\ AtMostOnce' BY <1>1, RunsKept
<1> QED BY <1>3, <1>4, <1>5, <1>6, <1>7, <1>8, <1>9 DEF CommandsInv

LEMMA ExhaustedNodeStep ==
  ASSUME CommandsInv, ExhaustedNode PROVE CommandsInv'
<1>1. /\ Upset /\ Idle /\ rootSeen' = 0 /\ wire' \subseteq wire
      /\ forgot' = IF cache = FreeRing(CacheSize) THEN forgot
                   ELSE forgot \cup {session["node"]}
      /\ UNCHANGED <<session, peer, helloAcks, nextId, results, resultNext, cache,
                     cacheNext, busy, numbered, runs, wiped>>
  BY DEF ExhaustedNode, Drop, root, node
<1>2. Grows BY <1>1, Quiet
<1>3. LinkTypes'
  <2>1. upsets' \in 0 .. MaxUpsets /\ upsets' = upsets + 1
    BY <1>1, UpsetIs DEF CommandsInv
  <2>2. 0 \in Sessions BY CommandsAssumption DEF Sessions
  <2> QED BY <1>1, <2>1, <2>2 DEF CommandsInv, LinkTypes
<1>4. StateTypes' BY <1>1 DEF CommandsInv, StateTypes
<1>5. Numbering' BY <1>1 DEF CommandsInv, Numbering
<1>6. CommandsNumbered' /\ AnswersTold' BY <1>1, <1>2, WireKept DEF CommandsInv
<1>7. CacheTold'
  <2>1. CacheSize \in Nat BY CommandsAssumption
  <2>2. ASSUME NEW i \in 1 .. CacheSize, cache[i].used PROVE session["node"] \in forgot'
    BY <1>1, <2>1, <2>2, FreeRingIs
  <2> QED BY <1>1, <1>2, <2>2, CacheKept DEF CommandsInv
<1>8. ResultsTold' BY <1>1, <1>2, ResultsKept DEF CommandsInv
<1>9. Running' /\ Recent' /\ AtMostOnce' BY <1>1, RunsKept
<1> QED BY <1>3, <1>4, <1>5, <1>6, <1>7, <1>8, <1>9 DEF CommandsInv

LEMMA ForgetStep ==
  ASSUME CommandsInv, ForgetRoot PROVE CommandsInv'
<1>1. /\ Upset /\ CacheClear
      /\ UNCHANGED <<session, peer, rootSeen, helloAcks, wire, nextId, results, resultNext,
                     busy, numbered, forgot, wiped>>
  BY DEF ForgetRoot, binding, root
<1>2. Grows /\ Running' /\ Recent' /\ AtMostOnce' /\ CacheTold'
  BY <1>1, RunsCleared
<1>3. LinkTypes'
  <2>1. upsets' \in 0 .. MaxUpsets /\ upsets' = upsets + 1
    BY <1>1, UpsetIs DEF CommandsInv
  <2> QED BY <1>1, <2>1 DEF CommandsInv, LinkTypes
<1>4. StateTypes' BY <1>1, Clears DEF CommandsInv, StateTypes
<1>5. Numbering' BY <1>1 DEF CommandsInv, Numbering
<1>6. CommandsNumbered' /\ AnswersTold' BY <1>1, <1>2, WireKept DEF CommandsInv
<1>7. ResultsTold' BY <1>1, <1>2, ResultsKept DEF CommandsInv
<1> QED BY <1>2, <1>3, <1>4, <1>5, <1>6, <1>7 DEF CommandsInv

LEMMA BootSessions ==
  ASSUME LinkTypes, NEW e \in Ends, Boot(e)
  PROVE  /\ upsets' \in 0 .. MaxUpsets
         /\ session' \in [Ends -> Nat]
         /\ \A f \in Ends : session'[f] \in 1 .. upsets' + 1
         /\ \A f \in Ends \ {e} : session'[f] = session[f]
<1>1. upsets' \in 0 .. MaxUpsets /\ upsets' = upsets + 1
  BY UpsetIs DEF Boot
<1> QED BY <1>1 DEF LinkTypes, Boot

LEMMA RebootRootStep ==
  ASSUME CommandsInv, RebootRoot PROVE CommandsInv'
<1>1. /\ Boot("root") /\ wire' \subseteq wire /\ peer' = 0 /\ nextId' = 1
      /\ results' = FreeRing(ResultSize) /\ resultNext' = 0
      /\ UNCHANGED <<rootSeen, helloAcks, cache, cacheNext, busy, numbered, runs, forgot, wiped>>
  BY DEF RebootRoot, node, hist
<1>2. Grows BY <1>1, Quiet
<1>3. /\ upsets' \in 0 .. MaxUpsets
      /\ session' \in [Ends -> Nat]
      /\ \A f \in Ends : session'[f] \in 1 .. upsets' + 1
      /\ session'["node"] = session["node"]
  BY <1>1, BootSessions DEF CommandsInv, Ends
<1>4. LinkTypes'
  <2>1. 0 \in Sessions BY CommandsAssumption DEF Sessions
  <2> QED BY <1>1, <1>3, <2>1 DEF CommandsInv, LinkTypes
<1>5. ResultSize \in Nat \ {0} BY CommandsAssumption
<1>6. /\ results' \in [1 .. ResultSize -> {Free} \cup ResultEntry]
      /\ \A i \in 1 .. ResultSize : ~results'[i].used
  <2>1. /\ FreeRing(ResultSize) \in [1 .. ResultSize -> {Free} \cup ResultEntry]
        /\ \A i \in 1 .. ResultSize : ~FreeRing(ResultSize)[i].used
    BY <1>5, FreeRingIs
  <2> QED BY <1>1, <2>1
<1>7. StateTypes'
  <2>1. nextId' \in Nat /\ resultNext' \in 0 .. ResultSize - 1 BY <1>1, <1>5
  <2> QED BY <1>1, <1>6, <2>1 DEF CommandsInv, StateTypes
<1>8. Numbering' BY <1>1 DEF CommandsInv, Numbering
<1>9. CommandsNumbered' /\ AnswersTold' BY <1>1, <1>2, WireKept DEF CommandsInv
<1>10. CacheTold' BY <1>1, <1>2, <1>3, CacheKept DEF CommandsInv
<1>11. ResultsTold' BY <1>6 DEF ResultsTold
<1>12. Running' /\ Recent' /\ AtMostOnce' BY <1>1, <1>3, RunsKept
<1> QED BY <1>4, <1>7, <1>8, <1>9, <1>10, <1>11, <1>12 DEF CommandsInv

LEMMA RebootNodeStep ==
  ASSUME CommandsInv, RebootNode PROVE CommandsInv'
<1>1. /\ Boot("node") /\ wire' \subseteq wire /\ helloAcks' = {} /\ rootSeen' = 0
      /\ CacheClear /\ busy' = Free
      /\ UNCHANGED <<peer, nextId, results, resultNext, numbered, forgot, wiped>>
  BY DEF RebootNode, root
<1>2. Grows /\ Running' /\ Recent' /\ AtMostOnce' /\ CacheTold'
  BY <1>1, RunsCleared
<1>3. LinkTypes'
  <2>1. 0 \in Sessions BY CommandsAssumption DEF Sessions
  <2>2. /\ upsets' \in 0 .. MaxUpsets
        /\ session' \in [Ends -> Nat]
        /\ \A f \in Ends : session'[f] \in 1 .. upsets' + 1
    BY <1>1, BootSessions DEF CommandsInv, Ends
  <2> QED BY <1>1, <2>1, <2>2 DEF CommandsInv, LinkTypes
<1>4. StateTypes' BY <1>1, Clears DEF CommandsInv, StateTypes
<1>5. Numbering' BY <1>1 DEF CommandsInv, Numbering
<1>6. CommandsNumbered' /\ AnswersTold' BY <1>1, <1>2, WireKept DEF CommandsInv
<1>7. ResultsTold' BY <1>1, <1>2, ResultsKept DEF CommandsInv
<1> QED BY <1>2, <1>3, <1>4, <1>5, <1>6, <1>7 DEF CommandsInv

----------------------------------------------------------------------------
(* The root sends *)

\* A command is numbered, or sent again as it was.
LEMMA Numbers ==
  ASSUME numbered \subseteq Number, IsFiniteSet(numbered), Numbering, NEW n \in Number,
         numbered' = numbered \cup {n},
         n.op # 0 => n.what = <<0, n.op>>,
         n.op = 0 => n.what[1] # 0 /\ n.what[2] = Cardinality(numbered)
  PROVE  IsFiniteSet(numbered') /\ Numbering'
<1>1. Cardinality(numbered) \in Nat
  BY FS_CardinalityType
<1>2. /\ IsFiniteSet(numbered')
      /\ Cardinality(numbered') =
           IF n \in numbered THEN Cardinality(numbered) ELSE Cardinality(numbered) + 1
  BY FS_AddElement
<1>3. n.op = 0 => n \notin numbered
  BY <1>1 DEF Numbering
<1>4. ASSUME NEW k \in numbered', k.op = 0
      PROVE  k.what[1] # 0 /\ k.what[2] < Cardinality(numbered')
  <2>1. CASE k \in numbered
    <3>1. k.what[1] # 0 /\ k.what[2] < Cardinality(numbered)
      BY <1>4, <2>1 DEF Numbering
    <3>2. k.what[2] \in Nat BY <2>1 DEF Number
    <3> QED BY <1>1, <1>2, <3>1, <3>2
  <2>2. CASE k = n BY <1>1, <1>2, <1>3, <1>4, <2>2
  <2> QED BY <2>1, <2>2
<1>5. ASSUME NEW j \in numbered', NEW k \in numbered', j.op = 0, k.op = 0, j.what = k.what
      PROVE  j = k
  <2>1. CASE j \in numbered /\ k \in numbered BY <1>5, <2>1 DEF Numbering
  <2>2. ASSUME NEW i \in numbered, i.op = 0, n.op = 0, i.what = n.what PROVE FALSE
    <3>1. i.what[2] < Cardinality(numbered) BY <2>2 DEF Numbering
    <3>2. i.what[2] = Cardinality(numbered) BY <2>2
    <3> QED BY <1>1, <3>1, <3>2
  <2> QED BY <1>5, <2>1, <2>2
<1>6. \A k \in numbered' : k.op # 0 => k.what = <<0, k.op>>
  BY DEF Numbering
<1> QED BY <1>2, <1>4, <1>5, <1>6 DEF Numbering

LEMMA DispatchStep ==
  ASSUME CommandsInv, NEW cid \in Nat, NEW op \in Ops \cup {0}, NEW what \in Nat \X Nat,
         Dispatch(cid, op, what), nextId' \in Nat,
         UNCHANGED <<link, results, resultNext, node, runs, forgot, wiped>>,
         op # 0 => what = <<0, op>>,
         op = 0 => what = <<session["root"], Cardinality(numbered)>>
  PROVE  CommandsInv'
<1> DEFINE x == [to |-> "node", rs |-> session["root"], ns |-> peer, cid |-> cid,
                 op |-> op, what |-> what, text |-> Text(0, FALSE)]
           n == [rs |-> session["root"], cid |-> cid, op |-> op, what |-> what]
<1>1. wire' = wire \cup {x} /\ numbered' = numbered \cup {n}
  BY DEF Dispatch
<1>2. UNCHANGED <<session, peer, rootSeen, helloAcks, upsets, results, resultNext, cache,
                  cacheNext, busy, runs, forgot, wiped>>
  BY DEF link, binding, node
<1>3. session["root"] \in Nat \ {0} /\ peer \in Nat
  BY SessionIs DEF CommandsInv, LinkTypes, Ends, Sessions
<1>4. Text(0, FALSE) \in TextType
  BY CommandsAssumption DEF Text, TextType
<1>5. x \in Message /\ x.to = "node" /\ NumberOf(x) = n
  BY <1>3, <1>4 DEF Message, Ends, NumberOf
<1>6. n \in Number /\ n.op = op /\ n.what = what
  BY <1>3 DEF Number
<1> HIDE DEF x, n
<1>7. IsFiniteSet(numbered') /\ Numbering'
  <2>1. op = 0 => what[1] # 0 /\ what[2] = Cardinality(numbered)
    BY <1>3
  <2> QED BY <1>1, <1>6, <2>1, Numbers DEF CommandsInv, StateTypes
<1>8. Grows
  <2>1. Finished \in Nat BY FinishedIs DEF CommandsInv
  <2>2. Finished' = Finished BY <1>2 DEF Finished, Idle
  <2> QED BY <1>1, <1>2, <2>1, <2>2 DEF Grows
<1>9. LinkTypes' BY <1>2 DEF CommandsInv, LinkTypes
<1>10. StateTypes' BY <1>1, <1>2, <1>5, <1>6, <1>7 DEF CommandsInv, StateTypes
<1>11. CommandsNumbered' /\ AnswersTold' BY <1>1, <1>5, <1>8, WireCommand DEF CommandsInv
<1>12. CacheTold' BY <1>2, <1>8, CacheKept DEF CommandsInv
<1>13. ResultsTold' BY <1>2, <1>8, ResultsKept DEF CommandsInv
<1>14. Running' /\ Recent' /\ AtMostOnce' BY <1>1, <1>2, RunsKept
<1> QED BY <1>7, <1>9, <1>10, <1>11, <1>12, <1>13, <1>14 DEF CommandsInv

LEMMA SendStep ==
  ASSUME CommandsInv,
         SendCommand \/ SendOperation \/ SendLogCtrl \/ \E op \in Ops : AskAgain(op)
  PROVE  CommandsInv'
<1>1. /\ session["root"] \in Nat \ {0} /\ nextId \in Nat
      /\ numbered \subseteq Number /\ Cardinality(numbered) \in Nat
  BY SessionIs, FS_CardinalityType DEF CommandsInv, Ends, Sessions, StateTypes
<1>2. Ops \subseteq Nat \ {0} /\ LogIds \subseteq Nat BY CommandsAssumption
<1> DEFINE new == <<session["root"], Cardinality(numbered)>>
<1>3. new \in Nat \X Nat BY <1>1
<1>4. CASE SendCommand
  <2>1. /\ Dispatch(nextId, 0, new) /\ nextId' = nextId + 1
        /\ UNCHANGED <<link, results, resultNext, node, runs, forgot, wiped>>
    BY <1>4 DEF SendCommand, NextCommandId, TakeId
  <2> QED BY <1>1, <1>3, <2>1, DispatchStep
<1>5. CASE SendOperation
  <2>1. PICK op \in Ops : Dispatch(nextId, op, <<0, op>>)
    BY <1>5 DEF SendOperation, NextCommandId
  <2>2. /\ nextId' = nextId + 1
        /\ UNCHANGED <<link, results, resultNext, node, runs, forgot, wiped>>
    BY <1>5 DEF SendOperation, TakeId
  <2>3. op # 0 /\ <<0, op>> \in Nat \X Nat /\ nextId' \in Nat BY <1>1, <1>2, <2>2
  <2> QED BY <1>1, <2>1, <2>2, <2>3, DispatchStep
<1>6. CASE SendLogCtrl
  <2>1. PICK cid \in LogIds : Dispatch(cid, 0, new)
    BY <1>6 DEF SendLogCtrl
  <2>2. nextId' = nextId /\ UNCHANGED <<link, results, resultNext, node, runs, forgot, wiped>>
    BY <1>6 DEF SendLogCtrl, root
  <2>3. cid \in Nat BY <1>2
  <2> QED BY <1>1, <1>3, <2>1, <2>2, <2>3, DispatchStep
<1>7. ASSUME NEW op \in Ops, AskAgain(op) PROVE CommandsInv'
  <2>1. PICK n \in numbered : n.op = op /\ Dispatch(n.cid, op, n.what)
    BY <1>7 DEF AskAgain
  <2>2. nextId' = nextId /\ UNCHANGED <<link, results, resultNext, node, runs, forgot, wiped>>
    BY <1>7 DEF AskAgain, root
  <2>3. n.cid \in Nat /\ n.what \in Nat \X Nat BY <1>1 DEF Number
  <2>4. op # 0 /\ n.what = <<0, op>>
    BY <1>2, <2>1 DEF CommandsInv, Numbering
  <2> QED BY <1>1, <2>1, <2>2, <2>3, <2>4, DispatchStep
<1> QED BY <1>4, <1>5, <1>6, <1>7

----------------------------------------------------------------------------
(* The node: a command is answered from the cache, begun, finished *)

\* A command the node takes, and its answer with some text.
LEMMA AnswerIs ==
  ASSUME LinkTypes, NEW m \in Message, NEW text \in TextType
  PROVE  LET x == [m EXCEPT !.to = "root", !.rs = rootSeen, !.text = text]
         IN  /\ x \in Message /\ x.to = "root" /\ x.rs = rootSeen /\ x.text = text
             /\ x.op = m.op /\ x.cid = m.cid /\ x.ns = m.ns
<1>1. rootSeen \in Nat BY DEF LinkTypes, Sessions
<1>2. "root" \in Ends BY DEF Ends
<1>3. [m EXCEPT !.to = "root", !.rs = rootSeen, !.text = text] =
      [[[m EXCEPT !.to = "root"] EXCEPT !.rs = rootSeen] EXCEPT !.text = text]
  OBVIOUS
<1> QED BY <1>1, <1>2, <1>3 DEF Message

LEMMA DeliverAgainStep ==
  ASSUME CommandsInv, NEW m \in wire, Bound("node", m), DeliverAgain(m)
  PROVE  CommandsInv'
<1>1. PICK i \in Cached(m) : Answer(m, cache[i].text)
  BY DEF DeliverAgain
<1>2. UNCHANGED <<session, peer, rootSeen, helloAcks, upsets, nextId, results, resultNext,
                  cache, cacheNext, busy, numbered, runs, forgot, wiped>>
  BY DEF DeliverAgain, link, binding, root, node, hist
<1>3. i \in 1 .. CacheSize /\ cache[i].used /\ Same(cache[i], m.op, m.cid)
  BY DEF Cached
<1>4. cache[i] \in CacheEntry
  <2>1. cache[i] \in {Free} \cup CacheEntry BY <1>3 DEF CommandsInv, StateTypes
  <2> QED BY <1>3, <2>1, FreeIs
<1>5. m \in Message /\ cache[i].text \in TextType
  BY <1>4 DEF CommandsInv, StateTypes, CacheEntry
<1> DEFINE x == [m EXCEPT !.to = "root", !.rs = rootSeen, !.text = cache[i].text]
<1>6. /\ x \in Message /\ x.to = "root" /\ x.rs = rootSeen /\ x.text = cache[i].text
      /\ x.op = m.op /\ x.cid = m.cid /\ x.ns = m.ns
  BY <1>5, AnswerIs DEF CommandsInv
<1> HIDE DEF x
<1>7. wire' = wire \cup {x} BY <1>1 DEF Answer, x
<1>8. /\ Told(runs, numbered, Finished, x.text, x.op, x.cid, x.ns)
      /\ Own(runs, forgot, x.text, x.rs, x.ns)
  <2>1. /\ Told(runs, numbered, Finished, cache[i].text, cache[i].op, cache[i].cid,
                session["node"])
        /\ Own(runs, forgot, cache[i].text, rootSeen, session["node"])
    BY <1>3 DEF CommandsInv, CacheTold
  <2>2. m.ns = session["node"] BY DEF Bound
  <2>3. cache[i].op = m.op /\ (m.op = 0 => cache[i].cid = m.cid)
    BY <1>3 DEF Same
  <2>4. Told(runs, numbered, Finished, cache[i].text, m.op, m.cid, m.ns)
    BY <2>1, <2>2, <2>3 DEF Told
  <2> QED BY <1>6, <2>1, <2>2, <2>4
<1>9. Grows /\ Finished' = Finished BY <1>2, Quiet
<1>10. CommandsNumbered' /\ AnswersTold'
  <2>1. Stands(runs', numbered', Finished', forgot', wiped', x.text, x.op, x.cid, x.rs, x.ns)
    BY <1>2, <1>8, <1>9 DEF Stands
  <2> QED BY <1>6, <1>7, <1>9, <2>1, WireAnswer DEF CommandsInv
<1>11. LinkTypes' /\ Numbering' BY <1>2 DEF CommandsInv, LinkTypes, Numbering
<1>12. StateTypes' BY <1>2, <1>6, <1>7 DEF CommandsInv, StateTypes
<1>13. CacheTold' BY <1>2, <1>9, CacheKept DEF CommandsInv
<1>14. ResultsTold' BY <1>2, <1>9, ResultsKept DEF CommandsInv
<1>15. Running' /\ Recent' /\ AtMostOnce' BY <1>2, RunsKept
<1> QED BY <1>10, <1>11, <1>12, <1>13, <1>14, <1>15 DEF CommandsInv

\* The entry is cleared while its result is sent.
LEMMA DeliverWipedStep ==
  ASSUME CommandsInv, NEW m \in wire, DeliverWiped(m)
  PROVE  CommandsInv'
<1>1. /\ Upset /\ CacheClear /\ Answer(m, Text(0, FALSE)) /\ wiped' = wiped \cup {m.ns}
      /\ UNCHANGED <<session, peer, rootSeen, helloAcks, nextId, results, resultNext, busy,
                     numbered, forgot>>
  BY DEF DeliverWiped, binding, root
<1>2. Grows /\ Running' /\ Recent' /\ AtMostOnce' /\ CacheTold'
  BY <1>1, RunsCleared
<1>3. LinkTypes'
  <2>1. upsets' \in 0 .. MaxUpsets /\ upsets' = upsets + 1
    BY <1>1, UpsetIs DEF CommandsInv
  <2> QED BY <1>1, <2>1 DEF CommandsInv, LinkTypes
<1> DEFINE text == Text(0, FALSE)
           x == [m EXCEPT !.to = "root", !.rs = rootSeen, !.text = text]
<1>4. text \in TextType /\ text.run = 0
  BY CommandsAssumption DEF Text, TextType
<1> HIDE DEF text
<1>5. x \in Message /\ x.to = "root" /\ x.text = text /\ x.ns = m.ns
  <2>1. m \in Message BY DEF CommandsInv, StateTypes
  <2>2. /\ x \in Message /\ x.to = "root" /\ x.rs = rootSeen /\ x.text = text
        /\ x.op = m.op /\ x.cid = m.cid /\ x.ns = m.ns
    BY <1>4, <2>1, AnswerIs DEF CommandsInv
  <2> QED BY <2>2
<1> HIDE DEF x
<1>6. wire' = wire \cup {x} BY <1>1 DEF Answer, x, text
<1>7. CommandsNumbered' /\ AnswersTold'
  <2>1. Stands(runs', numbered', Finished', forgot', wiped', x.text, x.op, x.cid, x.rs, x.ns)
    BY <1>1, <1>4, <1>5 DEF Stands
  <2> QED BY <1>2, <1>5, <1>6, <2>1, WireAnswer DEF CommandsInv
<1>8. StateTypes' BY <1>1, <1>5, <1>6, Clears DEF CommandsInv, StateTypes
<1>9. Numbering' BY <1>1 DEF CommandsInv, Numbering
<1>10. ResultsTold' BY <1>1, <1>2, ResultsKept DEF CommandsInv
<1> QED BY <1>2, <1>3, <1>7, <1>8, <1>9, <1>10 DEF CommandsInv

\* The slots of the ring.
LEMMA SlotIs ==
  ASSUME NEW next \in 0 .. CacheSize - 1, NEW age \in 0 .. CacheSize - 1
  PROVE  Slot(next, age) \in 1 .. CacheSize
BY CommandsAssumption DEF Slot

\* A live run of the same command that is recent enough is known to the cache.
LEMMA RecentIsCached ==
  ASSUME CommandsInv, NEW m \in wire, m.to = "node", NEW i \in 1 .. Finished,
         runs[i].live, Finished - i < CacheSize, runs[i].what = m.what
  PROVE  Cached(m) # {}
<1> DEFINE s == Slot(cacheNext, Finished - i)
<1>1. Finished \in Nat BY FinishedIs DEF CommandsInv
<1>2. Finished - i \in 0 .. CacheSize - 1 BY <1>1, CommandsAssumption
<1>3. s \in 1 .. CacheSize BY <1>2, SlotIs DEF CommandsInv, StateTypes
<1>4. cache[s].used /\ cache[s].text.run = i
  BY DEF CommandsInv, Recent
<1> HIDE DEF s
<1>5. PICK n \in numbered : /\ n.what = runs[i].what /\ n.op = cache[s].op
                            /\ cache[s].op = 0 => n.cid = cache[s].cid
  BY <1>3, <1>4 DEF CommandsInv, CacheTold, Told
<1>6. m \in Message /\ NumberOf(m) \in numbered
  BY DEF CommandsInv, StateTypes, CommandsNumbered
<1> DEFINE k == NumberOf(m)
<1>7. k.what = m.what /\ k.op = m.op /\ k.cid = m.cid
  BY DEF NumberOf
<1> HIDE DEF k
<1>8. k \in numbered /\ k.what = n.what BY <1>5, <1>6, <1>7 DEF k
<1>9. /\ n.op # 0 => n.what = <<0, n.op>>
      /\ n.op = 0 => n.what[1] # 0
      /\ k.op # 0 => k.what = <<0, k.op>>
      /\ k.op = 0 => k.what[1] # 0
      /\ n.op = 0 /\ k.op = 0 => n = k
  BY <1>8 DEF CommandsInv, Numbering
<1>10. n.op = k.op /\ (k.op = 0 => n.cid = k.cid)
  <2>1. CASE n.op # 0 /\ k.op # 0
    <3>1. <<0, n.op>> = <<0, k.op>> BY <1>8, <1>9, <2>1
    <3> QED BY <2>1, <3>1
  <2>2. CASE n.op # 0 /\ k.op = 0
    <3>1. n.what[1] = 0 BY <1>9, <2>2
    <3> QED BY <1>8, <1>9, <2>2, <3>1
  <2>3. CASE n.op = 0 /\ k.op # 0
    <3>1. k.what[1] = 0 BY <1>9, <2>3
    <3> QED BY <1>8, <1>9, <2>3, <3>1
  <2>4. CASE n.op = 0 /\ k.op = 0 BY <1>9, <2>4
  <2> QED BY <2>1, <2>2, <2>3, <2>4
<1>11. Same(cache[s], m.op, m.cid)
  BY <1>5, <1>7, <1>10 DEF Same
<1> QED BY <1>3, <1>4, <1>11 DEF Cached

LEMMA DeliverNewStep ==
  ASSUME CommandsInv, Idle, NEW m \in wire, m.to = "node", Bound("node", m), DeliverNew(m)
  PROVE  CommandsInv'
<1> DEFINE new == [what |-> m.what, rs |-> m.rs, ns |-> m.ns, live |-> TRUE, long |-> FALSE]
<1>1. /\ Cached(m) = {} /\ Len(runs) < MaxRuns
      /\ busy' = [used |-> TRUE, m |-> m] /\ runs' = Append(runs, new)
      /\ UNCHANGED <<session, peer, rootSeen, helloAcks, upsets, wire, nextId, results,
                     resultNext, cache, cacheNext, numbered, forgot, wiped>>
  BY DEF DeliverNew, link, binding, root
<1>2. m \in Message /\ m.rs # 0
  BY DEF CommandsInv, StateTypes, Bound
<1>3. new \in Run /\ new.what = m.what /\ new.rs = m.rs /\ new.ns = m.ns /\ new.live
  BY <1>2 DEF Message, Run
<1> HIDE DEF new
<1>4. runs \in Seq(Run) /\ Len(runs) \in Nat /\ Finished = Len(runs)
  BY FinishedIs DEF CommandsInv, StateTypes
<1>5. /\ runs' \in Seq(Run) /\ Len(runs') = Len(runs) + 1
      /\ \A i \in 1 .. Len(runs) : runs'[i] = runs[i]
      /\ runs'[Len(runs) + 1] = new
  BY <1>1, <1>3, <1>4
<1>6. busy'.used /\ busy'.m = m /\ busy' # Free /\ busy' \in [used: {TRUE}, m: Message]
  BY <1>1, <1>2 DEF Free
<1>7. Finished' = Len(runs)
  BY <1>4, <1>5, <1>6 DEF Finished, Idle
<1>8. Grows BY <1>1, <1>4, <1>5, <1>7 DEF Grows
<1>9. LinkTypes' /\ Numbering' BY <1>1 DEF CommandsInv, LinkTypes, Numbering
<1>10. StateTypes'
  <2>1. Len(runs') <= MaxRuns BY <1>1, <1>4, <1>5, CommandsAssumption
  <2> QED BY <1>1, <1>5, <1>6, <2>1 DEF CommandsInv, StateTypes
<1>11. CommandsNumbered' /\ AnswersTold' BY <1>1, <1>8, WireKept DEF CommandsInv
<1>12. CacheTold' BY <1>1, <1>8, CacheKept DEF CommandsInv
<1>13. ResultsTold' BY <1>1, <1>8, ResultsKept DEF CommandsInv
<1>14. Running'
  <2>1. Bound("node", m)' BY <1>1 DEF Bound
  <2>2. NumberOf(m) \in numbered BY DEF CommandsInv, CommandsNumbered
  <2>3. Len(runs') > 0 /\ runs'[Len(runs')] = new BY <1>4, <1>5
  <2> QED BY <1>1, <1>3, <1>6, <2>1, <2>2, <2>3 DEF Running, Bound, NumberOf
<1>15. Recent' BY <1>1, <1>4, <1>5, <1>7 DEF CommandsInv, Recent
<1>16. AtMostOnce'
  <2>1. SUFFICES ASSUME NEW i \in 1 .. Len(runs'), NEW j \in 1 .. Len(runs'), i < j,
                        runs'[i].what = runs'[j].what, runs'[i].live, runs'[j].live
                 PROVE  j - i > CacheSize
    BY DEF AtMostOnce
  <2>2. i \in 1 .. Len(runs) BY <1>4, <1>5, <2>1
  <2>3. CASE j \in 1 .. Len(runs)
    BY <1>5, <2>1, <2>2, <2>3 DEF CommandsInv, AtMostOnce
  <2>4. CASE j = Len(runs) + 1
    <3>1. runs[i].what = m.what /\ runs[i].live BY <1>3, <1>5, <2>1, <2>2, <2>4
    <3>2. ~(Finished - i < CacheSize) BY <1>1, <1>4, <2>2, <3>1, RecentIsCached
    <3> QED BY <1>4, <2>2, <2>4, <3>2, CommandsAssumption
  <2> QED BY <1>4, <1>5, <2>3, <2>4
<1> QED BY <1>9, <1>10, <1>11, <1>12, <1>13, <1>14, <1>15, <1>16 DEF CommandsInv

\* The ring turns by one entry at a time.
LEMMA Turns ==
  ASSUME NEW size \in Nat \ {0}, NEW next \in 0 .. size - 1
  PROVE  /\ Turn(next, size) = next + 1
         /\ (next + 1) % size = IF next + 1 = size THEN 0 ELSE next + 1
<1>1. next % size = next OBVIOUS
<1>2. next + 1 # size => (next + 1) % size = next + 1 OBVIOUS
<1>3. size % size = 0 OBVIOUS
<1> QED BY <1>1, <1>2, <1>3 DEF Turn

\* What was stored before is one store older.
LEMMA SlotsAge ==
  ASSUME NEW next \in 0 .. CacheSize - 1, NEW after,
         after = IF next + 1 = CacheSize THEN 0 ELSE next + 1
  PROVE  /\ Slot(after, 0) = next + 1
         /\ \A age \in 0 .. CacheSize - 2 :
              Slot(after, age + 1) = Slot(next, age) /\ Slot(next, age) # next + 1
BY CommandsAssumption DEF Slot

\* What Finish does, for one of the two results.
Finishes(m, run, long) ==
  /\ CacheStore(m, run, long)
  /\ runs' = [runs EXCEPT ![run] = [@ EXCEPT !.live = TRUE, !.long = long]]
  /\ Answer(m, Text(run, FALSE))

LEMMA FinishStep ==
  ASSUME CommandsInv, Finish PROVE CommandsInv'
<1> DEFINE m == busy.m
           run == Len(runs)
           next == cacheNext
<1>1. /\ ~Idle /\ busy' = Free
      /\ UNCHANGED <<session, peer, rootSeen, helloAcks, upsets, nextId, results,
                     resultNext, numbered, forgot, wiped>>
  BY DEF Finish, link, binding, root
<1>2. PICK long \in BOOLEAN : Finishes(m, run, long)
  BY DEF Finish, Finishes
<1>3. /\ busy.used /\ m \in Message /\ m.to = "node" /\ Bound("node", m)
      /\ NumberOf(m) \in numbered
      /\ run > 0 /\ runs[run].what = m.what /\ runs[run].rs = m.rs /\ runs[run].ns = m.ns
      /\ ~runs[run].live => \A i \in 1 .. run : ~runs[i].live
  BY <1>1, BusyIs DEF CommandsInv, Running
<1>4. /\ runs \in Seq(Run) /\ run \in Nat \ {0} /\ Finished + 1 = run /\ Finished \in Nat
      /\ run <= MaxRuns /\ run \in 1 .. run /\ runs[run] \in Run
  <2>1. runs \in Seq(Run) /\ run <= MaxRuns BY DEF CommandsInv, StateTypes
  <2>2. run \in Nat /\ Finished + 1 = run /\ Finished \in Nat
    BY <1>1, FinishedIs DEF CommandsInv
  <2> QED BY <1>3, <2>1, <2>2
<1>5. /\ runs' \in Seq(Run) /\ Len(runs') = run
      /\ \A i \in 1 .. run : i # run => runs'[i] = runs[i]
      /\ runs'[run].what = m.what /\ runs'[run].rs = m.rs /\ runs'[run].ns = m.ns
      /\ runs'[run].live /\ runs'[run].long = long
  <2>1. PICK b, e :
          /\ b \in BOOLEAN /\ b
          /\ e = [runs[run] EXCEPT !.live = b, !.long = long]
          /\ runs' = [runs EXCEPT ![run] = e]
    BY <1>2, Zenon DEF Finishes
  <2>2. e = [[runs[run] EXCEPT !.live = b] EXCEPT !.long = long]
    BY <2>1
  <2>3. /\ e \in Run /\ e.what = runs[run].what /\ e.rs = runs[run].rs
        /\ e.ns = runs[run].ns /\ e.live = b /\ e.long = long
    BY <1>4, <2>1, <2>2 DEF Run
  <2>4. runs' = [runs EXCEPT ![run] = e] /\ b BY <2>1
  <2>5. /\ runs' \in Seq(Run) /\ Len(runs') = run /\ runs'[run] = e
        /\ \A i \in 1 .. run : i # run => runs'[i] = runs[i]
    BY <1>4, <2>3, <2>4
  <2> QED BY <1>3, <2>3, <2>4, <2>5
<1>6. Finished' = run BY <1>1, <1>5 DEF Finished, Idle
<1>7. Grows BY <1>1, <1>4, <1>5, <1>6 DEF Grows
<1>8. next \in 0 .. CacheSize - 1 /\ CacheSize \in Nat \ {0}
  BY CommandsAssumption DEF CommandsInv, StateTypes
<1> DEFINE e == Entry(m, run, long)
<1>9. /\ cache' = [cache EXCEPT ![next + 1] = e]
      /\ cacheNext' = IF next + 1 = CacheSize THEN 0 ELSE next + 1
      /\ next + 1 \in 1 .. CacheSize
  <2>1. /\ Turn(next, CacheSize) = next + 1
        /\ (next + 1) % CacheSize = IF next + 1 = CacheSize THEN 0 ELSE next + 1
    BY <1>8, Turns
  <2>2. /\ cache' = [cache EXCEPT ![Turn(next, CacheSize)] = e]
        /\ cacheNext' = (next + 1) % CacheSize
    BY <1>2 DEF Finishes, CacheStore
  <2>3. next + 1 \in 1 .. CacheSize BY <1>8
  <2> HIDE DEF e
  <2> QED BY <2>1, <2>2, <2>3, Zenon
<1>10. /\ Text(run, long) \in TextType
       /\ Text(run, long).run = run /\ Text(run, long).cut = long
  BY <1>4, TextIs, CommandsAssumption
<1>11. /\ e \in CacheEntry /\ e.used /\ e.cid = m.cid /\ e.op = m.op
       /\ e.text = Text(run, long) /\ e.text.run = run
  BY <1>3, <1>10 DEF Entry, CacheEntry, Message
<1> HIDE DEF e
<1>12. /\ cache' \in [1 .. CacheSize -> {Free} \cup CacheEntry]
       /\ cache'[next + 1] = e
       /\ \A i \in 1 .. CacheSize : i # next + 1 => cache'[i] = cache[i]
  BY <1>9, <1>11 DEF CommandsInv, StateTypes
\* The two texts of this run are told.
<1>13. ASSUME NEW text, text.run = run, text.cut => long
       PROVE  /\ Told(runs', numbered', Finished', text, m.op, m.cid, m.ns)
              /\ Own(runs', forgot', text, m.rs, m.ns)
  <2>1. run \in 1 .. Finished' BY <1>4, <1>6
  <2>2. NumberOf(m) \in numbered' BY <1>1, <1>3
  <2>3. LET n == NumberOf(m)
        IN  n.rs = m.rs /\ n.what = m.what /\ n.op = m.op /\ n.cid = m.cid
    BY DEF NumberOf
  <2> QED BY <1>5, <1>13, <2>1, <2>2, <2>3 DEF Told, Own
<1>14. m.rs = rootSeen /\ m.ns = session["node"]
  BY <1>3 DEF Bound
<1>15. CommandsNumbered' /\ AnswersTold' /\ wire' \subseteq Message
  <2> DEFINE text == Text(run, FALSE)
             x == [m EXCEPT !.to = "root", !.rs = rootSeen, !.text = text]
  <2>1. text \in TextType /\ text.run = run /\ ~text.cut
    BY <1>4, CommandsAssumption DEF Text, TextType
  <2> HIDE DEF text
  <2>2. /\ x \in Message /\ x.to = "root" /\ x.rs = rootSeen /\ x.text = text
        /\ x.op = m.op /\ x.cid = m.cid /\ x.ns = m.ns
    BY <1>3, <2>1, AnswerIs DEF CommandsInv
  <2> HIDE DEF x
  <2>3. wire' = wire \cup {x} BY <1>2 DEF Finishes, Answer, x, text
  <2>4. Stands(runs', numbered', Finished', forgot', wiped', x.text, x.op, x.cid, x.rs, x.ns)
    BY <1>13, <1>14, <2>1, <2>2 DEF Stands
  <2>5. CommandsNumbered' /\ AnswersTold'
    BY <1>7, <2>2, <2>3, <2>4, WireAnswer DEF CommandsInv
  <2> QED BY <2>2, <2>3, <2>5 DEF CommandsInv, StateTypes
<1>16. LinkTypes' /\ Numbering' BY <1>1 DEF CommandsInv, LinkTypes, Numbering
<1>17. StateTypes'
  <2>1. cacheNext' \in 0 .. CacheSize - 1 BY <1>8, <1>9
  <2>2. Len(runs') <= MaxRuns BY <1>4, <1>5
  <2> QED BY <1>1, <1>5, <1>12, <1>15, <2>1, <2>2 DEF CommandsInv, StateTypes
<1>18. CacheTold'
  <2>1. ASSUME NEW i \in 1 .. CacheSize, cache'[i].used
        PROVE  /\ Told(runs', numbered', Finished', cache'[i].text, cache'[i].op,
                       cache'[i].cid, session["node"])
               /\ Own(runs', forgot', cache'[i].text, rootSeen, session["node"])
    <3>1. CASE i = next + 1
      BY <1>10, <1>11, <1>12, <1>13, <1>14, <3>1
    <3>2. CASE i # next + 1
      <4>1. cache'[i] = cache[i] BY <1>12, <3>2
      <4>2. /\ Told(runs, numbered, Finished, cache[i].text, cache[i].op, cache[i].cid,
                    session["node"])
            /\ Own(runs, forgot, cache[i].text, rootSeen, session["node"])
        BY <2>1, <4>1 DEF CommandsInv, CacheTold
      <4> QED BY <1>7, <4>1, <4>2, StaysTold
    <3> QED BY <3>1, <3>2
  <2> QED BY <1>1, <2>1 DEF CacheTold
<1>19. ResultsTold' BY <1>1, <1>7, ResultsKept DEF CommandsInv
<1>20. Running' BY <1>1, FreeIs DEF Running
<1>21. Recent'
  <2>1. SUFFICES ASSUME NEW i \in 1 .. run, runs'[i].live, run - i < CacheSize
                 PROVE  /\ cache'[Slot(cacheNext', run - i)].used
                        /\ cache'[Slot(cacheNext', run - i)].text.run = i
    BY <1>6 DEF Recent
  <2>2. CASE i = run
    <3>1. run - i = 0 BY <1>4, <2>2
    <3>2. Slot(cacheNext', 0) = next + 1 BY <1>8, <1>9, SlotsAge
    <3> QED BY <1>11, <1>12, <2>2, <3>1, <3>2
  <2>3. CASE i # run
    <3> DEFINE age == Finished - i
    <3>1. /\ i \in 1 .. Finished /\ age \in 0 .. CacheSize - 2 /\ run - i = age + 1
          /\ age \in 0 .. CacheSize - 1 /\ Finished - i < CacheSize
      BY <1>4, <1>8, <2>1, <2>3
    <3>2. runs[i].live BY <1>5, <2>1, <2>3
    <3>3. cache[Slot(next, age)].used /\ cache[Slot(next, age)].text.run = i
      BY <3>1, <3>2 DEF CommandsInv, Recent
    <3> HIDE DEF age
    <3>4. Slot(cacheNext', age + 1) = Slot(next, age) /\ Slot(next, age) # next + 1
      BY <1>8, <1>9, <3>1, SlotsAge
    <3>5. Slot(next, age) \in 1 .. CacheSize BY <1>8, <3>1, SlotIs
    <3> QED BY <1>12, <3>1, <3>3, <3>4, <3>5
  <2> QED BY <2>2, <2>3
<1>22. AtMostOnce'
  <2>1. SUFFICES ASSUME NEW i \in 1 .. run, NEW j \in 1 .. run, i < j,
                        runs'[i].what = runs'[j].what, runs'[i].live, runs'[j].live
                 PROVE  j - i > CacheSize
    BY <1>5 DEF AtMostOnce
  <2>2. i # run /\ runs'[i] = runs[i] BY <1>4, <1>5, <2>1
  <2>3. runs[j].what = runs'[j].what BY <1>3, <1>5
  <2>4. runs[j].live
    <3>1. CASE j = run BY <1>3, <2>1, <2>2, <3>1
    <3>2. CASE j # run BY <1>5, <2>1, <3>2
    <3> QED BY <3>1, <3>2
  <2> QED BY <2>1, <2>2, <2>3, <2>4 DEF CommandsInv, AtMostOnce
<1> QED BY <1>15, <1>16, <1>17, <1>18, <1>19, <1>20, <1>21, <1>22 DEF CommandsInv

----------------------------------------------------------------------------
(* The root notes a result *)

\* Two texts of one operation in one boot of the node: they differ only when the
\* operation ran twice or its result was cut.
LEMMA DifferentTexts ==
  ASSUME CommandsInv, NEW s \in TextType, NEW t \in TextType, s # t,
         NEW op, op # 0, NEW cid, NEW k, NEW ns,
         Told(runs, numbered, Finished, s, op, cid, ns),
         Told(runs, numbered, Finished, t, op, k, ns)
  PROVE  Rerun(runs, Finished, op, ns)
<1>1. s.run \in 1 .. Finished /\ t.run \in 1 .. Finished
  BY DEF Told
<1>2. /\ runs[s.run].what = <<0, op>> /\ runs[s.run].ns = ns
      /\ runs[t.run].what = <<0, op>> /\ runs[t.run].ns = ns
  BY DEF Told, CommandsInv, Numbering
<1>3. s.run # t.run \/ s.cut # t.cut
  BY DEF TextType
<1>4. s.run # t.run \/ runs[s.run].long
  <2>1. CASE s.run = t.run
    <3>1. s.cut \in BOOLEAN /\ t.cut \in BOOLEAN BY DEF TextType
    <3>2. s.cut \/ t.cut BY <1>3, <2>1, <3>1
    <3> QED BY <2>1, <3>2 DEF Told
  <2> QED BY <2>1
<1> QED BY <1>1, <1>2, <1>4 DEF Rerun

\* One entry of the root's ring is written.
LEMMA ResultWritten ==
  ASSUME CommandsInv, NEW i \in 1 .. ResultSize, NEW r \in ResultEntry,
         results' = [results EXCEPT ![i] = r], resultNext' \in 0 .. ResultSize - 1,
         UNCHANGED <<link, wire, nextId, node, hist>>,
         Stands(runs, numbered, Finished, forgot, wiped, r.text, r.op, r.cid, r.rs, r.ns),
         r.op # 0 /\ r.changed => Rerun(runs, Finished, r.op, r.ns) \/ r.ns \in wiped
  PROVE  CommandsInv'
<1>1. UNCHANGED <<session, peer, rootSeen, helloAcks, upsets, wire, nextId, cache, cacheNext,
                  busy, numbered, runs, forgot, wiped>>
  BY DEF link, binding, node, hist
<1>2. Grows /\ Finished' = Finished BY <1>1, Quiet
<1>3. /\ results' \in [1 .. ResultSize -> {Free} \cup ResultEntry]
      /\ results'[i] = r /\ \A j \in 1 .. ResultSize : j # i => results'[j] = results[j]
  BY DEF CommandsInv, StateTypes
<1>4. LinkTypes' /\ Numbering' BY <1>1 DEF CommandsInv, LinkTypes, Numbering
<1>5. StateTypes' BY <1>1, <1>3 DEF CommandsInv, StateTypes
<1>6. CommandsNumbered' /\ AnswersTold' BY <1>1, <1>2, WireKept DEF CommandsInv
<1>7. CacheTold' BY <1>1, <1>2, CacheKept DEF CommandsInv
<1>8. Running' /\ Recent' /\ AtMostOnce' BY <1>1, RunsKept
<1>9. ResultsTold'
  <2>1. ASSUME NEW j \in 1 .. ResultSize, results'[j].used
        PROVE  LET q == results'[j]
               IN  /\ Stands(runs, numbered, Finished, forgot, wiped, q.text, q.op, q.cid,
                             q.rs, q.ns)
                   /\ q.op # 0 /\ q.changed =>
                        Rerun(runs, Finished, q.op, q.ns) \/ q.ns \in wiped
    <3>1. CASE j = i BY <1>3, <3>1
    <3>2. CASE j # i
      <4>1. results'[j] = results[j] BY <1>3, <3>2
      <4> QED BY <2>1, <4>1 DEF CommandsInv, ResultsTold
    <3> QED BY <3>1, <3>2
  <2> QED BY <1>1, <1>2, <2>1 DEF ResultsTold
<1> QED BY <1>4, <1>5, <1>6, <1>7, <1>8, <1>9 DEF CommandsInv

LEMMA NoteStep ==
  ASSUME CommandsInv, NoteResult PROVE CommandsInv'
<1>1. PICK m \in wire : m.to = "root" /\ Bound("root", m) /\ (NewResult(m) \/ KnownResult(m))
  BY DEF NoteResult
<1>2. UNCHANGED <<link, wire, nextId, node, hist>> BY DEF NoteResult
<1>3. m \in Message /\ m.rs = session["root"] /\ m.ns = peer
  BY <1>1 DEF CommandsInv, StateTypes, Bound
<1>4. Stands(runs, numbered, Finished, forgot, wiped, m.text, m.op, m.cid, m.rs, m.ns)
  BY <1>1 DEF CommandsInv, AnswersTold
<1>5. /\ m.cid \in Nat /\ m.op \in Ops \cup {0} /\ m.text \in TextType
      /\ m.rs \in Nat /\ m.ns \in Nat
  BY <1>3 DEF Message
<1>6. resultNext \in 0 .. ResultSize - 1 /\ ResultSize \in Nat \ {0}
  BY CommandsAssumption DEF CommandsInv, StateTypes
<1>7. CASE NewResult(m)
  <2>1. PICK b, r :
          /\ b \in BOOLEAN /\ ~b
          /\ r = [used |-> TRUE, rs |-> session["root"], ns |-> peer,
                  cid |-> m.cid, op |-> m.op, text |-> m.text, changed |-> b]
          /\ results' = [results EXCEPT ![Turn(resultNext, ResultSize)] = r]
          /\ resultNext' = (resultNext + 1) % ResultSize
    BY <1>7, Zenon DEF NewResult
  <2>2. /\ r \in ResultEntry /\ r.rs = m.rs /\ r.ns = m.ns /\ r.cid = m.cid /\ r.op = m.op
        /\ r.text = m.text /\ ~r.changed
    BY <1>3, <1>5, <2>1 DEF ResultEntry
  <2>3. /\ Turn(resultNext, ResultSize) \in 1 .. ResultSize
        /\ (resultNext + 1) % ResultSize \in 0 .. ResultSize - 1
    <3>1. /\ Turn(resultNext, ResultSize) = resultNext + 1
          /\ (resultNext + 1) % ResultSize =
               IF resultNext + 1 = ResultSize THEN 0 ELSE resultNext + 1
      BY <1>6, Turns
    <3> QED BY <1>6, <3>1
  <2>4. Stands(runs, numbered, Finished, forgot, wiped, r.text, r.op, r.cid, r.rs, r.ns)
    BY <1>4, <2>2
  <2>5. /\ results' = [results EXCEPT ![Turn(resultNext, ResultSize)] = r]
        /\ resultNext' \in 0 .. ResultSize - 1
    BY <2>1, <2>3
  <2> QED BY <1>2, <2>2, <2>3, <2>4, <2>5, ResultWritten
<1>8. CASE KnownResult(m)
  <2>1. PICK i \in Matching(m) :
          results' = [results EXCEPT ![i] =
                        [@ EXCEPT !.changed = results[i].changed \/ results[i].text # m.text,
                                  !.cid = m.cid, !.text = m.text]]
    BY <1>8 DEF KnownResult
  <2> DEFINE q == results[i]
             b == q.changed \/ q.text # m.text
             r == [q EXCEPT !.changed = b, !.cid = m.cid, !.text = m.text]
  <2>2. /\ i \in 1 .. ResultSize /\ q.used /\ q.rs = m.rs /\ q.ns = m.ns
        /\ Same(q, m.op, m.cid)
    BY <1>3 DEF Matching
  <2>3. q \in ResultEntry
    <3>1. q \in {Free} \cup ResultEntry BY <2>2 DEF CommandsInv, StateTypes
    <3> QED BY <2>2, <3>1, FreeIs
  <2>4. /\ Stands(runs, numbered, Finished, forgot, wiped, q.text, q.op, q.cid, q.rs, q.ns)
        /\ q.op # 0 /\ q.changed => Rerun(runs, Finished, q.op, q.ns) \/ q.ns \in wiped
    BY <2>2 DEF CommandsInv, ResultsTold
  <2>5. q.op = m.op BY <2>2 DEF Same
  <2>6. b \in BOOLEAN OBVIOUS
  <2>7. results' = [results EXCEPT ![i] = r]
    BY <2>1
  <2>8. /\ r \in ResultEntry /\ r.rs = m.rs /\ r.ns = m.ns /\ r.cid = m.cid /\ r.op = m.op
        /\ r.text = m.text /\ r.changed = b
    <3> HIDE DEF b, q
    <3>1. r = [[[q EXCEPT !.changed = b] EXCEPT !.cid = m.cid] EXCEPT !.text = m.text]
      OBVIOUS
    <3>2. q.rs = m.rs /\ q.ns = m.ns /\ q.op = m.op BY <2>2, <2>5
    <3> HIDE DEF r
    <3> QED BY <1>5, <2>3, <2>6, <3>1, <3>2 DEF ResultEntry
  <2>9. r.op # 0 /\ r.changed => Rerun(runs, Finished, r.op, r.ns) \/ r.ns \in wiped
    <3>1. ASSUME m.op # 0, q.text # m.text, m.ns \notin wiped
          PROVE  Rerun(runs, Finished, m.op, m.ns)
      <4>1. Told(runs, numbered, Finished, q.text, m.op, q.cid, m.ns)
        BY <2>2, <2>4, <2>5, <3>1 DEF Stands
      <4>2. q.text \in TextType BY <2>3 DEF ResultEntry
      <4>3. Told(runs, numbered, Finished, m.text, m.op, m.cid, m.ns)
        BY <1>4, <3>1 DEF Stands
      <4> QED BY <1>5, <3>1, <4>1, <4>2, <4>3, DifferentTexts
    <3>2. q.op # 0 /\ q.changed => Rerun(runs, Finished, m.op, m.ns) \/ m.ns \in wiped
      BY <2>2, <2>4, <2>5
    <3> QED BY <2>5, <2>8, <3>1, <3>2
  <2>10. Stands(runs, numbered, Finished, forgot, wiped, r.text, r.op, r.cid, r.rs, r.ns)
    BY <1>4, <2>8
  <2>11. resultNext' \in 0 .. ResultSize - 1 BY <1>6, <1>8 DEF KnownResult
  <2> HIDE DEF r
  <2> QED BY <1>2, <2>2, <2>7, <2>8, <2>9, <2>10, <2>11, ResultWritten
<1> QED BY <1>1, <1>7, <1>8

----------------------------------------------------------------------------
(* The theorems *)

LEMMA InitInv ==
  ASSUME Init PROVE CommandsInv
<1> USE DEF Init
<1>1. CacheSize \in Nat \ {0} /\ ResultSize \in Nat \ {0} /\ MaxRuns \in Nat /\ MaxUpsets \in Nat
  BY CommandsAssumption
<1>2. LinkTypes BY <1>1 DEF LinkTypes, Sessions, Ends
<1>3. /\ FreeRing(CacheSize) \in [1 .. CacheSize -> {Free} \cup CacheEntry]
      /\ \A i \in 1 .. CacheSize : ~FreeRing(CacheSize)[i].used
  BY <1>1, FreeRingIs
<1>4. /\ FreeRing(ResultSize) \in [1 .. ResultSize -> {Free} \cup ResultEntry]
      /\ \A i \in 1 .. ResultSize : ~FreeRing(ResultSize)[i].used
  BY <1>1, FreeRingIs
<1>5. StateTypes
  <2>1. IsFiniteSet(numbered) BY FS_EmptySet
  <2>2. runs \in Seq(Run) /\ Len(runs) = 0 OBVIOUS
  <2> QED BY <1>1, <1>3, <1>4, <2>1, <2>2 DEF StateTypes
<1>6. Numbering BY DEF Numbering
<1>7. CommandsNumbered /\ AnswersTold BY DEF CommandsNumbered, AnswersTold
<1>8. CacheTold /\ ResultsTold BY <1>3, <1>4 DEF CacheTold, ResultsTold
<1>9. Running BY FreeIs DEF Running
<1>10. Recent /\ AtMostOnce BY DEF Recent, AtMostOnce, Finished, Idle
<1> QED BY <1>2, <1>5, <1>6, <1>7, <1>8, <1>9, <1>10 DEF CommandsInv

LEMMA StepInv ==
  ASSUME CommandsInv, [Next]_vars PROVE CommandsInv'
<1>1. CASE HandleHello BY <1>1, HelloStep
<1>2. CASE HandleHelloAck BY <1>2, BindStep DEF HandleHelloAck
<1>3. CASE Disturbance
  BY <1>3, BindStep, ExhaustedRootStep, ExhaustedNodeStep, ForgetStep, RebootRootStep,
     RebootNodeStep DEF Disturbance, LateHelloAck
<1>4. CASE SendCommand \/ SendOperation \/ SendLogCtrl \/ \E op \in Ops : AskAgain(op)
  BY <1>4, SendStep
<1>5. CASE DeliverCommand BY <1>5, DeliverAgainStep, DeliverWipedStep, DeliverNewStep DEF DeliverCommand
<1>6. CASE Finish BY <1>6, FinishStep
<1>7. CASE NoteResult BY <1>7, NoteStep
<1>8. CASE UNCHANGED vars
  <2>1. UNCHANGED <<session, peer, rootSeen, helloAcks, upsets, wire, nextId, results,
                    resultNext, cache, cacheNext, busy, numbered, runs, forgot, wiped>>
    BY <1>8 DEF vars, link, binding, root, node, hist
  <2>2. Grows BY <2>1, Quiet
  <2>3. LinkTypes' /\ StateTypes' /\ Numbering'
    BY <2>1 DEF CommandsInv, LinkTypes, StateTypes, Numbering
  <2>4. CommandsNumbered' /\ AnswersTold' BY <2>1, <2>2, WireKept DEF CommandsInv
  <2>5. CacheTold' /\ ResultsTold' BY <2>1, <2>2, CacheKept, ResultsKept DEF CommandsInv
  <2>6. Running' /\ Recent' /\ AtMostOnce' BY <2>1, RunsKept
  <2> QED BY <2>3, <2>4, <2>5, <2>6 DEF CommandsInv
<1> QED BY <1>1, <1>2, <1>3, <1>4, <1>5, <1>6, <1>7, <1>8 DEF Next

\* The inductive invariant: what the rings and the messages hold was written by the
\* command they name, and the last live runs are in the cache.
THEOREM CommandsInvariant == Spec => []CommandsInv
<1>1. Init => CommandsInv BY InitInv
<1>2. CommandsInv /\ [Next]_vars => CommandsInv' BY StepInv
<1> QED BY <1>1, <1>2, PTL DEF Spec

\* A command that is repeated is not run again while the cache remembers it
\* (command_cache_find, command_cache_store), whatever restarts, late messages and
\* forgotten sessions come between.
THEOREM RunsAtMostOnce == Spec => []AtMostOnce
<1>1. CommandsInv => AtMostOnce BY DEF CommandsInv
<1> QED BY <1>1, CommandsInvariant, PTL

\* What the root's ring says of an operation was written by a run of that operation, in
\* the boot of the node the entry names (note_command_result).
THEOREM ResultsAreSound == Spec => []ResultsSound
<1>1. CommandsInv => TypeOK
  <2> SUFFICES ASSUME CommandsInv PROVE TypeOK
    OBVIOUS
  <2>1. LinkTypes /\ StateTypes /\ Running BY DEF CommandsInv
  <2>2. session \in [Ends -> Sessions]
    BY <2>1, SessionIs DEF LinkTypes
  <2>3. \A m \in wire : m.to \in Ends /\ m.text \in TextType /\ m.op \in Ops \cup {0}
    BY <2>1 DEF StateTypes, Message
  <2>4. \A i \in 1 .. ResultSize : results[i].used => results[i].text \in TextType
    <3>1. ASSUME NEW i \in 1 .. ResultSize, results[i].used PROVE results[i] \in ResultEntry
      <4>1. results[i] \in {Free} \cup ResultEntry BY <2>1 DEF StateTypes
      <4> QED BY <3>1, <4>1, FreeIs
    <3> QED BY <3>1 DEF ResultEntry
  <2>5. \A i \in 1 .. CacheSize : cache[i].used => cache[i].text \in TextType
    <3>1. ASSUME NEW i \in 1 .. CacheSize, cache[i].used PROVE cache[i] \in CacheEntry
      <4>1. cache[i] \in {Free} \cup CacheEntry BY <2>1 DEF StateTypes
      <4> QED BY <3>1, <4>1, FreeIs
    <3> QED BY <3>1 DEF CacheEntry
  <2>6. busy.used => busy.m.to = "node" /\ Bound("node", busy.m)
    BY <2>1 DEF Running
  <2> QED BY <2>1, <2>2, <2>3, <2>4, <2>5, <2>6 DEF LinkTypes, StateTypes, TypeOK
<1>2. CommandsInv => OperationAnswer
  <2> SUFFICES ASSUME CommandsInv, NEW op \in Ops, NEW r \in ForOperation(op, FALSE)
               PROVE  \/ Cleared(r)
                      \/ runs[r.text.run].what = <<0, op>> /\ runs[r.text.run].ns = r.ns
    BY DEF OperationAnswer
  <2>1. op # 0 BY CommandsAssumption
  <2>2. PICK i \in 1 .. ResultSize : results[i].used /\ results[i].op = op /\ r = results[i]
    BY DEF ForOperation
  <2>3. Stands(runs, numbered, Finished, forgot, wiped, r.text, op, r.cid, r.rs, r.ns)
    BY <2>2 DEF CommandsInv, ResultsTold
  <2>4. CASE Told(runs, numbered, Finished, r.text, op, r.cid, r.ns)
    <3>1. runs[r.text.run].what = <<0, op>> BY <2>1, <2>4 DEF Told, CommandsInv, Numbering
    <3> QED BY <2>4, <3>1 DEF Told
  <2> QED BY <2>3, <2>4 DEF Stands, Cleared
<1>3. CommandsInv => ChangedMeansRerun
  <2> SUFFICES ASSUME CommandsInv, NEW i \in 1 .. ResultSize, results[i].used,
                      results[i].op # 0, results[i].changed, results[i].ns \notin wiped
               PROVE  \/ Cardinality(RunsOf(results[i])) > 1
                      \/ \E k \in RunsOf(results[i]) : runs[k].long
    BY DEF ChangedMeansRerun
  <2> DEFINE R == RunsOf(results[i])
  <2>1. Finished \in Nat /\ Len(runs) \in Nat /\ Finished <= Len(runs)
    BY FinishedIs DEF CommandsInv
  <2>2. Rerun(runs, Finished, results[i].op, results[i].ns)
    BY DEF CommandsInv, ResultsTold
  <2>3. PICK j \in R, k \in R : j # k \/ runs[k].long
    BY <2>1, <2>2 DEF Rerun, RunsOf
  <2>4. ASSUME j # k PROVE Cardinality(R) > 1
    <3>1. IsFiniteSet(R)
      <4>1. R \subseteq 1 .. Len(runs) BY DEF RunsOf
      <4>2. IsFiniteSet(1 .. Len(runs)) BY <2>1, FS_Interval
      <4> QED BY <4>1, <4>2, FS_Subset
    <3> HIDE DEF R
    <3>2. Cardinality(R) \in Nat BY <3>1, FS_CardinalityType
    <3>3. Cardinality(R) # 0 BY <3>1, FS_EmptySet
    <3>4. Cardinality(R) # 1 BY <2>4, <3>1, FS_Singleton
    <3> QED BY <3>2, <3>3, <3>4
  <2> QED BY <2>3, <2>4
<1> QED BY <1>1, <1>2, <1>3, CommandsInvariant, PTL DEF ResultsSound

\* A result of the sessions of now that is looked up by number was written by the
\* command that has the number, unless the node forgot the root's session.
THEOREM NumbersAnswered == Spec => []NumberAnswer
<1>1. CommandsInv => NumberAnswer
  <2> SUFFICES ASSUME CommandsInv, NEW n \in numbered, n.rs = session["root"],
                      Cardinality(Numbered(n.cid)) = 1,
                      NEW r \in ForPeer(n.cid, TRUE), r.op = 0
               PROVE  \/ Cleared(r)
                      \/ \A k \in Numbered(n.cid) : runs[r.text.run].what = k.what
                      \/ r.ns \in forgot /\ runs[r.text.run].rs # r.rs
    BY DEF NumberAnswer
  <2>1. PICK i \in 1 .. ResultSize :
          /\ results[i].used /\ results[i].cid = n.cid /\ OfNow(results[i])
          /\ r = results[i]
    BY DEF ForPeer
  <2>2. /\ Stands(runs, numbered, Finished, forgot, wiped, r.text, 0, n.cid, r.rs, r.ns)
        /\ r.rs = session["root"]
    BY <2>1 DEF CommandsInv, ResultsTold, OfNow
  <2> SUFFICES ASSUME Told(runs, numbered, Finished, r.text, 0, n.cid, r.ns),
                      Own(runs, forgot, r.text, r.rs, r.ns)
               PROVE  \/ \A k \in Numbered(n.cid) : runs[r.text.run].what = k.what
                      \/ r.ns \in forgot /\ runs[r.text.run].rs # r.rs
    BY <2>2 DEF Stands, Cleared
  <2>3. CASE runs[r.text.run].rs = r.rs
    <3>1. PICK k \in numbered : /\ k.rs = r.rs /\ k.what = runs[r.text.run].what
                                /\ k.op = 0 /\ k.cid = n.cid
      BY <2>2, <2>3 DEF Told
    <3>2. k \in Numbered(n.cid) BY <2>2, <3>1 DEF Numbered
    <3>3. IsFiniteSet(Numbered(n.cid))
      <4>1. IsFiniteSet(numbered) BY DEF CommandsInv, StateTypes
      <4> QED BY <4>1, FS_Subset DEF Numbered
    <3>4. \E x : Numbered(n.cid) = {x} BY <3>3, FS_Singleton
    <3> QED BY <3>1, <3>2, <3>4
  <2>4. CASE runs[r.text.run].rs # r.rs BY <2>2, <2>4 DEF Own
  <2> QED BY <2>3, <2>4
<1> QED BY <1>1, CommandsInvariant, PTL
=============================================================================
