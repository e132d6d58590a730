----------------------- MODULE WeeklySchedule_proofs -----------------------
(***************************************************************************)
(* Proofs about the weekly schedule (WeeklySchedule.tla), for every calendar *)
(* of configurations, every length of a day and of a week and every course  *)
(* of local time within ZoneAssumption:                                    *)
(*   - edits take effect as a whole, in memory and in NVS  (Whole);         *)
(*   - a scheduled point succeeds once a day               (Whole, Once);   *)
(*   - no point whose minute was crossed is skipped        (Whole, Reached);*)
(*   - get_status() is exact, and what was applied last is the point that   *)
(*     should be in force                                  (Whole, Sync).   *)
(* In brackets the inductive invariants; Whole carries the types and what   *)
(* the stage, the turn of the task and its callback have to do with the     *)
(* configuration, and the other three rest on it.                           *)
(***************************************************************************)
EXTENDS WeeklySchedule, WellFoundedInduction, TLAPS

----------------------------------------------------------------------------
(* Natural numbers *)

\* A set of natural numbers that is not empty has a least element.
LEMMA LeastNatural ==
  ASSUME NEW S \in SUBSET Nat, S # {}
  PROVE  \E m \in S : \A k \in S : m <= k
<1>1. PICK m \in S : \A k \in S : ~(<<k, m>> \in OpToRel(<, Nat))
  BY NatLessThanWellFounded, WFMin, Zenon
<1>2. \A k \in S : ~(k < m)
  BY <1>1 DEF OpToRel
<1> QED
  BY <1>2

\* What holds of 0 and of the successor of each number below N holds up to N.
LEMMA UpTo ==
  ASSUME NEW N \in Nat, NEW S, 0 \in S, \A n \in 0 .. N - 1 : n \in S => n + 1 \in S
  PROVE  \A n \in 0 .. N : n \in S
<1> SUFFICES ASSUME NEW x \in 0 .. N, x \notin S PROVE FALSE
  OBVIOUS
<1> DEFINE T == {n \in 0 .. N : n \notin S}
<1>1. T \in SUBSET Nat /\ T # {}
  OBVIOUS
<1>2. PICK m \in T : \A k \in T : m <= k
  BY <1>1, LeastNatural
<1>3. m # 0 /\ m - 1 \in 0 .. N - 1
  BY <1>2
<1>4. m - 1 \in S
  BY <1>2, <1>3
<1>5. m - 1 + 1 \in S
  BY <1>3, <1>4
<1> QED
  BY <1>2, <1>5

----------------------------------------------------------------------------
(* Constants, configurations, local time *)

Phases == {"idle", "catchUp", "mark", "noLatest", "retry", "points"}

\* A configuration that may be installed
Good(c) == c \in Known /\ ConfigValid(c)

LEMMA Consts ==
  /\ Days \in Nat \ {0} /\ Minutes \in Nat \ {0} /\ Horizon \in Nat \ {0}
  /\ MaxStep \in Nat \ {0} /\ CatchUpOnClockReady \in BOOLEAN
  /\ None \notin Nat /\ None \notin Config /\ None \notin Call
  BY ScheduleAssumption

LEMMA LocalTypes ==
  ASSUME NEW w \in Wall
  PROVE  /\ w \in Nat /\ w <= Horizon /\ w # None
         /\ DayOf(w) \in Nat /\ MinuteOf(w) \in 0 .. Minutes - 1 /\ MinuteOf(w) \in Nat
<1>1. Local[w] \in Nat \X (0 .. Minutes - 1)
  BY ScheduleAssumption
<1> QED
  BY <1>1, Consts DEF Wall, DayOf, MinuteOf

LEMMA DaysGoOn ==
  ASSUME NEW v \in Wall, NEW w \in Wall, v <= w
  PROVE  /\ DayOf(v) <= DayOf(w)
         /\ w - v < MaxStep /\ MinuteOf(v) = MinuteOf(w) => DayOf(v) = DayOf(w)
  BY ZoneAssumption DEF DayOf, MinuteOf

LEMMA PointTypes ==
  ASSUME NEW c \in Config
  PROVE  /\ DOMAIN c.points \subseteq Nat \ {0}
         /\ \A i \in DOMAIN c.points :
              /\ c.points[i] \in Point
              /\ c.points[i].minute \in Nat
              /\ c.points[i].days \subseteq 0 .. Days - 1
              /\ c.points[i].enabled \in BOOLEAN
         /\ c.generation \in Nat \ {0} /\ c.enabled \in BOOLEAN /\ c.persist \in BOOLEAN
         /\ c # None
<1>1. c.points \in Seq(Point)
  BY DEF Config
<1>2. \A i \in DOMAIN c.points : c.points[i] \in Point
  BY <1>1
<1>3. DOMAIN c.points \subseteq Nat \ {0}
  BY <1>1
<1>4. \A p \in Point : p.minute \in Nat /\ p.days \subseteq 0 .. Days - 1 /\ p.enabled \in BOOLEAN
  BY DEF Point
<1> QED
  BY <1>2, <1>3, <1>4, Consts DEF Config

LEMMA DefaultFacts ==
  /\ Default \in Config /\ ConfigValid(Default) /\ Good(Default)
  /\ Default.enabled = FALSE /\ Default.persist = FALSE /\ Default.generation = 1
  /\ DOMAIN Default.points = {} /\ Default # None
<1>1. Default \in Config
  BY DEF Default, Config
<1>2. DOMAIN Default.points = {}
  BY DEF Default
<1> QED
  BY <1>1, <1>2, PointTypes DEF Default, ConfigValid, Good, Known

LEMMA StagedFacts ==
  ASSUME NEW g \in Generations
  PROVE  /\ Configs[g] \in Config /\ Configs[g].generation = g /\ g \in Nat \ {0}
         /\ DOMAIN Configs[g].points \subseteq Indices
         /\ Configs[g] \in Known
<1>1. Configs[g] \in Config /\ Configs[g].generation = g
  BY ScheduleAssumption
<1> QED
  BY <1>1 DEF Config, Indices, Known

LEMMA GoodFacts ==
  ASSUME NEW c, Good(c)
  PROVE  /\ c \in Config /\ DOMAIN c.points \subseteq Indices
         /\ c.enabled => c.generation \in Generations /\ c = Configs[c.generation]
<1>1. CASE c = Default
  BY <1>1, DefaultFacts
<1>2. CASE \E g \in Generations : c = Configs[g]
  BY <1>2, StagedFacts
<1> QED
  BY <1>1, <1>2 DEF Good, Known

LEMMA IndexTypes ==
  Indices \subseteq Nat \ {0}
<1> SUFFICES ASSUME NEW i \in Indices PROVE i \in Nat \ {0}
  OBVIOUS
<1>1. PICK g \in Generations : i \in DOMAIN Configs[g].points
  BY DEF Indices
<1> QED
  BY <1>1, StagedFacts, PointTypes

LEMMA PointsOfFacts ==
  ASSUME NEW c, NEW w, NEW i \in PointsOf(c, w)
  PROVE  /\ i \in DOMAIN c.points /\ AppliesOn(c.points[i], Weekday(w))
         /\ c.points[i].minute = MinuteOf(w)
  BY DEF PointsOf

----------------------------------------------------------------------------
(* The order of a turn *)

LEMMA FirstIs ==
  ASSUME NEW todo \in SUBSET (Nat \X Indices), todo # {}
  PROVE  /\ First(todo) \in todo
         /\ \A y \in todo : \/ First(todo)[1] < y[1]
                            \/ First(todo)[1] = y[1] /\ First(todo)[2] <= y[2]
<1> DEFINE Looks == {x[1] : x \in todo}
<1>1. Looks \in SUBSET Nat /\ Looks # {}
  OBVIOUS
<1>2. PICK k \in Looks : \A j \in Looks : k <= j
  BY <1>1, LeastNatural
<1> DEFINE Here == {x \in todo : x[1] = k}
           Ids == {x[2] : x \in Here}
<1>3. Ids \in SUBSET Nat /\ Ids # {}
  BY <1>2, IndexTypes
<1>4. PICK i \in Ids : \A j \in Ids : i <= j
  BY <1>3, LeastNatural
<1>5. PICK x \in todo : x[1] = k /\ x[2] = i
  BY <1>4
<1>6. ASSUME NEW y \in todo PROVE x[1] < y[1] \/ (x[1] = y[1] /\ x[2] <= y[2])
  <2>1. y[1] \in Looks /\ k <= y[1] /\ k \in Nat /\ y[1] \in Nat
    BY <1>1, <1>2
  <2>2. CASE y[1] = k
    <3>1. y \in Here
      BY <2>2
    <3> QED
      BY <3>1, <1>4, <1>5, <2>2
  <2> QED
    BY <2>1, <2>2, <1>5
<1>7. \E z \in todo : \A y \in todo : z[1] < y[1] \/ (z[1] = y[1] /\ z[2] <= y[2])
  BY <1>5, <1>6, Zenon
<1> QED
  BY <1>7, Zenon DEF First

LEMMA LookFacts ==
  ASSUME NEW k \in Nat, NEW w \in Wall, k <= w + 1
  PROVE  /\ LookAt(k, w) \in Wall /\ LookAt(k, w) <= w
         /\ k <= w => LookAt(k, w) = k
         /\ k > w => LookAt(k, w) = w /\ k = w + 1
  BY Consts DEF LookAt, Wall

\* Later looks are not on earlier days, and within a turn a minute of the day is not
\* looked at on two days.
LEMMA LooksGoOn ==
  ASSUME NEW j \in Nat, NEW k \in Nat, NEW w \in Wall, j <= k, k <= w + 1
  PROVE  /\ DayOf(LookAt(j, w)) <= DayOf(LookAt(k, w)) /\ DayOf(LookAt(k, w)) <= DayOf(w)
         /\ DayOf(LookAt(j, w)) \in Nat
         /\ w - MaxStep < j /\ MinuteOf(LookAt(j, w)) = MinuteOf(LookAt(k, w))
              => DayOf(LookAt(j, w)) = DayOf(LookAt(k, w))
<1> DEFINE u == LookAt(j, w)
           v == LookAt(k, w)
<1>1. w \in Nat /\ j \in Nat /\ k \in Nat /\ MaxStep \in Nat
  BY LocalTypes, Consts
<1>2. u \in Wall /\ v \in Wall /\ u <= v /\ v <= w /\ u \in Nat /\ v \in Nat
      /\ (w - MaxStep < j => v - u < MaxStep)
  BY <1>1, Consts DEF LookAt, Wall
<1> HIDE DEF u, v
<1>3. DayOf(u) <= DayOf(v) /\ DayOf(v) <= DayOf(w) /\ DayOf(u) \in Nat
  BY <1>2, DaysGoOn, LocalTypes
<1>4. w - MaxStep < j /\ MinuteOf(u) = MinuteOf(v) => DayOf(u) = DayOf(v)
  BY <1>2, DaysGoOn
<1> QED
  BY <1>3, <1>4 DEF u, v

----------------------------------------------------------------------------
(* Edits as a whole: the record, the stage, the turn and the callback *)

RecordOK ==
  /\ Good(config)
  /\ nvs # None => Good(nvs) /\ nvs.persist
  /\ lastRun \in [Indices -> Nat \cup {None}] /\ catchUp \in BOOLEAN
  /\ clock \in [valid: BOOLEAN, wall: Wall \cup {None}]
  /\ clock.valid => clock.wall # None
  /\ deadline \in [zero: BOOLEAN, reached: BOOLEAN]
  /\ retry \in [pending: BOOLEAN, generation: Nat, index: Nat, day: Nat]
  /\ retry.pending => /\ retry.generation = config.generation
                      /\ retry.index \in DOMAIN config.points
                      /\ clock.wall # None /\ retry.day <= DayOf(clock.wall)

\* What was received of a generation is part of it.
StageOK ==
  /\ stage \in [active: BOOLEAN, generation: Generations \cup {0}, got: SUBSET Indices,
                points: [Indices -> Point]]
  /\ stage.active =>
       /\ stage.generation \in Generations /\ config.generation <= stage.generation
       /\ stage.got \subseteq DOMAIN Configs[stage.generation].points
       /\ \A i \in stage.got : stage.points[i] = Configs[stage.generation].points[i]

TurnTypes ==
  turn \in [phase: Phases, config: Config, wall: Wall, todo: SUBSET (Nat \X Indices)]

\* What is left to do of a turn is of its configuration and of its last minutes.
TodoOK(c, w, todo) ==
  \A x \in todo : /\ x[1] <= w + 1 /\ w - MaxStep < x[1]
                  /\ x[2] \in PointsOf(c, LookAt(x[1], w))

TurnOK ==
  /\ TurnTypes
  /\ turn.phase = "idle" => turn = Resting /\ call = None
  /\ turn.phase # "idle" =>
       /\ Good(turn.config) /\ turn.config.enabled
       /\ clock.valid /\ clock.wall = turn.wall
       /\ turn.config.generation <= config.generation
       /\ SameConfig => config = turn.config
       /\ TodoOK(turn.config, turn.wall, turn.todo)
  /\ turn.phase = "points" => turn.todo # {}
  /\ turn.phase \in {"catchUp", "mark"} => call # None

CallOK ==
  call # None =>
    /\ call \in Call /\ call.index \in DOMAIN turn.config.points
    /\ turn.phase \in {"catchUp", "mark", "retry", "points"}
    /\ call.day <= DayOf(turn.wall)
    /\ turn.phase \in {"catchUp", "mark"} => call.day = DayOf(turn.wall)
    /\ turn.phase = "mark" <=> call.state = "mark"
    /\ turn.phase = "mark" => turn.config.points[call.index].minute = MinuteOf(turn.wall)
    /\ turn.phase = "points" => /\ call.index = First(turn.todo)[2]
                                /\ call.day = DayAt(First(turn.todo))

Whole == RecordOK /\ StageOK /\ TurnOK /\ CallOK /\ Durable

\* The turn that is left when the phase and what is to do are given
TurnNow(phase, todo) ==
  [phase |-> phase, config |-> turn.config, wall |-> turn.wall, todo |-> todo]

LEMMA RestingTypes ==
  /\ Resting \in [phase: Phases, config: Config, wall: Wall, todo: SUBSET (Nat \X Indices)]
  /\ Resting.phase = "idle" /\ Resting.todo = {} /\ Resting.config = Default
  BY DefaultFacts, Consts DEF Resting, Phases, Wall

LEMMA StageTypes ==
  ASSUME NEW g \in Generations \cup {0}, NEW active \in BOOLEAN
  PROVE  /\ Stage0(active, g) \in [active: BOOLEAN, generation: Generations \cup {0},
                                   got: SUBSET Indices, points: [Indices -> Point]]
         /\ Stage0(active, g).active = active /\ Stage0(active, g).generation = g
         /\ Stage0(active, g).got = {}
<1>1. NoPoint \in Point
  BY DEF NoPoint, Point
<1> QED
  BY <1>1 DEF Stage0

\* Steps that leave the parts alone, or take away from them
LEMMA StageStays ==
  ASSUME StageOK, stage' \in StageNow, config' = config
  PROVE  StageOK'
<1>1. CASE stage' = stage
  BY <1>1 DEF StageOK
<1>2. CASE stage' = NoStage
  BY <1>2, StageTypes DEF StageOK, NoStage
<1> QED
  BY <1>1, <1>2 DEF StageNow

LEMMA MoveFacts ==
  ASSUME TurnTypes, NEW phase, NEW todo
  PROVE  /\ [turn EXCEPT !.phase = phase] = TurnNow(phase, turn.todo)
         /\ To(phase, todo) = IF phase = "points" /\ todo = {} THEN Resting
                              ELSE TurnNow(phase, todo)
<1>1. [turn EXCEPT !.phase = phase] = TurnNow(phase, turn.todo)
  BY DEF TurnTypes, TurnNow
<1> QED
  BY <1>1, Zenon DEF To, TurnNow

LEMMA TurnNowFields ==
  ASSUME NEW phase, NEW todo
  PROVE  /\ TurnNow(phase, todo).phase = phase /\ TurnNow(phase, todo).todo = todo
         /\ TurnNow(phase, todo).config = turn.config /\ TurnNow(phase, todo).wall = turn.wall
  BY DEF TurnNow

\* What follows a callback: the mark of a catch-up, or the next thing to do
LEMMA AfterCallIs ==
  ASSUME TurnOK, CallOK, call # None, call.state \in {"ok", "failed"}
  PROVE  \/ /\ turn.phase = "catchUp" /\ call.state = "ok"
            /\ turn.config.points[call.index].minute = MinuteOf(turn.wall)
            /\ AfterCall = TurnNow("mark", turn.todo)
         \/ /\ turn.phase = "catchUp" /\ AfterCall = TurnNow("retry", turn.todo)
            /\ ~(call.state = "ok"
                 /\ turn.config.points[call.index].minute = MinuteOf(turn.wall))
         \/ /\ turn.phase = "retry" /\ turn.todo = {} /\ AfterCall = Resting
         \/ /\ turn.phase = "retry" /\ turn.todo # {}
            /\ AfterCall = TurnNow("points", turn.todo)
         \/ /\ turn.phase = "points" /\ Rest = {} /\ AfterCall = Resting
         \/ /\ turn.phase = "points" /\ Rest # {} /\ AfterCall = TurnNow("points", Rest)
<1>1. turn.phase \in {"catchUp", "retry", "points"}
  BY DEF CallOK
<1>2. TurnTypes
  BY DEF TurnOK
<1>3. CASE turn.phase = "catchUp"
  BY <1>2, <1>3, MoveFacts DEF AfterCall
<1>4. CASE turn.phase = "retry"
  BY <1>2, <1>4, MoveFacts DEF AfterCall
<1>5. CASE turn.phase = "points"
  BY <1>2, <1>5, MoveFacts DEF AfterCall
<1> QED
  BY <1>1, <1>3, <1>4, <1>5

\* The turn goes on, with what is left to do.
LEMMA GoesOn ==
  ASSUME TurnOK, turn.phase # "idle", NEW phase \in Phases \ {"idle"},
         NEW todo \in SUBSET turn.todo,
         turn' = TurnNow(phase, todo), UNCHANGED <<config, clock>>,
         phase = "points" => todo # {}, phase \in {"catchUp", "mark"} => call' # None
  PROVE  /\ TurnOK'
         /\ turn'.phase = phase /\ turn'.todo = todo
         /\ turn'.config = turn.config /\ turn'.wall = turn.wall
<1>1. /\ turn'.phase = phase /\ turn'.todo = todo
      /\ turn'.config = turn.config /\ turn'.wall = turn.wall
  BY TurnNowFields
<1>2. todo \in SUBSET (Nat \X Indices) /\ turn.config \in Config /\ turn.wall \in Wall
  BY DEF TurnOK, TurnTypes
<1>3. TurnTypes'
  BY <1>2 DEF TurnTypes, TurnNow
<1>4. TodoOK(turn.config, turn.wall, todo)
  BY DEF TurnOK, TodoOK
<1>5. TodoOK(turn.config, turn.wall, todo)'
  BY <1>1, <1>4 DEF TodoOK
<1>6. TodoOK(turn'.config, turn'.wall, turn'.todo)
  BY <1>1, <1>4
<1> QED
  BY <1>1, <1>3, <1>6 DEF TurnOK, SameConfig

LEMMA Rests ==
  ASSUME turn' = Resting, call' = None
  PROVE  TurnOK' /\ CallOK'
  BY RestingTypes DEF TurnOK, TurnTypes, CallOK

\* A step of the turn that is over with the callback, or that has none
LEMMA CallOver ==
  ASSUME call' = None
  PROVE  CallOK'
  BY DEF CallOK

LEMMA RecordStays ==
  ASSUME RecordOK, UNCHANGED <<config, nvs, lastRun, catchUp, clock, retry, deadline>>
  PROVE  RecordOK'
  BY DEF RecordOK

LEMMA TurnStays ==
  ASSUME TurnOK, CallOK, UNCHANGED <<config, turn, call>>,
         clock' = clock \/ turn.phase = "idle"
  PROVE  TurnOK' /\ CallOK'
<1>1. CASE turn.phase = "idle"
  BY <1>1, Rests DEF TurnOK
<1>2. CASE clock' = clock
  BY <1>2 DEF TurnOK, CallOK, TurnTypes, SameConfig, DayAt
<1> QED
  BY <1>1, <1>2

----------------------------------------------------------------------------
(* Edits *)

LEMMA WholeBegin ==
  ASSUME Whole, NEW g \in Generations, g >= config.generation, StageBegin(g)
  PROVE  Whole'
<1>1. RecordOK'
  BY RecordStays DEF Whole, StageBegin
<1>2. TurnOK' /\ CallOK'
  BY TurnStays DEF Whole, StageBegin
<1>3. Durable'
  BY DEF Whole, Durable, StageBegin, history
<1>4. StageOK'
  <2>1. stage' = Stage0(TRUE, g) /\ config' = config
    BY DEF StageBegin
  <2>2. config.generation \in Nat /\ g \in Nat
    BY GoodFacts, PointTypes, StagedFacts DEF Whole, RecordOK
  <2> QED
    BY <2>1, <2>2, StageTypes DEF StageOK
<1> QED
  BY <1>1, <1>2, <1>3, <1>4 DEF Whole

LEMMA WholePoint ==
  ASSUME Whole, NEW g \in Generations, NEW i \in Indices, StagePoint(g, i)
  PROVE  Whole'
<1>1. RecordOK'
  BY RecordStays DEF Whole, StagePoint
<1>2. TurnOK' /\ CallOK'
  BY TurnStays DEF Whole, StagePoint
<1>3. Durable'
  BY DEF Whole, Durable, StagePoint, history
<1>4. StageOK'
  <2>1. PICK s \in StageNow :
          stage' = IF s.active /\ s.generation = g /\ i \in DOMAIN Configs[g].points
                   THEN [s EXCEPT !.got = @ \cup {i}, !.points[i] = Configs[g].points[i]]
                   ELSE s
    BY DEF StagePoint
  <2>2. config' = config
    BY DEF StagePoint
  <2>3. CASE ~(s.active /\ s.generation = g /\ i \in DOMAIN Configs[g].points)
    BY <2>1, <2>2, <2>3, StageStays DEF Whole
  <2>4. CASE s.active /\ s.generation = g /\ i \in DOMAIN Configs[g].points
    <3>1. s = stage
      BY <2>4, StageTypes DEF StageNow, NoStage
    <3>2. Configs[g].points[i] \in Point
      BY <2>4, StagedFacts, PointTypes
    <3> DEFINE p == [stage.points EXCEPT ![i] = Configs[g].points[i]]
    <3>3. p \in [Indices -> Point] /\ p[i] = Configs[g].points[i]
          /\ \A j \in Indices \ {i} : p[j] = stage.points[j]
      BY <3>2 DEF Whole, StageOK
    <3>4. stage' = [stage EXCEPT !.got = stage.got \cup {i},
                                 !.points = [stage.points EXCEPT ![i] = Configs[g].points[i]]]
      BY <2>1, <2>4, <3>1
    <3> QED
      BY <2>2, <2>4, <3>1, <3>3, <3>4 DEF Whole, StageOK
  <2> QED
    BY <2>3, <2>4
<1> QED
  BY <1>1, <1>2, <1>3, <1>4 DEF Whole

\* A stage that has all its points is the configuration a caller staged.
LEMMA CandidateIs ==
  ASSUME Whole, NEW g \in Generations, Committable(g)
  PROVE  /\ Candidate = Configs[g] /\ Good(Candidate)
         /\ Candidate.generation = g /\ config.generation <= g
<1>1. stage.generation = g /\ stage.got = DOMAIN Configs[g].points /\ stage.active
      /\ ConfigValid(Candidate)
  BY DEF Committable
<1>2. \A i \in DOMAIN Configs[g].points : stage.points[i] = Configs[g].points[i]
  BY <1>1 DEF Whole, StageOK
<1>3. Configs[g] \in Config /\ Configs[g].generation = g /\ Configs[g] \in Known
  BY StagedFacts
<1>4. Configs[g].points \in Seq(Point)
  BY <1>3 DEF Config
<1>5. [i \in DOMAIN Configs[g].points |-> stage.points[i]] = Configs[g].points
  BY <1>2, <1>4
<1>6. Candidate = [Configs[g] EXCEPT !.points = Configs[g].points]
  BY <1>1, <1>5, Zenon DEF Candidate
<1>7. Candidate = Configs[g]
  BY <1>3, <1>6 DEF Config
<1> QED
  BY <1>1, <1>3, <1>7 DEF Good, Whole, StageOK

LEMMA FreshTypes ==
  /\ NeverRun \in [Indices -> Nat \cup {None}] /\ \A i \in Indices : NeverRun[i] = None
  /\ NoRetry \in [pending: BOOLEAN, generation: Nat, index: Nat, day: Nat]
  /\ ~NoRetry.pending /\ NoDeadline \in [zero: BOOLEAN, reached: BOOLEAN]
  BY DEF NeverRun, NoRetry, NoDeadline

LEMMA WholeCommit ==
  ASSUME Whole, NEW g \in Generations, StageCommit(g)
  PROVE  Whole'
<1>1. Good(Candidate) /\ Candidate.generation = g /\ config.generation <= g
      /\ Candidate = Configs[g]
  BY CandidateIs DEF StageCommit
<1>2. /\ config' = Candidate /\ lastRun' = NeverRun /\ catchUp' = Candidate.enabled
      /\ retry' = NoRetry /\ deadline' = NoDeadline /\ acked' = Candidate
      /\ nvs' = Persisted(Candidate) /\ stage' = NoStage
      /\ UNCHANGED <<clock, turn, call>>
  BY DEF StageCommit, Installed
<1>3. Candidate \in Config /\ Candidate.enabled \in BOOLEAN /\ Candidate # None
  BY <1>1, GoodFacts, PointTypes
<1>4. RecordOK'
  BY <1>1, <1>2, <1>3, FreshTypes DEF Whole, RecordOK, Persisted
<1>5. StageOK'
  BY <1>2, StageTypes DEF StageOK, NoStage
<1>6. Durable'
  BY <1>2 DEF Durable, Persisted
<1>7. TurnOK' /\ CallOK'
  <2>1. CASE turn.phase = "idle"
    BY <1>2, <2>1, Rests DEF Whole, TurnOK
  <2>2. CASE turn.phase # "idle"
    <3>1. turn.config = Configs[turn.config.generation] /\ turn.config \in Config
          /\ turn.config.generation <= config.generation
      BY <2>2, GoodFacts DEF Whole, TurnOK
    <3>2. turn.config.generation \in Nat /\ config.generation \in Nat /\ g \in Nat
      BY <3>1, PointTypes, StagedFacts, GoodFacts DEF Whole, RecordOK
    <3>3. turn.config.generation <= g /\ (turn.config.generation = g => turn.config = Candidate)
      BY <1>1, <3>1, <3>2
    <3> QED
      BY <1>1, <1>2, <3>3 DEF Whole, TurnOK, CallOK, TurnTypes, SameConfig, DayAt
  <2> QED
    BY <2>1, <2>2
<1> QED
  BY <1>4, <1>5, <1>6, <1>7 DEF Whole

LEMMA WholeFails ==
  ASSUME Whole, NEW g \in Generations, CommitFails(g)
  PROVE  Whole'
<1>1. Good(Candidate) /\ Candidate.generation = g
  BY CandidateIs DEF CommitFails
<1>2. TurnOK' /\ CallOK'
  BY TurnStays DEF Whole, CommitFails
<1>3. StageOK'
  BY StageStays DEF Whole, CommitFails, StageNow
<1>4. Durable'
  BY DEF Durable, CommitFails
<1>5. RecordOK'
  BY <1>1 DEF Whole, RecordOK, CommitFails, Persisted
<1> QED
  BY <1>2, <1>3, <1>4, <1>5 DEF Whole

LEMMA LoadedFacts ==
  ASSUME Whole
  PROVE  Good(Loaded) /\ Loaded \in Config /\ Loaded.enabled \in BOOLEAN /\ Loaded # None
         /\ nvs = IF Loaded.persist THEN Loaded ELSE None
<1>1. Good(Loaded)
  BY DefaultFacts DEF Loaded, Whole, RecordOK
<1> QED
  BY <1>1, GoodFacts, PointTypes, DefaultFacts DEF Loaded, Whole, RecordOK

LEMMA WholeStart ==
  ASSUME Whole, Start
  PROVE  Whole'
<1>1. PICK c \in {Loaded, Default} :
        Installed(c) /\ acked' \in {acked, Loaded} /\ nvs' = nvs
  BY DEF Start, Unread
<1>2. /\ config' = c /\ lastRun' = NeverRun /\ catchUp' = c.enabled
      /\ retry' = NoRetry /\ deadline' = NoDeadline
      /\ stage' = NoStage /\ turn' = Resting /\ call' = None
      /\ clock' = [valid |-> FALSE, wall |-> None]
  BY <1>1 DEF Start, Installed
<1>3. Good(c) /\ c \in Config /\ c.enabled \in BOOLEAN /\ c # None
  <2>1. CASE c = Loaded
    BY <2>1, LoadedFacts
  <2>2. CASE c = Default
    BY <2>2, DefaultFacts, GoodFacts, PointTypes
  <2> QED
    BY <1>1, <2>1, <2>2
<1>4. RecordOK'
  BY <1>1, <1>2, <1>3, FreshTypes DEF Whole, RecordOK
<1>5. StageOK'
  BY <1>2, StageTypes DEF StageOK, NoStage
<1>6. Durable'
  BY <1>1, LoadedFacts DEF Whole, Durable
<1>7. TurnOK' /\ CallOK'
  BY <1>2, Rests
<1> QED
  BY <1>4, <1>5, <1>6, <1>7 DEF Whole

----------------------------------------------------------------------------
(* The latest point and the turn's work *)

LEMMA ValidMinutes ==
  ASSUME NEW c, Good(c), NEW i \in DOMAIN c.points
  PROVE  c.points[i].minute \in 0 .. Minutes - 1
<1>1. c.points[i].minute < Minutes
  BY DEF Good, ConfigValid
<1>2. c.points[i].minute \in Nat
  BY GoodFacts, PointTypes
<1> QED
  BY <1>1, <1>2, Consts

LEMMA PastFacts ==
  ASSUME NEW c, Good(c), NEW weekday \in 0 .. Days - 1, NEW minute \in 0 .. Minutes - 1,
         NEW x \in Past(c, weekday, minute)
  PROVE  /\ x[1] \in 0 .. Days - 1 /\ x[2] \in DOMAIN c.points
         /\ c.points[x[2]].minute \in 0 .. Minutes - 1
         /\ AppliesOn(c.points[x[2]], (weekday - x[1] + Days) % Days)
         /\ x[1] = 0 => c.points[x[2]].minute <= minute
         /\ Age(c, x, minute) \in Nat
<1>1. /\ x[1] \in 0 .. Days - 1 /\ x[2] \in DOMAIN c.points
      /\ AppliesOn(c.points[x[2]], (weekday - x[1] + Days) % Days)
      /\ x[1] = 0 => c.points[x[2]].minute <= minute
  BY DEF Past
<1>2. c.points[x[2]].minute \in 0 .. Minutes - 1
  BY <1>1, ValidMinutes
<1>3. ASSUME NEW b \in Nat, NEW m \in 0 .. Minutes - 1, b = 0 => m <= minute
      PROVE  b * Minutes + minute - m \in Nat
  <2>1. CASE b = 0
    BY <1>3, <2>1, Consts
  <2>2. CASE b > 0
    <3>1. b * Minutes >= Minutes
      BY <2>2, Consts
    <3> QED
      BY <3>1, Consts
  <2> QED
    BY <2>1, <2>2
<1>4. x[1] * Minutes + minute - c.points[x[2]].minute \in Nat
  <2>1. PICK b \in Nat, m \in 0 .. Minutes - 1 : b = x[1] /\ m = c.points[x[2]].minute
    BY <1>1, <1>2, Consts
  <2>2. b * Minutes + minute - m \in Nat
    BY <1>1, <1>3, <2>1
  <2> QED
    BY <2>1, <2>2, Zenon
<1> QED
  BY <1>1, <1>2, <1>4 DEF Age

\* latest_point_index() finds one of the points of the past days, and no younger one.
LEMMA LatestIs ==
  ASSUME NEW c, Good(c), NEW weekday \in 0 .. Days - 1, NEW minute \in 0 .. Minutes - 1
  PROVE  /\ LatestIndex(c, weekday, minute) \in DOMAIN c.points \cup {0}
         /\ LatestIndex(c, weekday, minute) = 0 <=> Past(c, weekday, minute) = {}
         /\ Past(c, weekday, minute) # {} =>
              \E x \in Past(c, weekday, minute) :
                /\ x[2] = LatestIndex(c, weekday, minute)
                /\ \A y \in Past(c, weekday, minute) : Age(c, x, minute) <= Age(c, y, minute)
<1> DEFINE past == Past(c, weekday, minute)
           ages == {Age(c, x, minute) : x \in past}
<1>0. DOMAIN c.points \subseteq Nat \ {0}
  BY GoodFacts, PointTypes
<1>1. CASE past = {}
  BY <1>0, <1>1 DEF LatestIndex
<1>2. CASE past # {}
  <2>1. ages \in SUBSET Nat /\ ages # {}
    BY <1>2, PastFacts
  <2>2. PICK a \in ages : \A b \in ages : a <= b
    BY <2>1, LeastNatural
  <2>3. PICK z \in past : a = Age(c, z, minute)
    BY <2>2
  <2>4. \A y \in past : Age(c, z, minute) <= Age(c, y, minute)
    BY <2>2, <2>3
  <2> DEFINE l == CHOOSE x \in past : \A y \in past : Age(c, x, minute) <= Age(c, y, minute)
  <2>5. l \in past /\ \A y \in past : Age(c, l, minute) <= Age(c, y, minute)
    BY <2>3, <2>4, Zenon
  <2>6. LatestIndex(c, weekday, minute) = l[2]
    BY <1>2 DEF LatestIndex
  <2> HIDE DEF l
  <2>7. l[2] \in DOMAIN c.points
    BY <2>5, PastFacts
  <2> QED
    BY <1>0, <1>2, <2>5, <2>6, <2>7
<1> QED
  BY <1>1, <1>2

LEMMA WeekdayTypes ==
  ASSUME NEW w \in Wall
  PROVE  Weekday(w) \in 0 .. Days - 1
<1>1. PICK d \in Nat : d = DayOf(w)
  BY LocalTypes
<1>2. d % Days \in 0 .. Days - 1
  BY Consts
<1> QED
  BY <1>1, <1>2 DEF Weekday

LEMMA DueFacts ==
  ASSUME NEW c, Good(c), NEW v \in Wall, NEW w \in Wall, v <= w, w <= v + MaxStep
  PROVE  /\ Due(c, v, w) \in SUBSET (Nat \X Indices)
         /\ TodoOK(c, w, Due(c, v, w))
         /\ \A x \in Due(c, v, w) : v < x[1]
<1>1. DOMAIN c.points \subseteq Indices
  BY GoodFacts
<1>2. v \in Nat /\ w \in Nat /\ MaxStep \in Nat
  BY LocalTypes, Consts
<1>3. Due(c, v, w) \in SUBSET (Nat \X Indices)
  BY <1>1, <1>2 DEF Due
<1>4. ASSUME NEW x \in Due(c, v, w)
      PROVE  x[1] <= w + 1 /\ w - MaxStep < x[1] /\ v < x[1]
             /\ x[2] \in PointsOf(c, LookAt(x[1], w))
  BY <1>2, <1>4 DEF Due
<1> QED
  BY <1>3, <1>4 DEF TodoOK

Latest(c, w) == LatestIndex(c, Weekday(w), MinuteOf(w))

LEMMA LatestTypes ==
  ASSUME NEW c, Good(c), NEW w \in Wall
  PROVE  Latest(c, w) \in DOMAIN c.points \cup {0} /\ DOMAIN c.points \subseteq Nat \ {0}
  BY LatestIs, WeekdayTypes, LocalTypes, GoodFacts, PointTypes DEF Latest

\* What a look at the clock makes of the turn
LEMMA GoIs ==
  ASSUME NEW w, NEW todo, NEW catching \in BOOLEAN, Go(w, todo, catching), config.enabled
  PROVE  /\ turn'.config = config /\ turn'.wall = w /\ turn'.todo = todo
         /\ turn'.phase = IF ~catching THEN "retry"
                          ELSE IF Latest(config, w) = 0 THEN "noLatest" ELSE "catchUp"
         /\ turn' = [phase |-> turn'.phase, config |-> config, wall |-> w, todo |-> todo]
         /\ call' = IF catching /\ Latest(config, w) # 0
                    THEN [index |-> Latest(config, w), day |-> DayOf(w), state |-> "due"]
                    ELSE None
<1> DEFINE l == Latest(config, w)
           p == IF ~catching THEN "retry" ELSE IF l = 0 THEN "noLatest" ELSE "catchUp"
<1>1. turn' = [phase |-> p, config |-> config, wall |-> w, todo |-> todo]
  BY DEF Go, Latest
<1>3. call' = IF catching /\ l # 0
              THEN [index |-> l, day |-> DayOf(w), state |-> "due"] ELSE None
  BY DEF Go, Latest
<1> HIDE DEF l, p
<1>4. turn'.phase = p
  BY <1>1
<1> QED
  BY <1>1, <1>3, <1>4 DEF l, p

LEMMA WholeGo ==
  ASSUME Whole, turn.phase = "idle", NEW v \in Wall, NEW w \in Wall, v <= w, w <= v + MaxStep,
         NEW catching \in BOOLEAN, Go(w, Due(config, v, w), catching),
         config' = config, clock' = [valid |-> TRUE, wall |-> w]
  PROVE  TurnOK' /\ CallOK'
<1> DEFINE todo == Due(config, v, w)
<1>0. Good(config) /\ config \in Config
  BY GoodFacts DEF Whole, RecordOK
<1>1. CASE ~config.enabled
  <2>1. turn' = turn /\ call' = None
    BY <1>1 DEF Go
  <2> QED
    BY <2>1, Rests DEF Whole, TurnOK
<1>2. CASE config.enabled
  <2>1. todo \in SUBSET (Nat \X Indices) /\ TodoOK(config, w, todo)
    BY <1>0, DueFacts
  <2> HIDE DEF todo
  <2>2. /\ turn'.config = config /\ turn'.wall = w /\ turn'.todo = todo
        /\ turn'.phase = IF ~catching THEN "retry"
                         ELSE IF Latest(config, w) = 0 THEN "noLatest" ELSE "catchUp"
        /\ turn' = [phase |-> turn'.phase, config |-> config, wall |-> w, todo |-> todo]
        /\ call' = IF catching /\ Latest(config, w) # 0
                   THEN [index |-> Latest(config, w), day |-> DayOf(w), state |-> "due"]
                   ELSE None
    BY <1>2, GoIs DEF todo
  <2>3. turn'.phase \in Phases /\ turn'.phase \notin {"idle", "mark", "points"}
    BY <2>2 DEF Phases
  <2>4. TurnTypes'
    BY <1>0, <2>1, <2>2, <2>3 DEF TurnTypes
  <2>5. config.generation \in Nat
    BY <1>0, PointTypes
  <2>7. Latest(config, w) \in DOMAIN config.points \cup {0}
        /\ DOMAIN config.points \subseteq Nat \ {0}
    BY <1>0, LatestTypes
  <2>6. turn'.phase = "catchUp" => call' # None
    <3>1. ASSUME Latest(config, w) # 0
          PROVE  [index |-> Latest(config, w), day |-> DayOf(w), state |-> "due"] \in Call
      BY <2>7, <3>1, LocalTypes DEF Call
    <3> QED
      BY <2>2, <3>1, Consts
  <2>8. call' # None => call' \in Call /\ call'.index \in DOMAIN config.points
                        /\ call'.day = DayOf(w) /\ call'.state = "due"
                        /\ turn'.phase = "catchUp"
    BY <2>2, <2>7, LocalTypes DEF Call
  <2>9. TodoOK(turn.config, turn.wall, turn.todo)'
    BY <2>1, <2>2 DEF TodoOK
  <2>10. TurnOK'
    <3>1. (clock.valid /\ clock.wall = turn.wall)' /\ config' = config
      BY <2>2
    <3> QED
      BY <1>0, <1>2, <2>2, <2>3, <2>4, <2>5, <2>6, <2>9, <3>1 DEF TurnOK
  <2>11. CallOK'
    <3>1. DayOf(w) <= DayOf(w)
      BY LocalTypes
    <3> QED
      BY <2>2, <2>3, <2>8, <3>1 DEF CallOK
  <2> QED
    BY <2>10, <2>11
<1> QED
  BY <1>0, <1>1, <1>2, PointTypes

LEMMA WholeNoClock ==
  ASSUME Whole, NoClock
  PROVE  Whole'
<1>1. StageOK'
  BY StageStays DEF Whole, NoClock
<1>2. TurnOK' /\ CallOK'
  BY TurnStays DEF Whole, NoClock
<1>3. Durable'
  BY DEF Whole, Durable, NoClock, history
<1>4. RecordOK'
  BY DEF Whole, RecordOK, NoClock
<1> QED
  BY <1>1, <1>2, <1>3, <1>4 DEF Whole

LEMMA WholeTick ==
  ASSUME Whole, NEW w \in Wall, NEW reached \in BOOLEAN, Tick(w, reached)
  PROVE  Whole'
<1>1. clock.wall \in Wall
  BY DEF Whole, RecordOK, Tick
<1>2. clock.wall <= w /\ w <= clock.wall + MaxStep
  BY <1>1, LocalTypes, Consts DEF Tick
<1>3. DayOf(clock.wall) <= DayOf(w)
  BY <1>1, <1>2, DaysGoOn
<1> DEFINE catching == Catching(catchUp, deadline')
<1>4. deadline' \in [zero: BOOLEAN, reached: BOOLEAN]
  BY DEF Tick, Whole, RecordOK
<1>5. config.enabled \in BOOLEAN
  BY GoodFacts, PointTypes DEF Whole, RecordOK
<1>6. catching \in BOOLEAN /\ catchUp' \in BOOLEAN
  BY <1>4, <1>5, Consts DEF Tick, Catching, Whole, RecordOK
<1>7. Go(w, Due(config, clock.wall, w), catching /\ CatchUpOnClockReady)
      /\ (catching /\ CatchUpOnClockReady) \in BOOLEAN
  BY <1>6, Consts DEF Tick
<1> HIDE DEF catching
<1>8. TurnOK' /\ CallOK'
  BY <1>1, <1>2, <1>7, WholeGo DEF Tick
<1>9. RecordOK'
  <2>1. clock' = [valid |-> TRUE, wall |-> w] /\ UNCHANGED <<config, nvs, lastRun, retry>>
    BY DEF Tick
  <2>2. clock' \in [valid: BOOLEAN, wall: Wall \cup {None}] /\ clock'.wall = w /\ w # None
    BY <2>1, LocalTypes
  <2>3. retry.pending => retry.day <= DayOf(w)
    BY <1>1, <1>3, LocalTypes DEF Whole, RecordOK
  <2> QED
    BY <1>4, <1>6, <2>1, <2>2, <2>3 DEF Whole, RecordOK
<1>10. StageOK'
  BY StageStays DEF Whole, Tick
<1>11. Durable'
  BY DEF Whole, Durable, Tick
<1> QED
  BY <1>8, <1>9, <1>10, <1>11 DEF Whole

LEMMA WholeTickJump ==
  ASSUME Whole, NEW w \in Wall, TickJump(w)
  PROVE  Whole'
<1>1. w <= w /\ w <= w + MaxStep
  BY LocalTypes, Consts
<1>2. catchUp' = (config.enabled /\ CatchUpOnClockReady) /\ Go(w, Due(config, w, w), catchUp')
  BY DEF TickJump
<1>3. config.enabled \in BOOLEAN
  BY GoodFacts, PointTypes DEF Whole, RecordOK
<1>4. catchUp' \in BOOLEAN
  BY <1>2, <1>3, Consts
<1>5. TurnOK' /\ CallOK'
  BY <1>1, <1>2, <1>4, WholeGo DEF TickJump
<1>6. RecordOK'
  <2>1. clock' = [valid |-> TRUE, wall |-> w] /\ UNCHANGED <<config, nvs, lastRun>>
        /\ retry' = [retry EXCEPT !.pending = FALSE] /\ deadline' = NoDeadline
    BY DEF TickJump
  <2>2. clock' \in [valid: BOOLEAN, wall: Wall \cup {None}] /\ clock'.wall = w /\ w # None
    BY <2>1, LocalTypes
  <2>3. retry' \in [pending: BOOLEAN, generation: Nat, index: Nat, day: Nat]
        /\ ~retry'.pending
    BY <2>1 DEF Whole, RecordOK
  <2> QED
    BY <1>4, <2>1, <2>2, <2>3, FreshTypes DEF Whole, RecordOK
<1>7. StageOK'
  BY StageStays DEF Whole, TickJump
<1>8. Durable'
  BY DEF Whole, Durable, TickJump
<1> QED
  BY <1>5, <1>6, <1>7, <1>8 DEF Whole

\* The callback that is due has returned.
LEMMA CallReturns ==
  ASSUME Whole, Returned("due"), NEW ok \in BOOLEAN, Apply(ok)
  PROVE  /\ call' \in Call /\ call'.index = call.index /\ call'.day = call.day
         /\ call'.state = IF ok THEN "ok" ELSE "failed"
         /\ call # None /\ call' # None /\ turn.phase \in {"catchUp", "retry", "points"}
<1>1. call \in Call /\ call # None /\ call.state = "due"
  BY DEF Returned, Whole, CallOK
<1>2. call' = [call EXCEPT !.state = IF ok THEN "ok" ELSE "failed"]
  BY DEF Apply
<1>3. call' \in Call /\ call'.index = call.index /\ call'.day = call.day
      /\ call'.state = IF ok THEN "ok" ELSE "failed"
  BY <1>1, <1>2 DEF Call
<1> QED
  BY <1>1, <1>3, Consts DEF Whole, CallOK

LEMMA WholeApply ==
  ASSUME Whole, NEW ok \in BOOLEAN, Apply(ok)
  PROVE  Whole'
<1>1. UNCHANGED <<config, stage, nvs, lastRun, catchUp, clock, retry, deadline, turn, acked>>
  BY DEF Apply, record
<1>2. RecordOK'
  BY <1>1, RecordStays DEF Whole
<1>3. StageOK'
  BY <1>1, StageStays DEF Whole, StageNow
<1>4. Durable'
  BY <1>1 DEF Whole, Durable
<1>5. Returned("due")
  BY DEF Apply
<1>6. TurnOK'
  BY <1>1, <1>5, CallReturns DEF Whole, TurnOK, TurnTypes, SameConfig
<1>7. CallOK'
  BY <1>1, <1>5, CallReturns DEF Whole, CallOK, DayAt
<1> QED
  BY <1>2, <1>3, <1>4, <1>6, <1>7 DEF Whole

\* The step after a callback
LEMMA CallEnds ==
  ASSUME Whole, call # None, call.state \in {"ok", "failed"}, turn' = AfterCall,
         call' = CallAfter, UNCHANGED <<config, clock>>
  PROVE  /\ TurnOK' /\ CallOK'
         /\ \/ /\ turn.phase = "catchUp" /\ call.state = "ok"
               /\ turn'.phase = "mark" /\ turn'.todo = turn.todo /\ call' # None
               /\ turn'.config = turn.config /\ turn'.wall = turn.wall
               /\ call'.index = call.index /\ call'.day = call.day /\ call'.state = "mark"
            \/ /\ turn.phase = "catchUp" /\ call' = None
               /\ turn'.phase = "retry" /\ turn'.todo = turn.todo
               /\ turn'.config = turn.config /\ turn'.wall = turn.wall
            \/ /\ turn.phase = "retry" /\ turn.todo = {} /\ call' = None
               /\ turn' = Resting /\ turn'.phase = "idle" /\ turn'.todo = {}
            \/ /\ turn.phase = "retry" /\ turn.todo # {} /\ call' = None
               /\ turn'.phase = "points" /\ turn'.todo = turn.todo
               /\ turn'.config = turn.config /\ turn'.wall = turn.wall
            \/ /\ turn.phase = "points" /\ Rest = {} /\ call' = None
               /\ turn' = Resting /\ turn'.phase = "idle" /\ turn'.todo = {}
            \/ /\ turn.phase = "points" /\ Rest # {} /\ call' = None
               /\ turn'.phase = "points" /\ turn'.todo = Rest
               /\ turn'.config = turn.config /\ turn'.wall = turn.wall
<1>1. TurnOK /\ CallOK
  BY DEF Whole
<1>2. call \in Call /\ turn.phase # "idle"
  BY <1>1 DEF CallOK
<1>3. CASE /\ turn.phase = "catchUp" /\ call.state = "ok"
           /\ turn.config.points[call.index].minute = MinuteOf(turn.wall)
           /\ AfterCall = TurnNow("mark", turn.todo)
  <2>1. turn' = TurnNow("mark", turn.todo)
    BY <1>3
  <2>2. call' = [call EXCEPT !.state = "mark"]
    BY <2>1, TurnNowFields DEF CallAfter
  <2>3. call' \in Call /\ call'.index = call.index /\ call'.day = call.day
        /\ call'.state = "mark"
    BY <1>2, <2>2 DEF Call
  <2>4. call' # None
    BY <2>3, Consts
  <2>5. TurnOK' /\ turn'.phase = "mark" /\ turn'.todo = turn.todo
        /\ turn'.config = turn.config /\ turn'.wall = turn.wall
    BY <1>1, <1>2, <2>1, <2>4, GoesOn DEF Phases
  <2>6. CallOK'
    BY <1>1, <1>3, <2>3, <2>5 DEF CallOK
  <2> QED
    BY <1>3, <2>3, <2>4, <2>5, <2>6
<1>4. CASE turn.phase = "catchUp" /\ AfterCall = TurnNow("retry", turn.todo)
  <2>1. turn' = TurnNow("retry", turn.todo) /\ call' = None
    BY <1>4, TurnNowFields DEF CallAfter
  <2>2. TurnOK' /\ turn'.phase = "retry" /\ turn'.todo = turn.todo
        /\ turn'.config = turn.config /\ turn'.wall = turn.wall
    BY <1>1, <1>2, <2>1, GoesOn DEF Phases
  <2> QED
    BY <1>4, <2>1, <2>2, CallOver
<1>5. CASE turn.phase = "retry" /\ turn.todo = {} /\ AfterCall = Resting
  BY <1>5, RestingTypes, Rests DEF CallAfter
<1>6. CASE /\ turn.phase = "retry" /\ turn.todo # {}
           /\ AfterCall = TurnNow("points", turn.todo)
  <2>1. turn' = TurnNow("points", turn.todo) /\ call' = None
    BY <1>6, TurnNowFields DEF CallAfter
  <2>2. TurnOK' /\ turn'.phase = "points" /\ turn'.todo = turn.todo
        /\ turn'.config = turn.config /\ turn'.wall = turn.wall
    BY <1>1, <1>2, <1>6, <2>1, GoesOn DEF Phases
  <2> QED
    BY <1>6, <2>1, <2>2, CallOver
<1>7. CASE turn.phase = "points" /\ Rest = {} /\ AfterCall = Resting
  BY <1>7, RestingTypes, Rests DEF CallAfter
<1>8. CASE turn.phase = "points" /\ Rest # {} /\ AfterCall = TurnNow("points", Rest)
  <2>1. turn' = TurnNow("points", Rest) /\ call' = None
    BY <1>8, TurnNowFields DEF CallAfter
  <2>2. Rest \in SUBSET turn.todo
    BY DEF Rest
  <2>3. TurnOK' /\ turn'.phase = "points" /\ turn'.todo = Rest
        /\ turn'.config = turn.config /\ turn'.wall = turn.wall
    BY <1>1, <1>2, <1>8, <2>1, <2>2, GoesOn DEF Phases
  <2> QED
    BY <1>8, <2>1, <2>3, CallOver
<1> QED
  BY <1>1, <1>3, <1>4, <1>5, <1>6, <1>7, <1>8, AfterCallIs

\* The three ways a callback is over end it in the same way.
LEMMA Ends ==
  ASSUME Whole, RecordOk \/ RecordFailed \/ RecordStale
  PROVE  /\ call # None /\ call.state \in {"ok", "failed"} /\ turn' = AfterCall
         /\ call' = CallAfter /\ UNCHANGED <<config, stage, nvs, clock, history>>
         /\ call.index \in DOMAIN turn.config.points /\ call.index \in Indices
         /\ call.day \in Nat /\ turn.phase \in {"catchUp", "retry", "points"}
         /\ call.day <= DayOf(turn.wall) /\ turn.wall \in Wall /\ clock.wall = turn.wall
         /\ SameConfig => config = turn.config
<1>1. call # None /\ call.state \in {"ok", "failed"} /\ turn' = AfterCall
      /\ UNCHANGED <<config, stage, nvs, clock, history>>
  BY DEF RecordOk, RecordFailed, RecordStale, Returned, record
<1>2. call' = CallAfter
  <2>1. CASE ~RecordFailed
    BY <2>1 DEF RecordOk, RecordStale
  <2>2. CASE RecordFailed
    <3>1. call.state = "failed" /\ call' = None
      BY <2>2 DEF RecordFailed, Returned
    <3>2. AfterCall.phase # "mark"
      BY <1>1, <3>1, AfterCallIs, TurnNowFields, RestingTypes DEF Whole
    <3> QED
      BY <1>1, <3>1, <3>2 DEF CallAfter
  <2> QED
    BY <2>1, <2>2
<1>4. call.index \in DOMAIN turn.config.points /\ call \in Call
      /\ turn.phase \in {"catchUp", "retry", "points"} /\ call.day <= DayOf(turn.wall)
  BY <1>1 DEF Whole, CallOK
<1>5. call.day \in Nat /\ turn.wall \in Wall /\ clock.wall = turn.wall
      /\ (SameConfig => config = turn.config) /\ DOMAIN turn.config.points \subseteq Indices
  BY <1>4, GoodFacts DEF Call, Whole, TurnOK, TurnTypes
<1> QED
  BY <1>1, <1>2, <1>4, <1>5

LEMMA WholeEnds ==
  ASSUME Whole, RecordOk \/ RecordFailed \/ RecordStale
  PROVE  Whole'
<1>1. TurnOK' /\ CallOK'
  BY Ends, CallEnds
<1>2. StageOK'
  BY Ends, StageStays DEF Whole, StageNow
<1>3. Durable'
  BY Ends DEF Whole, Durable, history
<1>4. UNCHANGED <<config, nvs, clock>>
  BY Ends
<1>5. RecordOK'
  <2>1. CASE RecordOk
    <3>1. lastRun' \in [Indices -> Nat \cup {None}] /\ catchUp' \in BOOLEAN
      BY <2>1, Ends DEF RecordOk, Whole, RecordOK
    <3>2. deadline' \in [zero: BOOLEAN, reached: BOOLEAN]
      BY <2>1 DEF RecordOk
    <3>3. retry' = retry \/ retry' = [retry EXCEPT !.pending = FALSE]
      BY <2>1 DEF RecordOk
    <3>4. /\ retry' \in [pending: BOOLEAN, generation: Nat, index: Nat, day: Nat]
          /\ retry'.pending => retry' = retry
      BY <3>3 DEF Whole, RecordOK
    <3> QED
      BY <1>4, <3>1, <3>2, <3>4 DEF Whole, RecordOK
  <2>2. CASE RecordFailed
    <3>1. /\ deadline' = [zero |-> FALSE, reached |-> FALSE]
          /\ UNCHANGED <<lastRun, catchUp>> /\ SameConfig
          /\ retry' = IF Scheduled
                      THEN [pending |-> TRUE, generation |-> config.generation,
                            index |-> call.index, day |-> call.day]
                      ELSE retry
      BY <2>2 DEF RecordFailed
    <3>2. config.generation \in Nat /\ call.index \in Nat /\ call.day \in Nat
          /\ call.index \in DOMAIN config.points /\ call.day <= DayOf(clock.wall)
          /\ clock.wall # None
      BY <3>1, Ends, GoodFacts, PointTypes, IndexTypes, LocalTypes DEF Whole, RecordOK
    <3>3. CASE Scheduled
      <4>1. /\ retry' \in [pending: BOOLEAN, generation: Nat, index: Nat, day: Nat]
            /\ retry'.generation = config.generation /\ retry'.index = call.index
            /\ retry'.day = call.day
        BY <3>1, <3>2, <3>3
      <4> QED
        BY <1>4, <3>1, <3>2, <4>1 DEF Whole, RecordOK
    <3>4. CASE ~Scheduled
      BY <1>4, <3>1, <3>4 DEF Whole, RecordOK
    <3> QED
      BY <3>3, <3>4
  <2>3. CASE RecordStale
    BY <2>3, RecordStays DEF Whole, RecordStale, record
  <2> QED
    BY <2>1, <2>2, <2>3
<1> QED
  BY <1>1, <1>2, <1>3, <1>5 DEF Whole

\* What is to do of a turn, item by item
LEMMA TodoFacts ==
  ASSUME Whole, turn.phase # "idle", NEW x \in turn.todo
  PROVE  /\ x = <<x[1], x[2]>> /\ x[1] \in Nat /\ x[2] \in Indices
         /\ x[2] \in DOMAIN turn.config.points
         /\ x[1] <= turn.wall + 1 /\ turn.wall - MaxStep < x[1]
         /\ LookAt(x[1], turn.wall) \in Wall /\ LookAt(x[1], turn.wall) <= turn.wall
         /\ DayAt(x) \in Nat /\ DayAt(x) <= DayOf(turn.wall)
         /\ turn.config.points[x[2]].minute = MinuteOf(LookAt(x[1], turn.wall))
         /\ AppliesOn(turn.config.points[x[2]], Weekday(LookAt(x[1], turn.wall)))
         /\ turn.wall \in Wall /\ turn.wall = clock.wall
<1>1. x = <<x[1], x[2]>> /\ x[1] \in Nat /\ x[2] \in Indices /\ turn.wall \in Wall
  BY DEF Whole, TurnOK, TurnTypes
<1>2. x[1] <= turn.wall + 1 /\ turn.wall - MaxStep < x[1] /\ turn.wall = clock.wall
      /\ x[2] \in PointsOf(turn.config, LookAt(x[1], turn.wall))
  BY DEF Whole, TurnOK, TodoOK
<1>3. LookAt(x[1], turn.wall) \in Wall /\ LookAt(x[1], turn.wall) <= turn.wall
  BY <1>1, <1>2, LookFacts
<1>4. DayAt(x) \in Nat /\ DayAt(x) <= DayOf(turn.wall)
  BY <1>1, <1>3, DaysGoOn, LocalTypes DEF DayAt
<1> QED
  BY <1>1, <1>2, <1>3, <1>4, PointsOfFacts

\* Of two items, the later look is not on an earlier day; the same point is due on
\* one day only.
LEMMA TodoOrder ==
  ASSUME Whole, turn.phase # "idle", NEW x \in turn.todo, NEW y \in turn.todo
  PROVE  /\ x[1] <= y[1] => DayAt(x) <= DayAt(y)
         /\ x[2] = y[2] => DayAt(x) = DayAt(y)
<1>1. /\ x[1] \in Nat /\ y[1] \in Nat /\ x[1] <= turn.wall + 1 /\ y[1] <= turn.wall + 1
      /\ turn.wall - MaxStep < x[1] /\ turn.wall - MaxStep < y[1]
      /\ turn.config.points[x[2]].minute = MinuteOf(LookAt(x[1], turn.wall))
      /\ turn.config.points[y[2]].minute = MinuteOf(LookAt(y[1], turn.wall))
      /\ turn.wall \in Wall
  BY TodoFacts
<1>2. x[1] <= y[1] \/ y[1] <= x[1]
  BY <1>1
<1>3. CASE x[1] <= y[1]
  <2>1. /\ DayOf(LookAt(x[1], turn.wall)) <= DayOf(LookAt(y[1], turn.wall))
        /\ MinuteOf(LookAt(x[1], turn.wall)) = MinuteOf(LookAt(y[1], turn.wall))
             => DayOf(LookAt(x[1], turn.wall)) = DayOf(LookAt(y[1], turn.wall))
    BY <1>1, <1>3, LooksGoOn
  <2> QED
    BY <1>1, <2>1, Zenon DEF DayAt
<1>4. CASE y[1] <= x[1]
  <2>0. MinuteOf(LookAt(y[1], turn.wall)) = MinuteOf(LookAt(x[1], turn.wall))
          => DayOf(LookAt(y[1], turn.wall)) = DayOf(LookAt(x[1], turn.wall))
    BY <1>1, <1>4, LooksGoOn
  <2>1. x[2] = y[2] => DayAt(x) = DayAt(y)
    BY <1>1, <2>0, Zenon DEF DayAt
  <2>2. x[1] <= y[1] => x[1] = y[1]
    BY <1>1, <1>4
  <2>3. DayAt(x) <= DayAt(x)
    BY TodoFacts
  <2>4. x[1] = y[1] => DayAt(x) = DayAt(y)
    BY DEF DayAt
  <2> QED
    BY <2>1, <2>2, <2>3, <2>4
<1> QED
  BY <1>2, <1>3, <1>4

LEMMA FirstFacts ==
  ASSUME Whole, turn.phase # "idle", turn.todo # {}
  PROVE  /\ First(turn.todo) \in turn.todo
         /\ \A y \in turn.todo : First(turn.todo)[1] <= y[1]
         /\ \A y \in turn.todo : First(turn.todo)[1] = y[1] => First(turn.todo)[2] <= y[2]
         /\ Rest = turn.todo \ {First(turn.todo)}
<1>1. turn.todo \in SUBSET (Nat \X Indices)
  BY DEF Whole, TurnOK, TurnTypes
<1>2. /\ First(turn.todo) \in turn.todo
      /\ \A y \in turn.todo : \/ First(turn.todo)[1] < y[1]
                              \/ First(turn.todo)[1] = y[1] /\ First(turn.todo)[2] <= y[2]
  BY <1>1, FirstIs
<1>3. \A y \in turn.todo : y[1] \in Nat /\ y[2] \in Nat
  BY <1>1, IndexTypes
<1> QED
  BY <1>2, <1>3 DEF Rest

LEMMA WholeMark ==
  ASSUME Whole, MarkRun
  PROVE  Whole'
<1>1. call # None /\ call \in Call /\ call.index \in Indices
  BY GoodFacts DEF Whole, TurnOK, CallOK, MarkRun
<1>2. call.day \in Nat
  BY <1>1 DEF Call
<1>3. TurnOK'
  <2>1. turn' = TurnNow("retry", turn.todo)
    BY MoveFacts DEF MarkRun, Whole, TurnOK
  <2> QED
    BY <2>1, GoesOn DEF MarkRun, Whole, Phases
<1>4. RecordOK'
  <2>1. lastRun' \in [Indices -> Nat \cup {None}]
    BY <1>1, <1>2 DEF Whole, RecordOK, MarkRun
  <2> QED
    BY <2>1 DEF Whole, RecordOK, MarkRun
<1>5. StageOK' /\ Durable' /\ CallOK'
  BY StageStays, CallOver DEF Whole, StageNow, Durable, MarkRun
<1> QED
  BY <1>3, <1>4, <1>5 DEF Whole

LEMMA WholeNoLatest ==
  ASSUME Whole, NoLatest
  PROVE  Whole' /\ call = None /\ turn' = TurnNow("retry", turn.todo)
<1>1. call = None
  BY DEF Whole, CallOK, NoLatest
<1>2. turn' = TurnNow("retry", turn.todo)
  BY MoveFacts DEF NoLatest, Whole, TurnOK
<1>3. TurnOK'
  BY <1>2, GoesOn DEF NoLatest, Whole, Phases
<1>4. RecordOK'
  <2>1. UNCHANGED <<config, nvs, lastRun, clock, retry>> /\ catchUp' \in {catchUp, FALSE}
        /\ deadline' \in {deadline, [zero |-> TRUE, reached |-> TRUE],
                          [zero |-> TRUE, reached |-> FALSE]}
    BY DEF NoLatest
  <2>2. catchUp' \in BOOLEAN
    BY <2>1 DEF Whole, RecordOK
  <2>3. deadline' \in [zero: BOOLEAN, reached: BOOLEAN]
    <3>1. deadline \in [zero: BOOLEAN, reached: BOOLEAN]
      BY DEF Whole, RecordOK
    <3>2. [zero |-> TRUE, reached |-> TRUE] \in [zero: BOOLEAN, reached: BOOLEAN]
          /\ [zero |-> TRUE, reached |-> FALSE] \in [zero: BOOLEAN, reached: BOOLEAN]
      OBVIOUS
    <3> QED
      BY <2>1, <3>1, <3>2, Zenon
  <2> QED
    BY <2>1, <2>2, <2>3 DEF Whole, RecordOK
<1>5. StageOK' /\ Durable' /\ CallOK'
  BY <1>1, StageStays, CallOver DEF Whole, StageNow, Durable, NoLatest, history
<1> QED
  BY <1>1, <1>2, <1>3, <1>4, <1>5 DEF Whole

\* A retry that is due is one of the turn's configuration.
LEMMA RetryFacts ==
  ASSUME Whole, turn.phase = "retry", retry.pending,
         retry.generation = turn.config.generation
  PROVE  /\ SameConfig /\ config = turn.config
         /\ retry.index \in DOMAIN turn.config.points /\ retry.index \in Indices
         /\ retry.day \in Nat /\ retry.day <= DayOf(turn.wall)
<1>1. SameConfig /\ config = turn.config /\ clock.wall = turn.wall
  BY DEF SameConfig, Whole, RecordOK, TurnOK
<1> QED
  BY <1>1, GoodFacts DEF Whole, RecordOK

LEMMA WholeRetry ==
  ASSUME Whole, RunPendingRetry
  PROVE  Whole'
<1>1. UNCHANGED <<config, stage, nvs, lastRun, catchUp, clock, retry, deadline, acked>>
      /\ turn.phase = "retry" /\ call = None
  BY DEF RunPendingRetry, record, history
<1>2. RecordOK' /\ StageOK' /\ Durable'
  BY <1>1, RecordStays, StageStays DEF Whole, StageNow, Durable
<1>3. CASE RetryWanted
  <2>1. call' = [index |-> retry.index, day |-> retry.day, state |-> "due"] /\ turn' = turn
    BY <1>3 DEF RunPendingRetry
  <2>2. /\ retry.index \in DOMAIN turn.config.points /\ retry.index \in Indices
        /\ retry.day \in Nat /\ retry.day <= DayOf(turn.wall)
    BY <1>1, <1>3, RetryFacts DEF RetryWanted
  <2>3. call' \in Call /\ call'.index = retry.index /\ call'.day = retry.day
        /\ call'.state = "due"
    BY <2>1, <2>2, IndexTypes DEF Call
  <2>4. CallOK'
    BY <1>1, <2>1, <2>2, <2>3 DEF CallOK
  <2>5. TurnOK'
    BY <1>1, <2>1 DEF Whole, TurnOK, TurnTypes, SameConfig
  <2> QED
    BY <1>2, <2>4, <2>5 DEF Whole
<1>4. CASE ~RetryWanted
  <2>1. turn' = To("points", turn.todo) /\ call' = None
    BY <1>1, <1>4 DEF RunPendingRetry
  <2>2. TurnTypes
    BY DEF Whole, TurnOK
  <2>3. CASE turn.todo = {}
    <3>1. turn' = Resting
      BY <2>1, <2>2, <2>3, MoveFacts
    <3> QED
      BY <1>2, <2>1, <3>1, Rests DEF Whole
  <2>4. CASE turn.todo # {}
    <3>1. turn' = TurnNow("points", turn.todo)
      BY <2>1, <2>2, <2>4, MoveFacts
    <3>2. TurnOK'
      BY <1>1, <2>1, <2>4, <3>1, GoesOn DEF Whole, Phases
    <3> QED
      BY <1>2, <2>1, <3>2, CallOver DEF Whole
  <2> QED
    BY <2>3, <2>4
<1> QED
  BY <1>3, <1>4

LEMMA WholeScheduled ==
  ASSUME Whole, RunScheduledPoint
  PROVE  Whole'
<1>1. UNCHANGED <<config, stage, nvs, lastRun, catchUp, clock, retry, deadline, acked>>
      /\ turn.phase = "points" /\ call = None
  BY DEF RunScheduledPoint, record, history
<1>2. RecordOK' /\ StageOK' /\ Durable'
  BY <1>1, RecordStays, StageStays DEF Whole, StageNow, Durable
<1> DEFINE f == First(turn.todo)
<1>3. CASE Wanted(f[2], DayAt(f))
  <2>1. call' = [index |-> f[2], day |-> DayAt(f), state |-> "due"] /\ turn' = turn
    BY <1>3 DEF RunScheduledPoint
  <2>2. f \in turn.todo
    BY <1>1, FirstFacts DEF Whole, TurnOK
  <2> HIDE DEF f
  <2>3. /\ f[2] \in DOMAIN turn.config.points /\ f[2] \in Indices
        /\ DayAt(f) \in Nat /\ DayAt(f) <= DayOf(turn.wall)
    BY <1>1, <2>2, TodoFacts
  <2>4. call' \in Call /\ call'.index = f[2] /\ call'.day = DayAt(f)
        /\ call'.state = "due"
    BY <2>1, <2>3, IndexTypes DEF Call
  <2>5. CallOK'
    BY <1>1, <2>1, <2>3, <2>4 DEF CallOK, f, DayAt
  <2>6. TurnOK'
    BY <1>1, <2>1 DEF Whole, TurnOK, TurnTypes, SameConfig
  <2> QED
    BY <1>2, <2>5, <2>6 DEF Whole
<1>4. CASE ~Wanted(f[2], DayAt(f))
  <2>1. turn' = To("points", Rest) /\ call' = None
    BY <1>1, <1>4 DEF RunScheduledPoint
  <2>2. TurnTypes /\ Rest \in SUBSET turn.todo
    BY DEF Whole, TurnOK, Rest
  <2>3. CASE Rest = {}
    <3>1. turn' = Resting
      BY <2>1, <2>2, <2>3, MoveFacts
    <3> QED
      BY <1>2, <2>1, <3>1, Rests DEF Whole
  <2>4. CASE Rest # {}
    <3>1. turn' = TurnNow("points", Rest)
      BY <2>1, <2>2, <2>4, MoveFacts
    <3>2. TurnOK'
      BY <1>1, <2>1, <2>2, <2>4, <3>1, GoesOn DEF Whole, Phases
    <3> QED
      BY <1>2, <2>1, <3>2, CallOver DEF Whole
  <2> QED
    BY <2>3, <2>4
<1> QED
  BY <1>3, <1>4

LEMMA WholeStays ==
  ASSUME Whole, UNCHANGED vars
  PROVE  Whole'
<1>1. UNCHANGED <<config, stage, nvs, lastRun, catchUp, clock, retry, deadline, turn, call,
                  acked>>
  BY DEF vars, record, history
<1> QED
  BY <1>1, RecordStays, StageStays, TurnStays DEF Whole, StageNow, Durable

LEMMA WholeInit ==
  ASSUME Init
  PROVE  Whole
<1>1. StageOK
  BY StageTypes DEF Init, StageOK, NoStage
<1>2. RecordOK
  BY DefaultFacts, FreshTypes DEF Init, RecordOK
<1>3. TurnOK /\ CallOK
  BY RestingTypes DEF Init, TurnOK, TurnTypes, CallOK
<1>4. Durable
  BY DefaultFacts DEF Init, Durable
<1> QED
  BY <1>1, <1>2, <1>3, <1>4 DEF Whole

LEMMA WholeNext ==
  ASSUME Whole, [Next]_vars
  PROVE  Whole'
<1>1. ASSUME Edit PROVE Whole'
  BY <1>1, WholeBegin, WholePoint, WholeCommit, WholeFails DEF Edit
<1>2. ASSUME Turn PROVE Whole'
  <2>1. ASSUME RecordOk \/ RecordFailed \/ RecordStale PROVE Whole'
    BY <2>1, WholeEnds
  <2> QED
    BY <1>2, <2>1, WholeApply, WholeMark, WholeNoLatest, WholeRetry, WholeScheduled DEF Turn
<1> QED
  BY <1>1, <1>2, WholeApply, WholeStart, WholeNoClock, WholeTickJump, WholeTick, WholeStays
     DEF Next

LEMMA WholeImplies ==
  ASSUME Whole
  PROVE  EditsWhole
<1>1. config \in Config /\ nvs \in Config \cup {None}
  BY GoodFacts DEF Whole, RecordOK
<1>2. TypeOK
  BY <1>1 DEF Whole, RecordOK, StageOK, TurnOK, TurnTypes, CallOK, TypeOK, Phases
<1> QED
  BY <1>2 DEF EditsWhole, Whole, RecordOK, Good, Transactional

\* Whatever stages overlap or expire, whichever commit fails in NVS and whenever the node
\* is started again: the installed configuration is Default or one that a caller staged,
\* with all its points and valid (stage_commit, config_valid), and after a commit that
\* succeeded NVS holds it, or nothing if it was not to be kept (persist_config).
THEOREM EveryEditWhole == Spec => []EditsWhole
<1>1. Init => Whole
  BY WholeInit
<1>2. Whole /\ [Next]_vars => Whole'
  BY WholeNext
<1>3. Whole => EditsWhole
  BY WholeImplies
<1> QED
  BY <1>1, <1>2, <1>3, PTL DEF Spec

----------------------------------------------------------------------------
(* Once a day *)

\* A scheduled point has succeeded, and its result is not recorded yet.
InFlight == Returned("ok") /\ Scheduled /\ SameConfig

\* Nothing ran ahead of the clock,
RanBy ==
  /\ ran \subseteq Indices \X Nat
  /\ \A r \in ran : clock.wall # None /\ r[2] <= DayOf(clock.wall)

\* nor after a day on which the point is still to be looked at.
RanTodo == \A r \in ran, x \in turn.todo : r[1] = x[2] => r[2] <= DayAt(x)

\* The callback is about a later day than those on which its point ran.
RanCall ==
  call # None /\ Scheduled =>
    /\ \A r \in ran : r[1] = call.index =>
         /\ call.state \in {"due", "failed"} => r[2] < call.day
         /\ call.state = "ok" => r[2] <= call.day
    /\ \A x \in turn.todo : x[2] = call.index => call.day <= DayAt(x)

\* last_run_day remembers what ran on a day that is still looked at.
RanRun ==
  \A r \in ran :
    \/ lastRun[r[1]] = r[2]
    \/ InFlight /\ r = <<call.index, call.day>>
    \/ /\ r[2] < DayOf(clock.wall)
       /\ \A x \in turn.todo : x[2] = r[1] => r[2] < DayAt(x)

\* What is to be retried did not run.
RanRetry ==
  retry.pending =>
    /\ ~InFlight => \A r \in ran : r[1] = retry.index => r[2] < retry.day
    /\ \A x \in turn.todo : x[2] = retry.index => retry.day <= DayAt(x)

Once == RanBy /\ RanTodo /\ RanCall /\ RanRun /\ RanRetry

LEMMA OnceStays ==
  ASSUME Once, UNCHANGED <<config, lastRun, retry, turn, call, ran>>,
         clock'.wall = clock.wall
  PROVE  Once'
<1>1. InFlight' = InFlight
  BY DEF InFlight, Returned, Scheduled, SameConfig
<1>2. RanBy' /\ RanTodo' /\ RanCall'
  BY DEF Once, RanBy, RanTodo, RanCall, DayAt, Scheduled
<1>3. RanRun' /\ RanRetry'
  BY <1>1 DEF Once, RanRun, RanRetry, DayAt
<1> QED
  BY <1>2, <1>3 DEF Once

LEMMA OnceInstalled ==
  ASSUME Once, NEW c, Installed(c), UNCHANGED <<turn, call>> \/ call' = None
  PROVE  Once'
<1>1. ran' = {} /\ ~retry'.pending
  BY FreshTypes DEF Installed
<1>2. RanBy' /\ RanTodo' /\ RanRun' /\ RanRetry'
  BY <1>1 DEF RanBy, RanTodo, RanRun, RanRetry
<1>3. RanCall'
  BY <1>1 DEF Once, RanCall, Scheduled, DayAt
<1> QED
  BY <1>2, <1>3 DEF Once

\* A step of the turn that is over with the callback and takes nothing up
TurnMoves ==
  /\ turn'.todo \subseteq turn.todo
  /\ turn'.todo # {} => turn'.wall = turn.wall

LEMMA MovesDays ==
  ASSUME TurnMoves
  PROVE  \A x \in turn'.todo : x \in turn.todo /\ DayAt(x)' = DayAt(x)
  BY DEF TurnMoves, DayAt

LEMMA OnceMoves ==
  ASSUME Once, ~InFlight, TurnMoves, call' = None,
         UNCHANGED <<clock, lastRun, retry, ran>>
  PROVE  Once'
<1>0. ~InFlight'
  BY DEF InFlight, Returned
<1>1. RanBy' /\ RanCall'
  BY DEF Once, RanBy, RanCall
<1>2. RanTodo'
  BY MovesDays DEF Once, RanTodo
<1>3. RanRun'
  BY <1>0, MovesDays DEF Once, RanRun
<1>4. RanRetry'
  BY <1>0, MovesDays DEF Once, RanRetry
<1> QED
  BY <1>1, <1>2, <1>3, <1>4 DEF Once

\* The looks of a turn are at minutes from the one before it on.
LEMMA DueDays ==
  ASSUME NEW c, NEW v \in Wall, NEW w \in Wall, v <= w, NEW x \in Due(c, v, w)
  PROVE  /\ DayOf(v) <= DayOf(LookAt(x[1], w)) /\ DayOf(LookAt(x[1], w)) \in Nat
         /\ DayOf(LookAt(x[1], w)) <= DayOf(w)
<1>0. v \in Nat /\ w \in Nat
  BY LocalTypes
<1>1. x[1] \in v + 1 .. w + 1
  BY <1>0 DEF Due
<1>2. LookAt(x[1], w) \in Wall /\ v <= LookAt(x[1], w) /\ LookAt(x[1], w) <= w
  BY <1>0, <1>1, Consts DEF LookAt, Wall
<1> QED
  BY <1>2, DaysGoOn, LocalTypes

\* What is to do of the turn that begins with a look at the clock
LEMMA GoTodo ==
  ASSUME Whole, turn.phase = "idle", NEW v \in Wall, NEW w \in Wall, v <= w,
         NEW catching \in BOOLEAN, Go(w, Due(config, v, w), catching)
  PROVE  /\ \A x \in turn'.todo : DayOf(v) <= DayAt(x)' /\ DayAt(x)' \in Nat
         /\ call' # None => ~Scheduled' /\ call'.state = "due"
         /\ turn.todo = {} /\ call = None
<1>0. turn = Resting /\ call = None /\ turn.todo = {}
  BY RestingTypes DEF Whole, TurnOK
<1>1. CASE ~config.enabled
  BY <1>0, <1>1 DEF Go
<1>2. CASE config.enabled
  <2>1. turn'.wall = w /\ turn'.todo = Due(config, v, w)
        /\ (call' # None => turn'.phase = "catchUp" /\ call'.state = "due")
    BY <1>2, GoIs
  <2>2. \A x \in turn'.todo : DayOf(v) <= DayOf(LookAt(x[1], w))
                              /\ DayOf(LookAt(x[1], w)) \in Nat
    BY <2>1, DueDays
  <2> QED
    BY <1>0, <2>1, <2>2 DEF DayAt, Scheduled
<1> QED
  BY <1>1, <1>2, GoodFacts, PointTypes DEF Whole, RecordOK

LEMMA OnceTick ==
  ASSUME Whole, Once, NEW w \in Wall, NEW reached \in BOOLEAN, Tick(w, reached)
  PROVE  Once'
<1>1. clock.wall \in Wall /\ turn.phase = "idle"
  BY DEF Whole, RecordOK, Tick
<1>2. clock.wall <= w /\ w <= clock.wall + MaxStep
  BY <1>1, LocalTypes, Consts DEF Tick
<1>3. DayOf(clock.wall) <= DayOf(w) /\ DayOf(clock.wall) \in Nat /\ DayOf(w) \in Nat
  BY <1>1, <1>2, DaysGoOn, LocalTypes
<1>4. \E catching \in BOOLEAN : Go(w, Due(config, clock.wall, w), catching)
  <2> DEFINE catching == Catching(catchUp, deadline')
  <2>1. deadline' \in [zero: BOOLEAN, reached: BOOLEAN]
    BY DEF Tick, Whole, RecordOK
  <2>2. config.enabled \in BOOLEAN
    BY GoodFacts, PointTypes DEF Whole, RecordOK
  <2>3. (catching /\ CatchUpOnClockReady) \in BOOLEAN
    BY <2>1, <2>2, Consts DEF Catching, Whole, RecordOK
  <2> QED
    BY <2>3 DEF Tick
<1>5. /\ \A x \in turn'.todo : DayOf(clock.wall) <= DayAt(x)' /\ DayAt(x)' \in Nat
      /\ call' # None => ~Scheduled' /\ call'.state = "due"
      /\ turn.todo = {} /\ call = None
  BY <1>1, <1>2, <1>4, GoTodo
<1>6. UNCHANGED <<lastRun, retry, ran>> /\ clock'.wall = w /\ w # None
  BY LocalTypes DEF Tick
<1>7. ~InFlight /\ ~InFlight'
  BY <1>5 DEF InFlight, Returned
<1>8. \A r \in ran : r[2] \in Nat /\ r[2] <= DayOf(clock.wall)
                     /\ (lastRun[r[1]] = r[2] \/ r[2] < DayOf(clock.wall))
  BY <1>5, <1>7 DEF Once, RanBy, RanRun
<1>9. RanBy' /\ RanCall'
  BY <1>3, <1>5, <1>6, <1>8 DEF Once, RanBy, RanCall
<1>10. RanTodo'
  BY <1>3, <1>5, <1>6, <1>8 DEF RanTodo
<1>11. RanRun'
  BY <1>3, <1>5, <1>6, <1>8 DEF RanRun
<1>12. RanRetry'
  <2>1. retry.pending => /\ \A r \in ran : r[1] = retry.index => r[2] < retry.day
                         /\ retry.day \in Nat /\ retry.day <= DayOf(clock.wall)
    BY <1>7 DEF Once, RanRetry, Whole, RecordOK
  <2> QED
    BY <1>3, <1>5, <1>6, <2>1 DEF RanRetry
<1> QED
  BY <1>9, <1>10, <1>11, <1>12 DEF Once

LEMMA OnceTickJump ==
  ASSUME Whole, Once, NEW w \in Wall, TickJump(w)
  PROVE  Once'
<1>1. turn.phase = "idle" /\ catchUp' = (config.enabled /\ CatchUpOnClockReady)
      /\ Go(w, Due(config, w, w), catchUp') /\ w <= w
  BY LocalTypes DEF TickJump
<1>2. catchUp' \in BOOLEAN
  BY <1>1, Consts, GoodFacts, PointTypes DEF Whole, RecordOK
<1>3. /\ \A x \in turn'.todo : DayOf(w) <= DayAt(x)' /\ DayAt(x)' \in Nat
      /\ call' # None => ~Scheduled' /\ call'.state = "due"
      /\ turn.todo = {} /\ call = None
  BY <1>1, <1>2, GoTodo
<1>4. UNCHANGED lastRun /\ clock'.wall = w /\ w # None /\ DayOf(w) \in Nat
      /\ ran' = IF clock.wall # None /\ DayOf(w) = DayOf(clock.wall) THEN ran ELSE {}
  BY LocalTypes DEF TickJump
<1>5. ~retry'.pending
  <2>1. retry' = [retry EXCEPT !.pending = FALSE]
    BY DEF TickJump
  <2> QED
    BY <2>1 DEF Whole, RecordOK
<1>6. ~InFlight
  BY <1>3 DEF InFlight, Returned
<1>7. \A r \in ran' : r \in ran /\ r[2] \in Nat /\ r[2] <= DayOf(w)
                      /\ (lastRun[r[1]] = r[2] \/ r[2] < DayOf(w))
  BY <1>3, <1>4, <1>6 DEF Once, RanBy, RanRun
<1>8. RanBy' /\ RanCall' /\ RanRetry'
  BY <1>3, <1>4, <1>5, <1>7 DEF Once, RanBy, RanCall, RanRetry
<1>9. RanTodo'
  BY <1>3, <1>4, <1>7 DEF RanTodo
<1>10. RanRun'
  BY <1>3, <1>4, <1>7 DEF RanRun
<1> QED
  BY <1>8, <1>9, <1>10 DEF Once

LEMMA OnceApply ==
  ASSUME Whole, Once, NEW ok \in BOOLEAN, Apply(ok)
  PROVE  Once'
<1>1. UNCHANGED <<config, lastRun, clock, retry, turn>> /\ Returned("due")
  BY DEF Apply, record
<1>2. /\ call'.index = call.index /\ call'.day = call.day /\ call # None /\ call' # None
      /\ call'.state = IF ok THEN "ok" ELSE "failed"
  BY <1>1, CallReturns
<1>3. call.index \in Indices /\ call.day \in Nat /\ call.day <= DayOf(clock.wall)
      /\ clock.wall # None
  <2>1. turn.phase # "idle" /\ call \in Call /\ call.index \in DOMAIN turn.config.points
        /\ call.day <= DayOf(turn.wall)
    BY <1>2 DEF Whole, CallOK
  <2> QED
    BY <2>1, GoodFacts, LocalTypes DEF Whole, TurnOK, TurnTypes, Call
<1>4. call.state = "due" /\ ~InFlight
  BY <1>1 DEF InFlight, Returned
<1>5. \A x : DayAt(x)' = DayAt(x)
  BY <1>1 DEF DayAt
<1>6. Scheduled' = Scheduled /\ SameConfig' = SameConfig
  BY <1>1 DEF Scheduled, SameConfig
<1>7. \A r \in ran : r[2] \in Nat
  BY DEF Once, RanBy
<1>8. CASE ok /\ Scheduled /\ SameConfig
  <2>1. ran' = ran \cup {<<call.index, call.day>>}
    BY <1>8 DEF Apply
  <2>2. InFlight'
    BY <1>2, <1>6, <1>8 DEF InFlight, Returned
  <2>3. RanBy'
    BY <1>1, <1>3, <2>1 DEF Once, RanBy
  <2>4. RanTodo'
    BY <1>1, <1>2, <1>5, <1>8, <2>1 DEF Once, RanTodo, RanCall
  <2>5. RanCall'
    BY <1>1, <1>2, <1>3, <1>4, <1>5, <1>7, <1>8, <2>1 DEF Once, RanCall
  <2>6. RanRun'
    BY <1>1, <1>2, <1>4, <1>5, <2>1, <2>2 DEF Once, RanRun
  <2>7. RanRetry'
    BY <1>1, <1>5, <2>2 DEF Once, RanRetry
  <2> QED
    BY <2>3, <2>4, <2>5, <2>6, <2>7 DEF Once
<1>9. CASE ~(ok /\ Scheduled /\ SameConfig)
  <2>1. ran' = ran
    BY <1>9 DEF Apply
  <2>3. RanBy' /\ RanTodo'
    BY <1>1, <1>5, <2>1 DEF Once, RanBy, RanTodo
  <2>5. RanCall'
    BY <1>1, <1>2, <1>3, <1>4, <1>5, <1>6, <1>7, <2>1 DEF Once, RanCall
  <2>6. RanRun'
    BY <1>1, <1>2, <1>4, <1>5, <2>1 DEF Once, RanRun
  <2>7. RanRetry'
    BY <1>1, <1>4, <1>5, <2>1 DEF Once, RanRetry
  <2> QED
    BY <2>3, <2>5, <2>6, <2>7 DEF Once
<1> QED
  BY <1>8, <1>9

\* However a callback is over, the turn takes nothing up.
LEMMA EndsMoves ==
  ASSUME Whole, RecordOk \/ RecordFailed \/ RecordStale
  PROVE  /\ TurnMoves
         /\ Scheduled => call' = None
         /\ ~Scheduled => /\ turn'.phase \in {"mark", "retry"} /\ turn'.todo = turn.todo
                          /\ turn'.config = turn.config /\ turn'.wall = turn.wall
         /\ call' # None => /\ turn'.phase = "mark" /\ call'.state = "mark"
                            /\ call'.index = call.index /\ call'.day = call.day
                            /\ turn.phase = "catchUp" /\ call.state = "ok"
  BY Ends, CallEnds DEF TurnMoves, Rest, Scheduled

\* A catch-up that is marked is about the current minute: where its point is to do
\* in this turn, it is to do on the same day.
LEMMA CatchUpDay ==
  ASSUME Whole, turn.phase \in {"catchUp", "mark"}, call # None,
         turn.config.points[call.index].minute = MinuteOf(turn.wall)
  PROVE  /\ call.day = DayOf(clock.wall) /\ call.day \in Nat /\ call.index \in Indices
         /\ \A x \in turn.todo : x[2] = call.index => DayAt(x) = call.day
<1>1. /\ call # None /\ call \in Call /\ call.day = DayOf(turn.wall)
      /\ call.index \in DOMAIN turn.config.points
      /\ turn.config.points[call.index].minute = MinuteOf(turn.wall)
  BY DEF Whole, TurnOK, CallOK
<1>2. Good(turn.config) /\ turn.wall = clock.wall /\ turn.wall \in Wall
  BY DEF Whole, TurnOK, TurnTypes
<1>3. ASSUME NEW x \in turn.todo, x[2] = call.index PROVE DayAt(x) = call.day
  <2>1. /\ x[1] \in Nat /\ x[1] <= turn.wall + 1 /\ turn.wall - MaxStep < x[1]
        /\ MinuteOf(LookAt(x[1], turn.wall)) = MinuteOf(turn.wall)
    BY <1>1, <1>3, TodoFacts
  <2>2. turn.wall + 1 \in Nat /\ LookAt(turn.wall + 1, turn.wall) = turn.wall
        /\ turn.wall + 1 <= turn.wall + 1
    BY <1>2, LocalTypes DEF LookAt
  <2>3. DayOf(LookAt(x[1], turn.wall)) = DayOf(turn.wall)
    BY <1>2, <2>1, <2>2, LooksGoOn
  <2> QED
    BY <1>1, <2>3 DEF DayAt
<1> QED
  BY <1>1, <1>2, <1>3, GoodFacts DEF Call

LEMMA MarkDay ==
  ASSUME Whole, turn.phase = "mark"
  PROVE  /\ call # None /\ call.day = DayOf(clock.wall) /\ call.day \in Nat
         /\ call.index \in Indices /\ call.state = "mark"
         /\ \A x \in turn.todo : x[2] = call.index => DayAt(x) = call.day
<1>1. /\ call # None /\ call.state = "mark"
      /\ turn.config.points[call.index].minute = MinuteOf(turn.wall)
  BY DEF Whole, TurnOK, CallOK
<1> QED
  BY <1>1, CatchUpDay

LEMMA OnceMark ==
  ASSUME Whole, Once, MarkRun
  PROVE  Once'
<1>1. turn.phase = "mark" /\ UNCHANGED <<config, clock, retry, ran>> /\ call' = None
  BY DEF MarkRun
<1>2. turn' = TurnNow("retry", turn.todo)
  BY MoveFacts DEF MarkRun, Whole, TurnOK
<1>3. TurnMoves
  BY <1>2, TurnNowFields DEF TurnMoves
<1>4. ~InFlight /\ ~InFlight'
  BY <1>1, MarkDay DEF InFlight, Returned
<1>5. RanBy' /\ RanCall'
  BY <1>1 DEF Once, RanBy, RanCall
<1>6. RanTodo' /\ RanRetry'
  BY <1>1, <1>3, <1>4, MovesDays DEF Once, RanTodo, RanRetry
<1>7. RanRun'
  <2> SUFFICES ASSUME NEW r \in ran
               PROVE  \/ lastRun'[r[1]] = r[2]
                      \/ /\ r[2] < DayOf(clock.wall)
                         /\ \A x \in turn.todo : x[2] = r[1] => r[2] < DayAt(x)
    BY <1>1, <1>3, MovesDays DEF RanRun
  <2>1. r[1] \in Indices /\ r[2] \in Nat /\ r[2] <= DayOf(clock.wall)
    BY DEF Once, RanBy
  <2>2. \/ lastRun[r[1]] = r[2]
        \/ /\ r[2] < DayOf(clock.wall)
           /\ \A x \in turn.todo : x[2] = r[1] => r[2] < DayAt(x)
    BY <1>4 DEF Once, RanRun
  <2>3. CASE r[1] # call.index \/ ~SameConfig
    <3>1. lastRun'[r[1]] = lastRun[r[1]]
      BY <2>1, <2>3 DEF MarkRun, Whole, RecordOK
    <3> QED
      BY <2>2, <3>1
  <2>4. CASE r[1] = call.index /\ SameConfig
    <3>1. lastRun'[r[1]] = call.day
      BY <2>1, <2>4 DEF MarkRun, Whole, RecordOK
    <3>2. call.day = DayOf(clock.wall) /\ call.day \in Nat
          /\ \A x \in turn.todo : x[2] = r[1] => DayAt(x) = call.day
      BY <1>1, <2>4, MarkDay
    <3> QED
      BY <2>1, <3>1, <3>2
  <2> QED
    BY <2>3, <2>4
<1> QED
  BY <1>5, <1>6, <1>7 DEF Once

LEMMA OnceEnds ==
  ASSUME Whole, Whole', Once, RecordOk \/ RecordFailed \/ RecordStale
  PROVE  Once'
<1>1. TurnMoves /\ UNCHANGED <<config, clock, ran>> /\ call # None
      /\ call.index \in Indices /\ call.day \in Nat /\ call.day <= DayOf(clock.wall)
  BY Ends, EndsMoves DEF history
<1>2. ~InFlight'
  BY EndsMoves DEF InFlight, Returned
<1>3. RanBy' /\ RanTodo'
  BY <1>1, MovesDays DEF Once, RanBy, RanTodo
<1>4. RanCall'
  <2>1. CASE call' = None
    BY <2>1 DEF RanCall
  <2>2. CASE call' # None
    <3>1. /\ turn'.phase = "mark" /\ call'.state = "mark" /\ turn.phase = "catchUp"
          /\ call'.index = call.index /\ call'.day = call.day
      BY <2>2, EndsMoves
    <3>2. turn'.config = turn.config /\ turn'.wall = turn.wall /\ turn'.todo = turn.todo
      BY <3>1, EndsMoves DEF Scheduled
    <3>3. turn.config.points[call.index].minute = MinuteOf(turn.wall)
      BY <2>2, <3>1, <3>2 DEF Whole, CallOK
    <3>4. \A x \in turn.todo : x[2] = call.index => DayAt(x) = call.day
      BY <1>1, <3>1, <3>3, CatchUpDay
    <3> QED
      BY <1>1, <3>1, <3>2, <3>4, MovesDays DEF RanCall
  <2> QED
    BY <2>1, <2>2
<1>5. RanRun' /\ RanRetry'
  <2>1. CASE ~Scheduled \/ RecordStale
    <3>1. ~InFlight
      BY <2>1 DEF InFlight, RecordStale
    <3>2. UNCHANGED <<lastRun, retry>>
      BY <2>1 DEF RecordOk, RecordFailed, RecordStale, record
    <3> QED
      BY <1>1, <1>2, <3>1, <3>2, MovesDays DEF Once, RanRun, RanRetry
  <2>2. CASE Scheduled /\ RecordFailed
    <3>1. retry' = [pending |-> TRUE, generation |-> config.generation,
                    index |-> call.index, day |-> call.day]
          /\ lastRun' = lastRun /\ call.state = "failed"
      BY <2>2 DEF RecordFailed, Returned
    <3>2. retry'.index = call.index /\ retry'.day = call.day /\ ~InFlight
      BY <3>1 DEF InFlight, Returned
    <3>3. RanRetry'
      BY <1>1, <2>2, <3>1, <3>2, MovesDays DEF Once, RanCall, RanRetry
    <3>4. RanRun'
      BY <1>1, <1>2, <3>1, <3>2, MovesDays DEF Once, RanRun
    <3> QED
      BY <3>3, <3>4
  <2>3. CASE Scheduled /\ RecordOk
    <3>1. /\ lastRun' = [lastRun EXCEPT ![call.index] = call.day]
          /\ retry' = [retry EXCEPT !.pending = FALSE] /\ call.state = "ok"
      BY <2>3 DEF RecordOk, Returned
    <3>2. ~retry'.pending
      BY <3>1 DEF Whole, RecordOK
    <3>3. RanRun'
      <4> SUFFICES ASSUME NEW r \in ran
                   PROVE  \/ lastRun'[r[1]] = r[2]
                          \/ /\ r[2] < DayOf(clock.wall)
                             /\ \A x \in turn.todo : x[2] = r[1] => r[2] < DayAt(x)
        BY <1>1, MovesDays DEF RanRun
      <4>1. r[1] \in Indices /\ r[2] \in Nat /\ r = <<r[1], r[2]>>
        BY DEF Once, RanBy
      <4>2. CASE r[1] = call.index
        <5>1. lastRun'[r[1]] = call.day
          BY <3>1, <4>1, <4>2 DEF Whole, RecordOK
        <5>2. r[2] <= call.day /\ \A x \in turn.todo : x[2] = r[1] => call.day <= DayAt(x)
          BY <1>1, <2>3, <3>1, <4>2 DEF Once, RanCall
        <5>3. DayOf(clock.wall) \in Nat /\ \A x \in turn.todo : DayAt(x) \in Nat
          BY <1>1, Ends, LocalTypes, TodoFacts
        <5> QED
          BY <1>1, <4>1, <5>1, <5>2, <5>3
      <4>3. CASE r[1] # call.index
        <5>1. lastRun'[r[1]] = lastRun[r[1]]
          BY <3>1, <4>1, <4>3 DEF Whole, RecordOK
        <5> QED
          BY <4>1, <4>3, <5>1 DEF Once, RanRun
      <4> QED
        BY <4>2, <4>3
    <3> QED
      BY <3>2, <3>3 DEF RanRetry
  <2> QED
    BY <2>1, <2>2, <2>3
<1> QED
  BY <1>3, <1>4, <1>5 DEF Once

LEMMA OnceNoLatest ==
  ASSUME Whole, Once, NoLatest
  PROVE  Once'
<1>1. call = None /\ turn' = TurnNow("retry", turn.todo)
  BY WholeNoLatest
<1>2. TurnMoves
  BY <1>1, TurnNowFields DEF TurnMoves
<1>3. ~InFlight
  BY <1>1 DEF InFlight, Returned
<1> QED
  BY <1>1, <1>2, <1>3, OnceMoves DEF NoLatest, history

LEMMA ToFacts ==
  ASSUME Whole, NEW todo, turn' = To("points", todo)
  PROVE  /\ turn'.todo = todo
         /\ todo = {} => turn' = Resting /\ turn'.phase = "idle"
         /\ todo # {} => turn'.phase = "points"
         /\ turn'.phase # "idle" => turn'.config = turn.config /\ turn'.wall = turn.wall
<1>1. turn' = IF todo = {} THEN Resting ELSE TurnNow("points", todo)
  <2>1. TurnTypes
    BY DEF Whole, TurnOK
  <2> QED
    BY <2>1, MoveFacts, Zenon
<1>2. CASE todo = {}
  BY <1>1, <1>2, RestingTypes
<1>3. CASE todo # {}
  BY <1>1, <1>3, TurnNowFields
<1> QED
  BY <1>2, <1>3

\* What a look for a retry, or for the first point that is to do, makes of the turn
LEMMA LookMoves ==
  ASSUME Whole,
         \/ RunPendingRetry /\ ~RetryWanted
         \/ RunScheduledPoint /\ ~Wanted(First(turn.todo)[2], DayAt(First(turn.todo)))
  PROVE  TurnMoves /\ call = None /\ call' = None /\ UNCHANGED <<record, history>>
<1>1. CASE RunPendingRetry /\ ~RetryWanted
  <2>1. turn' = To("points", turn.todo) /\ call = None /\ call' = None
        /\ UNCHANGED <<record, history>>
    BY <1>1 DEF RunPendingRetry
  <2> QED
    BY <2>1, ToFacts, RestingTypes DEF TurnMoves
<1>2. CASE RunScheduledPoint /\ ~Wanted(First(turn.todo)[2], DayAt(First(turn.todo)))
  <2>1. turn' = To("points", Rest) /\ call = None /\ call' = None
        /\ UNCHANGED <<record, history>>
    BY <1>2 DEF RunScheduledPoint
  <2>2. Rest \subseteq turn.todo
    BY DEF Rest
  <2> QED
    BY <2>1, <2>2, ToFacts, RestingTypes DEF TurnMoves
<1> QED
  BY <1>1, <1>2

\* A callback becomes due for a day that is later than those its point ran on, and not
\* later than those on which it is still to do.
LEMMA OnceDue ==
  ASSUME Once, call = None, call' # None, call'.state = "due",
         UNCHANGED <<config, lastRun, clock, retry, turn, ran>>,
         \A r \in ran : r[1] = call'.index => r[2] < call'.day,
         \A x \in turn.todo : x[2] = call'.index => call'.day <= DayAt(x)
  PROVE  Once'
<1>1. ~InFlight /\ ~InFlight'
  BY DEF InFlight, Returned
<1>2. \A x : DayAt(x)' = DayAt(x)
  BY DEF DayAt
<1>3. RanBy' /\ RanTodo' /\ RanCall'
  BY <1>2 DEF Once, RanBy, RanTodo, RanCall
<1>4. RanRun' /\ RanRetry'
  BY <1>1, <1>2 DEF Once, RanRun, RanRetry
<1> QED
  BY <1>3, <1>4 DEF Once

LEMMA OnceRetry ==
  ASSUME Whole, Once, RunPendingRetry
  PROVE  Once'
<1>1. CASE ~RetryWanted
  BY <1>1, LookMoves, OnceMoves DEF record, history, InFlight, Returned
<1>2. CASE RetryWanted
  <2>1. /\ call' = [index |-> retry.index, day |-> retry.day, state |-> "due"]
        /\ UNCHANGED <<config, lastRun, clock, retry, turn, ran>> /\ call = None
    BY <1>2 DEF RunPendingRetry, record, history
  <2>2. call'.index = retry.index /\ call'.day = retry.day /\ call'.state = "due"
    BY <2>1
  <2>3. call' # None
    <3>1. retry.index \in Nat \ {0} /\ retry.day \in Nat
      BY <1>2, RetryFacts, IndexTypes DEF RetryWanted, RunPendingRetry
    <3>2. call' \in Call
      BY <2>1, <3>1 DEF Call
    <3> QED
      BY <3>2, Consts
  <2>4. ~InFlight /\ retry.pending
    BY <1>2, <2>1 DEF InFlight, Returned, RetryWanted
  <2> QED
    BY <2>1, <2>2, <2>3, <2>4, OnceDue DEF Once, RanRetry
<1> QED
  BY <1>1, <1>2

LEMMA OnceScheduled ==
  ASSUME Whole, Once, RunScheduledPoint
  PROVE  Once'
<1> DEFINE f == First(turn.todo)
<1>1. CASE ~Wanted(f[2], DayAt(f))
  BY <1>1, LookMoves, OnceMoves DEF record, history, InFlight, Returned
<1>2. CASE Wanted(f[2], DayAt(f))
  <2>1. /\ call' = [index |-> f[2], day |-> DayAt(f), state |-> "due"]
        /\ UNCHANGED <<config, lastRun, clock, retry, turn, ran>> /\ call = None
        /\ turn.phase = "points"
    BY <1>2 DEF RunScheduledPoint, record, history
  <2>2. call'.index = f[2] /\ call'.day = DayAt(f) /\ call'.state = "due"
    BY <2>1
  <2>3. f \in turn.todo /\ \A y \in turn.todo : f[1] <= y[1]
    BY <2>1, FirstFacts DEF Whole, TurnOK
  <2>4. lastRun[f[2]] # DayAt(f)
    BY <1>2 DEF Wanted
  <2> HIDE DEF f
  <2>5. call' # None
    <3>1. f[2] \in Nat \ {0} /\ DayAt(f) \in Nat
      BY <2>1, <2>3, TodoFacts, IndexTypes
    <3>2. call' \in Call
      BY <2>1, <3>1 DEF Call
    <3> QED
      BY <3>2, Consts
  <2>6. \A y \in turn.todo : DayAt(f) <= DayAt(y)
    BY <2>1, <2>3, TodoOrder
  <2>7. ~InFlight
    BY <2>1 DEF InFlight, Returned
  <2>8. ASSUME NEW r \in ran, r[1] = f[2] PROVE r[2] < DayAt(f)
    <3>1. r[2] <= DayAt(f) /\ r[2] \in Nat
      BY <2>3, <2>8 DEF Once, RanBy, RanTodo
    <3>2. lastRun[f[2]] = r[2] \/ r[2] < DayAt(f)
      BY <2>3, <2>7, <2>8 DEF Once, RanRun
    <3>3. DayAt(f) \in Nat
      BY <2>1, <2>3, TodoFacts
    <3> QED
      BY <2>4, <3>1, <3>2, <3>3
  <2> QED
    BY <2>1, <2>2, <2>5, <2>6, <2>8, OnceDue
<1> QED
  BY <1>1, <1>2

LEMMA OnceNext ==
  ASSUME Whole, Whole', Once, [Next]_vars
  PROVE  Once'
<1>1. ASSUME Edit PROVE Once'
  <2>1. ASSUME NEW g \in Generations, StageBegin(g) \/ CommitFails(g) PROVE Once'
    BY <2>1, OnceStays DEF StageBegin, CommitFails, history
  <2>2. ASSUME NEW g \in Generations, NEW i \in Indices, StagePoint(g, i) PROVE Once'
    BY <2>2, OnceStays DEF StagePoint, history
  <2>3. ASSUME NEW g \in Generations, StageCommit(g) PROVE Once'
    BY <2>3, OnceInstalled DEF StageCommit
  <2> QED
    BY <1>1, <2>1, <2>2, <2>3 DEF Edit
<1>2. ASSUME Turn PROVE Once'
  <2>1. ASSUME RecordOk \/ RecordFailed \/ RecordStale PROVE Once'
    BY <2>1, OnceEnds
  <2> QED
    BY <1>2, <2>1, OnceApply, OnceMark, OnceNoLatest, OnceRetry, OnceScheduled DEF Turn
<1>3. ASSUME Start PROVE Once'
  BY <1>3, OnceInstalled DEF Start, Unread
<1>4. ASSUME NoClock PROVE Once'
  <2>1. clock'.wall = clock.wall
    BY <1>4 DEF NoClock, Whole, RecordOK
  <2> QED
    BY <1>4, <2>1, OnceStays DEF NoClock, history
<1>5. ASSUME UNCHANGED vars PROVE Once'
  BY <1>5, OnceStays DEF vars, record, history
<1> QED
  BY <1>1, <1>2, <1>3, <1>4, <1>5, OnceApply, OnceTickJump, OnceTick DEF Next

\* No callback of run_scheduled_point() or run_pending_retry() is made for a point and a
\* local day on which it has succeeded, however the clock moved within the day and
\* whatever was committed while a callback ran (last_run_day, record_apply_result).
THEOREM OnceEveryDay == Spec => []OncePerDay
<1>1. Init => Whole /\ Once
  <2> SUFFICES ASSUME Init PROVE Once
    BY WholeInit
  <2>1. ran = {} /\ ~retry.pending /\ call = None
    BY FreshTypes DEF Init
  <2> QED
    BY <2>1 DEF Once, RanBy, RanTodo, RanCall, RanRun, RanRetry
<1>2. Whole /\ Once /\ [Next]_vars => Whole' /\ Once'
  BY WholeNext, OnceNext
<1>3. Whole /\ Once => OncePerDay
  <2> SUFFICES ASSUME Whole, Once, Returned("due"), Scheduled,
                      <<call.index, call.day>> \in ran
               PROVE  FALSE
    BY DEF OncePerDay
  <2>1. call # None /\ call.state = "due" /\ call.day \in Nat
    BY DEF Returned, Whole, CallOK, Call
  <2>2. call.day < call.day
    BY <2>1 DEF Once, RanCall
  <2> QED
    BY <2>1, <2>2
<1> QED
  BY <1>1, <1>2, <1>3, PTL DEF Spec

----------------------------------------------------------------------------
(* No point is skipped *)

\* Every point that was crossed was called, or is to do.
Crossed ==
  config.enabled /\ since # None /\ clock.wall # None =>
    \A t \in since + 1 .. clock.wall : \A i \in PointsOf(config, t) :
      <<i, DayOf(t)>> \in tried \/ <<t, i>> \in turn.todo

\* What was recorded of a callback was called.
Called ==
  /\ \A i \in Indices : lastRun[i] # None => <<i, lastRun[i]>> \in tried
  /\ call # None /\ call.state # "due" /\ SameConfig => <<call.index, call.day>> \in tried
  /\ retry.pending => <<retry.index, retry.day>> \in tried

\* A configuration that is installed during a turn begins with the next one.
Since ==
  /\ since \in Wall \cup {None}
  /\ turn.phase # "idle" => since = clock.wall \/ SameConfig

Reached == Crossed /\ Called /\ Since

LEMMA ReachedStays ==
  ASSUME Reached, UNCHANGED <<config, lastRun, retry, turn, call, since, tried>>,
         clock'.wall = clock.wall
  PROVE  Reached'
<1>1. Crossed'
  BY DEF Reached, Crossed
<1> QED
  BY <1>1 DEF Reached, Called, Since, SameConfig

\* From a time that is now, no minute has been crossed.
LEMMA NothingCrossed ==
  ASSUME NEW t \in Wall
  PROVE  t + 1 .. t = {}
<1>1. t \in Nat
  BY LocalTypes
<1> QED
  BY <1>1

LEMMA ReachedCommit ==
  ASSUME Whole, Reached, NEW g \in Generations, StageCommit(g)
  PROVE  Reached'
<1>1. Candidate.generation = g /\ config.generation <= g
  BY CandidateIs DEF StageCommit
<1>2. /\ config' = Candidate /\ lastRun' = NeverRun /\ retry' = NoRetry
      /\ tried' = IF g = config.generation THEN tried ELSE {}
      /\ since' = clock.wall /\ UNCHANGED <<clock, turn, call>>
  BY <1>1 DEF StageCommit, Installed
<1>3. clock.wall \in Wall \cup {None}
  BY DEF Whole, RecordOK
<1>4. Crossed'
  BY <1>2, <1>3, NothingCrossed DEF Crossed
<1>5. Since'
  BY <1>2, <1>3 DEF Since
<1>6. Called'
  <2>1. ASSUME call # None, turn.config.generation = g
        PROVE  SameConfig /\ tried' = tried
    <3>1. turn.phase # "idle"
      BY <2>1 DEF Whole, CallOK
    <3>2. turn.config.generation <= config.generation
      BY <3>1 DEF Whole, TurnOK
    <3>3. config.generation \in Nat /\ g \in Nat
      BY GoodFacts, PointTypes, StagedFacts DEF Whole, RecordOK
    <3> QED
      BY <1>1, <1>2, <2>1, <3>2, <3>3 DEF SameConfig
  <2> QED
    BY <1>1, <1>2, <2>1, FreshTypes DEF Reached, Called, SameConfig
<1> QED
  BY <1>4, <1>5, <1>6 DEF Reached

LEMMA ReachedStart ==
  ASSUME Whole, Start
  PROVE  Reached'
<1>1. /\ lastRun' = NeverRun /\ retry' = NoRetry /\ since' = clock.wall
      /\ clock' = [valid |-> FALSE, wall |-> None] /\ turn' = Resting /\ call' = None
  BY DEF Start, Unread, Installed
<1>2. clock.wall \in Wall \cup {None} /\ clock'.wall = None
  BY <1>1 DEF Whole, RecordOK
<1> QED
  BY <1>1, <1>2, FreshTypes, RestingTypes DEF Reached, Crossed, Called, Since

LEMMA TickGoes ==
  ASSUME Whole, NEW w \in Wall, NEW reached \in BOOLEAN, Tick(w, reached)
  PROVE  /\ clock.wall \in Wall /\ turn.phase = "idle" /\ clock.wall <= w
         /\ w <= clock.wall + MaxStep /\ clock'.wall = w /\ config' = config
         /\ \E catching \in BOOLEAN : Go(w, Due(config, clock.wall, w), catching)
<1>1. clock.wall \in Wall /\ turn.phase = "idle" /\ clock'.wall = w /\ config' = config
  BY DEF Whole, RecordOK, Tick
<1>2. clock.wall <= w /\ w <= clock.wall + MaxStep
  BY <1>1, LocalTypes, Consts DEF Tick
<1> DEFINE catching == Catching(catchUp, deadline')
<1>3. deadline' \in [zero: BOOLEAN, reached: BOOLEAN]
  BY DEF Tick, Whole, RecordOK
<1>4. config.enabled \in BOOLEAN
  BY GoodFacts, PointTypes DEF Whole, RecordOK
<1>5. (catching /\ CatchUpOnClockReady) \in BOOLEAN
  BY <1>3, <1>4, Consts DEF Catching, Whole, RecordOK
<1>6. Go(w, Due(config, clock.wall, w), catching /\ CatchUpOnClockReady)
  BY DEF Tick
<1> QED
  BY <1>1, <1>2, <1>5, <1>6, Zenon

\* Before and after a look at the clock
LEMMA GoFacts ==
  ASSUME Whole, turn.phase = "idle", NEW w \in Wall, NEW todo, NEW catching \in BOOLEAN,
         Go(w, todo, catching)
  PROVE  /\ config.enabled => turn'.todo = todo
         /\ turn'.phase # "idle" => turn'.config = config
         /\ call' # None => call'.state = "due"
         /\ turn.todo = {} /\ call = None
<1>0. turn = Resting /\ call = None /\ turn.todo = {}
  BY RestingTypes DEF Whole, TurnOK
<1>1. CASE ~config.enabled
  BY <1>0, <1>1 DEF Go
<1>2. CASE config.enabled
  BY <1>0, <1>2, GoIs
<1> QED
  BY <1>1, <1>2, GoodFacts, PointTypes DEF Whole, RecordOK

LEMMA ReachedTick ==
  ASSUME Whole, Reached, NEW w \in Wall, NEW reached \in BOOLEAN, Tick(w, reached)
  PROVE  Reached'
<1>1. /\ clock.wall \in Wall /\ turn.phase = "idle" /\ clock.wall <= w
      /\ clock'.wall = w /\ config' = config
  BY TickGoes
<1>2. PICK catching \in BOOLEAN : Go(w, Due(config, clock.wall, w), catching)
  BY TickGoes
<1>3. /\ config.enabled => turn'.todo = Due(config, clock.wall, w)
      /\ turn'.phase # "idle" => turn'.config = config
      /\ call' # None => call'.state = "due"
      /\ turn.todo = {} /\ call = None
  BY <1>1, <1>2, GoFacts
<1>4. UNCHANGED <<lastRun, retry, tried, since>>
  BY DEF Tick
<1>5. Called' /\ Since'
  BY <1>1, <1>3, <1>4 DEF Reached, Called, Since, SameConfig
<1>6. Crossed'
  <2> SUFFICES ASSUME config.enabled, since # None, w # None,
                      NEW t \in since + 1 .. w, NEW i \in PointsOf(config, t)
               PROVE  <<i, DayOf(t)>> \in tried \/ <<t, i>> \in Due(config, clock.wall, w)
    BY <1>1, <1>3, <1>4 DEF Crossed
  <2>1. since \in Nat /\ clock.wall \in Nat /\ w \in Nat /\ clock.wall # None
    BY <1>1, LocalTypes DEF Reached, Since
  <2>2. CASE t <= clock.wall
    <3>1. t \in since + 1 .. clock.wall
      BY <2>1, <2>2
    <3> QED
      BY <1>3, <2>1, <3>1 DEF Reached, Crossed
  <2>3. CASE t > clock.wall
    <3>1. t \in clock.wall + 1 .. w + 1 /\ LookAt(t, w) = t
      BY <2>1, <2>3 DEF LookAt
    <3>2. i \in DOMAIN config.points
      BY PointsOfFacts
    <3> QED
      BY <3>1, <3>2 DEF Due
  <2> QED
    BY <2>1, <2>2, <2>3
<1> QED
  BY <1>5, <1>6 DEF Reached

LEMMA ReachedTickJump ==
  ASSUME Whole, Reached, NEW w \in Wall, TickJump(w)
  PROVE  Reached'
<1>1. turn.phase = "idle" /\ catchUp' = (config.enabled /\ CatchUpOnClockReady)
      /\ Go(w, Due(config, w, w), catchUp') /\ UNCHANGED <<config, lastRun, tried>>
      /\ since' = w /\ clock'.wall = w /\ retry' = [retry EXCEPT !.pending = FALSE]
  BY DEF TickJump
<1>2. catchUp' \in BOOLEAN
  BY <1>1, Consts, GoodFacts, PointTypes DEF Whole, RecordOK
<1>3. call' # None => call'.state = "due"
  BY <1>1, <1>2, GoFacts
<1>4. ~retry'.pending
  BY <1>1 DEF Whole, RecordOK
<1>5. Crossed'
  BY <1>1, NothingCrossed DEF Crossed
<1> QED
  BY <1>1, <1>3, <1>4, <1>5 DEF Reached, Called, Since

LEMMA ReachedApply ==
  ASSUME Whole, Reached, NEW ok \in BOOLEAN, Apply(ok)
  PROVE  Reached'
<1>1. UNCHANGED <<config, lastRun, clock, retry, turn, since>> /\ Returned("due")
      /\ tried' = IF SameConfig THEN tried \cup {<<call.index, call.day>>} ELSE tried
  BY DEF Apply, record
<1>2. call'.index = call.index /\ call'.day = call.day
  BY <1>1, CallReturns
<1>3. SameConfig' = SameConfig /\ tried \subseteq tried'
  BY <1>1 DEF SameConfig
<1>4. Crossed'
  BY <1>1, <1>3 DEF Reached, Crossed
<1> QED
  BY <1>1, <1>2, <1>3, <1>4 DEF Reached, Called, Since

\* The turn goes on with all that is to do, or the first of it is done.
LEMMA CrossedMoves ==
  ASSUME Whole, Crossed, UNCHANGED <<config, clock, since, tried>>,
         \/ turn'.todo = turn.todo
         \/ /\ turn.phase = "points" /\ turn'.todo = Rest
            /\ since = clock.wall
               \/ <<First(turn.todo)[2], DayAt(First(turn.todo))>> \in tried
  PROVE  Crossed'
<1>1. CASE turn'.todo = turn.todo
  BY <1>1 DEF Crossed
<1>2. CASE since = clock.wall
  BY <1>2, NothingCrossed DEF Crossed, Whole, RecordOK
<1>3. CASE /\ turn.phase = "points" /\ turn'.todo = Rest
           /\ <<First(turn.todo)[2], DayAt(First(turn.todo))>> \in tried
  <2> SUFFICES ASSUME config.enabled, since # None, clock.wall # None,
                      NEW t \in since + 1 .. clock.wall, NEW i \in PointsOf(config, t)
               PROVE  <<i, DayOf(t)>> \in tried \/ <<t, i>> \in Rest
    BY <1>3 DEF Crossed
  <2>1. <<i, DayOf(t)>> \in tried \/ <<t, i>> \in turn.todo
    BY DEF Crossed
  <2>2. CASE <<t, i>> = First(turn.todo)
    <3>1. clock.wall = turn.wall
      BY <1>3 DEF Whole, TurnOK
    <3>2. t <= turn.wall
      BY <3>1, LocalTypes DEF Whole, RecordOK
    <3>3. DayAt(First(turn.todo)) = DayOf(t)
      BY <2>2, <3>2 DEF DayAt, LookAt
    <3> QED
      BY <1>3, <2>2, <3>3
  <2> QED
    BY <2>1, <2>2 DEF Rest
<1> QED
  BY <1>1, <1>2, <1>3

LEMMA ReachedEnds ==
  ASSUME Whole, Reached, RecordOk \/ RecordFailed \/ RecordStale
  PROVE  Reached'
<1>1. UNCHANGED <<config, clock, tried, since>> /\ call # None /\ call.state # "due"
      /\ call.index \in Indices /\ call.day \in Nat /\ turn.phase # "idle"
  BY Ends DEF history
<1>2. /\ call' # None => /\ call'.index = call.index /\ call'.day = call.day
                         /\ turn'.config = turn.config
      /\ turn'.phase # "idle" => turn'.config = turn.config
  BY Ends, CallEnds
<1>3. SameConfig => <<call.index, call.day>> \in tried
  BY <1>1 DEF Reached, Called
<1>4. ~SameConfig => since = clock.wall
  BY <1>1 DEF Reached, Since
<1>5. Since'
  BY <1>1, <1>2 DEF Reached, Since, SameConfig
<1>6. Crossed'
  <2>1. turn'.todo = turn.todo \/ (turn.phase = "points" /\ turn'.todo = Rest)
    BY Ends, CallEnds
  <2>2. turn.phase = "points" => /\ call.index = First(turn.todo)[2]
                                 /\ call.day = DayAt(First(turn.todo))
    BY <1>1 DEF Whole, CallOK
  <2> QED
    BY <1>1, <1>3, <1>4, <2>1, <2>2, CrossedMoves DEF Reached
<1>7. Called'
  <2>1. call' # None /\ SameConfig' => <<call'.index, call'.day>> \in tried
    BY <1>1, <1>2, <1>3 DEF SameConfig
  <2>2. \A i \in Indices : lastRun'[i] # None => <<i, lastRun'[i]>> \in tried
    <3>1. \/ lastRun' = lastRun
          \/ SameConfig /\ lastRun' = [lastRun EXCEPT ![call.index] = call.day]
      BY DEF RecordOk, RecordFailed, RecordStale, record
    <3> QED
      BY <1>1, <1>3, <3>1 DEF Reached, Called, Whole, RecordOK
  <2>3. retry'.pending => <<retry'.index, retry'.day>> \in tried
    <3>1. \/ retry' = retry
          \/ retry' = [retry EXCEPT !.pending = FALSE]
          \/ SameConfig /\ retry' = [pending |-> TRUE, generation |-> config.generation,
                                     index |-> call.index, day |-> call.day]
      BY DEF RecordOk, RecordFailed, RecordStale, record
    <3>2. CASE retry' = [retry EXCEPT !.pending = FALSE]
      BY <3>2 DEF Whole, RecordOK
    <3> QED
      BY <1>3, <3>1, <3>2 DEF Reached, Called
  <2> QED
    BY <1>1, <2>1, <2>2, <2>3 DEF Called
<1> QED
  BY <1>5, <1>6, <1>7 DEF Reached

LEMMA ReachedMark ==
  ASSUME Whole, Reached, MarkRun
  PROVE  Reached'
<1>1. turn.phase = "mark" /\ UNCHANGED <<config, clock, retry, since, tried>> /\ call' = None
  BY DEF MarkRun
<1>2. turn' = TurnNow("retry", turn.todo)
  BY MoveFacts DEF MarkRun, Whole, TurnOK
<1>3. turn'.config = turn.config /\ turn'.todo = turn.todo
  BY <1>2, TurnNowFields
<1>4. Crossed'
  BY <1>1, <1>3, CrossedMoves DEF Reached
<1>5. \A i \in Indices : lastRun'[i] # None => <<i, lastRun'[i]>> \in tried
  <2>1. call # None /\ call.state # "due" /\ call.index \in Indices
    BY <1>1, MarkDay
  <2> QED
    BY <2>1 DEF MarkRun, Reached, Called, Whole, RecordOK
<1> QED
  BY <1>1, <1>3, <1>4, <1>5 DEF Reached, Called, Since, SameConfig

LEMMA ReachedNoLatest ==
  ASSUME Whole, Reached, NoLatest
  PROVE  Reached'
<1>1. call = None /\ turn' = TurnNow("retry", turn.todo)
  BY WholeNoLatest
<1>2. UNCHANGED <<config, clock, lastRun, retry, since, tried, call>>
      /\ turn.phase # "idle"
  BY DEF NoLatest, history
<1>3. turn'.config = turn.config /\ turn'.todo = turn.todo
  BY <1>1, TurnNowFields
<1>4. Crossed'
  BY <1>2, <1>3, CrossedMoves DEF Reached
<1> QED
  BY <1>1, <1>2, <1>3, <1>4 DEF Reached, Called, Since, SameConfig

LEMMA ReachedRetry ==
  ASSUME Whole, Reached, RunPendingRetry
  PROVE  Reached'
<1>1. UNCHANGED <<config, clock, lastRun, retry, since, tried>> /\ turn.phase # "idle"
  BY DEF RunPendingRetry, record, history
<1>2. CASE RetryWanted
  <2>1. turn' = turn /\ call'.state = "due"
    BY <1>2 DEF RunPendingRetry
  <2>2. Crossed'
    BY <1>1, <2>1, CrossedMoves DEF Reached
  <2> QED
    BY <1>1, <2>1, <2>2 DEF Reached, Called, Since, SameConfig
<1>3. CASE ~RetryWanted
  <2>1. turn' = To("points", turn.todo) /\ call' = None
    BY <1>3 DEF RunPendingRetry
  <2>2. /\ turn'.todo = turn.todo /\ (turn'.phase # "idle" => turn'.config = turn.config)
    BY <2>1, ToFacts
  <2>3. Crossed'
    BY <1>1, <2>2, CrossedMoves DEF Reached
  <2> QED
    BY <1>1, <2>1, <2>2, <2>3 DEF Reached, Called, Since, SameConfig
<1> QED
  BY <1>2, <1>3

LEMMA ReachedScheduled ==
  ASSUME Whole, Reached, RunScheduledPoint
  PROVE  Reached'
<1> DEFINE f == First(turn.todo)
<1>1. UNCHANGED <<config, clock, lastRun, retry, since, tried>> /\ turn.phase = "points"
  BY DEF RunScheduledPoint, record, history
<1>2. CASE Wanted(f[2], DayAt(f))
  <2>1. turn' = turn /\ call'.state = "due"
    BY <1>2 DEF RunScheduledPoint
  <2>2. Crossed'
    BY <1>1, <2>1, CrossedMoves DEF Reached
  <2> QED
    BY <1>1, <2>1, <2>2 DEF Reached, Called, Since, SameConfig
<1>3. CASE ~Wanted(f[2], DayAt(f))
  <2>1. turn' = To("points", Rest) /\ call' = None
    BY <1>3 DEF RunScheduledPoint
  <2>2. /\ turn'.todo = Rest /\ (turn'.phase # "idle" => turn'.config = turn.config)
    BY <2>1, ToFacts
  <2>3. since = clock.wall \/ <<f[2], DayAt(f)>> \in tried
    <3>1. f \in turn.todo
      BY <1>1, FirstFacts DEF Whole, TurnOK
    <3> HIDE DEF f
    <3>2. f[2] \in Indices /\ DayAt(f) # None
      BY <1>1, <3>1, TodoFacts, Consts
    <3> QED
      BY <1>1, <1>3, <3>2 DEF Wanted, Reached, Called, Since
  <2>4. Crossed'
    BY <1>1, <2>2, <2>3, CrossedMoves DEF Reached
  <2> QED
    BY <1>1, <2>1, <2>2, <2>4 DEF Reached, Called, Since, SameConfig
<1> QED
  BY <1>2, <1>3

LEMMA ReachedNext ==
  ASSUME Whole, Reached, [Next]_vars
  PROVE  Reached'
<1>1. ASSUME Edit PROVE Reached'
  <2>1. ASSUME NEW g \in Generations, StageBegin(g) \/ CommitFails(g) PROVE Reached'
    BY <2>1, ReachedStays DEF StageBegin, CommitFails, history
  <2>2. ASSUME NEW g \in Generations, NEW i \in Indices, StagePoint(g, i) PROVE Reached'
    BY <2>2, ReachedStays DEF StagePoint, history
  <2> QED
    BY <1>1, <2>1, <2>2, ReachedCommit DEF Edit
<1>2. ASSUME Turn PROVE Reached'
  <2>1. ASSUME RecordOk \/ RecordFailed \/ RecordStale PROVE Reached'
    BY <2>1, ReachedEnds
  <2> QED
    BY <1>2, <2>1, ReachedApply, ReachedMark, ReachedNoLatest, ReachedRetry, ReachedScheduled
       DEF Turn
<1>4. ASSUME NoClock PROVE Reached'
  <2>1. clock'.wall = clock.wall
    BY <1>4 DEF NoClock, Whole, RecordOK
  <2> QED
    BY <1>4, <2>1, ReachedStays DEF NoClock, history
<1>5. ASSUME UNCHANGED vars PROVE Reached'
  BY <1>5, ReachedStays DEF vars, record, history
<1> QED
  BY <1>1, <1>2, <1>4, <1>5, ReachedStart, ReachedApply, ReachedTickJump, ReachedTick DEF Next

\* Between two turns, every point whose minute lies between the setting of the clock and
\* now has been called on its day, also when the task came late and when edits were
\* committed in the middle of a turn (schedule_task, run_points_for_minute).
THEOREM NoPointSkipped == Spec => []NothingSkipped
<1>1. Init => Whole /\ Reached
  <2> SUFFICES ASSUME Init PROVE Reached
    BY WholeInit
  <2>1. ~retry.pending /\ call = None /\ since = None /\ lastRun = NeverRun /\ turn = Resting
    BY FreshTypes DEF Init
  <2> QED
    BY <2>1, FreshTypes, RestingTypes DEF Reached, Crossed, Called, Since
<1>2. Whole /\ Reached /\ [Next]_vars => Whole' /\ Reached'
  BY WholeNext, ReachedNext
<1>3. Whole /\ Reached => NothingSkipped
  <2> SUFFICES ASSUME Whole, Reached, turn.phase = "idle" PROVE NothingSkipped
    BY DEF NothingSkipped
  <2>1. turn.todo = {} /\ (clock.valid => clock.wall # None)
    BY RestingTypes DEF Whole, TurnOK, RecordOK
  <2> QED
    BY <2>1 DEF Reached, Crossed, NothingSkipped
<1> QED
  BY <1>1, <1>2, <1>3, PTL DEF Spec

----------------------------------------------------------------------------
(* The calendar *)

LEMMA Residue ==
  ASSUME NEW m \in Nat, NEW x \in Int, 0 <= x, x < 2 * m
  PROVE  x % m = IF x < m THEN x ELSE x - m
  OBVIOUS

\* Days of m minutes
LEMMA Products ==
  ASSUME NEW m \in Nat, NEW a \in Nat, NEW b \in Nat
  PROVE  /\ a * m \in Nat /\ (a + b) * m = a * m + b * m
         /\ a < b => a * m + m <= b * m
<1>1. a * m \in Nat /\ (a + b) * m = a * m + b * m
  OBVIOUS
<1>2. ASSUME a < b PROVE a * m + m <= b * m
  <2>1. PICK k \in Nat : b = a + 1 + k
    <3>1. b - a - 1 \in Nat /\ b = a + 1 + (b - a - 1)
      BY <1>2
    <3> QED
      BY <3>1
  <2>2. b * m = a * m + m + k * m /\ k * m \in Nat
    BY <2>1
  <2> QED
    BY <2>2, <1>1
<1> QED
  BY <1>1, <1>2

\* The day of the week that was b days ago, and how long ago day d was
LEMMA DaysAgo ==
  ASSUME NEW n \in Nat, NEW w \in 0 .. n - 1, NEW b \in 0 .. n - 1, NEW d \in 0 .. n - 1
  PROVE  /\ (w - b + n) % n \in 0 .. n - 1
         /\ (w - b + n) % n = d <=> b = IF d <= w THEN w - d ELSE w - d + n
         /\ (w + b) % n \in 0 .. n - 1
         /\ (w + b) % n = d <=> b = IF d >= w THEN d - w ELSE d - w + n
<1>1. PICK x \in Int : x = w - b + n /\ 0 <= x /\ x < 2 * n
  OBVIOUS
<1>2. x % n = IF x < n THEN x ELSE x - n
  BY <1>1, Residue
<1>3. PICK y \in Int : y = w + b /\ 0 <= y /\ y < 2 * n
  OBVIOUS
<1>4. y % n = IF y < n THEN y ELSE y - n
  BY <1>3, Residue
<1>5. (w - b + n) % n = IF x < n THEN x ELSE x - n
  BY <1>1, <1>2
<1>6. (w + b) % n = IF y < n THEN y ELSE y - n
  BY <1>3, <1>4
<1> QED
  BY <1>1, <1>3, <1>5, <1>6

\* How long ago minute p of day d was, at minute m of day w, in a week of n days
LEMMA MinutesAgo ==
  ASSUME NEW n \in Nat \ {0}, NEW k \in Nat \ {0}, NEW w \in 0 .. n - 1, NEW d \in 0 .. n - 1,
         NEW m \in 0 .. k - 1, NEW p \in 0 .. k - 1,
         NEW b, b = IF d <= w THEN w - d ELSE w - d + n,
         NEW a, a = IF d >= w THEN d - w ELSE d - w + n
  PROVE  /\ b \in 0 .. n - 1 /\ a \in 0 .. n - 1
         /\ ((w * k + m + n * k) - (d * k + p)) % (n * k)
              = IF d = w /\ p > m THEN n * k + m - p ELSE b * k + m - p
         /\ n * k - (IF d = w /\ p > m THEN n * k + m - p ELSE b * k + m - p)
              = IF a * k + p - m <= 0 THEN a * k + p - m + n * k ELSE a * k + p - m
         /\ p < n * k
<1> DEFINE N == n * k
           W == w * k
           D == d * k
           B == b * k
           A == a * k
<1>0. n \in Nat /\ k \in Nat /\ w \in Nat /\ d \in Nat /\ m \in Nat /\ p \in Nat
      /\ m < k /\ p < k /\ w < n /\ d < n /\ 0 < n
  OBVIOUS
<1>1. b \in 0 .. n - 1 /\ a \in 0 .. n - 1 /\ a \in Nat /\ b \in Nat
  BY <1>0
<1>2. N \in Nat /\ W \in Nat /\ D \in Nat /\ A \in Nat /\ B \in Nat /\ k <= N
      /\ W + k <= N /\ D + k <= N /\ A + k <= N /\ B + k <= N
  <2>1. 0 * k + k <= N
    BY <1>0, Products
  <2> QED
    BY <1>0, <1>1, <2>1, Products
<1>3. CASE d < w
  <2>1. w = d + b /\ n = a + b /\ 0 < a /\ 0 < b
    BY <1>0, <1>3
  <2>2. W = D + B /\ N = A + B /\ k <= A /\ k <= B
    <3>1. 0 * k + k <= a * k /\ 0 * k + k <= b * k /\ 0 * k = 0
      BY <1>0, <1>1, <2>1, Products
    <3> QED
      BY <1>0, <1>1, <2>1, <3>1, Products
  <2> HIDE DEF N, W, D, B, A
  <2>3. PICK x \in Int : x = (W + m + N) - (D + p) /\ 0 <= x /\ x < 2 * N
    BY <1>0, <1>2, <2>2
  <2>4. x % N = IF x < N THEN x ELSE x - N
    BY <1>2, <2>3, Residue
  <2>5. ((W + m + N) - (D + p)) % N = B + m - p
    BY <1>0, <1>2, <2>2, <2>3, <2>4
  <2>6. N - (B + m - p) = A + p - m /\ A + p - m > 0
    BY <1>0, <1>2, <2>2
  <2>7. d # w /\ p < N
    BY <1>0, <1>2, <1>3
  <2> QED
    BY <1>1, <2>5, <2>6, <2>7 DEF N, W, D, B, A
<1>4. CASE d > w
  <2>1. d = w + a /\ n = a + b /\ 0 < a /\ 0 < b
    BY <1>0, <1>4
  <2>2. D = W + A /\ N = A + B /\ k <= A /\ k <= B
    <3>1. 0 * k + k <= a * k /\ 0 * k + k <= b * k /\ 0 * k = 0
      BY <1>0, <1>1, <2>1, Products
    <3> QED
      BY <1>0, <1>1, <2>1, <3>1, Products
  <2> HIDE DEF N, W, D, B, A
  <2>3. PICK x \in Int : x = (W + m + N) - (D + p) /\ 0 <= x /\ x < 2 * N
    BY <1>0, <1>2, <2>2
  <2>4. x % N = IF x < N THEN x ELSE x - N
    BY <1>2, <2>3, Residue
  <2>5. ((W + m + N) - (D + p)) % N = B + m - p
    BY <1>0, <1>2, <2>2, <2>3, <2>4
  <2>6. N - (B + m - p) = A + p - m /\ A + p - m > 0
    BY <1>0, <1>2, <2>2
  <2>7. d # w /\ p < N
    BY <1>0, <1>2, <1>4
  <2> QED
    BY <1>1, <2>5, <2>6, <2>7 DEF N, W, D, B, A
<1>5. CASE d = w
  <2>1. a = 0 /\ b = 0 /\ W = D
    BY <1>0, <1>5
  <2>2. A = 0 /\ B = 0
    BY <1>0, <2>1
  <2> HIDE DEF N, W, D, B, A
  <2>3. PICK x \in Int : x = (W + m + N) - (D + p) /\ 0 <= x /\ x < 2 * N
    BY <1>0, <1>2, <2>1
  <2>4. x % N = IF x < N THEN x ELSE x - N
    BY <1>2, <2>3, Residue
  <2>5. ((W + m + N) - (D + p)) % N = IF p > m THEN N + m - p ELSE m - p
    BY <1>0, <1>2, <2>1, <2>3, <2>4
  <2>6. N - (IF p > m THEN N + m - p ELSE m - p)
          = IF p - m <= 0 THEN p - m + N ELSE p - m
    BY <1>0, <1>2
  <2>7. p < N
    BY <1>0, <1>2
  <2>8. B + m - p = m - p /\ A + p - m = p - m
    BY <1>0, <2>2
  <2> QED
    BY <1>1, <1>5, <2>5, <2>6, <2>7, <2>8 DEF N, W, D, B, A
<1> QED
  BY <1>0, <1>3, <1>4, <1>5

LEMMA OccursFacts ==
  ASSUME NEW c, Good(c), NEW o \in Occurs(c)
  PROVE  /\ o = <<o[1], o[2]>> /\ o[1] \in DOMAIN c.points /\ o[2] \in 0 .. Days - 1
         /\ AppliesOn(c.points[o[1]], o[2]) /\ c.points[o[1]].minute \in 0 .. Minutes - 1
<1>1. o[1] \in DOMAIN c.points /\ o[2] \in 0 .. Days - 1 /\ o = <<o[1], o[2]>>
      /\ AppliesOn(c.points[o[1]], o[2])
  BY DEF Occurs
<1> QED
  BY <1>1, ValidMinutes

\* The candidates of latest_point_index() are the occurrences that are seen, those
\* of next_point_index() all of them, and each is as far away as it should be.
LEMMA SeenIsPast ==
  ASSUME NEW c, Good(c), NEW weekday \in 0 .. Days - 1, NEW minute \in 0 .. Minutes - 1,
         NEW o \in Occurs(c)
  PROVE  /\ o[2] = weekday /\ c.points[o[1]].minute > minute
              => ~(o[2] = weekday => Ago(c, o, weekday, minute) <= minute)
         /\ ~(o[2] = weekday /\ c.points[o[1]].minute > minute) =>
              \E x \in Past(c, weekday, minute) :
                x[2] = o[1] /\ Age(c, x, minute) = Ago(c, o, weekday, minute)
         /\ \E y \in Coming(c, weekday) :
              y[2] = o[1] /\ Distance(c, y, minute) = Week - Ago(c, o, weekday, minute)
<1> DEFINE i == o[1]
           d == o[2]
           p == c.points[i].minute
           b == IF d <= weekday THEN weekday - d ELSE weekday - d + Days
           a == IF d >= weekday THEN d - weekday ELSE d - weekday + Days
<1>1. i \in DOMAIN c.points /\ d \in 0 .. Days - 1 /\ p \in 0 .. Minutes - 1
      /\ AppliesOn(c.points[i], d) /\ Days \in Nat \ {0} /\ Minutes \in Nat \ {0}
  BY OccursFacts, Consts
<1>2. Ago(c, o, weekday, minute)
        = ((weekday * Minutes + minute + Days * Minutes) - (d * Minutes + p)) % (Days * Minutes)
      /\ Week = Days * Minutes
  BY DEF Ago, Week
<1> HIDE DEF i, d, p
<1>3. /\ b \in 0 .. Days - 1 /\ a \in 0 .. Days - 1
      /\ ((weekday * Minutes + minute + Days * Minutes) - (d * Minutes + p)) % (Days * Minutes)
           = IF d = weekday /\ p > minute THEN Days * Minutes + minute - p
             ELSE b * Minutes + minute - p
      /\ Days * Minutes - (IF d = weekday /\ p > minute THEN Days * Minutes + minute - p
                           ELSE b * Minutes + minute - p)
           = IF a * Minutes + p - minute <= 0 THEN a * Minutes + p - minute + Days * Minutes
             ELSE a * Minutes + p - minute
      /\ p < Days * Minutes
  BY <1>1, MinutesAgo
<1>4. (weekday - b + Days) % Days = d /\ (weekday + a) % Days = d
  <2>1. b \in 0 .. Days - 1 /\ a \in 0 .. Days - 1
    BY <1>3
  <2>2. \A u, v \in 0 .. Days - 1 :
          /\ (weekday - u + Days) % Days = v
               <=> u = IF v <= weekday THEN weekday - v ELSE weekday - v + Days
          /\ (weekday + u) % Days = v
               <=> u = IF v >= weekday THEN v - weekday ELSE v - weekday + Days
    BY <1>1, DaysAgo
  <2> QED
    BY <1>1, <2>1, <2>2, Zenon
<1>5. d = weekday <=> b = 0
  BY <1>1
<1> HIDE DEF a, b
<1>6. d = weekday /\ p > minute => Ago(c, o, weekday, minute) > minute
  <2> DEFINE W == Days * Minutes
  <2>1. W \in Nat /\ p < W
    BY <1>1, <1>3
  <2>2. d = weekday /\ p > minute => Ago(c, o, weekday, minute) = W + minute - p
    BY <1>2, <1>3, Zenon
  <2> HIDE DEF W
  <2> QED
    BY <1>1, <2>1, <2>2
<1>7. ASSUME ~(d = weekday /\ p > minute)
      PROVE  \E x \in Past(c, weekday, minute) :
                x[2] = i /\ Age(c, x, minute) = Ago(c, o, weekday, minute)
  <2>1. <<b, i>> \in Past(c, weekday, minute)
    BY <1>1, <1>3, <1>4, <1>5, <1>7 DEF Past, p
  <2>2. Age(c, <<b, i>>, minute) = Ago(c, o, weekday, minute)
    BY <1>2, <1>3, <1>7 DEF Age, p
  <2> QED
    BY <2>1, <2>2
<1>8. \E y \in Coming(c, weekday) :
        y[2] = i /\ Distance(c, y, minute) = Week - Ago(c, o, weekday, minute)
  <2>1. <<a, i>> \in Coming(c, weekday)
    BY <1>1, <1>3, <1>4 DEF Coming
  <2>2. Distance(c, <<a, i>>, minute)
          = IF a * Minutes + p - minute <= 0 THEN a * Minutes + p - minute + Days * Minutes
            ELSE a * Minutes + p - minute
    BY DEF Distance, p
  <2>3. Distance(c, <<a, i>>, minute) = Week - Ago(c, o, weekday, minute)
    BY <1>2, <1>3, <2>2
  <2> QED
    BY <2>1, <2>3
<1>9. Ago(c, o, weekday, minute) \in Int
  <2>1. Days * Minutes \in Nat /\ b * Minutes \in Int
    BY <1>1, <1>3
  <2> QED
    BY <1>1, <1>2, <1>3, <2>1
<1> QED
  BY <1>1, <1>6, <1>7, <1>8, <1>9 DEF i, d, p

\* And the other way round
LEMMA PastIsSeen ==
  ASSUME NEW c, Good(c), NEW weekday \in 0 .. Days - 1, NEW minute \in 0 .. Minutes - 1,
         NEW x \in Past(c, weekday, minute)
  PROVE  \E o \in Occurs(c) : /\ o[1] = x[2] /\ Ago(c, o, weekday, minute) = Age(c, x, minute)
                              /\ o[2] = weekday => Ago(c, o, weekday, minute) <= minute
<1> DEFINE i == x[2]
           b == x[1]
           p == c.points[i].minute
           d == (weekday - b + Days) % Days
           o == <<i, d>>
<1>1. /\ b \in 0 .. Days - 1 /\ i \in DOMAIN c.points /\ p \in 0 .. Minutes - 1
      /\ AppliesOn(c.points[i], d) /\ (b = 0 => p <= minute)
      /\ Days \in Nat \ {0} /\ Minutes \in Nat \ {0}
  BY PastFacts, Consts
<1>2. d \in 0 .. Days - 1 /\ b = IF d <= weekday THEN weekday - d ELSE weekday - d + Days
  <2>1. PICK u \in 0 .. Days - 1 : u = b
    BY <1>1, Zenon
  <2>2. Days \in Nat /\ (weekday - u + Days) % Days \in 0 .. Days - 1
    BY <1>1, DaysAgo, Zenon
  <2>3. PICK v \in 0 .. Days - 1 : v = (weekday - u + Days) % Days
    BY <2>2, Zenon
  <2>4. (weekday - u + Days) % Days = v
          <=> u = IF v <= weekday THEN weekday - v ELSE weekday - v + Days
    BY <2>2, DaysAgo
  <2> QED
    BY <2>1, <2>3, <2>4, Zenon
<1>3. o \in Occurs(c)
  BY <1>1, <1>2 DEF Occurs
<1> HIDE DEF i, d, p, b
<1>4. ((weekday * Minutes + minute + Days * Minutes) - (d * Minutes + p)) % (Days * Minutes)
        = IF d = weekday /\ p > minute THEN Days * Minutes + minute - p
          ELSE b * Minutes + minute - p
  BY <1>1, <1>2, MinutesAgo
<1>5. d = weekday => b = 0 /\ p <= minute
  BY <1>1, <1>2
<1>6. Ago(c, o, weekday, minute) = b * Minutes + minute - p
  BY <1>4, <1>5, <1>1 DEF Ago, Week, p
<1>7. Age(c, x, minute) = b * Minutes + minute - p
  BY DEF Age, b, p, i
<1>8. d = weekday => b * Minutes + minute - p <= minute
  BY <1>1, <1>5
<1> QED
  BY <1>3, <1>6, <1>7, <1>8 DEF i

LEMMA ComingIsAhead ==
  ASSUME NEW c, Good(c), NEW weekday \in 0 .. Days - 1, NEW minute \in 0 .. Minutes - 1,
         NEW x \in Coming(c, weekday)
  PROVE  /\ \E o \in Occurs(c) :
              /\ o[1] = x[2] /\ Week - Ago(c, o, weekday, minute) = Distance(c, x, minute)
         /\ Distance(c, x, minute) \in Nat /\ x[2] \in DOMAIN c.points
<1> DEFINE i == x[2]
           a == x[1]
           p == c.points[i].minute
           d == (weekday + a) % Days
           o == <<i, d>>
<1>1. /\ a \in 0 .. Days - 1 /\ i \in DOMAIN c.points
      /\ AppliesOn(c.points[i], d) /\ Days \in Nat \ {0} /\ Minutes \in Nat \ {0}
  BY Consts DEF Coming
<1>2. p \in 0 .. Minutes - 1
  BY <1>1, ValidMinutes
<1>3. d \in 0 .. Days - 1 /\ a = IF d >= weekday THEN d - weekday ELSE d - weekday + Days
  <2>1. PICK u \in 0 .. Days - 1 : u = a
    BY <1>1, Zenon
  <2>2. Days \in Nat /\ (weekday + u) % Days \in 0 .. Days - 1
    BY <1>1, DaysAgo, Zenon
  <2>3. PICK v \in 0 .. Days - 1 : v = (weekday + u) % Days
    BY <2>2, Zenon
  <2>4. (weekday + u) % Days = v <=> u = IF v >= weekday THEN v - weekday ELSE v - weekday + Days
    BY <2>2, DaysAgo
  <2> QED
    BY <2>1, <2>3, <2>4, Zenon
<1>4. o \in Occurs(c)
  BY <1>1, <1>3 DEF Occurs
<1> HIDE DEF i, d, p, a
<1> DEFINE b == IF d <= weekday THEN weekday - d ELSE weekday - d + Days
<1>5. /\ ((weekday * Minutes + minute + Days * Minutes) - (d * Minutes + p)) % (Days * Minutes)
           = IF d = weekday /\ p > minute THEN Days * Minutes + minute - p
             ELSE b * Minutes + minute - p
      /\ Days * Minutes - (IF d = weekday /\ p > minute THEN Days * Minutes + minute - p
                           ELSE b * Minutes + minute - p)
           = IF a * Minutes + p - minute <= 0 THEN a * Minutes + p - minute + Days * Minutes
             ELSE a * Minutes + p - minute
  BY <1>1, <1>2, <1>3, MinutesAgo
<1> HIDE DEF b
<1>6. Distance(c, x, minute)
        = IF a * Minutes + p - minute <= 0 THEN a * Minutes + p - minute + Days * Minutes
          ELSE a * Minutes + p - minute
  BY DEF Distance, p, a, i
<1>7. Week - Ago(c, o, weekday, minute) = Distance(c, x, minute)
  BY <1>5, <1>6 DEF Ago, Week, p
<1>8. Distance(c, x, minute) \in Nat
  <2>1. a * Minutes \in Nat /\ Days * Minutes \in Nat /\ Minutes <= Days * Minutes
    <3>1. 0 * Minutes + Minutes <= Days * Minutes /\ 0 * Minutes = 0
      BY <1>1, Products
    <3> QED
      BY <1>1, <3>1, Products
  <2> QED
    BY <1>1, <1>2, <1>6, <2>1
<1> QED
  BY <1>1, <1>4, <1>7, <1>8 DEF i

\* next_point_index() finds one of the points of the coming days, and no later one.
LEMMA NextIs ==
  ASSUME NEW c, Good(c), NEW weekday \in 0 .. Days - 1, NEW minute \in 0 .. Minutes - 1
  PROVE  /\ NextIndex(c, weekday, minute) = 0 <=> Coming(c, weekday) = {}
         /\ Coming(c, weekday) # {} =>
              \E x \in Coming(c, weekday) :
                /\ x[2] = NextIndex(c, weekday, minute)
                /\ \A y \in Coming(c, weekday) : Distance(c, x, minute) <= Distance(c, y, minute)
<1> DEFINE coming == Coming(c, weekday)
           far == {Distance(c, x, minute) : x \in coming}
<1>0. DOMAIN c.points \subseteq Nat \ {0}
  BY GoodFacts, PointTypes
<1>1. CASE coming = {}
  BY <1>1 DEF NextIndex
<1>2. CASE coming # {}
  <2>1. far \in SUBSET Nat /\ far # {}
    BY <1>2, ComingIsAhead
  <2>2. PICK a \in far : \A b \in far : a <= b
    BY <2>1, LeastNatural
  <2>3. PICK z \in coming : a = Distance(c, z, minute)
    BY <2>2
  <2>4. \A y \in coming : Distance(c, z, minute) <= Distance(c, y, minute)
    BY <2>2, <2>3
  <2> DEFINE l == CHOOSE x \in coming :
                    \A y \in coming : Distance(c, x, minute) <= Distance(c, y, minute)
  <2>5. l \in coming /\ \A y \in coming : Distance(c, l, minute) <= Distance(c, y, minute)
    BY <2>3, <2>4, Zenon
  <2>6. NextIndex(c, weekday, minute) = l[2]
    BY <1>2 DEF NextIndex
  <2> HIDE DEF l
  <2>7. l[2] \in DOMAIN c.points
    BY <2>5, ComingIsAhead
  <2> QED
    BY <1>0, <1>2, <2>5, <2>6, <2>7
<1> QED
  BY <1>1, <1>2

LEMMA StatusIsExact ==
  ASSUME Whole
  PROVE  StatusExact
<1> SUFFICES ASSUME NEW weekday \in 0 .. Days - 1, NEW minute \in 0 .. Minutes - 1
             PROVE  LET ago(o) == Ago(config, o, weekday, minute)
                        ahead(o) == Week - ago(o)
                        latest == LatestIndex(config, weekday, minute)
                        next == NextIndex(config, weekday, minute)
                        seen == {o \in Occurs(config) : o[2] = weekday => ago(o) <= minute}
                    IN  /\ latest = 0 <=> seen = {}
                        /\ \A o \in seen : \E l \in Occurs(config) :
                             l[1] = latest /\ ago(l) <= ago(o)
                        /\ next = 0 <=> Occurs(config) = {}
                        /\ \A o \in Occurs(config) : \E n \in Occurs(config) :
                             n[1] = next /\ ahead(n) <= ahead(o)
  BY DEF StatusExact
<1> DEFINE ago(o) == Ago(config, o, weekday, minute)
           latest == LatestIndex(config, weekday, minute)
           next == NextIndex(config, weekday, minute)
           past == Past(config, weekday, minute)
           coming == Coming(config, weekday)
           seen == {o \in Occurs(config) : o[2] = weekday => ago(o) <= minute}
<1>0. Good(config)
  BY DEF Whole, RecordOK
<1>1. \A o \in seen : \E x \in past : x[2] = o[1] /\ Age(config, x, minute) = ago(o)
  BY <1>0, SeenIsPast
<1>2. \A x \in past : \E o \in seen : o[1] = x[2] /\ ago(o) = Age(config, x, minute)
  BY <1>0, PastIsSeen
<1>3. \A o \in Occurs(config) : \E y \in coming :
         y[2] = o[1] /\ Distance(config, y, minute) = Week - ago(o)
  BY <1>0, SeenIsPast
<1>4. \A y \in coming : \E o \in Occurs(config) :
         o[1] = y[2] /\ Week - ago(o) = Distance(config, y, minute)
  BY <1>0, ComingIsAhead
<1>5. latest = 0 <=> past = {}
  BY <1>0, LatestIs
<1>6. past # {} => \E x \in past : x[2] = latest
                     /\ \A y \in past : Age(config, x, minute) <= Age(config, y, minute)
  BY <1>0, LatestIs
<1>7. next = 0 <=> coming = {}
  BY <1>0, NextIs
<1>8. coming # {} => \E x \in coming : x[2] = next
                     /\ \A y \in coming : Distance(config, x, minute) <= Distance(config, y, minute)
  BY <1>0, NextIs
<1>9. latest = 0 <=> seen = {}
  <2> HIDE DEF latest, past, seen
  <2> QED
    BY <1>1, <1>2, <1>5, Zenon
<1>10. ASSUME NEW o \in seen PROVE \E l \in Occurs(config) : l[1] = latest /\ ago(l) <= ago(o)
  <2>1. PICK x \in past : x[2] = o[1] /\ Age(config, x, minute) = ago(o)
    BY <1>1
  <2>2. PICK z \in past : z[2] = latest
                     /\ \A y \in past : Age(config, z, minute) <= Age(config, y, minute)
    BY <1>6
  <2>3. PICK l \in seen : l[1] = z[2] /\ ago(l) = Age(config, z, minute)
    BY <1>2
  <2>4. ago(l) <= ago(o) /\ l \in Occurs(config) /\ l[1] = latest
    <3> HIDE DEF ago, latest, past
    <3> QED
      BY <2>1, <2>2, <2>3
  <2> QED
    BY <2>4
<1>11. next = 0 <=> Occurs(config) = {}
  <2> HIDE DEF next, coming
  <2> QED
    BY <1>3, <1>4, <1>7, Zenon
<1>12. ASSUME NEW o \in Occurs(config)
       PROVE  \E n \in Occurs(config) : n[1] = next /\ Week - ago(n) <= Week - ago(o)
  <2>1. PICK x \in coming : x[2] = o[1] /\ Distance(config, x, minute) = Week - ago(o)
    BY <1>3
  <2>2. PICK z \in coming : z[2] = next
                     /\ \A y \in coming : Distance(config, z, minute) <= Distance(config, y, minute)
    BY <1>8
  <2>3. PICK n \in Occurs(config) : n[1] = z[2] /\ Week - ago(n) = Distance(config, z, minute)
    BY <1>4
  <2>4. Week - ago(n) <= Week - ago(o) /\ n[1] = next
    <3> HIDE DEF ago, next, coming
    <3>1. Distance(config, z, minute) <= Distance(config, x, minute)
      BY <2>1, <2>2
    <3> QED
      BY <2>1, <2>2, <2>3, <3>1
  <2> QED
    BY <2>4
<1> QED
  BY <1>9, <1>10, <1>11, <1>12

\* No two points of a valid configuration are in the same minute of a day.
LEMMA OnePoint ==
  ASSUME NEW c, Good(c), NEW i \in DOMAIN c.points, NEW j \in DOMAIN c.points, NEW day,
         AppliesOn(c.points[i], day), AppliesOn(c.points[j], day),
         c.points[i].minute = c.points[j].minute
  PROVE  i = j
  BY DEF Good, ConfigValid, AppliesOn

LEMMA AgeUnique ==
  ASSUME NEW c, Good(c), NEW weekday \in 0 .. Days - 1, NEW minute \in 0 .. Minutes - 1,
         NEW x \in Past(c, weekday, minute), NEW y \in Past(c, weekday, minute),
         Age(c, x, minute) = Age(c, y, minute)
  PROVE  x[2] = y[2]
<1>1. /\ x[1] \in Nat /\ y[1] \in Nat /\ x[2] \in DOMAIN c.points /\ y[2] \in DOMAIN c.points
      /\ c.points[x[2]].minute \in 0 .. Minutes - 1
      /\ c.points[y[2]].minute \in 0 .. Minutes - 1
      /\ AppliesOn(c.points[x[2]], (weekday - x[1] + Days) % Days)
      /\ AppliesOn(c.points[y[2]], (weekday - y[1] + Days) % Days)
      /\ minute \in Nat /\ Minutes \in Nat \ {0}
  BY PastFacts, Consts
<1>2. x[1] = y[1] /\ c.points[x[2]].minute = c.points[y[2]].minute
  <2>1. PICK a \in Nat, b \in Nat, p \in 0 .. Minutes - 1, q \in 0 .. Minutes - 1 :
          /\ a = x[1] /\ b = y[1] /\ p = c.points[x[2]].minute
          /\ q = c.points[y[2]].minute
    BY <1>1
  <2> DEFINE A == a * Minutes
             B == b * Minutes
  <2>2. /\ A \in Nat /\ B \in Nat /\ (a < b => A + Minutes <= B)
        /\ (b < a => B + Minutes <= A)
    BY <1>1, Products
  <2>3. Age(c, x, minute) = A + minute - p /\ Age(c, y, minute) = B + minute - q
    BY <2>1, Zenon DEF Age
  <2>4. a = b => A = B
    OBVIOUS
  <2> HIDE DEF A, B
  <2>5. A + minute - p = B + minute - q
    BY <2>3, Zenon
  <2>6. a = b /\ p = q
    BY <1>1, <2>2, <2>4, <2>5
  <2> QED
    BY <2>1, <2>6
<1> QED
  BY <1>1, <1>2, OnePoint

LEMMA LatestUnique ==
  ASSUME NEW c, Good(c), NEW weekday \in 0 .. Days - 1, NEW minute \in 0 .. Minutes - 1,
         NEW x \in Past(c, weekday, minute),
         \A y \in Past(c, weekday, minute) : Age(c, x, minute) <= Age(c, y, minute)
  PROVE  LatestIndex(c, weekday, minute) = x[2]
<1>1. PICK z \in Past(c, weekday, minute) :
        /\ z[2] = LatestIndex(c, weekday, minute)
        /\ \A y \in Past(c, weekday, minute) : Age(c, z, minute) <= Age(c, y, minute)
  BY LatestIs
<1>2. Age(c, x, minute) \in Nat /\ Age(c, z, minute) \in Nat
  BY PastFacts
<1>3. Age(c, x, minute) = Age(c, z, minute)
  BY <1>1, <1>2
<1> QED
  BY <1>1, <1>3, AgeUnique

\* The point of this minute is the latest.
LEMMA LatestNow ==
  ASSUME NEW c, Good(c), NEW w \in Wall, NEW i \in PointsOf(c, w)
  PROVE  Latest(c, w) = i
<1> DEFINE weekday == Weekday(w)
           minute == MinuteOf(w)
           x == <<0, i>>
<1>1. weekday \in 0 .. Days - 1 /\ minute \in 0 .. Minutes - 1 /\ i \in DOMAIN c.points
      /\ AppliesOn(c.points[i], weekday) /\ c.points[i].minute = minute
      /\ Days \in Nat \ {0}
  BY WeekdayTypes, LocalTypes, PointsOfFacts, Consts
<1> HIDE DEF weekday, minute
<1>2. (weekday - 0 + Days) % Days = weekday
  BY <1>1, DaysAgo
<1>3. x \in Past(c, weekday, minute)
  BY <1>1, <1>2 DEF Past
<1>4. Age(c, x, minute) = 0
  BY <1>1, Consts DEF Age
<1>5. \A y \in Past(c, weekday, minute) : Age(c, x, minute) <= Age(c, y, minute)
  BY <1>1, <1>4, PastFacts
<1>6. LatestIndex(c, weekday, minute) = x[2]
  BY <1>1, <1>3, <1>5, LatestUnique
<1> QED
  BY <1>6 DEF Latest, weekday, minute

----------------------------------------------------------------------------
(* Local time that goes on as minutes do *)

Abs(w) == DayOf(w) * Minutes + MinuteOf(w)
At(c, i, day) == day * Minutes + c.points[i].minute

LEMMA RegularStep ==
  ASSUME NEW v \in Wall, NEW w \in Wall, ~Irregular(v, w), NEW t \in v .. w - 1
  PROVE  /\ t \in Wall /\ t + 1 \in Wall
         /\ \/ /\ MinuteOf(t) + 1 = Minutes /\ DayOf(t + 1) = DayOf(t) + 1
               /\ MinuteOf(t + 1) = 0
            \/ /\ MinuteOf(t) + 1 # Minutes /\ DayOf(t + 1) = DayOf(t)
               /\ MinuteOf(t + 1) = MinuteOf(t) + 1
         /\ Abs(t + 1) = Abs(t) + 1
<1>1. v \in Nat /\ w \in Nat /\ w <= Horizon /\ Horizon \in Nat
  BY LocalTypes, Consts
<1>2. t \in Wall /\ t + 1 \in Wall
  BY <1>1 DEF Wall
<1>3. Local[t + 1] = IF MinuteOf(t) + 1 = Minutes THEN <<DayOf(t) + 1, 0>>
                     ELSE <<DayOf(t), MinuteOf(t) + 1>>
  BY DEF Irregular
<1>4. \/ /\ MinuteOf(t) + 1 = Minutes /\ DayOf(t + 1) = DayOf(t) + 1
         /\ MinuteOf(t + 1) = 0
      \/ /\ MinuteOf(t) + 1 # Minutes /\ DayOf(t + 1) = DayOf(t)
         /\ MinuteOf(t + 1) = MinuteOf(t) + 1
  <2>1. DayOf(t + 1) = Local[t + 1][1] /\ MinuteOf(t + 1) = Local[t + 1][2]
    BY DEF DayOf, MinuteOf
  <2> HIDE DEF DayOf, MinuteOf
  <2> QED
    BY <1>3, <2>1
<1>5. DayOf(t) \in Nat /\ MinuteOf(t) \in Nat /\ Minutes \in Nat
  BY <1>2, LocalTypes, Consts
<1>6. DayOf(t) * Minutes \in Nat
      /\ (DayOf(t) + 1) * Minutes = DayOf(t) * Minutes + 1 * Minutes /\ 1 * Minutes = Minutes
  BY <1>5, Products
<1>7. Abs(t + 1) = Abs(t) + 1
  BY <1>4, <1>5, <1>6 DEF Abs
<1> QED
  BY <1>2, <1>4, <1>7

LEMMA AbsTypes ==
  ASSUME NEW w \in Wall
  PROVE  Abs(w) \in Nat
<1>1. DayOf(w) \in Nat /\ MinuteOf(w) \in Nat /\ Minutes \in Nat
  BY LocalTypes, Consts
<1>2. DayOf(w) * Minutes \in Nat
  BY <1>1, Products
<1> QED
  BY <1>1, <1>2 DEF Abs

\* Minutes of the wall are minutes of local time.
LEMMA AbsGoesOn ==
  ASSUME NEW v \in Wall, NEW w \in Wall, ~Irregular(v, w), NEW s \in v .. w, NEW t \in s .. w
  PROVE  Abs(t) = Abs(s) + (t - s) /\ s \in Wall /\ t \in Wall
<1>1. v \in Nat /\ w \in Nat /\ w <= Horizon /\ Horizon \in Nat
  BY LocalTypes, Consts
<1>2. s \in Nat /\ t \in Nat /\ s <= t /\ t <= w /\ v <= s /\ s \in Wall /\ t \in Wall
  BY <1>1 DEF Wall
<1> DEFINE S == {n \in Nat : Abs(s + n) = Abs(s) + n}
<1>3. Abs(s) \in Nat
  BY <1>2, AbsTypes
<1>4. 0 \in S
  BY <1>2, <1>3
<1>5. ASSUME NEW n \in 0 .. (t - s) - 1, n \in S PROVE n + 1 \in S
  <2>1. s + n \in v .. w - 1 /\ n \in Nat
    BY <1>1, <1>2
  <2>2. Abs(s + n + 1) = Abs(s + n) + 1
    BY <2>1, RegularStep
  <2>3. Abs(s + n) = Abs(s) + n
    BY <1>5
  <2>4. s + n + 1 = s + (n + 1)
    BY <1>2, <2>1
  <2> QED
    BY <1>3, <2>1, <2>2, <2>3, <2>4
<1>6. t - s \in Nat
  BY <1>2
<1> HIDE DEF S
<1>7. \A n \in 0 .. (t - s) : n \in S
  BY <1>4, <1>5, <1>6, UpTo
<1>8. t - s \in S
  BY <1>6, <1>7
<1>9. Abs(s + (t - s)) = Abs(s) + (t - s)
  BY <1>8 DEF S
<1> QED
  BY <1>2, <1>9

\* The day after
LEMMA Quotient ==
  ASSUME NEW n \in Nat \ {0}, NEW d \in Nat
  PROVE  \E q \in Nat, r \in 0 .. n - 1 : d = q * n + r
<1> DEFINE S == {x \in Nat : \E q \in Nat, r \in 0 .. n - 1 : x = q * n + r}
<1>1. 0 \in S
  <2>1. 0 = 0 * n + 0 /\ 0 \in 0 .. n - 1
    OBVIOUS
  <2> QED
    BY <2>1
<1>2. ASSUME NEW x \in 0 .. d - 1, x \in S PROVE x + 1 \in S
  <2>1. PICK q \in Nat, r \in 0 .. n - 1 : x = q * n + r
    BY <1>2
  <2>2. CASE r + 1 < n
    <3>1. x + 1 = q * n + (r + 1) /\ r + 1 \in 0 .. n - 1
      BY <2>1, <2>2
    <3> QED
      BY <3>1
  <2>3. CASE r + 1 = n
    <3>1. (q + 1) * n = q * n + 1 * n /\ 1 * n = n /\ q * n \in Nat
      BY Products
    <3>2. x + 1 = (q + 1) * n + 0 /\ 0 \in 0 .. n - 1 /\ q + 1 \in Nat
      BY <2>1, <2>3, <3>1
    <3>3. \E t \in Nat, r2 \in 0 .. n - 1 : x + 1 = t * n + r2
      BY <3>2, Zenon
    <3> QED
      BY <3>3
  <2> QED
    BY <2>2, <2>3
<1> HIDE DEF S
<1>3. \A x \in 0 .. d : x \in S
  BY <1>1, <1>2, UpTo
<1>4. d \in S
  BY <1>3
<1> QED
  BY <1>4 DEF S

LEMMA Remainder ==
  ASSUME NEW n \in Nat \ {0}, NEW x \in Int, NEW q \in Nat, NEW r \in 0 .. n - 1,
         x = q * n + r
  PROVE  x % n = r
  OBVIOUS

LEMMA NextWeekday ==
  ASSUME NEW n \in Nat \ {0}, NEW d \in Nat
  PROVE  (d + 1) % n = IF (d % n) + 1 = n THEN 0 ELSE (d % n) + 1
<1>1. PICK q \in Nat, r \in 0 .. n - 1 : d = q * n + r
  BY Quotient
<1>2. d % n = r
  BY <1>1, Remainder
<1>3. PICK x \in Int : x = d + 1
  OBVIOUS
<1>4. CASE r + 1 < n
  <2>1. x = q * n + (r + 1) /\ r + 1 \in 0 .. n - 1
    BY <1>1, <1>3, <1>4
  <2>2. x % n = r + 1
    BY <2>1, Remainder
  <2> QED
    BY <1>2, <1>3, <1>4, <2>2
<1>5. CASE r + 1 = n
  <2>1. (q + 1) * n = q * n + 1 * n /\ 1 * n = n /\ q * n \in Nat
    BY Products
  <2>2. x = (q + 1) * n + 0 /\ 0 \in 0 .. n - 1 /\ q + 1 \in Nat
    BY <1>1, <1>3, <1>5, <2>1
  <2>3. x % n = 0
    BY <2>2, Remainder
  <2> QED
    BY <1>2, <1>3, <1>5, <2>3
<1> QED
  BY <1>4, <1>5

\* b days ago today is b - 1 days ago yesterday.
LEMMA ShiftDay ==
  ASSUME NEW n \in Nat \ {0}, NEW w \in 0 .. n - 1, NEW b \in 1 .. n - 1,
         NEW z, z = IF w + 1 = n THEN 0 ELSE w + 1
  PROVE  (w - (b - 1) + n) % n = (z - b + n) % n
<1>1. PICK x \in Int : x = w - (b - 1) + n /\ 0 <= x /\ x < 2 * n
  OBVIOUS
<1>2. PICK y \in Int : y = z - b + n /\ 0 <= y /\ y < 2 * n
  OBVIOUS
<1>3. x % n = IF x < n THEN x ELSE x - n
  BY <1>1, Residue
<1>4. y % n = IF y < n THEN y ELSE y - n
  BY <1>2, Residue
<1>5. x % n = y % n
  BY <1>1, <1>2, <1>3, <1>4
<1> QED
  BY <1>1, <1>2, <1>5

\* An element of the past whose day or minute is given
LEMMA PastMember ==
  ASSUME NEW c, NEW weekday, NEW minute, NEW b \in 0 .. Days - 1, NEW i \in DOMAIN c.points,
         AppliesOn(c.points[i], (weekday - b + Days) % Days),
         b = 0 => c.points[i].minute <= minute
  PROVE  /\ <<b, i>> \in Past(c, weekday, minute)
         /\ Age(c, <<b, i>>, minute) = b * Minutes + minute - c.points[i].minute
  BY DEF Past, Age

\* A minute without a point does not change which point is the latest: within a day,
LEMMA SameDayLatest ==
  ASSUME NEW c, Good(c), NEW weekday \in 0 .. Days - 1, NEW m \in 0 .. Minutes - 1,
         m + 1 \in 0 .. Minutes - 1,
         LatestIndex(c, weekday, m + 1) # 0,
         \A i \in DOMAIN c.points :
           ~(AppliesOn(c.points[i], weekday) /\ c.points[i].minute = m + 1)
  PROVE  LatestIndex(c, weekday, m) = LatestIndex(c, weekday, m + 1)
<1>1. PICK z \in Past(c, weekday, m + 1) :
        /\ z[2] = LatestIndex(c, weekday, m + 1)
        /\ \A y \in Past(c, weekday, m + 1) : Age(c, z, m + 1) <= Age(c, y, m + 1)
  BY LatestIs
<1>2. ASSUME NEW x \in Past(c, weekday, m + 1)
      PROVE  x \in Past(c, weekday, m) /\ Age(c, x, m + 1) = Age(c, x, m) + 1
  <2>1. /\ x[1] \in 0 .. Days - 1 /\ x[2] \in DOMAIN c.points
        /\ c.points[x[2]].minute \in 0 .. Minutes - 1
        /\ AppliesOn(c.points[x[2]], (weekday - x[1] + Days) % Days)
        /\ x[1] = 0 => c.points[x[2]].minute <= m + 1
    BY PastFacts
  <2>2. x = <<x[1], x[2]>> /\ m \in Nat
    BY Consts DEF Past
  <2>3. x[1] = 0 => c.points[x[2]].minute <= m
    <3> SUFFICES ASSUME x[1] = 0 PROVE c.points[x[2]].minute <= m
      OBVIOUS
    <3>1. (weekday - 0 + Days) % Days = weekday
      BY Consts, DaysAgo
    <3>2. AppliesOn(c.points[x[2]], weekday)
      BY <2>1, <3>1, Zenon
    <3>3. c.points[x[2]].minute # m + 1 /\ c.points[x[2]].minute <= m + 1
      BY <2>1, <3>2
    <3>4. PICK p \in Nat : p = c.points[x[2]].minute
      BY <2>1, Consts
    <3> QED
      BY <2>2, <3>3, <3>4
  <2>4. x \in Past(c, weekday, m)
    BY <2>1, <2>2, <2>3, PastMember
  <2>5. PICK b \in Nat, p \in Nat : b = x[1] /\ p = c.points[x[2]].minute
    BY <2>1, Consts
  <2>6. Age(c, x, m + 1) = b * Minutes + (m + 1) - p /\ Age(c, x, m) = b * Minutes + m - p
    BY <2>5, Zenon DEF Age
  <2>7. b * Minutes \in Nat
    BY Consts, Products
  <2> QED
    BY <2>2, <2>4, <2>6, <2>7
<1>3. ASSUME NEW x \in Past(c, weekday, m) PROVE x \in Past(c, weekday, m + 1)
  <2>1. /\ x[1] \in 0 .. Days - 1 /\ x[2] \in DOMAIN c.points
        /\ c.points[x[2]].minute \in 0 .. Minutes - 1
        /\ AppliesOn(c.points[x[2]], (weekday - x[1] + Days) % Days)
        /\ x[1] = 0 => c.points[x[2]].minute <= m
    BY PastFacts
  <2>2. x = <<x[1], x[2]>> /\ m \in Nat
    BY Consts DEF Past
  <2>3. x[1] = 0 => c.points[x[2]].minute <= m + 1
    BY <2>1, <2>2, Consts
  <2> QED
    BY <2>1, <2>2, <2>3, PastMember
<1>4. \A x \in Past(c, weekday, m) : Age(c, z, m) <= Age(c, x, m)
  <2> SUFFICES ASSUME NEW x \in Past(c, weekday, m) PROVE Age(c, z, m) <= Age(c, x, m)
    OBVIOUS
  <2>1. Age(c, z, m + 1) <= Age(c, x, m + 1) /\ Age(c, z, m + 1) = Age(c, z, m) + 1
        /\ Age(c, x, m + 1) = Age(c, x, m) + 1
    BY <1>1, <1>2, <1>3
  <2>2. Age(c, z, m) \in Nat /\ Age(c, x, m) \in Nat
    BY <1>2, PastFacts
  <2> QED
    BY <2>1, <2>2
<1>5. LatestIndex(c, weekday, m) = z[2]
  BY <1>2, <1>4, LatestUnique
<1> QED
  BY <1>1, <1>5

\* and over midnight.
LEMMA NextDayLatest ==
  ASSUME NEW c, Good(c), NEW weekday \in 0 .. Days - 1, NEW later \in 0 .. Days - 1,
         later = IF weekday + 1 = Days THEN 0 ELSE weekday + 1,
         LatestIndex(c, later, 0) # 0,
         \A i \in DOMAIN c.points : ~(AppliesOn(c.points[i], later) /\ c.points[i].minute = 0)
  PROVE  LatestIndex(c, weekday, Minutes - 1) = LatestIndex(c, later, 0)
<1>0. 0 \in 0 .. Minutes - 1 /\ Minutes - 1 \in 0 .. Minutes - 1 /\ Days \in Nat \ {0}
      /\ Minutes \in Nat \ {0}
  BY Consts
<1>1. PICK z \in Past(c, later, 0) :
        /\ z[2] = LatestIndex(c, later, 0)
        /\ \A y \in Past(c, later, 0) : Age(c, z, 0) <= Age(c, y, 0)
  BY <1>0, LatestIs
<1>2. PICK b \in 0 .. Days - 1, i \in DOMAIN c.points, p \in 0 .. Minutes - 1 :
        /\ z = <<b, i>> /\ p = c.points[i].minute
        /\ AppliesOn(c.points[i], (later - b + Days) % Days) /\ (b = 0 => p <= 0)
  <2>1. z = <<z[1], z[2]>>
    BY DEF Past
  <2> QED
    BY <1>0, <2>1, PastFacts
<1>3. b \in 1 .. Days - 1
  <2>1. (later - 0 + Days) % Days = later
    BY <1>0, DaysAgo
  <2>2. b # 0
    BY <1>0, <1>2, <2>1
  <2> QED
    BY <1>0, <2>2
<1>4. b - 1 \in 0 .. Days - 1 /\ b - 1 < Days - 1 /\ b \in Nat /\ b - 1 \in Nat
  BY <1>0, <1>3
<1>5. \A u \in 1 .. Days - 1 : (weekday - (u - 1) + Days) % Days = (later - u + Days) % Days
  BY <1>0, ShiftDay, Zenon
<1>6. PICK a \in Nat : a = b - 1 /\ a + 1 = b
  BY <1>4
<1>7. /\ <<a, i>> \in Past(c, weekday, Minutes - 1)
      /\ Age(c, <<a, i>>, Minutes - 1) = a * Minutes + (Minutes - 1) - p
  <2>1. AppliesOn(c.points[i], (weekday - a + Days) % Days)
    BY <1>2, <1>3, <1>5, <1>6, Zenon
  <2>2. a \in 0 .. Days - 1 /\ (a = 0 => c.points[i].minute <= Minutes - 1)
    BY <1>0, <1>2, <1>4, <1>6
  <2>3. /\ <<a, i>> \in Past(c, weekday, Minutes - 1)
        /\ Age(c, <<a, i>>, Minutes - 1) = a * Minutes + (Minutes - 1) - c.points[i].minute
    BY <2>1, <2>2, PastMember, ZenonT(60)
  <2> QED
    BY <1>2, <2>3, Zenon
<1>8. Age(c, z, 0) = b * Minutes + 0 - p /\ b * Minutes = a * Minutes + Minutes
      /\ a * Minutes \in Nat
  <2>1. Age(c, z, 0) = b * Minutes + 0 - p
    <3>1. z[1] = b /\ c.points[z[2]].minute = p
      BY <1>2
    <3> QED
      BY <3>1, Zenon DEF Age
  <2>2. (a + 1) * Minutes = a * Minutes + 1 * Minutes /\ 1 * Minutes = Minutes
        /\ a * Minutes \in Nat
    BY <1>0, <1>6, Products
  <2> QED
    BY <1>6, <2>1, <2>2
<1>9. ASSUME NEW x \in Past(c, weekday, Minutes - 1)
      PROVE  Age(c, <<a, i>>, Minutes - 1) <= Age(c, x, Minutes - 1)
  <2>1. PICK e \in 0 .. Days - 1, j \in DOMAIN c.points, q \in 0 .. Minutes - 1 :
          /\ x = <<e, j>> /\ q = c.points[j].minute
          /\ AppliesOn(c.points[j], (weekday - e + Days) % Days)
    <3>1. x = <<x[1], x[2]>>
      BY DEF Past
    <3> QED
      BY <1>0, <3>1, PastFacts
  <2>2. Age(c, x, Minutes - 1) = e * Minutes + (Minutes - 1) - q
    BY <2>1, Zenon DEF Age
  <2>3. e \in Nat /\ e * Minutes \in Nat
    BY <1>0, <2>1, Products
  <2>4. CASE e + 1 \in 1 .. Days - 1
    <3>1. PICK f \in 1 .. Days - 1 : f = e + 1 /\ f - 1 = e
      BY <2>3, <2>4
    <3>2. (weekday - (f - 1) + Days) % Days = (later - f + Days) % Days
      BY <1>5, Zenon
    <3>3. f \in 0 .. Days - 1 /\ f # 0
      BY <1>0
    <3>4. <<f, j>> \in Past(c, later, 0) /\ Age(c, <<f, j>>, 0) = f * Minutes + 0 - q
      <4>1. AppliesOn(c.points[j], (later - f + Days) % Days)
        BY <2>1, <3>1, <3>2, Zenon
      <4>2. f = 0 => c.points[j].minute <= 0
        BY <3>3
      <4>3. <<f, j>> \in Past(c, later, 0)
            /\ Age(c, <<f, j>>, 0) = f * Minutes + 0 - c.points[j].minute
        <5>1. <<f, j>> \in Past(c, later, 0)
          BY <3>3, <4>1, <4>2 DEF Past
        <5> QED
          BY <5>1 DEF Age
      <4> QED
        BY <2>1, <4>3, Zenon
    <3>5. f * Minutes = e * Minutes + Minutes
      <4>1. (e + 1) * Minutes = e * Minutes + 1 * Minutes /\ 1 * Minutes = Minutes
        BY <1>0, <2>3, Products
      <4> QED
        BY <3>1, <4>1
    <3>6. Age(c, z, 0) <= Age(c, <<f, j>>, 0)
      BY <1>1, <3>4
    <3> DEFINE A == a * Minutes
               E == e * Minutes
    <3>7. A + Minutes - p <= E + Minutes - q /\ A \in Nat /\ E \in Nat
      BY <1>0, <1>8, <2>3, <3>4, <3>5, <3>6
    <3>8. Age(c, <<a, i>>, Minutes - 1) = A + (Minutes - 1) - p
          /\ Age(c, x, Minutes - 1) = E + (Minutes - 1) - q
      BY <1>7, <2>2
    <3> HIDE DEF A, E
    <3> QED
      BY <1>0, <3>7, <3>8
  <2>5. CASE e = Days - 1
    <3>1. a < e
      BY <1>0, <1>4, <1>6, <2>5
    <3>2. a * Minutes + Minutes <= e * Minutes
      BY <1>0, <2>3, <3>1, Products
    <3> DEFINE A == a * Minutes
               E == e * Minutes
    <3>7. A + Minutes <= E /\ A \in Nat /\ E \in Nat
      BY <1>8, <2>3, <3>2
    <3>8. Age(c, <<a, i>>, Minutes - 1) = A + (Minutes - 1) - p
          /\ Age(c, x, Minutes - 1) = E + (Minutes - 1) - q
      BY <1>7, <2>2
    <3> HIDE DEF A, E
    <3> QED
      BY <1>0, <3>7, <3>8
  <2> QED
    BY <1>0, <2>3, <2>4, <2>5
<1>10. LatestIndex(c, weekday, Minutes - 1) = <<a, i>>[2]
  BY <1>0, <1>7, <1>9, LatestUnique
<1> QED
  BY <1>1, <1>2, <1>10

LEMMA LatestStep ==
  ASSUME NEW c, Good(c), NEW v \in Wall, NEW w \in Wall, ~Irregular(v, w),
         NEW t \in v .. w - 1, PointsOf(c, t + 1) = {}, Latest(c, t + 1) # 0
  PROVE  Latest(c, t) = Latest(c, t + 1)
<1>1. t \in Wall /\ t + 1 \in Wall
  BY RegularStep
<1>2. /\ Weekday(t) \in 0 .. Days - 1 /\ MinuteOf(t) \in 0 .. Minutes - 1
      /\ Weekday(t + 1) \in 0 .. Days - 1 /\ MinuteOf(t + 1) \in 0 .. Minutes - 1
      /\ DayOf(t) \in Nat
  BY <1>1, LocalTypes, WeekdayTypes
<1>3. \A i \in DOMAIN c.points :
        ~(AppliesOn(c.points[i], Weekday(t + 1)) /\ c.points[i].minute = MinuteOf(t + 1))
  BY DEF PointsOf
<1>4. CASE DayOf(t + 1) = DayOf(t) /\ MinuteOf(t + 1) = MinuteOf(t) + 1
  <2>1. Weekday(t + 1) = Weekday(t)
    BY <1>4, Zenon DEF Weekday
  <2>2. LatestIndex(c, Weekday(t), MinuteOf(t)) = LatestIndex(c, Weekday(t), MinuteOf(t) + 1)
    BY <1>2, <1>3, <1>4, <2>1, SameDayLatest DEF Latest
  <2> QED
    BY <1>4, <2>1, <2>2 DEF Latest
<1>5. CASE /\ MinuteOf(t) + 1 = Minutes /\ DayOf(t + 1) = DayOf(t) + 1
           /\ MinuteOf(t + 1) = 0
  <2>1. Weekday(t + 1) = IF Weekday(t) + 1 = Days THEN 0 ELSE Weekday(t) + 1
    <3>1. PICK d \in Nat : d = DayOf(t)
      BY <1>2
    <3>2. (d + 1) % Days = IF (d % Days) + 1 = Days THEN 0 ELSE (d % Days) + 1
      BY Consts, NextWeekday
    <3> QED
      BY <1>5, <3>1, <3>2 DEF Weekday
  <2>2. LatestIndex(c, Weekday(t), Minutes - 1) = LatestIndex(c, Weekday(t + 1), 0)
    <3>1. /\ Weekday(t) \in 0 .. Days - 1 /\ Weekday(t + 1) \in 0 .. Days - 1
          /\ LatestIndex(c, Weekday(t + 1), 0) # 0
          /\ \A i \in DOMAIN c.points :
               ~(AppliesOn(c.points[i], Weekday(t + 1)) /\ c.points[i].minute = 0)
      BY <1>2, <1>3, <1>5 DEF Latest
    <3> QED
      BY <2>1, <3>1, NextDayLatest
  <2>3. MinuteOf(t) = Minutes - 1
    BY <1>2, <1>5, Consts
  <2> QED
    BY <1>5, <2>2, <2>3 DEF Latest
<1> QED
  BY <1>4, <1>5, RegularStep

LEMMA LatestSame ==
  ASSUME NEW c, Good(c), NEW v \in Wall, NEW w \in Wall, ~Irregular(v, w), NEW u \in v .. w,
         \A t \in u + 1 .. w : PointsOf(c, t) = {}, Latest(c, w) # 0
  PROVE  Latest(c, u) = Latest(c, w)
<1>1. v \in Nat /\ w \in Nat /\ u \in Nat /\ u <= w /\ v <= u /\ w - u \in Nat
  BY LocalTypes
<1> DEFINE S == {n \in Nat : Latest(c, w - n) = Latest(c, w)}
<1>2. 0 \in S
  BY <1>1
<1>3. ASSUME NEW n \in 0 .. (w - u) - 1, n \in S PROVE n + 1 \in S
  <2>1. PICK t \in Nat : t + 1 = w - n /\ t = w - (n + 1) /\ t \in v .. w - 1
                         /\ t + 1 \in u + 1 .. w
    BY <1>1
  <2>2. Latest(c, t + 1) = Latest(c, w) /\ PointsOf(c, t + 1) = {}
    BY <1>3, <2>1
  <2>3. Latest(c, t) = Latest(c, t + 1)
    BY <2>1, <2>2, LatestStep
  <2> QED
    BY <2>1, <2>2, <2>3
<1> HIDE DEF S
<1>4. \A n \in 0 .. (w - u) : n \in S
  BY <1>1, <1>2, <1>3, UpTo
<1>5. w - u \in S
  BY <1>1, <1>4
<1>6. w - (w - u) = u
  BY <1>1
<1> QED
  BY <1>5, <1>6 DEF S

----------------------------------------------------------------------------
(* The point in force *)

\* The point that should be in force at the end of the turn; whether it is all there is
\* to do; whether it is to do and did not run yet.
Now == Latest(turn.config, turn.wall)
AllNow == \A x \in turn.todo : x[2] = Now
ToCome == \E y \in turn.todo : y[2] = Now /\ lastRun[Now] # DayAt(y)

\* A turn of the current configuration, in local time that went on as minutes do
Live == turn.phase # "idle" /\ SameConfig /\ ~excused
Sure == Live /\ CatchUpOnClockReady /\ Now # 0

\* What the callback is about
Applied ==
  /\ excused \in BOOLEAN
  /\ turn.phase \in {"catchUp", "mark"} => call.index = Now
  /\ turn.phase = "noLatest" => Now = 0
  /\ call # None /\ call.state \in {"ok", "mark"} =>
       device = <<turn.config.generation, call.index>>
  /\ turn.phase # "idle" /\ ~SameConfig => ~retry.pending /\ (config.enabled => catchUp)

\* Nothing ran, or is to be retried, ahead of the clock.
Behind ==
  /\ clock.wall = None => lastRun = NeverRun
  /\ ~excused =>
     /\ \A i \in Indices : lastRun[i] # None =>
          /\ clock.wall # None /\ i \in DOMAIN config.points
          /\ At(config, i, lastRun[i]) <= Abs(clock.wall)
     /\ retry.pending => At(config, retry.index, retry.day) <= Abs(clock.wall)

\* A retry is older than what the turn looks at.
Ordered ==
  Live =>
    /\ \A x \in turn.todo :
         x[1] <= turn.wall => Abs(turn.wall) = Abs(x[1]) + (turn.wall - x[1])
    /\ turn.phase \in {"catchUp", "mark", "noLatest", "retry"} /\ retry.pending =>
         \A x \in turn.todo :
           x[1] <= turn.wall => At(turn.config, retry.index, retry.day) < Abs(x[1])
    /\ turn.phase = "retry" /\ call # None =>
         \A x \in turn.todo :
           x[1] <= turn.wall => At(turn.config, call.index, call.day) < Abs(x[1])
    /\ call # None /\ Scheduled => At(turn.config, call.index, call.day) <= Abs(turn.wall)

\* The last thing to do of a turn is the point that should be in force,
LastIsNow == Sure => \A x \in turn.todo : (\A y \in turn.todo : y[1] <= x[1]) => x[2] = Now

\* and as long as something else is to do before, it did not run.
NotBefore ==
  Sure /\ ~AllNow => \A y \in turn.todo : y[2] = Now => lastRun[Now] # DayAt(y)

\* When nothing else is to do, it was applied or is going to be.
NowApplied ==
  Sure /\ AllNow /\ ~catchUp =>
    device = <<config.generation, Now>> \/ retry.pending \/ ToCome
NowRetried == Sure /\ AllNow /\ retry.pending => retry.index = Now \/ ToCome
NowCalled ==
  Sure /\ AllNow /\ turn.phase = "retry" /\ call # None => call.index = Now \/ ToCome

InTurn == LastIsNow /\ NotBefore /\ NowApplied /\ NowRetried /\ NowCalled

AtRest ==
  /\ turn.phase = "idle" /\ config.enabled /\ CatchUpOnClockReady /\ ~excused
  /\ clock.wall # None /\ Latest(config, clock.wall) # 0
  => /\ retry.pending => retry.index = Latest(config, clock.wall)
     /\ clock.valid /\ ~catchUp /\ ~retry.pending =>
          device = <<config.generation, Latest(config, clock.wall)>>

Sync == Applied /\ Behind /\ Ordered /\ InTurn /\ AtRest

----------------------------------------------------------------------------

LEMMA AtTypes ==
  ASSUME NEW c, Good(c), NEW i \in DOMAIN c.points, NEW d \in Nat
  PROVE  At(c, i, d) \in Nat
<1>1. c.points[i].minute \in Nat /\ d * Minutes \in Nat
  BY GoodFacts, PointTypes, Consts, Products
<1> QED
  BY <1>1 DEF At

\* A point of wall minute w, on its day
LEMMA AtPoint ==
  ASSUME NEW c, NEW w \in Wall, NEW i, c.points[i].minute = MinuteOf(w)
  PROVE  At(c, i, DayOf(w)) = Abs(w)
  BY Zenon DEF At, Abs

LEMMA LookNow ==
  ASSUME Whole, turn.phase # "idle", NEW x \in turn.todo, x[1] >= turn.wall
  PROVE  x[2] = Now /\ LookAt(x[1], turn.wall) = turn.wall
<1>1. x[1] \in Nat /\ x[1] <= turn.wall + 1 /\ turn.wall \in Wall /\ turn.wall \in Nat
  BY TodoFacts, LocalTypes
<1>2. LookAt(x[1], turn.wall) = turn.wall
  BY <1>1 DEF LookAt
<1>3. x[2] \in PointsOf(turn.config, turn.wall) /\ Good(turn.config)
  BY <1>2 DEF Whole, TurnOK, TodoOK
<1> QED
  BY <1>1, <1>2, <1>3, LatestNow DEF Now

LEMMA TodoAt ==
  ASSUME Whole, turn.phase # "idle", NEW x \in turn.todo
  PROVE  /\ At(turn.config, x[2], DayAt(x)) = Abs(LookAt(x[1], turn.wall))
         /\ x[1] <= turn.wall => LookAt(x[1], turn.wall) = x[1] /\ x[1] \in Wall
         /\ x[1] > turn.wall => LookAt(x[1], turn.wall) = turn.wall
         /\ Abs(LookAt(x[1], turn.wall)) \in Nat /\ Abs(turn.wall) \in Nat
<1>1. /\ LookAt(x[1], turn.wall) \in Wall /\ x[1] \in Nat /\ turn.wall \in Wall
      /\ turn.config.points[x[2]].minute = MinuteOf(LookAt(x[1], turn.wall))
      /\ x[1] <= turn.wall + 1
  BY TodoFacts
<1>2. At(turn.config, x[2], DayAt(x)) = Abs(LookAt(x[1], turn.wall))
  BY <1>1, AtPoint DEF DayAt
<1>3. /\ x[1] <= turn.wall => LookAt(x[1], turn.wall) = x[1] /\ x[1] \in Wall
      /\ x[1] > turn.wall => LookAt(x[1], turn.wall) = turn.wall
  BY <1>1, LookFacts
<1> QED
  BY <1>1, <1>2, <1>3, AbsTypes

\* In a turn that goes on regularly, no look is later than the current minute.
LEMMA TodoBehind ==
  ASSUME Whole, Ordered, Live, NEW x \in turn.todo
  PROVE  Abs(LookAt(x[1], turn.wall)) <= Abs(turn.wall)
<1>1. turn.phase # "idle" /\ turn.wall \in Nat /\ x[1] \in Nat
  BY TodoFacts, LocalTypes DEF Live
<1>2. CASE x[1] <= turn.wall
  <2>1. Abs(turn.wall) = Abs(x[1]) + (turn.wall - x[1])
    BY <1>2 DEF Ordered
  <2>2. LookAt(x[1], turn.wall) = x[1] /\ Abs(LookAt(x[1], turn.wall)) \in Nat
    BY <1>1, <1>2, TodoAt
  <2> QED
    BY <1>1, <1>2, <2>1, <2>2
<1>3. CASE x[1] > turn.wall
  BY <1>1, <1>3, TodoAt
<1> QED
  BY <1>1, <1>2, <1>3

----------------------------------------------------------------------------
(* What is left when a retry, or the first point, is done with *)

Left == IF turn.phase = "points" THEN Rest ELSE turn.todo

LEMMA LeftFacts ==
  ASSUME Whole, turn.phase \in {"retry", "points"}, turn' = To("points", Left),
         UNCHANGED <<config, clock>>
  PROVE  /\ Left \subseteq turn.todo /\ turn'.todo = Left
         /\ Left = {} => turn'.phase = "idle"
         /\ Left # {} => /\ turn'.phase = "points" /\ turn'.config = turn.config
                         /\ turn'.wall = turn.wall /\ Now' = Now /\ SameConfig' = SameConfig
         /\ \A x \in Left : DayAt(x)' = DayAt(x)
<1>1. /\ turn'.todo = Left
      /\ Left = {} => turn'.phase = "idle"
      /\ Left # {} => turn'.phase = "points"
      /\ turn'.phase # "idle" => turn'.config = turn.config /\ turn'.wall = turn.wall
  BY ToFacts
<1>2. Left \subseteq turn.todo
  BY DEF Left, Rest
<1> QED
  BY <1>1, <1>2 DEF Now, Latest, SameConfig, DayAt

LEMMA LeftLast ==
  ASSUME Whole, turn.phase \in {"retry", "points"}, NEW x \in Left,
         \A y \in Left : y[1] <= x[1]
  PROVE  \A y \in turn.todo : y[1] <= x[1]
<1>1. CASE turn.phase = "retry"
  BY <1>1 DEF Left
<1>2. CASE turn.phase = "points"
  <2>1. turn.todo # {} /\ Left = turn.todo \ {First(turn.todo)}
    BY <1>2, FirstFacts DEF Left, Whole, TurnOK, Rest
  <2>2. First(turn.todo)[1] <= x[1]
    BY <1>2, <2>1, FirstFacts
  <2> QED
    BY <2>1, <2>2
<1> QED
  BY <1>1, <1>2

LEMMA LeftOut ==
  ASSUME Whole, turn.phase \in {"retry", "points"}
  PROVE  /\ turn.phase = "retry" => Left = turn.todo
         /\ turn.phase = "points" =>
              /\ First(turn.todo) \in turn.todo /\ Left = turn.todo \ {First(turn.todo)}
              /\ \A y \in turn.todo : First(turn.todo)[1] <= y[1]
<1>1. turn.phase = "points" => turn.todo # {}
  BY DEF Whole, TurnOK
<1> QED
  BY <1>1, FirstFacts DEF Left

LEMMA DropKeeps ==
  ASSUME Whole, Sync, turn.phase \in {"retry", "points"}, turn' = To("points", Left),
         call' = None, UNCHANGED <<config, clock, excused>>,
         ~SameConfig => UNCHANGED <<catchUp, retry>>
  PROVE  Applied' /\ Ordered' /\ LastIsNow' /\ NowCalled'
<1>1. /\ Left \subseteq turn.todo /\ turn'.todo = Left
      /\ Left = {} => turn'.phase = "idle"
      /\ Left # {} => /\ turn'.phase = "points" /\ turn'.config = turn.config
                      /\ turn'.wall = turn.wall /\ Now' = Now /\ SameConfig' = SameConfig
  BY LeftFacts
<1>2. Applied'
  BY <1>1 DEF Sync, Applied
<1>3. Live' => Live /\ Left # {}
  BY <1>1 DEF Live
<1>4. Ordered'
  <2> SUFFICES ASSUME Live' PROVE Ordered'
    BY DEF Ordered
  <2>1. Live /\ Left # {}
    BY <1>3
  <2>2. \A x \in Left : x[1] <= turn.wall => Abs(turn.wall) = Abs(x[1]) + (turn.wall - x[1])
    BY <1>1, <2>1 DEF Sync, Ordered
  <2> QED
    BY <1>1, <2>1, <2>2 DEF Ordered
<1>5. LastIsNow'
  <2> SUFFICES ASSUME Sure', NEW x \in Left, \A y \in Left : y[1] <= x[1] PROVE x[2] = Now
    BY <1>1 DEF LastIsNow
  <2>1. Sure
    BY <1>1, <1>3 DEF Sure
  <2>2. \A y \in turn.todo : y[1] <= x[1]
    BY LeftLast
  <2> QED
    BY <1>1, <2>1, <2>2 DEF Sync, InTurn, LastIsNow
<1> QED
  BY <1>2, <1>4, <1>5 DEF NowCalled

\* From a step that drops something to what it means for the rest of the turn
LEMMA DropSure ==
  ASSUME Whole, turn.phase \in {"retry", "points"}, turn' = To("points", Left),
         UNCHANGED <<config, clock, excused>>, Sure'
  PROVE  /\ Sure /\ Left # {} /\ Now' = Now /\ turn'.todo = Left
         /\ AllNow' <=> \A x \in Left : x[2] = Now
         /\ AllNow => AllNow'
         /\ config = turn.config
<1>1. Left # {}
  BY LeftFacts DEF Sure, Live
<1>2. /\ Left \subseteq turn.todo /\ turn'.todo = Left /\ Now' = Now
      /\ SameConfig' = SameConfig
  BY <1>1, LeftFacts
<1>3. Sure
  BY <1>2 DEF Sure, Live
<1>4. config = turn.config
  BY <1>3 DEF Sure, Live, Whole, TurnOK
<1> QED
  BY <1>1, <1>2, <1>3, <1>4 DEF AllNow

\* While something else is to do, the point that has just run is not the one in force
\* at the end, or it ran on another day.
LEMMA NotAgain ==
  ASSUME Whole, Sync, Sure, turn.phase \in {"retry", "points"}, call # None,
         call.index = Now, NEW z \in Left, z[2] # Now, NEW y \in Left, y[2] = Now
  PROVE  call.day # DayAt(y)
<1> SUFFICES ASSUME call.day = DayAt(y) PROVE FALSE
  OBVIOUS
<1>1. turn.phase # "idle" /\ Live /\ Ordered /\ y \in turn.todo /\ z \in turn.todo
  BY DEF Sure, Live, Sync, Left, Rest
<1>2. turn.wall \in Nat /\ y[1] \in Nat /\ z[1] \in Nat /\ y = <<y[1], y[2]>>
  BY <1>1, TodoFacts, LocalTypes
<1>3. z[1] < turn.wall
  BY <1>1, <1>2, LookNow
<1>4. Abs(turn.wall) = Abs(z[1]) + (turn.wall - z[1]) /\ Abs(z[1]) \in Nat
  BY <1>1, <1>2, <1>3, TodoAt DEF Ordered
<1>5. At(turn.config, call.index, call.day) = Abs(LookAt(y[1], turn.wall))
  BY <1>1, TodoAt
<1>6. CASE turn.phase = "retry"
  <2>1. \A x \in turn.todo :
          x[1] <= turn.wall => At(turn.config, call.index, call.day) < Abs(x[1])
    BY <1>1, <1>6 DEF Ordered
  <2>2. CASE y[1] <= turn.wall
    <3>1. Abs(y[1]) < Abs(y[1]) /\ Abs(y[1]) \in Nat
      BY <1>1, <1>5, <2>1, <2>2, TodoAt
    <3> QED
      BY <3>1
  <2>3. CASE y[1] > turn.wall
    <3>1. At(turn.config, call.index, call.day) = Abs(turn.wall) /\ Abs(turn.wall) \in Nat
      BY <1>1, <1>5, <2>3, TodoAt
    <3>2. Abs(turn.wall) < Abs(z[1])
      BY <1>1, <1>2, <1>3, <2>1, <3>1
    <3> QED
      BY <1>2, <1>3, <1>4, <3>1, <3>2
  <2> QED
    BY <1>2, <2>2, <2>3
<1>7. CASE turn.phase = "points"
  <2>1. PICK f \in turn.todo : /\ f = First(turn.todo) /\ Left = turn.todo \ {f}
                               /\ \A x \in turn.todo : f[1] <= x[1]
    BY <1>7, LeftOut
  <2>2. call.index = f[2] /\ call.day = DayAt(f)
    BY <1>7, <2>1 DEF Whole, CallOK
  <2>3. f[1] \in Nat /\ f[1] < turn.wall /\ f = <<f[1], f[2]>>
    BY <1>1, <1>2, <1>3, <2>1, TodoFacts
  <2>4. Abs(turn.wall) = Abs(f[1]) + (turn.wall - f[1]) /\ Abs(f[1]) \in Nat
    BY <1>1, <1>2, <2>1, <2>3, TodoAt DEF Ordered
  <2>5. Abs(LookAt(y[1], turn.wall)) = Abs(f[1])
    <3>1. At(turn.config, f[2], DayAt(f)) = Abs(LookAt(f[1], turn.wall))
          /\ LookAt(f[1], turn.wall) = f[1]
      BY <1>1, <1>2, <2>1, <2>3, TodoAt
    <3> QED
      BY <1>5, <2>2, <3>1
  <2>6. f[1] <= y[1] /\ y # f
    BY <1>1, <2>1
  <2>7. f[1] < y[1]
    BY <1>2, <2>2, <2>3, <2>6
  <2>8. CASE y[1] <= turn.wall
    <3>1. Abs(turn.wall) = Abs(y[1]) + (turn.wall - y[1]) /\ Abs(y[1]) = Abs(f[1])
      BY <1>1, <1>2, <2>5, <2>8, TodoAt DEF Ordered
    <3> QED
      BY <1>2, <2>3, <2>4, <2>7, <3>1
  <2>9. CASE y[1] > turn.wall
    <3>1. Abs(turn.wall) = Abs(f[1])
      BY <1>1, <2>5, <2>9, TodoAt
    <3> QED
      BY <1>2, <2>3, <2>4, <3>1
  <2> QED
    BY <1>2, <2>8, <2>9
<1> QED
  BY <1>6, <1>7

LEMMA RestLatest ==
  ASSUME Whole, Live, UNCHANGED <<config, clock>>
  PROVE  Latest(config', clock'.wall) = Now /\ config = turn.config
<1>1. config = turn.config /\ clock.wall = turn.wall
  BY DEF Live, Whole, TurnOK
<1> QED
  BY <1>1 DEF Now

\* When nothing is left to do, what was done last is the point in force.
LEMMA LastDone ==
  ASSUME Whole, Sync, Sure, turn.phase \in {"retry", "points"}, Left = {}
  PROVE  /\ AllNow
         /\ turn.phase = "retry" => turn.todo = {} /\ ~ToCome
         /\ turn.phase = "points" =>
              /\ turn.todo = {First(turn.todo)} /\ First(turn.todo)[2] = Now
              /\ ToCome => lastRun[Now] # DayAt(First(turn.todo))
<1>1. CASE turn.phase = "retry"
  BY <1>1, LeftOut DEF AllNow, ToCome
<1>2. CASE turn.phase = "points"
  <2>1. PICK f \in turn.todo : f = First(turn.todo) /\ turn.todo = {f}
    BY <1>2, LeftOut
  <2>2. f[1] <= f[1]
    BY <1>2, TodoFacts
  <2>3. f[2] = Now
    BY <2>1, <2>2 DEF Sync, InTurn, LastIsNow
  <2> QED
    BY <1>2, <2>1, <2>3 DEF AllNow, ToCome
<1> QED
  BY <1>1, <1>2

\* What was called, or dropped, is the point in force, or this is still to come.
LEMMA LeftToCome ==
  ASSUME Whole, Sync, Sure, turn.phase \in {"retry", "points"}, Left # {},
         \A x \in Left : x[2] = Now, ~AllNow
  PROVE  /\ turn.phase = "points" /\ First(turn.todo)[2] # Now
         /\ \E y \in Left : y[2] = Now /\ lastRun[Now] # DayAt(y)
<1>1. turn.phase = "points"
  BY LeftOut DEF AllNow
<1>2. First(turn.todo)[2] # Now /\ Left \subseteq turn.todo
  BY <1>1, LeftOut DEF AllNow
<1>3. PICK y \in Left : y[2] = Now
  OBVIOUS
<1>4. lastRun[Now] # DayAt(y)
  BY <1>2, <1>3 DEF Sync, InTurn, NotBefore
<1> QED
  BY <1>1, <1>2, <1>3, <1>4

----------------------------------------------------------------------------
(* Steps outside of a turn *)

LEMMA SyncStays ==
  ASSUME Sync, UNCHANGED <<config, lastRun, catchUp, retry, turn, call, device, excused>>,
         clock'.wall = clock.wall, clock'.valid => clock.valid
  PROVE  Sync'
<1>1. /\ Now' = Now /\ SameConfig' = SameConfig /\ Scheduled' = Scheduled
      /\ \A x : DayAt(x)' = DayAt(x)
  BY DEF Now, SameConfig, Scheduled, DayAt
<1>2. Sure' = Sure /\ Live' = Live /\ AllNow' = AllNow /\ ToCome' = ToCome
  BY <1>1 DEF Sure, Live, AllNow, ToCome
<1>3. Applied' /\ Behind' /\ AtRest'
  BY <1>1 DEF Sync, Applied, Behind, AtRest
<1>4. Ordered'
  BY <1>1, <1>2 DEF Sync, Ordered
<1>5. InTurn'
  BY <1>1, <1>2 DEF Sync, InTurn, LastIsNow, NotBefore, NowApplied, NowRetried, NowCalled
<1> QED
  BY <1>3, <1>4, <1>5 DEF Sync

\* An item that is to do is on a day.
LEMMA DayAtTypes ==
  ASSUME Whole, turn.phase # "idle", NEW x \in turn.todo
  PROVE  DayAt(x) \in Nat /\ DayAt(x) # None /\ x[2] \in Indices
         /\ x[2] \in DOMAIN turn.config.points
<1>1. LookAt(x[1], turn.wall) \in Wall /\ x[2] \in DOMAIN turn.config.points
      /\ Good(turn.config)
  BY TodoFacts DEF Whole, TurnOK
<1> QED
  BY <1>1, LocalTypes, Consts, GoodFacts DEF DayAt

LEMMA SyncCommit ==
  ASSUME Whole, Sync, NEW g \in Generations, StageCommit(g)
  PROVE  Sync'
<1> DEFINE c == Candidate
<1>0. Committable(g)
  BY DEF StageCommit
<1>1. /\ Good(c) /\ c.generation = g /\ config.generation <= g /\ c = Configs[g]
      /\ c.enabled \in BOOLEAN
  BY <1>0, CandidateIs, GoodFacts, PointTypes
<1>2. /\ config' = c /\ lastRun' = NeverRun /\ catchUp' = c.enabled /\ retry' = NoRetry
      /\ excused' = (excused /\ c.generation = config.generation)
      /\ UNCHANGED <<clock, turn, call, device>>
  BY DEF StageCommit, Installed
<1> HIDE DEF c
<1>3. ~retry'.pending /\ \A i \in Indices : lastRun'[i] = None
  BY <1>2, FreshTypes
<1>4. Applied'
  BY <1>1, <1>2, <1>3 DEF Sync, Applied, Now
<1>5. Behind' /\ AtRest'
  BY <1>1, <1>2, <1>3 DEF Behind, AtRest
<1>6. ASSUME Live'
      PROVE  Live /\ config' = config /\ catchUp' = TRUE
  <2>1. turn.phase # "idle" /\ c.generation = turn.config.generation
    BY <1>2, <1>6 DEF Live, SameConfig
  <2>2. /\ turn.config.generation <= config.generation /\ Good(turn.config)
        /\ turn.config.enabled /\ Good(config) /\ (SameConfig => config = turn.config)
    BY <2>1 DEF Whole, TurnOK, RecordOK
  <2>3. config.generation \in Nat /\ turn.config.generation \in Nat
    BY <2>2, GoodFacts, PointTypes
  <2>4. config.generation = g /\ SameConfig
    BY <1>1, <2>1, <2>2, <2>3 DEF SameConfig
  <2>5. turn.config = Configs[g]
    BY <1>1, <2>1, <2>2, GoodFacts
  <2> QED
    BY <1>1, <1>2, <1>6, <2>1, <2>2, <2>4, <2>5 DEF Live
<1>7. Now' = Now /\ Scheduled' = Scheduled /\ AllNow' = AllNow /\ \A x : DayAt(x)' = DayAt(x)
  BY <1>2 DEF Now, AllNow, DayAt, Scheduled
<1>8. Ordered'
  BY <1>2, <1>3, <1>6, <1>7 DEF Sync, Ordered
<1>9. InTurn'
  <2>1. Sure' => Sure /\ catchUp'
    BY <1>6, <1>7 DEF Sure
  <2>2. \A y \in turn.todo : Sure' /\ y[2] = Now => lastRun'[Now] # DayAt(y)
    BY <1>3, <2>1, DayAtTypes DEF Sure, Live
  <2>3. LastIsNow'
    BY <1>2, <1>7, <2>1 DEF Sync, InTurn, LastIsNow
  <2>4. NotBefore'
    BY <1>2, <1>7, <2>2 DEF NotBefore
  <2>5. NowCalled'
    <3>1. Sure' /\ ToCome => ToCome'
      BY <1>2, <1>7, <2>2 DEF ToCome
    <3> QED
      BY <1>2, <1>7, <2>1, <3>1 DEF Sync, InTurn, NowCalled
  <2> QED
    BY <1>3, <2>1, <2>3, <2>4, <2>5 DEF InTurn, NowApplied, NowRetried
<1> QED
  BY <1>4, <1>5, <1>8, <1>9 DEF Sync

LEMMA SyncStart ==
  ASSUME Whole, Start
  PROVE  Sync'
<1>1. /\ turn'.phase = "idle" /\ call' = None /\ clock'.wall = None /\ lastRun' = NeverRun
      /\ retry' = NoRetry /\ excused' \in BOOLEAN
  BY RestingTypes DEF Start, Unread, Installed
<1>2. ~retry'.pending /\ \A i \in Indices : lastRun'[i] = None
  BY <1>1, FreshTypes
<1>3. ~Live' /\ ~Sure'
  BY <1>1 DEF Live, Sure
<1>4. Applied' /\ Behind' /\ AtRest'
  BY <1>1, <1>2 DEF Applied, Behind, AtRest
<1>5. Ordered' /\ InTurn'
  BY <1>3 DEF Ordered, InTurn, LastIsNow, NotBefore, NowApplied, NowRetried, NowCalled
<1> QED
  BY <1>4, <1>5 DEF Sync

----------------------------------------------------------------------------
(* A turn begins: what it has to do, and the point that should be in force at its end *)

LEMMA AbsAfter ==
  ASSUME NEW v \in Wall, NEW w \in Wall, ~LocalBefore(w, v)
  PROVE  Abs(v) <= Abs(w)
<1>1. /\ DayOf(v) \in Nat /\ DayOf(w) \in Nat /\ MinuteOf(v) \in 0 .. Minutes - 1
      /\ MinuteOf(w) \in 0 .. Minutes - 1 /\ Minutes \in Nat
  BY LocalTypes, Consts
<1>2. PICK a \in Nat, b \in Nat, m \in 0 .. Minutes - 1, n \in 0 .. Minutes - 1 :
        a = DayOf(v) /\ b = DayOf(w) /\ m = MinuteOf(v) /\ n = MinuteOf(w)
  BY <1>1
<1>3. a < b \/ (a = b /\ m <= n)
  BY <1>1, <1>2 DEF LocalBefore
<1> DEFINE A == a * Minutes
           B == b * Minutes
<1>4. A \in Nat /\ B \in Nat /\ (a < b => A + Minutes <= B) /\ (a = b => A = B)
  BY <1>1, Products
<1>5. Abs(v) = A + m /\ Abs(w) = B + n
  BY <1>2, Zenon DEF Abs
<1> HIDE DEF A, B
<1> QED
  BY <1>1, <1>2, <1>3, <1>4, <1>5

LEMMA DueItem ==
  ASSUME NEW c, Good(c), NEW v \in Wall, NEW w \in Wall, v <= w, NEW x \in Due(c, v, w)
  PROVE  /\ x[1] \in Nat /\ x[1] \in v + 1 .. w + 1 /\ v \in Nat /\ w \in Nat
         /\ LookAt(x[1], w) \in v .. w /\ LookAt(x[1], w) \in Wall
         /\ x[1] <= w => LookAt(x[1], w) = x[1]
         /\ x[1] > w => LookAt(x[1], w) = w
         /\ x[2] \in PointsOf(c, LookAt(x[1], w)) /\ x[2] \in DOMAIN c.points
         /\ x[2] \in Indices
         /\ Latest(c, LookAt(x[1], w)) = x[2]
<1>1. v \in Nat /\ w \in Nat
  BY LocalTypes
<1>2. /\ x[1] \in v + 1 .. w + 1 /\ x[2] \in PointsOf(c, LookAt(x[1], w))
      /\ x[2] \in DOMAIN c.points
  BY DEF Due
<1>3. x[1] \in Nat /\ LookAt(x[1], w) \in v .. w
  BY <1>1, <1>2 DEF LookAt
<1>4. LookAt(x[1], w) \in Wall
  BY <1>1, <1>2, <1>3, LookFacts
<1> QED
  BY <1>1, <1>2, <1>3, <1>4, LatestNow, GoodFacts DEF LookAt

LEMMA DueLast ==
  ASSUME NEW c, Good(c), NEW v \in Wall, NEW w \in Wall, v <= w, ~Irregular(v, w),
         Latest(c, w) # 0, NEW x \in Due(c, v, w), \A y \in Due(c, v, w) : y[1] <= x[1]
  PROVE  x[2] = Latest(c, w)
<1> DEFINE u == LookAt(x[1], w)
<1>1. /\ u \in v .. w /\ x[1] \in Nat /\ v \in Nat /\ w \in Nat /\ Latest(c, u) = x[2]
      /\ x[1] <= w => u = x[1]
      /\ x[1] > w => u = w
  BY DueItem
<1>2. ASSUME NEW t \in u + 1 .. w, NEW i \in PointsOf(c, t) PROVE FALSE
  <2>1. u < t /\ t <= w /\ t \in Nat /\ t \in v + 1 .. w + 1 /\ i \in DOMAIN c.points
    BY <1>1, <1>2 DEF PointsOf
  <2>2. LookAt(t, w) = t
    BY <2>1 DEF LookAt
  <2>3. <<t, i>> \in Due(c, v, w)
    BY <1>2, <2>1, <2>2 DEF Due
  <2>4. t <= x[1]
    BY <2>3
  <2> QED
    BY <1>1, <2>1, <2>4
<1>3. \A t \in u + 1 .. w : PointsOf(c, t) = {}
  BY <1>2
<1> HIDE DEF u
<1>4. Latest(c, u) = Latest(c, w)
  BY <1>1, <1>3, LatestSame
<1> QED
  BY <1>1, <1>4

LEMMA DueNone ==
  ASSUME NEW c, Good(c), NEW v \in Wall, NEW w \in Wall, v <= w, ~Irregular(v, w),
         Latest(c, w) # 0, Due(c, v, w) = {}
  PROVE  Latest(c, v) = Latest(c, w)
<1>1. v \in Nat /\ w \in Nat
  BY LocalTypes
<1>2. ASSUME NEW t \in v + 1 .. w, NEW i \in PointsOf(c, t) PROVE FALSE
  <2>1. t <= w /\ t \in Nat /\ t \in v + 1 .. w + 1 /\ i \in DOMAIN c.points
    BY <1>1, <1>2 DEF PointsOf
  <2>2. LookAt(t, w) = t
    BY <2>1 DEF LookAt
  <2>3. <<t, i>> \in Due(c, v, w)
    BY <1>2, <2>1, <2>2 DEF Due
  <2> QED
    BY <2>3
<1>3. \A t \in v + 1 .. w : PointsOf(c, t) = {}
  BY <1>2
<1>4. v \in v .. w
  BY <1>1
<1> QED
  BY <1>3, <1>4, LatestSame

\* Nothing that a turn finds to do after the minute of the turn before has run.
LEMMA DueNotRun ==
  ASSUME Whole, Behind, ~excused, NEW v \in Wall, v = clock.wall, NEW w \in Wall, v < w,
         ~Irregular(v, w), NEW x \in Due(config, v, w)
  PROVE  lastRun[x[2]] # DayOf(LookAt(x[1], w))
<1> SUFFICES ASSUME lastRun[x[2]] = DayOf(LookAt(x[1], w)) PROVE FALSE
  OBVIOUS
<1>1. v \in Nat /\ w \in Nat /\ Good(config) /\ v <= w
  BY LocalTypes DEF Whole, RecordOK
<1> DEFINE u == LookAt(x[1], w)
<1>2. /\ x[1] \in v + 1 .. w + 1 /\ u \in v .. w /\ u \in Wall /\ x[2] \in Indices
      /\ x[2] \in PointsOf(config, u)
      /\ x[1] <= w => u = x[1]
      /\ x[1] > w => u = w
  BY <1>1, DueItem
<1>3. At(config, x[2], DayOf(u)) = Abs(u)
  BY <1>2, AtPoint DEF PointsOf
<1>4. lastRun[x[2]] # None
  BY <1>2, LocalTypes, Consts
<1>5. Abs(u) <= Abs(v)
  BY <1>2, <1>3, <1>4 DEF Behind
<1>6. u \in v + 1 .. w
  BY <1>1, <1>2
<1> HIDE DEF u
<1>7. Abs(u) = Abs(v) + (u - v) /\ Abs(v) \in Nat
  <2>1. v \in v .. w /\ u \in v .. w
    BY <1>1, <1>2
  <2> QED
    BY <2>1, AbsGoesOn, AbsTypes
<1> QED
  BY <1>1, <1>5, <1>6, <1>7

\* Nothing ran, or is to be retried, ahead of a clock that went on.
LEMMA BehindLater ==
  ASSUME Whole, Behind, NEW v \in Wall, v = clock.wall, NEW w \in Wall,
         clock'.wall = w, UNCHANGED <<config, lastRun>>,
         ~excused' => ~excused /\ Abs(v) <= Abs(w),
         retry' = retry \/ ~retry'.pending
  PROVE  Behind'
<1>1. Good(config) /\ w # None /\ Abs(v) \in Nat /\ Abs(w) \in Nat
  BY LocalTypes, AbsTypes DEF Whole, RecordOK
<1>2. ASSUME ~excused', NEW i \in Indices, lastRun[i] # None
      PROVE  i \in DOMAIN config.points /\ At(config, i, lastRun[i]) <= Abs(w)
  <2>1. i \in DOMAIN config.points /\ At(config, i, lastRun[i]) <= Abs(v)
    BY <1>2 DEF Behind
  <2>2. lastRun[i] \in Nat
    BY <1>2 DEF Whole, RecordOK
  <2>3. At(config, i, lastRun[i]) \in Nat
    BY <1>1, <2>1, <2>2, AtTypes
  <2> QED
    BY <1>1, <1>2, <2>1, <2>3
<1>3. ASSUME ~excused', retry'.pending
      PROVE  At(config, retry'.index, retry'.day) <= Abs(w)
  <2>1. retry' = retry /\ retry.index \in DOMAIN config.points /\ retry.day \in Nat
    BY <1>3 DEF Whole, RecordOK
  <2>2. At(config, retry.index, retry.day) <= Abs(v)
        /\ At(config, retry.index, retry.day) \in Nat
    BY <1>1, <1>3, <2>1, AtTypes DEF Behind
  <2> QED
    BY <1>1, <1>3, <2>1, <2>2
<1> QED
  BY <1>1, <1>2, <1>3 DEF Behind

LEMMA RestsSync ==
  ASSUME turn'.phase = "idle", call' = None, excused' \in BOOLEAN, Behind', AtRest'
  PROVE  Sync'
<1>1. ~Live' /\ ~Sure'
  BY DEF Live, Sure
<1>2. Applied'
  BY DEF Applied
<1>3. Ordered' /\ InTurn'
  BY <1>1 DEF Ordered, InTurn, LastIsNow, NotBefore, NowApplied, NowRetried, NowCalled
<1> QED
  BY <1>2, <1>3 DEF Sync

\* A turn begins with the catch-up, or with the retry.
LEMMA GoStarts ==
  ASSUME Whole, NEW w \in Wall, NEW todo, NEW catching \in BOOLEAN, Go(w, todo, catching),
         config.enabled, config' = config, excused' \in BOOLEAN
  PROVE  /\ Applied' /\ AtRest' /\ turn'.phase # "idle" /\ turn'.todo = todo
         /\ turn'.config = config /\ turn'.wall = w /\ Now' = Latest(config, w)
         /\ SameConfig' /\ (Live' <=> ~excused')
         /\ (Sure' <=> ~excused' /\ CatchUpOnClockReady /\ Latest(config, w) # 0)
         /\ call' # None => ~Scheduled'
         /\ turn'.phase = "retry" => call' = None
         /\ \A x : DayAt(x)' = DayOf(LookAt(x[1], w))
         /\ NowCalled'
<1>1. /\ turn'.config = config /\ turn'.wall = w /\ turn'.todo = todo
      /\ turn'.phase = IF ~catching THEN "retry"
                       ELSE IF Latest(config, w) = 0 THEN "noLatest" ELSE "catchUp"
      /\ call' = IF catching /\ Latest(config, w) # 0
                 THEN [index |-> Latest(config, w), day |-> DayOf(w), state |-> "due"]
                 ELSE None
  BY GoIs
<1>2. Now' = Latest(config, w) /\ SameConfig' /\ \A x : DayAt(x)' = DayOf(LookAt(x[1], w))
  BY <1>1 DEF Now, SameConfig, DayAt, Latest
<1>3. turn'.phase # "idle" /\ turn'.phase # "mark"
  BY <1>1
<1>4. /\ call' # None => /\ turn'.phase = "catchUp" /\ call'.index = Now'
                         /\ call'.state = "due"
      /\ turn'.phase = "catchUp" => call' # None
      /\ turn'.phase = "noLatest" => Now' = 0
      /\ turn'.phase = "retry" => call' = None
  <2>1. Latest(config, w) # 0 /\ catching => turn'.phase = "catchUp" /\ call' # None
          /\ call'.index = Latest(config, w) /\ call'.state = "due"
    <3>1. DayOf(w) \in Nat /\ Latest(config, w) \in Nat
      BY LocalTypes, LatestTypes DEF Whole, RecordOK
    <3>2. ASSUME Latest(config, w) # 0, catching PROVE call' \in Call
      BY <1>1, <3>1, <3>2 DEF Call
    <3> QED
      BY <1>1, <3>2, Consts
  <2> QED
    BY <1>1, <1>2, <2>1
<1>5. Applied'
  BY <1>2, <1>3, <1>4 DEF Applied
<1> QED
  BY <1>1, <1>2, <1>3, <1>4, <1>5 DEF AtRest, Live, Sure, Scheduled, NowCalled

LEMMA SyncTick ==
  ASSUME Whole, Sync, NEW w \in Wall, NEW reached \in BOOLEAN, Tick(w, reached)
  PROVE  Sync'
<1> DEFINE v == clock.wall
<1>1. /\ v \in Wall /\ turn.phase = "idle" /\ v <= w /\ clock'.wall = w /\ config' = config
      /\ w <= v + MaxStep
  BY TickGoes
<1>2. PICK catching \in BOOLEAN : Go(w, Due(config, v, w), catching)
  BY TickGoes
<1>3. /\ excused' = (excused \/ Irregular(v, w)) /\ UNCHANGED <<lastRun, retry, device>>
      /\ clock.valid /\ Good(config) /\ v \in Nat /\ w \in Nat
      /\ CatchUpOnClockReady => catchUp' = catchUp
  BY <1>1, LocalTypes DEF Tick, Whole, RecordOK
<1>4. excused' \in BOOLEAN
  BY <1>3 DEF Sync, Applied, Irregular
<1>5. ~excused' => ~excused /\ ~Irregular(v, w) /\ Abs(w) = Abs(v) + (w - v)
  <2>1. v \in v .. w /\ w \in v .. w
    BY <1>1, <1>3
  <2>2. ~Irregular(v, w) => Abs(w) = Abs(v) + (w - v)
    BY <1>1, <2>1, AbsGoesOn
  <2> QED
    BY <1>3, <2>2
<1>6. Abs(v) \in Nat /\ Abs(w) \in Nat
  BY <1>1, AbsTypes
<1> HIDE DEF v
<1>7. Behind'
  <2>1. ~excused' => Abs(v) <= Abs(w)
    BY <1>1, <1>3, <1>5, <1>6
  <2> QED
    BY <1>1, <1>3, <1>5, <2>1, BehindLater DEF Sync, v
<1>8. CASE ~config.enabled
  <2>1. turn' = turn /\ call' = None
    BY <1>2, <1>8 DEF Go
  <2>2. AtRest'
    BY <1>1, <1>8 DEF AtRest
  <2> QED
    BY <1>1, <1>4, <1>7, <2>1, <2>2, RestsSync
<1>9. CASE config.enabled
  <2> DEFINE todo == Due(config, v, w)
  <2>1. /\ Applied' /\ AtRest' /\ turn'.phase # "idle" /\ turn'.todo = todo
        /\ turn'.config = config /\ turn'.wall = w /\ Now' = Latest(config, w)
        /\ SameConfig' /\ (Live' <=> ~excused')
        /\ (Sure' <=> ~excused' /\ CatchUpOnClockReady /\ Latest(config, w) # 0)
        /\ call' # None => ~Scheduled'
        /\ turn'.phase = "retry" => call' = None
        /\ \A x : DayAt(x)' = DayOf(LookAt(x[1], w))
        /\ NowCalled'
    BY <1>1, <1>2, <1>4, <1>9, GoStarts
  <2>2. \A x \in todo : x[1] \in Nat /\ x[1] \in v + 1 .. w + 1
    BY <1>1, <1>3, DueItem
  <2>3. Ordered'
    <3> SUFFICES ASSUME ~excused', NEW x \in todo, x[1] <= w
                 PROVE  /\ Abs(w) = Abs(x[1]) + (w - x[1])
                        /\ retry.pending => At(config, retry.index, retry.day) < Abs(x[1])
      BY <1>3, <2>1 DEF Ordered
    <3>1. x[1] \in v .. w /\ v < x[1] /\ x[1] \in Nat /\ v \in v .. w /\ w \in x[1] .. w
          /\ x[1] \in v .. w
      BY <1>1, <1>3, <2>2
    <3>2. Abs(w) = Abs(x[1]) + (w - x[1]) /\ Abs(x[1]) = Abs(v) + (x[1] - v)
      BY <1>1, <1>5, <3>1, AbsGoesOn
    <3>3. ASSUME retry.pending PROVE At(config, retry.index, retry.day) < Abs(x[1])
      <4>1. /\ At(config, retry.index, retry.day) <= Abs(v)
            /\ retry.index \in DOMAIN config.points /\ retry.day \in Nat
        BY <1>3, <1>5, <3>3 DEF Sync, Behind, Whole, RecordOK, v
      <4>2. At(config, retry.index, retry.day) \in Nat
        BY <1>3, <4>1, AtTypes
      <4> QED
        BY <1>3, <1>6, <3>1, <3>2, <4>1, <4>2
    <3> QED
      BY <3>2, <3>3
  <2>4. LastIsNow'
    BY <1>1, <1>3, <1>5, <2>1, DueLast DEF LastIsNow
  <2>5. ASSUME Sure', v < w, NEW x \in todo PROVE lastRun[x[2]] # DayAt(x)'
    BY <1>1, <1>3, <1>5, <2>1, <2>5, DueNotRun DEF Sync, v
  <2>6. ASSUME v = w, NEW x \in todo PROVE x[2] = Now'
    BY <1>1, <1>3, <2>1, <2>2, <2>6, DueItem
  <2>7. NotBefore'
    BY <1>1, <1>3, <2>1, <2>5, <2>6 DEF NotBefore, AllNow
  <2>8. ASSUME Sure', AllNow', ~ToCome' PROVE Latest(config, v) = Now'
    <3>1. CASE v = w
      BY <2>1, <3>1
    <3>2. CASE v < w
      <4>1. todo = {}
        BY <1>3, <2>1, <2>5, <2>8, <3>2 DEF AllNow, ToCome
      <4> QED
        BY <1>1, <1>3, <1>5, <2>1, <2>8, <4>1, DueNone
    <3> QED
      BY <1>1, <1>3, <3>1, <3>2
  <2>9. ASSUME Sure', AllNow', ~ToCome'
        PROVE  /\ retry.pending => retry.index = Now'
               /\ ~catchUp /\ ~retry.pending => device = <<config.generation, Now'>>
    <3>1. Latest(config, v) = Now' /\ Now' # 0 /\ ~excused /\ CatchUpOnClockReady
      BY <1>5, <2>1, <2>8, <2>9
    <3>2. v # None
      BY <1>1, LocalTypes
    <3> QED
      BY <1>1, <1>3, <1>9, <3>1, <3>2 DEF Sync, AtRest, v
  <2>10. NowApplied' /\ NowRetried'
    BY <1>1, <1>3, <2>1, <2>9 DEF NowApplied, NowRetried
  <2> QED
    BY <1>7, <2>1, <2>3, <2>4, <2>7, <2>10 DEF Sync, InTurn
<1> QED
  BY <1>3, <1>8, <1>9, GoodFacts, PointTypes

LEMMA SyncTickJump ==
  ASSUME Whole, Sync, NEW w \in Wall, TickJump(w)
  PROVE  Sync'
<1>1. /\ clock'.wall = w /\ UNCHANGED <<config, lastRun, device>> /\ turn.phase = "idle"
      /\ Go(w, Due(config, w, w), catchUp') /\ catchUp' = (config.enabled /\ CatchUpOnClockReady)
      /\ excused' = (excused \/ (clock.wall # None /\ LocalBefore(w, clock.wall)))
      /\ retry' = [retry EXCEPT !.pending = FALSE]
  BY DEF TickJump
<1>2. ~retry'.pending /\ Good(config) /\ catchUp' \in BOOLEAN /\ w <= w /\ w # None
  BY <1>1, LocalTypes, GoodFacts, PointTypes, Consts DEF Whole, RecordOK
<1>3. excused' \in BOOLEAN
  BY <1>1 DEF Sync, Applied, LocalBefore
<1>4. Behind'
  <2>1. CASE clock.wall = None
    <3>1. lastRun' = NeverRun
      BY <1>1, <2>1 DEF Sync, Behind
    <3> QED
      BY <1>1, <1>2, <3>1, FreshTypes DEF Behind
  <2>2. CASE clock.wall # None
    <3>1. clock.wall \in Wall
      BY <2>2 DEF Whole, RecordOK
    <3>2. ~excused' => ~excused /\ Abs(clock.wall) <= Abs(w)
      BY <1>1, <2>2, <3>1, AbsAfter
    <3> QED
      BY <1>1, <1>2, <3>1, <3>2, BehindLater DEF Sync
  <2> QED
    BY <2>1, <2>2
<1>5. CASE ~config.enabled
  <2>1. turn' = turn /\ call' = None
    BY <1>1, <1>5 DEF Go
  <2>2. AtRest'
    BY <1>1, <1>5 DEF AtRest
  <2> QED
    BY <1>1, <1>3, <1>4, <2>1, <2>2, RestsSync
<1>6. CASE config.enabled
  <2> DEFINE todo == Due(config, w, w)
  <2>1. /\ Applied' /\ AtRest' /\ turn'.phase # "idle" /\ turn'.todo = todo
        /\ turn'.config = config /\ turn'.wall = w /\ Now' = Latest(config, w)
        /\ SameConfig' /\ (Live' <=> ~excused')
        /\ (Sure' <=> ~excused' /\ CatchUpOnClockReady /\ Latest(config, w) # 0)
        /\ call' # None => ~Scheduled'
        /\ turn'.phase = "retry" => call' = None
        /\ NowCalled'
    BY <1>1, <1>2, <1>3, <1>6, GoStarts
  <2>2. \A x \in todo : x[1] \in Nat /\ ~(x[1] <= w) /\ x[2] = Now'
    BY <1>2, <2>1, DueItem
  <2>3. Ordered'
    BY <1>2, <2>1, <2>2 DEF Ordered
  <2>4. LastIsNow' /\ NotBefore'
    BY <2>1, <2>2 DEF LastIsNow, NotBefore, AllNow
  <2>5. NowApplied' /\ NowRetried'
    BY <1>1, <1>2, <1>6, <2>1 DEF NowApplied, NowRetried
  <2> QED
    BY <1>4, <2>1, <2>3, <2>4, <2>5 DEF Sync, InTurn
<1> QED
  BY <1>2, <1>5, <1>6, GoodFacts, PointTypes

----------------------------------------------------------------------------
(* The callback, and the end of a catch-up *)

\* In the phase of the points the callback is about the first of them.
LEMMA CallPoint ==
  ASSUME Whole, turn.phase = "points", call # None
  PROVE  /\ First(turn.todo) \in turn.todo /\ call.index = First(turn.todo)[2]
         /\ call.day = DayAt(First(turn.todo))
  BY LeftOut DEF Whole, CallOK

LEMMA SyncApply ==
  ASSUME Whole, Sync, NEW ok \in BOOLEAN, Apply(ok)
  PROVE  Sync'
<1>1. /\ UNCHANGED <<config, lastRun, catchUp, clock, retry, turn, excused>>
      /\ Returned("due")
      /\ device' = IF ok THEN <<turn.config.generation, call.index>> ELSE device
  BY DEF Apply, record
<1>2. /\ call'.index = call.index /\ call'.day = call.day /\ call # None /\ call' # None
      /\ call'.state = IF ok THEN "ok" ELSE "failed"
      /\ turn.phase \in {"catchUp", "retry", "points"}
  BY <1>1, CallReturns
<1>3. /\ Now' = Now /\ SameConfig' = SameConfig /\ Scheduled' = Scheduled
      /\ \A x : DayAt(x)' = DayAt(x)
  BY <1>1 DEF Now, SameConfig, Scheduled, DayAt
<1>4. Sure' = Sure /\ Live' = Live /\ AllNow' = AllNow /\ ToCome' = ToCome
  BY <1>1, <1>3 DEF Sure, Live, AllNow, ToCome
<1>5. Applied' /\ Behind' /\ AtRest'
  BY <1>1, <1>2, <1>3 DEF Sync, Applied, Behind, AtRest
<1>6. Ordered'
  BY <1>1, <1>2, <1>3, <1>4 DEF Sync, Ordered
<1>7. LastIsNow' /\ NotBefore' /\ NowRetried' /\ NowCalled'
  BY <1>1, <1>2, <1>3, <1>4
     DEF Sync, InTurn, LastIsNow, NotBefore, NowRetried, NowCalled
<1>8. NowApplied'
  <2> SUFFICES ASSUME Sure, AllNow, ~catchUp
               PROVE  device' = <<config.generation, Now>> \/ retry.pending \/ ToCome
    BY <1>1, <1>3, <1>4 DEF NowApplied
  <2>1. CASE ~ok
    BY <1>1, <2>1 DEF Sync, InTurn, NowApplied
  <2>2. CASE ok
    <3>1. call.index = Now \/ ToCome
      <4>1. turn.phase = "points" => call.index = Now
        BY <1>2, CallPoint DEF AllNow
      <4> QED
        BY <1>2, <4>1 DEF Sync, Applied, InTurn, NowCalled
    <3>2. turn.config.generation = config.generation
      BY DEF Sure, Live, SameConfig
    <3> QED
      BY <1>1, <2>2, <3>1, <3>2
  <2> QED
    BY <2>1, <2>2
<1> QED
  BY <1>5, <1>6, <1>7, <1>8 DEF Sync, InTurn

LEMMA SyncCaughtUp ==
  ASSUME Whole, Whole', Sync, RecordOk \/ RecordFailed \/ RecordStale, ~Scheduled
  PROVE  Sync'
<1>1. /\ call # None /\ call.state \in {"ok", "failed"}
      /\ UNCHANGED <<config, clock, device, excused>> /\ turn.phase = "catchUp"
  BY Ends DEF history, Scheduled
<1>2. /\ turn'.phase \in {"mark", "retry"} /\ turn'.todo = turn.todo
      /\ turn'.config = turn.config /\ turn'.wall = turn.wall
      /\ call' # None => /\ turn'.phase = "mark" /\ call'.state = "mark"
                         /\ call'.index = call.index /\ call'.day = call.day
                         /\ call.state = "ok"
  BY EndsMoves
<1>3. UNCHANGED <<lastRun, retry>> /\ (~SameConfig => UNCHANGED catchUp)
  BY DEF RecordOk, RecordFailed, RecordStale, record
<1>4. SameConfig => UNCHANGED catchUp \/ call.state = "ok"
  BY DEF RecordOk, RecordFailed, RecordStale, Returned
<1>5. /\ Now' = Now /\ SameConfig' = SameConfig /\ \A x : DayAt(x)' = DayAt(x)
  BY <1>1, <1>2 DEF Now, SameConfig, DayAt
<1>6. Sure' = Sure /\ Live' = Live /\ AllNow' = AllNow /\ ToCome' = ToCome
  BY <1>1, <1>2, <1>3, <1>5 DEF Sure, Live, AllNow, ToCome
<1>7. call.index = Now /\ (call.state = "ok" => device = <<turn.config.generation, call.index>>)
  BY <1>1 DEF Sync, Applied
<1>8. turn'.phase = "mark" => call' # None
  BY DEF Whole, TurnOK
<1>9. Applied' /\ Behind' /\ AtRest'
  BY <1>1, <1>2, <1>3, <1>5, <1>7, <1>8 DEF Sync, Applied, Behind, AtRest
<1>10. Ordered'
  <2>1. ASSUME call' # None
        PROVE  At(turn.config, call.index, call.day) = Abs(turn.wall)
               /\ Abs(turn.wall) \in Nat
    <3>1. /\ turn.config.points[call.index].minute = MinuteOf(turn.wall)
          /\ call.day = DayOf(turn.wall)
      BY <1>2, <2>1 DEF Whole, CallOK
    <3>2. turn.wall \in Wall
      BY Ends
    <3> QED
      BY <3>1, <3>2, AtPoint, AbsTypes
  <2>2. call' # None =>
          At(turn.config, call'.index, call'.day) <= Abs(turn.wall)
    BY <1>2, <2>1
  <2> QED
    BY <1>1, <1>2, <1>3, <1>6, <2>2 DEF Sync, Ordered
<1>11. LastIsNow' /\ NotBefore' /\ NowRetried' /\ NowCalled'
  BY <1>1, <1>2, <1>3, <1>5, <1>6
     DEF Sync, InTurn, LastIsNow, NotBefore, NowRetried, NowCalled
<1>12. NowApplied'
  <2>1. Sure => SameConfig /\ config.generation = turn.config.generation
    BY DEF Sure, Live, SameConfig
  <2> QED
    BY <1>1, <1>3, <1>4, <1>5, <1>6, <1>7, <2>1 DEF Sync, InTurn, NowApplied
<1> QED
  BY <1>9, <1>10, <1>11, <1>12 DEF Sync, InTurn

LEMMA SyncMark ==
  ASSUME Whole, Sync, MarkRun
  PROVE  Sync'
<1>1. /\ turn.phase = "mark" /\ call' = None
      /\ UNCHANGED <<config, clock, retry, catchUp, device>>
      /\ lastRun' = IF SameConfig THEN [lastRun EXCEPT ![call.index] = call.day] ELSE lastRun
      /\ excused' = (excused \/ retry.pending
                     \/ \E x \in turn.todo : <<x[2], DayAt(x)>> # <<call.index, call.day>>)
  BY DEF MarkRun
<1>2. turn' = TurnNow("retry", turn.todo)
  BY MoveFacts DEF MarkRun, Whole, TurnOK
<1>3. /\ turn'.phase = "retry" /\ turn'.todo = turn.todo
      /\ turn'.config = turn.config /\ turn'.wall = turn.wall
  BY <1>2, TurnNowFields
<1>4. /\ call # None /\ call.state = "mark" /\ call.index \in Indices
      /\ call.index = Now /\ device = <<turn.config.generation, Now>>
  BY <1>1, MarkDay DEF Sync, Applied
<1>5. Now' = Now /\ SameConfig' = SameConfig
  BY <1>1, <1>3 DEF Now, SameConfig
<1>6. /\ excused' \in BOOLEAN
      /\ ~excused' => ~excused /\ ~retry.pending /\ \A x \in turn.todo : x[2] = Now
  BY <1>1, <1>4 DEF Sync, Applied, Whole, RecordOK
<1>7. Applied' /\ AtRest'
  BY <1>1, <1>3, <1>5, <1>6 DEF Sync, Applied, AtRest
<1>8. Live' => Live
  BY <1>1, <1>5, <1>6 DEF Live
<1>9. Ordered'
  BY <1>1, <1>3, <1>6, <1>8 DEF Sync, Ordered
<1>10. Behind'
  <2>1. clock.wall # None /\ clock.wall = turn.wall
    BY <1>1 DEF Whole, TurnOK, RecordOK
  <2>2. ASSUME ~excused', NEW i \in Indices, lastRun'[i] # None
        PROVE  i \in DOMAIN config.points /\ At(config, i, lastRun'[i]) <= Abs(clock.wall)
    <3>1. CASE SameConfig /\ i = call.index
      <4>1. lastRun'[i] = call.day
        BY <1>1, <3>1 DEF Whole, RecordOK
      <4>2. config = turn.config /\ call.index \in DOMAIN turn.config.points
        BY <1>1, <1>4, <3>1 DEF Whole, TurnOK, CallOK
      <4>3. At(turn.config, call.index, call.day) <= Abs(turn.wall)
        BY <1>1, <1>4, <1>6, <2>2, <3>1 DEF Sync, Ordered, Live, Scheduled
      <4> QED
        BY <2>1, <3>1, <4>1, <4>2, <4>3
    <3>2. CASE ~(SameConfig /\ i = call.index)
      <4>1. lastRun'[i] = lastRun[i]
        BY <1>1, <3>2 DEF Whole, RecordOK
      <4> QED
        BY <1>6, <2>2, <4>1 DEF Sync, Behind
    <3> QED
      BY <3>1, <3>2
  <2> QED
    BY <1>1, <1>6, <2>1, <2>2 DEF Behind
<1>11. Sure' => Sure /\ AllNow /\ AllNow'
  BY <1>3, <1>5, <1>6, <1>8 DEF Sure, Live, AllNow
<1>12. LastIsNow' /\ NotBefore' /\ NowRetried' /\ NowCalled'
  BY <1>1, <1>3, <1>5, <1>6, <1>11
     DEF LastIsNow, NotBefore, NowRetried, NowCalled, AllNow, Sure, Live
<1>13. NowApplied'
  BY <1>1, <1>4, <1>5, <1>11 DEF NowApplied, Sure, Live, SameConfig
<1> QED
  BY <1>7, <1>9, <1>10, <1>12, <1>13 DEF Sync, InTurn

LEMMA SyncNoLatest ==
  ASSUME Whole, Sync, NoLatest
  PROVE  Sync'
<1>1. /\ turn.phase = "noLatest"
      /\ UNCHANGED <<config, lastRun, clock, retry, call, device, excused>>
      /\ ~SameConfig => UNCHANGED catchUp
  BY DEF NoLatest, history
<1>2. turn' = TurnNow("retry", turn.todo)
  BY MoveFacts DEF NoLatest, Whole, TurnOK
<1>3. /\ turn'.phase = "retry" /\ turn'.todo = turn.todo
      /\ turn'.config = turn.config /\ turn'.wall = turn.wall
  BY <1>2, TurnNowFields
<1>4. call = None /\ Now = 0
  BY <1>1 DEF Whole, CallOK, Sync, Applied
<1>5. Now' = Now /\ SameConfig' = SameConfig
  BY <1>1, <1>3 DEF Now, SameConfig
<1>6. ~Sure' /\ (Live' => Live)
  BY <1>1, <1>4, <1>5 DEF Sure, Live
<1>7. Applied' /\ Behind' /\ AtRest'
  BY <1>1, <1>3, <1>4, <1>5 DEF Sync, Applied, Behind, AtRest
<1>8. Ordered'
  BY <1>1, <1>3, <1>4, <1>6 DEF Sync, Ordered
<1> QED
  BY <1>6, <1>7, <1>8
     DEF Sync, InTurn, LastIsNow, NotBefore, NowApplied, NowRetried, NowCalled

----------------------------------------------------------------------------
(* The retry and the points *)

\* What was called is the point in force, unless this is still to come.
LEMMA CallNow ==
  ASSUME Whole, Sync, Sure, turn.phase \in {"retry", "points"}, call # None,
         \A x \in Left : x[2] = Now
  PROVE  /\ Left = {} => call.index = Now
         /\ call.index = Now \/ \E y \in Left : y[2] = Now /\ lastRun[Now] # DayAt(y)
<1>1. ASSUME Left = {} PROVE call.index = Now
  BY <1>1, LastDone, CallPoint DEF Sync, InTurn, NowCalled
<1>2. ASSUME Left # {}, ~AllNow
      PROVE  \E y \in Left : y[2] = Now /\ lastRun[Now] # DayAt(y)
  BY <1>2, LeftToCome
<1>3. ASSUME AllNow, turn.phase = "points" PROVE call.index = Now
  BY <1>3, CallPoint DEF AllNow
<1>4. ASSUME AllNow, turn.phase = "retry"
      PROVE  call.index = Now \/ \E y \in Left : y[2] = Now /\ lastRun[Now] # DayAt(y)
  BY <1>4, LeftOut DEF Sync, InTurn, NowCalled, ToCome
<1> QED
  BY <1>1, <1>2, <1>3, <1>4

\* A turn that is over left the configuration of the task, or it had the current one.
LEMMA OverIs ==
  ASSUME Whole, Sync, turn.phase \in {"retry", "points"}, turn' = To("points", Left),
         UNCHANGED <<config, clock, excused>>, turn'.phase = "idle",
         config.enabled, CatchUpOnClockReady, ~excused, Latest(config, clock.wall) # 0
  PROVE  /\ Left = {} /\ (~SameConfig => ~retry.pending /\ catchUp)
         /\ SameConfig => Sure /\ Latest(config, clock.wall) = Now
<1>1. Left = {}
  BY LeftFacts
<1>2. ~SameConfig => ~retry.pending /\ catchUp
  BY DEF Sync, Applied
<1>3. ASSUME SameConfig PROVE Sure /\ Latest(config, clock.wall) = Now
  <2>1. Live
    BY <1>3 DEF Live
  <2>2. Latest(config', clock'.wall) = Now
    BY <2>1, RestLatest
  <2> QED
    BY <2>1, <2>2 DEF Sure
<1> QED
  BY <1>1, <1>2, <1>3

LEMMA SyncStale ==
  ASSUME Whole, Sync, RecordStale, Scheduled
  PROVE  Sync'
<1>1. /\ turn.phase \in {"retry", "points"} /\ ~SameConfig /\ call' = None
      /\ UNCHANGED <<config, lastRun, catchUp, clock, retry, device, excused>>
  BY Ends, EndsMoves DEF Scheduled, RecordStale, record, history
<1>2. turn' = To("points", Left)
  BY <1>1 DEF RecordStale, AfterCall, Left
<1>3. Applied' /\ Ordered' /\ LastIsNow' /\ NowCalled'
  BY <1>1, <1>2, DropKeeps
<1>4. ~Sure'
  BY <1>1, <1>2, DropSure DEF Sure, Live
<1>5. Behind'
  BY <1>1 DEF Sync, Behind
<1>6. AtRest'
  BY <1>1, <1>2, OverIs DEF AtRest, Latest
<1> QED
  BY <1>3, <1>4, <1>5, <1>6 DEF Sync, InTurn, NotBefore, NowApplied, NowRetried

\* What both results of a scheduled callback have in common
LEMMA EndsLive ==
  ASSUME Whole, Sync, RecordOk \/ RecordFailed, Scheduled
  PROVE  /\ turn.phase \in {"retry", "points"} /\ SameConfig /\ call # None /\ call' = None
         /\ UNCHANGED <<config, catchUp, clock, device, excused>>
         /\ turn' = To("points", Left)
         /\ Applied' /\ Ordered' /\ LastIsNow' /\ NowCalled'
         /\ config = turn.config /\ clock.wall = turn.wall /\ clock.wall # None
         /\ call.index \in DOMAIN config.points /\ call.index \in Indices
         /\ ~excused => At(config, call.index, call.day) <= Abs(clock.wall)
         /\ call.index \in Nat /\ call.day \in Nat
         /\ call.state = "ok" => device = <<config.generation, call.index>>
<1>1. /\ turn.phase \in {"retry", "points"} /\ SameConfig /\ call # None /\ call' = None
      /\ UNCHANGED <<config, catchUp, clock, device, excused>>
      /\ config = turn.config /\ clock.wall = turn.wall /\ turn.wall \in Wall
      /\ call.index \in DOMAIN config.points /\ call.index \in Indices /\ call.day \in Nat
  BY Ends, EndsMoves DEF Scheduled, RecordOk, RecordFailed, history
<1>2. turn' = To("points", Left)
  BY <1>1, Ends DEF AfterCall, Left
<1>3. Applied' /\ Ordered' /\ LastIsNow' /\ NowCalled'
  BY <1>1, <1>2, DropKeeps
<1>4. ~excused => At(config, call.index, call.day) <= Abs(clock.wall)
  BY <1>1 DEF Sync, Ordered, Live
<1>5. call.state = "ok" => device = <<config.generation, call.index>>
  BY <1>1 DEF Sync, Applied
<1> QED
  BY <1>1, <1>2, <1>3, <1>4, <1>5, LocalTypes, IndexTypes

LEMMA SyncOk ==
  ASSUME Whole, Sync, RecordOk, Scheduled
  PROVE  Sync'
<1>1. /\ turn.phase \in {"retry", "points"} /\ SameConfig /\ call # None
      /\ UNCHANGED <<config, catchUp, clock, device, excused>>
      /\ turn' = To("points", Left)
      /\ Applied' /\ Ordered' /\ LastIsNow' /\ NowCalled'
      /\ clock.wall # None
      /\ call.index \in DOMAIN config.points /\ call.index \in Indices
      /\ ~excused => At(config, call.index, call.day) <= Abs(clock.wall)
      /\ call.state = "ok" => device = <<config.generation, call.index>>
  BY EndsLive
<1>2. /\ call.state = "ok" /\ lastRun' = [lastRun EXCEPT ![call.index] = call.day]
      /\ retry' = [retry EXCEPT !.pending = FALSE]
  BY DEF RecordOk, Returned
<1>3. /\ ~retry'.pending /\ lastRun'[call.index] = call.day
      /\ \A i \in Indices : i # call.index => lastRun'[i] = lastRun[i]
  BY <1>1, <1>2 DEF Whole, RecordOK
<1>4. Behind'
  <2>1. ASSUME ~excused, NEW i \in Indices, lastRun'[i] # None
        PROVE  i \in DOMAIN config.points /\ At(config, i, lastRun'[i]) <= Abs(clock.wall)
    <3>1. CASE i = call.index
      BY <1>1, <1>3, <2>1, <3>1
    <3>2. CASE i # call.index
      BY <1>3, <2>1, <3>2 DEF Sync, Behind
    <3> QED
      BY <3>1, <3>2
  <2> QED
    BY <1>1, <1>3, <2>1 DEF Behind
<1>5. ASSUME Sure'
      PROVE  /\ Sure /\ Left # {} /\ Now' = Now /\ turn'.todo = Left /\ Now \in Indices
             /\ AllNow' <=> \A x \in Left : x[2] = Now
             /\ AllNow => AllNow'
             /\ \A x \in Left : DayAt(x)' = DayAt(x) /\ x \in turn.todo
  <2>1. /\ Sure /\ Left # {} /\ Now' = Now /\ turn'.todo = Left
        /\ AllNow' <=> \A x \in Left : x[2] = Now
        /\ AllNow => AllNow'
    BY <1>1, <1>5, DropSure
  <2>2. Now \in Indices
    <3>1. Good(turn.config) /\ turn.wall \in Wall /\ Now # 0
      BY <2>1 DEF Sure, Live, Whole, TurnOK, TurnTypes
    <3> QED
      BY <3>1, LatestTypes, GoodFacts DEF Now
  <2> QED
    BY <1>1, <2>1, <2>2, LeftFacts
<1>6. NotBefore'
  <2> SUFFICES ASSUME Sure', NEW z \in Left, z[2] # Now, NEW y \in Left, y[2] = Now
               PROVE  lastRun'[Now] # DayAt(y)
    BY <1>5 DEF NotBefore
  <2>1. CASE call.index = Now
    BY <1>1, <1>3, <1>5, <2>1, NotAgain
  <2>2. CASE call.index # Now
    BY <1>3, <1>5, <2>2 DEF Sync, InTurn, NotBefore, AllNow
  <2> QED
    BY <2>1, <2>2
<1>7. NowApplied'
  <2> SUFFICES ASSUME Sure', AllNow'
               PROVE  device = <<config.generation, Now>> \/ ToCome'
    BY <1>1, <1>5 DEF NowApplied
  <2>1. CASE call.index = Now
    BY <1>1, <1>2, <2>1
  <2>2. CASE call.index # Now
    <3>1. \E y \in Left : y[2] = Now /\ lastRun[Now] # DayAt(y)
      BY <1>1, <1>5, <2>2, CallNow
    <3> QED
      BY <1>3, <1>5, <2>2, <3>1 DEF ToCome
  <2> QED
    BY <2>1, <2>2
<1>8. AtRest'
  <2> SUFFICES ASSUME turn'.phase = "idle", config.enabled, CatchUpOnClockReady, ~excused,
                      Latest(config, clock.wall) # 0
               PROVE  device = <<config.generation, Latest(config, clock.wall)>>
    BY <1>1, <1>3 DEF AtRest, Latest
  <2>1. Left = {} /\ Sure /\ Latest(config, clock.wall) = Now
    BY <1>1, OverIs
  <2>2. call.index = Now
    BY <1>1, <2>1, CallNow
  <2> QED
    BY <1>1, <1>2, <2>1, <2>2
<1> QED
  BY <1>1, <1>3, <1>4, <1>6, <1>7, <1>8 DEF Sync, InTurn, NowRetried

LEMMA SyncFailed ==
  ASSUME Whole, Sync, RecordFailed, Scheduled
  PROVE  Sync'
<1>1. /\ turn.phase \in {"retry", "points"} /\ SameConfig /\ call # None
      /\ UNCHANGED <<config, catchUp, clock, device, excused>>
      /\ turn' = To("points", Left)
      /\ Applied' /\ Ordered' /\ LastIsNow' /\ NowCalled'
      /\ clock.wall # None
      /\ ~excused => At(config, call.index, call.day) <= Abs(clock.wall)
  BY EndsLive
<1>2. /\ retry' = [pending |-> TRUE, generation |-> config.generation,
                   index |-> call.index, day |-> call.day]
      /\ lastRun' = lastRun
  BY DEF RecordFailed
<1>3. retry'.pending /\ retry'.index = call.index /\ retry'.day = call.day
  BY <1>2
<1>4. Behind'
  BY <1>1, <1>2, <1>3 DEF Sync, Behind
<1>5. ASSUME Sure'
      PROVE  /\ Sure /\ Left # {} /\ Now' = Now /\ turn'.todo = Left
             /\ AllNow' <=> \A x \in Left : x[2] = Now
             /\ AllNow => AllNow'
             /\ \A x \in Left : DayAt(x)' = DayAt(x) /\ x \in turn.todo
  BY <1>1, <1>5, DropSure, LeftFacts
<1>6. NotBefore'
  BY <1>2, <1>5 DEF Sync, InTurn, NotBefore
<1>7. NowRetried'
  <2> SUFFICES ASSUME Sure', AllNow' PROVE call.index = Now \/ ToCome'
    BY <1>3, <1>5 DEF NowRetried
  <2>1. call.index = Now \/ \E y \in Left : y[2] = Now /\ lastRun[Now] # DayAt(y)
    BY <1>1, <1>5, CallNow
  <2> QED
    BY <1>2, <1>5, <2>1 DEF ToCome
<1>8. AtRest'
  <2> SUFFICES ASSUME turn'.phase = "idle", config.enabled, CatchUpOnClockReady, ~excused,
                      Latest(config, clock.wall) # 0
               PROVE  call.index = Latest(config, clock.wall)
    BY <1>1, <1>3 DEF AtRest, Latest
  <2>1. Left = {} /\ Sure /\ Latest(config, clock.wall) = Now
    BY <1>1, OverIs
  <2> QED
    BY <1>1, <2>1, CallNow
<1> QED
  BY <1>1, <1>3, <1>4, <1>6, <1>7, <1>8 DEF Sync, InTurn, NowApplied

LEMMA SyncDue ==
  ASSUME Whole, Sync, turn.phase \in {"retry", "points"}, call' # None, call'.state = "due",
         UNCHANGED <<config, lastRun, catchUp, clock, retry, turn, device, excused>>,
         Live => At(turn.config, call'.index, call'.day) <= Abs(turn.wall),
         Live /\ turn.phase = "retry" =>
           \A x \in turn.todo :
             x[1] <= turn.wall => At(turn.config, call'.index, call'.day) < Abs(x[1]),
         Sure /\ AllNow /\ turn.phase = "retry" => call'.index = Now \/ ToCome
  PROVE  Sync'
<1>1. /\ Now' = Now /\ SameConfig' = SameConfig /\ \A x : DayAt(x)' = DayAt(x)
  BY DEF Now, SameConfig, DayAt
<1>2. Sure' = Sure /\ Live' = Live /\ AllNow' = AllNow /\ ToCome' = ToCome
  BY <1>1 DEF Sure, Live, AllNow, ToCome
<1>3. Applied' /\ Behind' /\ AtRest'
  BY <1>1 DEF Sync, Applied, Behind, AtRest
<1>4. Ordered'
  BY <1>2 DEF Sync, Ordered
<1>5. InTurn'
  BY <1>1, <1>2 DEF Sync, InTurn, LastIsNow, NotBefore, NowApplied, NowRetried, NowCalled
<1> QED
  BY <1>3, <1>4, <1>5 DEF Sync

LEMMA SyncRetry ==
  ASSUME Whole, Sync, RunPendingRetry
  PROVE  Sync'
<1>1. /\ turn.phase = "retry" /\ call = None
      /\ UNCHANGED <<config, lastRun, catchUp, clock, retry, device, excused>>
  BY DEF RunPendingRetry, record, history
<1>2. CASE RetryWanted
  <2>1. /\ call' = [index |-> retry.index, day |-> retry.day, state |-> "due"]
        /\ turn' = turn /\ retry.pending
    BY <1>2 DEF RunPendingRetry, RetryWanted
  <2>2. call'.index = retry.index /\ call'.day = retry.day /\ call'.state = "due"
    BY <2>1
  <2>3. call' # None
    <3>1. retry.index \in DOMAIN config.points /\ retry.day \in Nat /\ Good(config)
      BY <2>1 DEF Whole, RecordOK
    <3>2. retry.index \in Nat \ {0}
      BY <3>1, GoodFacts, PointTypes
    <3>3. call' \in Call
      BY <2>1, <3>1, <3>2 DEF Call
    <3> QED
      BY <3>3, Consts
  <2>4. Live => At(turn.config, retry.index, retry.day) <= Abs(turn.wall)
    <3>1. Live => config = turn.config /\ clock.wall = turn.wall /\ ~excused
      BY DEF Live, Whole, TurnOK
    <3> QED
      BY <2>1, <3>1 DEF Sync, Behind
  <2>5. Live =>
          \A x \in turn.todo :
            x[1] <= turn.wall => At(turn.config, retry.index, retry.day) < Abs(x[1])
    BY <1>1, <2>1 DEF Sync, Ordered
  <2>6. Sure /\ AllNow => retry.index = Now \/ ToCome
    BY <2>1 DEF Sync, InTurn, NowRetried
  <2> QED
    BY <1>1, <2>1, <2>2, <2>3, <2>4, <2>5, <2>6, SyncDue
<1>3. CASE ~RetryWanted
  <2>1. call' = None /\ turn' = To("points", Left) /\ Left = turn.todo
    BY <1>1, <1>3 DEF RunPendingRetry, Left
  <2>2. Applied' /\ Ordered' /\ LastIsNow' /\ NowCalled'
    BY <1>1, <2>1, DropKeeps
  <2>3. Behind'
    BY <1>1 DEF Sync, Behind
  <2>4. ASSUME Sure'
        PROVE  /\ Sure /\ Now' = Now /\ AllNow' = AllNow /\ turn'.todo = turn.todo
               /\ ToCome' = ToCome /\ \A x \in turn.todo : DayAt(x)' = DayAt(x)
    <3>1. /\ Sure /\ Now' = Now /\ turn'.todo = turn.todo
          /\ \A x \in turn.todo : DayAt(x)' = DayAt(x)
      BY <1>1, <2>1, <2>4, DropSure, LeftFacts
    <3> QED
      BY <1>1, <3>1 DEF AllNow, ToCome
  <2>5. NotBefore' /\ NowApplied' /\ NowRetried'
    BY <1>1, <2>4 DEF Sync, InTurn, NotBefore, NowApplied, NowRetried
  <2>6. AtRest'
    <3> SUFFICES ASSUME turn'.phase = "idle", config.enabled, CatchUpOnClockReady, ~excused,
                        Latest(config, clock.wall) # 0
                 PROVE  /\ retry.pending => retry.index = Latest(config, clock.wall)
                        /\ ~catchUp /\ ~retry.pending =>
                             device = <<config.generation, Latest(config, clock.wall)>>
      BY <1>1 DEF AtRest, Latest
    <3>1. Left = {} /\ (~SameConfig => ~retry.pending /\ catchUp)
          /\ (SameConfig => Sure /\ Latest(config, clock.wall) = Now)
      BY <1>1, <2>1, OverIs
    <3>2. SameConfig => AllNow /\ ~ToCome
      BY <1>1, <3>1, LastDone
    <3> QED
      BY <3>1, <3>2 DEF Sync, InTurn, NowApplied, NowRetried
  <2> QED
    BY <2>2, <2>3, <2>5, <2>6 DEF Sync, InTurn
<1> QED
  BY <1>2, <1>3

\* When the first point is dropped although it has not run, it is the one to be retried.
LEMMA DropFirst ==
  ASSUME Whole, Sync, Sure, AllNow, turn.phase = "points",
         ~Wanted(First(turn.todo)[2], DayAt(First(turn.todo))), ToCome
  PROVE  \/ \E y \in Left : y[2] = Now /\ lastRun[Now] # DayAt(y)
         \/ retry.pending /\ retry.index = Now
<1>1. PICK y \in turn.todo : y[2] = Now /\ lastRun[Now] # DayAt(y)
  BY DEF ToCome
<1>2. Left = turn.todo \ {First(turn.todo)}
  BY LeftOut
<1>3. CASE y = First(turn.todo)
  BY <1>1, <1>3 DEF Wanted, Sure, Live
<1> QED
  BY <1>1, <1>2, <1>3

LEMMA SyncScheduled ==
  ASSUME Whole, Sync, RunScheduledPoint
  PROVE  Sync'
<1> DEFINE f == First(turn.todo)
<1>1. /\ turn.phase = "points" /\ call = None
      /\ UNCHANGED <<config, lastRun, catchUp, clock, retry, device, excused>>
  BY DEF RunScheduledPoint, record, history
<1>2. f \in turn.todo
  BY <1>1, LeftOut
<1>3. CASE Wanted(f[2], DayAt(f))
  <2>1. /\ call' = [index |-> f[2], day |-> DayAt(f), state |-> "due"] /\ turn' = turn
    BY <1>3 DEF RunScheduledPoint
  <2>2. call'.index = f[2] /\ call'.day = DayAt(f) /\ call'.state = "due"
    BY <2>1
  <2>3. call' # None
    <3>1. f[2] \in Nat \ {0} /\ DayAt(f) \in Nat
      BY <1>1, <1>2, DayAtTypes, IndexTypes
    <3>2. call' \in Call
      BY <2>1, <3>1 DEF Call
    <3> QED
      BY <3>2, Consts
  <2>4. Live => At(turn.config, f[2], DayAt(f)) <= Abs(turn.wall)
    BY <1>1, <1>2, TodoAt, TodoBehind DEF Sync
  <2> QED
    BY <1>1, <2>1, <2>2, <2>3, <2>4, SyncDue
<1>4. CASE ~Wanted(f[2], DayAt(f))
  <2>1. call' = None /\ turn' = To("points", Left)
    BY <1>1, <1>4 DEF RunScheduledPoint, Left
  <2>2. Applied' /\ Ordered' /\ LastIsNow' /\ NowCalled'
    BY <1>1, <2>1, DropKeeps
  <2>3. Behind'
    BY <1>1 DEF Sync, Behind
  <2>4. ASSUME Sure'
        PROVE  /\ Sure /\ Left # {} /\ Now' = Now /\ turn'.todo = Left
               /\ AllNow' <=> \A x \in Left : x[2] = Now
               /\ AllNow => AllNow'
               /\ \A x \in Left : DayAt(x)' = DayAt(x) /\ x \in turn.todo
    BY <1>1, <2>1, <2>4, DropSure, LeftFacts
  <2>5. NotBefore'
    BY <1>1, <2>4 DEF Sync, InTurn, NotBefore
  <2>6. ASSUME Sure', AllNow', ~ToCome'
        PROVE  AllNow /\ (ToCome => retry.pending /\ retry.index = Now)
    <3>1. ~\E y \in Left : y[2] = Now /\ lastRun[Now] # DayAt(y)
      BY <1>1, <2>4, <2>6 DEF ToCome
    <3>2. AllNow
      BY <1>1, <2>4, <2>6, <3>1, LeftToCome
    <3> QED
      BY <1>1, <1>4, <2>4, <2>6, <3>1, <3>2, DropFirst
  <2>7. NowApplied' /\ NowRetried'
    BY <1>1, <2>4, <2>6 DEF Sync, InTurn, NowApplied, NowRetried
  <2>8. AtRest'
    <3> SUFFICES ASSUME turn'.phase = "idle", config.enabled, CatchUpOnClockReady, ~excused,
                        Latest(config, clock.wall) # 0
                 PROVE  /\ retry.pending => retry.index = Latest(config, clock.wall)
                        /\ ~catchUp /\ ~retry.pending =>
                             device = <<config.generation, Latest(config, clock.wall)>>
      BY <1>1 DEF AtRest, Latest
    <3>1. Left = {} /\ (~SameConfig => ~retry.pending /\ catchUp)
          /\ (SameConfig => Sure /\ Latest(config, clock.wall) = Now)
      BY <1>1, <2>1, OverIs
    <3>2. SameConfig => AllNow /\ (ToCome => retry.pending /\ retry.index = Now)
      BY <1>1, <1>4, <3>1, LastDone, DropFirst
    <3> QED
      BY <3>1, <3>2 DEF Sync, InTurn, NowApplied, NowRetried
  <2> QED
    BY <2>2, <2>3, <2>5, <2>7, <2>8 DEF Sync, InTurn
<1> QED
  BY <1>3, <1>4

LEMMA SyncNext ==
  ASSUME Whole, Whole', Sync, [Next]_vars
  PROVE  Sync'
<1>1. ASSUME Edit PROVE Sync'
  <2>1. ASSUME NEW g \in Generations, StageBegin(g) \/ CommitFails(g) PROVE Sync'
    BY <2>1, SyncStays DEF StageBegin, CommitFails, history
  <2>2. ASSUME NEW g \in Generations, NEW i \in Indices, StagePoint(g, i) PROVE Sync'
    BY <2>2, SyncStays DEF StagePoint, history
  <2> QED
    BY <1>1, <2>1, <2>2, SyncCommit DEF Edit
<1>2. ASSUME Turn PROVE Sync'
  <2>1. ASSUME RecordOk \/ RecordFailed \/ RecordStale PROVE Sync'
    BY <2>1, SyncCaughtUp, SyncOk, SyncFailed, SyncStale
  <2> QED
    BY <1>2, <2>1, SyncApply, SyncMark, SyncNoLatest, SyncRetry, SyncScheduled DEF Turn
<1>3. ASSUME NoClock PROVE Sync'
  <2>1. clock'.wall = clock.wall /\ ~clock'.valid
    BY <1>3 DEF NoClock, Whole, RecordOK
  <2> QED
    BY <1>3, <2>1, SyncStays DEF NoClock, history
<1>4. ASSUME UNCHANGED vars PROVE Sync'
  BY <1>4, SyncStays DEF vars, record, history
<1> QED
  BY <1>1, <1>2, <1>3, <1>4, SyncApply, SyncStart, SyncTickJump, SyncTick DEF Next

\* latest_point_index() and next_point_index() name the nearest points of the week on
\* every weekday and in every minute, and between two turns with nothing left to catch
\* up or to retry the point that was applied last is the latest one (schedule_task,
\* record_apply_result), as long as local time went on as minutes do.
THEOREM PointInForce == Spec => []InForce
<1>1. Init => Whole /\ Sync
  <2> SUFFICES ASSUME Init PROVE Sync
    BY WholeInit
  <2>1. /\ turn.phase = "idle" /\ call = None /\ clock.wall = None /\ lastRun = NeverRun
        /\ ~retry.pending /\ excused = FALSE
    BY FreshTypes, RestingTypes DEF Init
  <2>2. \A i \in Indices : lastRun[i] = None
    BY <2>1, FreshTypes
  <2>3. ~Live /\ ~Sure
    BY <2>1 DEF Live, Sure
  <2>4. Applied /\ Behind /\ AtRest
    BY <2>1, <2>2 DEF Applied, Behind, AtRest
  <2> QED
    BY <2>3, <2>4 DEF Sync, Ordered, InTurn, LastIsNow, NotBefore, NowApplied, NowRetried,
                      NowCalled
<1>2. Whole /\ Sync /\ [Next]_vars => Whole' /\ Sync'
  BY WholeNext, SyncNext
<1>3. Whole /\ Sync => InForce
  <2> SUFFICES ASSUME Whole, Sync PROVE InSync
    BY StatusIsExact DEF InForce
  <2>1. clock.valid => clock.wall # None
    BY DEF Whole, RecordOK
  <2> QED
    BY <2>1 DEF Sync, AtRest, InSync, Latest
<1> QED
  BY <1>1, <1>2, <1>3, PTL DEF Spec

=============================================================================
