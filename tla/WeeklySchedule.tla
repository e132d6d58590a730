--------------------------- MODULE WeeklySchedule ---------------------------
(***************************************************************************)
(* The weekly schedule of a node (keemash_weekly_schedule.c): callers edit  *)
(* it in transactions (begin, points, commit), it is kept in NVS, and one   *)
(* task calls the application back when a point is due.  The lock covers    *)
(* the edits and the task's looks at the record, not the callback: between  *)
(* any two steps of a turn of the task an edit may be committed.            *)
(*                                                                         *)
(* Wall time is counted in minutes.  Local gives the local day and minute   *)
(* of each, so that daylight saving (a minute that comes twice, or never)   *)
(* is part of the instance.  Whether two samples of the clock are           *)
(* continuous (clock_is_continuous) is an input, as long as wall time went  *)
(* forward by at most MaxStep; so is whether a retry deadline has passed.   *)
(* A deadline of 0 means none to the catch-up, but deadline_reached(now, 0) *)
(* is false in every second 24.8 days of uptime.                            *)
(* Callers give a new configuration a new generation and do not return to   *)
(* an earlier one: the code compares generations, never contents.           *)
(* External: NVS, which may fail before or after it stored the record.      *)
(***************************************************************************)
EXTENDS Integers, Sequences

CONSTANTS
  Generations, Configs,   \* the configurations callers stage, by generation
  Days, Minutes,          \* days of a week, minutes of a day
  Local, Horizon,         \* local time of each wall minute 0 .. Horizon
  MaxStep,                \* CLOCK_CONTINUITY_LIMIT_SEC in minutes
  CatchUpOnClockReady,    \* options->catch_up_on_clock_ready
  None,
  MaxEvents               \* bound: edits, clock jumps, failures and starts

VARIABLES
  config,     \* schedule->config
  stage,      \* schedule->stage
  nvs,        \* the record in NVS
  lastRun,    \* last_run_day
  catchUp,    \* catch_up_pending
  clock,      \* last_clock_valid and last_wall_epoch
  retry,      \* retry_pending with its generation, index and day
  deadline,   \* next_retry_ms: 0 or not, and whether it counts as reached now
  turn,       \* the task: its phase, the snapshot it took, what it has to do
  call,       \* the callback the task is about to make or has made
  device,     \* history: the point that was applied last with success
  ran, tried, \* history: scheduled points that succeeded, that were called
  since,      \* history: wall time at which the clock or the configuration changed
  excused,    \* history: see InSync
  acked,      \* history: the configuration the last commit that succeeded, or the last
              \* start that read NVS, was told of; None after a commit that failed
  events

record == <<config, stage, nvs, lastRun, catchUp, clock, retry, deadline>>
history == <<device, ran, tried, since, excused, acked>>
vars == <<record, turn, call, history, events>>

Wall == 0 .. Horizon
Indices == UNION {DOMAIN Configs[g].points : g \in Generations}

Point == [enabled: BOOLEAN, minute: Nat, days: SUBSET (0 .. Days - 1)]
Config == [generation: Nat \ {0}, enabled: BOOLEAN, persist: BOOLEAN, points: Seq(Point)]
Call == [index: Nat \ {0}, day: Nat, state: {"due", "ok", "failed", "mark"}]

ASSUME ScheduleAssumption ==
  /\ \A g \in Generations : Configs[g] \in Config /\ Configs[g].generation = g
  /\ {Days, Minutes, Horizon, MaxStep} \subseteq Nat \ {0}
  /\ Local \in [Wall -> Nat \X (0 .. Minutes - 1)]
  /\ CatchUpOnClockReady \in BOOLEAN
  /\ MaxEvents \in Nat
  /\ None \notin Nat \cup Config \cup Call

\* A clock that goes on does not go back to an earlier day, and within one turn of
\* the task a minute of the day does not come again on another day.
ASSUME ZoneAssumption ==
  \A v, w \in Wall : v <= w =>
    /\ Local[v][1] <= Local[w][1]
    /\ w - v < MaxStep /\ Local[v][2] = Local[w][2] => Local[v][1] = Local[w][1]

\* What load_config() starts from
Default == [generation |-> 1, enabled |-> FALSE, persist |-> FALSE, points |-> <<>>]
Known == {Configs[g] : g \in Generations} \cup {Default}
NoPoint == [enabled |-> FALSE, minute |-> 0, days |-> {}]
Stage0(active, g) == [active |-> active, generation |-> g, got |-> {},
                      points |-> [i \in Indices |-> NoPoint]]
NoStage == Stage0(FALSE, 0)
NoRetry == [pending |-> FALSE, generation |-> 0, index |-> 0, day |-> 0]
NoDeadline == [zero |-> TRUE, reached |-> TRUE]
Resting == [phase |-> "idle", config |-> Default, wall |-> 0, todo |-> {}]
NeverRun == [i \in Indices |-> None]

----------------------------------------------------------------------------
(* Points and local time *)

DayOf(w) == Local[w][1]
MinuteOf(w) == Local[w][2]
Weekday(w) == DayOf(w) % Days

\* point_applies_on()
AppliesOn(p, weekday) == p.enabled /\ weekday \in p.days

\* config_valid()
ConfigValid(c) ==
  \A i, j \in DOMAIN c.points :
    /\ c.points[i].days # {} /\ c.points[i].minute < Minutes
    /\ i # j /\ c.points[i].enabled /\ c.points[j].enabled
         /\ c.points[i].minute = c.points[j].minute
         => c.points[i].days \cap c.points[j].days = {}

\* The days and points latest_point_index() looks at: today up to now, and the days
\* before; and how long ago each was
Past(c, weekday, minute) ==
  {x \in (0 .. Days - 1) \X (DOMAIN c.points) :
     /\ AppliesOn(c.points[x[2]], (weekday - x[1] + Days) % Days)
     /\ x[1] = 0 => c.points[x[2]].minute <= minute}
Age(c, x, minute) == x[1] * Minutes + minute - c.points[x[2]].minute

\* latest_point_index(): the index with the least age, 0 if there is none
LatestIndex(c, weekday, minute) ==
  LET past == Past(c, weekday, minute)
  IN  IF past = {} THEN 0
      ELSE (CHOOSE x \in past : \A y \in past : Age(c, x, minute) <= Age(c, y, minute))[2]

\* The same for next_point_index(): a point of this minute is next a week from now.
Coming(c, weekday) ==
  {x \in (0 .. Days - 1) \X (DOMAIN c.points) :
     AppliesOn(c.points[x[2]], (weekday + x[1]) % Days)}
Distance(c, x, minute) ==
  LET d == x[1] * Minutes + c.points[x[2]].minute - minute
  IN  IF d <= 0 THEN d + Days * Minutes ELSE d

NextIndex(c, weekday, minute) ==
  LET coming == Coming(c, weekday)
  IN  IF coming = {} THEN 0
      ELSE (CHOOSE x \in coming :
              \A y \in coming : Distance(c, x, minute) <= Distance(c, y, minute))[2]

\* run_points_for_minute(): the points of wall minute w
PointsOf(c, w) ==
  {i \in DOMAIN c.points : /\ AppliesOn(c.points[i], Weekday(w))
                           /\ c.points[i].minute = MinuteOf(w)}

\* A turn of the task looks at the minutes it crossed and then at the current one:
\* look k is at minute k, and the look after w is at w once more.
LookAt(k, w) == IF k <= w THEN k ELSE w

\* Mutant: only the current minute.
Due_CurrentOnly(c, prev, w) == {x \in {w + 1} \X (DOMAIN c.points) : x[2] \in PointsOf(c, w)}

\* What the turn has to do: a look and a point of its minute
Due(c, prev, w) ==
  {x \in (prev + 1 .. w + 1) \X (DOMAIN c.points) : x[2] \in PointsOf(c, LookAt(x[1], w))}

\* In the order of the looks, and of the indices
First(todo) ==
  CHOOSE x \in todo : \A y \in todo : x[1] < y[1] \/ (x[1] = y[1] /\ x[2] <= y[2])

----------------------------------------------------------------------------
(* Edits.  expire_stage_locked() may find the stage too old in each of them. *)

StageNow == {stage, NoStage}

\* One of the events that are bounded
Event == events < MaxEvents /\ events' = events + 1

\* Mutant: begin keeps the points that were received.
StageBegin_Keeps(g) ==
  /\ Event
  /\ stage' = [stage EXCEPT !.active = TRUE, !.generation = g]
  /\ UNCHANGED <<config, nvs, lastRun, catchUp, clock, retry, deadline, turn, call,
                 history>>

StageBegin(g) ==
  /\ Event
  /\ stage' = Stage0(TRUE, g)
  /\ UNCHANGED <<config, nvs, lastRun, catchUp, clock, retry, deadline, turn, call,
                 history>>

StagePoint(g, i) ==
  /\ \E s \in StageNow :
       stage' = IF s.active /\ s.generation = g /\ i \in DOMAIN Configs[g].points
                THEN [s EXCEPT !.got = @ \cup {i}, !.points[i] = Configs[g].points[i]]
                ELSE s
  /\ UNCHANGED <<config, nvs, lastRun, catchUp, clock, retry, deadline, turn, call,
                 history, events>>

\* What the stage holds: the header that begin gave, and the points
Candidate ==
  LET c == Configs[stage.generation]
  IN  [c EXCEPT !.points = [i \in DOMAIN c.points |-> stage.points[i]]]

Committable(g) ==
  /\ stage.active /\ stage.generation = g
  /\ stage.got = DOMAIN Configs[g].points
  /\ ConfigValid(Candidate)

\* persist_config(): a configuration that is not to be kept erases the record
Persisted(c) == IF c.persist THEN c ELSE None

Installed(c) ==
  /\ config' = c
  /\ lastRun' = NeverRun
  /\ catchUp' = c.enabled
  /\ retry' = NoRetry
  /\ deadline' = NoDeadline
  /\ ran' = {}
  /\ tried' = IF c.generation = config.generation THEN tried ELSE {}
  /\ excused' = (excused /\ c.generation = config.generation)
  /\ since' = clock.wall

StageCommit(g) ==
  /\ Committable(g)
  /\ nvs' = Persisted(Candidate)
  /\ stage' = NoStage
  /\ Installed(Candidate) /\ acked' = Candidate
  /\ UNCHANGED <<clock, turn, call, device, events>>

\* NVS fails: the stage stays, and the caller may commit again.
CommitFails(g) ==
  /\ Committable(g) /\ Event
  /\ nvs' \in {nvs, Persisted(Candidate)}
  /\ acked' = None
  /\ UNCHANGED <<config, stage, lastRun, catchUp, clock, retry, deadline, turn, call,
                 device, ran, tried, since, excused>>

----------------------------------------------------------------------------
(* schedule_task(): a turn begins with a look at the clock, under the lock *)

LocalBefore(v, w) ==
  DayOf(v) < DayOf(w) \/ (DayOf(v) = DayOf(w) /\ MinuteOf(v) < MinuteOf(w))

\* Local time does not go on from minute v to minute w as minutes do.
Irregular(v, w) ==
  \E t \in v .. w - 1 :
    Local[t + 1] # IF MinuteOf(t) + 1 = Minutes THEN <<DayOf(t) + 1, 0>>
                   ELSE <<DayOf(t), MinuteOf(t) + 1>>

NoClock ==
  /\ turn.phase = "idle" /\ Event
  /\ stage' \in StageNow
  /\ clock' = [clock EXCEPT !.valid = FALSE]
  /\ UNCHANGED <<config, nvs, lastRun, catchUp, retry, deadline, turn, call, history>>

\* The rest of the turn, if there is one
Go(w, todo, catching) ==
  LET latest == LatestIndex(config, Weekday(w), MinuteOf(w))
  IN  /\ turn' = IF config.enabled
                 THEN [phase |-> IF ~catching THEN "retry"
                                ELSE IF latest = 0 THEN "noLatest" ELSE "catchUp",
                       config |-> config, wall |-> w, todo |-> todo]
                 ELSE turn
      /\ call' = IF config.enabled /\ catching /\ latest # 0
                 THEN [index |-> latest, day |-> DayOf(w), state |-> "due"] ELSE None

Catching(pending, limit) == pending /\ config.enabled /\ (limit.zero \/ limit.reached)

Tick(w, reached) ==
  /\ turn.phase = "idle"
  /\ clock.valid /\ w \in clock.wall .. clock.wall + MaxStep
  /\ stage' \in StageNow
  /\ clock' = [valid |-> TRUE, wall |-> w]
  /\ deadline' = [deadline EXCEPT !.reached = reached]
  /\ LET catching == Catching(catchUp, deadline')
     IN  /\ catchUp' = (catchUp /\ (catching => CatchUpOnClockReady))
         /\ Go(w, Due(config, clock.wall, w), catching /\ CatchUpOnClockReady)
  /\ excused' = (excused \/ Irregular(clock.wall, w))
  /\ UNCHANGED <<config, nvs, lastRun, retry, device, ran, tried, since, acked, events>>

\* The first valid clock, or one that is not continuous
\* Mutant: a clock that jumps is taken as it is.
TickJump_NoCatchUp(w) ==
  /\ turn.phase = "idle"
  /\ IF clock.valid THEN Event ELSE UNCHANGED events
  /\ stage' \in StageNow
  /\ clock' = [valid |-> TRUE, wall |-> w]
  /\ retry' = [retry EXCEPT !.pending = FALSE]
  /\ deadline' = NoDeadline
  /\ catchUp' = (catchUp /\ CatchUpOnClockReady)
  /\ Go(w, Due(config, w, w), catchUp')
  /\ since' = w
  /\ excused' = (excused \/ (clock.wall # None /\ LocalBefore(w, clock.wall)))
  /\ ran' = IF clock.wall # None /\ DayOf(w) = DayOf(clock.wall) THEN ran ELSE {}
  /\ UNCHANGED <<config, nvs, lastRun, device, tried, acked>>

TickJump(w) ==
  /\ turn.phase = "idle"
  /\ IF clock.valid THEN Event ELSE UNCHANGED events
  /\ stage' \in StageNow
  /\ clock' = [valid |-> TRUE, wall |-> w]
  /\ retry' = [retry EXCEPT !.pending = FALSE]
  /\ deadline' = NoDeadline
  /\ catchUp' = (config.enabled /\ CatchUpOnClockReady)
  /\ Go(w, Due(config, w, w), catchUp')
  /\ since' = w
  /\ excused' = (excused \/ (clock.wall # None /\ LocalBefore(w, clock.wall)))
  /\ ran' = IF clock.wall # None /\ DayOf(w) = DayOf(clock.wall) THEN ran ELSE {}
  /\ UNCHANGED <<config, nvs, lastRun, device, tried, acked>>

----------------------------------------------------------------------------
(* The turn goes on.  Each step is one hold of the lock, or the callback. *)

SameConfig == config.generation = turn.config.generation
Scheduled == turn.phase # "catchUp"

\* The day of an item of todo, and what is left when the first one is done
DayAt(x) == DayOf(LookAt(x[1], turn.wall))
Rest == turn.todo \ {First(turn.todo)}

To(phase, todo) ==
  IF phase = "points" /\ todo = {} THEN Resting
  ELSE [phase |-> phase, config |-> turn.config, wall |-> turn.wall, todo |-> todo]

\* What has become of the callback: it is due, or it returned
Returned(state) == call # None /\ call.state = state

\* apply_point(): the callback, without the lock
Apply(ok) ==
  /\ Returned("due")
  /\ IF ok THEN UNCHANGED events ELSE Event
  /\ call' = [call EXCEPT !.state = IF ok THEN "ok" ELSE "failed"]
  /\ device' = IF ok THEN <<turn.config.generation, call.index>> ELSE device
  /\ tried' = IF SameConfig THEN tried \cup {<<call.index, call.day>>} ELSE tried
  /\ ran' = IF ok /\ Scheduled /\ SameConfig
            THEN ran \cup {<<call.index, call.day>>} ELSE ran
  /\ UNCHANGED <<record, turn, since, excused, acked>>

\* The steps that follow a callback: marking a catch-up as today's run, or the next point
AfterCall ==
  CASE turn.phase = "catchUp" ->
         IF call.state = "ok" /\ turn.config.points[call.index].minute = MinuteOf(turn.wall)
         THEN [turn EXCEPT !.phase = "mark"] ELSE [turn EXCEPT !.phase = "retry"]
    [] turn.phase = "retry" -> To("points", turn.todo)
    [] turn.phase = "points" -> To("points", Rest)

CallAfter == IF turn'.phase = "mark" THEN [call EXCEPT !.state = "mark"] ELSE None

\* record_apply_result()
RecordOk ==
  /\ Returned("ok") /\ SameConfig
  /\ \E reached \in BOOLEAN : deadline' = [zero |-> TRUE, reached |-> reached]
  /\ IF Scheduled
     THEN /\ lastRun' = [lastRun EXCEPT ![call.index] = call.day]
          /\ retry' = [retry EXCEPT !.pending = FALSE]
          /\ UNCHANGED catchUp
     ELSE catchUp' = FALSE /\ UNCHANGED <<lastRun, retry>>
  /\ turn' = AfterCall
  /\ call' = CallAfter
  /\ UNCHANGED <<config, stage, nvs, clock, history, events>>

RecordFailed ==
  /\ Returned("failed") /\ SameConfig
  /\ deadline' = [zero |-> FALSE, reached |-> FALSE]
  /\ retry' = IF Scheduled
              THEN [pending |-> TRUE, generation |-> config.generation,
                    index |-> call.index, day |-> call.day]
              ELSE retry
  /\ turn' = AfterCall /\ call' = None
  /\ UNCHANGED <<config, stage, nvs, lastRun, catchUp, clock, history, events>>

\* The configuration has changed during the callback.
RecordStale ==
  /\ Returned("ok") \/ Returned("failed")
  /\ ~SameConfig
  /\ turn' = AfterCall
  /\ call' = CallAfter
  /\ UNCHANGED <<record, history, events>>

MarkRun ==
  /\ turn.phase = "mark"
  /\ lastRun' = IF SameConfig THEN [lastRun EXCEPT ![call.index] = call.day] ELSE lastRun
  /\ turn' = [turn EXCEPT !.phase = "retry"] /\ call' = None
  /\ excused' = (excused \/ retry.pending
                 \/ \E x \in turn.todo : <<x[2], DayAt(x)>> # <<call.index, call.day>>)
  /\ UNCHANGED <<config, stage, nvs, catchUp, clock, retry, deadline, device, ran, tried,
                 since, acked, events>>

\* Mutant: the catch-up stays pending when there is nothing to catch up with.
NoLatest_Keeps ==
  /\ turn.phase = "noLatest"
  /\ turn' = [turn EXCEPT !.phase = "retry"]
  /\ UNCHANGED <<record, call, history, events>>

NoLatest ==
  /\ turn.phase = "noLatest"
  /\ IF SameConfig
     THEN /\ catchUp' = FALSE
          /\ \E reached \in BOOLEAN : deadline' = [zero |-> TRUE, reached |-> reached]
     ELSE UNCHANGED <<catchUp, deadline>>
  /\ turn' = [turn EXCEPT !.phase = "retry"]
  /\ UNCHANGED <<config, stage, nvs, lastRun, clock, retry, call, history, events>>

\* run_pending_retry()
RetryWanted ==
  /\ retry.pending /\ retry.generation = turn.config.generation
  /\ deadline.reached

RunPendingRetry ==
  /\ turn.phase = "retry" /\ call = None
  /\ IF RetryWanted
     THEN /\ call' = [index |-> retry.index, day |-> retry.day, state |-> "due"]
          /\ UNCHANGED turn
     ELSE turn' = To("points", turn.todo) /\ UNCHANGED call
  /\ UNCHANGED <<record, history, events>>

\* run_scheduled_point()
\* Mutant: only a retry that waits holds the point back.
Wanted_Again(i, day) ==
  ~(/\ retry.pending /\ retry.generation = turn.config.generation
    /\ retry.index = i /\ retry.day = day /\ ~deadline.reached)

Wanted(i, day) ==
  /\ SameConfig /\ lastRun[i] # day
  /\ ~(/\ retry.pending /\ retry.generation = turn.config.generation
       /\ retry.index = i /\ retry.day = day /\ ~deadline.reached)

RunScheduledPoint ==
  /\ turn.phase = "points" /\ call = None
  /\ LET i == First(turn.todo)[2]
         day == DayAt(First(turn.todo))
     IN  IF Wanted(i, day)
         THEN call' = [index |-> i, day |-> day, state |-> "due"] /\ UNCHANGED turn
         ELSE turn' = To("points", Rest) /\ UNCHANGED call
  /\ UNCHANGED <<record, history, events>>

----------------------------------------------------------------------------
\* keemash_weekly_schedule_start(), after a reset or keemash_weekly_schedule_stop():
\* load_config() takes a record it can read and finds valid.  If NVS cannot be opened or
\* read, or the record is rejected, the default is installed and the record stays.
Loaded == IF nvs = None THEN Default ELSE nvs

Unread == Installed(Default) /\ UNCHANGED <<nvs, acked>>

Start ==
  /\ Event
  /\ \/ Installed(Loaded) /\ acked' = Loaded /\ UNCHANGED nvs
     \/ Unread
  /\ stage' = NoStage
  /\ clock' = [valid |-> FALSE, wall |-> None]
  /\ turn' = Resting /\ call' = None /\ device' = None

Init ==
  /\ config = Default /\ stage = NoStage /\ nvs = None /\ lastRun = NeverRun
  /\ catchUp = FALSE /\ clock = [valid |-> FALSE, wall |-> None]
  /\ retry = NoRetry /\ deadline = NoDeadline
  /\ turn = Resting /\ call = None
  /\ device = None /\ ran = {} /\ tried = {} /\ since = None /\ excused = FALSE
  /\ acked = Default
  /\ events = 0

Edit ==
  \E g \in Generations :
    \/ g >= config.generation /\ StageBegin(g)
    \/ StageCommit(g) \/ CommitFails(g)
    \/ \E i \in Indices : StagePoint(g, i)

Turn ==
  \/ Apply(TRUE) \/ RecordOk \/ RecordFailed \/ RecordStale
  \/ MarkRun \/ NoLatest \/ RunPendingRetry \/ RunScheduledPoint

Next ==
  \/ Edit \/ Turn \/ Apply(FALSE) \/ Start \/ NoClock
  \/ \E w \in Wall : TickJump(w) \/ \E reached \in BOOLEAN : Tick(w, reached)

\* The task runs, a deadline passes after some of its turns, the clock is set.
Fairness ==
  /\ WF_vars(Turn)
  /\ SF_vars(\E w \in Wall : Tick(w, TRUE))
  /\ WF_vars(~clock.valid /\ \E w \in Wall : TickJump(w))

Spec == Init /\ [][Next]_vars /\ Fairness

----------------------------------------------------------------------------
(* Properties *)

\* Types: the fields of the record keep their ranges, and the index a callback or a
\* retry is about is one of the configuration it belongs to.
TypeOK ==
  /\ config \in Config /\ nvs \in Config \cup {None}
  /\ stage \in [active: BOOLEAN, generation: Generations \cup {0}, got: SUBSET Indices,
                points: [Indices -> Point]]
  /\ lastRun \in [Indices -> Nat \cup {None}] /\ catchUp \in BOOLEAN
  /\ clock \in [valid: BOOLEAN, wall: Wall \cup {None}]
  /\ clock.valid => clock.wall # None
  /\ retry.pending => retry.index \in DOMAIN config.points
  /\ deadline \in [zero: BOOLEAN, reached: BOOLEAN]
  /\ turn.phase \in {"idle", "catchUp", "mark", "noLatest", "retry", "points"}
  /\ call # None => call.index \in DOMAIN turn.config.points

\* An edit takes effect as a whole or not at all (stage_begin, stage_point,
\* stage_commit): what is installed is a configuration some caller staged, with
\* all its points, however the stages of several generations overlap or expire.
Transactional == config \in Known /\ ConfigValid(config)

\* What is in NVS is what the last commit said: after it succeeded the record is the
\* committed configuration, or none if it was not to be kept (persist_config), also
\* after starts that could not read it, so that the next one that can finds it.
Durable == acked # None => nvs = IF acked.persist THEN acked ELSE None

\* An edit takes effect as a whole or not at all, in memory and in NVS.
EditsWhole == TypeOK /\ Transactional /\ Durable

\* A scheduled point does not succeed twice on one local day (last_run_day), neither
\* when the minute comes twice, nor when the clock is set back within the day, nor
\* when a retry and the minute coincide.
OncePerDay ==
  Returned("due") /\ Scheduled /\ SameConfig => <<call.index, call.day>> \notin ran

\* No point is skipped: after a turn every point whose minute was crossed since the
\* clock was set and the configuration installed has been called on its day, also when
\* the task came late (schedule_task).
NothingSkipped ==
  turn.phase = "idle" /\ config.enabled /\ clock.valid /\ since # None =>
    \A t \in since + 1 .. clock.wall : \A i \in PointsOf(config, t) : <<i, DayOf(t)>> \in tried

\* When nothing is left to catch up or to retry, the point applied last is the one
\* that should be in force (schedule_task, record_apply_result).  Excused: since the
\* configuration was installed local time went back or left minutes out, or a
\* catch-up was marked as the current minute's run while older points were still to do.
InSync ==
  /\ turn.phase = "idle" /\ config.enabled /\ clock.valid /\ CatchUpOnClockReady
  /\ ~catchUp /\ ~retry.pending /\ ~excused
  => LET latest == LatestIndex(config, Weekday(clock.wall), MinuteOf(clock.wall))
     IN  latest # 0 => device = <<config.generation, latest>>

\* The point of the last, and of the coming, seven days that is nearest to now
Week == Days * Minutes
Occurs(c) ==
  {o \in (DOMAIN c.points) \X (0 .. Days - 1) : AppliesOn(c.points[o[1]], o[2])}
Ago(c, o, weekday, minute) ==
  ((weekday * Minutes + minute + Week) - (o[2] * Minutes + c.points[o[1]].minute)) % Week

\* get_status() names the points nearest in the past and in the future, on every
\* weekday and in every minute.  Only a point that occurs on no other day, and later
\* today, is not named as the latest although it was so a week ago.
StatusExact ==
  \A weekday \in 0 .. Days - 1, minute \in 0 .. Minutes - 1 :
    LET ago(o) == Ago(config, o, weekday, minute)
        ahead(o) == Week - ago(o)
        latest == LatestIndex(config, weekday, minute)
        next == NextIndex(config, weekday, minute)
        seen == {o \in Occurs(config) : o[2] = weekday => ago(o) <= minute}
    IN  /\ latest = 0 <=> seen = {}
        /\ \A o \in seen : \E l \in Occurs(config) : l[1] = latest /\ ago(l) <= ago(o)
        /\ next = 0 <=> Occurs(config) = {}
        /\ \A o \in Occurs(config) : \E n \in Occurs(config) :
             n[1] = next /\ ahead(n) <= ahead(o)

\* The point that should be in force is determined exactly, and is the one applied.
InForce == StatusExact /\ InSync

\* A failed callback is called again until it succeeds, is replaced by a later point
\* or its configuration is: in the end neither a catch-up nor a retry is pending.
Settles == <>[](clock.valid => ~catchUp /\ ~retry.pending)

=============================================================================
