----------------------------- MODULE AlertsJob -----------------------------
(***************************************************************************)
(* The Flink job that raises alerts (src/src/jobs/orderbook_alerts.py):    *)
(* detectors keyed by symbol read the metrics topic, and a limiter keyed   *)
(* by symbol and kind of alert lets one alert pass per cool-down.          *)
(*                                                                         *)
(* The metrics have no key in the topic (orderbook_metrics.py), so a       *)
(* symbol's metrics lie in all partitions, and every detector reads them   *)
(* in an order of its own.  The job state is one record, since Flink saves *)
(* and restores it as a whole.  Time is counted down on the timers, so no  *)
(* clock is needed.                                                        *)
(*                                                                         *)
(* An alert goes through the limiter in the step that raises it: alerts of *)
(* one key come from one detector in order, so an alert that waits between *)
(* the two is a metric that is read later.  For the same reason the        *)
(* barrier of a checkpoint passes where the detectors have read the same   *)
(* metrics.  The checkpoint completes later, and meanwhile the job goes    *)
(* on: it reads, sends, fails.                                             *)
(***************************************************************************)
EXTENDS Integers, Sequences

CONSTANTS
    Symbols,
    Kinds,           \* the kinds of alerts, each with its detector
    Partitions,
    Log,             \* the metrics of each partition
    Medium,          \* alert_threshold_medium, in units of imbalance
    VelocityLimit,   \* velocity_threshold, units per second
    Cooldown,        \* cooldown_ms, in ticks
    MaxRestarts,     \* bound: failures and redeployments
    None             \* value() of a state that was never updated

Metrics == [symbol : Symbols, at : Nat, imbalance : Int, valid : BOOLEAN]

AlertTypes == {"EXTREME_IMBALANCE", "IMBALANCE_FLIP", "SPREAD_WIDENING", "VELOCITY_SPIKE"}

ASSUME AlertsJobAssumption ==
    /\ Kinds \subseteq AlertTypes
    /\ Log \in [Partitions -> Seq(Metrics)]
    /\ Medium \in Nat /\ VelocityLimit \in Nat
    /\ Cooldown \in Nat \ {0}
    /\ MaxRestarts \in Nat
    /\ None \notin Int \cup {"SELL-BUY", "BUY-SELL"}

Keys  == Symbols \X Kinds
Ids   == Partitions \X (Nat \ {0})     \* a metric: its partition and offset

NoTimer == -1

VARIABLES
    job,        \* the state of the job's operators and sources
    pending,    \* the checkpoint whose barrier has passed, if there is one: the
                \* job's state and the alerts that were then unsent
    saved,      \* the last completed checkpoint, if there is one
    buffer,     \* the alerts the sink's producer has yet to send
    topic,      \* the alerts in the alerts topic: key and metric
    restarts,
    since,      \* history, never restored: the ticks since an alert of the key
                \* last passed the limiter, in whatever run of the job
    forgotten   \* history: the keys whose last alert the running job does not
                \* remember, since it was restored from before it

vars == <<job, pending, saved, buffer, topic, restarts, since, forgotten>>
history == <<since, forgotten>>

\* Fields of a job: start and pos are the sources' offsets; prev, velImbalance and
\* velTimestamp are the detectors' states; suppressed and timer are the
\* limiter's.  What the job has done, to state properties with: age, the ticks
\* since the key's last alert (Cooldown: as long ago as that), last, the metric
\* of that alert, emitted, the alerts that passed, answers, for every metric
\* that raised an alert the metric of the alert that stands for it, and turned,
\* the direction of the last flip since the imbalance was zero.
Fresh(offsets) ==
    [start |-> offsets,
     pos |-> [k \in Kinds |-> offsets],
     prev |-> [s \in Symbols |-> None],
     velImbalance |-> [s \in Symbols |-> None],
     velTimestamp |-> [s \in Symbols |-> None],
     suppressed |-> [k \in Keys |-> FALSE],
     timer |-> [k \in Keys |-> NoTimer],
     age |-> [k \in Keys |-> Cooldown],
     last |-> [k \in Keys |-> None],
     emitted |-> {},
     answers |-> {},
     turned |-> [s \in Symbols |-> None]]

Init ==
    /\ job = Fresh([p \in Partitions |-> 0])
    /\ pending = {} /\ saved = {}
    /\ buffer = {} /\ topic = {} /\ restarts = 0
    /\ since = [k \in Keys |-> Cooldown] /\ forgotten = {}

-----------------------------------------------------------------------------
(* The detectors.                                                          *)

Abs(n) == IF n < 0 THEN -n ELSE n

Extreme(m) == Abs(m.imbalance) >= Medium

Flips(j, m) ==
    LET before == j.prev[m.symbol] IN before # None /\ before * m.imbalance < 0

Spikes(j, m) ==
    LET imbalance == j.velImbalance[m.symbol]
        timestamp == j.velTimestamp[m.symbol]
    IN  /\ imbalance # None /\ timestamp # None
        /\ m.at > timestamp
        /\ Abs(m.imbalance - imbalance) > VelocityLimit * (m.at - timestamp)

\* Whether the detector raises an alert; the average that the spread is
\* compared with is the one of Windows, here any.
Raised(j, kind, m) ==
    CASE kind = "EXTREME_IMBALANCE" -> {Extreme(m)}
      [] kind = "IMBALANCE_FLIP"    -> {Flips(j, m)}
      [] kind = "VELOCITY_SPIKE"    -> {Spikes(j, m)}
      [] kind = "SPREAD_WIDENING"   -> BOOLEAN

\* Slip: an alert ends the call before the state is updated.
UnlessFlipped(j, m) == IF Flips(j, m) THEN j.prev[m.symbol] ELSE m.imbalance

PrevImbalance(j, m) == m.imbalance

Turned(j, m) ==
    CASE m.imbalance = 0 -> None
      [] Flips(j, m)     -> IF m.imbalance > 0 THEN "SELL-BUY" ELSE "BUY-SELL"
      [] OTHER           -> j.turned[m.symbol]

\* Slip: a late metric leaves the timestamp alone, but not the imbalance.
LatestTimestamp(j, m) ==
    LET before == j.velTimestamp[m.symbol] IN
    IF before # None /\ before > m.at THEN before ELSE m.at

PrevTimestamp(j, m) == m.at

Observed(j, kind, m) ==
    CASE kind = "IMBALANCE_FLIP" ->
           [j EXCEPT !.prev[m.symbol] = PrevImbalance(j, m),
                     !.turned[m.symbol] = Turned(j, m)]
      [] kind = "VELOCITY_SPIKE" ->
           [j EXCEPT !.velImbalance[m.symbol] = m.imbalance,
                     !.velTimestamp[m.symbol] = PrevTimestamp(j, m)]
      [] OTHER -> j

-----------------------------------------------------------------------------
(* The limiter, the sources and the sink.                                  *)

\* An alert that passes stands for itself, and for those suppressed after it.
Passed(j, key, id) ==
    [j EXCEPT !.suppressed[key] = TRUE, !.timer[key] = Cooldown, !.age[key] = 0,
              !.last[key] = id, !.emitted = @ \cup {<<key, id>>},
              !.answers = @ \cup {<<key, id, id>>}]

Dropped(j, key, id) == [j EXCEPT !.answers = @ \cup {<<key, id, j.last[key]>>}]

Limited(j, key, id) ==
    IF j.suppressed[key] THEN Dropped(j, key, id) ELSE Passed(j, key, id)

\* A detector takes the next metric of a partition; parse_metrics has filtered
\* those that do not validate before any detector.
Read(kind, p) ==
    \E i \in (job.pos[kind][p] + 1) .. Len(Log[p]) :
        LET m == Log[p][i]
            moved == [job EXCEPT !.pos[kind][p] = i]
            observed == Observed(moved, kind, m)
        IN
        /\ m.valid /\ \A n \in (job.pos[kind][p] + 1) .. (i - 1) : ~Log[p][n].valid
        /\ \E raised \in Raised(job, kind, m) :
              job' = IF raised THEN Limited(observed, <<m.symbol, kind>>, <<p, i>>)
                               ELSE observed
        /\ LET new == job'.emitted \ job.emitted IN
           /\ buffer' = buffer \cup new
           /\ since' = [k \in Keys |-> IF \E a \in new : a[1] = k THEN 0 ELSE since[k]]
           /\ forgotten' = forgotten \ {a[1] : a \in new}
        /\ UNCHANGED <<pending, saved, topic, restarts>>

TimerFires(key) ==
    /\ job.timer[key] = 0
    /\ job' = [job EXCEPT !.suppressed[key] = FALSE, !.timer[key] = NoTimer]
    /\ UNCHANGED <<pending, saved, buffer, topic, restarts, history>>

Older(age) == [k \in Keys |-> IF age[k] < Cooldown THEN age[k] + 1 ELSE age[k]]

Later(j) ==
    [j EXCEPT !.timer = [k \in Keys |-> IF @[k] > 0 THEN @[k] - 1 ELSE @[k]],
              !.age = Older(@)]

\* Time passes for the timers of a checkpoint too: they are registered for a
\* moment, not for a delay.
Tick ==
    /\ \E k \in Keys : job.timer[k] > 0 \/ job.age[k] < Cooldown \/ since[k] < Cooldown
    /\ job' = Later(job)
    /\ pending' = {[c EXCEPT !.job = Later(@)] : c \in pending}
    /\ saved' = {Later(j) : j \in saved}
    /\ since' = Older(since)
    /\ UNCHANGED <<buffer, topic, restarts, forgotten>>

\* The sink's producer sends an alert it has buffered.
Send(alert) ==
    /\ alert \in buffer
    /\ buffer' = buffer \ {alert} /\ topic' = topic \cup {alert}
    /\ UNCHANGED <<job, pending, saved, restarts, history>>

\* A checkpoint begins: its barrier passes the operators, which save their
\* states.
Barrier ==
    /\ pending = {} /\ saved # {job}
    /\ \A k1, k2 \in Kinds : job.pos[k1] = job.pos[k2]
    /\ pending' = {[job |-> job, unsent |-> buffer]}
    /\ UNCHANGED <<job, saved, buffer, topic, restarts, history>>

NotAwaited(c) == TRUE                  \* slip: no delivery guarantee

\* An AT_LEAST_ONCE sink lets a checkpoint complete when the producer has sent
\* what came before the barrier.
Flushed(c) == c.unsent \cap buffer = {}

Complete ==
    /\ \E c \in pending : Flushed(c) /\ saved' = {c.job}
    /\ pending' = {}
    /\ UNCHANGED <<job, buffer, topic, restarts, history>>

\* Slips: the limiter keeps its flag in a field of its own; its timers are not
\* restored; the sources resume where the group is, not where the state is.
WithoutLimiter(j) ==
    [j EXCEPT !.suppressed = [k \in Keys |-> FALSE], !.timer = [k \in Keys |-> NoTimer]]
WithoutTimers(j) == [j EXCEPT !.timer = [k \in Keys |-> NoTimer]]
ResumesAhead(j) == [j EXCEPT !.pos = job.pos]

Restored(j) == j

\* The job fails, with what its producer has not sent, and Flink restarts it
\* from the last completed checkpoint.
Restart ==
    /\ restarts < MaxRestarts
    /\ \E j \in saved : job' = Restored(j)
    /\ forgotten' = forgotten \cup {a[1] : a \in job.emitted \ job'.emitted}
    /\ pending' = {} /\ buffer' = {}
    /\ restarts' = restarts + 1
    /\ UNCHANGED <<saved, topic, since>>

\* A job deployed anew has no checkpoint and starts at the end of the
\* partitions (latest()), at or past what it had read.
Ends ==
    {f \in [Partitions -> UNION {0 .. Len(Log[p]) : p \in Partitions}] :
        \A p \in Partitions :
            f[p] <= Len(Log[p]) /\ \A k \in Kinds : job.pos[k][p] <= f[p]}

Redeploy ==
    /\ restarts < MaxRestarts
    /\ \E offsets \in Ends : job' = Fresh(offsets)
    /\ restarts' = restarts + 1
    /\ pending' = {} /\ saved' = {} /\ buffer' = {}
    /\ forgotten' = Keys
    /\ UNCHANGED <<topic, since>>

Next ==
    \/ \E kind \in Kinds, p \in Partitions : Read(kind, p)
    \/ \E key \in Keys : TimerFires(key)
    \/ \E alert \in buffer : Send(alert)
    \/ Tick \/ Barrier \/ Complete \/ Restart \/ Redeploy

\* The operators run, time passes, the sink's producer sends.
Fairness ==
    /\ \A kind \in Kinds, p \in Partitions : WF_vars(Read(kind, p))
    /\ \A key \in Keys : WF_vars(TimerFires(key))
    /\ WF_vars(\E alert \in buffer : Send(alert))
    /\ WF_vars(Tick)

Spec == Init /\ [][Next]_vars /\ Fairness

-----------------------------------------------------------------------------
(* Properties.                                                             *)

\* The metrics a detector has read since the job was deployed.
Seen(j, kind, p) == (j.start[p] + 1) .. j.pos[kind][p]

Jobs ==
    [start : [Partitions -> Nat],
     pos : [Kinds -> [Partitions -> Nat]],
     prev : [Symbols -> Int \cup {None}],
     velImbalance : [Symbols -> Int \cup {None}],
     velTimestamp : [Symbols -> Nat \cup {None}],
     suppressed : [Keys -> BOOLEAN],
     timer : [Keys -> -1 .. Cooldown],
     age : [Keys -> 0 .. Cooldown],
     last : [Keys -> Ids \cup {None}],
     emitted : SUBSET (Keys \X Ids),
     answers : SUBSET (Keys \X Ids \X (Ids \cup {None})),
     turned : [Symbols -> {None, "SELL-BUY", "BUY-SELL"}]]

JobType(j) ==
    /\ j \in Jobs
    /\ \A k \in Kinds, p \in Partitions : j.start[p] <= j.pos[k][p] /\ j.pos[k][p] <= Len(Log[p])

\* The running job, and those it may come to be restored to.
JobStates == {job} \cup saved \cup {c.job : c \in pending}

TypeOK ==
    /\ \A j \in JobStates : JobType(j)
    /\ \A c \in pending : DOMAIN c = {"job", "unsent"} /\ c.unsent \subseteq Keys \X Ids
    /\ buffer \cup topic \subseteq Keys \X Ids
    /\ restarts \in 0 .. MaxRestarts
    /\ since \in [Keys -> 0 .. Cooldown] /\ forgotten \subseteq Keys

\* A key is suppressed exactly while a timer is registered that will end it,
\* a cool-down after the alert that began it; also in every checkpoint.
SuppressionBacked ==
    \A j \in JobStates : \A k \in Keys :
        IF j.suppressed[k]
          THEN j.timer[k] # NoTimer /\ j.timer[k] + j.age[k] = Cooldown
          ELSE j.timer[k] = NoTimer /\ j.age[k] = Cooldown

\* The two states of the velocity detector are those of one metric it has
\* read, across restarts: no speed is computed from the imbalance of one
\* metric and the time of another.
VelocityFromOneMetric ==
    \A j \in JobStates : \A s \in Symbols :
        j.velTimestamp[s] # None =>
            \E p \in Partitions : \E i \in Seen(j, "VELOCITY_SPIKE", p) :
                /\ Log[p][i].symbol = s
                /\ Log[p][i].at = j.velTimestamp[s]
                /\ Log[p][i].imbalance = j.velImbalance[s]

\* The state of the flip detector lies on the side the last flip went to, so
\* the flips of a symbol alternate until the imbalance is exactly zero.
FlipsAlternate ==
    \A j \in JobStates : \A s \in Symbols :
        /\ j.turned[s] # None => j.prev[s] # None
        /\ j.turned[s] = "SELL-BUY" => j.prev[s] > 0
        /\ j.turned[s] = "BUY-SELL" => j.prev[s] < 0

\* The state of every operator is sound, in the running job and in the
\* checkpoints it may be restored from.
IInv == TypeOK /\ SuppressionBacked /\ VelocityFromOneMetric /\ FlipsAlternate

ExtremeAt(p, i) == Log[p][i].valid /\ Extreme(Log[p][i])

\* The alert that stands for the metric, its own or the one it was suppressed
\* for, is among those given.
Answered(j, p, i, alerts) ==
    \E a \in j.answers :
        /\ a[1] = <<Log[p][i].symbol, "EXTREME_IMBALANCE">> /\ a[2] = <<p, i>>
        /\ <<a[1], a[3]>> \in alerts

\* No extreme imbalance the job has got past is lost, whatever a checkpoint
\* overlaps with and whenever the job fails: the alert that stands for it is in
\* the topic or still with the producer, and in the topic when it is a
\* completed checkpoint that got past it, as the job then never reads it again.
NoAlertLost ==
    \A kind \in Kinds \cap {"EXTREME_IMBALANCE"} : \A p \in Partitions :
        /\ \A i \in Seen(job, kind, p) :
              ExtremeAt(p, i) => Answered(job, p, i, topic \cup buffer)
        /\ \A j \in saved : \A i \in Seen(j, kind, p) :
              ExtremeAt(p, i) => Answered(j, p, i, topic)

\* Two alerts of one key pass the limiter at least a cool-down apart, whichever
\* runs of the job they pass in, unless a restart in between went back to
\* before the first of them or the job was deployed anew: then the limiter no
\* longer knows of the first.
CooldownKept ==
    [][\A alert \in job'.emitted \ job.emitted :
          since[alert[1]] = Cooldown \/ alert[1] \in forgotten]_vars

\* Every extreme imbalance past the job's start is reported: the alert that
\* stands for it reaches the topic, unless the job is deployed anew and starts
\* past it.
Awaited(p, i) == i > job.start[p] /\ ExtremeAt(p, i)

ExtremeReported ==
    \A p \in Partitions : \A i \in DOMAIN Log[p] :
        Awaited(p, i) ~> Answered(job, p, i, topic) \/ ~Awaited(p, i)
=============================================================================
