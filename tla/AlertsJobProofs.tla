-------------------------- MODULE AlertsJobProofs --------------------------
(***************************************************************************)
(* Proofs about AlertsJob, for every set of symbols, kinds of alerts and   *)
(* partitions, every log, threshold and cool-down, and any number of       *)
(* restarts: the state of every operator is sound in the running job and   *)
(* in the checkpoints it may be restored from, no extreme imbalance the    *)
(* job has got past is lost, and alerts of one key are a cool-down apart   *)
(* unless a restart made the job forget the first.                         *)
(***************************************************************************)
EXTENDS AlertsJob, TLAPS

USE AlertsJobAssumption

-----------------------------------------------------------------------------
(* The parts of IInv, of one job state.                                    *)

Backed(j) ==
    \A k \in Keys :
        IF j.suppressed[k]
          THEN j.timer[k] # NoTimer /\ j.timer[k] + j.age[k] = Cooldown
          ELSE j.timer[k] = NoTimer /\ j.age[k] = Cooldown

OneMetric(j) ==
    \A s \in Symbols :
        j.velTimestamp[s] # None =>
            \E p \in Partitions : \E i \in Seen(j, "VELOCITY_SPIKE", p) :
                /\ Log[p][i].symbol = s
                /\ Log[p][i].at = j.velTimestamp[s]
                /\ Log[p][i].imbalance = j.velImbalance[s]

\* Only the velocity detector has a velocity.
Detects(j) == \A s \in Symbols : j.velTimestamp[s] # None => "VELOCITY_SPIKE" \in Kinds

Alternates(j) ==
    \A s \in Symbols :
        /\ j.turned[s] # None => j.prev[s] # None
        /\ j.turned[s] = "SELL-BUY" => j.prev[s] > 0
        /\ j.turned[s] = "BUY-SELL" => j.prev[s] < 0

\* A suppressed key has an alert that stands for what it drops; every answer
\* is an alert that passed, and no alert is ahead of its detector.
Stands(j) ==
    /\ \A k \in Keys : j.suppressed[k] => <<k, j.last[k]>> \in j.emitted
    /\ \A a \in j.answers : <<a[1], a[3]>> \in j.emitted

Behind(j) == \A e \in j.emitted : e[2][2] <= j.pos[e[1][2]][e[2][1]]

Sound(j) ==
    /\ JobType(j) /\ Backed(j) /\ OneMetric(j) /\ Detects(j) /\ Alternates(j)
    /\ Stands(j) /\ Behind(j)

\* Every extreme imbalance the job has got past has an answer.
Answers(j, p, i) ==
    \E a \in j.answers :
        a[1] = <<Log[p][i].symbol, "EXTREME_IMBALANCE">> /\ a[2] = <<p, i>>

CaughtUp(j) ==
    \A kind \in Kinds \cap {"EXTREME_IMBALANCE"} : \A p \in Partitions :
        \A i \in Seen(j, kind, p) : ExtremeAt(p, i) => Answers(j, p, i)

\* Unless it is of before the key's last alert, a state knows how old that is.
Knows(c) ==
    \A k \in Keys \ forgotten :
        c.age[k] = since[k] \/ \E a \in job.emitted \ c.emitted : a[1] = k

\* A state the job may be restored to.
Good(j) == Sound(j) /\ CaughtUp(j) /\ j.emitted \subseteq job.emitted /\ Knows(j)

Strong ==
    /\ Good(job) /\ job.emitted \subseteq topic \cup buffer
    /\ \A j \in saved : Good(j) /\ j.emitted \subseteq topic
    /\ \A c \in pending :
          /\ c = [job |-> c.job, unsent |-> c.unsent]
          /\ Good(c.job) /\ c.job.emitted \subseteq topic \cup c.unsent
          /\ c.unsent \subseteq topic \cup buffer
    /\ \A j, k \in saved : j = k
    /\ buffer \cup topic \subseteq Keys \X Ids
    /\ restarts \in 0 .. MaxRestarts
    /\ since \in [Keys -> 0 .. Cooldown] /\ forgotten \subseteq Keys

LEMMA StrongIInv ==
  ASSUME Strong
  PROVE  IInv
<1>1. \A j \in JobStates : Sound(j)
  BY DEF Strong, Good, JobStates
<1>2. TypeOK
  <2>1. \A c \in pending : DOMAIN c = {"job", "unsent"} /\ c.unsent \subseteq Keys \X Ids
    <3> SUFFICES ASSUME NEW c \in pending
                 PROVE  DOMAIN c = {"job", "unsent"} /\ c.unsent \subseteq Keys \X Ids
      OBVIOUS
    <3>1. c = [job |-> c.job, unsent |-> c.unsent]
      BY DEF Strong
    <3>2. DOMAIN [job |-> c.job, unsent |-> c.unsent] = {"job", "unsent"}
      OBVIOUS
    <3>3. c.unsent \subseteq Keys \X Ids
      BY DEF Strong
    <3> QED BY <3>1, <3>2, <3>3
  <2> QED BY <1>1, <2>1 DEF Strong, Sound, TypeOK
<1>3. SuppressionBacked
  BY <1>1 DEF Sound, Backed, SuppressionBacked
<1>4. VelocityFromOneMetric
  BY <1>1 DEF Sound, OneMetric, VelocityFromOneMetric
<1>5. FlipsAlternate
  BY <1>1 DEF Sound, Alternates, FlipsAlternate
<1> QED BY <1>2, <1>3, <1>4, <1>5 DEF IInv

-----------------------------------------------------------------------------
(* What the operators do to a sound state.                                 *)

(* A job deployed anew at offsets within the log is sound.                 *)
LEMMA FreshSound ==
  ASSUME NEW offsets \in [Partitions -> Nat],
         \A p \in Partitions : offsets[p] <= Len(Log[p])
  PROVE  Sound(Fresh(offsets)) /\ CaughtUp(Fresh(offsets)) /\ Fresh(offsets).emitted = {}
<1>1. Fresh(offsets) \in Jobs
  BY DEF Fresh, Jobs, NoTimer
<1>2. JobType(Fresh(offsets))
  BY <1>1 DEF JobType, Fresh
<1>3. Backed(Fresh(offsets))
  BY DEF Backed, Fresh
<1>4. OneMetric(Fresh(offsets)) /\ Detects(Fresh(offsets)) /\ Alternates(Fresh(offsets))
  BY DEF OneMetric, Detects, Alternates, Fresh
<1>5. Stands(Fresh(offsets)) /\ Behind(Fresh(offsets))
  BY DEF Stands, Behind, Fresh
<1>6. CaughtUp(Fresh(offsets))
  <2>1. \A kind \in Kinds, p \in Partitions : Seen(Fresh(offsets), kind, p) = {}
    BY DEF Seen, Fresh
  <2> QED BY <2>1 DEF CaughtUp
<1> QED BY <1>2, <1>3, <1>4, <1>5, <1>6 DEF Sound, Fresh

(* As time passes a timer falls by what the age of its alert grows.        *)
LEMMA LaterSound ==
  ASSUME NEW j, Sound(j)
  PROVE  /\ Sound(Later(j)) /\ Later(j).emitted = j.emitted
         /\ Later(j).age = Older(j.age)
         /\ CaughtUp(j) => CaughtUp(Later(j))
<1> DEFINE T == [k \in Keys |-> IF j.timer[k] > 0 THEN j.timer[k] - 1 ELSE j.timer[k]]
           A == [k \in Keys |-> IF j.age[k] < Cooldown THEN j.age[k] + 1 ELSE j.age[k]]
<1>1. j \in Jobs
  BY DEF Sound, JobType
<1>2. Later(j) = [j EXCEPT !.timer = T, !.age = A]
  BY DEF Later, Older
<1>3. T \in [Keys -> -1 .. Cooldown] /\ A \in [Keys -> 0 .. Cooldown]
  BY <1>1 DEF Jobs
<1>4. Later(j) \in Jobs /\ Later(j).timer = T /\ Later(j).age = A
  <2> HIDE DEF T, A
  <2> QED BY <1>1, <1>2, <1>3 DEF Jobs
<1>5. /\ Later(j).start = j.start /\ Later(j).pos = j.pos /\ Later(j).prev = j.prev
      /\ Later(j).velImbalance = j.velImbalance /\ Later(j).velTimestamp = j.velTimestamp
      /\ Later(j).suppressed = j.suppressed /\ Later(j).emitted = j.emitted
      /\ Later(j).turned = j.turned /\ Later(j).last = j.last /\ Later(j).answers = j.answers
  <2> HIDE DEF T, A
  <2> QED BY <1>1, <1>2 DEF Jobs
<1>6. JobType(Later(j))
  BY <1>4, <1>5 DEF Sound, JobType
<1>7. Backed(Later(j))
  <2> SUFFICES ASSUME NEW k \in Keys
               PROVE  IF j.suppressed[k]
                        THEN T[k] # NoTimer /\ T[k] + A[k] = Cooldown
                        ELSE T[k] = NoTimer /\ A[k] = Cooldown
    BY <1>4, <1>5 DEF Backed
  <2>1. j.timer[k] \in -1 .. Cooldown /\ j.age[k] \in 0 .. Cooldown
    BY <1>1 DEF Jobs
  <2>2. IF j.suppressed[k]
          THEN j.timer[k] # NoTimer /\ j.timer[k] + j.age[k] = Cooldown
          ELSE j.timer[k] = NoTimer /\ j.age[k] = Cooldown
    BY DEF Sound, Backed
  <2> QED BY <2>1, <2>2 DEF NoTimer
<1>8. OneMetric(Later(j)) /\ Detects(Later(j)) /\ Alternates(Later(j))
  BY <1>5 DEF Sound, OneMetric, Detects, Alternates, Seen
<1>9. Stands(Later(j)) /\ Behind(Later(j))
  BY <1>5 DEF Sound, Stands, Behind
<1>10. CaughtUp(j) => CaughtUp(Later(j))
  BY <1>5 DEF CaughtUp, Answers, Seen
<1> QED BY <1>4, <1>5, <1>6, <1>7, <1>8, <1>9, <1>10 DEF Sound, Older

(* A timer that fires at zero ends a whole cool-down.                      *)
LEMMA TimerSound ==
  ASSUME NEW j, Sound(j), NEW key \in Keys, j.timer[key] = 0
  PROVE  LET fired == [j EXCEPT !.suppressed[key] = FALSE, !.timer[key] = NoTimer]
         IN  /\ Sound(fired) /\ fired.emitted = j.emitted /\ fired.age = j.age
             /\ CaughtUp(j) => CaughtUp(fired)
<1> DEFINE fired == [j EXCEPT !.suppressed[key] = FALSE, !.timer[key] = NoTimer]
<1>1. j \in Jobs
  BY DEF Sound, JobType
<1>2. fired \in Jobs
  <2>1. /\ [j.suppressed EXCEPT ![key] = FALSE] \in [Keys -> BOOLEAN]
        /\ [j.timer EXCEPT ![key] = NoTimer] \in [Keys -> -1 .. Cooldown]
    BY <1>1 DEF Jobs, NoTimer
  <2>2. fired = [j EXCEPT !.suppressed = [j.suppressed EXCEPT ![key] = FALSE],
                          !.timer = [j.timer EXCEPT ![key] = NoTimer]]
    OBVIOUS
  <2> HIDE DEF fired
  <2> QED BY <1>1, <2>1, <2>2 DEF Jobs
<1>3. /\ fired.start = j.start /\ fired.pos = j.pos /\ fired.prev = j.prev
      /\ fired.velImbalance = j.velImbalance /\ fired.velTimestamp = j.velTimestamp
      /\ fired.age = j.age /\ fired.emitted = j.emitted /\ fired.turned = j.turned
      /\ fired.last = j.last /\ fired.answers = j.answers
      /\ fired.suppressed = [j.suppressed EXCEPT ![key] = FALSE]
      /\ fired.timer = [j.timer EXCEPT ![key] = NoTimer]
  BY <1>1 DEF Jobs
<1> HIDE DEF fired
<1>4. JobType(fired)
  BY <1>2, <1>3 DEF Sound, JobType
<1>5. Backed(fired)
  <2>1. j.age[key] = Cooldown
    BY <1>1 DEF Sound, Backed, NoTimer, Jobs
  <2>2. /\ fired.suppressed[key] = FALSE /\ fired.timer[key] = NoTimer
        /\ \A k \in Keys : k # key => /\ fired.suppressed[k] = j.suppressed[k]
                                      /\ fired.timer[k] = j.timer[k]
    BY <1>1, <1>3 DEF Jobs
  <2> QED BY <1>3, <2>1, <2>2 DEF Sound, Backed
<1>6. OneMetric(fired) /\ Detects(fired) /\ Alternates(fired)
  BY <1>3 DEF Sound, OneMetric, Detects, Alternates, Seen
<1>7. Stands(fired) /\ Behind(fired)
  <2>1. \A k \in Keys : fired.suppressed[k] => j.suppressed[k]
    BY <1>1, <1>3 DEF Jobs
  <2> QED BY <1>3, <2>1 DEF Sound, Stands, Behind
<1>8. CaughtUp(j) => CaughtUp(fired)
  <2>1. \A kind, p : Seen(fired, kind, p) = Seen(j, kind, p)
    BY <1>3 DEF Seen
  <2>2. \A p, i : Answers(fired, p, i) = Answers(j, p, i)
    BY <1>3 DEF Answers
  <2> QED BY <2>1, <2>2 DEF CaughtUp
<1>9. /\ Sound(fired) /\ fired.emitted = j.emitted /\ fired.age = j.age
      /\ CaughtUp(j) => CaughtUp(fired)
  BY <1>3, <1>4, <1>5, <1>6, <1>7, <1>8 DEF Sound
<1> QED BY <1>9 DEF fired

\* The state after the limiter: an alert passed, or none, and there is an answer.
Limits(j, key, id, l) ==
    /\ Sound(l) /\ l.start = j.start /\ l.pos = j.pos
    /\ j.answers \subseteq l.answers
    /\ \E a \in l.answers : a[1] = key /\ a[2] = id
    /\ \/ l.emitted = j.emitted /\ l.age = j.age
       \/ /\ l.emitted = j.emitted \cup {<<key, id>>}
          /\ l.age = [j.age EXCEPT ![key] = 0] /\ j.age[key] = Cooldown

(* The limiter lets an alert pass only a cool-down after the last, or drops *)
(* it for the last; in either case the alert has an answer.                *)
LEMMA LimitedSound ==
  ASSUME NEW j, Sound(j), NEW key \in Keys, NEW id \in Ids,
         id[2] <= j.pos[key[2]][id[1]]
  PROVE  Limits(j, key, id, Limited(j, key, id))
<1> DEFINE l == Limited(j, key, id)
<1>1. j \in Jobs
  BY DEF Sound, JobType
<1>2. CASE j.suppressed[key]
  <2> DEFINE b == <<key, id, j.last[key]>>
  <2>1. l = [j EXCEPT !.answers = @ \cup {b}]
    BY <1>2 DEF Limited, Dropped
  <2>2. b \in Keys \X Ids \X (Ids \cup {None})
    BY <1>1 DEF Jobs
  <2>3. b[1] = key /\ b[2] = id /\ b[3] = j.last[key]
    OBVIOUS
  <2> HIDE DEF l, b
  <2>4. /\ l.start = j.start /\ l.pos = j.pos /\ l.prev = j.prev
        /\ l.velImbalance = j.velImbalance /\ l.velTimestamp = j.velTimestamp
        /\ l.turned = j.turned /\ l.suppressed = j.suppressed /\ l.timer = j.timer
        /\ l.age = j.age /\ l.last = j.last /\ l.emitted = j.emitted
        /\ l.answers = j.answers \cup {b}
    BY <1>1, <2>1 DEF Jobs
  <2>5. l \in Jobs
    <3>1. j.answers \cup {b} \in SUBSET (Keys \X Ids \X (Ids \cup {None}))
      BY <1>1, <2>2 DEF Jobs
    <3>2. l = [j EXCEPT !.answers = j.answers \cup {b}]
      BY <2>1
    <3> QED BY <1>1, <3>1, <3>2 DEF Jobs
  <2>6. JobType(l)
    BY <2>4, <2>5 DEF Sound, JobType
  <2>7. Backed(l) /\ OneMetric(l) /\ Detects(l) /\ Behind(l)
    BY <2>4 DEF Sound, Backed, OneMetric, Detects, Behind, Seen
  <2>8. Alternates(l)
    BY <2>4, Zenon DEF Sound, Alternates
  <2>9. Stands(l)
    <3>1. <<b[1], b[3]>> \in j.emitted
      BY <1>2, <2>3 DEF Sound, Stands
    <3> QED BY <2>4, <3>1 DEF Sound, Stands
  <2>10. Sound(l)
    BY <2>6, <2>7, <2>8, <2>9 DEF Sound
  <2>11. \E a \in l.answers : a[1] = key /\ a[2] = id
    BY <2>3, <2>4
  <2>12. j.answers \subseteq l.answers
    BY <2>4
  <2> QED BY <2>4, <2>10, <2>11, <2>12 DEF l, Limits
<1>3. CASE ~j.suppressed[key]
  <2> DEFINE b == <<key, id, id>>
             e == <<key, id>>
  <2>1. l = [j EXCEPT !.suppressed = [j.suppressed EXCEPT ![key] = TRUE],
                      !.timer = [j.timer EXCEPT ![key] = Cooldown],
                      !.age = [j.age EXCEPT ![key] = 0],
                      !.last = [j.last EXCEPT ![key] = id],
                      !.emitted = j.emitted \cup {e},
                      !.answers = j.answers \cup {b}]
    BY <1>3 DEF Limited, Passed
  <2>2. b \in Keys \X Ids \X (Ids \cup {None}) /\ e \in Keys \X Ids
    OBVIOUS
  <2>3. /\ b[1] = key /\ b[2] = id /\ <<b[1], b[3]>> = e
        /\ e[1] = key /\ e[2] = id
    OBVIOUS
  <2>4. e = <<key, id>>
    OBVIOUS
  <2> HIDE DEF l, b, e
  <2>5. /\ l.start = j.start /\ l.pos = j.pos /\ l.prev = j.prev
        /\ l.velImbalance = j.velImbalance /\ l.velTimestamp = j.velTimestamp
        /\ l.turned = j.turned
        /\ l.suppressed = [j.suppressed EXCEPT ![key] = TRUE]
        /\ l.timer = [j.timer EXCEPT ![key] = Cooldown]
        /\ l.age = [j.age EXCEPT ![key] = 0]
        /\ l.last = [j.last EXCEPT ![key] = id]
        /\ l.emitted = j.emitted \cup {e}
        /\ l.answers = j.answers \cup {b}
    BY <1>1, <2>1 DEF Jobs
  <2>6. l \in Jobs
    <3>1. /\ [j.suppressed EXCEPT ![key] = TRUE] \in [Keys -> BOOLEAN]
          /\ [j.timer EXCEPT ![key] = Cooldown] \in [Keys -> -1 .. Cooldown]
          /\ [j.age EXCEPT ![key] = 0] \in [Keys -> 0 .. Cooldown]
          /\ [j.last EXCEPT ![key] = id] \in [Keys -> Ids \cup {None}]
          /\ j.emitted \cup {e} \in SUBSET (Keys \X Ids)
          /\ j.answers \cup {b} \in SUBSET (Keys \X Ids \X (Ids \cup {None}))
      BY <1>1, <2>2 DEF Jobs
    <3> QED BY <1>1, <2>1, <3>1 DEF Jobs
  <2>7. JobType(l)
    BY <2>5, <2>6 DEF Sound, JobType
  <2>8. /\ l.suppressed[key] = TRUE /\ l.timer[key] = Cooldown /\ l.age[key] = 0
        /\ l.last[key] = id
        /\ \A k \in Keys : k # key => /\ l.suppressed[k] = j.suppressed[k]
                                      /\ l.timer[k] = j.timer[k]
                                      /\ l.age[k] = j.age[k]
                                      /\ l.last[k] = j.last[k]
    BY <1>1, <2>5 DEF Jobs
  <2>9. Backed(l)
    BY <2>8 DEF Sound, Backed, NoTimer
  <2>10. OneMetric(l) /\ Detects(l)
    BY <2>5 DEF Sound, OneMetric, Detects, Seen
  <2>11. Alternates(l)
    BY <2>5, Zenon DEF Sound, Alternates
  <2>12. Stands(l)
    <3>1. ASSUME NEW k \in Keys, l.suppressed[k]
          PROVE  <<k, l.last[k]>> \in l.emitted
      <4>1. CASE k = key
        BY <2>4, <2>5, <2>8, <4>1
      <4>2. CASE k # key
        BY <2>5, <2>8, <3>1, <4>2 DEF Sound, Stands
      <4> QED BY <4>1, <4>2
    <3>2. ASSUME NEW a \in l.answers
          PROVE  <<a[1], a[3]>> \in l.emitted
      <4>1. CASE a = b
        BY <2>3, <2>5, <4>1
      <4>2. CASE a \in j.answers
        BY <2>5, <4>2 DEF Sound, Stands
      <4> QED BY <2>5, <4>1, <4>2
    <3> QED BY <3>1, <3>2 DEF Stands
  <2>13. Behind(l)
    <3>1. e[2][2] <= l.pos[e[1][2]][e[2][1]]
      BY <2>3, <2>5
    <3> QED BY <2>5, <3>1 DEF Sound, Behind
  <2>14. Sound(l)
    BY <2>7, <2>9, <2>10, <2>11, <2>12, <2>13 DEF Sound
  <2>15. j.age[key] = Cooldown
    BY <1>3 DEF Sound, Backed
  <2>16. \E a \in l.answers : a[1] = key /\ a[2] = id
    BY <2>3, <2>5
  <2>17. j.answers \subseteq l.answers
    BY <2>5
  <2> QED BY <2>4, <2>5, <2>14, <2>15, <2>16, <2>17 DEF l, Limits
<1> QED BY <1>2, <1>3

(* The metric a detector reads next, and the state with its offset moved.  *)
LEMMA MovedSound ==
  ASSUME NEW j, Sound(j), NEW kind \in Kinds, NEW p \in Partitions,
         NEW i \in (j.pos[kind][p] + 1) .. Len(Log[p])
  PROVE  LET moved == [j EXCEPT !.pos[kind][p] = i]
         IN  /\ Sound(moved) /\ moved.emitted = j.emitted /\ moved.age = j.age
             /\ moved.start = j.start /\ moved.answers = j.answers
             /\ moved.pos = [j.pos EXCEPT ![kind][p] = i]
             /\ i \in Nat \ {0} /\ j.pos[kind][p] \in Nat
             /\ i \in Seen(moved, kind, p) /\ Log[p][i] \in Metrics
<1> DEFINE moved == [j EXCEPT !.pos[kind][p] = i]
<1>1. j \in Jobs
  BY DEF Sound, JobType
<1>2. i \in Nat \ {0} /\ j.start[p] < i /\ j.pos[kind][p] \in Nat /\ j.pos[kind][p] < i
  <2>1. j.pos[kind][p] \in Nat /\ j.start[p] \in Nat /\ j.start[p] <= j.pos[kind][p]
    BY <1>1 DEF Jobs, Sound, JobType
  <2>2. Len(Log[p]) \in Nat
    OBVIOUS
  <2> QED BY <2>1, <2>2
<1>3. Log[p][i] \in Metrics
  <2>1. Log[p] \in Seq(Metrics)
    OBVIOUS
  <2> QED BY <1>2, <2>1
<1>4. /\ moved.start = j.start /\ moved.prev = j.prev
      /\ moved.velImbalance = j.velImbalance /\ moved.velTimestamp = j.velTimestamp
      /\ moved.suppressed = j.suppressed /\ moved.timer = j.timer /\ moved.age = j.age
      /\ moved.emitted = j.emitted /\ moved.turned = j.turned
      /\ moved.last = j.last /\ moved.answers = j.answers
      /\ moved.pos = [j.pos EXCEPT ![kind][p] = i]
  <2> QED BY <1>1 DEF Jobs
<1>5. moved.pos \in [Kinds -> [Partitions -> Nat]]
  <2> HIDE DEF moved
  <2> QED BY <1>1, <1>2, <1>4 DEF Jobs
<1>6. moved \in Jobs
  <2>1. moved = [j EXCEPT !.pos = [j.pos EXCEPT ![kind][p] = i]]
    OBVIOUS
  <2>2. [j.pos EXCEPT ![kind][p] = i] \in [Kinds -> [Partitions -> Nat]]
    BY <1>4, <1>5
  <2> HIDE DEF moved
  <2> QED BY <1>1, <2>1, <2>2 DEF Jobs
<1>7. \A k \in Kinds, q \in Partitions :
         \/ moved.pos[k][q] = j.pos[k][q]
         \/ k = kind /\ q = p /\ moved.pos[k][q] = i /\ j.pos[k][q] < i
  <2>1. j.pos \in [Kinds -> [Partitions -> Nat]]
    BY <1>1 DEF Jobs
  <2>2. j.pos[kind][p] < i
    BY <1>2
  <2> HIDE DEF moved
  <2> QED BY <1>4, <2>1, <2>2
<1>8. i <= Len(Log[p])
  OBVIOUS
<1> HIDE DEF moved
<1>9. JobType(moved)
  <2> SUFFICES ASSUME NEW k \in Kinds, NEW q \in Partitions
               PROVE  j.start[q] <= moved.pos[k][q] /\ moved.pos[k][q] <= Len(Log[q])
    BY <1>4, <1>6 DEF JobType
  <2>1. j.start[q] <= j.pos[k][q] /\ j.pos[k][q] <= Len(Log[q])
    BY DEF Sound, JobType
  <2>2. CASE moved.pos[k][q] = j.pos[k][q]
    BY <2>1, <2>2
  <2>3. CASE k = kind /\ q = p /\ moved.pos[k][q] = i
    <3>1. j.start[q] \in Nat
      BY <1>1 DEF Jobs
    <3> QED BY <1>2, <1>8, <2>3, <3>1
  <2> QED BY <1>7, <2>2, <2>3
<1>10. Backed(moved)
  BY <1>4 DEF Sound, Backed
<1>11. Detects(moved)
  BY <1>4 DEF Sound, Detects
<1>12. Alternates(moved)
  BY <1>4, Zenon DEF Sound, Alternates
<1>13. OneMetric(moved)
  <2> SUFFICES ASSUME NEW s \in Symbols, j.velTimestamp[s] # None
               PROVE  \E q \in Partitions : \E n \in Seen(moved, "VELOCITY_SPIKE", q) :
                        /\ Log[q][n].symbol = s
                        /\ Log[q][n].at = j.velTimestamp[s]
                        /\ Log[q][n].imbalance = j.velImbalance[s]
    BY <1>4 DEF OneMetric
  <2>1. "VELOCITY_SPIKE" \in Kinds
    BY DEF Sound, Detects
  <2>2. PICK q \in Partitions : \E n \in Seen(j, "VELOCITY_SPIKE", q) :
                        /\ Log[q][n].symbol = s
                        /\ Log[q][n].at = j.velTimestamp[s]
                        /\ Log[q][n].imbalance = j.velImbalance[s]
    BY DEF Sound, OneMetric
  <2>3. moved.pos["VELOCITY_SPIKE"][q] >= j.pos["VELOCITY_SPIKE"][q]
    BY <1>1, <1>2, <1>7, <2>1 DEF Jobs
  <2>4. Seen(j, "VELOCITY_SPIKE", q) \subseteq Seen(moved, "VELOCITY_SPIKE", q)
    BY <1>1, <1>4, <1>6, <2>1, <2>3 DEF Seen, Jobs
  <2> QED BY <2>2, <2>4
<1>14. i \in Seen(moved, kind, p)
  <2>1. moved.pos[kind][p] = i
    BY <1>1, <1>2, <1>4 DEF Jobs
  <2> QED BY <1>1, <1>2, <1>4, <2>1 DEF Seen, Jobs
<1>15. Stands(moved)
  BY <1>4 DEF Sound, Stands
<1>16. Behind(moved)
  <2> SUFFICES ASSUME NEW e \in j.emitted
               PROVE  e[2][2] <= moved.pos[e[1][2]][e[2][1]]
    BY <1>4 DEF Behind
  <2>1. e[1][2] \in Kinds /\ e[2][1] \in Partitions /\ e[2][2] \in Nat
    BY <1>1 DEF Jobs, Keys, Ids
  <2>2. e[2][2] <= j.pos[e[1][2]][e[2][1]]
    BY DEF Sound, Behind
  <2>3. j.pos[e[1][2]][e[2][1]] \in Nat
    BY <1>1, <2>1 DEF Jobs
  <2>4. \A k \in Kinds, q \in Partitions : j.pos[k][q] <= moved.pos[k][q]
    <3>1. TAKE k \in Kinds, q \in Partitions
    <3>2. j.pos[k][q] \in Nat /\ i \in Nat
      BY <1>1, <1>2 DEF Jobs
    <3>3. CASE moved.pos[k][q] = j.pos[k][q]
      BY <3>2, <3>3
    <3>4. CASE moved.pos[k][q] = i /\ j.pos[k][q] < i
      BY <3>2, <3>4
    <3> QED BY <1>7, <3>3, <3>4
  <2>5. moved.pos[e[1][2]][e[2][1]] \in Nat
    BY <1>5, <2>1
  <2>6. j.pos[e[1][2]][e[2][1]] <= moved.pos[e[1][2]][e[2][1]]
    BY <2>1, <2>4
  <2> QED BY <2>1, <2>2, <2>3, <2>5, <2>6
<1>17. Sound(moved)
  BY <1>9, <1>10, <1>11, <1>12, <1>13, <1>15, <1>16 DEF Sound
<1>18. /\ Sound(moved) /\ moved.emitted = j.emitted /\ moved.age = j.age
       /\ moved.start = j.start /\ moved.answers = j.answers
       /\ moved.pos = [j.pos EXCEPT ![kind][p] = i]
       /\ i \in Nat \ {0} /\ j.pos[kind][p] \in Nat
       /\ i \in Seen(moved, kind, p) /\ Log[p][i] \in Metrics
  BY <1>2, <1>3, <1>4, <1>14, <1>17
<1> QED BY <1>18 DEF moved

(* The sign of a product.                                                  *)
LEMMA Signs ==
  ASSUME NEW a \in Int, NEW b \in Int
  PROVE  /\ a > 0 /\ b > 0 => ~(a * b < 0)
         /\ a < 0 /\ b < 0 => ~(a * b < 0)
         /\ a > 0 /\ b < 0 => a * b < 0
         /\ a < 0 /\ b > 0 => a * b < 0
OBVIOUS

(* A detector that takes a metric it has read keeps its states sound.      *)
LEMMA ObservedSound ==
  ASSUME NEW j, Sound(j), NEW kind \in Kinds, NEW p \in Partitions,
         NEW i \in Seen(j, kind, p), Log[p][i] \in Metrics
  PROVE  LET o == Observed(j, kind, Log[p][i])
         IN  /\ Sound(o) /\ o.emitted = j.emitted /\ o.age = j.age
             /\ o.start = j.start /\ o.pos = j.pos /\ o.answers = j.answers
<1> DEFINE m == Log[p][i]
           o == Observed(j, kind, m)
<1>1. j \in Jobs
  BY DEF Sound, JobType
<1>2. m.symbol \in Symbols /\ m.at \in Nat /\ m.imbalance \in Int
  BY DEF Metrics
<1> HIDE DEF m
<1>3. CASE kind = "IMBALANCE_FLIP"
  <2> DEFINE t == Turned(j, m)
  <2>1. o = [j EXCEPT !.prev[m.symbol] = m.imbalance, !.turned[m.symbol] = t]
    BY <1>3 DEF Observed, PrevImbalance
  <2>2. t \in {None, "SELL-BUY", "BUY-SELL"}
    BY <1>1, <1>2 DEF Turned, Jobs
  <2>3. \/ m.imbalance = 0 /\ t = None
        \/ m.imbalance > 0 /\ Flips(j, m) /\ t = "SELL-BUY"
        \/ m.imbalance < 0 /\ Flips(j, m) /\ t = "BUY-SELL"
        \/ m.imbalance # 0 /\ ~Flips(j, m) /\ t = j.turned[m.symbol]
    <3>1. CASE m.imbalance = 0
      <4>1. j.prev[m.symbol] \in Int \cup {None}
        BY <1>1, <1>2 DEF Jobs
      <4>2. ~Flips(j, m)
        BY <3>1, <4>1 DEF Flips
      <4> QED BY <3>1, <4>2 DEF Turned
    <3>2. CASE m.imbalance > 0 /\ Flips(j, m)
      BY <1>2, <3>2 DEF Turned
    <3>3. CASE m.imbalance < 0 /\ Flips(j, m)
      BY <1>2, <3>3 DEF Turned
    <3>4. CASE m.imbalance # 0 /\ ~Flips(j, m)
      BY <3>4 DEF Turned
    <3> QED BY <1>2, <3>1, <3>2, <3>3, <3>4
  <2> HIDE DEF o, t
  <2>4. /\ o.start = j.start /\ o.pos = j.pos
        /\ o.velImbalance = j.velImbalance /\ o.velTimestamp = j.velTimestamp
        /\ o.suppressed = j.suppressed /\ o.timer = j.timer /\ o.age = j.age
        /\ o.emitted = j.emitted /\ o.last = j.last /\ o.answers = j.answers
        /\ o.prev = [j.prev EXCEPT ![m.symbol] = m.imbalance]
        /\ o.turned = [j.turned EXCEPT ![m.symbol] = t]
    BY <1>1, <2>1 DEF Jobs
  <2>5. o \in Jobs
    <3>1. /\ [j.prev EXCEPT ![m.symbol] = m.imbalance] \in [Symbols -> Int \cup {None}]
          /\ [j.turned EXCEPT ![m.symbol] = t] \in [Symbols -> {None, "SELL-BUY", "BUY-SELL"}]
      BY <1>1, <1>2, <2>2 DEF Jobs
    <3>2. o = [j EXCEPT !.prev = [j.prev EXCEPT ![m.symbol] = m.imbalance],
                        !.turned = [j.turned EXCEPT ![m.symbol] = t]]
      BY <2>1
    <3> QED BY <1>1, <3>1, <3>2 DEF Jobs
  <2>6. JobType(o)
    BY <2>4, <2>5 DEF Sound, JobType
  <2>7. Backed(o)
    BY <2>4 DEF Sound, Backed
  <2>8. OneMetric(o)
    BY <2>4 DEF Sound, OneMetric, Seen
  <2>9. Detects(o)
    BY <2>4 DEF Sound, Detects
  <2>10. Alternates(o)
    <3> SUFFICES ASSUME NEW s \in Symbols
                 PROVE  /\ o.turned[s] # None => o.prev[s] # None
                        /\ o.turned[s] = "SELL-BUY" => o.prev[s] > 0
                        /\ o.turned[s] = "BUY-SELL" => o.prev[s] < 0
      BY DEF Alternates
    <3>1. CASE s # m.symbol
      <4>1. o.turned[s] = j.turned[s] /\ o.prev[s] = j.prev[s]
        BY <1>1, <2>4, <3>1 DEF Jobs
      <4> QED BY <4>1 DEF Sound, Alternates
    <3>2. CASE s = m.symbol
      <4>1. o.turned[s] = t /\ o.prev[s] = m.imbalance
        BY <1>1, <1>2, <2>4, <3>2 DEF Jobs
      <4>2. m.imbalance # None
        BY <1>2
      <4>3. CASE m.imbalance = 0 /\ t = None
        BY <4>1, <4>3
      <4>4. CASE m.imbalance > 0 /\ Flips(j, m) /\ t = "SELL-BUY"
        BY <4>1, <4>2, <4>4
      <4>5. CASE m.imbalance < 0 /\ Flips(j, m) /\ t = "BUY-SELL"
        BY <4>1, <4>2, <4>5
      <4>6. CASE m.imbalance # 0 /\ ~Flips(j, m) /\ t = j.turned[m.symbol]
        <5> DEFINE before == j.prev[m.symbol]
        <5>1. before \in Int \cup {None}
          BY <1>1, <1>2 DEF Jobs
        <5>2. before = None \/ ~(before * m.imbalance < 0)
          BY <4>6 DEF Flips
        <5>3. /\ t # None => before # None
              /\ t = "SELL-BUY" => before > 0
              /\ t = "BUY-SELL" => before < 0
          BY <3>2, <4>6 DEF Sound, Alternates
        <5> HIDE DEF before
        <5>4. CASE before = None
          BY <4>1, <5>3, <5>4
        <5>5. CASE before \in Int /\ before # None
          <6>1. ~(before * m.imbalance < 0)
            BY <5>2, <5>5
          <6>2. /\ before > 0 /\ m.imbalance < 0 => before * m.imbalance < 0
                /\ before < 0 /\ m.imbalance > 0 => before * m.imbalance < 0
            BY <1>2, <5>5, Signs
          <6>3. before > 0 => m.imbalance > 0
            BY <1>2, <4>6, <6>1, <6>2
          <6>4. before < 0 => m.imbalance < 0
            BY <1>2, <4>6, <6>1, <6>2
          <6> QED BY <4>1, <4>2, <5>3, <6>3, <6>4
        <5> QED BY <5>1, <5>4, <5>5
      <4> QED BY <2>3, <4>3, <4>4, <4>5, <4>6
    <3> QED BY <3>1, <3>2
  <2>11. Stands(o) /\ Behind(o)
    BY <2>4 DEF Sound, Stands, Behind
  <2>12. Sound(o)
    BY <2>6, <2>7, <2>8, <2>9, <2>10, <2>11 DEF Sound
  <2> QED BY <2>4, <2>12 DEF o, m
<1>4. CASE kind = "VELOCITY_SPIKE"
  <2>1. o = [j EXCEPT !.velImbalance[m.symbol] = m.imbalance, !.velTimestamp[m.symbol] = m.at]
    BY <1>4 DEF Observed, PrevTimestamp
  <2> HIDE DEF o
  <2>2. /\ o.start = j.start /\ o.pos = j.pos /\ o.prev = j.prev
        /\ o.suppressed = j.suppressed /\ o.timer = j.timer /\ o.age = j.age
        /\ o.emitted = j.emitted /\ o.turned = j.turned
        /\ o.last = j.last /\ o.answers = j.answers
        /\ o.velImbalance = [j.velImbalance EXCEPT ![m.symbol] = m.imbalance]
        /\ o.velTimestamp = [j.velTimestamp EXCEPT ![m.symbol] = m.at]
    BY <1>1, <2>1 DEF Jobs
  <2>3. o \in Jobs
    <3>1. /\ [j.velImbalance EXCEPT ![m.symbol] = m.imbalance] \in [Symbols -> Int \cup {None}]
          /\ [j.velTimestamp EXCEPT ![m.symbol] = m.at] \in [Symbols -> Nat \cup {None}]
      BY <1>1, <1>2 DEF Jobs
    <3>2. o = [j EXCEPT !.velImbalance = [j.velImbalance EXCEPT ![m.symbol] = m.imbalance],
                        !.velTimestamp = [j.velTimestamp EXCEPT ![m.symbol] = m.at]]
      BY <2>1
    <3> QED BY <1>1, <3>1, <3>2 DEF Jobs
  <2>4. JobType(o)
    BY <2>2, <2>3 DEF Sound, JobType
  <2>5. Backed(o)
    BY <2>2 DEF Sound, Backed
  <2>6. Detects(o)
    BY <1>4 DEF Detects
  <2>7. Alternates(o)
    BY <2>2, Zenon DEF Sound, Alternates
  <2>8. OneMetric(o)
    <3> SUFFICES ASSUME NEW s \in Symbols, o.velTimestamp[s] # None
                 PROVE  \E q \in Partitions : \E n \in Seen(o, "VELOCITY_SPIKE", q) :
                          /\ Log[q][n].symbol = s
                          /\ Log[q][n].at = o.velTimestamp[s]
                          /\ Log[q][n].imbalance = o.velImbalance[s]
      BY DEF OneMetric
    <3>1. \A q : Seen(o, "VELOCITY_SPIKE", q) = Seen(j, "VELOCITY_SPIKE", q)
      BY <2>2 DEF Seen
    <3>2. CASE s = m.symbol
      <4>1. o.velTimestamp[s] = m.at /\ o.velImbalance[s] = m.imbalance
        BY <1>1, <1>2, <2>2, <3>2 DEF Jobs
      <4>2. i \in Seen(o, "VELOCITY_SPIKE", p)
        BY <1>4, <3>1
      <4> QED BY <3>2, <4>1, <4>2 DEF m
    <3>3. CASE s # m.symbol
      <4>1. o.velTimestamp[s] = j.velTimestamp[s] /\ o.velImbalance[s] = j.velImbalance[s]
        BY <1>1, <2>2, <3>3 DEF Jobs
      <4> QED BY <3>1, <4>1 DEF Sound, OneMetric
    <3> QED BY <3>2, <3>3
  <2>9. Stands(o) /\ Behind(o)
    BY <2>2 DEF Sound, Stands, Behind
  <2>10. Sound(o)
    BY <2>4, <2>5, <2>6, <2>7, <2>8, <2>9 DEF Sound
  <2> QED BY <2>2, <2>10 DEF o, m
<1>5. CASE kind \notin {"IMBALANCE_FLIP", "VELOCITY_SPIKE"}
  <2>1. o = j
    BY <1>5 DEF Observed
  <2> QED BY <2>1 DEF m
<1> QED BY <1>3, <1>4, <1>5

-----------------------------------------------------------------------------
(* The steps of the job.                                                   *)

(* A read leaves the state sound and caught up, and lets an alert pass     *)
(* only a cool-down after the last of its key.                             *)
LEMMA ReadSound ==
  ASSUME Strong, NEW kind \in Kinds, NEW p \in Partitions, Read(kind, p)
  PROVE  /\ Sound(job') /\ CaughtUp(job')
         /\ \/ job'.emitted = job.emitted /\ job'.age = job.age
            \/ \E key \in Keys, id \in Ids :
                  /\ job'.emitted = job.emitted \cup {<<key, id>>}
                  /\ job'.age = [job.age EXCEPT ![key] = 0]
                  /\ job.age[key] = Cooldown /\ <<key, id>> \notin job.emitted
<1>1. Sound(job) /\ CaughtUp(job)
  BY DEF Strong, Good
<1>2. PICK i \in (job.pos[kind][p] + 1) .. Len(Log[p]) :
         LET m == Log[p][i]
             moved == [job EXCEPT !.pos[kind][p] = i]
             observed == Observed(moved, kind, m)
         IN  /\ m.valid /\ \A n \in (job.pos[kind][p] + 1) .. (i - 1) : ~Log[p][n].valid
             /\ \E raised \in Raised(job, kind, m) :
                   job' = IF raised THEN Limited(observed, <<m.symbol, kind>>, <<p, i>>)
                                    ELSE observed
  BY Zenon DEF Read
<1> DEFINE m == Log[p][i]
           moved == [job EXCEPT !.pos[kind][p] = i]
           o == Observed(moved, kind, m)
           key == <<m.symbol, kind>>
           id == <<p, i>>
<1>3. /\ Sound(moved) /\ moved.emitted = job.emitted /\ moved.age = job.age
      /\ moved.start = job.start /\ moved.answers = job.answers
      /\ moved.pos = [job.pos EXCEPT ![kind][p] = i]
      /\ i \in Nat \ {0} /\ job.pos[kind][p] \in Nat
      /\ i \in Seen(moved, kind, p) /\ m \in Metrics
  BY <1>1, MovedSound
<1>4. PICK raised \in Raised(job, kind, m) :
         job' = IF raised THEN Limited(o, key, id) ELSE o
  BY <1>2
<1>5. key \in Keys /\ id \in Ids
  <2>1. m.symbol \in Symbols
    BY <1>3 DEF Metrics
  <2> QED BY <1>3, <2>1 DEF Keys, Ids
<1>6. key[1] = m.symbol /\ key[2] = kind /\ id[1] = p /\ id[2] = i
  OBVIOUS
<1>7. kind = "EXTREME_IMBALANCE" /\ ExtremeAt(p, i) => raised /\ key = <<m.symbol, "EXTREME_IMBALANCE">>
  BY <1>4 DEF Raised, ExtremeAt
<1> HIDE DEF moved
<1>8. /\ Sound(o) /\ o.emitted = moved.emitted /\ o.age = moved.age
      /\ o.start = moved.start /\ o.pos = moved.pos /\ o.answers = moved.answers
  BY <1>3, ObservedSound
<1> HIDE DEF o, key, id
<1>9. job.pos \in [Kinds -> [Partitions -> Nat]] /\ job.emitted \subseteq Keys \X Ids
  BY <1>1 DEF Sound, JobType, Jobs
<1>10. o.pos[kind][p] = i
  BY <1>3, <1>8, <1>9
<1>11. <<key, id>> \notin job.emitted
  <2> SUFFICES ASSUME <<key, id>> \in job.emitted
               PROVE  FALSE
    OBVIOUS
  <2>1. <<key, id>>[2][2] <= job.pos[<<key, id>>[1][2]][<<key, id>>[2][1]]
    BY <1>1 DEF Sound, Behind
  <2>2. i <= job.pos[kind][p]
    BY <1>6, <2>1
  <2> QED BY <1>3, <2>2
<1>12. /\ Sound(job') /\ job'.start = o.start /\ job'.pos = o.pos /\ o.answers \subseteq job'.answers
       /\ raised => \E a \in job'.answers : a[1] = key /\ a[2] = id
       /\ \/ job'.emitted = o.emitted /\ job'.age = o.age
          \/ /\ job'.emitted = o.emitted \cup {<<key, id>>}
             /\ job'.age = [o.age EXCEPT ![key] = 0] /\ o.age[key] = Cooldown
  <2>1. CASE ~raised
    BY <1>4, <1>8, <2>1
  <2>2. CASE raised
    <3>1. id[2] <= o.pos[key[2]][id[1]]
      BY <1>3, <1>6, <1>10
    <3>2. job' = Limited(o, key, id)
      BY <1>4, <2>2
    <3>3. Limits(o, key, id, Limited(o, key, id))
      BY <1>5, <1>8, <3>1, LimitedSound
    <3> QED BY <3>2, <3>3 DEF Limits
  <2> QED BY <2>1, <2>2
<1>13. CaughtUp(job')
  <2> SUFFICES ASSUME NEW k \in Kinds, k = "EXTREME_IMBALANCE", NEW q \in Partitions,
                      NEW n \in Seen(job', k, q), ExtremeAt(q, n)
               PROVE  Answers(job', q, n)
    BY DEF CaughtUp
  <2>1. job'.start = job.start /\ job'.pos = [job.pos EXCEPT ![kind][p] = i]
        /\ job.answers \subseteq job'.answers
    BY <1>3, <1>8, <1>12
  <2>2. CASE n \in Seen(job, k, q)
    <3>1. Answers(job, q, n)
      BY <1>1, <2>2 DEF CaughtUp
    <3> QED BY <2>1, <3>1 DEF Answers
  <2>3. CASE n \notin Seen(job, k, q)
    <3>1. job.start[q] \in Nat
      BY <1>1 DEF Sound, JobType, Jobs
    <3>2. n \in (job.start[q] + 1) .. job'.pos[k][q] /\ n \notin (job.start[q] + 1) .. job.pos[k][q]
      BY <2>1, <2>3 DEF Seen
    <3>3. k = kind /\ q = p /\ job'.pos[k][q] = i
      BY <1>9, <2>1, <3>2
    <3>4. n \in (job.pos[kind][p] + 1) .. i
      BY <1>3, <3>1, <3>2, <3>3
    <3>5. n = i
      <4>1. n \notin (job.pos[kind][p] + 1) .. (i - 1)
        BY <1>2, <3>3 DEF ExtremeAt
      <4> QED BY <1>3, <3>4, <4>1
    <3>6. raised /\ key = <<m.symbol, "EXTREME_IMBALANCE">>
      BY <1>7, <3>3, <3>5
    <3> QED BY <1>12, <3>3, <3>5, <3>6 DEF Answers, id
  <2> QED BY <2>2, <2>3
<1>14. \/ job'.emitted = job.emitted /\ job'.age = job.age
       \/ /\ job'.emitted = job.emitted \cup {<<key, id>>}
          /\ job'.age = [job.age EXCEPT ![key] = 0]
          /\ job.age[key] = Cooldown /\ <<key, id>> \notin job.emitted
  BY <1>3, <1>8, <1>11, <1>12
<1> QED BY <1>5, <1>12, <1>13, <1>14

(* What a state knows of the alerts' ages is kept when the job reads on.   *)
LEMMA ReadKnows ==
  ASSUME Strong, NEW kind \in Kinds, NEW p \in Partitions, Read(kind, p),
         NEW j, Good(j)
  PROVE  j.emitted \subseteq job'.emitted /\ Knows(j)'
<1> DEFINE new == job'.emitted \ job.emitted
<1>1. /\ since' = [k \in Keys |-> IF \E a \in new : a[1] = k THEN 0 ELSE since[k]]
      /\ forgotten' = forgotten \ {a[1] : a \in new}
  BY DEF Read
<1>2. job.emitted \subseteq job'.emitted
  BY ReadSound
<1>3. j.emitted \subseteq job.emitted
  BY DEF Good
<1>4. ASSUME NEW k \in Keys \ forgotten'
      PROVE  j.age[k] = since'[k] \/ \E a \in job'.emitted \ j.emitted : a[1] = k
  <2>1. CASE \E a \in new : a[1] = k
    BY <1>3, <2>1
  <2>2. CASE ~\E a \in new : a[1] = k
    <3>1. k \in Keys \ forgotten /\ since'[k] = since[k]
      BY <1>1, <1>4, <2>2
    <3>2. j.age[k] = since[k] \/ \E a \in job.emitted \ j.emitted : a[1] = k
      BY <3>1 DEF Good, Knows
    <3> QED BY <1>2, <3>1, <3>2
  <2> QED BY <2>1, <2>2
<1> QED BY <1>2, <1>3, <1>4 DEF Knows

(* Likewise the new state of the job.                                      *)
LEMMA ReadGood ==
  ASSUME Strong, NEW kind \in Kinds, NEW p \in Partitions, Read(kind, p)
  PROVE  /\ Good(job)' /\ since' \in [Keys -> 0 .. Cooldown] /\ forgotten' \subseteq Keys
<1> DEFINE new == job'.emitted \ job.emitted
<1>1. /\ since' = [k \in Keys |-> IF \E a \in new : a[1] = k THEN 0 ELSE since[k]]
      /\ forgotten' = forgotten \ {a[1] : a \in new}
  BY DEF Read
<1>2. since \in [Keys -> 0 .. Cooldown] /\ forgotten \subseteq Keys
  BY DEF Strong
<1>3. since' \in [Keys -> 0 .. Cooldown] /\ forgotten' \subseteq Keys
  BY <1>1, <1>2
<1>4. Knows(job)'
  <2> SUFFICES ASSUME NEW k \in Keys \ forgotten'
               PROVE  job'.age[k] = since'[k]
    BY DEF Knows
  <2>1. \A n \in Keys \ forgotten : job.age[n] = since[n]
    BY DEF Strong, Good, Knows
  <2>2. job.age \in [Keys -> 0 .. Cooldown]
    BY DEF Strong, Good, Sound, JobType, Jobs
  <2>3. CASE job'.emitted = job.emitted /\ job'.age = job.age
    BY <1>1, <2>1, <2>3
  <2>4. CASE \E key \in Keys, id \in Ids :
                  /\ job'.emitted = job.emitted \cup {<<key, id>>}
                  /\ job'.age = [job.age EXCEPT ![key] = 0]
                  /\ job.age[key] = Cooldown /\ <<key, id>> \notin job.emitted
    <3>1. PICK key \in Keys, id \in Ids :
                  /\ job'.emitted = job.emitted \cup {<<key, id>>}
                  /\ job'.age = [job.age EXCEPT ![key] = 0]
                  /\ <<key, id>> \notin job.emitted
      BY <2>4
    <3>2. new = {<<key, id>>}
      BY <3>1
    <3> HIDE DEF new
    <3>3. (\E a \in new : a[1] = k) <=> k = key
      BY <3>2
    <3>4. {a[1] : a \in new} = {key}
      BY <3>2
    <3>5. CASE k = key
      BY <1>1, <2>2, <3>1, <3>3, <3>5
    <3>6. CASE k # key
      <4>1. k \in Keys \ forgotten
        BY <1>1, <3>4, <3>6
      <4> QED BY <1>1, <2>1, <2>2, <3>1, <3>3, <3>6, <4>1
    <3> QED BY <3>5, <3>6
  <2> QED BY <2>3, <2>4, ReadSound
<1> QED BY <1>3, <1>4, ReadSound DEF Good

(* As time passes a state keeps what it knows.                             *)
LEMMA LaterGood ==
  ASSUME Strong, Tick, NEW j, Good(j)
  PROVE  Sound(Later(j)) /\ CaughtUp(Later(j)) /\ Later(j).emitted = j.emitted
         /\ Later(j).emitted \subseteq job'.emitted /\ Knows(Later(j))'
<1>1. /\ Sound(Later(j)) /\ CaughtUp(Later(j)) /\ Later(j).emitted = j.emitted
      /\ Later(j).age = Older(j.age)
  BY LaterSound DEF Good
<1>2. job'.emitted = job.emitted /\ since' = Older(since) /\ forgotten' = forgotten
  BY LaterSound DEF Tick, Strong, Good
<1>3. ASSUME NEW k \in Keys \ forgotten
      PROVE  Later(j).age[k] = since'[k] \/ \E a \in job'.emitted \ j.emitted : a[1] = k
  <2>1. j.age[k] = since[k] \/ \E a \in job.emitted \ j.emitted : a[1] = k
    BY DEF Good, Knows
  <2>2. j.age[k] = since[k] => Older(j.age)[k] = Older(since)[k]
    BY DEF Older
  <2> QED BY <1>1, <1>2, <2>1, <2>2
<1>4. Knows(Later(j))'
  BY <1>1, <1>2, <1>3 DEF Knows
<1> QED BY <1>1, <1>2, <1>4 DEF Good

(* Initially, and after every step, the states are good.                   *)
LEMMA InitStrong ==
  ASSUME Init
  PROVE  Strong
<1> DEFINE offsets == [p \in Partitions |-> 0]
<1>1. offsets \in [Partitions -> Nat] /\ \A p \in Partitions : offsets[p] <= Len(Log[p])
  <2>1. \A p \in Partitions : Len(Log[p]) \in Nat
    OBVIOUS
  <2> QED BY <2>1
<1>2. Sound(Fresh(offsets)) /\ CaughtUp(Fresh(offsets)) /\ Fresh(offsets).emitted = {}
  BY <1>1, FreshSound
<1>3. job = Fresh(offsets) /\ since = [k \in Keys |-> Cooldown]
  BY DEF Init
<1>4. Good(job)
  BY <1>2, <1>3 DEF Good, Knows, Fresh
<1> QED BY <1>2, <1>3, <1>4 DEF Init, Strong

(* A step that leaves what the states are of alone.                        *)
LEMMA SameGood ==
  ASSUME NEW j, Good(j), job'.emitted = job.emitted, UNCHANGED history
  PROVE  Good(j)'
BY DEF Good, Knows, history

LEMMA StepStrong ==
  ASSUME Strong, [Next]_vars
  PROVE  Strong'
<1>1. ASSUME NEW kind \in Kinds, NEW p \in Partitions, Read(kind, p)
      PROVE  Strong'
  <2>1. Good(job)' /\ since' \in [Keys -> 0 .. Cooldown] /\ forgotten' \subseteq Keys
    BY <1>1, ReadGood
  <2>2. /\ buffer' = buffer \cup (job'.emitted \ job.emitted)
        /\ UNCHANGED <<pending, saved, topic, restarts>>
    BY <1>1 DEF Read
  <2>3. \A j : Good(j) => Good(j)'
    BY <1>1, ReadKnows DEF Good
  <2>4. job'.emitted \subseteq Keys \X Ids
    BY <2>1 DEF Good, Sound, JobType, Jobs
  <2>5. job'.emitted \subseteq topic \cup buffer'
    BY <2>2 DEF Strong
  <2>6. \A c \in pending : Good(c.job)' /\ c.unsent \subseteq topic \cup buffer'
    BY <2>2, <2>3 DEF Strong
  <2> QED BY <2>1, <2>2, <2>3, <2>4, <2>5, <2>6 DEF Strong
<1>2. ASSUME NEW key \in Keys, TimerFires(key)
      PROVE  Strong'
  <2>1. /\ Sound(job') /\ CaughtUp(job') /\ job'.emitted = job.emitted
        /\ job'.age = job.age
    BY <1>2, TimerSound DEF TimerFires, Strong, Good
  <2>2. UNCHANGED <<pending, saved, buffer, topic, restarts, since, forgotten>>
    BY <1>2 DEF TimerFires, history
  <2>3. Good(job)'
    BY <2>1, <2>2 DEF Strong, Good, Knows
  <2>4. \A j : Good(j) => Good(j)'
    BY <2>1, <2>2, SameGood DEF history
  <2> QED BY <2>1, <2>2, <2>3, <2>4 DEF Strong
<1>3. ASSUME NEW alert \in buffer, Send(alert)
      PROVE  Strong'
  <2>1. /\ buffer' = buffer \ {alert} /\ topic' = topic \cup {alert}
        /\ UNCHANGED <<job, pending, saved, restarts, since, forgotten>>
    BY <1>3 DEF Send, history
  <2>2. \A j : Good(j) => Good(j)'
    BY <2>1, SameGood DEF history
  <2> QED BY <2>1, <2>2 DEF Strong
<1>4. CASE Tick
  <2>1. /\ job' = Later(job)
        /\ pending' = {[c EXCEPT !.job = Later(@)] : c \in pending}
        /\ saved' = {Later(j) : j \in saved}
        /\ since' = Older(since)
        /\ UNCHANGED <<buffer, topic, restarts, forgotten>>
    BY <1>4 DEF Tick
  <2>2. since' \in [Keys -> 0 .. Cooldown]
    BY <2>1 DEF Strong, Older
  <2>3. \A j : Good(j) => Good(Later(j))' /\ Later(j).emitted = j.emitted
    <3> SUFFICES ASSUME NEW j, Good(j)
                 PROVE  Good(Later(j))' /\ Later(j).emitted = j.emitted
      OBVIOUS
    <3>1. /\ Sound(Later(j)) /\ CaughtUp(Later(j)) /\ Later(j).emitted = j.emitted
          /\ Later(j).emitted \subseteq job'.emitted /\ Knows(Later(j))'
      BY <1>4, LaterGood
    <3> QED BY <3>1 DEF Good
  <2>4. Good(job)' /\ job'.emitted = job.emitted
    BY <2>1, <2>3 DEF Strong
  <2>5. ASSUME NEW j \in saved'
        PROVE  Good(j)' /\ j.emitted \subseteq topic
    <3>1. PICK k \in saved : j = Later(k)
      BY <2>1
    <3>2. Good(k) /\ k.emitted \subseteq topic
      BY DEF Strong
    <3> QED BY <2>3, <3>1, <3>2
  <2>6. ASSUME NEW c \in pending'
        PROVE  /\ c = [job |-> c.job, unsent |-> c.unsent]
               /\ Good(c.job)' /\ c.job.emitted \subseteq topic \cup c.unsent
               /\ c.unsent \subseteq topic \cup buffer
    <3>1. PICK d \in pending : c = [d EXCEPT !.job = Later(@)]
      BY <2>1
    <3>2. /\ d = [job |-> d.job, unsent |-> d.unsent]
          /\ Good(d.job) /\ d.job.emitted \subseteq topic \cup d.unsent
          /\ d.unsent \subseteq topic \cup buffer
      BY DEF Strong
    <3>3. c = [job |-> Later(d.job), unsent |-> d.unsent]
      BY <3>1, <3>2
    <3>4. c.job = Later(d.job) /\ c.unsent = d.unsent /\ c = [job |-> c.job, unsent |-> c.unsent]
      BY <3>3
    <3>5. Good(Later(d.job))' /\ Later(d.job).emitted = d.job.emitted
      BY <2>3, <3>2
    <3> QED BY <3>2, <3>4, <3>5
  <2>7. \A j, k \in saved' : j = k
    BY <2>1 DEF Strong
  <2> QED BY <2>1, <2>2, <2>4, <2>5, <2>6, <2>7 DEF Strong
<1>5. CASE Barrier
  <2>1. /\ pending' = {[job |-> job, unsent |-> buffer]}
        /\ UNCHANGED <<job, saved, buffer, topic, restarts, since, forgotten>>
    BY <1>5 DEF Barrier, history
  <2>2. \A j : Good(j) => Good(j)'
    BY <2>1, SameGood DEF history
  <2>3. Good(job) /\ job.emitted \subseteq topic \cup buffer
    BY DEF Strong
  <2>4. ASSUME NEW c \in pending'
        PROVE  /\ c = [job |-> c.job, unsent |-> c.unsent]
               /\ Good(c.job)' /\ c.job.emitted \subseteq topic \cup c.unsent
               /\ c.unsent \subseteq topic \cup buffer
    <3>1. c = [job |-> job, unsent |-> buffer]
      BY <2>1
    <3>2. c.job = job /\ c.unsent = buffer
      BY <3>1
    <3> QED BY <2>2, <2>3, <3>1, <3>2
  <2> QED BY <2>1, <2>2, <2>3, <2>4 DEF Strong
<1>6. CASE Complete
  <2>1. PICK c \in pending : c.unsent \cap buffer = {} /\ saved' = {c.job}
    BY <1>6 DEF Complete, Flushed
  <2>2. pending' = {} /\ UNCHANGED <<job, buffer, topic, restarts, since, forgotten>>
    BY <1>6 DEF Complete, history
  <2>3. \A j : Good(j) => Good(j)'
    BY <2>2, SameGood DEF history
  <2>4. /\ Good(c.job) /\ c.job.emitted \subseteq topic \cup c.unsent
        /\ c.unsent \subseteq topic \cup buffer
    BY DEF Strong
  <2>5. c.job.emitted \subseteq topic
    BY <2>1, <2>4
  <2> QED BY <2>1, <2>2, <2>3, <2>4, <2>5 DEF Strong
<1>7. CASE Restart
  <2>1. PICK j \in saved : job' = j
    BY <1>7 DEF Restart, Restored
  <2>2. /\ forgotten' = forgotten \cup {a[1] : a \in job.emitted \ job'.emitted}
        /\ pending' = {} /\ buffer' = {} /\ restarts < MaxRestarts /\ restarts' = restarts + 1
        /\ UNCHANGED <<saved, topic, since>>
    BY <1>7 DEF Restart
  <2>3. Good(j) /\ j.emitted \subseteq topic /\ saved = {j}
    BY <2>1 DEF Strong
  <2>4. forgotten' \subseteq Keys
    <3>1. job.emitted \subseteq Keys \X Ids
      BY DEF Strong, Good, Sound, JobType, Jobs
    <3> QED BY <2>2, <3>1 DEF Strong
  <2>5. Good(job)'
    <3>1. Knows(job)'
      <4> SUFFICES ASSUME NEW k \in Keys \ forgotten'
                   PROVE  j.age[k] = since[k]
        BY <2>1, <2>2 DEF Knows
      <4>1. k \in Keys \ forgotten /\ ~\E a \in job.emitted \ j.emitted : a[1] = k
        BY <2>1, <2>2
      <4> QED BY <2>3, <4>1 DEF Good, Knows
    <3> QED BY <2>1, <2>3, <3>1 DEF Good
  <2>6. \A k \in saved' : Good(k)' /\ k.emitted \subseteq topic
    BY <2>1, <2>2, <2>3, <2>5
  <2>7. restarts' \in 0 .. MaxRestarts
    BY <2>2 DEF Strong
  <2>8. job'.emitted \subseteq topic' \cup buffer' /\ buffer' \cup topic' \subseteq Keys \X Ids
    BY <2>1, <2>2, <2>3 DEF Strong
  <2>9. \A k, n \in saved' : k = n
    BY <2>2 DEF Strong
  <2>10. topic' = topic /\ pending' = {} /\ since' \in [Keys -> 0 .. Cooldown]
    BY <2>2 DEF Strong
  <2> QED BY <2>4, <2>5, <2>6, <2>7, <2>8, <2>9, <2>10 DEF Strong
<1>8. CASE Redeploy
  <2>1. PICK offsets \in Ends : job' = Fresh(offsets)
    BY <1>8 DEF Redeploy
  <2>2. /\ pending' = {} /\ saved' = {} /\ buffer' = {} /\ forgotten' = Keys
        /\ restarts < MaxRestarts /\ restarts' = restarts + 1 /\ UNCHANGED <<topic, since>>
    BY <1>8 DEF Redeploy
  <2>3. offsets \in [Partitions -> Nat] /\ \A p \in Partitions : offsets[p] <= Len(Log[p])
    BY <2>1 DEF Ends
  <2>4. Sound(job') /\ CaughtUp(job') /\ job'.emitted = {}
    BY <2>1, <2>3, FreshSound
  <2>5. Good(job)'
    BY <2>2, <2>4 DEF Good, Knows
  <2>6. restarts' \in 0 .. MaxRestarts
    BY <2>2 DEF Strong
  <2> QED BY <2>2, <2>4, <2>5, <2>6 DEF Strong
<1>9. CASE UNCHANGED vars
  <2>1. UNCHANGED <<job, pending, saved, buffer, topic, restarts, since, forgotten>>
    BY <1>9 DEF vars
  <2>2. \A j : Good(j) => Good(j)'
    BY <2>1, SameGood DEF history
  <2> QED BY <2>1, <2>2 DEF Strong
<1> QED BY <1>1, <1>2, <1>3, <1>4, <1>5, <1>6, <1>7, <1>8, <1>9 DEF Next

-----------------------------------------------------------------------------
(* The theorems.                                                           *)

LEMMA AlwaysStrong == Spec => []Strong
<1>1. Init => Strong
  BY InitStrong
<1>2. Strong /\ [Next]_vars => Strong'
  BY StepStrong
<1> QED BY <1>1, <1>2, PTL DEF Spec

(* The state of every operator is sound, in the running job and in the     *)
(* checkpoints: suppression is backed by a timer, the velocity is of one   *)
(* metric, the flips alternate.                                            *)
THEOREM OperatorsSound == Spec => []IInv
<1>1. Strong => IInv
  BY StrongIInv
<1> QED BY <1>1, AlwaysStrong, PTL

(* Every extreme imbalance the job has got past has an alert that stands   *)
(* for it, in the topic or with the producer, and in the topic when a      *)
(* completed checkpoint has got past it, wherever barriers, sends and      *)
(* failures fall.                                                          *)
THEOREM NothingLost == Spec => []NoAlertLost
<1>1. ASSUME NEW j, Sound(j), CaughtUp(j), NEW alerts, j.emitted \subseteq alerts,
             NEW kind \in Kinds, kind = "EXTREME_IMBALANCE", NEW p \in Partitions,
             NEW i \in Seen(j, kind, p), ExtremeAt(p, i)
      PROVE  Answered(j, p, i, alerts)
  <2>1. PICK a \in j.answers :
           a[1] = <<Log[p][i].symbol, "EXTREME_IMBALANCE">> /\ a[2] = <<p, i>>
    BY <1>1 DEF CaughtUp, Answers
  <2>2. <<a[1], a[3]>> \in alerts
    BY <1>1 DEF Sound, Stands
  <2> QED BY <2>1, <2>2 DEF Answered
<1>2. Strong => NoAlertLost
  BY <1>1 DEF Strong, Good, NoAlertLost
<1> QED BY <1>2, AlwaysStrong, PTL

(* Two alerts of a key are a cool-down apart, in whatever runs of the job  *)
(* they pass, unless a restart went back to before the first or the job    *)
(* was deployed anew, for every cool-down and every order of the metrics.  *)
THEOREM CooldownBetween == Spec => CooldownKept
<1> DEFINE Apart == \A alert \in job'.emitted \ job.emitted :
                       since[alert[1]] = Cooldown \/ alert[1] \in forgotten
<1>1. Strong /\ [Next]_vars => [Apart]_vars
  <2> SUFFICES ASSUME Strong, Next
               PROVE  Apart
    BY DEF Apart
  <2>1. ASSUME NEW kind \in Kinds, NEW p \in Partitions, Read(kind, p)
        PROVE  Apart
    <3> SUFFICES ASSUME NEW alert \in job'.emitted \ job.emitted, alert[1] \notin forgotten
                 PROVE  since[alert[1]] = Cooldown
      OBVIOUS
    <3>1. PICK key \in Keys, id \in Ids :
                  /\ job'.emitted = job.emitted \cup {<<key, id>>}
                  /\ job.age[key] = Cooldown
      BY <2>1, ReadSound
    <3>2. alert[1] = key
      BY <3>1
    <3>3. job.age[key] = since[key]
      BY <3>2 DEF Strong, Good, Knows
    <3> QED BY <3>1, <3>2, <3>3
  <2>2. ASSUME NEW key \in Keys, TimerFires(key)
        PROVE  Apart
    <3>1. job'.emitted = job.emitted
      BY <2>2, TimerSound DEF TimerFires, Strong, Good
    <3> QED BY <3>1
  <2>3. ASSUME NEW alert \in buffer, Send(alert)
        PROVE  Apart
    BY <2>3 DEF Send
  <2>4. CASE Tick
    <3>1. job'.emitted = job.emitted
      BY <2>4, LaterSound DEF Tick, Strong, Good
    <3> QED BY <3>1
  <2>5. CASE Barrier
    BY <2>5 DEF Barrier
  <2>6. CASE Complete
    BY <2>6 DEF Complete
  <2>7. CASE Restart
    BY <2>7 DEF Restart, Restored, Strong, Good
  <2>8. CASE Redeploy
    BY <2>8 DEF Redeploy, Fresh
  <2> QED BY <2>1, <2>2, <2>3, <2>4, <2>5, <2>6, <2>7, <2>8 DEF Next
<1> QED BY <1>1, AlwaysStrong, PTL DEF Spec, CooldownKept
=============================================================================
