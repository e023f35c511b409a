------------------------------ MODULE Windows ------------------------------
(***************************************************************************)
(* The windows of the Flink jobs: the sliding event-time windows and the   *)
(* tumbling processing-time windows of orderbook_windows.py, whose         *)
(* aggregates go to the windowed topic, and the sliding windows of         *)
(* orderbook_alerts.py, whose average spread goes to the join that raises  *)
(* SPREAD_WIDENING.  The two jobs' sliding windows differ in their slide   *)
(* and in what they aggregate; one stands here for both.                   *)
(*                                                                         *)
(* The state is that of one key: the metrics are those of one symbol.      *)
(* Flink assigns windows, fires and drops; what the code adds is the       *)
(* accumulators, the boundaries given to the results and the join.         *)
(***************************************************************************)
EXTENDS Integers, Sequences, FiniteSetsExt, SequencesExt, Functions

CONSTANTS
    Metrics,      \* the symbol's metrics; the fields they have:
    At,           \*   event time
    Imbalance, SpreadBps, Volume,
    Size, Slide,  \* of the sliding windows
    Length,       \* of the tumbling windows
    Lateness,     \* for_bounded_out_of_orderness
    Multiplier,   \* spread_alert_multiplier
    MaxClock,     \* bound: processing time
    None

ASSUME WindowsAssumption ==
    /\ IsFiniteSet(Metrics)
    /\ At \in [Metrics -> Nat]
    /\ Imbalance \in [Metrics -> Int] /\ Volume \in [Metrics -> Nat]
    /\ SpreadBps \in [Metrics -> Nat]
    /\ Slide \in Nat \ {0} /\ Size \in Nat \ {0} /\ Size % Slide = 0
    /\ Length \in Nat \ {0}
    /\ Lateness \in Nat /\ Multiplier \in Nat \ {0}
    /\ MaxClock \in Nat
    /\ None \notin Int

VARIABLES
    arrived,    \* the metrics the window operators have taken
    watermark,
    clock,      \* processing time
    sliding,    \* the open sliding windows: start |-> accumulator
    tumbling,   \* the open tumbling windows
    results,    \* what the jobs emitted: kind, boundaries and accumulator
    averages,   \* results on their way to the join
    avgSpread,  \* avg_spread_state of the join: the result it is from
    compared,   \* the metrics the join has taken
    alerts,     \* its alerts: the metric, and the result it was compared with
    late        \* history: the metrics dropped, with the window's start

vars == <<arrived, watermark, clock, sliding, tumbling, results, averages, avgSpread,
          compared, alerts, late>>

-----------------------------------------------------------------------------
(* WindowAggFunction, SpreadAverageAggregateFunction.                      *)

CreateAccumulator ==
    [imb_total |-> 0, imb_min |-> None, imb_max |-> None,
     spread_bps_total |-> 0, spread_bps_min |-> None, spread_bps_max |-> None,
     total_volume_total |-> 0, sample_count |-> 0]

Least(a, b) == CASE a = None -> b [] b = None -> a [] OTHER -> IF b < a THEN b ELSE a
Greatest(a, b) == CASE a = None -> b [] b = None -> a [] OTHER -> IF b > a THEN b ELSE a

\* Slip: a minimum that starts at zero.
AddFromZero(m, acc) ==
    [imb_total |-> acc.imb_total + Imbalance[m],
     imb_min |-> Least(IF acc.imb_min = None THEN 0 ELSE acc.imb_min, Imbalance[m]),
     imb_max |-> Greatest(acc.imb_max, Imbalance[m]),
     spread_bps_total |-> acc.spread_bps_total + SpreadBps[m],
     spread_bps_min |-> Least(acc.spread_bps_min, SpreadBps[m]),
     spread_bps_max |-> Greatest(acc.spread_bps_max, SpreadBps[m]),
     total_volume_total |-> acc.total_volume_total + Volume[m],
     sample_count |-> acc.sample_count + 1]

Add(m, acc) ==
    [imb_total |-> acc.imb_total + Imbalance[m],
     imb_min |-> Least(acc.imb_min, Imbalance[m]),
     imb_max |-> Greatest(acc.imb_max, Imbalance[m]),
     spread_bps_total |-> acc.spread_bps_total + SpreadBps[m],
     spread_bps_min |-> Least(acc.spread_bps_min, SpreadBps[m]),
     spread_bps_max |-> Greatest(acc.spread_bps_max, SpreadBps[m]),
     total_volume_total |-> acc.total_volume_total + Volume[m],
     sample_count |-> acc.sample_count + 1]

Merge(a, b) ==
    [imb_total |-> a.imb_total + b.imb_total,
     imb_min |-> Least(a.imb_min, b.imb_min), imb_max |-> Greatest(a.imb_max, b.imb_max),
     spread_bps_total |-> a.spread_bps_total + b.spread_bps_total,
     spread_bps_min |-> Least(a.spread_bps_min, b.spread_bps_min),
     spread_bps_max |-> Greatest(a.spread_bps_max, b.spread_bps_max),
     total_volume_total |-> a.total_volume_total + b.total_volume_total,
     sample_count |-> a.sample_count + b.sample_count]

-----------------------------------------------------------------------------
(* Assignment, arrival, firing.                                            *)

Starts(m) == {w \in (At[m] - Size + 1) .. At[m] : w % Slide = 0}

SinceFirst == clock                    \* slip: the window starts at its first metric

TumblingStart == clock - (clock % Length)

\* A window whose last moment the watermark has reached has fired.
Fired(w) == w + Size - 1 <= watermark

Accumulated(windows, starts, m) ==
    [w \in DOMAIN windows \cup starts |->
        IF w \in starts
          THEN Add(m, IF w \in DOMAIN windows THEN windows[w] ELSE CreateAccumulator)
          ELSE windows[w]]

Init ==
    /\ arrived = {} /\ compared = {} /\ alerts = {} /\ late = {}
    /\ watermark = -1 /\ clock = 0
    /\ sliding = <<>> /\ tumbling = <<>>
    /\ results = {} /\ averages = <<>> /\ avgSpread = None

\* A metric is added to the sliding windows that are still open, and to the
\* tumbling window of the moment.
Arrive(m) ==
    /\ m \notin arrived
    /\ arrived' = arrived \cup {m}
    /\ sliding' = Accumulated(sliding, {w \in Starts(m) : ~Fired(w)}, m)
    /\ late' = late \cup {<<m, w>> : w \in {v \in Starts(m) : Fired(v)}}
    /\ tumbling' = Accumulated(tumbling, {TumblingStart}, m)
    /\ UNCHANGED <<watermark, clock, results, averages, avgSpread, compared, alerts>>

\* WindowMetadataFunction: the result with the window's boundaries.
Result(kind, start, length, acc) ==
    [window_type |-> kind, window_start |-> start, window_end |-> start + length, acc |-> acc]

\* Slip: the windows of one watermark fire in any order, here the last first.
LastFirst(starts) ==
    [i \in 1 .. Cardinality(starts) |->
        CHOOSE w \in starts : Cardinality({v \in starts : v > w}) = i - 1]

\* The i-th window is the one with i - 1 before it.
InOrder(starts) ==
    [i \in 1 .. Cardinality(starts) |->
        CHOOSE w \in starts : Cardinality({v \in starts : v < w}) = i - 1]

\* The slack of the watermark behind the latest metric.
Latest == Max({At[m] : m \in arrived})

Eager == Latest                        \* slip: no slack for metrics out of order

Horizon == Latest - Lateness - 1

\* The watermark advances, at its period and to where the idle partitions let
\* it, and fires the windows it has passed, in the order of their ends.
AdvanceWatermark ==
    /\ arrived # {}
    /\ \E t \in (watermark + 1) .. Horizon :
         LET due == {w \in DOMAIN sliding : w + Size - 1 <= t}
             fired == [i \in 1 .. Cardinality(due) |->
                         Result("5m_sliding", InOrder(due)[i], Size, sliding[InOrder(due)[i]])]
         IN  /\ watermark' = t
             /\ results' = results \cup ToSet(fired)
             /\ averages' = averages \o fired
             /\ sliding' = Restrict(sliding, DOMAIN sliding \ due)
    /\ UNCHANGED <<arrived, clock, tumbling, avgSpread, compared, alerts, late>>

\* Processing time passes and ends the tumbling windows.
Tick ==
    /\ clock < MaxClock
    /\ clock' = clock + 1
    /\ LET due == {w \in DOMAIN tumbling : w + Length <= clock'} IN
         /\ results' = results \cup {Result("1m_tumbling", w, Length, tumbling[w]) : w \in due}
         /\ tumbling' = Restrict(tumbling, DOMAIN tumbling \ due)
    /\ UNCHANGED <<arrived, watermark, sliding, averages, avgSpread, compared, alerts, late>>

-----------------------------------------------------------------------------
(* SpreadWideningJoinFunction.                                             *)

\* process_element2: an average arrives.
UpdateAverage ==
    /\ averages # <<>>
    /\ avgSpread' = Head(averages)
    /\ averages' = Tail(averages)
    /\ UNCHANGED <<arrived, watermark, clock, sliding, tumbling, results, compared, alerts, late>>

\* The spread is more than Multiplier times the average, which is positive.
Widened(m, average) ==
    /\ average # None
    /\ average.acc.spread_bps_total > 0
    /\ SpreadBps[m] * average.acc.sample_count > Multiplier * average.acc.spread_bps_total

\* process_element1: a metric arrives at the join, before or after the windows.
Compare(m) ==
    /\ m \notin compared
    /\ compared' = compared \cup {m}
    /\ alerts' = IF Widened(m, avgSpread) THEN alerts \cup {<<m, avgSpread>>} ELSE alerts
    /\ UNCHANGED <<arrived, watermark, clock, sliding, tumbling, results, averages, avgSpread,
                   late>>

Next ==
    \/ \E m \in Metrics : Arrive(m) \/ Compare(m)
    \/ AdvanceWatermark \/ Tick \/ UpdateAverage

Spec == Init /\ [][Next]_vars

-----------------------------------------------------------------------------
(* Properties.                                                             *)

\* The aggregate of a set of metrics, by definition.
Total(f, S) == MapThenSumSet(LAMBDA m : f[m], S)
Extremum(Op(_), f, S) == IF S = {} THEN None ELSE Op({f[m] : m \in S})

Reference(S) ==
    [imb_total |-> Total(Imbalance, S),
     imb_min |-> Extremum(Min, Imbalance, S), imb_max |-> Extremum(Max, Imbalance, S),
     spread_bps_total |-> Total(SpreadBps, S),
     spread_bps_min |-> Extremum(Min, SpreadBps, S),
     spread_bps_max |-> Extremum(Max, SpreadBps, S),
     total_volume_total |-> Total(Volume, S),
     sample_count |-> Cardinality(S)]

SlidingResults == {r \in results : r.window_type = "5m_sliding"}
TumblingResults == {r \in results : r.window_type = "1m_tumbling"}

Accumulators ==
    [imb_total : Int, imb_min : Int \cup {None}, imb_max : Int \cup {None},
     spread_bps_total : Int, spread_bps_min : Int \cup {None}, spread_bps_max : Int \cup {None},
     total_volume_total : Int, sample_count : Nat]

TypeOK ==
    /\ arrived \subseteq Metrics /\ compared \subseteq Metrics
    /\ watermark \in Int /\ clock \in 0 .. MaxClock
    /\ DOMAIN sliding \subseteq Int /\ \A w \in DOMAIN sliding : sliding[w] \in Accumulators
    /\ DOMAIN tumbling \subseteq Nat /\ \A w \in DOMAIN tumbling : tumbling[w] \in Accumulators
    /\ IsFiniteSet(results)
    /\ results \subseteq [window_type : {"5m_sliding", "1m_tumbling"},
                           window_start : Int, window_end : Int, acc : Accumulators]
    /\ averages \in Seq(SlidingResults)
    /\ avgSpread \in SlidingResults \cup {None}
    /\ alerts \subseteq compared \X SlidingResults
    /\ late \subseteq arrived \X Int

\* The metrics a sliding window has to aggregate: its own, without the late.
Counted(w) == {m \in arrived : w \in Starts(m) /\ <<m, w>> \notin late}

\* Every sliding window with a metric is open or has fired, once, and its
\* aggregate is that of its metrics, whatever order they came in.
SlidingExact ==
    /\ \A w \in DOMAIN sliding : sliding[w] = Reference(Counted(w))
    /\ \A r \in SlidingResults :
         /\ r.acc = Reference(Counted(r.window_start))
         /\ r.window_end = r.window_start + Size /\ r.window_end <= watermark + 1
    /\ \A r, q \in SlidingResults : r.window_start = q.window_start => r = q
    /\ \A m \in arrived : \A w \in Starts(m) :
         <<m, w>> \in late \/ w \in DOMAIN sliding \cup {r.window_start : r \in SlidingResults}

\* Every metric is in one tumbling window: the windows do not overlap, and
\* their counts add up to the metrics that have arrived.
TumblingExact ==
    /\ \A r, q \in TumblingResults :
         r = q \/ r.window_end <= q.window_start \/ q.window_end <= r.window_start
    /\ \A r \in TumblingResults : \A w \in DOMAIN tumbling : r.window_end <= w
    /\ Total([r \in TumblingResults |-> r.acc.sample_count], TumblingResults)
         + Total([w \in DOMAIN tumbling |-> tumbling[w].sample_count], DOMAIN tumbling)
         = Cardinality(arrived)

\* Accumulators of parts merge to that of the whole.
MergeExact ==
    \A S \in SUBSET arrived :
        Merge(Reference(S), Reference(arrived \ S)) = Reference(arrived)

\* What is open has not ended: no more than one tumbling window is, the one of
\* the moment, and the results of the others end before it.
OpenAhead ==
    /\ \A w \in DOMAIN sliding : ~Fired(w) /\ \E m \in arrived : w \in Starts(m)
    /\ DOMAIN tumbling \subseteq {TumblingStart}
    /\ \A r \in TumblingResults :
         r.window_end = r.window_start + Length /\ r.window_end <= TumblingStart

\* The watermark is behind a metric by the slack, and one more.
WatermarkBehind ==
    watermark = -1 \/ \E m \in arrived : watermark <= At[m] - Lateness - 1

\* The averages on their way are of later and later windows, all later than
\* the window whose average the join has.
AveragesOrdered ==
    /\ \A i, j \in DOMAIN averages : i < j => averages[i].window_end < averages[j].window_end
    /\ avgSpread # None =>
         \A i \in DOMAIN averages : avgSpread.window_end < averages[i].window_end

IInv ==
    /\ TypeOK /\ SlidingExact /\ TumblingExact /\ MergeExact
    /\ OpenAhead /\ WatermarkBehind /\ AveragesOrdered

\* A metric no more than the slack behind the metrics before it is counted in
\* every window it belongs to.
OnTimeCounted ==
    [][\A m \in arrived' \ arrived :
         (\A n \in arrived : At[n] - Lateness <= At[m]) =>
            \A w \in Starts(m) : <<m, w>> \notin late']_vars

\* The join never goes back to the average of an earlier window, though many
\* windows fire at one watermark and their averages travel one by one.
AverageAdvances ==
    [][avgSpread' # avgSpread /\ avgSpread # None =>
         avgSpread'.window_end > avgSpread.window_end]_vars
=============================================================================
