---------------------------- MODULE MCAlertsJob ----------------------------
(* Instances of AlertsJob: one symbol, its metrics in two partitions.      *)
EXTENDS AlertsJob, TLC

CONSTANTS btc, p1, p2

MCSymbols == {btc}
MCKinds == {"EXTREME_IMBALANCE", "IMBALANCE_FLIP", "VELOCITY_SPIKE"}
MCPartitions == {p1, p2}

Metric(at, imbalance) ==
    [symbol |-> btc, at |-> at, imbalance |-> imbalance, valid |-> TRUE]

Invalid == [symbol |-> btc, at |-> 1, imbalance |-> 15, valid |-> FALSE]

\* Extreme imbalances on both sides, out of order between the partitions, and
\* a metric that does not validate.  Medium makes both extreme, VelocityLimit
\* neither a spike, which would be one more key for the limiter.
MCLog == p1 :> <<Invalid, Metric(1, 12)>> @@ p2 :> <<Metric(3, -11)>>
=============================================================================
