---------------------------- MODULE MCDbConsumer ----------------------------
(* Instances of DbConsumer for TLC: the logs.                              *)
EXTENDS DbConsumer

Record(k, r) == [key |-> k, row |-> r, bad |-> FALSE, json |-> TRUE]
Broken(k, r) == [key |-> k, row |-> r, bad |-> TRUE, json |-> TRUE]
Alert == [bad |-> FALSE, json |-> TRUE]
NotJson == [bad |-> TRUE, json |-> FALSE]

BatchesOf(m, w) == [t \in Tables |-> IF t = "metrics" THEN m ELSE w]
BatchesOfTwo == BatchesOf(2, 2)

LogOf(m, a, w) == [t \in Topics |-> CASE t = "metrics"  -> m
                                      [] t = "alerts"   -> a
                                      [] t = "windowed" -> w]

(* The third metric repeats the first (a redelivery by the producer); the  *)
(* second has the row of the first with another mid price.                 *)
CoreLog == LogOf(<<Record("a1", "a"), Record("a2", "a"), Record("a1", "a")>>,
                 <<Alert>>, <<Record("w", "w")>>)

(* Records that cannot be written or do not validate, beside good ones, and*)
(* one that is not JSON.                                                   *)
BrokenLog == LogOf(<<Record("a", "a"), Broken("b", "b")>>, <<Alert, NotJson>>,
                   <<Record("v", "v"), Broken("x", "x")>>)

(* What a poll of two may carry past a flush.                              *)
MetricsLog == LogOf(<<Record("a", "a"), Record("b", "b"), Record("c", "c")>>, <<>>, <<>>)
=============================================================================
