-------------------------- MODULE MCRedisConsumer --------------------------
(* Instances of RedisConsumer for TLC: the logs of the topics.             *)
EXTENDS RedisConsumer

Rec(s, fate, score, window) ==
  [symbol |-> s, fate |-> fate, score |-> score, window |-> window]
Alert(s, score) == Rec(s, "ok", score, "none")
Stats(s, w) == Rec(s, "ok", 0, w)
Fated(s, fate) == Rec(s, fate, 0, "none")

Only(t, log) == [u \in Topics |-> IF u = t THEN log ELSE <<>>]

(* Alerts of two symbols, out of order of time and with a tie, one without *)
(* a timestamp, one that makes the handler raise and one that is not JSON. *)
AlertLog ==
  Only("alerts", <<Alert("BTC", 2), Alert("BTC", 1), Fated("ETH", "refused"),
                   Fated("ETH", "raises"), Alert("ETH", 2),
                   Fated("ETH", "undecodable")>>)

(* Statistics of a type that has no key of its own and of a window, two    *)
(* snapshots of a symbol, and metrics without a symbol.                    *)
StatsLog == [t \in Topics |->
  CASE t = "windowed" -> <<Stats("BTC", "other"), Stats("BTC", "stats1m")>>
    [] t = "raw"      -> <<Fated("BTC", "ok"), Fated("BTC", "ok")>>
    [] t = "metrics"  -> <<Fated("BTC", "ignored")>>
    [] OTHER          -> <<>>]
=============================================================================
