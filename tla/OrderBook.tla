----------------------------- MODULE OrderBook -----------------------------
(***************************************************************************)
(* What becomes of an order book: OrderBookParser.parse, calculate_metrics *)
(* and the validators of OrderBookSnapshot and OrderBookMetrics on the way *)
(* of the pipeline; OrderbookTick and MetricCalculator on the way of the   *)
(* downsampler.                                                            *)
(*                                                                         *)
(* A level is <<price, quantity>>.  A ratio is a pair of its numerator and *)
(* its positive denominator, so the floats of the code are exact here; the *)
(* factors 10000 and 1/2 of the spread in basis points are left out.       *)
(***************************************************************************)
EXTENDS Integers, FiniteSets, SequencesExt

CONSTANTS
    Depth,       \* calculate_depth, max_depth
    Harmonic     \* a common multiple of 1 .. Depth, the unit of the weights 1/i

ASSUME OrderBookAssumption ==
    /\ Depth \in Nat \ {0}
    /\ Harmonic \in Nat \ {0} /\ \A i \in 1 .. Depth : Harmonic % i = 0

Rejected == <<>>                      \* None, a ValidationError, a ValueError

Top(side) == SubSeq(side, 1, IF Len(side) < Depth THEN Len(side) ELSE Depth)
Price(level) == level[1]
Quantity(level) == level[2]

SumUp(values) == FoldLeft(LAMBDA sum, v : sum + v, 0, values)
TotalQuantity(side) == SumUp([i \in DOMAIN side |-> Quantity(side[i])])

-----------------------------------------------------------------------------
(* The pipeline.                                                           *)

Positive(level) == Price(level) > 0 /\ Quantity(level) > 0

ParseLevels(levels) == {i \in DOMAIN levels : Positive(levels[i])}

\* list.sort keeps levels with equal keys in their order.
Ahead(levels, sign, i, j) ==
    LET a == sign * Price(levels[i])
        b == sign * Price(levels[j])
    IN  a < b \/ (a = b /\ i < j)

Place(levels, sign, i) == Cardinality({j \in ParseLevels(levels) : Ahead(levels, sign, j, i)}) + 1

Sorted(levels, sign) ==
    [k \in 1 .. Cardinality(ParseLevels(levels)) |->
        levels[CHOOSE i \in ParseLevels(levels) : Place(levels, sign, i) = k]]

AsReceived(levels) == Sorted(levels, 0)       \* slip: not sorted

SortedBids(levels) == Sorted(levels, -1)
SortedAsks(levels) == Sorted(levels, 1)

Parse(raw) ==
    LET bids == SortedBids(raw.bids)
        asks == SortedAsks(raw.asks)
    IN  IF bids = <<>> \/ asks = <<>> THEN Rejected ELSE [bids |-> bids, asks |-> asks]

Weighted(side) == SumUp([i \in DOMAIN side |-> Quantity(side[i]) * (Harmonic \div i)])

Ratio(bid, ask) == <<bid - ask, bid + ask>>

CalculateMetrics(book) ==
    LET bids == Top(book.bids)
        asks == Top(book.asks)
        best_bid == Price(bids[1])
        best_ask == Price(asks[1])
        total_volume == TotalQuantity(bids) + TotalQuantity(asks)
    IN  [best_bid |-> best_bid, best_ask |-> best_ask,
         total_volume |-> total_volume,
         imbalance_ratio |-> Ratio(TotalQuantity(bids), TotalQuantity(asks)),
         weighted_imbalance |-> Ratio(Weighted(bids), Weighted(asks)),
         spread_bps |-> <<best_ask - best_bid, best_ask + best_bid>>,
         vtob_ratio |-> <<Quantity(bids[1]) + Quantity(asks[1]), total_volume>>]

InUnit(ratio) == -ratio[2] <= ratio[1] /\ ratio[1] <= ratio[2]

\* OrderBookMetrics, the model the Flink jobs parse a metric with.
ValidMetrics(metrics) ==
    /\ metrics.best_bid > 0 /\ metrics.best_ask > 0
    /\ InUnit(metrics.imbalance_ratio) /\ InUnit(metrics.weighted_imbalance)
    /\ metrics.spread_bps[1] >= 0

-----------------------------------------------------------------------------
(* The downsampler.                                                        *)

Descending(side) == \A i, j \in DOMAIN side : i < j => Price(side[i]) >= Price(side[j])
Ascending(side) == \A i, j \in DOMAIN side : i < j => Price(side[i]) <= Price(side[j])

\* OrderbookTick.__post_init__, which compares the lowest bid with the best ask.
ValidTick(tick) ==
    /\ tick.bids # <<>> /\ tick.asks # <<>>
    /\ \A i \in DOMAIN tick.bids : Positive(tick.bids[i])
    /\ \A i \in DOMAIN tick.asks : Positive(tick.asks[i])
    /\ Descending(tick.bids) /\ Ascending(tick.asks)
    /\ Price(Last(tick.bids)) < Price(Head(tick.asks))

FromBinance(raw) ==
    LET tick == [bids |-> Top(raw.bids), asks |-> Top(raw.asks)] IN
    IF ValidTick(tick) THEN tick ELSE Rejected

BestBid(tick) == Price(tick.bids[1])
BestAsk(tick) == Price(tick.asks[1])

\* Twice the mid-price, and the spread as a ratio of it.
Mid2(tick) == BestBid(tick) + BestAsk(tick)
Spread(tick) == <<BestAsk(tick) - BestBid(tick), Mid2(tick)>>

Imbalance(tick) == Ratio(TotalQuantity(tick.bids), TotalQuantity(tick.asks))

\* The weight falls with the distance from the mid-price: max(0, 1 - 2 distance / mid).
Decay(level, mid2, sign) ==
    LET distance == sign * (mid2 - 2 * Price(level)) IN
    IF 2 * distance < mid2 THEN mid2 - 2 * distance ELSE 0

Decayed(side, mid2, sign) ==
    SumUp([i \in DOMAIN side |-> Quantity(side[i]) * Decay(side[i], mid2, sign)])

WeightedImbalance(tick) ==
    LET mid2 == Mid2(tick)
        bid == Decayed(tick.bids, mid2, 1)
        ask == Decayed(tick.asks, mid2, -1)
    IN  IF bid + ask > 0 THEN Ratio(bid, ask) ELSE <<0, 1>>

VtobRatio(tick) ==
    <<Quantity(tick.bids[1]) + Quantity(tick.asks[1]),
      TotalQuantity(tick.bids) + TotalQuantity(tick.asks)>>

-----------------------------------------------------------------------------
(* What holds of every book.                                               *)

Same(r, q) == r[1] * q[2] = q[1] * r[2]

\* The metrics of a parsed book are in range, and the jobs reject exactly the
\* crossed books.
PipelineSound(raw) ==
    LET book == Parse(raw)
        metrics == CalculateMetrics(book)
    IN  book # Rejected =>
          /\ \A i \in DOMAIN book.bids : Price(book.bids[i]) <= metrics.best_bid
          /\ \A i \in DOMAIN book.asks : Price(book.asks[i]) >= metrics.best_ask
          /\ metrics.total_volume > 0 /\ InUnit(metrics.vtob_ratio)
          /\ InUnit(metrics.imbalance_ratio) /\ InUnit(metrics.weighted_imbalance)
          /\ ValidMetrics(metrics) <=> metrics.best_bid <= metrics.best_ask

\* How the exchange sends a book.
PriceOrdered(raw) == Descending(raw.bids) /\ Ascending(raw.asks)

\* A book the downsampler accepts is one the parser accepts, and a tick's
\* weighted imbalance is in range.  The tick takes the first Depth levels as
\* they come, the metrics those of the sorted book: if the book came in price
\* order, both have the same best prices, imbalance and share at the top.
TickAgrees(raw) ==
    LET tick == FromBinance(raw)
        metrics == CalculateMetrics(Parse(raw))
    IN  tick # Rejected =>
          /\ Parse(raw) # Rejected
          /\ InUnit(WeightedImbalance(tick))
          /\ PriceOrdered(raw) =>
               /\ BestBid(tick) = metrics.best_bid /\ BestAsk(tick) = metrics.best_ask
               /\ Same(Imbalance(tick), metrics.imbalance_ratio)
               /\ Same(Spread(tick), metrics.spread_bps)
               /\ Same(VtobRatio(tick), metrics.vtob_ratio)
=============================================================================
