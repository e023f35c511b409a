---------------------------- MODULE Downsampler ----------------------------
(***************************************************************************)
(* OrderbookDownsampler with its buffers (src/src/ingestion/               *)
(* downsampling.py), called by one thread, as the service would.  Every    *)
(* message also goes through the parser and the metrics of the pipeline    *)
(* (OrderBook), so that the two can be compared.                           *)
(*                                                                         *)
(* The statistics are integers in units of 1/Scale; with Scale a common    *)
(* multiple of the denominators that occur and of the numbers of ticks,    *)
(* Welford's divisions are exact.                                          *)
(***************************************************************************)
EXTENDS OrderBook

CONSTANTS
    Symbols,
    Messages,        \* the order books the exchange may send
    BucketSeconds,
    Scale,
    Infinite,        \* float('inf') and float('-inf'): the extrema of nothing
    HasCallback,     \* on_flush is given
    MaxTicks,        \* bound: messages
    MaxClock         \* bound: time

ASSUME DownsamplerAssumption ==
    /\ BucketSeconds \in Nat \ {0}
    /\ Scale \in Nat \ {0} /\ Infinite \notin Int
    /\ HasCallback \in BOOLEAN
    /\ MaxTicks \in Nat /\ MaxClock \in Nat
    /\ Messages \subseteq [bids : Seq(Int \X Int), asks : Seq(Int \X Int)]

\* The ticks of the messages that have one.
Ticks == {FromBinance(raw) : raw \in Messages} \ {Rejected}

\* The unit of the statistics: it divides the denominators of the ratios and
\* the numbers of ticks.
ASSUME UnitAssumption ==
    \A tick \in Ticks : \A n \in 1 .. MaxTicks :
        Scale % (n * Imbalance(tick)[2]) = 0 /\ Scale % (n * Spread(tick)[2]) = 0

VARIABLES
    clock,
    buffers,     \* the buffers of the symbols seen: symbol |-> buffer
    handed,      \* the metrics returned to the caller or taken by on_flush
    dropped,     \* the metrics that add_tick flushed and nobody took
    received,    \* how many messages add_tick was called with
    latest       \* the last of them

vars == <<clock, buffers, handed, dropped, received, latest>>

-----------------------------------------------------------------------------
(* MetricsAccumulator.                                                     *)

Lesser(a, b) == IF a = Infinite \/ b < a THEN b ELSE a
Larger(a, b) == IF a = Infinite \/ b > a THEN b ELSE a

Empty == [count |-> 0, mean |-> 0, m2 |-> 0,
          min_value |-> Infinite, max_value |-> Infinite]

Scaled(ratio) == ratio[1] * (Scale \div ratio[2])

\* Slip: both factors of m2 are taken before the mean moves.
Naive(acc, value) ==
    LET count == acc.count + 1
        delta == value - acc.mean
    IN  [count |-> count, mean |-> acc.mean + delta \div count,
         m2 |-> acc.m2 + delta * delta,
         min_value |-> Lesser(acc.min_value, value),
         max_value |-> Larger(acc.max_value, value)]

Welford(acc, value) ==
    LET count == acc.count + 1
        delta == value - acc.mean
        mean == acc.mean + delta \div count
    IN  [count |-> count, mean |-> mean,
         m2 |-> acc.m2 + delta * (value - mean),
         min_value |-> Lesser(acc.min_value, value),
         max_value |-> Larger(acc.max_value, value)]

-----------------------------------------------------------------------------
(* TickBuffer.  A tick is kept with the time at which it was parsed; a     *)
(* bucket begins when its buffer is made or reset, and remembers, as       *)
(* history, whether that was for a tick already parsed or in a flush.      *)

NewBuffer(now, opened) ==
    [ticks |-> <<>>, imbalance_acc |-> Empty, spread_acc |-> Empty,
     price_first |-> 0, price_last |-> 0, price_high |-> Infinite, price_low |-> Infinite,
     created_at |-> now, opened |-> opened]

Stamped(tick) == [tick |-> tick, at |-> clock]

AddToBuffer(buffer, tick) ==
    LET mid == Mid2(tick) IN
    [ticks |-> Append(buffer.ticks, Stamped(tick)),
     imbalance_acc |-> Welford(buffer.imbalance_acc, Scaled(Imbalance(tick))),
     spread_acc |-> Welford(buffer.spread_acc, Scaled(Spread(tick))),
     price_first |-> IF buffer.price_first = 0 THEN mid ELSE buffer.price_first,
     price_last |-> mid,
     price_high |-> Larger(buffer.price_high, mid), price_low |-> Lesser(buffer.price_low, mid),
     created_at |-> buffer.created_at, opened |-> buffer.opened]

Never(buffer, now) == FALSE            \* slip: a bucket ends only when it is asked for

ShouldFlush(buffer, now) == now - buffer.created_at >= BucketSeconds

\* get_metric: the statistics, the boundaries and, as history, the ticks.
Metric(symbol, buffer) ==
    [symbol |-> symbol, of |-> buffer,
     bucket_start |-> buffer.created_at, bucket_end |-> buffer.created_at + BucketSeconds,
     weighted_imbalance |-> WeightedImbalance(Last(buffer.ticks).tick),
     vtob_ratio |-> VtobRatio(Last(buffer.ticks).tick)]

\* reset() replaces the whole state of the buffer.
\* Slip: the prices of the last bucket stay.
PricesKept(buffer, now, opened) ==
    [NewBuffer(now, opened) EXCEPT !.price_first = buffer.price_first, !.price_last = buffer.price_last]

Reset(buffer, now, opened) == NewBuffer(now, opened)

-----------------------------------------------------------------------------
(* OrderbookDownsampler.                                                   *)

Init ==
    /\ clock = 0 /\ buffers = <<>> /\ handed = {} /\ dropped = {}
    /\ received = 0 /\ latest = [bids |-> <<>>, asks |-> <<>>]

\* The callback takes a metric unless it raises; the error is logged.
Taken == IF HasCallback THEN BOOLEAN ELSE {FALSE}

\* add_tick: parse, end an expired bucket that is not empty, add.  The metric
\* that _flush_buffer returns is not used.  The clock is read three times: the
\* message is stamped as it is parsed, the buffer is made or asked afterwards,
\* and what reset() reads follows the callback.
AddTick(symbol, raw) ==
    LET tick == FromBinance(raw) IN
    /\ received < MaxTicks
    /\ received' = received + 1 /\ latest' = raw
    /\ \/ tick = Rejected /\ UNCHANGED <<clock, buffers, handed, dropped>>
       \/ /\ tick # Rejected
          /\ \E now \in clock .. MaxClock : \E end \in now .. MaxClock : \E taken \in Taken :
               LET buffer == IF symbol \in DOMAIN buffers
                               THEN buffers[symbol] ELSE NewBuffer(now, "tick")
                   flushes == ShouldFlush(buffer, now) /\ buffer.ticks # <<>>
                   current == IF flushes THEN Reset(buffer, end, "tick") ELSE buffer
                   made == IF flushes THEN {Metric(symbol, buffer)} ELSE {}
               IN  /\ clock' = end
                   /\ buffers' = [s \in DOMAIN buffers \cup {symbol} |->
                                    IF s = symbol THEN AddToBuffer(current, tick)
                                                  ELSE buffers[s]]
                   /\ handed' = handed \cup (IF taken THEN made ELSE {})
                   /\ dropped' = dropped \cup (IF taken THEN {} ELSE made)

\* The clock as it is read for each of the symbols, up to a time.
Readings(symbols, end) == [symbols -> clock .. end]

\* The buffers of the symbols are flushed and their metrics returned; an empty
\* buffer is left as it is.
FlushEach(symbols, at, end) ==
    LET full == {s \in symbols : buffers[s].ticks # <<>>} IN
    /\ full # {}
    /\ buffers' = [s \in DOMAIN buffers |->
                     IF s \in full THEN Reset(buffers[s], at[s], "flush") ELSE buffers[s]]
    /\ handed' = handed \cup {Metric(s, buffers[s]) : s \in full}
    /\ clock' = end
    /\ UNCHANGED <<dropped, received, latest>>

\* A buffer that has expired when it is asked has when it is reset: one reading
\* stands for both.
GetReadyMetrics ==
    \E end \in clock .. MaxClock : \E at \in Readings(DOMAIN buffers, end) :
        FlushEach({s \in DOMAIN buffers : ShouldFlush(buffers[s], at[s])}, at, end)

Flush(symbol) ==
    /\ symbol \in DOMAIN buffers
    /\ \E end \in clock .. MaxClock : \E at \in Readings({symbol}, end) :
          FlushEach({symbol}, at, end)

FlushAll ==
    \E end \in clock .. MaxClock : \E at \in Readings(DOMAIN buffers, end) :
        FlushEach(DOMAIN buffers, at, end)

Tick ==
    /\ clock < MaxClock
    /\ clock' = clock + 1
    /\ UNCHANGED <<buffers, handed, dropped, received, latest>>

Next ==
    \/ \E symbol \in Symbols : \E raw \in Messages : AddTick(symbol, raw)
    \/ \E symbol \in Symbols : Flush(symbol)
    \/ GetReadyMetrics \/ FlushAll \/ Tick

Spec == Init /\ [][Next]_vars

-----------------------------------------------------------------------------
(* Properties.                                                             *)

\* The statistics of a sequence of ticks, by definition; m2 is the sum of the
\* squared differences from the mean.
Values(ticks, Of(_)) == [i \in DOMAIN ticks |-> Of(ticks[i].tick)]
Least(v, values) ==
    IF values = <<>> THEN v = Infinite
    ELSE (\E i \in DOMAIN values : v = values[i]) /\ \A i \in DOMAIN values : v <= values[i]
Greatest(v, values) ==
    IF values = <<>> THEN v = Infinite
    ELSE (\E i \in DOMAIN values : v = values[i]) /\ \A i \in DOMAIN values : v >= values[i]

Exact(acc, values) ==
    /\ acc.count = Len(values)
    /\ acc.mean * acc.count = SumUp(values)
    /\ acc.m2 = SumUp([i \in DOMAIN values |-> (values[i] - acc.mean) * (values[i] - acc.mean)])
    /\ Least(acc.min_value, values) /\ Greatest(acc.max_value, values)

BufferExact(buffer) ==
    LET mids == Values(buffer.ticks, Mid2) IN
    /\ Exact(buffer.imbalance_acc, Values(buffer.ticks, LAMBDA t : Scaled(Imbalance(t))))
    /\ Exact(buffer.spread_acc, Values(buffer.ticks, LAMBDA t : Scaled(Spread(t))))
    /\ Least(buffer.price_low, mids) /\ Greatest(buffer.price_high, mids)
    /\ buffer.price_first = IF mids = <<>> THEN 0 ELSE Head(mids)
    /\ mids # <<>> => buffer.price_last = Last(mids)

Held == {buffers[s] : s \in DOMAIN buffers} \cup {m.of : m \in handed \cup dropped}

Extrema == Int \cup {Infinite}

Accumulators ==
    [count : Nat, mean : Int, m2 : Int, min_value : Extrema, max_value : Extrema]

Buffers ==
    [ticks : Seq([tick : Ticks, at : Nat]), imbalance_acc : Accumulators, spread_acc : Accumulators,
     price_first : Int, price_last : Int, price_high : Extrema, price_low : Extrema,
     created_at : Nat, opened : {"tick", "flush"}]

TypeOK ==
    /\ clock \in 0 .. MaxClock /\ received \in 0 .. MaxTicks
    /\ latest \in Messages \cup {[bids |-> <<>>, asks |-> <<>>]}
    /\ DOMAIN buffers \subseteq Symbols
    /\ \A m \in handed \cup dropped : m.symbol \in Symbols /\ m.of.ticks # <<>>
    /\ \A b \in Held : b \in Buffers /\ Len(b.ticks) <= received /\ b.created_at <= clock

\* Every buffer, and every metric made of one, has the exact statistics of its
\* own ticks: nothing of an earlier bucket is left in it.
StatisticsExact == TypeOK /\ \A b \in Held : BufferExact(b)

\* The ticks of a bucket are in the order of time, and every one after the first
\* lies within the bounds that its metric reports.  The first does not always: a
\* tick that begins a bucket was parsed before the bucket's start was read, and a
\* bucket begun by a flush may have expired, still empty, when its first tick comes.
WithinBounds ==
    \A b \in Held : \A i \in DOMAIN b.ticks :
        /\ b.opened = "flush" => b.created_at <= b.ticks[i].at
        /\ i = 1 /\ b.opened = "tick" => b.ticks[i].at <= b.created_at
        /\ i > 1 => /\ b.created_at <= b.ticks[i].at
                    /\ b.ticks[i].at < b.created_at + BucketSeconds
                    /\ b.ticks[i - 1].at <= b.ticks[i].at

\* Both ways of reading a message are sound.  Of a book that came in price order
\* both have the same best prices, imbalance, spread and share at the top; their
\* weighted imbalances are different measures and are not compared.
BooksAgree == PipelineSound(latest) /\ TickAgrees(latest)
=============================================================================
