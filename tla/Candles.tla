------------------------------ MODULE Candles -------------------------------
(***************************************************************************)
(* The indicators that read a window of candles, as operators.  A candle   *)
(* holds the first, highest, lowest and last price of its period; the last *)
(* one of a window is still forming.  Prices are integers.  What bears are *)
(* to the code, bulls are in the mirror: where the source has a condition  *)
(* for each, there is one here, for a window and for the mirrored window.  *)
(***************************************************************************)
EXTENDS Integers, Sequences, FiniteSets, FiniteSetsExt, SequencesExt

IsCandle(c) ==
    /\ c.low <= c.open /\ c.open <= c.high
    /\ c.low <= c.close /\ c.close <= c.high

Candle == {c \in [open : Int, high : Int, low : Int, close : Int] : IsCandle(c)}

\* The windows that Patterns and its users can look back in.
Windows == {w \in Seq(Candle) : Len(w) >= 3}

MirroredCandle(c) ==
    [open |-> -c.open, high |-> -c.low, low |-> -c.high, close |-> -c.close]

Mirrored(candles) == [i \in DOMAIN candles |-> MirroredCandle(candles[i])]

\* The window as those see it who hope for rising prices, or for falling ones.
SeenBy(direction, candles) == IF direction = "LONG" THEN candles ELSE Mirrored(candles)

\* slice(-n).
LastOf(candles, n) == SubSeq(candles, Max({1, Len(candles) - n + 1}), Len(candles))

Highs(candles) == {candles[i].high : i \in DOMAIN candles}
Lows(candles) == {candles[i].low : i \in DOMAIN candles}

Highest(candles) == Max(Highs(candles))
Lowest(candles) == Min(Lows(candles))

-----------------------------------------------------------------------------
\* candlestick-patterns.ts.
Body(c) == IF c.close < c.open THEN c.open - c.close ELSE c.close - c.open
Height(c) == c.high - c.low
UpperWick(c) == c.high - (IF c.close < c.open THEN c.open ELSE c.close)
LowerWick(c) == (IF c.close < c.open THEN c.close ELSE c.open) - c.low
IsBull(c) == c.close > c.open
IsBear(c) == c.close < c.open

Engulfing(p, c) ==
    IsBear(p) /\ IsBull(c) /\ c.open <= p.close /\ c.close >= p.open /\ Body(c) >= Body(p)

Hammer(c) ==
    /\ Height(c) > 0
    /\ LowerWick(c) >= 2 * Body(c)
    /\ 10 * UpperWick(c) <= 6 * Body(c)
    /\ 100 * LowerWick(c) >= 55 * Height(c)

PinBar(c) == Height(c) > 0 /\ 100 * LowerWick(c) >= 65 * Height(c)

MorningStar(pp, p, c) ==
    /\ IsBear(pp) /\ 100 * Body(p) <= 35 * Body(pp)
    /\ IsBull(c) /\ 2 * c.close > pp.open + pp.close

Marubozu(c) == IsBull(c) /\ 100 * Body(c) >= 80 * Height(c)

\* The bullish patterns of the last candles; the bearish ones are those of the
\* mirrored window (a hammer is a shooting star there, a morning an evening star).
Patterns(candles) ==
    LET n == Len(candles)
        found == [engulfing |-> Engulfing(candles[n - 1], candles[n]),
                  hammer |-> Hammer(candles[n]),
                  pinBar |-> PinBar(candles[n]),
                  star |-> MorningStar(candles[n - 2], candles[n - 1], candles[n]),
                  marubozu |-> Marubozu(candles[n])]
    IN IF n < 3 THEN {} ELSE {name \in DOMAIN found : found[name]}

-----------------------------------------------------------------------------
\* market-structure.ts and support-resistance.ts: pivots need k candles on each
\* side that stay strictly below them.

SwingHighs(candles, k) ==
    {i \in (k + 1)..(Len(candles) - k) :
        \A j \in ((i - k)..(i + k)) \ {i} : candles[j].high < candles[i].high}

SwingLows(candles, k) == SwingHighs(Mirrored(candles), k)

LastHigh(candles, k) == candles[Max(SwingHighs(candles, k))].high
HighBefore(candles, k) ==
    LET swings == SwingHighs(candles, k) IN candles[Max(swings \ {Max(swings)})].high

\* Higher highs and higher lows; bearish structure is this in the mirror.
BullishStructure(candles, k) ==
    LET mirrored == Mirrored(candles)
    IN /\ Cardinality(SwingHighs(candles, k)) >= 2 /\ Cardinality(SwingLows(candles, k)) >= 2
       /\ LastHigh(candles, k) > HighBefore(candles, k)
       /\ LastHigh(mirrored, k) < HighBefore(mirrored, k)

\* breakOfStructure does not say in which direction.
BreakOfStructure(candles, k) ==
    \E direction \in {"LONG", "SHORT"} :
        LET seen == SeenBy(direction, candles)
        IN BullishStructure(seen, k) /\ Last(seen).close > LastHigh(seen, k)

\* detectBreakout: beyond all of the lookback candles before the forming one.
\* The level is the resistance, or the support in the mirror.
BreakoutLevel(candles, lookback) == Highest(LastOf(Front(candles), lookback))

-----------------------------------------------------------------------------
\* detectSwingLevels: the resistance in direction LONG, the support in SHORT.
\* Pivots are clustered in ascending order; a cluster is the sum of its prices
\* and their number.
Peak(direction, c) == IF direction = "LONG" THEN c.high ELSE c.low

\* Within 0.4 % of the mean, or of a dollar.
JoinsCluster(g, p) ==
    LET distance == IF g.sum < p * g.count THEN p * g.count - g.sum ELSE g.sum - p * g.count
    IN 1000 * distance < 4 * Max({g.sum, 100 * g.count})

Clustered(groups, p) ==
    LET near == {i \in DOMAIN groups : JoinsCluster(groups[i], p)}
    IN IF near = {} THEN Append(groups, [sum |-> p, count |-> 1])
       ELSE [groups EXCEPT ![Min(near)] = [sum |-> @.sum + p, count |-> @.count + 1]]

Clusters(candles, direction, k) ==
    LET swings == SwingHighs(SeenBy(direction, candles), k)
        PriceOf(i) == Peak(direction, candles[i])
        Before(i, j) == PriceOf(i) < PriceOf(j) \/ (PriceOf(i) = PriceOf(j) /\ i < j)
        order == SetToSortSeq(swings, Before)
    IN FoldLeft(Clustered, <<>>, [n \in DOMAIN order |-> PriceOf(order[n])])

\* How far a cluster lies ahead, times its number of touches.
Ahead(g, direction, price) ==
    IF direction = "LONG" THEN g.sum - price * g.count ELSE price * g.count - g.sum

\* Ten dollars nearer weigh as much as one touch more.
Preferred(g, h, direction, price) ==
    (1000 * g.count * g.count - Ahead(g, direction, price)) * h.count
        > (1000 * h.count * h.count - Ahead(h, direction, price)) * g.count

\* The first of the clusters that none is preferred to.
BestOf(clusters, direction, price) ==
    clusters[Min({i \in DOMAIN clusters :
        \A j \in DOMAIN clusters : ~Preferred(clusters[j], clusters[i], direction, price)})]

\* The best of those ahead, else the extreme of the window.
NearestLevel(candles, direction, ahead) ==
    IF ahead # <<>> THEN BestOf(ahead, direction, Last(candles).close)
    ELSE [sum |-> IF direction = "LONG" THEN Highest(candles) ELSE Lowest(candles),
          count |-> 1]

SwingLevel(candles, direction, k) ==
    NearestLevel(candles, direction,
                 SelectSeq(Clusters(candles, direction, k),
                           LAMBDA g : Ahead(g, direction, Last(candles).close) > 0))

-----------------------------------------------------------------------------
\* fair-value-gap.ts.  Bullish gaps of the window, by the place of their first
\* candle; bearish ones in the mirror.  The scan ends two candles short.
GapAt(candles, i) == [at |-> i, bottom |-> candles[i].high, top |-> candles[i + 2].low]

Gaps(candles) ==
    {GapAt(candles, i) : i \in {j \in 1..(Len(candles) - 2) :
        /\ candles[j + 2].low > candles[j].high
        /\ Last(candles).close >= candles[j].high}}

\* The five most recent, whichever their type.
FairValueGaps(direction, candles) ==
    LET recent == LastOf(candles, 30)
        all == {g.at : g \in Gaps(recent)} \cup {g.at : g \in Gaps(Mirrored(recent))}
    IN {g \in Gaps(SeenBy(direction, recent)) : Cardinality({i \in all : i > g.at}) < 5}

\* priceInFvg and priceNearFvg, for the gaps of one type.
InGap(direction, candles, price) ==
    LET seen == IF direction = "LONG" THEN price ELSE -price
    IN \E g \in FairValueGaps(direction, candles) : g.bottom <= seen /\ seen <= g.top

NearGap(direction, candles, price, tolerance) ==
    LET seen == IF direction = "LONG" THEN price ELSE -price
    IN \E g \in FairValueGaps(direction, candles) :
          2 * seen - g.top - g.bottom \in (-2 * tolerance)..(2 * tolerance)

\* order-block.ts.  The percentage of the impulse is one of the real price.
Blocks(direction, candles) ==
    LET seen == SeenBy(direction, candles)
    IN {i \in 1..(Len(candles) - 4) :
          /\ IsBear(seen[i])
          /\ 1000 * (Highest(SubSeq(seen, i + 1, i + 3)) - seen[i].open) >= 4 * candles[i].open
          /\ Last(seen).close > seen[i].low}

\* priceNearOrderBlock, for the four most recent blocks of either type.
NearBlock(direction, candles, price, atr) ==
    LET recent == LastOf(candles, 40)
        seen == SeenBy(direction, recent)
        at == IF direction = "LONG" THEN price ELSE -price
        all == Blocks("LONG", recent) \cup Blocks("SHORT", recent)
    IN \E i \in Blocks(direction, recent) :
          /\ Cardinality({j \in all : j > i}) < 4
          /\ 10 * seen[i].close - 3 * atr <= 10 * at
          /\ 10 * at <= 10 * seen[i].open + 3 * atr

-----------------------------------------------------------------------------
\* atr.ts, rounded down; 0 when there are not enough candles.
TrueRange(previous, c) == Max({c.high, previous.close}) - Min({c.low, previous.close})

Atr(candles, period) ==
    IF Len(candles) <= period THEN 0
    ELSE FoldLeft(LAMBDA sum, i : sum + TrueRange(candles[i - 1], candles[i]), 0,
                  [n \in 1..period |-> Len(candles) - n + 1]) \div period

\* detectTrend: by EMA50 and EMA200 when there are two hundred candles, by EMA20
\* and EMA50 when there are fewer.
TrendOf(close, fast, slow) ==
    IF close > fast /\ fast > slow THEN "up"
    ELSE IF close < fast /\ fast < slow THEN "down"
    ELSE "flat"

=============================================================================
