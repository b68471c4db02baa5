----------------------------- MODULE Strategies -----------------------------
(***************************************************************************)
(* The five strategies and their selector, as operators.  A reading of the *)
(* market is a record: candles of a quarter of an hour and of an hour, and *)
(* what the slower indicators say about them.  Every strategy looks for a  *)
(* long and, in the mirror, for a short.  Prices are integers, percentages *)
(* and multiples are in hundredths; fractions of those units are dropped.  *)
(***************************************************************************)
EXTENDS Candles

CONSTANT Lookbacks      \* what rangeBounceLookbackPeriod may be set to

ASSUME LookbacksAssumption == Lookbacks \subseteq 5..200

Directions == {"LONG", "SHORT"}
Opposite(direction) == IF direction = "LONG" THEN "SHORT" ELSE "LONG"
Sign(direction) == IF direction = "LONG" THEN 1 ELSE -1
Magnitude(p) == IF p < 0 THEN -p ELSE p
Clamped(x, low, high) == Max({low, Min({high, x})})

\* getRegime: two trends, the volatility of BTC and its last move.
RegimeOf(btc, eth, volatility, move) ==
    IF volatility > 400 \/ Magnitude(move) > 600 THEN [regime |-> "no_trade", score |-> 20]
    ELSE IF btc = "up" /\ eth # "down" THEN [regime |-> "bullish", score |-> 80]
    ELSE IF btc = "down" /\ eth # "up" THEN [regime |-> "bearish", score |-> 80]
    ELSE IF volatility > 150 THEN [regime |-> "high_volatility", score |-> 40]
    ELSE [regime |-> "sideways", score |-> 60]

\* sessionScoreAdjustment, by the hour.
SessionAdjustment(hour) ==
    IF hour \in (7..9) \cup (12..14) THEN 4 ELSE IF hour < 7 THEN -5 ELSE 0

\* The bounds the DTO sets to the columns of several strategies.
HotScores == 0..10000
StopDistances == 10..3000
FirstMultiples == 50..2000
SecondMultiples == 50..3000
SpikeVolumes == 10..2000
ReclaimVolumes == 50..500
Buffers == 10..500

\* buildStrategyConfig: the columns of the settings that each strategy reads, which
\* nobody compares with one another but for the ends of an RSI band.  The limits on
\* the RSI of a short are those it has in the mirror.
BreakoutConfig ==
    [enabled : BOOLEAN, minHotScore : HotScores, minVolume : SpikeVolumes, lookback : 2..200,
     maxSl : StopDistances, tp1 : FirstMultiples, tp2 : SecondMultiples]

PullbackConfig ==
    [enabled : BOOLEAN, minHotScore : HotScores, rsi : [Directions -> SUBSET (0..100)],
     atrMultiplier : 10..1000, maxSl : StopDistances, tp1 : FirstMultiples, tp2 : SecondMultiples]

ReversalConfig ==
    [enabled : BOOLEAN, oversold : [Directions -> 0..100], deviation : 10..2500,
     decline : 5..500, maxSl : StopDistances]

ReclaimConfig ==
    [enabled : BOOLEAN, minHotScore : HotScores, buffer : Buffers, minVolume : ReclaimVolumes,
     maxSl : StopDistances, tp1 : FirstMultiples, tp2 : SecondMultiples]

BounceConfig ==
    [enabled : BOOLEAN, minHotScore : HotScores, lookback : Lookbacks, proximity : 10..500,
     rsiMax : [Directions -> 0..100], maxSl : StopDistances, tp1 : FirstMultiples,
     tp2 : SecondMultiples]

StrategyConfig ==
    [breakout_volume : BreakoutConfig, pullback_continuation : PullbackConfig,
     mean_reversion : ReversalConfig, trend_reclaim : ReclaimConfig, range_bounce : BounceConfig]

-----------------------------------------------------------------------------
Price(m) == Last(m.quarters).close

\* The level of the range a bounce runs in that lies ahead in that direction.
RangeLevel(m, lookback, direction) == SwingLevel(LastOf(m.hours, lookback), direction, 2)

Trends == {"up", "down", "flat"}

\* What the strategies read of a symbol: windows of candles that end at the
\* price, the indicators, and the volume of the last candle in hundredths of its
\* average and (fading) of the most of the last six.
ChartFields ==
    [quarters |-> Windows, hours |-> Windows, ema20 |-> Int, ema20Prev |-> Int, ema50 |-> Int,
     ema50Prev |-> Int, ema200 |-> Int, hour20 |-> Int, hour50 |-> Int, hour200 |-> Int,
     vwap |-> Int, rsi |-> Int, hour |-> Int, volume |-> Int, trend4 |-> Trends,
     divergence |-> Trends, fading |-> Nat]

IsChart(m) ==
    /\ \A f \in DOMAIN ChartFields : f \in DOMAIN m /\ m[f] \in ChartFields[f]
    /\ Price(m) > 0 /\ Atr(m.quarters, 14) \in Nat
    /\ \A n \in Lookbacks, d \in Directions :
          RangeLevel(m, n, d) \in [sum : Int, count : Nat \ {0}]

\* A reading in the eyes of those who hope for a long, or for a short, with what
\* every strategy works out of its candles.
Looking(m, direction, candles) ==
    LET s == Sign(direction)
        Seen(trend) == IF direction = "LONG" \/ trend = "flat" THEN trend
                       ELSE IF trend = "up" THEN "down" ELSE "up"
    IN [direction |-> direction, candles |-> candles, last |-> Last(candles),
        previous |-> Last(Front(candles)), patterns |-> Patterns(candles),
        atr |-> Atr(m.quarters, 14), hours |-> SeenBy(direction, m.hours),
        price |-> s * Price(m), ema20 |-> s * m.ema20, ema20Prev |-> s * m.ema20Prev,
        ema50 |-> s * m.ema50, ema50Prev |-> s * m.ema50Prev, ema200 |-> s * m.ema200,
        hour20 |-> s * m.hour20, hour50 |-> s * m.hour50, vwap |-> s * m.vwap,
        rsi |-> IF direction = "LONG" THEN m.rsi ELSE 100 - m.rsi,
        trend |-> Seen(TrendOf(Price(m), m.hour50, m.hour200)), trend4 |-> Seen(m.trend4),
        divergence |-> Seen(m.divergence)]

View(m, direction) == Looking(m, direction, SeenBy(direction, m.quarters))

\* A short against a bullish market is scored lower.
RegimePenalty(m, direction) == IF direction = "SHORT" /\ m.regime = "bullish" THEN -6 ELSE 0

\* The body is at least that share of the range, or of a tenth of the ATR.
BodyAtLeast(c, share, atr) == 1000 * Body(c) >= share * Max({10 * Height(c), atr})
BodyRatio(c, atr) == (1000 * Body(c)) \div Max({10 * Height(c), atr})

\* What every strategy does with a stop: not a loss, or too far away.
RiskFits(m, v, stop, maxSl) ==
    LET risk == v.price - stop IN risk > 0 /\ 10000 * risk <= maxSl * Price(m)

Target(v, stop, multiple) == v.price + ((v.price - stop) * multiple) \div 100

\* The reward at a target is worth the risk, to a unit of the price.
Pays(v, stop, target, minRiskReward) ==
    100 * (target + 1 - v.price) > minRiskReward * (v.price - stop)

Candidates ==
    [strategy : {"breakout_volume", "pullback_continuation", "mean_reversion", "trend_reclaim",
                 "range_bounce"},
     direction : Directions, entryPrice : Nat \ {0}, stopLoss : Int, takeProfit1 : Int,
     takeProfit2 : Int, riskReward : Int, strategyScore : Int]

Candidate(strategy, m, direction, stop, tp1, tp2, rewarded, score) ==
    LET s == Sign(direction)
        price == s * Price(m)
    IN [strategy |-> strategy, direction |-> direction, entryPrice |-> Price(m),
        stopLoss |-> s * stop, takeProfit1 |-> s * tp1, takeProfit2 |-> s * tp2,
        riskReward |-> (100 * (rewarded - price)) \div (price - stop), strategyScore |-> score]

\* The candidate of an enabled strategy when its setup is there, the stop is near
\* enough and the target that is to be rewarded pays.
Proposed(strategy, cfg, m, v, minRiskReward, setup, stop, targets, rewarded, score) ==
    IF cfg.enabled /\ setup /\ RiskFits(m, v, stop, cfg.maxSl) /\ Pays(v, stop, rewarded, minRiskReward)
    THEN {Candidate(strategy, m, v.direction, stop, targets.tp1, targets.tp2, rewarded, score)}
    ELSE {}

\* The targets at two multiples of the risk.
Multiples(v, stop, cfg) == [tp1 |-> Target(v, stop, cfg.tp1), tp2 |-> Target(v, stop, cfg.tp2)]

-----------------------------------------------------------------------------
\* breakout-volume.strategy.ts.
BrokenLevel(cfg, v) == BreakoutLevel(v.hours, cfg.lookback)

BreakoutSetup(cfg, m, v) ==
    /\ m.hot >= cfg.minHotScore /\ m.volume >= cfg.minVolume /\ m.spread <= 40 /\ v.atr > 0
    /\ v.price > v.ema50 /\ v.price > v.ema200
    /\ Last(v.hours).close > BrokenLevel(cfg, v)
    /\ BreakOfStructure(LastOf(m.quarters, 60), 3)
    /\ m.regime # "no_trade" /\ v.trend4 # "down"
    /\ v.patterns # {} \/ (IsBull(v.last) /\ BodyAtLeast(v.last, 55, v.atr))

BreakoutStop(cfg, v) ==
    LET level == BrokenLevel(cfg, v)
    IN Min({level - (5 * Magnitude(level)) \div 1000, v.price - (3 * v.atr) \div 2})

BreakoutScore(cfg, m, v) ==
    72 + (Min({150, m.volume - cfg.minVolume}) + 5) \div 10
    + (IF NearGap(v.direction, m.hours, Price(m), v.atr) THEN 5 ELSE 0)
    + (IF v.trend4 = "up" THEN 4 ELSE 0) + 3
    + (IF v.patterns \cap {"engulfing", "marubozu"} # {} THEN 4 ELSE 2)
    + SessionAdjustment(m.hour) + RegimePenalty(m, v.direction)

BreakoutVolume(cfg, m, v, minRiskReward) ==
    LET stop == BreakoutStop(cfg, v)
        targets == Multiples(v, stop, cfg)
    IN Proposed("breakout_volume", cfg, m, v, minRiskReward, BreakoutSetup(cfg, m, v), stop,
                targets, targets.tp2, BreakoutScore(cfg, m, v))

\* In hundredths, rounded.
PullbackScore(hot, strength, body, rsi, distance, bonuses) ==
    LET sum == 7400 + Clamped((strength - 18) * 12, 0, 800) + Clamped((body - 45) * 20, 0, 700)
               + Max({0, 600 - 40 * Magnitude(rsi - 50)})
               + Max({0, 500 - 8 * Magnitude(distance - 35)})
               + Clamped((hot - 5500) \div 10, 0, 400) + 100 * bonuses
    IN (Clamped(sum, 7400, 9900) + 50) \div 100

\* pullback-continuation.strategy.ts.
PullbackSetup(cfg, m, v) ==
    LET distance == Magnitude(v.price - v.ema20)
    IN /\ v.atr > 0 /\ m.hot >= cfg.minHotScore /\ m.spread <= 50
       /\ v.trend = "up" /\ v.trend4 # "down"
       /\ v.ema20 > v.ema50 /\ v.ema20 > v.ema20Prev /\ v.ema50 >= v.ema50Prev
       /\ v.hour20 > v.hour50 /\ v.price > v.hour50
       /\ v.rsi \in cfg.rsi[v.direction]
       /\ 100 * distance >= 5 * v.atr /\ 10000 * distance <= 85 * cfg.atrMultiplier * v.atr
       /\ 5 * (Lowest(<<v.previous, v.last>>) - v.ema20) <= v.atr
       /\ 100 * Magnitude(v.ema20 - v.ema50) >= 18 * v.atr
       /\ v.price > v.ema50 /\ v.price >= v.ema20
       /\ IsBull(v.last) /\ v.last.close >= v.previous.close
       /\ BodyAtLeast(v.last, 50, v.atr) /\ m.volume >= 90
       /\ m.regime # "no_trade" /\ (v.direction = "LONG" => m.regime # "bearish")
       /\ v.patterns \ {"star"} # {} \/ BodyAtLeast(v.last, 55, v.atr)
       /\ v.divergence # "down"

PullbackStop(v) == Min({Lowest(LastOf(v.candles, 6)) - v.atr \div 5, v.ema50 - v.atr \div 4})

PullbackBonuses(m, v) ==
    LET twoLegged == /\ v.candles[Len(v.candles) - 2].low > v.previous.low
                     /\ 10 * (v.previous.low - v.ema20) <= 3 * v.atr
    IN (IF NearBlock(v.direction, m.quarters, Price(m), v.atr) THEN 5 ELSE 0)
       + (IF twoLegged THEN 4 ELSE 0)
       + (IF "engulfing" \in v.patterns THEN 5
          ELSE IF v.patterns \cap {"pinBar", "hammer"} # {} THEN 3 ELSE 0)
       + (IF v.divergence = "up" THEN 3 ELSE 0)
       + SessionAdjustment(m.hour) + RegimePenalty(m, v.direction)

PullbackContinuation(cfg, m, v, minRiskReward) ==
    LET stop == PullbackStop(v)
        targets == Multiples(v, stop, cfg)
        PerAtr(p) == (100 * Magnitude(p)) \div v.atr
    IN Proposed("pullback_continuation", cfg, m, v, minRiskReward, PullbackSetup(cfg, m, v), stop,
                targets, targets.tp1,
                PullbackScore(m.hot, PerAtr(v.ema20 - v.ema50), BodyRatio(v.last, v.atr), v.rsi,
                              PerAtr(v.price - v.ema20), PullbackBonuses(m, v)))

\* exhaustion-reversal.strategy.ts.  A short against a bullish market wants more.
ReversalSetup(cfg, m, v) ==
    LET oversold == cfg.oversold[v.direction]
        Deviates(percent) == 10000 * (v.vwap - v.price) > percent * m.vwap
    IN /\ v.atr > 0 /\ m.spread <= 50 /\ m.regime \notin {"no_trade", "high_volatility"}
       /\ v.rsi < oversold /\ Deviates(cfg.deviation)
       /\ 100 * (v.ema20 - v.price) > 2 * m.ema20
       /\ m.fading < cfg.decline /\ IsBear(v.previous) /\ IsBull(v.last)
       /\ v.direction = "SHORT" /\ m.regime = "bullish"
             => v.rsi < oversold - 4 /\ Deviates(cfg.deviation + 50)
       /\ v.patterns # {}

ReversalStop(v) == Lowest(LastOf(v.candles, 5)) - v.atr \div 2

ReversalTargets(v, stop) ==
    [tp1 |-> Target(v, stop, 180), tp2 |-> Max({Target(v, stop, 260), v.vwap})]

ReversalScore(cfg, m, v) ==
    74 + (IF "engulfing" \in v.patterns THEN 6 ELSE IF "hammer" \in v.patterns THEN 4
          ELSE IF "pinBar" \in v.patterns THEN 3 ELSE 2)
    + (IF v.divergence = "up" THEN 6 ELSE 0)
    + (IF v.rsi < cfg.oversold[v.direction] - 8 THEN 4 ELSE 0) + SessionAdjustment(m.hour)

ExhaustionReversal(cfg, m, v, minRiskReward) ==
    LET stop == ReversalStop(v)
        targets == ReversalTargets(v, stop)
    IN Proposed("mean_reversion", cfg, m, v, minRiskReward, ReversalSetup(cfg, m, v), stop,
                targets, targets.tp1, ReversalScore(cfg, m, v))

\* trend-reclaim.strategy.ts.
ReclaimBand(cfg, v) == (cfg.buffer * v.atr) \div 100

ReclaimSetup(cfg, m, v) ==
    LET confirming == {"engulfing", "marubozu", "pinBar", "hammer"}
    IN /\ v.atr > 0 /\ m.hot >= cfg.minHotScore /\ m.spread <= 45
       /\ v.trend = "up" /\ v.trend4 # "down" /\ m.regime # "no_trade"
       /\ v.price > v.hour20 /\ v.hour20 > v.hour50 /\ v.price > v.ema50
       /\ v.ema20 > v.ema20Prev /\ 100 * Magnitude(v.ema20 - v.ema50) >= 22 * v.atr
       /\ v.previous.low <= v.ema20 + ReclaimBand(cfg, v)
       /\ v.last.close > v.ema20 /\ IsBull(v.last) /\ BodyAtLeast(v.last, 55, v.atr)
       /\ m.volume >= cfg.minVolume /\ v.rsi \in 45..72
       /\ v.patterns \cap confirming # {} \/ BodyAtLeast(v.last, 70, v.atr)

ReclaimStop(cfg, v) ==
    Min({Lowest(LastOf(v.candles, 6)) - v.atr \div 4, v.ema50 - ReclaimBand(cfg, v)})

ReclaimScore(cfg, m, v) ==
    LET excess == Max({0, m.volume - cfg.minVolume})
    IN 79 + Min({8, (8 * excess + 50) \div 100})
       + (IF NearBlock(v.direction, m.quarters, Price(m), v.atr) THEN 5 ELSE 0)
       + (IF InGap(v.direction, m.hours, Price(m)) THEN 5 ELSE 0)
       + (IF v.patterns \cap {"engulfing", "marubozu"} # {} THEN 4 ELSE 2)
       + (IF v.trend4 = "up" THEN 4 ELSE 0)
       + SessionAdjustment(m.hour) + RegimePenalty(m, v.direction)

TrendReclaim(cfg, m, v, minRiskReward) ==
    LET stop == ReclaimStop(cfg, v)
        targets == Multiples(v, stop, cfg)
    IN Proposed("trend_reclaim", cfg, m, v, minRiskReward, ReclaimSetup(cfg, m, v), stop,
                targets, targets.tp2, ReclaimScore(cfg, m, v))

\* range-bounce.strategy.ts.  A bounce off the near level of a range towards its
\* far level.
LevelSeen(v, level) == Sign(v.direction) * (level.sum \div level.count)

NearLevel(cfg, m, v) == LevelSeen(v, RangeLevel(m, cfg.lookback, Opposite(v.direction)))
FarLevel(cfg, m, v) == LevelSeen(v, RangeLevel(m, cfg.lookback, v.direction))
Touches(cfg, m, v) == RangeLevel(m, cfg.lookback, Opposite(v.direction)).count

\* Faulty variant: three times the ATR, for three tenths of it.
BounceTargetsShort(cfg, v, stop, far) ==
    [tp1 |-> Min({Target(v, stop, cfg.tp1), far - 3 * v.atr}),
     tp2 |-> Min({Target(v, stop, cfg.tp2), far})]

\* The targets of a bounce end before the other side of the range does.
BounceTargets(cfg, v, stop, far) ==
    [tp1 |-> Min({Target(v, stop, cfg.tp1), far - (3 * v.atr) \div 10}),
     tp2 |-> Min({Target(v, stop, cfg.tp2), far})]

BounceSetup(cfg, m, v) ==
    LET near == NearLevel(cfg, m, v)
        far == FarLevel(cfg, m, v)
    IN /\ Len(m.hours) >= cfg.lookback /\ v.atr > 0 /\ m.hot >= cfg.minHotScore /\ m.spread <= 45
       /\ m.regime \notin {"no_trade", "high_volatility"}
       /\ 100 * (far - near) >= 3 * Min({Magnitude(near), Magnitude(far)})
       /\ 100 * Magnitude(v.last.low - near) <= cfg.proximity * v.atr
       /\ Touches(cfg, m, v) >= 2
       /\ 1000 * (v.last.low - near) <= 3 * Magnitude(near)
       /\ IsBull(v.last) /\ IsBear(v.previous)
       /\ v.rsi <= cfg.rsiMax[v.direction] /\ v.trend # "down"
       /\ v.patterns \ {"marubozu"} # {} \/ 100 * Body(v.last) > 55 * Height(v.last)

BounceStop(cfg, m, v) ==
    Min({NearLevel(cfg, m, v) - (35 * v.atr) \div 100, v.last.low - v.atr \div 5})

BounceScore(cfg, m, v) ==
    76 + (IF "hammer" \in v.patterns THEN 4 ELSE IF "pinBar" \in v.patterns THEN 3
          ELSE IF "engulfing" \in v.patterns THEN 5 ELSE 2)
    + Min({6, 3 * (Touches(cfg, m, v) - 1)})
    + SessionAdjustment(m.hour) + RegimePenalty(m, v.direction)

RangeBounce(cfg, m, v, minRiskReward) ==
    LET stop == BounceStop(cfg, m, v)
        targets == BounceTargets(cfg, v, stop, FarLevel(cfg, m, v))
    IN Proposed("range_bounce", cfg, m, v, minRiskReward, BounceSetup(cfg, m, v), stop,
                targets, targets.tp2, BounceScore(cfg, m, v))

-----------------------------------------------------------------------------
\* What the strategies find, each of them, in each of the views.
EvaluatedBy(views, m, config, minRiskReward) ==
    UNION {BreakoutVolume(config.breakout_volume, m, v, minRiskReward)
           \cup PullbackContinuation(config.pullback_continuation, m, v, minRiskReward)
           \cup ExhaustionReversal(config.mean_reversion, m, v, minRiskReward)
           \cup TrendReclaim(config.trend_reclaim, m, v, minRiskReward)
           \cup RangeBounce(config.range_bounce, m, v, minRiskReward) : v \in views}

Evaluated(m, config, minRiskReward) ==
    EvaluatedBy({View(m, direction) : direction \in Directions}, m, config, minRiskReward)

\* The order in which the selector asks them.
Place == [breakout_volume |-> 1, pullback_continuation |-> 2, mean_reversion |-> 3,
          trend_reclaim |-> 4, range_bounce |-> 5]

Bias == [breakout_volume |-> 5, pullback_continuation |-> -2, mean_reversion |-> -4,
         trend_reclaim |-> 1, range_bounce |-> 2]

Rank(c) == c.strategyScore + Bias[c.strategy]

\* evaluateAll: by score and bias; those that tie stay in their order.
Before(c, d) ==
    \/ Rank(c) > Rank(d)
    \/ Rank(c) = Rank(d) /\ Place[c.strategy] < Place[d.strategy]

FirstOf(candidates) == {c \in candidates : \A d \in candidates : ~Before(d, c)}

=============================================================================
