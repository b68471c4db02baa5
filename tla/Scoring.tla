------------------------------ MODULE Scoring -------------------------------
(***************************************************************************)
(* What turns a candidate into an order's numbers: the hot score, the      *)
(* confidence, the selection score, the prices of a fixed return on equity *)
(* and the size of the position.  Scores, percentages and multiples are in *)
(* hundredths; a quantity counts steps of the symbol, and money is a price *)
(* times a quantity.                                                       *)
(***************************************************************************)
EXTENDS Strategies

CONSTANTS
    FeeBps,     \* ESTIMATED_TAKER_FEE_BPS
    Tick,       \* the precision of the symbol's price
    MinNotional \* the least the exchange takes, in money

ASSUME FeeBpsAssumption == FeeBps \in 1..100
ASSUME TickAssumption == Tick \in Nat \ {0}
ASSUME MinNotionalAssumption == MinNotional \in Nat

\* From a ticker: volume in hundreds of thousands of dollars, change in tenths
\* of a percent, open interest in millions, volatility in hundredths of a percent.
SpreadOf(t) == Clamped(t.volatility \div 20, 2, 120)
LiquidityOf(t) == Clamped(t.volume24h, 1, 100)

HotScore(t, spike) ==
    Clamped(50 * Clamped(t.volume24h, 0, 50) + 20 * Clamped(Magnitude(t.change), 0, 100)
            + (20 * Clamped(spike, 0, 300)) \div 3 + 15 * Clamped(t.interest, 0, 100)
            + 2 * Clamped(t.volatility, 0, 500)
            + Clamped((LiquidityOf(t) * (150 - SpreadOf(t))) \div 15, 0, 1000)
            - (IF Magnitude(t.funding) > 100 THEN 500 ELSE 0), 0, 10000)

\* What the scan finds out about a symbol and about the market.
Ticker == [volume24h : Nat, change : Int, volatility : Nat, interest : Nat, funding : Int]

IsReading(r) ==
    /\ IsChart(r)
    /\ Price(r) % Tick = 0
    /\ r.ticker \in Ticker

\* The reading of a symbol, with what processSymbol works out of its ticker and
\* what the scan knows of the market.
Measured(r) ==
    LET market == RegimeOf(r.btc, r.eth, r.btcVolatility, r.btcMove)
        measured == [hot |-> HotScore(r.ticker, r.volume), spread |-> SpreadOf(r.ticker),
                     regime |-> market.regime, marketScore |-> market.score]
    IN [name \in DOMAIN measured \cup DOMAIN r |->
          IF name \in DOMAIN measured THEN measured[name] ELSE r[name]]

\* Neither hot enough, nor liquid enough, nor of a volatility worth the fees.
Filtered(m, minHotScore) ==
    \/ m.hot < minHotScore \/ m.spread > 80 \/ LiquidityOf(m.ticker) < 10
    \/ m.ticker.volatility < 15 \/ m.ticker.volatility > 500

\* Crowded trades: above a tenth of a percent.
Crowded(m, direction) == Sign(direction) * m.ticker.funding > 10

\* buildStrategyHealthMap: today's results of a strategy, the latest first; a
\* result that is no gain counts as a loss.
LossRun(results) ==
    LET gains == {i \in DOMAIN results : results[i] > 0}
    IN IF gains = {} THEN Len(results) ELSE Min(gains) - 1

Paused(results, maxConsecutiveLosses) == LossRun(results) >= Max({maxConsecutiveLosses, 5})

Confidence(m, candidate, riskScore) ==
    Clamped((25 * m.hot) \div 100 + 30 * candidate.strategyScore + 20 * m.marketScore
            + 15 * Max({20, 100 - m.spread}) + 10 * riskScore, 0, 10000)

MinConfidence(base, strategy) ==
    base + CASE strategy = "mean_reversion" -> 800
             [] strategy = "range_bounce" -> 300
             [] strategy = "pullback_continuation" -> 0
             [] strategy \in {"breakout_volume", "trend_reclaim"} -> -200

\* Thirty thousand for a trade along with the market: three points of confidence.
SelectionScore(m, candidate, confidence, riskScore) ==
    100 * confidence + 1000 * riskScore + 100 * candidate.strategyScore
    + 5 * candidate.riskReward
    + (IF <<m.regime, candidate.direction>> \in {<<"bullish", "LONG">>, <<"bearish", "SHORT">>}
       THEN 30000 ELSE 0)

-----------------------------------------------------------------------------
RoundedToTick(numerator, denominator) ==
    Tick * ((2 * numerator + denominator * Tick) \div (2 * denominator * Tick))

\* calculateFixedRoePrice, rounded: the price at which a position of that leverage
\* has made roe tenths of a percent, or lost them if roe is negative, the fees of
\* both sides paid.
FixedRoePrice(entry, direction, leverage, roe) ==
    LET s == Sign(direction)
    IN RoundedToTick(entry * ((10000 + s * FeeBps) * leverage + s * (10 * roe)),
                     (10000 - s * FeeBps) * leverage)

LeverageOf(s) == Min({s.maxLeverage, s.defaultLeverage})

RiskAmount(balance, riskPercent, confidence) ==
    LET quarters == IF confidence >= 8500 THEN 5 ELSE IF confidence >= 7800 THEN 4
                    ELSE IF confidence >= 7200 THEN 3 ELSE 2
    IN ((balance \div 10000) * riskPercent * quarters) \div 4

\* Faulty variant: the step added last is not checked against the maximum.
PositionSizeBumped(riskAmount, entry, distance, minimum, maximum) ==
    LET steps == Min({Max({riskAmount \div distance, minimum \div entry}), maximum \div entry})
    IN IF distance = 0 THEN 0
       ELSE IF steps * entry < minimum THEN steps + 1
       ELSE steps

\* PositionSizeService: by the risk, at least the minimum, at most the maximum;
\* a size that rounding has taken below the minimum is given one step more
\* unless that is more than the maximum.
PositionSize(riskAmount, entry, distance, minimum, maximum) ==
    LET steps == Min({Max({riskAmount \div distance, minimum \div entry}), maximum \div entry})
    IN IF distance = 0 THEN 0
       ELSE IF steps * entry < minimum /\ (steps + 1) * entry <= maximum THEN steps + 1
       ELSE steps

=============================================================================
