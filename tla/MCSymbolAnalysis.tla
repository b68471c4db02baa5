-------------------------- MODULE MCSymbolAnalysis --------------------------
(***************************************************************************)
(* Readings, settings and accounts for SymbolAnalysis.  A thousand units   *)
(* of price are a dollar and a step of quantity is a tenth of a coin, so   *)
(* that a dollar is ten thousand units of money; the price is ten dollars. *)
(***************************************************************************)
EXTENDS SymbolAnalysis

\* Candles along a path of closes, each with a longer wick where it went.
Along(path) ==
    [i \in 1..(Len(path) - 1) |->
        LET from == path[i] to == path[i + 1]
        IN [open |-> from, close |-> to,
            high |-> IF to > from THEN to + 6 ELSE from + 3,
            low |-> IF to > from THEN from - 3 ELSE to - 6]]

\* The same market upside down: twice the price less every price.
Flipped(candles) ==
    [i \in DOMAIN candles |->
        [open |-> 20000 - candles[i].open, close |-> 20000 - candles[i].close,
         high |-> 20000 - candles[i].low, low |-> 20000 - candles[i].high]]

FlippedTrend(t) == IF t = "up" THEN "down" ELSE IF t = "down" THEN "up" ELSE t

FlippedReading(r) ==
    [[name \in DOMAIN r |->
        IF name \in {"quarters", "hours"} THEN Flipped(r[name])
        ELSE IF name \in {"ema20", "ema20Prev", "ema50", "ema50Prev", "ema200", "hour20",
                          "hour50", "hour200", "vwap"} THEN 20000 - r[name]
        ELSE IF name \in {"trend4", "divergence"} THEN FlippedTrend(r[name])
        ELSE r[name]] EXCEPT !.rsi = 100 - @]

\* A rise in two waves that breaks out of the day's range.
Rise == <<9800, 9770, 9740, 9720, 9700, 9740, 9780, 9820, 9850, 9820, 9795, 9770, 9750, 9790,
          9830, 9870, 9900, 9885, 9870, 9880, 10000>>
RiseHours == <<9600, 9640, 9620, 9660, 9700, 9680, 9720, 9760, 9740, 9700, 9740, 9780, 9820,
               9800, 9840, 9880, 9860, 9900, 9880, 9920, 9900, 9940, 9920, 9890, 10000>>

\* A range that is left at neither end, and a bounce off its lower end.
Fall == <<10240, 10220, 10200, 10215, 10190, 10160, 10175, 10150, 10120, 10135, 10110, 10090,
          10060, 10075, 10050, 10030, 10000, 9970, 10000>>
RangeHours == <<10300, 10360, 10400, 10330, 10200, 10100, 10000, 9980, 10050, 10200, 10330,
                10410, 10350, 10200, 10090, 9982, 10060, 10180, 10300, 10380, 10300, 10180,
                10080, 10030, 10000>>

\* The same with quarters of an hour as wide as a third of the range.
Wild == <<10100, 10240, 10090, 10235, 10085, 10230, 10080, 10225, 10075, 10230, 10070, 10220,
          10065, 10215, 10060, 10190, 10040, 10120, 9970, 10000>>

\* A dump that goes too far below the mean.
Dump == <<10600, 10580, 10590, 10560, 10540, 10550, 10500, 10440, 10380, 10300, 10240, 10160,
          10100, 10060, 10020, 9990, 9960, 10000>>

Calm == [volume24h |-> 300, change |-> 60, volatility |-> 120, interest |-> 60, funding |-> 2]

Reading(path, hours) ==
    [quarters |-> Along(path), hours |-> Along(hours), trend4 |-> "flat", divergence |-> "flat",
     fading |-> 50, volume |-> 160, hour |-> 8, btc |-> "flat", eth |-> "flat",
     btcVolatility |-> 100, btcMove |-> 0, ticker |-> Calm]

With(r, more) == more @@ r

Rising == With(Reading(Rise, RiseHours),
               [ema20 |-> 9950, ema20Prev |-> 9935, ema50 |-> 9900, ema50Prev |-> 9895,
                ema200 |-> 9700, hour20 |-> 9880, hour50 |-> 9800, hour200 |-> 9500,
                vwap |-> 9850, rsi |-> 55])
Bouncing == With(Reading(Fall, RangeHours),
                 [ema20 |-> 10040, ema20Prev |-> 10050, ema50 |-> 10100, ema50Prev |-> 10105,
                  ema200 |-> 10150, hour20 |-> 10100, hour50 |-> 10150, hour200 |-> 9900,
                  vwap |-> 10100, rsi |-> 35])
Shaken == With(Bouncing, [quarters |-> Along(Wild)])
Dumped == With(Reading(Dump, RangeHours),
               [ema20 |-> 10220, ema20Prev |-> 10250, ema50 |-> 10400, ema50Prev |-> 10420,
                ema200 |-> 10450, hour20 |-> 10400, hour50 |-> 10450, hour200 |-> 10300,
                vwap |-> 10400, rsi |-> 16])

\* The regime of the market, the hour, the volume of the last candle, the trend
\* of four hours, and tickers that crowd the longs or move wildly.
Markets == {[btc |-> "flat"], [btc |-> "up"], [btc |-> "down"],
            [btcVolatility |-> 200], [btcVolatility |-> 450]}
Tickers == {Calm, [Calm EXCEPT !.funding = 20], [Calm EXCEPT !.volatility = 320, !.volume24h = 60]}
Variations == {[volume |-> 100, hour |-> 3, trend4 |-> "up", divergence |-> "flat"],
               [volume |-> 160, hour |-> 8, trend4 |-> "up", divergence |-> "up"],
               [volume |-> 200, hour |-> 20, trend4 |-> "flat", divergence |-> "flat"],
               [volume |-> 160, hour |-> 8, trend4 |-> "down", divergence |-> "down"]}

Around(r) ==
    {With(r, m @@ [ticker |-> t] @@ x) : m \in Markets, t \in Tickers, x \in Variations}

Longs == Around(Rising) \cup Around(Bouncing) \cup Around(Shaken) \cup Around(Dumped)
MCReadings == Longs \cup {FlippedReading(r) : r \in Longs}

\* The defaults of the settings; and some that the DTO takes as well: strategies
\* switched off or with limits of their own for shorts, a shorter range, and
\* multiples of the first target above those of the second.
Both(x) == [direction \in Directions |-> x]
Defaults ==
    [breakout_volume |-> [enabled |-> TRUE, minHotScore |-> 5500, minVolume |-> 150,
                          lookback |-> 20, maxSl |-> 500, tp1 |-> 150, tp2 |-> 250],
     pullback_continuation |-> [enabled |-> TRUE, minHotScore |-> 4000, rsi |-> Both(38..58),
                                atrMultiplier |-> 150, maxSl |-> 400, tp1 |-> 150, tp2 |-> 250],
     mean_reversion |-> [enabled |-> TRUE, oversold |-> Both(25), deviation |-> 300,
                         decline |-> 60, maxSl |-> 500],
     trend_reclaim |-> [enabled |-> TRUE, minHotScore |-> 5000, buffer |-> 35,
                        minVolume |-> 110, maxSl |-> 350, tp1 |-> 140, tp2 |-> 230],
     range_bounce |-> [enabled |-> TRUE, minHotScore |-> 3500, lookback |-> 24,
                       proximity |-> 80, rsiMax |-> Both(45), maxSl |-> 320,
                       tp1 |-> 130, tp2 |-> 200]]
CrossedMultiples ==
    [Defaults EXCEPT !.breakout_volume.tp1 = 300, !.breakout_volume.tp2 = 200,
                     !.pullback_continuation.tp2 = 50,
                     !.trend_reclaim.tp1 = 2000, !.trend_reclaim.maxSl = 3000,
                     !.range_bounce.tp1 = 220, !.range_bounce.lookback = 12,
                     !.mean_reversion.decline = 500]
Selective ==
    [Defaults EXCEPT !.breakout_volume.enabled = FALSE,
                     !.pullback_continuation.rsi = [LONG |-> {}, SHORT |-> 0..100],
                     !.mean_reversion.oversold["SHORT"] = 10,
                     !.trend_reclaim.tp1 = 50,
                     !.range_bounce.rsiMax["LONG"] = 30]

Usual == [strategies |-> Defaults, mode |-> "live", paper |-> 100000000, minHotScore |-> 4500, minRiskReward |-> 150,
          minConfidenceScore |-> 6500, maxConsecutiveLosses |-> 3, maxSpreadPercent |-> 40,
          fixedRoeEnabled |-> FALSE, fixedRoeSl |-> 200, fixedRoeTp |-> 200,
          maxLeverage |-> 5, defaultLeverage |-> 3, riskPerTradePercent |-> 100,
          minPositionUsd |-> 50000, maxPositionUsd |-> 205000,
          maxOpenTrades |-> 5, maxLongOpenTrades |-> 2, maxShortOpenTrades |-> 0,
          maxDailyLossPercent |-> 300]

MCStanding == {Usual, [Usual EXCEPT !.fixedRoeEnabled = TRUE],
               [Usual EXCEPT !.fixedRoeEnabled = TRUE, !.fixedRoeSl = 2, !.mode = "testnet"],
               [Usual EXCEPT !.strategies = CrossedMultiples],
               [Usual EXCEPT !.minRiskReward = 130, !.minPositionUsd = 55000,
                             !.maxPositionUsd = 205000]}

MCPatches == {[defaultLeverage |-> 1], [fixedRoeEnabled |-> TRUE], [maxPositionUsd |-> 53000],
              [minRiskReward |-> 180], [mode |-> "testnet"], [strategies |-> Selective]}

Account(total, available, long, short, profit) ==
    [total |-> total, available |-> available, open |-> [LONG |-> long, SHORT |-> short],
     profit |-> profit]
MCAccounts == {Account(1000000, 900000, 0, 0, 0), Account(1000000, 200000, 2, 1, -10000),
               Account(4000000, 3000000, 2, 3, 0), Account(1000000, 1000000, 0, 0, -30000),
               Account(0, 0, 0, 0, 0)}

NoResults == [s \in {"breakout_volume", "pullback_continuation", "mean_reversion",
                     "trend_reclaim", "range_bounce"} |-> <<>>]
MCResults == {NoResults, [NoResults EXCEPT !["trend_reclaim"] = <<-1, 0, -1, -1, 0, 1>>]}
=============================================================================
