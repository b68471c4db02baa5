------------------------ MODULE SymbolAnalysisProofs ------------------------
(***************************************************************************)
(* What is proved of a symbol's analysis.                                  *)
(***************************************************************************)
EXTENDS SymbolAnalysis, WellFoundedInduction, TLAPS

-----------------------------------------------------------------------------
(* Numbers and windows.                                                    *)

LEMMA MaxOfTwo ==
    ASSUME NEW a \in Int, NEW b \in Int
    PROVE  Max({a, b}) = IF a >= b THEN a ELSE b
  BY DEF Max

LEMMA MinOfTwo ==
    ASSUME NEW a \in Int, NEW b \in Int
    PROVE  Min({a, b}) = IF a <= b THEN a ELSE b
  BY DEF Min

\* A set of natural numbers has a least one.
LEMMA LeastNumber ==
    ASSUME NEW T, T \subseteq Nat, T # {}
    PROVE  \E x \in T : \A y \in T : x <= y
<1> DEFINE R == OpToRel(<, Nat)
<1>1. IsWellFoundedOn(R, Nat)
  BY NatLessThanWellFounded
<1>2. \A x, y \in Nat : y < x => <<y, x>> \in R
  BY DEF OpToRel
<1> HIDE DEF R
<1>3. PICK x \in T : \A y \in T : ~(<<y, x>> \in R)
  BY <1>1, WFMin
<1>4. \A y \in T : ~(y < x)
  BY <1>2, <1>3
<1>5. x \in Nat /\ \A y \in T : y \in Nat
  OBVIOUS
<1>6. QED  BY <1>4, <1>5

\* One of n numbers is the least: else there would be a least k such that the
\* first k of them have no least one.
LEMMA LeastOfMany ==
    ASSUME NEW n \in Nat \ {0}, NEW f \in [1..n -> Int]
    PROVE  \E i \in 1..n : \A j \in 1..n : f[i] <= f[j]
<1> DEFINE Least(k) == \E i \in 1..k : \A j \in 1..k : f[i] <= f[j]
           T == {k \in 1..n : ~Least(k)}
<1>1. SUFFICES ASSUME T # {} PROVE FALSE
  <2>1. n \in 1..n  OBVIOUS
  <2> HIDE DEF Least
  <2>2. T = {} => Least(n)  BY <2>1
  <2> USE DEF Least
  <2>3. QED  BY <2>2
<1>2. PICK k \in T : \A y \in T : k <= y
  <2>1. T \subseteq Nat  OBVIOUS
  <2> HIDE DEF T
  <2>2. QED  BY <2>1, <1>1, LeastNumber
<1>3. k \in 1..n /\ ~Least(k)
  OBVIOUS
<1>4. k # 1
  <2>1. SUFFICES ASSUME k = 1 PROVE FALSE  OBVIOUS
  <2>2. \A j \in 1..k : f[1] <= f[j]  BY <2>1
  <2>3. QED  BY <2>1, <2>2, <1>3
<1>5. k - 1 \in 1..n /\ Least(k - 1)
  <2>1. k - 1 \in 1..n  BY <1>3, <1>4
  <2>2. ~(k <= k - 1)  BY <1>3
  <2>3. QED  BY <2>1, <2>2, <1>2
<1>6. PICK i \in 1..(k - 1) : \A j \in 1..(k - 1) : f[i] <= f[j]
  BY <1>5
<1>7. \A j \in 1..k : j = k \/ j \in 1..(k - 1)
  BY <1>3
<1>8. i \in 1..n /\ i \in 1..k /\ k \in 1..k /\ f[i] \in Int /\ f[k] \in Int /\ \A j \in 1..k : f[j] \in Int
  BY <1>3, <1>6
<1>9. CASE f[i] <= f[k]
  <2>1. \A j \in 1..k : f[i] <= f[j]  BY <1>6, <1>7, <1>9
  <2>2. QED  BY <2>1, <1>8, <1>3
<1>10. CASE f[k] < f[i]
  <2>1. \A j \in 1..k : f[k] <= f[j]  BY <1>6, <1>7, <1>8, <1>10
  <2>2. QED  BY <2>1, <1>8, <1>3
<1>11. QED  BY <1>8, <1>9, <1>10

Bars == [open : Int, high : Int, low : Int, close : Int]

\* The lowest price of a window is one of its prices, and so a number.
LEMMA LowestOfWindow ==
    ASSUME NEW w \in Seq(Bars), Len(w) > 0
    PROVE  Lowest(w) \in Int /\ \A i \in 1..Len(w) : Lowest(w) <= w[i].low
<1> DEFINE f == [i \in 1..Len(w) |-> w[i].low]
<1>1. \A i \in 1..Len(w) : w[i] \in Bars
  OBVIOUS
<1>2. f \in [1..Len(w) -> Int] /\ Len(w) \in Nat \ {0}
  BY <1>1 DEF Bars
<1>3. PICK i \in 1..Len(w) : \A j \in 1..Len(w) : f[i] <= f[j]
  <2> HIDE DEF f
  <2>1. QED  BY <1>2, LeastOfMany
<1>4. w[i].low \in Lows(w) /\ \A y \in Lows(w) : w[i].low <= y
  BY <1>3 DEF Lows
<1>5. Lowest(w) \in Lows(w) /\ \A y \in Lows(w) : Lowest(w) <= y
  BY <1>4 DEF Lowest, Min
<1>6. \A j \in 1..Len(w) : w[j].low \in Lows(w)
  BY DEF Lows
<1>7. \A j \in 1..Len(w) : w[j].low \in Int
  BY <1>1 DEF Bars
<1>8. Lowest(w) \in Int
  BY <1>5, <1>7 DEF Lows
<1>9. QED  BY <1>5, <1>6, <1>8

LEMMA HighestOfWindow ==
    ASSUME NEW w \in Seq(Bars), Len(w) > 0
    PROVE  Highest(w) \in Int
<1> DEFINE f == [i \in 1..Len(w) |-> -w[i].high]
<1>0. \A i \in 1..Len(w) : w[i] \in Bars
  OBVIOUS
<1>1. \A i \in 1..Len(w) : w[i].high \in Int
  BY <1>0 DEF Bars
<1>2. f \in [1..Len(w) -> Int] /\ Len(w) \in Nat \ {0}
  BY <1>1
<1>3. PICK i \in 1..Len(w) : \A j \in 1..Len(w) : f[i] <= f[j]
  <2> HIDE DEF f
  <2>1. QED  BY <1>2, LeastOfMany
<1>4. \A j \in 1..Len(w) : w[i].high >= w[j].high
  BY <1>1, <1>3
<1>5. w[i].high \in Highs(w) /\ \A y \in Highs(w) : w[i].high >= y
  BY <1>4 DEF Highs
<1>6. Highest(w) \in Highs(w)
  BY <1>5 DEF Highest, Max
<1>7. QED  BY <1>1, <1>6 DEF Highs

\* What is cut from the end of a window, and a mirrored window, are windows.
LEMMA TailOfWindow ==
    ASSUME NEW w \in Seq(Bars), Len(w) > 0, NEW n \in Nat \ {0}
    PROVE  LastOf(w, n) \in Seq(Bars) /\ Len(LastOf(w, n)) > 0
<1> DEFINE from == Max({1, Len(w) - n + 1})
<1>1. from \in 1..Len(w)
  BY MaxOfTwo
<1>2. LastOf(w, n) = SubSeq(w, from, Len(w))
  BY DEF LastOf
<1> HIDE DEF from
<1>3. QED  BY <1>1, <1>2

LEMMA MirroredWindow ==
    ASSUME NEW w \in Seq(Bars)
    PROVE  /\ Mirrored(w) \in Seq(Bars) /\ Len(Mirrored(w)) = Len(w)
           /\ \A i \in 1..Len(w) : Mirrored(w)[i] = MirroredCandle(w[i])
<1>0. \A c \in Bars : MirroredCandle(c) \in Bars
  BY DEF Bars, MirroredCandle
<1>1. \A i \in 1..Len(w) : w[i] \in Bars /\ MirroredCandle(w[i]) \in Bars
  BY <1>0
<1>2. Mirrored(w) = [i \in 1..Len(w) |-> MirroredCandle(w[i])]
  BY DEF Mirrored
<1>3. QED  BY <1>1, <1>2

-----------------------------------------------------------------------------
(* The patterns of one candle.                                             *)

\* Mirroring turns a candle's wicks into one another and keeps its body.
LEMMA MirrorSwapsWicks ==
    ASSUME NEW c \in [open : Int, high : Int, low : Int, close : Int]
    PROVE  /\ LowerWick(MirroredCandle(c)) = UpperWick(c)
           /\ UpperWick(MirroredCandle(c)) = LowerWick(c)
           /\ Body(MirroredCandle(c)) = Body(c)
           /\ Height(MirroredCandle(c)) = Height(c)
  BY DEF MirroredCandle, LowerWick, UpperWick, Body, Height

\* The wicks and the body of a candle make up its height.
LEMMA WicksAndBody ==
    ASSUME NEW c \in [open : Int, high : Int, low : Int, close : Int], IsCandle(c)
    PROVE  /\ LowerWick(c) \in Nat /\ UpperWick(c) \in Nat /\ Body(c) \in Nat
           /\ LowerWick(c) + Body(c) + UpperWick(c) = Height(c)
  BY DEF IsCandle, LowerWick, UpperWick, Body, Height

\* One candle does not speak for both sides: detectCandlePatterns (71-87) never
\* finds a pin bar and an inverted one, nor a hammer and a shooting star, so no
\* reading has a confirming wick for the long and for the short.
THEOREM OneSidedWicks ==
    ASSUME NEW c \in [open : Int, high : Int, low : Int, close : Int], IsCandle(c)
    PROVE  /\ ~(PinBar(c) /\ PinBar(MirroredCandle(c)))
           /\ ~(Hammer(c) /\ Hammer(MirroredCandle(c)))
           /\ ~(Hammer(c) /\ PinBar(MirroredCandle(c)))
<1> DEFINE lower == LowerWick(c)
           upper == UpperWick(c)
           body == Body(c)
           height == Height(c)
<1>1. /\ lower \in Nat /\ upper \in Nat /\ body \in Nat
      /\ lower + body + upper = height
  BY WicksAndBody
<1>2. /\ LowerWick(MirroredCandle(c)) = upper
      /\ UpperWick(MirroredCandle(c)) = lower
      /\ Body(MirroredCandle(c)) = body
      /\ Height(MirroredCandle(c)) = height
  BY MirrorSwapsWicks
<1>3. PinBar(c) <=> height > 0 /\ 100 * lower >= 65 * height
  BY DEF PinBar
<1>4. PinBar(MirroredCandle(c)) <=> height > 0 /\ 100 * upper >= 65 * height
  BY <1>2 DEF PinBar
<1>5. Hammer(c) => height > 0 /\ 100 * lower >= 55 * height
  BY DEF Hammer
<1>6. Hammer(MirroredCandle(c)) => height > 0 /\ 100 * upper >= 55 * height
  BY <1>2 DEF Hammer
<1> HIDE DEF lower, upper, body, height
<1>7. QED  BY <1>1, <1>3, <1>4, <1>5, <1>6

-----------------------------------------------------------------------------
(* The candidates of the strategies.                                       *)

\* The fields of a reading that count as numbers.
LEMMA ChartNumbers ==
    ASSUME NEW m, IsChart(m)
    PROVE  /\ {m.quarters, m.hours} \subseteq Windows
           /\ {m.ema20, m.ema50, m.vwap, m.rsi, m.hour, m.volume} \subseteq Int
           /\ Price(m) > 0 /\ Atr(m.quarters, 14) \in Nat
  BY DEF IsChart, ChartFields

\* What the strategies see of a symbol, from either side, are numbers, and the
\* price is that of the last candle.
LEMMA ViewOfChart ==
    ASSUME NEW m, IsChart(m), NEW d \in Directions
    PROVE  LET v == View(m, d)
           IN /\ v.direction = d /\ v.atr \in Nat
              /\ Price(m) \in Nat \ {0} /\ v.price = Sign(d) * Price(m)
              /\ {v.ema20, v.ema50, v.vwap, v.rsi} \subseteq Int
              /\ v.candles \in Seq(Bars) /\ Len(v.candles) >= 3
              /\ v.hours \in Seq(Bars) /\ Len(v.hours) >= 3
              /\ v.last \in Bars /\ v.last.low <= v.price /\ v.previous \in Bars
<1> DEFINE v == View(m, d)
<1>1. /\ v.direction = d /\ v.atr = Atr(m.quarters, 14)
      /\ v.price = Sign(d) * Price(m) /\ v.ema20 = Sign(d) * m.ema20
      /\ v.ema50 = Sign(d) * m.ema50 /\ v.vwap = Sign(d) * m.vwap
      /\ v.rsi = IF d = "LONG" THEN m.rsi ELSE 100 - m.rsi
      /\ v.candles = SeenBy(d, m.quarters) /\ v.hours = SeenBy(d, m.hours)
      /\ v.last = Last(v.candles) /\ v.previous = Last(Front(v.candles))
  BY DEF View, Looking
<1> HIDE DEF v
<1>2. /\ m.quarters \in Seq(Candle) /\ Len(m.quarters) >= 3
      /\ m.hours \in Seq(Candle) /\ Len(m.hours) >= 3
      /\ {m.ema20, m.ema50, m.vwap, m.rsi} \subseteq Int
      /\ Atr(m.quarters, 14) \in Nat /\ Price(m) > 0
  BY ChartNumbers DEF Windows
<1>3. Sign(d) \in {1, -1}
  BY DEF Sign
<1>4. \A c \in Candle : c \in Bars /\ c.low <= c.close /\ c.close <= c.high
  BY DEF Candle, Bars, IsCandle
<1>5. \A w \in Seq(Candle) : w \in Seq(Bars) /\ Mirrored(w) \in Seq(Bars) /\ Len(Mirrored(w)) = Len(w)
  <2>1. \A w \in Seq(Candle) : w \in Seq(Bars)
    BY <1>4
  <2>2. QED  BY <2>1, MirroredWindow
<1>6. /\ v.candles \in Seq(Bars) /\ Len(v.candles) = Len(m.quarters)
      /\ v.hours \in Seq(Bars) /\ Len(v.hours) = Len(m.hours)
  BY <1>1, <1>2, <1>5 DEF SeenBy
<1>7. v.last = v.candles[Len(v.candles)] /\ v.previous = v.candles[Len(v.candles) - 1]
  BY <1>1, <1>2, <1>6 DEF Last, Front
<1>8. v.last \in Bars /\ v.previous \in Bars
  BY <1>2, <1>6, <1>7
<1> DEFINE c == m.quarters[Len(m.quarters)]
<1>9. c \in Candle /\ Price(m) = c.close
  BY <1>2 DEF Price, Last
<1>11. v.last = IF d = "LONG" THEN c ELSE MirroredCandle(c)
  <2>1. v.last = v.candles[Len(m.quarters)]
    BY <1>6, <1>7
  <2>2. CASE d = "LONG"
    BY <2>1, <2>2, <1>1 DEF SeenBy
  <2>3. CASE d # "LONG"
    <3>1. v.candles = Mirrored(m.quarters)
      BY <2>3, <1>1 DEF SeenBy
    <3>2. m.quarters \in Seq(Bars) /\ Len(m.quarters) \in 1..Len(m.quarters)
      BY <1>2, <1>5
    <3>3. Mirrored(m.quarters)[Len(m.quarters)] = MirroredCandle(m.quarters[Len(m.quarters)])
      BY <3>2, MirroredWindow
    <3>4. QED  BY <2>1, <2>3, <3>1, <3>3
  <2>4. QED  BY <2>2, <2>3
<1> HIDE DEF c
<1>10. Price(m) \in Nat \ {0}
  <2>1. c \in Bars  BY <1>4, <1>9
  <2>2. c.close \in Int  BY <2>1 DEF Bars
  <2>3. QED  BY <2>2, <1>2, <1>9
<1>12. v.last.low <= v.price
  <2>1. c \in Bars /\ c.low <= c.close /\ c.close <= c.high
    BY <1>4, <1>9
  <2>2. CASE d = "LONG"
    BY <2>1, <2>2, <1>1, <1>9, <1>11 DEF Sign, Bars
  <2>3. CASE d # "LONG"
    BY <2>1, <2>3, <1>1, <1>9, <1>11 DEF Sign, Bars, MirroredCandle
  <2>4. QED  BY <2>2, <2>3
<1>13. {v.ema20, v.ema50, v.vwap, v.rsi} \subseteq Int
  BY <1>1, <1>2, <1>3
<1>14. QED
  BY <1>1, <1>2, <1>6, <1>8, <1>10, <1>12, <1>13 DEF v

Aims(c, config, minRiskReward) ==
    LET s == Sign(c.direction)
    IN /\ s * c.stopLoss < s * c.entryPrice
       /\ \/ c.strategy = "range_bounce" /\ minRiskReward < 150
          \/ s * c.entryPrice <= s * c.takeProfit1 + 2
       /\ Crossed(config, c.strategy) \/ s * c.takeProfit1 <= s * c.takeProfit2

Sound(c, m, config, minRiskReward) ==
    c \in Candidates /\ Aims(c, config, minRiskReward) /\ c.entryPrice = Price(m)

\* The bounds of the settings that count as numbers.
LEMMA BoundsAreNumbers ==
    /\ FirstMultiples \subseteq Nat /\ SecondMultiples \subseteq Nat
    /\ SpikeVolumes \subseteq Int /\ ReclaimVolumes \subseteq Int /\ Buffers \subseteq Int
    /\ 2..200 \subseteq Nat \ {0}
  BY DEF FirstMultiples, SecondMultiples, SpikeVolumes, ReclaimVolumes, Buffers

\* What a strategy hands to the selector, given prices in the eyes of a side.
LEMMA CandidateIsSound ==
    ASSUME NEW strategy \in DOMAIN Place, NEW m, NEW d \in Directions, NEW stop \in Int,
           NEW tp1 \in Int, NEW tp2 \in Int, NEW rewarded \in Int, NEW score \in Int,
           NEW config, NEW minRiskReward,
           Price(m) \in Nat \ {0}, stop < Sign(d) * Price(m),
           Crossed(config, strategy) \/ tp1 <= tp2,
           \/ strategy = "range_bounce" /\ minRiskReward < 150
           \/ Sign(d) * Price(m) <= tp1 + 2
    PROVE  Sound(Candidate(strategy, m, d, stop, tp1, tp2, rewarded, score), m, config,
                 minRiskReward)
<1> DEFINE s == Sign(d)
           p == Price(m)
           rr == (100 * (rewarded - s * p)) \div (s * p - stop)
           c == Candidate(strategy, m, d, stop, tp1, tp2, rewarded, score)
<1>1. /\ c = [strategy |-> strategy, direction |-> d, entryPrice |-> p, stopLoss |-> s * stop,
              takeProfit1 |-> s * tp1, takeProfit2 |-> s * tp2, riskReward |-> rr,
              strategyScore |-> score]
  BY DEF Candidate
<1>2. s = 1 \/ s = -1
  BY DEF Sign
<1>3. s * p \in Int /\ s * p - stop \in Nat \ {0} /\ 100 * (rewarded - s * p) \in Int
  BY <1>2
<1>4. rr \in Int
  BY <1>3
<1>5. strategy \in {"breakout_volume", "pullback_continuation", "mean_reversion",
                    "trend_reclaim", "range_bounce"}
  BY DEF Place
<1> HIDE DEF rr, c
<1>6. s * stop \in Int /\ s * tp1 \in Int /\ s * tp2 \in Int
  BY <1>2
<1>7. c \in Candidates
  BY <1>1, <1>4, <1>5, <1>6 DEF Candidates
<1>8. s * (s * stop) = stop /\ s * (s * tp1) = tp1 /\ s * (s * tp2) = tp2
  BY <1>2
<1>9. /\ c.strategy = strategy /\ c.direction = d /\ c.entryPrice = p /\ c.stopLoss = s * stop
      /\ c.takeProfit1 = s * tp1 /\ c.takeProfit2 = s * tp2
  BY <1>1
<1>10. Aims(c, config, minRiskReward)
  BY <1>8, <1>9 DEF Aims
<1>11. QED  BY <1>7, <1>9, <1>10 DEF c, Sound

\* Targets lie ahead of the price, in the order of their multiples.
LEMMA TargetsInOrder ==
    ASSUME NEW v, NEW stop \in Int, v.price \in Int, stop < v.price,
           NEW near, NEW far, near \in Nat, far \in Nat
    PROVE  /\ Target(v, stop, near) \in Int /\ Target(v, stop, far) \in Int
           /\ v.price <= Target(v, stop, near)
           /\ near <= far => Target(v, stop, near) <= Target(v, stop, far)
<1> DEFINE risk == v.price - stop
<1>1. risk \in Nat \ {0}
  OBVIOUS
<1>2. /\ Target(v, stop, near) = v.price + (risk * near) \div 100
      /\ Target(v, stop, far) = v.price + (risk * far) \div 100
  BY DEF Target
<1> HIDE DEF risk
<1>3. risk * near \in Nat /\ risk * far \in Nat /\ (near <= far => risk * near <= risk * far)
  BY <1>1
<1> DEFINE a == risk * near
           b == risk * far
<1> HIDE DEF a, b
<1>4. a \in Nat /\ b \in Nat /\ (near <= far => a <= b)
  BY <1>3 DEF a, b
<1>5. a \div 100 \in Nat /\ b \div 100 \in Nat /\ (near <= far => a \div 100 <= b \div 100)
  BY <1>4
<1>6. QED  BY <1>2, <1>5 DEF a, b

LEMMA BonusesAreNumbers ==
    ASSUME NEW m, NEW d, m.hour \in Int
    PROVE  SessionAdjustment(m.hour) \in Int /\ RegimePenalty(m, d) \in Int
  BY DEF SessionAdjustment, RegimePenalty

\* What a strategy proposes is sound when its stop, targets and score are numbers
\* and its targets, if not crossed, are in order whenever the stop lies behind the price.
LEMMA ProposedIsSound ==
    ASSUME NEW strategy \in DOMAIN Place, NEW m, IsChart(m), NEW d \in Directions,
           NEW config, NEW cfg, NEW minRiskReward, NEW setup, NEW stop \in Int, NEW targets,
           NEW rewarded \in Int, NEW score,
           NEW c \in Proposed(strategy, cfg, m, View(m, d), minRiskReward, setup, stop, targets,
                              rewarded, score),
           setup => score \in Int,
           setup /\ stop < View(m, d).price /\ Pays(View(m, d), stop, rewarded, minRiskReward)
           => /\ targets.tp1 \in Int /\ targets.tp2 \in Int
              /\ Crossed(config, strategy) \/ targets.tp1 <= targets.tp2
              /\ \/ strategy = "range_bounce" /\ minRiskReward < 150
                 \/ View(m, d).price <= targets.tp1 + 2
    PROVE  Sound(c, m, config, minRiskReward)
<1> DEFINE v == View(m, d)
<1>1. v.direction = d /\ v.price = Sign(d) * Price(m) /\ v.price \in Int /\ Price(m) \in Nat \ {0}
  BY ViewOfChart DEF Sign
<1>2. /\ setup /\ RiskFits(m, v, stop, cfg.maxSl) /\ Pays(v, stop, rewarded, minRiskReward)
      /\ c = Candidate(strategy, m, v.direction, stop, targets.tp1, targets.tp2, rewarded, score)
  BY DEF Proposed
<1>3. stop < v.price
  BY <1>1, <1>2 DEF RiskFits
<1> DEFINE tp1 == targets.tp1
           tp2 == targets.tp2
<1>4. /\ tp1 \in Int /\ tp2 \in Int
      /\ Crossed(config, strategy) \/ tp1 <= tp2
      /\ \/ strategy = "range_bounce" /\ minRiskReward < 150
         \/ Sign(d) * Price(m) <= tp1 + 2
  BY <1>1, <1>2, <1>3
<1>5. score \in Int /\ stop < Sign(d) * Price(m)
  BY <1>1, <1>2, <1>3
<1>6. c = Candidate(strategy, m, d, stop, tp1, tp2, rewarded, score)
  BY <1>1, <1>2
<1> HIDE DEF tp1, tp2, v
<1>7. Sound(Candidate(strategy, m, d, stop, tp1, tp2, rewarded, score), m, config,
            minRiskReward)
  BY <1>1, <1>4, <1>5, CandidateIsSound
<1>8. QED  BY <1>6, <1>7

LEMMA BreakoutIsSound ==
    ASSUME NEW m, IsChart(m), NEW d \in Directions,
           NEW config \in StrategyConfig, NEW minRiskReward,
           NEW c \in BreakoutVolume(config.breakout_volume, m, View(m, d), minRiskReward)
    PROVE  Sound(c, m, config, minRiskReward)
<1> DEFINE v == View(m, d)
           cfg == config.breakout_volume
           stop == BreakoutStop(cfg, v)
           targets == Multiples(v, stop, cfg)
           score == BreakoutScore(cfg, m, v)
<1>1. /\ v.direction = d /\ v.atr \in Nat /\ v.price = Sign(d) * Price(m) /\ v.price \in Int
      /\ v.hours \in Seq(Bars) /\ Len(v.hours) >= 3 /\ Price(m) \in Nat \ {0}
  BY ViewOfChart DEF Sign
<1>2. /\ cfg.lookback \in Nat \ {0} /\ cfg.minVolume \in Int
      /\ cfg.tp1 \in Nat /\ cfg.tp2 \in Nat
      /\ Crossed(config, "breakout_volume") \/ cfg.tp1 <= cfg.tp2
  <2>1. cfg \in BreakoutConfig
    BY DEF StrategyConfig
  <2>2. Crossed(config, "breakout_volume") <=> cfg.tp1 > cfg.tp2
    BY DEF Crossed
  <2> HIDE DEF cfg
  <2>3. cfg.tp1 \in Nat /\ cfg.tp2 \in Nat /\ cfg.lookback \in Nat \ {0} /\ cfg.minVolume \in Int
    BY <2>1, BoundsAreNumbers DEF BreakoutConfig
  <2>4. QED  BY <2>2, <2>3
<1>3. c \in Proposed("breakout_volume", cfg, m, v, minRiskReward, BreakoutSetup(cfg, m, v), stop,
                     targets, targets.tp2, score)
  BY DEF BreakoutVolume
<1> HIDE DEF v, cfg
<1>4. stop \in Int
  <2> DEFINE level == BrokenLevel(cfg, v)
             a == level - (5 * Magnitude(level)) \div 1000
             b == v.price - (3 * v.atr) \div 2
  <2>1. Front(v.hours) \in Seq(Bars) /\ Len(Front(v.hours)) > 0
    BY <1>1 DEF Front
  <2>2. level \in Int
    BY <2>1, <1>2, TailOfWindow, HighestOfWindow DEF BrokenLevel, BreakoutLevel, cfg
  <2> HIDE DEF level
  <2>3. a \in Int /\ b \in Int
    BY <1>1, <2>2 DEF Magnitude
  <2>4. stop = Min({a, b})
    BY DEF BreakoutStop, level
  <2> HIDE DEF a, b, stop
  <2>5. QED  BY <2>3, <2>4, MinOfTwo
<1>5. score \in Int
  <2>1. m.volume \in Int /\ m.hour \in Int
    BY ChartNumbers
  <2>2. Min({150, m.volume - cfg.minVolume}) \in Int
    BY <2>1, <1>2, MinOfTwo
  <2>3. SessionAdjustment(m.hour) \in Int /\ RegimePenalty(m, v.direction) \in Int
    BY <2>1, BonusesAreNumbers
  <2>4. QED  BY <2>2, <2>3 DEF BreakoutScore, cfg
<1>6. targets.tp1 = Target(v, stop, cfg.tp1) /\ targets.tp2 = Target(v, stop, cfg.tp2)
  BY DEF Multiples
<1> HIDE DEF targets, stop, score
<1>7. ASSUME stop < v.price
      PROVE  /\ targets.tp1 \in Int /\ targets.tp2 \in Int
             /\ Crossed(config, "breakout_volume") \/ targets.tp1 <= targets.tp2
             /\ v.price <= targets.tp1 + 2
  <2>1. /\ Target(v, stop, cfg.tp1) \in Int /\ Target(v, stop, cfg.tp2) \in Int
        /\ v.price <= Target(v, stop, cfg.tp1)
        /\ cfg.tp1 <= cfg.tp2 => Target(v, stop, cfg.tp1) <= Target(v, stop, cfg.tp2)
    BY <1>1, <1>2, <1>4, <1>7, TargetsInOrder
  <2>2. QED  BY <1>1, <1>2, <1>6, <2>1
<1>8. targets.tp2 \in Int
  BY <1>1, <1>2, <1>4, <1>6 DEF Target
<1>9. "breakout_volume" \in DOMAIN Place
  BY DEF Place
<1>10. QED
  BY <1>3, <1>4, <1>5, <1>7, <1>8, <1>9, ProposedIsSound DEF v

LEMMA LowestOfTail ==
    ASSUME NEW w \in Seq(Bars), Len(w) > 0, NEW n \in Nat \ {0}
    PROVE  Lowest(LastOf(w, n)) \in Int
  BY TailOfWindow, LowestOfWindow


\* A clamped number lies between its bounds.
LEMMA ClampedBetween ==
    ASSUME NEW x \in Int, NEW low \in Int, NEW high \in Int, low <= high
    PROVE  Clamped(x, low, high) \in Int /\ low <= Clamped(x, low, high) /\ Clamped(x, low, high) <= high
<1> DEFINE y == Min({high, x})
           z == Max({low, y})
<1>1. y \in Int /\ y <= high  BY MinOfTwo
<1> HIDE DEF y
<1>2. z \in Int /\ low <= z /\ z <= high  BY <1>1, MaxOfTwo
<1>3. z = Clamped(x, low, high)  BY DEF Clamped, y
<1> HIDE DEF z
<1>4. QED  BY <1>2, <1>3

\* The same, of a field or an application that is known to be a number.
LEMMA ClampedValue ==
    ASSUME NEW x, NEW low, NEW high, x \in Int, low \in Int, high \in Int, low <= high
    PROVE  Clamped(x, low, high) \in Int /\ low <= Clamped(x, low, high) /\ Clamped(x, low, high) <= high
  BY ClampedBetween

LEMMA PullbackScoreIsNumber ==
    ASSUME NEW hot \in Int, NEW strength \in Int, NEW body \in Int, NEW rsi \in Int,
           NEW distance \in Int, NEW bonuses \in Int
    PROVE  PullbackScore(hot, strength, body, rsi, distance, bonuses) \in Int
<1> DEFINE a == Clamped((strength - 18) * 12, 0, 800)
           b == Clamped((body - 45) * 20, 0, 700)
           c == Max({0, 600 - 40 * Magnitude(rsi - 50)})
           e == Max({0, 500 - 8 * Magnitude(distance - 35)})
           f == Clamped((hot - 5500) \div 10, 0, 400)
           sum == 7400 + a + b + c + e + f + 100 * bonuses
<1>1. a \in Int
  BY ClampedBetween
<1>2. b \in Int
  BY ClampedBetween
<1>3. Magnitude(rsi - 50) \in Int /\ Magnitude(distance - 35) \in Int
  BY DEF Magnitude
<1>4. c \in Int /\ e \in Int
  BY <1>3, MaxOfTwo
<1>5. f \in Int
  <2>1. (hot - 5500) \div 10 \in Int
    OBVIOUS
  <2>2. QED  BY <2>1, ClampedBetween
<1>6. PullbackScore(hot, strength, body, rsi, distance, bonuses)
      = (Clamped(sum, 7400, 9900) + 50) \div 100
  BY DEF PullbackScore
<1> HIDE DEF a, b, c, e, f
<1>7. sum \in Int
  BY <1>1, <1>2, <1>4, <1>5
<1> HIDE DEF sum
<1>8. Clamped(sum, 7400, 9900) \in Int
  BY <1>7, ClampedBetween
<1>9. QED  BY <1>6, <1>8

LEMMA PullbackIsSound ==
    ASSUME NEW m, IsChart(m), m.hot \in Int, NEW d \in Directions,
           NEW config \in StrategyConfig, NEW minRiskReward,
           NEW c \in PullbackContinuation(config.pullback_continuation, m, View(m, d), minRiskReward)
    PROVE  Sound(c, m, config, minRiskReward)
<1> DEFINE v == View(m, d)
           cfg == config.pullback_continuation
           stop == PullbackStop(v)
           targets == Multiples(v, stop, cfg)
           PerAtr(p) == (100 * Magnitude(p)) \div v.atr
           score == PullbackScore(m.hot, PerAtr(v.ema20 - v.ema50), BodyRatio(v.last, v.atr), v.rsi,
                                  PerAtr(v.price - v.ema20), PullbackBonuses(m, v))
<1>1. /\ v.atr \in Nat /\ v.price \in Int /\ {v.ema20, v.ema50, v.rsi} \subseteq Int
      /\ v.candles \in Seq(Bars) /\ Len(v.candles) >= 3 /\ v.last \in Bars
  BY ViewOfChart DEF Sign
<1>2. /\ cfg.tp1 \in Nat /\ cfg.tp2 \in Nat
      /\ Crossed(config, "pullback_continuation") \/ cfg.tp1 <= cfg.tp2
  <2>1. cfg \in PullbackConfig
    BY DEF StrategyConfig
  <2>2. Crossed(config, "pullback_continuation") <=> cfg.tp1 > cfg.tp2
    BY DEF Crossed
  <2> HIDE DEF cfg
  <2>3. cfg.tp1 \in Nat /\ cfg.tp2 \in Nat
    BY <2>1, BoundsAreNumbers DEF PullbackConfig
  <2>4. QED  BY <2>2, <2>3
<1>3. c \in Proposed("pullback_continuation", cfg, m, v, minRiskReward, PullbackSetup(cfg, m, v),
                     stop, targets, targets.tp1, score)
  BY DEF PullbackContinuation
<1> HIDE DEF v, cfg
<1>4. stop \in Int
  <2> DEFINE a == Lowest(LastOf(v.candles, 6)) - v.atr \div 5
             b == v.ema50 - v.atr \div 4
  <2>1. Lowest(LastOf(v.candles, 6)) \in Int
    BY <1>1, LowestOfTail
  <2>2. a \in Int /\ b \in Int
    BY <1>1, <2>1
  <2>3. stop = Min({a, b})
    BY DEF PullbackStop
  <2> HIDE DEF a, b, stop
  <2>4. QED  BY <2>2, <2>3, MinOfTwo
<1>5. ASSUME PullbackSetup(cfg, m, v) PROVE score \in Int
  <2>1. v.atr \in Nat \ {0}
    BY <1>1, <1>5 DEF PullbackSetup
  <2>2. ASSUME NEW p \in Int PROVE PerAtr(p) \in Int
    BY <2>1 DEF Magnitude
  <2>3. BodyRatio(v.last, v.atr) \in Int
    <3>0. \A k \in Bars : Body(k) \in Int /\ Height(k) \in Int
      BY DEF Body, Height, Bars
    <3>1. Body(v.last) \in Int /\ Height(v.last) \in Int
      BY <1>1, <3>0
    <3>2. Max({10 * Height(v.last), v.atr}) \in Nat \ {0}
      BY <2>1, <3>1, MaxOfTwo
    <3>3. QED  BY <3>1, <3>2 DEF BodyRatio
  <2>4. PullbackBonuses(m, v) \in Int
    <3>1. m.hour \in Int
      BY ChartNumbers
    <3>2. SessionAdjustment(m.hour) \in Int /\ RegimePenalty(m, v.direction) \in Int
      BY <3>1, BonusesAreNumbers
    <3>3. QED  BY <3>2 DEF PullbackBonuses
  <2>5. v.ema20 - v.ema50 \in Int /\ v.price - v.ema20 \in Int /\ v.rsi \in Int
    BY <1>1
  <2> HIDE DEF PerAtr
  <2>6. PerAtr(v.ema20 - v.ema50) \in Int /\ PerAtr(v.price - v.ema20) \in Int
    BY <2>2, <2>5
  <2>7. QED  BY <2>3, <2>4, <2>5, <2>6, PullbackScoreIsNumber
<1>6. targets.tp1 = Target(v, stop, cfg.tp1) /\ targets.tp2 = Target(v, stop, cfg.tp2)
  BY DEF Multiples
<1> HIDE DEF targets, stop, score
<1>7. ASSUME stop < v.price
      PROVE  /\ targets.tp1 \in Int /\ targets.tp2 \in Int
             /\ Crossed(config, "pullback_continuation") \/ targets.tp1 <= targets.tp2
             /\ v.price <= targets.tp1 + 2
  <2>1. /\ Target(v, stop, cfg.tp1) \in Int /\ Target(v, stop, cfg.tp2) \in Int
        /\ v.price <= Target(v, stop, cfg.tp1)
        /\ cfg.tp1 <= cfg.tp2 => Target(v, stop, cfg.tp1) <= Target(v, stop, cfg.tp2)
    BY <1>1, <1>2, <1>4, <1>7, TargetsInOrder
  <2>2. QED  BY <1>1, <1>2, <1>6, <2>1
<1>8. targets.tp1 \in Int
  BY <1>1, <1>2, <1>4, <1>6 DEF Target
<1>9. "pullback_continuation" \in DOMAIN Place
  BY DEF Place
<1>10. QED
  BY <1>3, <1>4, <1>5, <1>7, <1>8, <1>9, ProposedIsSound DEF v

LEMMA ReversalIsSound ==
    ASSUME NEW m, IsChart(m), NEW d \in Directions,
           NEW config \in StrategyConfig, NEW minRiskReward,
           NEW c \in ExhaustionReversal(config.mean_reversion, m, View(m, d), minRiskReward)
    PROVE  Sound(c, m, config, minRiskReward)
<1> DEFINE v == View(m, d)
           cfg == config.mean_reversion
           stop == ReversalStop(v)
           targets == ReversalTargets(v, stop)
           score == ReversalScore(cfg, m, v)
<1>1. /\ v.atr \in Nat /\ v.price \in Int /\ v.vwap \in Int
      /\ v.candles \in Seq(Bars) /\ Len(v.candles) >= 3
  BY ViewOfChart DEF Sign
<1>2. c \in Proposed("mean_reversion", cfg, m, v, minRiskReward, ReversalSetup(cfg, m, v), stop,
                     targets, targets.tp1, score)
  BY DEF ExhaustionReversal
<1> HIDE DEF v, cfg
<1>3. stop \in Int
  <2>1. Lowest(LastOf(v.candles, 5)) \in Int
    BY <1>1, LowestOfTail
  <2>2. QED  BY <1>1, <2>1 DEF ReversalStop
<1>4. score \in Int
  <2>1. m.hour \in Int
    BY ChartNumbers
  <2>2. SessionAdjustment(m.hour) \in Int
    BY <2>1, BonusesAreNumbers
  <2>3. QED  BY <2>2 DEF ReversalScore
<1>5. /\ targets.tp1 = Target(v, stop, 180)
      /\ targets.tp2 = Max({Target(v, stop, 260), v.vwap})
  BY DEF ReversalTargets
<1> HIDE DEF targets, stop, score
<1>6. ASSUME stop < v.price
      PROVE  /\ targets.tp1 \in Int /\ targets.tp2 \in Int
             /\ targets.tp1 <= targets.tp2 /\ v.price <= targets.tp1 + 2
  <2>1. /\ Target(v, stop, 180) \in Int /\ Target(v, stop, 260) \in Int
        /\ v.price <= Target(v, stop, 180) /\ Target(v, stop, 180) <= Target(v, stop, 260)
    BY <1>1, <1>3, <1>6, TargetsInOrder
  <2>2. targets.tp2 \in Int /\ targets.tp2 >= Target(v, stop, 260)
    BY <1>1, <1>5, <2>1, MaxOfTwo
  <2>3. QED  BY <1>1, <1>5, <2>1, <2>2
<1>7. targets.tp1 \in Int
  BY <1>1, <1>3, <1>5 DEF Target
<1>8. "mean_reversion" \in DOMAIN Place
  BY DEF Place
<1>9. QED
  BY <1>2, <1>3, <1>4, <1>6, <1>7, <1>8, ProposedIsSound DEF v

LEMMA ReclaimIsSound ==
    ASSUME NEW m, IsChart(m), NEW d \in Directions,
           NEW config \in StrategyConfig, NEW minRiskReward,
           NEW c \in TrendReclaim(config.trend_reclaim, m, View(m, d), minRiskReward)
    PROVE  Sound(c, m, config, minRiskReward)
<1> DEFINE v == View(m, d)
           cfg == config.trend_reclaim
           stop == ReclaimStop(cfg, v)
           targets == Multiples(v, stop, cfg)
           score == ReclaimScore(cfg, m, v)
<1>1. /\ v.atr \in Nat /\ v.price \in Int /\ v.ema50 \in Int
      /\ v.candles \in Seq(Bars) /\ Len(v.candles) >= 3
  BY ViewOfChart DEF Sign
<1>2. /\ cfg.tp1 \in Nat /\ cfg.tp2 \in Nat /\ cfg.buffer \in Int /\ cfg.minVolume \in Int
      /\ Crossed(config, "trend_reclaim") \/ cfg.tp1 <= cfg.tp2
  <2>1. cfg \in ReclaimConfig
    BY DEF StrategyConfig
  <2>2. Crossed(config, "trend_reclaim") <=> cfg.tp1 > cfg.tp2
    BY DEF Crossed
  <2> HIDE DEF cfg
  <2>3. cfg.tp1 \in Nat /\ cfg.tp2 \in Nat /\ cfg.buffer \in Int /\ cfg.minVolume \in Int
    BY <2>1, BoundsAreNumbers DEF ReclaimConfig
  <2>4. QED  BY <2>2, <2>3
<1>3. c \in Proposed("trend_reclaim", cfg, m, v, minRiskReward, ReclaimSetup(cfg, m, v), stop,
                     targets, targets.tp2, score)
  BY DEF TrendReclaim
<1> HIDE DEF v, cfg
<1>4. stop \in Int
  <2> DEFINE a == Lowest(LastOf(v.candles, 6)) - v.atr \div 4
             b == v.ema50 - ReclaimBand(cfg, v)
  <2>1. Lowest(LastOf(v.candles, 6)) \in Int
    BY <1>1, LowestOfTail
  <2>2. a \in Int /\ b \in Int
    BY <1>1, <1>2, <2>1 DEF ReclaimBand, cfg
  <2>3. stop = Min({a, b})
    BY DEF ReclaimStop
  <2> HIDE DEF a, b, stop
  <2>4. QED  BY <2>2, <2>3, MinOfTwo
<1>5. score \in Int
  <2> DEFINE excess == Max({0, m.volume - cfg.minVolume})
             bonus == Min({8, (8 * excess + 50) \div 100})
  <2>1. m.volume \in Int /\ m.hour \in Int
    BY ChartNumbers
  <2>2. excess \in Int
    BY <2>1, <1>2, MaxOfTwo
  <2> HIDE DEF excess
  <2>3. bonus \in Int
    BY <2>2, MinOfTwo
  <2> HIDE DEF bonus
  <2>4. SessionAdjustment(m.hour) \in Int /\ RegimePenalty(m, v.direction) \in Int
    BY <2>1, BonusesAreNumbers
  <2>5. QED  BY <2>3, <2>4 DEF ReclaimScore, cfg, bonus, excess
<1>6. targets.tp1 = Target(v, stop, cfg.tp1) /\ targets.tp2 = Target(v, stop, cfg.tp2)
  BY DEF Multiples
<1> HIDE DEF targets, stop, score
<1>7. ASSUME stop < v.price
      PROVE  /\ targets.tp1 \in Int /\ targets.tp2 \in Int
             /\ Crossed(config, "trend_reclaim") \/ targets.tp1 <= targets.tp2
             /\ v.price <= targets.tp1 + 2
  <2>1. /\ Target(v, stop, cfg.tp1) \in Int /\ Target(v, stop, cfg.tp2) \in Int
        /\ v.price <= Target(v, stop, cfg.tp1)
        /\ cfg.tp1 <= cfg.tp2 => Target(v, stop, cfg.tp1) <= Target(v, stop, cfg.tp2)
    BY <1>1, <1>2, <1>4, <1>7, TargetsInOrder
  <2>2. QED  BY <1>1, <1>2, <1>6, <2>1
<1>8. targets.tp2 \in Int
  BY <1>1, <1>2, <1>4, <1>6 DEF Target
<1>9. "trend_reclaim" \in DOMAIN Place
  BY DEF Place
<1>10. QED
  BY <1>3, <1>4, <1>5, <1>7, <1>8, <1>9, ProposedIsSound DEF v

\* Three tenths of an ATR short of the other side, the first target of a bounce
\* that pays one and a half times the risk still lies no more than two units
\* behind the price: the stop is a fifth of an ATR below the last low.
LEMMA BounceReaches ==
    ASSUME NEW price \in Int, NEW risk \in Nat, NEW far \in Int, NEW atr \in Nat,
           NEW minRiskReward \in Nat, minRiskReward >= 150, risk >= atr \div 5,
           100 * (far + 1 - price) > minRiskReward * risk
    PROVE  price <= far - (3 * atr) \div 10 + 2
<1>1. minRiskReward * risk >= 150 * risk
  BY SMT
<1> DEFINE q == atr \div 5
           x == (3 * atr) \div 10
<1>2. q \in Nat /\ atr <= 5 * q + 4
  OBVIOUS
<1>3. x \in Nat /\ 10 * x <= 3 * atr
  OBVIOUS
<1>4. 100 * (far + 1 - price) > 150 * q
  BY <1>1, <1>2
<1> HIDE DEF q, x
<1>5. price <= far - x + 2
  BY <1>2, <1>3, <1>4
<1>6. QED  BY <1>5 DEF x

LEMMA BounceIsSound ==
    ASSUME NEW m, IsChart(m), NEW d \in Directions,
           NEW config \in StrategyConfig, NEW minRiskReward \in Nat,
           NEW c \in RangeBounce(config.range_bounce, m, View(m, d), minRiskReward)
    PROVE  Sound(c, m, config, minRiskReward)
<1> DEFINE v == View(m, d)
           cfg == config.range_bounce
           near == NearLevel(cfg, m, v)
           far == FarLevel(cfg, m, v)
           stop == BounceStop(cfg, m, v)
           targets == BounceTargets(cfg, v, stop, far)
           score == BounceScore(cfg, m, v)
<1>1. /\ v.direction = d /\ v.atr \in Nat /\ v.price \in Int /\ v.last \in Bars
      /\ v.last.low <= v.price
  BY ViewOfChart DEF Sign
<1>2. /\ cfg.tp1 \in Nat /\ cfg.tp2 \in Nat /\ cfg.lookback \in Lookbacks
      /\ Crossed(config, "range_bounce") \/ cfg.tp1 <= cfg.tp2
  <2>1. cfg \in BounceConfig
    BY DEF StrategyConfig
  <2>2. Crossed(config, "range_bounce") <=> cfg.tp1 > cfg.tp2
    BY DEF Crossed
  <2> HIDE DEF cfg
  <2>3. cfg.tp1 \in Nat /\ cfg.tp2 \in Nat /\ cfg.lookback \in Lookbacks
    BY <2>1, BoundsAreNumbers DEF BounceConfig
  <2>4. QED  BY <2>2, <2>3
<1>3. c \in Proposed("range_bounce", cfg, m, v, minRiskReward, BounceSetup(cfg, m, v), stop,
                     targets, targets.tp2, score)
  BY DEF RangeBounce
<1> HIDE DEF v, cfg
<1>4. near \in Int /\ far \in Int /\ Touches(cfg, m, v) \in Nat
  <2>1. d \in Directions /\ Opposite(d) \in Directions
    BY DEF Opposite, Directions
  <2>2. ASSUME NEW e \in Directions
        PROVE  RangeLevel(m, cfg.lookback, e) \in [sum : Int, count : Nat \ {0}]
    BY <1>2 DEF IsChart
  <2>3. ASSUME NEW e \in Directions PROVE LevelSeen(v, RangeLevel(m, cfg.lookback, e)) \in Int
    BY <2>2 DEF LevelSeen, Sign
  <2>4. QED  BY <1>1, <2>1, <2>2, <2>3 DEF NearLevel, FarLevel, Touches
<1>5. v.last.low \in Int
  BY <1>1 DEF Bars
<1>6. stop \in Int /\ stop <= v.last.low - v.atr \div 5
  <2> DEFINE a == near - (35 * v.atr) \div 100
             b == v.last.low - v.atr \div 5
  <2>1. a \in Int /\ b \in Int
    BY <1>1, <1>4, <1>5
  <2>2. stop = Min({a, b})
    BY DEF BounceStop
  <2> HIDE DEF a, b, stop
  <2>3. stop \in Int /\ stop <= b
    BY <2>1, <2>2, MinOfTwo
  <2>4. QED  BY <2>3 DEF b
<1>7. score \in Int
  <2>1. m.hour \in Int
    BY ChartNumbers
  <2>2. SessionAdjustment(m.hour) \in Int /\ RegimePenalty(m, v.direction) \in Int
    BY <2>1, BonusesAreNumbers
  <2>3. Min({6, 3 * (Touches(cfg, m, v) - 1)}) \in Int
    BY <1>4, MinOfTwo
  <2>4. QED  BY <2>2, <2>3 DEF BounceScore
<1> DEFINE rest == far - (3 * v.atr) \div 10
           t1 == Target(v, stop, cfg.tp1)
           t2 == Target(v, stop, cfg.tp2)
<1>8. targets.tp1 = Min({t1, rest}) /\ targets.tp2 = Min({t2, far})
  BY DEF BounceTargets
<1> HIDE DEF targets, stop, score, near, far
<1>9. t1 \in Int /\ t2 \in Int /\ rest \in Int /\ rest <= far
  BY <1>1, <1>2, <1>4, <1>6 DEF Target
<1>10. stop < v.price => v.price <= t1 /\ (cfg.tp1 <= cfg.tp2 => t1 <= t2)
  BY <1>1, <1>2, <1>6, TargetsInOrder
<1>11. /\ targets.tp1 \in Int /\ targets.tp2 \in Int /\ targets.tp2 <= far
       /\ targets.tp1 = t1 \/ targets.tp1 = rest
       /\ stop < v.price /\ cfg.tp1 <= cfg.tp2 => targets.tp1 <= targets.tp2
  <2> HIDE DEF t1, t2, rest
  <2>1. QED  BY <1>4, <1>8, <1>9, <1>10, MinOfTwo
<1>12. ASSUME stop < v.price, Pays(v, stop, targets.tp2, minRiskReward), minRiskReward >= 150
       PROVE  v.price <= targets.tp1 + 2
  <2> DEFINE risk == v.price - stop
  <2>1. risk \in Nat /\ risk >= v.atr \div 5
    BY <1>1, <1>5, <1>6, <1>12
  <2>2. 100 * (targets.tp2 + 1 - v.price) > minRiskReward * risk
    BY <1>12 DEF Pays
  <2>3. minRiskReward * risk \in Int
    BY <2>1
  <2> HIDE DEF risk
  <2>4. 100 * (far + 1 - v.price) > minRiskReward * risk
    BY <1>1, <1>4, <1>11, <2>2, <2>3
  <2>5. v.price <= rest + 2
    BY <1>1, <1>4, <1>12, <2>1, <2>4, BounceReaches
  <2>6. QED  BY <1>1, <1>9, <1>10, <1>11, <1>12, <2>5
<1>13. "range_bounce" \in DOMAIN Place
  BY DEF Place
<1>14. ASSUME BounceSetup(cfg, m, v), stop < v.price, Pays(v, stop, targets.tp2, minRiskReward)
       PROVE  /\ targets.tp1 \in Int /\ targets.tp2 \in Int
              /\ Crossed(config, "range_bounce") \/ targets.tp1 <= targets.tp2
              /\ minRiskReward < 150 \/ v.price <= targets.tp1 + 2
  BY <1>2, <1>11, <1>12, <1>14
<1>15. QED
  BY <1>3, <1>6, <1>7, <1>11, <1>13, <1>14, ProposedIsSound DEF v

-----------------------------------------------------------------------------
(* The size of a position.                                                 *)

LEMMA QuotientFits ==
    ASSUME NEW n \in Nat, NEW d \in Nat \ {0}, NEW q \in Nat, q <= n \div d
    PROVE  n \div d \in Nat /\ q * d <= n
<1>1. n \div d \in Nat /\ (n \div d) * d <= n
  BY SMT
<1>2. q * d <= (n \div d) * d
  BY <1>1, SMT
<1>3. QED  BY <1>1, <1>2, SMT

\* PositionSizeService's hard ceiling (34-38, 47-51): whatever the stop, the
\* amount at risk and the minimum are, the position is worth no more than the
\* maximum, although the last step (43-46) rounds up.
THEOREM SizeWithinMaximum ==
    ASSUME NEW riskAmount \in Nat, NEW entry \in Nat \ {0}, NEW distance \in Nat,
           NEW minimum \in Nat, NEW maximum \in Nat
    PROVE  LET size == PositionSize(riskAmount, entry, distance, minimum, maximum)
           IN size \in Nat /\ size * entry <= maximum
<1> DEFINE size == PositionSize(riskAmount, entry, distance, minimum, maximum)
           wanted == Max({riskAmount \div distance, minimum \div entry})
           steps == Min({wanted, maximum \div entry})
<1>1. CASE distance = 0
  <2>1. size = 0  BY <1>1 DEF PositionSize
  <2>2. QED  BY <2>1
<1>2. CASE distance # 0
  <2>1. /\ riskAmount \div distance \in Nat /\ minimum \div entry \in Nat
        /\ maximum \div entry \in Nat
    BY <1>2, QuotientFits, SMT
  <2>2. wanted \in Nat
    BY <2>1, MaxOfTwo
  <2>3. steps \in Nat /\ steps <= maximum \div entry
    BY <2>1, <2>2, MinOfTwo
  <2>4. steps * entry <= maximum
    BY <2>3, QuotientFits
  <2>5. \/ size = steps
        \/ size = steps + 1 /\ (steps + 1) * entry <= maximum
    BY <1>2 DEF PositionSize
  <2> HIDE DEF size, steps, wanted
  <2>6. size \in Nat /\ size * entry <= maximum
    BY <2>3, <2>4, <2>5
  <2>7. QED  BY <2>6 DEF size
<1>3. QED  BY <1>1, <1>2

-----------------------------------------------------------------------------
(* The scores and the prices.                                              *)

Within(x, low, high) == x \in Int /\ low <= x /\ x <= high

LEMMA WithinIsRange ==
    ASSUME NEW x, NEW low \in Int, NEW high \in Int
    PROVE  Within(x, low, high) <=> x \in low..high
  BY DEF Within

LEMMA ScoreRange == \A x : Within(x, 0, 10000) <=> x \in 0..10000
<1> DEFINE most == 10000
<1>1. most \in Int
  OBVIOUS
<1> HIDE DEF most
<1>2. \A x : Within(x, 0, most) <=> x \in 0..most
  BY <1>1, WithinIsRange
<1>3. QED  BY <1>2 DEF most

LEMMA ClampedWithin ==
    ASSUME NEW x \in Int
    PROVE  Within(Clamped(x, 0, 10000), 0, 10000)
<1>1. LET c == Clamped(x, 0, 10000) IN c \in Int /\ 0 <= c /\ c <= 10000
  BY ClampedBetween
<1>2. QED  BY <1>1 DEF Within

LEMMA HotScoreInRange ==
    ASSUME NEW t, NEW spike, t \in Ticker, spike \in Int
    PROVE  /\ HotScore(t, spike) \in Int /\ 0 <= HotScore(t, spike) /\ HotScore(t, spike) <= 10000
           /\ SpreadOf(t) \in Int /\ 2 <= SpreadOf(t) /\ SpreadOf(t) <= 120
<1> DEFINE a == Clamped(t.volume24h, 0, 50)
           b == Clamped(Magnitude(t.change), 0, 100)
           c == Clamped(spike, 0, 300)
           d == Clamped(t.interest, 0, 100)
           e == Clamped(t.volatility, 0, 500)
           f == Clamped((LiquidityOf(t) * (150 - SpreadOf(t))) \div 15, 0, 1000)
           sum == 50 * a + 20 * b + (20 * c) \div 3 + 15 * d + 2 * e + f
                  - (IF Magnitude(t.funding) > 100 THEN 500 ELSE 0)
<1>1. /\ t.volume24h \in Int /\ t.change \in Int /\ t.volatility \in Int /\ t.interest \in Int
      /\ t.funding \in Int
  BY DEF Ticker
<1>2. Magnitude(t.change) \in Int
  BY <1>1 DEF Magnitude
<1>3. a \in Int /\ b \in Int /\ c \in Int /\ d \in Int /\ e \in Int
  <2>1. a \in Int  BY <1>1, ClampedValue
  <2>2. b \in Int  BY <1>2, ClampedValue
  <2>3. c \in Int  BY ClampedBetween
  <2>4. d \in Int  BY <1>1, ClampedValue
  <2>5. e \in Int  BY <1>1, ClampedValue
  <2> HIDE DEF a, b, c, d, e
  <2>6. QED  BY <2>1, <2>2, <2>3, <2>4, <2>5
<1>4. /\ SpreadOf(t) \in Int /\ 2 <= SpreadOf(t) /\ SpreadOf(t) <= 120
      /\ LiquidityOf(t) \in Int
  <2>1. t.volatility \div 20 \in Int
    BY <1>1
  <2> DEFINE spread == t.volatility \div 20
  <2> HIDE DEF spread
  <2>2. spread \in Int
    BY <2>1 DEF spread
  <2>3. LET s == Clamped(spread, 2, 120) IN s \in Int /\ 2 <= s /\ s <= 120
    BY <2>2, ClampedBetween
  <2>4. Clamped(t.volume24h, 1, 100) \in Int
    BY <1>1, ClampedValue
  <2>5. SpreadOf(t) = Clamped(spread, 2, 120) /\ LiquidityOf(t) = Clamped(t.volume24h, 1, 100)
    BY DEF SpreadOf, LiquidityOf, spread
  <2>6. QED  BY <2>3, <2>4, <2>5
<1>5. f \in Int
  <2>1. LiquidityOf(t) * (150 - SpreadOf(t)) \in Int
    BY <1>4
  <2>2. (LiquidityOf(t) * (150 - SpreadOf(t))) \div 15 \in Int
    BY <2>1
  <2>3. QED  BY <2>2, ClampedBetween
<1>6. HotScore(t, spike) = Clamped(sum, 0, 10000)
  BY DEF HotScore
<1> HIDE DEF a, b, c, d, e, f
<1>7. sum \in Int
  BY <1>3, <1>5
<1> HIDE DEF sum
<1>8. LET score == Clamped(sum, 0, 10000) IN score \in Int /\ 0 <= score /\ score <= 10000
  BY <1>7, ClampedBetween
<1>9. QED  BY <1>4, <1>6, <1>8

\* What processSymbol adds to a reading leaves its chart alone.
LEMMA MeasuredIsChart ==
    ASSUME NEW r, IsReading(r)
    PROVE  LET m == Measured(r)
           IN /\ IsChart(m) /\ Price(m) = Price(r)
              /\ Within(m.hot, 0, 10000) /\ Within(m.spread, 2, 120)
              /\ Within(m.marketScore, 0, 100)
<1> DEFINE m == Measured(r)
           standing == RegimeOf(r.btc, r.eth, r.btcVolatility, r.btcMove)
           measured == [hot |-> HotScore(r.ticker, r.volume), spread |-> SpreadOf(r.ticker),
                        regime |-> standing.regime, marketScore |-> standing.score]
<1>1. IsChart(r) /\ r.ticker \in Ticker
  BY DEF IsReading
<1>2. m = [name \in DOMAIN measured \cup DOMAIN r |->
              IF name \in DOMAIN measured THEN measured[name] ELSE r[name]]
  BY DEF Measured
<1>3. DOMAIN measured = {"hot", "spread", "regime", "marketScore"}
  OBVIOUS
<1>4. Within(standing.score, 0, 100)
  BY DEF RegimeOf, Within
<1>5. /\ measured.hot = HotScore(r.ticker, r.volume) /\ measured.spread = SpreadOf(r.ticker)
      /\ measured.marketScore = standing.score
  OBVIOUS
<1> HIDE DEF m, measured, standing
<1>6. m.hot = measured.hot /\ m.spread = measured.spread /\ m.marketScore = measured.marketScore
  BY <1>2, <1>3
<1>7. \A f \in DOMAIN ChartFields : f \notin {"hot", "spread", "regime", "marketScore"}
  BY DEF ChartFields
<1>8. \A f \in DOMAIN ChartFields : f \in DOMAIN r
  BY <1>1 DEF IsChart
<1>9. \A f \in DOMAIN ChartFields : f \in DOMAIN m /\ m[f] = r[f]
  <2> TAKE f \in DOMAIN ChartFields
  <2>1. f \in DOMAIN r /\ f \notin DOMAIN measured
    BY <1>3, <1>7, <1>8
  <2>2. QED  BY <1>2, <2>1
<1>10. m.quarters = r.quarters /\ m.hours = r.hours
  BY <1>9 DEF ChartFields
<1>11. Price(m) = Price(r) /\ \A n, d : RangeLevel(m, n, d) = RangeLevel(r, n, d)
  BY <1>10 DEF Price, RangeLevel
<1>12. IsChart(m)
  BY <1>1, <1>9, <1>10, <1>11 DEF IsChart
<1>13. Within(HotScore(r.ticker, r.volume), 0, 10000) /\ Within(SpreadOf(r.ticker), 2, 120)
  <2>1. r.volume \in Int
    BY <1>1, ChartNumbers
  <2>2. QED  BY <1>1, <2>1, HotScoreInRange DEF Within
<1>14. QED  BY <1>4, <1>5, <1>6, <1>11, <1>12, <1>13 DEF m

\* Every candidate of the selector is sound.
LEMMA EvaluatedIsSound ==
    ASSUME NEW m, IsChart(m), m.hot \in Int, NEW config \in StrategyConfig,
           NEW minRiskReward \in Nat, NEW c \in Evaluated(m, config, minRiskReward)
    PROVE  Sound(c, m, config, minRiskReward)
<1>1. PICK d \in Directions :
         c \in BreakoutVolume(config.breakout_volume, m, View(m, d), minRiskReward)
               \cup PullbackContinuation(config.pullback_continuation, m, View(m, d), minRiskReward)
               \cup ExhaustionReversal(config.mean_reversion, m, View(m, d), minRiskReward)
               \cup TrendReclaim(config.trend_reclaim, m, View(m, d), minRiskReward)
               \cup RangeBounce(config.range_bounce, m, View(m, d), minRiskReward)
  BY DEF Evaluated, EvaluatedBy
<1>2. CASE c \in BreakoutVolume(config.breakout_volume, m, View(m, d), minRiskReward)
  BY <1>2, BreakoutIsSound
<1>3. CASE c \in PullbackContinuation(config.pullback_continuation, m, View(m, d), minRiskReward)
  BY <1>3, PullbackIsSound
<1>4. CASE c \in ExhaustionReversal(config.mean_reversion, m, View(m, d), minRiskReward)
  BY <1>4, ReversalIsSound
<1>5. CASE c \in TrendReclaim(config.trend_reclaim, m, View(m, d), minRiskReward)
  BY <1>5, ReclaimIsSound
<1>6. CASE c \in RangeBounce(config.range_bounce, m, View(m, d), minRiskReward)
  BY <1>6, BounceIsSound
<1>7. QED  BY <1>1, <1>2, <1>3, <1>4, <1>5, <1>6

LEMMA ConfidenceInRange ==
    ASSUME NEW m, m.hot \in Int, m.spread \in Int, m.marketScore \in Int, NEW c \in Candidates, NEW riskScore \in Int
    PROVE  Within(Confidence(m, c, riskScore), 0, 10000)
<1> DEFINE calm == Max({20, 100 - m.spread})
           sum == (25 * m.hot) \div 100 + 30 * c.strategyScore + 20 * m.marketScore
                  + 15 * calm + 10 * riskScore
<1>1. calm \in Int
  BY MaxOfTwo
<1>2. c.strategyScore \in Int
  BY DEF Candidates
<1>3. Confidence(m, c, riskScore) = Clamped(sum, 0, 10000)
  BY DEF Confidence
<1> HIDE DEF calm
<1>4. sum \in Int
  BY <1>1, <1>2
<1> HIDE DEF sum
<1>5. Within(Clamped(sum, 0, 10000), 0, 10000)
  BY <1>4, ClampedWithin
<1>6. QED  BY <1>3, <1>5


-----------------------------------------------------------------------------
(* The prices of a fixed return on equity.                                 *)

\* A product grows with its factor.
LEMMA Product ==
    ASSUME NEW a \in Int, NEW b \in Int, NEW c \in Nat
    PROVE  a <= b => a * c <= b * c
  OBVIOUS

LEMMA StrictProduct ==
    ASSUME NEW a \in Int, NEW b \in Int, NEW c \in Nat \ {0}
    PROVE  a < b => a * c < b * c
  OBVIOUS

LEMMA Quotient ==
    ASSUME NEW n \in Int, NEW d \in Nat \ {0}, NEW q \in Int
    PROVE  /\ n \div d \in Int
           /\ n >= q * d => n \div d >= q
           /\ n < (q + 1) * d => n \div d <= q
  OBVIOUS

\* A price is rounded to the nearest tick, the middle up: what lies beyond a price
\* on the grid does so afterwards, and strictly if it is half a tick away.
LEMMA Rounding ==
    ASSUME NEW n \in Int, NEW d \in Nat \ {0}, NEW k \in Int
    PROVE  /\ RoundedToTick(n, d) \in Int
           /\ n >= d * (k * Tick) => RoundedToTick(n, d) >= k * Tick
           /\ n <= d * (k * Tick) => RoundedToTick(n, d) <= k * Tick
           /\ 2 * n + d * Tick < 2 * (d * (k * Tick)) => RoundedToTick(n, d) < k * Tick
           /\ 2 * n >= 2 * (d * (k * Tick)) + d * Tick => RoundedToTick(n, d) > k * Tick
<1> DEFINE t == d * Tick
           q == (2 * n + t) \div (2 * t)
<1>1. Tick \in Nat \ {0}
  BY TickAssumption
<1>2. t \in Nat \ {0}
  BY <1>1
<1>3. RoundedToTick(n, d) = Tick * q
  <2>1. 2 * d * Tick = 2 * t
    BY <1>1
  <2>2. QED  BY <2>1 DEF RoundedToTick
<1>4. d * (k * Tick) = k * t
  BY <1>1
<1> HIDE DEF t
<1>5. /\ q \in Int
      /\ n >= k * t => q >= k
      /\ n <= k * t => q <= k
      /\ 2 * n + t < 2 * (k * t) => q <= k - 1
      /\ 2 * n >= 2 * (k * t) + t => q >= k + 1
  <2> DEFINE z == 2 * t
  <2>1. z \in Nat \ {0} /\ 2 * n + t \in Int
    BY <1>2
  <2>2. k * z = 2 * (k * t) /\ (k + 1) * z = 2 * (k * t) + 2 * t
    BY <1>2
  <2>3. k * t \in Int
    BY <1>2
  <2> HIDE DEF z
  <2>4. /\ (2 * n + t) \div z \in Int
        /\ 2 * n + t >= k * z => (2 * n + t) \div z >= k
        /\ 2 * n + t < (k + 1) * z => (2 * n + t) \div z <= k
    BY <2>1, Quotient
  <2>5. 2 * n + t < ((k - 1) + 1) * z => (2 * n + t) \div z <= k - 1
    BY <2>1, Quotient
  <2>6. 2 * n + t >= (k + 1) * z => (2 * n + t) \div z >= k + 1
    BY <2>1, Quotient
  <2>7. (k - 1) + 1 = k
    OBVIOUS
  <2>8. q = (2 * n + t) \div z
    BY DEF z
  <2> HIDE DEF q
  <2>9. QED  BY <1>2, <2>2, <2>3, <2>4, <2>5, <2>6, <2>7, <2>8
<1> HIDE DEF q
<1>6. /\ q >= k => Tick * q >= k * Tick
      /\ q <= k => Tick * q <= k * Tick
      /\ q <= k - 1 => Tick * q < k * Tick
      /\ q >= k + 1 => Tick * q > k * Tick
  BY <1>1, <1>5
<1>7. Tick * q \in Int
  BY <1>1, <1>5
<1>8. QED  BY <1>3, <1>4, <1>5, <1>6, <1>7 DEF t

\* The price of a fixed return is a number.
LEMMA FixedRoeIsNumber ==
    ASSUME NEW entry \in Nat \ {0}, NEW d \in Directions, NEW leverage \in Nat \ {0},
           NEW roe \in Int
    PROVE  FixedRoePrice(entry, d, leverage, roe) \in Int
<1> DEFINE b == Sign(d) * FeeBps
           a == Sign(d) * (10 * roe)
           n == entry * ((10000 + b) * leverage + a)
           den == (10000 - b) * leverage
<1>1. FeeBps \in Int /\ 1 <= FeeBps /\ FeeBps <= 100
  BY FeeBpsAssumption
<1>2. a \in Int /\ b \in Int /\ 10000 - b \in Nat \ {0} /\ 10000 + b \in Nat \ {0}
  BY <1>1 DEF Sign
<1>3. FixedRoePrice(entry, d, leverage, roe) = RoundedToTick(n, den)
  BY DEF FixedRoePrice
<1> HIDE DEF a, b
<1>4. n \in Int /\ den \in Nat \ {0}
  BY <1>2
<1> HIDE DEF n, den
<1>5. QED  BY <1>3, <1>4, Rounding, TickAssumption

\* Half a tick is less than the fees of both sides at that price.
Fine(price) == 2 * FeeBps * price >= (10000 + FeeBps) * Tick

\* An entry times the half of the fees of a round trip is half a tick, and more.
LEMMA FeesOutweighTick ==
    ASSUME NEW entry \in Nat \ {0}, NEW leverage \in Nat \ {0},
           Fine(entry)
    PROVE  /\ ((10000 + FeeBps) * leverage) * Tick <= 2 * ((FeeBps * leverage) * entry)
           /\ ((10000 - FeeBps) * leverage) * Tick <= 2 * ((FeeBps * leverage) * entry)
<1> DEFINE p == (10000 + FeeBps) * Tick
           q == (10000 - FeeBps) * Tick
           r == 2 * (FeeBps * entry)
<1>1. FeeBps \in Int /\ 1 <= FeeBps /\ FeeBps <= 100 /\ Tick \in Nat \ {0}
  BY FeeBpsAssumption, TickAssumption
<1>2. p \in Int /\ q \in Int /\ r \in Int
  BY <1>1
<1>3. q <= p
  BY <1>1, Product
<1>4. p <= r
  <2>1. 2 * FeeBps * entry = r
    BY <1>1
  <2> HIDE DEF r
  <2>2. QED  BY <2>1 DEF Fine
<1>5. /\ ((10000 + FeeBps) * leverage) * Tick = p * leverage
      /\ ((10000 - FeeBps) * leverage) * Tick = q * leverage
      /\ 2 * ((FeeBps * leverage) * entry) = r * leverage
  BY <1>1
<1> HIDE DEF p, q, r
<1>6. q <= r
  BY <1>2, <1>3, <1>4
<1>7. p * leverage <= r * leverage /\ q * leverage <= r * leverage
  BY <1>2, <1>4, <1>6, Product
<1>8. QED  BY <1>5, <1>7

\* The prices of a fixed return, of a long: below the entry to lose more than the
\* fees, above it to win anything.
LEMMA LongRoe ==
    ASSUME NEW k \in Int, NEW entry \in Nat \ {0}, entry = k * Tick, NEW leverage \in Nat \ {0},
           NEW roe \in Nat
    PROVE  /\ /\ 10 * roe > 3 * FeeBps * leverage
              /\ Fine(entry)
              => FixedRoePrice(entry, "LONG", leverage, -roe) < entry
           /\ entry <= FixedRoePrice(entry, "LONG", leverage, roe)
<1> DEFINE den == (10000 - FeeBps) * leverage
           up == (10000 + FeeBps) * leverage
           fees == FeeBps * leverage
           loss == (up - 10 * roe) * entry
           gain == (up + 10 * roe) * entry
<1>1. FeeBps \in Int /\ 1 <= FeeBps /\ FeeBps <= 100 /\ Tick \in Nat \ {0}
  BY FeeBpsAssumption, TickAssumption
<1>2. den \in Nat \ {0} /\ up \in Nat \ {0} /\ fees \in Nat /\ up = den + 2 * fees
  BY <1>1
<1>3. /\ FixedRoePrice(entry, "LONG", leverage, -roe) = RoundedToTick(loss, den)
      /\ FixedRoePrice(entry, "LONG", leverage, roe) = RoundedToTick(gain, den)
  <2>1. /\ FixedRoePrice(entry, "LONG", leverage, -roe)
           = RoundedToTick(entry * ((10000 + 1 * FeeBps) * leverage + 1 * (10 * (-roe))),
                           (10000 - 1 * FeeBps) * leverage)
        /\ FixedRoePrice(entry, "LONG", leverage, roe)
           = RoundedToTick(entry * ((10000 + 1 * FeeBps) * leverage + 1 * (10 * roe)),
                           (10000 - 1 * FeeBps) * leverage)
    BY DEF FixedRoePrice, Sign
  <2>2. /\ entry * ((10000 + 1 * FeeBps) * leverage + 1 * (10 * (-roe))) = loss
        /\ entry * ((10000 + 1 * FeeBps) * leverage + 1 * (10 * roe)) = gain
        /\ (10000 - 1 * FeeBps) * leverage = den
    BY <1>1
  <2>3. QED  BY <2>1, <2>2
<1>4. ASSUME 10 * roe > 3 * FeeBps * leverage, Fine(entry)
      PROVE  2 * loss + den * Tick < 2 * (den * entry)
  <2>1. 10 * roe > 3 * fees
    BY <1>1, <1>4
  <2> DEFINE x == up - 10 * roe
             y == den - fees
  <2>2. den * Tick <= 2 * (fees * entry)
    BY <1>4, FeesOutweighTick
  <2> HIDE DEF up, den, fees
  <2>3. x \in Int /\ y \in Int /\ x < y
    BY <1>2, <2>1
  <2>4. y * entry = den * entry - fees * entry
    BY <1>2
  <2>5. den * entry \in Int /\ fees * entry \in Int /\ den * Tick \in Int
    BY <1>1, <1>2
  <2> HIDE DEF x, y
  <2>6. x * entry < y * entry /\ x * entry \in Int /\ y * entry \in Int
    BY <2>3, StrictProduct
  <2>7. loss = x * entry
    BY DEF x
  <2> HIDE DEF loss
  <2>8. QED  BY <2>2, <2>4, <2>5, <2>6, <2>7
<1>5. den * entry <= gain
  <2> DEFINE x == up + 10 * roe
  <2> HIDE DEF up, den, fees
  <2>1. x \in Int /\ den <= x
    BY <1>2
  <2> HIDE DEF x
  <2>2. den * entry <= x * entry
    BY <1>2, <2>1, Product
  <2>3. QED  BY <2>2 DEF x
<1>6. loss \in Int /\ gain \in Int
  BY <1>2
<1> HIDE DEF den, up, fees, loss, gain
<1>7. /\ 2 * loss + den * Tick < 2 * (den * entry) => RoundedToTick(loss, den) < entry
      /\ gain >= den * entry => RoundedToTick(gain, den) >= entry
      /\ RoundedToTick(gain, den) \in Int
  BY <1>2, <1>6, Rounding
<1>8. den * entry \in Int
  BY <1>2
<1>9. entry <= RoundedToTick(gain, den)
  BY <1>5, <1>6, <1>7, <1>8
<1>10. ASSUME 10 * roe > 3 * FeeBps * leverage, Fine(entry)
       PROVE  RoundedToTick(loss, den) < entry
  BY <1>4, <1>7, <1>10
<1>11. QED  BY <1>3, <1>9, <1>10

\* And of a short: above it to lose more than the fees, below it to win.
LEMMA ShortRoe ==
    ASSUME NEW k \in Int, NEW entry \in Nat \ {0}, entry = k * Tick, NEW leverage \in Nat \ {0},
           NEW roe \in Nat
    PROVE  /\ /\ 10 * roe > 3 * FeeBps * leverage
              /\ Fine(entry)
              => entry < FixedRoePrice(entry, "SHORT", leverage, -roe)
           /\ FixedRoePrice(entry, "SHORT", leverage, roe) <= entry
<1> DEFINE den == (10000 + FeeBps) * leverage
           down == (10000 - FeeBps) * leverage
           fees == FeeBps * leverage
           loss == (down + 10 * roe) * entry
           gain == (down - 10 * roe) * entry
<1>1. FeeBps \in Int /\ 1 <= FeeBps /\ FeeBps <= 100 /\ Tick \in Nat \ {0}
  BY FeeBpsAssumption, TickAssumption
<1>2. den \in Nat \ {0} /\ down \in Nat \ {0} /\ fees \in Nat /\ den = down + 2 * fees
  BY <1>1
<1>3. /\ FixedRoePrice(entry, "SHORT", leverage, -roe) = RoundedToTick(loss, den)
      /\ FixedRoePrice(entry, "SHORT", leverage, roe) = RoundedToTick(gain, den)
  <2>1. /\ FixedRoePrice(entry, "SHORT", leverage, -roe)
           = RoundedToTick(entry * ((10000 + (-1) * FeeBps) * leverage + (-1) * (10 * (-roe))),
                           (10000 - (-1) * FeeBps) * leverage)
        /\ FixedRoePrice(entry, "SHORT", leverage, roe)
           = RoundedToTick(entry * ((10000 + (-1) * FeeBps) * leverage + (-1) * (10 * roe)),
                           (10000 - (-1) * FeeBps) * leverage)
    BY DEF FixedRoePrice, Sign
  <2>2. /\ entry * ((10000 + (-1) * FeeBps) * leverage + (-1) * (10 * (-roe))) = loss
        /\ entry * ((10000 + (-1) * FeeBps) * leverage + (-1) * (10 * roe)) = gain
        /\ (10000 - (-1) * FeeBps) * leverage = den
    BY <1>1
  <2>3. QED  BY <2>1, <2>2
<1>4. ASSUME 10 * roe > 3 * FeeBps * leverage, Fine(entry)
      PROVE  2 * loss >= 2 * (den * entry) + den * Tick
  <2>1. 10 * roe > 3 * fees
    BY <1>1, <1>4
  <2> DEFINE x == down + 10 * roe
             y == den + fees
  <2>2. den * Tick <= 2 * (fees * entry)
    BY <1>4, FeesOutweighTick
  <2> HIDE DEF down, den, fees
  <2>3. x \in Int /\ y \in Int /\ y <= x
    BY <1>2, <2>1
  <2>4. y * entry = den * entry + fees * entry
    BY <1>2
  <2>5. den * entry \in Int /\ fees * entry \in Int /\ den * Tick \in Int
    BY <1>1, <1>2
  <2> HIDE DEF x, y
  <2>6. y * entry <= x * entry /\ x * entry \in Int /\ y * entry \in Int
    BY <2>3, Product
  <2>7. loss = x * entry
    BY DEF x
  <2> HIDE DEF loss
  <2>8. QED  BY <2>2, <2>4, <2>5, <2>6, <2>7
<1>5. gain <= den * entry
  <2> DEFINE x == down - 10 * roe
  <2> HIDE DEF down, den, fees
  <2>1. x \in Int /\ x <= den
    BY <1>2
  <2> HIDE DEF x
  <2>2. x * entry <= den * entry
    BY <1>2, <2>1, Product
  <2>3. QED  BY <2>2 DEF x
<1>6. loss \in Int /\ gain \in Int
  BY <1>2
<1> HIDE DEF den, down, fees, loss, gain
<1>7. /\ 2 * loss >= 2 * (den * entry) + den * Tick => RoundedToTick(loss, den) > entry
      /\ gain <= den * entry => RoundedToTick(gain, den) <= entry
      /\ RoundedToTick(loss, den) \in Int
  BY <1>2, <1>6, Rounding
<1>8. RoundedToTick(gain, den) <= entry
  BY <1>5, <1>7
<1>9. ASSUME 10 * roe > 3 * FeeBps * leverage, Fine(entry)
      PROVE  entry < RoundedToTick(loss, den)
  BY <1>4, <1>7, <1>9
<1>10. QED  BY <1>3, <1>8, <1>9

\* The price of a higher return lies farther ahead.
LEMMA HigherRoe ==
    ASSUME NEW entry \in Nat \ {0}, NEW d \in Directions, NEW leverage \in Nat \ {0},
           NEW roe \in Int, NEW higher \in Int, roe <= higher
    PROVE  Sign(d) * FixedRoePrice(entry, d, leverage, roe)
           <= Sign(d) * FixedRoePrice(entry, d, leverage, higher)
<1> DEFINE b == Sign(d) * FeeBps
           den == (10000 - b) * leverage
           c == (10000 + b) * leverage
           n(r) == entry * (c + Sign(d) * (10 * r))
           t == den * Tick
           q(r) == (2 * n(r) + t) \div (2 * t)
<1>1. FeeBps \in Int /\ 1 <= FeeBps /\ FeeBps <= 100 /\ Tick \in Nat \ {0}
  BY FeeBpsAssumption, TickAssumption
<1>2. b \in Int /\ 10000 - b \in Nat \ {0} /\ 10000 + b \in Nat \ {0}
  BY <1>1 DEF Sign
<1>3. \A r \in Int : FixedRoePrice(entry, d, leverage, r) = RoundedToTick(n(r), den)
  BY DEF FixedRoePrice
<1> HIDE DEF b
<1>4. t \in Nat \ {0} /\ den \in Nat \ {0} /\ c \in Int
  BY <1>1, <1>2
<1>5. \A r \in Int : RoundedToTick(n(r), den) = Tick * q(r)
  <2>1. 2 * den * Tick = 2 * t
    BY <1>1, <1>4
  <2> HIDE DEF n, den
  <2>2. QED  BY <2>1 DEF RoundedToTick
<1> HIDE DEF den, c, t
<1>6. /\ n(roe) \in Int /\ n(higher) \in Int
      /\ d = "LONG" => n(roe) <= n(higher)
      /\ d = "SHORT" => n(higher) <= n(roe)
  <2> DEFINE x == c + Sign(d) * (10 * roe)
             y == c + Sign(d) * (10 * higher)
  <2>1. x \in Int /\ y \in Int /\ (d = "LONG" => x <= y) /\ (d = "SHORT" => y <= x)
    BY <1>4 DEF Sign, Directions
  <2> HIDE DEF x, y
  <2>2. (x <= y => entry * x <= entry * y) /\ (y <= x => entry * y <= entry * x)
    BY <2>1
  <2>3. QED  BY <2>1, <2>2 DEF x, y
<1> HIDE DEF n
<1>7. ASSUME NEW i \in Int, NEW j \in Int, i <= j
      PROVE  Tick * ((2 * i + t) \div (2 * t)) <= Tick * ((2 * j + t) \div (2 * t))
  <2> DEFINE z == 2 * t
             u == (2 * i + t) \div z
             w == (2 * j + t) \div z
  <2>1. z \in Nat \ {0} /\ 2 * i + t \in Int /\ 2 * j + t \in Int /\ 2 * i + t <= 2 * j + t
    BY <1>4, <1>7
  <2> HIDE DEF z
  <2>2. u \in Int /\ w \in Int /\ u <= w
    <3>1. u \in Int /\ w \in Int
      BY <2>1, Quotient
    <3>2. u * z <= 2 * i + t
      BY <2>1
    <3>3. u * z \in Int
      BY <3>1, <2>1
    <3>4. 2 * j + t >= u * z
      BY <2>1, <3>2, <3>3
    <3> HIDE DEF u
    <3>5. QED  BY <2>1, <3>1, <3>4, Quotient
  <2> HIDE DEF u, w
  <2>3. Tick * u <= Tick * w
    BY <1>1, <2>2
  <2>4. QED  BY <2>3 DEF u, w, z
<1>8. /\ d = "LONG" => Tick * q(roe) <= Tick * q(higher)
      /\ d = "SHORT" => Tick * q(higher) <= Tick * q(roe)
  BY <1>6, <1>7
<1>9. q(roe) \in Int /\ q(higher) \in Int
  <2> DEFINE z == 2 * t
  <2>1. z \in Nat \ {0} /\ 2 * n(roe) + t \in Int /\ 2 * n(higher) + t \in Int
    BY <1>4, <1>6
  <2> HIDE DEF z
  <2>2. (2 * n(roe) + t) \div z \in Int /\ (2 * n(higher) + t) \div z \in Int
    BY <2>1, Quotient
  <2>3. QED  BY <2>2 DEF z
<1>10. /\ FixedRoePrice(entry, d, leverage, roe) = Tick * q(roe)
       /\ FixedRoePrice(entry, d, leverage, higher) = Tick * q(higher)
  BY <1>3, <1>5
<1> HIDE DEF q
<1>11. Tick * q(roe) \in Int /\ Tick * q(higher) \in Int
  BY <1>1, <1>9
<1>12. QED  BY <1>8, <1>10, <1>11 DEF Sign, Directions

-----------------------------------------------------------------------------
(* What the risk engine allows.                                            *)

\* The fields of the settings that count as numbers.
LEMMA SettingsNumbers ==
    ASSUME NEW s, IsSettings(s)
    PROVE  /\ {s.maxLeverage, s.defaultLeverage} \subseteq Nat \ {0}
           /\ {s.riskPerTradePercent, s.minPositionUsd, s.maxPositionUsd, s.minRiskReward,
               s.fixedRoeSl, s.fixedRoeTp, s.paper} \subseteq Nat
           /\ s.strategies \in StrategyConfig
  BY DEF IsSettings, IsPatch, Fields

LEMMA LeverageIsNumber ==
    ASSUME NEW s, IsSettings(s)
    PROVE  LeverageOf(s) \in Nat \ {0}
<1> DEFINE a == s.maxLeverage
           b == s.defaultLeverage
<1>1. a \in Nat \ {0} /\ b \in Nat \ {0}
  BY SettingsNumbers
<1> HIDE DEF a, b
<1>2. Min({a, b}) \in Nat \ {0}
  BY <1>1, MinOfTwo
<1>3. QED  BY <1>2 DEF LeverageOf, a, b

LEMMA PatchKeepsSettings ==
    ASSUME NEW s, IsSettings(s), NEW p, IsPatch(p)
    PROVE  IsSettings([f \in DOMAIN s |-> IF f \in DOMAIN p THEN p[f] ELSE s[f]])
<1> HIDE DEF Fields
<1>1. QED  BY DEF IsSettings, IsPatch

LEMMA EffectiveStopIsNumber ==
    ASSUME IsSettings(scan), NEW c \in Candidates
    PROVE  EffectiveStop(c) \in Int
<1>1. /\ c.entryPrice \in Nat \ {0} /\ c.direction \in Directions /\ c.stopLoss \in Int
  BY DEF Candidates
<1>2. LeverageOf(scan) \in Nat \ {0} /\ scan.fixedRoeSl \in Nat
  BY LeverageIsNumber, SettingsNumbers
<1> DEFINE entry == c.entryPrice
           d == c.direction
           leverage == LeverageOf(scan)
           roe == -scan.fixedRoeSl
<1>3. roe \in Int
  BY <1>2
<1>4. EffectiveStop(c) = IF scan.fixedRoeEnabled THEN FixedRoePrice(entry, d, leverage, roe)
                         ELSE c.stopLoss
  BY DEF EffectiveStop
<1>5. entry \in Nat \ {0} /\ d \in Directions /\ leverage \in Nat \ {0}
  BY <1>1, <1>2
<1> HIDE DEF entry, d, leverage, roe
<1>6. FixedRoePrice(entry, d, leverage, roe) \in Int
  BY <1>3, <1>5, FixedRoeIsNumber
<1>7. QED  BY <1>1, <1>4, <1>6

LEMMA RiskAmountIsNumber ==
    ASSUME NEW balance \in Nat, NEW percent \in Nat, NEW confidence
    PROVE  RiskAmount(balance, percent, confidence) \in Nat
<1> DEFINE q == IF confidence >= 8500 THEN 5 ELSE IF confidence >= 7800 THEN 4
                ELSE IF confidence >= 7200 THEN 3 ELSE 2
<1>1. q \in Nat
  OBVIOUS
<1> HIDE DEF q
<1>2. (balance \div 10000) \in Nat
  BY SMT
<1> DEFINE b == balance \div 10000
<1> HIDE DEF b
<1>3. b \in Nat
  BY <1>2 DEF b
<1>4. (b * percent) * q \in Nat
  BY <1>1, <1>3
<1> DEFINE x == b * percent * q
<1>5. x \in Nat
  BY <1>4
<1> HIDE DEF x
<1>6. x \div 4 \in Nat
  BY <1>5, SMT
<1>7. RiskAmount(balance, percent, confidence) = x \div 4
  BY DEF RiskAmount, b, q, x
<1>8. QED  BY <1>6, <1>7

\* A position is worth the amount at risk, or no more steps than the minimum asks.
LEMMA SizeIsBudgeted ==
    ASSUME NEW riskAmount \in Nat, NEW entry \in Nat \ {0}, NEW distance \in Nat,
           NEW minimum \in Nat, NEW maximum \in Nat
    PROVE  LET size == PositionSize(riskAmount, entry, distance, minimum, maximum)
           IN size * distance <= riskAmount \/ (size - 1) * entry < minimum
<1> DEFINE size == PositionSize(riskAmount, entry, distance, minimum, maximum)
           byRisk == riskAmount \div distance
           least == minimum \div entry
           most == maximum \div entry
           wanted == Max({byRisk, least})
           steps == Min({wanted, most})
<1>1. CASE distance = 0
  <2>1. size = 0  BY <1>1 DEF PositionSize
  <2>2. QED  BY <1>1, <2>1
<1>2. CASE distance # 0
  <2>1. byRisk \in Nat /\ least \in Nat /\ most \in Nat
    BY <1>2, QuotientFits, SMT
  <2>2. \/ size = steps
        \/ size = steps + 1 /\ steps * entry < minimum
    BY <1>2 DEF PositionSize
  <2>3. \A q \in Nat : q <= byRisk => q * distance <= riskAmount
    BY <1>2, QuotientFits
  <2>4. \A q \in Nat : q <= least => q * entry <= minimum
    BY QuotientFits
  <2> HIDE DEF size, byRisk, least, most
  <2>5. wanted \in Nat /\ (wanted = byRisk \/ wanted = least)
    BY <2>1, MaxOfTwo
  <2> HIDE DEF wanted
  <2>6. steps \in Nat /\ steps <= wanted
    BY <2>1, <2>5, MinOfTwo
  <2> HIDE DEF steps
  <2>7. steps * distance <= riskAmount \/ steps * entry <= minimum
    BY <2>3, <2>4, <2>5, <2>6, <2>1
  <2>8. steps * entry \in Int /\ (steps - 1) * entry = steps * entry - entry
        /\ (steps + 1) - 1 = steps
    BY <2>6
  <2>9. ASSUME size = steps PROVE size * distance <= riskAmount \/ (size - 1) * entry < minimum
    <3>1. (steps - 1) * entry < minimum \/ steps * distance <= riskAmount
      BY <2>7, <2>8
    <3>2. QED  BY <2>9, <3>1
  <2>10. ASSUME size = steps + 1, steps * entry < minimum
         PROVE  size * distance <= riskAmount \/ (size - 1) * entry < minimum
    <3>1. (size - 1) * entry = steps * entry
      BY <2>8, <2>10
    <3>2. QED  BY <2>10, <3>1
  <2>11. size * distance <= riskAmount \/ (size - 1) * entry < minimum
    BY <2>2, <2>9, <2>10
  <2>12. QED  BY <2>11 DEF size
<1>3. QED  BY <1>1, <1>2

\* Without a message the risk score is the ninety of the placeholder, and the size
\* fits the settings of the moment and the exchange's minimum.
LEMMA NoMessage ==
    ASSUME NEW s, NEW a, NEW c, NEW size, RiskMessages(s, a, c, size) = {}
    PROVE  /\ ~(size <= 0)
           /\ ~(size > 0 /\ size * c.entryPrice < Max({s.minPositionUsd, MinNotional}))
<1> DEFINE notional == size * c.entryPrice
           cap == IF c.direction = "LONG" THEN s.maxLongOpenTrades ELSE s.maxShortOpenTrades
           total == Funds(s, a.total)
           raised == [reward |-> c.riskReward < s.minRiskReward,
                      spread |-> market.spread > s.maxSpreadPercent,
                      regime |-> market.regime = "no_trade",
                      size |-> size <= 0,
                      notional |-> size > 0 /\ notional < Max({s.minPositionUsd, MinNotional}),
                      open |-> a.open.LONG + a.open.SHORT >= s.maxOpenTrades,
                      direction |-> cap > 0 /\ a.open[c.direction] >= cap,
                      loss |-> s.maxDailyLossPercent > 0 /\ total > 0 /\ a.profit <= 0
                               /\ -a.profit >= (total \div 10000) * s.maxDailyLossPercent]
<1>1. RiskMessages(s, a, c, size) = {name \in DOMAIN raised : raised[name]}
  BY DEF RiskMessages
<1>2. "size" \in DOMAIN raised /\ "notional" \in DOMAIN raised
  OBVIOUS
<1>3. /\ raised["size"] = (size <= 0)
      /\ raised["notional"]
         = (size > 0 /\ size * c.entryPrice < Max({s.minPositionUsd, MinNotional}))
  OBVIOUS
<1> HIDE DEF raised
<1>4. ~raised["size"] /\ ~raised["notional"]
  BY <1>1, <1>2
<1>5. QED  BY <1>3, <1>4

LEMMA ValidatedAllowed ==
    ASSUME IsSettings(settings), NEW a \in AccountRecord, NEW c \in Candidates,
           pending.stopLoss \in Int, Validated(a, c).allowed
    PROVE  LET risk == Validated(a, c)
               size == risk.positionSize
           IN /\ risk \in Allowed
              /\ size * c.entryPrice <= settings.maxPositionUsd
              /\ settings.minPositionUsd <= size * c.entryPrice
              /\ MinNotional <= size * c.entryPrice
              /\ \/ size * Magnitude(c.entryPrice - pending.stopLoss) <= risk.riskAmount
                 \/ (size - 1) * c.entryPrice < settings.minPositionUsd
<1> DEFINE amount == RiskAmount(Funds(settings, a.available), settings.riskPerTradePercent,
                                pending.confidence)
           entry == c.entryPrice
           distance == Magnitude(entry - pending.stopLoss)
           minimum == settings.minPositionUsd
           maximum == settings.maxPositionUsd
           size == PositionSize(amount, entry, distance, minimum, maximum)
           messages == RiskMessages(settings, a, c, size)
           least == Max({minimum, MinNotional})
           risk == Validated(a, c)
<1>1. risk = [allowed |-> messages = {}, riskAmount |-> amount, positionSize |-> size,
              leverage |-> LeverageOf(settings),
              riskScore |-> RiskScore(messages, pending.confidence)]
  BY DEF Validated
<1>2. messages = {}
  <2>1. risk.allowed = (messages = {})
    BY DEF Validated
  <2>2. risk.allowed
    OBVIOUS
  <2> HIDE DEF risk, messages
  <2>3. QED  BY <2>1, <2>2
<1>3. RiskScore(messages, pending.confidence) = 90
  BY <1>2 DEF RiskScore
<1>4. ~(size <= 0) /\ ~(size > 0 /\ size * entry < least)
  BY <1>2, NoMessage
<1>5. /\ entry \in Nat \ {0} /\ distance \in Nat /\ minimum \in Nat /\ maximum \in Nat
      /\ MinNotional \in Nat
  <2>1. entry \in Nat \ {0}  BY DEF Candidates
  <2>2. distance \in Nat
    <3> HIDE DEF entry
    <3>1. QED  BY <2>1 DEF Magnitude
  <2>3. QED  BY <2>1, <2>2, SettingsNumbers, MinNotionalAssumption
<1>6. amount \in Nat
  <2>1. a.available \in Nat /\ settings.paper \in Nat /\ settings.riskPerTradePercent \in Nat
    BY SettingsNumbers DEF AccountRecord
  <2>2. Funds(settings, a.available) \in Nat
    BY <2>1 DEF Funds
  <2> DEFINE balance == Funds(settings, a.available)
             percent == settings.riskPerTradePercent
  <2>3. balance \in Nat /\ percent \in Nat
    BY <2>1, <2>2
  <2> HIDE DEF balance, percent
  <2>4. RiskAmount(balance, percent, pending.confidence) \in Nat
    BY <2>3, RiskAmountIsNumber
  <2>5. QED  BY <2>4 DEF balance, percent
<1>7. LeverageOf(settings) \in Nat \ {0}
  BY LeverageIsNumber
<1> HIDE DEF amount, entry, distance, minimum, maximum, messages
<1>8. /\ size \in Nat /\ size * entry <= maximum
      /\ size * distance <= amount \/ (size - 1) * entry < minimum
  BY <1>5, <1>6, SizeWithinMaximum, SizeIsBudgeted
<1> HIDE DEF size
<1>9. least \in Int /\ least >= minimum /\ least >= MinNotional
  BY <1>5, MaxOfTwo
<1> HIDE DEF least
<1>10. size \in Nat \ {0}
  BY <1>4, <1>8
<1>11. size * entry \in Int /\ size * entry >= least
  <2>1. size * entry \in Int /\ size > 0
    BY <1>5, <1>10
  <2>2. ~(size * entry < least)
    BY <1>4, <2>1
  <2>3. QED  BY <1>9, <2>1, <2>2
<1>12. minimum <= size * entry /\ MinNotional <= size * entry
  BY <1>5, <1>9, <1>11
<1> HIDE DEF risk
<1>13. risk.positionSize = size /\ risk.riskAmount = amount
  BY <1>1
<1>14. risk \in Allowed
  BY <1>1, <1>2, <1>3, <1>6, <1>7, <1>10 DEF Allowed
<1>15. QED
  BY <1>8, <1>12, <1>13, <1>14 DEF risk, entry, distance, minimum, maximum

-----------------------------------------------------------------------------
(* The invariant.                                                          *)

\* A candidate in work comes of a reading and aims the way it should.
Carried(c) ==
    /\ Aims(c, scan.strategies, scan.minRiskReward)
    /\ \E r \in Readings : c.entryPrice = Price(r)

WaitingSound == \A c \in waiting : Carried(c)

\* What the risk engine is asked about a candidate carries the placeholder and the
\* stop of the scan's settings.
Asked ==
    stage = "validate" =>
      /\ Carried(pending.candidate)
      /\ pending.confidence = ProvisionalConfidence(market, pending.candidate)
      /\ pending.stopLoss = EffectiveStop(pending.candidate)

\* What it allowed loses no more at that stop than its amount at risk.
Budgeted(e) ==
    LET size == e.risk.positionSize
        entry == e.candidate.entryPrice
    IN \/ size * Magnitude(entry - EffectiveStop(e.candidate)) <= e.risk.riskAmount
       \/ (size - 1) * entry < e.minimum

SelectableSound == \A e \in selectable : Carried(e.candidate) /\ Budgeted(e)

\* A signal is that of something selectable.
Created == stage = "published" => \E e \in selectable : signal = SignalOf(e)

Progress == WaitingSound /\ Asked /\ SelectableSound /\ ConfidenceIsFinal /\ Created

IInv == TypeOK /\ Progress

LEMMA ScanStays ==
    ASSUME scan' = scan
    PROVE  /\ \A c : EffectiveStop(c)' = EffectiveStop(c) /\ Carried(c)' = Carried(c)
           /\ \A e : SignalOf(e)' = SignalOf(e) /\ Budgeted(e)' = Budgeted(e)
<1>1. \A c : EffectiveStop(c)' = EffectiveStop(c)
  BY DEF EffectiveStop
<1>2. \A c : Carried(c)' = Carried(c)
  BY DEF Carried
<1>3. \A e : SignalOf(e)' = SignalOf(e)
  BY DEF SignalOf, SignalPrices
<1>4. \A e : Budgeted(e)' = Budgeted(e)
  BY <1>1 DEF Budgeted
<1>5. QED  BY <1>1, <1>2, <1>3, <1>4

\* A step that adds nothing to what is in work keeps all of it.
LEMMA NothingNew ==
    ASSUME Progress, scan' = scan, market' = market, waiting' \subseteq waiting,
           selectable' = selectable,
           stage' = "validate" => stage = "validate" /\ pending' = pending,
           stage' = "published" => stage = "published" /\ signal' = signal
    PROVE  Progress'
<1>1. WaitingSound'
  BY ScanStays DEF Progress, WaitingSound
<1>2. Asked'
  <2>1. SUFFICES ASSUME stage' = "validate"
                 PROVE  (/\ Carried(pending.candidate)
                         /\ pending.confidence = ProvisionalConfidence(market, pending.candidate)
                         /\ pending.stopLoss = EffectiveStop(pending.candidate))'
    BY DEF Asked
  <2>2. stage = "validate" /\ pending' = pending
    BY <2>1
  <2>3. /\ Carried(pending.candidate)
        /\ pending.confidence = ProvisionalConfidence(market, pending.candidate)
        /\ pending.stopLoss = EffectiveStop(pending.candidate)
    BY <2>2 DEF Progress, Asked
  <2>4. QED  BY <2>2, <2>3, ScanStays
<1>3. SelectableSound'
  BY ScanStays DEF Progress, SelectableSound
<1>4. ConfidenceIsFinal'
  BY DEF Progress, ConfidenceIsFinal
<1>5. Created'
  BY ScanStays DEF Progress, Created
<1>6. QED  BY <1>1, <1>2, <1>3, <1>4, <1>5 DEF Progress

LEMMA InitIInv == Init => IInv
<1> SUFFICES ASSUME Init PROVE IInv
  OBVIOUS
<1>1. IsSettings(settings) /\ IsSettings(scan)
  BY SettingsAssumption DEF Init
<1>2. /\ stage = "start" /\ market = None /\ waiting = {} /\ pending = None /\ selectable = {}
      /\ signal = None /\ patches = 0
  BY DEF Init
<1>3. TypeOK
  BY <1>1, <1>2, MaxPatchesAssumption DEF TypeOK, Stages
<1>4. Progress
  BY <1>2 DEF Progress, WaitingSound, Asked, SelectableSound, ConfidenceIsFinal, Created
<1>5. QED  BY <1>3, <1>4 DEF IInv

LEMMA LeaveKeepsIInv ==
    ASSUME IInv, Leave, signal' = None
    PROVE  IInv'
<1>1. /\ stage' = "fetch" /\ market' = None /\ waiting' = {} /\ pending' = None
      /\ selectable' = {} /\ UNCHANGED <<settings, scan, patches>>
  BY DEF Leave
<1>2. TypeOK'
  BY <1>1 DEF IInv, TypeOK, Stages
<1>3. Progress'
  BY <1>1 DEF Progress, WaitingSound, Asked, SelectableSound, ConfidenceIsFinal, Created
<1>4. QED  BY <1>2, <1>3 DEF IInv

LEMMA PatchKeepsIInv ==
    ASSUME IInv, NEW p \in Patches, Patch(p)
    PROVE  IInv'
<1>1. /\ IsSettings(settings')
      /\ UNCHANGED <<scan, stage, market, results, waiting, pending, selectable, signal>>
      /\ patches' \in 0..MaxPatches
  <2>1. IsSettings(settings) /\ IsPatch(p) /\ patches \in 0..MaxPatches
    BY SettingsAssumption DEF IInv, TypeOK
  <2>2. settings' = [f \in DOMAIN settings |-> IF f \in DOMAIN p THEN p[f] ELSE settings[f]]
    BY DEF Patch
  <2>3. IsSettings(settings')
    BY <2>1, <2>2, PatchKeepsSettings
  <2>4. patches' \in 0..MaxPatches
    BY <2>1, MaxPatchesAssumption DEF Patch
  <2>5. QED  BY <2>3, <2>4 DEF Patch
<1>2. TypeOK'
  BY <1>1 DEF IInv, TypeOK
<1>3. Progress'
  BY <1>1, NothingNew DEF IInv
<1>4. QED  BY <1>2, <1>3 DEF IInv

\* What a fetched symbol offers is sound.
LEMMA FetchKeepsIInv ==
    ASSUME IInv, NEW r \in Readings, Fetch(r)
    PROVE  IInv'
<1>1. /\ stage = "fetch" /\ stage' = "consider" /\ market' = Measured(r)
      /\ waiting' = Offered(market') /\ selectable' = {}
      /\ UNCHANGED <<settings, scan, pending, signal, patches>>
  BY DEF Fetch
<1>2. IsReading(r)
  BY ReadingsAssumption
<1> DEFINE m == Measured(r)
<1>3. /\ IsChart(m) /\ Price(m) = Price(r)
      /\ Within(m.hot, 0, 10000) /\ Within(m.spread, 2, 120) /\ Within(m.marketScore, 0, 100)
  BY <1>2, MeasuredIsChart
<1> HIDE DEF m
<1>4. m.hot \in 0..10000 /\ m.spread \in 2..120 /\ m.marketScore \in 0..100
  <2>1. m.hot \in 0..10000
    BY <1>3, ScoreRange
  <2>2. m.spread \in 2..120 /\ m.marketScore \in 0..100
    BY <1>3, WithinIsRange
  <2>3. QED  BY <2>1, <2>2
<1>5. m.hot \in Int /\ scan.minRiskReward \in Nat /\ scan.strategies \in StrategyConfig
  <2>1. IsSettings(scan)
    BY DEF IInv, TypeOK
  <2>2. QED  BY <2>1, <1>3, SettingsNumbers DEF Within
<1>6. \A c \in waiting' : Sound(c, m, scan.strategies, scan.minRiskReward)
  <2>1. waiting' \subseteq Evaluated(m, scan.strategies, scan.minRiskReward)
    BY <1>1 DEF Offered, m
  <2>2. QED  BY <2>1, <1>3, <1>5, EvaluatedIsSound
<1>7. market' = m
  BY <1>1 DEF m
<1>8. TypeOK'
  <2>1. waiting' \subseteq Candidates
    BY <1>6 DEF Sound
  <2>2. QED  BY <1>1, <1>4, <1>7, <2>1 DEF IInv, TypeOK, Stages
<1>9. Progress'
  <2>1. \A c \in waiting' : Carried(c)
    BY <1>3, <1>6 DEF Sound, Carried
  <2>2. WaitingSound'
    BY <1>1, <2>1, ScanStays DEF WaitingSound
  <2>3. QED  BY <1>1, <2>2 DEF Progress, Asked, SelectableSound, ConfidenceIsFinal, Created
<1>10. QED  BY <1>8, <1>9 DEF IInv

\* A considered candidate is asked about with the placeholder's confidence.
LEMMA ConsiderKeepsIInv ==
    ASSUME IInv, NEW c \in waiting, Consider(c)
    PROVE  IInv'
<1>1. /\ stage = "consider" /\ waiting' = waiting \ {c}
      /\ UNCHANGED <<settings, scan, market, selectable, signal, patches>>
  BY DEF Consider
<1>2. CASE UNCHANGED <<stage, pending>>
  <2>1. TypeOK'
    BY <1>1, <1>2 DEF IInv, TypeOK
  <2>2. Progress'
    BY <1>1, <1>2, NothingNew DEF IInv
  <2>3. QED  BY <2>1, <2>2 DEF IInv
<1>3. CASE /\ pending' = [candidate |-> c, confidence |-> ProvisionalConfidence(market, c),
                          stopLoss |-> EffectiveStop(c)]
           /\ stage' = "validate"
  <2>1. c \in Candidates /\ Carried(c) /\ IsSettings(scan)
    BY DEF IInv, TypeOK, Progress, WaitingSound
  <2>2. EffectiveStop(c) \in Int
    BY <2>1, EffectiveStopIsNumber
  <2>3. ProvisionalConfidence(market, c) \in 0..10000
    <3>1. market.hot \in 0..10000 /\ market.spread \in 2..120 /\ market.marketScore \in 0..100
      BY <1>1 DEF IInv, TypeOK
    <3>2. Within(market.hot, 0, 10000)
      BY <3>1, ScoreRange
    <3>3. Within(market.spread, 2, 120) /\ Within(market.marketScore, 0, 100)
      BY <3>1, WithinIsRange
    <3>4. market.hot \in Int /\ market.spread \in Int /\ market.marketScore \in Int
      BY <3>2, <3>3 DEF Within
    <3>5. Within(Confidence(market, c, 90), 0, 10000)
      BY <2>1, <3>4, ConfidenceInRange
    <3>6. QED  BY <3>5, ScoreRange DEF ProvisionalConfidence
  <2>4. pending' \in Pending
    BY <1>3, <2>1, <2>2, <2>3 DEF Pending
  <2>5. /\ pending'.candidate = c /\ pending'.stopLoss = EffectiveStop(c)
        /\ pending'.confidence = ProvisionalConfidence(market, c)
    BY <1>3
  <2>6. TypeOK'
    BY <1>1, <1>3, <2>4 DEF IInv, TypeOK, Stages
  <2>7. Asked'
    <3>1. Carried(c)' /\ EffectiveStop(c)' = EffectiveStop(c)
      BY <1>1, <2>1, ScanStays
    <3>2. ProvisionalConfidence(market, c)' = ProvisionalConfidence(market, c)
      BY <1>1 DEF ProvisionalConfidence
    <3>3. QED  BY <2>5, <3>1, <3>2 DEF Asked, ProvisionalConfidence
  <2>8. Progress'
    <3>1. WaitingSound' /\ SelectableSound'
      BY <1>1, ScanStays DEF IInv, Progress, WaitingSound, SelectableSound
    <3>2. ConfidenceIsFinal' /\ Created'
      BY <1>1, <1>3 DEF IInv, Progress, ConfidenceIsFinal, Created
    <3>3. QED  BY <2>7, <3>1, <3>2 DEF Progress
  <2>9. QED  BY <2>6, <2>8 DEF IInv
<1>4. QED  BY <1>2, <1>3 DEF Consider

\* Without a message the risk score is the ninety of the placeholder.
LEMMA AllowedScore ==
    ASSUME NEW a, NEW c, Validated(a, c) \in Allowed
    PROVE  Validated(a, c).riskScore = 90
  BY DEF Allowed

LEMMA SelectionScoreIsNumber ==
    ASSUME NEW m, NEW c \in Candidates, NEW confidence, confidence \in Int
    PROVE  SelectionScore(m, c, confidence, 90) \in Int
<1>1. c.strategyScore \in Int /\ c.riskReward \in Int
  BY DEF Candidates
<1>2. QED  BY <1>1 DEF SelectionScore

\* Only a validation adds to what can be selected.
LEMMA ValidateKeepsIInv ==
    ASSUME IInv, NEW a \in Accounts, Validate(a)
    PROVE  IInv'
<1> DEFINE c == pending.candidate
           risk == Validated(a, c)
           confidence == Confidence(market, c, risk.riskScore)
           entry == [candidate |-> c, confidence |-> confidence, risk |-> risk,
                     sizedBy |-> pending.confidence, minimum |-> settings.minPositionUsd,
                     score |-> SelectionScore(market, c, confidence, risk.riskScore)]
<1>1. /\ stage = "validate" /\ stage' = "consider"
      /\ selectable' = selectable \/ (risk.allowed /\ selectable' = selectable \cup {entry})
      /\ UNCHANGED <<settings, scan, market, results, waiting, pending, signal, patches>>
  BY DEF Validate
<1>2. CASE selectable' = selectable
  <2>1. TypeOK'
    BY <1>1, <1>2 DEF IInv, TypeOK, Stages
  <2>2. Progress'
    BY <1>1, <1>2, NothingNew DEF IInv
  <2>3. QED  BY <2>1, <2>2 DEF IInv
<1>3. CASE risk.allowed /\ selectable' = selectable \cup {entry}
  <2>1. /\ c \in Candidates /\ pending.stopLoss \in Int /\ pending.confidence \in 0..10000
        /\ IsSettings(settings) /\ a \in AccountRecord
    BY <1>1, AccountsAssumption DEF IInv, TypeOK, Pending
  <2>2. /\ Carried(c) /\ pending.stopLoss = EffectiveStop(c)
        /\ pending.confidence = Confidence(market, c, 90)
    BY <1>1 DEF IInv, Progress, Asked, ProvisionalConfidence
  <2> DEFINE size == risk.positionSize
  <2>3. /\ risk \in Allowed
        /\ \/ size * Magnitude(c.entryPrice - pending.stopLoss) <= risk.riskAmount
           \/ (size - 1) * c.entryPrice < settings.minPositionUsd
    <3> HIDE DEF c
    <3>1. QED  BY <1>3, <2>1, ValidatedAllowed
  <2>4. risk.riskScore = 90
    BY <2>3, AllowedScore
  <2>5. confidence = pending.confidence
    BY <2>2, <2>4
  <2>6. SelectionScore(market, c, confidence, risk.riskScore) \in Int
    <3>1. Within(pending.confidence, 0, 10000)
      BY <2>1, ScoreRange
    <3>2. confidence \in Int
      BY <2>5, <3>1 DEF Within
    <3> HIDE DEF confidence, c, risk
    <3>3. QED  BY <2>1, <2>4, <3>2, SelectionScoreIsNumber
  <2>7. settings.minPositionUsd \in Nat
    BY <2>1, SettingsNumbers
  <2>8. /\ entry.candidate = c /\ entry.confidence = confidence /\ entry.risk = risk
        /\ entry.sizedBy = pending.confidence /\ entry.minimum = settings.minPositionUsd
    OBVIOUS
  <2>9. entry \in Selectable
    <3>1. confidence \in 0..10000
      BY <2>1, <2>5
    <3> HIDE DEF confidence, c, risk
    <3>2. QED  BY <2>1, <2>3, <2>6, <2>7, <3>1 DEF Selectable
  <2>10. Budgeted(entry)
    <3> HIDE DEF entry, c, risk
    <3>1. QED  BY <2>2, <2>3, <2>8 DEF Budgeted
  <2> HIDE DEF entry, confidence, c, risk
  <2>11. TypeOK'
    BY <1>1, <1>3, <2>9 DEF IInv, TypeOK, Stages
  <2>12. SelectableSound'
    BY <1>1, <1>3, <2>2, <2>8, <2>10, ScanStays DEF IInv, Progress, SelectableSound
  <2>13. ConfidenceIsFinal'
    BY <1>3, <2>5, <2>8 DEF IInv, Progress, ConfidenceIsFinal
  <2>14. WaitingSound' /\ Asked' /\ Created'
    BY <1>1, ScanStays DEF IInv, Progress, WaitingSound, Asked, Created
  <2>15. QED  BY <2>11, <2>12, <2>13, <2>14 DEF IInv, Progress
<1>4. QED  BY <1>1, <1>2, <1>3

\* The signal of a selectable candidate.
LEMMA SignalOfSelectable ==
    ASSUME IsSettings(scan), NEW e \in Selectable
    PROVE  SignalOf(e) \in Signals
<1> DEFINE c == e.candidate
           leverage == e.risk.leverage
           prices == SignalPrices(c, leverage)
<1>1. c \in Candidates /\ e.risk \in Allowed /\ e.minimum \in Nat
  BY DEF Selectable
<1>2. /\ leverage \in Nat \ {0} /\ e.risk.riskAmount \in Nat
      /\ e.risk.positionSize \in Nat \ {0}
  BY <1>1 DEF Allowed
<1>3. /\ c.entryPrice \in Nat \ {0} /\ c.direction \in Directions /\ c.strategy \in DOMAIN Place
      /\ c.stopLoss \in Int /\ c.takeProfit1 \in Int /\ c.takeProfit2 \in Int
  BY <1>1 DEF Candidates, Place
<1>4. SignalOf(e) = [stopLoss |-> prices.stopLoss, takeProfit1 |-> prices.takeProfit1,
                     takeProfit2 |-> prices.takeProfit2, strategy |-> c.strategy,
                     direction |-> c.direction, entryPrice |-> c.entryPrice,
                     leverage |-> leverage, riskAmount |-> e.risk.riskAmount,
                     positionSize |-> e.risk.positionSize, minimum |-> e.minimum]
  BY DEF SignalOf
<1>5. scan.fixedRoeSl \in Nat /\ scan.fixedRoeTp \in Nat
  BY SettingsNumbers
<1> DEFINE entry == c.entryPrice
           d == c.direction
           sl == -scan.fixedRoeSl
           tp == scan.fixedRoeTp
           far == (3 * scan.fixedRoeTp) \div 2
<1>6. sl \in Int /\ tp \in Int /\ far \in Int
  BY <1>5
<1>7. prices = IF scan.fixedRoeEnabled
               THEN [stopLoss |-> FixedRoePrice(entry, d, leverage, sl),
                     takeProfit1 |-> FixedRoePrice(entry, d, leverage, tp),
                     takeProfit2 |-> FixedRoePrice(entry, d, leverage, far)]
               ELSE [stopLoss |-> c.stopLoss, takeProfit1 |-> c.takeProfit1,
                     takeProfit2 |-> c.takeProfit2]
  BY DEF SignalPrices
<1>8. /\ FixedRoePrice(entry, d, leverage, sl) \in Int
      /\ FixedRoePrice(entry, d, leverage, tp) \in Int
      /\ FixedRoePrice(entry, d, leverage, far) \in Int
  <2>1. entry \in Nat \ {0} /\ d \in Directions /\ leverage \in Nat \ {0}
    BY <1>2, <1>3
  <2> HIDE DEF entry, d, leverage, sl, tp, far
  <2>2. QED  BY <1>6, <2>1, FixedRoeIsNumber
<1> HIDE DEF prices, sl, tp, far
<1>9. prices.stopLoss \in Int /\ prices.takeProfit1 \in Int /\ prices.takeProfit2 \in Int
  BY <1>3, <1>7, <1>8
<1>10. QED  BY <1>1, <1>2, <1>3, <1>4, <1>9 DEF Signals

LEMMA PublishKeepsIInv ==
    ASSUME IInv, NEW e \in selectable, Publish(e)
    PROVE  IInv'
<1>1. /\ stage = "select" /\ stage' = "published" /\ signal' = SignalOf(e)
      /\ UNCHANGED <<settings, scan, market, results, waiting, pending, selectable, patches>>
  BY DEF Publish
<1>2. SignalOf(e) \in Signals
  <2>1. IsSettings(scan) /\ e \in Selectable
    BY DEF IInv, TypeOK
  <2>2. QED  BY <2>1, SignalOfSelectable
<1>3. TypeOK'
  BY <1>1, <1>2 DEF IInv, TypeOK, Stages
<1>4. Created'
  BY <1>1, ScanStays DEF Created
<1>5. WaitingSound' /\ Asked' /\ SelectableSound' /\ ConfidenceIsFinal'
  BY <1>1, ScanStays
  DEF IInv, Progress, WaitingSound, Asked, SelectableSound, ConfidenceIsFinal
<1>6. QED  BY <1>3, <1>4, <1>5 DEF IInv, Progress

\* One step per action.
LEMMA NextIInv == IInv /\ [Next]_vars => IInv'
<1> SUFFICES ASSUME IInv, [Next]_vars PROVE IInv'
  OBVIOUS
<1>1. ASSUME NEW p \in Patches, Patch(p) PROVE IInv'
  BY <1>1, PatchKeepsIInv
<1>2. CASE StartScan
  <2>1. /\ stage = "start" /\ stage' = "fetch" /\ scan' = settings
        /\ UNCHANGED <<settings, market, waiting, pending, selectable, signal, patches>>
    BY <1>2 DEF StartScan
  <2>2. /\ market = None /\ waiting = {} /\ pending = None /\ selectable = {} /\ signal = None
    BY <2>1 DEF IInv, TypeOK
  <2>3. TypeOK'
    BY <2>1, <2>2 DEF IInv, TypeOK, Stages
  <2>4. Progress'
    BY <2>1, <2>2 DEF Progress, WaitingSound, Asked, SelectableSound, ConfidenceIsFinal, Created
  <2>5. QED  BY <2>3, <2>4 DEF IInv
<1>3. ASSUME NEW r \in Readings, Fetch(r) PROVE IInv'
  BY <1>3, FetchKeepsIInv
<1>4. ASSUME NEW c \in waiting, Consider(c) PROVE IInv'
  BY <1>4, ConsiderKeepsIInv
<1>5. ASSUME NEW a \in Accounts, Validate(a) PROVE IInv'
  BY <1>5, ValidateKeepsIInv
<1>6. CASE BalanceFails \/ NothingSelectable \/ Duplicate
  <2>1. Leave /\ signal' = signal /\ stage # "published"
    BY <1>6 DEF BalanceFails, NothingSelectable, Duplicate
  <2>2. signal = None
    BY <2>1 DEF IInv, TypeOK
  <2>3. QED  BY <2>1, <2>2, LeaveKeepsIInv
<1>7. CASE AllConsidered
  <2>1. /\ stage = "consider" /\ stage' = "select" /\ selectable # {}
        /\ UNCHANGED <<settings, scan, market, results, waiting, pending, selectable, signal,
                       patches>>
    BY <1>7 DEF AllConsidered
  <2>2. TypeOK'
    BY <2>1 DEF IInv, TypeOK, Stages
  <2>3. Progress'
    BY <2>1, NothingNew DEF IInv
  <2>4. QED  BY <2>2, <2>3 DEF IInv
<1>8. ASSUME NEW e \in selectable, Publish(e) PROVE IInv'
  BY <1>8, PublishKeepsIInv
<1>9. CASE NextSymbol
  BY <1>9, LeaveKeepsIInv DEF NextSymbol
<1>10. CASE EndScan
  <2>1. /\ stage = "fetch" /\ stage' = "start"
        /\ UNCHANGED <<settings, scan, market, results, waiting, pending, selectable, signal,
                       patches>>
    BY <1>10 DEF EndScan
  <2>2. TypeOK'
    BY <2>1 DEF IInv, TypeOK, Stages
  <2>3. Progress'
    BY <2>1, NothingNew DEF IInv
  <2>4. QED  BY <2>2, <2>3 DEF IInv
<1>11. CASE UNCHANGED vars
  <2>1. TypeOK'
    BY <1>11 DEF IInv, TypeOK, vars
  <2>2. Progress'
    BY <1>11, NothingNew DEF IInv, vars
  <2>3. QED  BY <2>1, <2>2 DEF IInv
<1>12. QED
  BY <1>1, <1>2, <1>3, <1>4, <1>5, <1>6, <1>7, <1>8, <1>9, <1>10, <1>11 DEF Next

LEMMA SpecIInv == Spec => []IInv
  BY InitIInv, NextIInv, PTL DEF Spec

-----------------------------------------------------------------------------
(* What follows.                                                           *)

\* The strategies' candidates, what the risk engine says of them and the signals
\* are of their types: the candles' lowest and highest prices, the levels, the
\* scores and the rounded prices are numbers, whatever the readings.
THEOREM TypeCorrect == Spec => []TypeOK
<1>1. IInv => TypeOK  BY DEF IInv
<1>2. QED  BY SpecIInv, <1>1, PTL

\* The comment at ProvisionalConfidence (369-375) holds: every candidate that can
\* become a signal was sized with the confidence it ends up with, for any
\* readings, settings, accounts and changes of the settings in between.
THEOREM ConfidenceStays == Spec => []ConfidenceIsFinal
<1>1. IInv => ConfidenceIsFinal  BY DEF IInv, Progress
<1>2. QED  BY SpecIInv, <1>1, PTL

\* validateSignal allows no position (risk-engine.service.ts 60-77 with
\* PositionSizeService) that is worth more than the maximum or less than either
\* minimum, by the settings as they are when it is asked.
THEOREM SizesFit == Spec => SizeFits
<1> DEFINE Fits == \A e \in selectable' \ selectable :
                      LET notional == e.risk.positionSize * e.candidate.entryPrice
                      IN /\ notional <= settings.maxPositionUsd
                         /\ notional >= settings.minPositionUsd /\ notional >= MinNotional
<1>1. ASSUME IInv, [Next]_vars PROVE Fits
  <2>1. ASSUME NEW a \in Accounts, Validate(a) PROVE Fits
    <3> DEFINE c == pending.candidate
               risk == Validated(a, c)
    <3>1. SUFFICES ASSUME NEW e \in selectable' \ selectable
                   PROVE  LET notional == e.risk.positionSize * e.candidate.entryPrice
                          IN /\ notional <= settings.maxPositionUsd
                             /\ notional >= settings.minPositionUsd /\ notional >= MinNotional
      OBVIOUS
    <3>2. stage = "validate" /\ risk.allowed /\ e.candidate = c /\ e.risk = risk
      BY <2>1 DEF Validate
    <3>3. /\ IsSettings(settings) /\ a \in AccountRecord /\ c \in Candidates
          /\ pending.stopLoss \in Int
      BY <1>1, <3>2, AccountsAssumption DEF IInv, TypeOK, Pending
    <3>4. /\ risk.positionSize * c.entryPrice <= settings.maxPositionUsd
          /\ settings.minPositionUsd <= risk.positionSize * c.entryPrice
          /\ MinNotional <= risk.positionSize * c.entryPrice
      <4> HIDE DEF c
      <4>1. QED  BY <3>2, <3>3, ValidatedAllowed
    <3> HIDE DEF c, risk
    <3>5. QED  BY <3>2, <3>4
  <2>2. CASE selectable' \subseteq selectable
    BY <2>2
  <2>3. (\E a \in Accounts : Validate(a)) \/ selectable' \subseteq selectable
    BY <1>1 DEF Next, vars, Patch, StartScan, Fetch, Consider, BalanceFails, NothingSelectable,
                AllConsidered, Duplicate, Publish, NextSymbol, EndScan, Leave
  <2>4. QED  BY <2>1, <2>2, <2>3
<1>2. IInv /\ [Next]_vars => [Fits]_vars
  BY <1>1
<1>3. QED  BY SpecIInv, <1>2, PTL DEF Spec, SizeFits

\* PositionSizeService keeps the loss at the stop within the amount at risk,
\* unless the minimum asks for more; the stop is the one the signal gets, if the
\* leverage is still the scan's (scanner.service.ts 186-197, 240-262).
THEOREM LossBudgeted == Spec => []LossIsBudgeted
<1>1. ASSUME IInv PROVE LossIsBudgeted
  <2>1. SUFFICES ASSUME stage = "published",
                        ~(scan.fixedRoeEnabled /\ signal.leverage # LeverageOf(scan))
                 PROVE  \/ signal.positionSize * Magnitude(signal.entryPrice - signal.stopLoss)
                           <= signal.riskAmount
                        \/ (signal.positionSize - 1) * signal.entryPrice < signal.minimum
    BY DEF LossIsBudgeted
  <2>2. PICK e \in selectable : signal = SignalOf(e)
    BY <1>1, <2>1 DEF IInv, Progress, Created
  <2> DEFINE c == e.candidate
             prices == SignalPrices(c, e.risk.leverage)
  <2>3. Budgeted(e)
    BY <1>1 DEF IInv, Progress, SelectableSound
  <2>4. /\ signal.stopLoss = prices.stopLoss /\ signal.leverage = e.risk.leverage
        /\ signal.entryPrice = c.entryPrice /\ signal.minimum = e.minimum
        /\ signal.riskAmount = e.risk.riskAmount /\ signal.positionSize = e.risk.positionSize
    BY <2>2 DEF SignalOf
  <2>5. prices.stopLoss = EffectiveStop(c)
    <3>1. CASE scan.fixedRoeEnabled
      <4>1. e.risk.leverage = LeverageOf(scan)
        BY <2>1, <2>4, <3>1
      <4>2. prices.stopLoss
            = FixedRoePrice(c.entryPrice, c.direction, e.risk.leverage, -scan.fixedRoeSl)
        BY <3>1 DEF SignalPrices
      <4>3. QED  BY <3>1, <4>1, <4>2 DEF EffectiveStop
    <3>2. CASE ~scan.fixedRoeEnabled
      BY <3>2 DEF SignalPrices, EffectiveStop
    <3>3. QED  BY <3>1, <3>2
  <2> HIDE DEF prices, c
  <2>6. \/ e.risk.positionSize * Magnitude(c.entryPrice - EffectiveStop(c)) <= e.risk.riskAmount
        \/ (e.risk.positionSize - 1) * c.entryPrice < e.minimum
    BY <2>3 DEF Budgeted, c
  <2>7. QED  BY <2>4, <2>5, <2>6
<1>2. QED  BY SpecIInv, <1>1, PTL

FineTicks == \A r \in Readings : Fine(Price(r))

\* The same prices as a signal's, under a fixed return.
LEMMA RoeAims ==
    ASSUME NEW k \in Int, NEW entry \in Nat \ {0}, entry = k * Tick, NEW d \in Directions,
           NEW leverage \in Nat \ {0}, NEW sl \in Nat, NEW tp \in Nat,
           Fine(entry)
    PROVE  LET s == Sign(d)
               stop == FixedRoePrice(entry, d, leverage, -sl)
               near == FixedRoePrice(entry, d, leverage, tp)
               far == FixedRoePrice(entry, d, leverage, (3 * tp) \div 2)
           IN /\ ~(10 * sl <= 3 * FeeBps * leverage) => s * stop < s * entry
              /\ s * entry <= s * near + 2
              /\ s * near <= s * far
<1> DEFINE stop == FixedRoePrice(entry, d, leverage, -sl)
           near == FixedRoePrice(entry, d, leverage, tp)
           wide == (3 * tp) \div 2
           far == FixedRoePrice(entry, d, leverage, wide)
<1>1. wide \in Int /\ tp <= wide
  OBVIOUS
<1> HIDE DEF wide
<1>2. stop \in Int /\ near \in Int /\ far \in Int
  <2> DEFINE loss == -sl
  <2>1. loss \in Int /\ tp \in Int
    OBVIOUS
  <2> HIDE DEF loss
  <2>2. FixedRoePrice(entry, d, leverage, loss) \in Int
    BY <2>1, FixedRoeIsNumber
  <2>3. near \in Int
    BY <2>1, FixedRoeIsNumber
  <2>4. far \in Int
    BY <1>1, FixedRoeIsNumber
  <2>5. QED  BY <2>2, <2>3, <2>4 DEF loss
<1>3. Sign(d) * near <= Sign(d) * far
  <2>1. tp \in Int
    OBVIOUS
  <2>2. QED  BY <1>1, <2>1, HigherRoe
<1>4. FeeBps \in Int /\ 3 * FeeBps * leverage \in Int
  BY FeeBpsAssumption
<1> DEFINE fees == 3 * FeeBps * leverage
<1>5. ASSUME ~(10 * sl <= fees)
      PROVE  10 * sl > fees
  BY <1>4, <1>5
<1>6. CASE d = "LONG"
  <2>1. 10 * sl > fees => stop < entry
    <3>1. 10 * sl > 3 * FeeBps * leverage => FixedRoePrice(entry, "LONG", leverage, -sl) < entry
      BY LongRoe
    <3>2. QED  BY <1>6, <3>1
  <2>2. entry <= near
    BY <1>6, LongRoe
  <2>3. Sign(d) = 1
    BY <1>6 DEF Sign
  <2> HIDE DEF stop, near, far, fees
  <2>4. /\ ~(10 * sl <= fees) => Sign(d) * stop < Sign(d) * entry
        /\ Sign(d) * entry <= Sign(d) * near + 2
    BY <1>2, <1>5, <2>1, <2>2, <2>3
  <2>5. QED  BY <1>3, <2>4 DEF stop, near, far, fees, wide
<1>7. CASE d = "SHORT"
  <2>1. 10 * sl > fees => entry < stop
    <3>1. 10 * sl > 3 * FeeBps * leverage => entry < FixedRoePrice(entry, "SHORT", leverage, -sl)
      BY ShortRoe
    <3>2. QED  BY <1>7, <3>1
  <2>2. near <= entry
    BY <1>7, ShortRoe
  <2>3. Sign(d) = -1
    BY <1>7 DEF Sign
  <2> HIDE DEF stop, near, far, fees
  <2>4. /\ ~(10 * sl <= fees) => Sign(d) * stop < Sign(d) * entry
        /\ Sign(d) * entry <= Sign(d) * near + 2
    BY <1>2, <1>5, <2>1, <2>2, <2>3
  <2>5. QED  BY <1>3, <2>4 DEF stop, near, far, fees, wide
<1>8. QED  BY <1>6, <1>7 DEF Directions

\* Whatever the settings of the strategies are: unless half a tick of a symbol's
\* price outweighs the fees, a signal's stop loses and its targets win, nearer one
\* first (where the multiples are not set the other way round), whichever strategy
\* proposed it (its geometry) or fixed return replaced its prices
\* (calculateFixedRoePrice).
THEOREM TargetsLieAhead == ASSUME FineTicks PROVE Spec => []TargetsAhead
<1>1. ASSUME IInv PROVE TargetsAhead
  <2>1. SUFFICES ASSUME stage = "published"
                 PROVE  LET s == Sign(signal.direction)
                        IN /\ LossWithinFees \/ s * signal.stopLoss < s * signal.entryPrice
                           /\ CheapBounce \/ s * signal.entryPrice <= s * signal.takeProfit1 + 2
                           /\ CrossedTargets \/ s * signal.takeProfit1 <= s * signal.takeProfit2
    BY DEF TargetsAhead
  <2>2. PICK e \in selectable : signal = SignalOf(e)
    BY <1>1, <2>1 DEF IInv, Progress, Created
  <2> DEFINE c == e.candidate
             prices == SignalPrices(c, e.risk.leverage)
  <2>3. Carried(c) /\ e \in Selectable /\ IsSettings(scan)
    BY <1>1 DEF IInv, TypeOK, Progress, SelectableSound
  <2>4. c \in Candidates /\ e.risk.leverage \in Nat \ {0}
    BY <2>3 DEF Selectable, Allowed
  <2>5. /\ signal.stopLoss = prices.stopLoss /\ signal.takeProfit1 = prices.takeProfit1
        /\ signal.takeProfit2 = prices.takeProfit2 /\ signal.leverage = e.risk.leverage
        /\ signal.entryPrice = c.entryPrice /\ signal.direction = c.direction
        /\ signal.strategy = c.strategy
    BY <2>2 DEF SignalOf
  <2>6. CASE scan.fixedRoeEnabled
    <3> DEFINE entry == c.entryPrice
               d == c.direction
               leverage == e.risk.leverage
               sl == scan.fixedRoeSl
               tp == scan.fixedRoeTp
    <3>1. /\ prices.stopLoss = FixedRoePrice(entry, d, leverage, -sl)
          /\ prices.takeProfit1 = FixedRoePrice(entry, d, leverage, tp)
          /\ prices.takeProfit2 = FixedRoePrice(entry, d, leverage, (3 * tp) \div 2)
      BY <2>6 DEF SignalPrices
    <3>2. /\ entry \in Nat \ {0} /\ d \in Directions /\ leverage \in Nat \ {0}
          /\ sl \in Nat /\ tp \in Nat
      BY <2>3, <2>4, SettingsNumbers DEF Candidates
    <3>3. PICK r \in Readings : entry = Price(r)
      BY <2>3 DEF Carried
    <3>4. Fine(entry)
      BY <3>3 DEF FineTicks
    <3>5. PICK k \in Int : entry = k * Tick
      <4>1. entry % Tick = 0
        BY <3>3, ReadingsAssumption DEF IsReading
      <4> HIDE DEF entry
      <4>2. entry = (entry \div Tick) * Tick /\ entry \div Tick \in Int
        BY <3>2, <4>1, TickAssumption
      <4>3. QED  BY <4>2
    <3>6. LossWithinFees <=> 10 * sl <= 3 * FeeBps * leverage
      BY <2>5, <2>6 DEF LossWithinFees
    <3> HIDE DEF entry, d, leverage, sl, tp
    <3>7. LET s == Sign(d)
              stop == FixedRoePrice(entry, d, leverage, -sl)
              near == FixedRoePrice(entry, d, leverage, tp)
              far == FixedRoePrice(entry, d, leverage, (3 * tp) \div 2)
          IN /\ ~(10 * sl <= 3 * FeeBps * leverage) => s * stop < s * entry
             /\ s * entry <= s * near + 2
             /\ s * near <= s * far
      BY <3>2, <3>4, <3>5, RoeAims
    <3>8. signal.entryPrice = entry /\ signal.direction = d
      BY <2>5 DEF entry, d
    <3> HIDE DEF prices, c
    <3>9. QED  BY <2>5, <3>1, <3>6, <3>7, <3>8
  <2>7. CASE ~scan.fixedRoeEnabled
    <3>1. /\ prices.stopLoss = c.stopLoss /\ prices.takeProfit1 = c.takeProfit1
          /\ prices.takeProfit2 = c.takeProfit2
      BY <2>7 DEF SignalPrices
    <3>2. Aims(c, scan.strategies, scan.minRiskReward)
      BY <2>3 DEF Carried
    <3> HIDE DEF prices, c
    <3>3. c.strategy = "range_bounce" /\ scan.minRiskReward < 150 => CheapBounce
      BY <2>5, <2>7 DEF CheapBounce
    <3>4. Crossed(scan.strategies, c.strategy) => CrossedTargets
      BY <2>5, <2>7 DEF CrossedTargets
    <3>5. QED  BY <2>5, <3>1, <3>2, <3>3, <3>4 DEF Aims
  <2>8. QED  BY <2>6, <2>7
<1>2. QED  BY SpecIInv, <1>1, PTL
=============================================================================
