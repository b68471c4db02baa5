--------------------------- MODULE SymbolAnalysis ---------------------------
(***************************************************************************)
(* One worker of a scan at one symbol after another: processSymbol of the  *)
(* scanner with the strategies, the risk engine and the scores it calls.   *)
(* The scan reads the settings once, when it starts; the risk engine reads *)
(* them again for every candidate; the operator may change them between.   *)
(* What several workers and scans do to each other is in module Scanner.   *)
(***************************************************************************)
EXTENDS Scoring

CONSTANTS
    Readings,   \* what a symbol's candles, indicators and ticker may say
    Standing,   \* the settings there may be at first
    Patches,    \* the changes the operator may make, as functions of fields
    MaxPatches, \* how many of them
    Accounts,   \* balances, open trades and today's profit, as they are read
    Results     \* today's results of each strategy, the latest first

\* The fields of BotSettings that the analysis reads, as the DTO bounds them (a
\* maximum of 0, which would be no cap on a position, is not among them).
Fields ==
    [strategies |-> StrategyConfig,
     mode |-> {"testnet", "live"}, paper |-> Nat, minHotScore |-> Nat, minRiskReward |-> Nat,
     minConfidenceScore |-> Nat, maxConsecutiveLosses |-> Nat, maxSpreadPercent |-> Nat,
     fixedRoeEnabled |-> BOOLEAN, fixedRoeSl |-> Nat, fixedRoeTp |-> Nat,
     maxLeverage |-> Nat \ {0}, defaultLeverage |-> Nat \ {0}, riskPerTradePercent |-> Nat,
     minPositionUsd |-> Nat \ {0}, maxPositionUsd |-> Nat \ {0}, maxOpenTrades |-> Nat,
     maxLongOpenTrades |-> Nat, maxShortOpenTrades |-> Nat, maxDailyLossPercent |-> Nat]

IsPatch(p) == DOMAIN p \subseteq DOMAIN Fields /\ \A f \in DOMAIN p : p[f] \in Fields[f]
IsSettings(s) == IsPatch(s) /\ DOMAIN s = DOMAIN Fields

AccountRecord == [total : Int, available : Nat, open : [Directions -> Nat], profit : Int]

ASSUME ReadingsAssumption == \A r \in Readings : IsReading(r)
ASSUME SettingsAssumption ==
    (\A s \in Standing : IsSettings(s)) /\ (\A p \in Patches : IsPatch(p))
ASSUME AccountsAssumption == Accounts \subseteq AccountRecord
ASSUME MaxPatchesAssumption == MaxPatches \in Nat

VARIABLES
    settings,   \* the row of BotSettings
    scan,       \* the settings as the scan has read them
    stage,      \* where processSymbol is suspended
    market,     \* the reading of the symbol in work, measured
    results,    \* the results the scan has read
    waiting,    \* the candidates of evaluateAll that are still to be considered
    pending,    \* the candidate the risk engine is asked about, and what about it
    selectable, \* selectableCandidates
    signal,     \* the signal last created, or none
    patches     \* how many changes there have been

vars == <<settings, scan, stage, market, results, waiting, pending, selectable, signal, patches>>

None == [none |-> TRUE]

Stages == {"start", "fetch", "consider", "validate", "select", "published"}

\* What validateSignal says of a candidate it allows.
Allowed == [allowed : {TRUE}, riskAmount : Nat, positionSize : Nat \ {0},
            leverage : Nat \ {0}, riskScore : {90}]

Pending == [candidate : Candidates, confidence : 0..10000, stopLoss : Int]
Selectable == [candidate : Candidates, confidence : 0..10000, risk : Allowed,
               sizedBy : 0..10000, minimum : Nat, score : Int]
Signals == [stopLoss : Int, takeProfit1 : Int, takeProfit2 : Int,
            strategy : DOMAIN Place, direction : Directions, entryPrice : Nat \ {0},
            leverage : Nat \ {0}, riskAmount : Nat, positionSize : Nat \ {0}, minimum : Nat]

TypeOK ==
    /\ IsSettings(settings) /\ IsSettings(scan)
    /\ stage \in Stages
    /\ stage \in {"start", "fetch"}
       => market = None /\ waiting = {} /\ pending = None /\ selectable = {} /\ signal = None
    /\ stage \notin {"start", "fetch"}
       => market.hot \in 0..10000 /\ market.spread \in 2..120 /\ market.marketScore \in 0..100
    /\ waiting \subseteq Candidates
    /\ stage = "validate" => pending \in Pending
    /\ selectable \subseteq Selectable
    /\ stage = "select" => selectable # {}
    /\ IF stage = "published" THEN signal \in Signals ELSE signal = None
    /\ patches \in 0..MaxPatches

Init ==
    /\ settings \in Standing
    /\ scan = settings
    /\ stage = "start"
    /\ results \in Results
    /\ market = None /\ waiting = {} /\ pending = None
    /\ selectable = {} /\ signal = None /\ patches = 0

-----------------------------------------------------------------------------
\* Faulty variant: the candidates that passed are kept for the next symbol.
LeaveCarrying ==
    /\ stage' = "fetch"
    /\ market' = None /\ waiting' = {} /\ pending' = None
    /\ UNCHANGED <<settings, scan, results, selectable, patches>>

\* processSymbol returns, or throws and is caught: its locals are gone.
Leave ==
    /\ stage' = "fetch"
    /\ market' = None /\ waiting' = {} /\ pending' = None /\ selectable' = {}
    /\ UNCHANGED <<settings, scan, results, patches>>

\* The operator: PATCH /settings.
Patch(p) ==
    /\ patches < MaxPatches
    /\ patches' = patches + 1
    /\ settings' = [f \in DOMAIN settings |-> IF f \in DOMAIN p THEN p[f] ELSE settings[f]]
    /\ UNCHANGED <<scan, stage, market, results, waiting, pending, selectable, signal>>

\* A scan starts: the settings, and how the strategies did today.
StartScan ==
    /\ stage = "start"
    /\ scan' = settings
    /\ results' \in Results
    /\ stage' = "fetch"
    /\ UNCHANGED <<settings, market, waiting, pending, selectable, signal, patches>>

Offered(m) ==
    IF Filtered(m, scan.minHotScore) THEN {}
    ELSE Evaluated(m, scan.strategies, scan.minRiskReward)

\* The candles and the rest of a symbol: strategies are asked if it is fit for trade.
Fetch(r) ==
    /\ stage = "fetch"
    /\ market' = Measured(r)
    /\ waiting' = Offered(market')
    /\ waiting' # {}
    /\ selectable' = {}
    /\ stage' = "consider"
    /\ UNCHANGED <<settings, scan, results, pending, signal, patches>>

\* Faulty variant: an arbitrary lower number.
ProvisionalConfidenceLow(m, candidate) == Confidence(m, candidate, 70)

\* riskScore is that of an allowed candidate: the risk engine has yet to be asked.
ProvisionalConfidence(m, candidate) == Confidence(m, candidate, 90)

\* Faulty variant: the highest leverage there may be.
EffectiveStopAtMax(candidate) ==
    IF scan.fixedRoeEnabled
    THEN FixedRoePrice(candidate.entryPrice, candidate.direction, scan.maxLeverage,
                       -scan.fixedRoeSl)
    ELSE candidate.stopLoss

\* The stop the position is sized for.
EffectiveStop(candidate) ==
    IF scan.fixedRoeEnabled
    THEN FixedRoePrice(candidate.entryPrice, candidate.direction, LeverageOf(scan),
                       -scan.fixedRoeSl)
    ELSE candidate.stopLoss

\* A candidate of a paused strategy, or along with a crowd, is skipped.
Consider(c) ==
    /\ stage = "consider" /\ c \in FirstOf(waiting)
    /\ waiting' = waiting \ {c}
    /\ IF \/ Paused(results[c.strategy], scan.maxConsecutiveLosses)
          \/ Crowded(market, c.direction)
       THEN UNCHANGED <<stage, pending>>
       ELSE /\ pending' = [candidate |-> c, confidence |-> ProvisionalConfidence(market, c),
                           stopLoss |-> EffectiveStop(c)]
            /\ stage' = "validate"
    /\ UNCHANGED <<settings, scan, market, results, selectable, signal, patches>>

\* In testnet an empty account trades ten thousand dollars of paper.
Funds(s, amount) == IF amount > 0 \/ s.mode = "live" THEN amount ELSE s.paper

\* The messages of validateSignal, by what they are about.
RiskMessages(s, a, candidate, size) ==
    LET notional == size * candidate.entryPrice
        cap == IF candidate.direction = "LONG" THEN s.maxLongOpenTrades ELSE s.maxShortOpenTrades
        total == Funds(s, a.total)
        raised == [reward |-> candidate.riskReward < s.minRiskReward,
                   spread |-> market.spread > s.maxSpreadPercent,
                   regime |-> market.regime = "no_trade",
                   size |-> size <= 0,
                   notional |-> size > 0 /\ notional < Max({s.minPositionUsd, MinNotional}),
                   open |-> a.open.LONG + a.open.SHORT >= s.maxOpenTrades,
                   direction |-> cap > 0 /\ a.open[candidate.direction] >= cap,
                   loss |-> s.maxDailyLossPercent > 0 /\ total > 0 /\ a.profit <= 0
                            /\ -a.profit >= (total \div 10000) * s.maxDailyLossPercent]
    IN {name \in DOMAIN raised : raised[name]}

RiskScore(messages, confidence) ==
    IF messages = {} THEN 90
    ELSE Max({15, 90 - 20 * Cardinality(messages) - (IF confidence < 8000 THEN 10 ELSE 0)})

\* validateSignal, by the settings and the account as they are now.
Validated(a, candidate) ==
    LET amount == RiskAmount(Funds(settings, a.available), settings.riskPerTradePercent,
                             pending.confidence)
        size == PositionSize(amount, candidate.entryPrice,
                             Magnitude(candidate.entryPrice - pending.stopLoss),
                             settings.minPositionUsd, settings.maxPositionUsd)
        messages == RiskMessages(settings, a, candidate, size)
    IN [allowed |-> messages = {}, riskAmount |-> amount, positionSize |-> size,
        leverage |-> LeverageOf(settings), riskScore |-> RiskScore(messages, pending.confidence)]

Validate(a) ==
    /\ stage = "validate"
    /\ LET c == pending.candidate
           risk == Validated(a, c)
           confidence == Confidence(market, c, risk.riskScore)
       IN selectable' =
            IF risk.allowed /\ confidence >= MinConfidence(scan.minConfidenceScore, c.strategy)
            THEN selectable \cup
                   {[candidate |-> c, confidence |-> confidence, risk |-> risk,
                     sizedBy |-> pending.confidence, minimum |-> settings.minPositionUsd,
                     score |-> SelectionScore(market, c, confidence, risk.riskScore)]}
            ELSE selectable
    /\ stage' = "consider"
    /\ UNCHANGED <<settings, scan, market, results, waiting, pending, signal, patches>>

\* The balance of a live account cannot be read: the symbol is given up.
BalanceFails ==
    /\ stage = "validate" /\ settings.mode = "live"
    /\ Leave
    /\ UNCHANGED signal

NothingSelectable ==
    /\ stage = "consider" /\ waiting = {} /\ selectable = {}
    /\ Leave
    /\ UNCHANGED signal

AllConsidered ==
    /\ stage = "consider" /\ waiting = {} /\ selectable # {}
    /\ stage' = "select"
    /\ UNCHANGED <<settings, scan, market, results, waiting, pending, selectable, signal, patches>>

\* An open or a recent trade, or a signal, of the symbol: see module Scanner.
Duplicate ==
    /\ stage = "select"
    /\ Leave
    /\ UNCHANGED signal

\* The first in rank of those with the highest score.
Selected ==
    LET best == {e \in selectable : \A f \in selectable : f.score <= e.score}
    IN {e \in best : \A f \in best : ~Before(f.candidate, e.candidate)}

\* The prices of the signal: the strategy's, or those of a fixed return.
SignalPrices(candidate, leverage) ==
    LET FixedRoe(roe) == FixedRoePrice(candidate.entryPrice, candidate.direction, leverage, roe)
    IN IF scan.fixedRoeEnabled
       THEN [stopLoss |-> FixedRoe(-scan.fixedRoeSl),
             takeProfit1 |-> FixedRoe(scan.fixedRoeTp),
             takeProfit2 |-> FixedRoe((3 * scan.fixedRoeTp) \div 2)]
       ELSE [stopLoss |-> candidate.stopLoss, takeProfit1 |-> candidate.takeProfit1,
             takeProfit2 |-> candidate.takeProfit2]

\* What createSignal is given.
SignalOf(e) ==
    LET prices == SignalPrices(e.candidate, e.risk.leverage)
    IN [stopLoss |-> prices.stopLoss, takeProfit1 |-> prices.takeProfit1,
        takeProfit2 |-> prices.takeProfit2,
        strategy |-> e.candidate.strategy, direction |-> e.candidate.direction,
        entryPrice |-> e.candidate.entryPrice, leverage |-> e.risk.leverage,
        riskAmount |-> e.risk.riskAmount, positionSize |-> e.risk.positionSize,
        minimum |-> e.minimum]

Publish(e) ==
    /\ stage = "select" /\ e \in Selected
    /\ signal' = SignalOf(e)
    /\ stage' = "published"
    /\ UNCHANGED <<settings, scan, market, results, waiting, pending, selectable, patches>>

\* The scan goes on to its next symbol.
NextSymbol ==
    /\ stage = "published"
    /\ Leave
    /\ signal' = None

\* It has no more of them, and another one starts.
EndScan ==
    /\ stage = "fetch"
    /\ stage' = "start"
    /\ UNCHANGED <<settings, scan, market, results, waiting, pending, selectable, signal, patches>>

Next ==
    \/ \E p \in Patches : Patch(p)
    \/ StartScan
    \/ \E r \in Readings : Fetch(r)
    \/ \E c \in waiting : Consider(c)
    \/ \E a \in Accounts : Validate(a)
    \/ BalanceFails \/ NothingSelectable \/ AllConsidered \/ Duplicate
    \/ \E e \in selectable : Publish(e)
    \/ NextSymbol \/ EndScan

Spec == Init /\ [][Next]_vars

-----------------------------------------------------------------------------
LossWithinFees == scan.fixedRoeEnabled /\ 10 * scan.fixedRoeSl <= 3 * FeeBps * signal.leverage
CheapBounce ==
    ~scan.fixedRoeEnabled /\ signal.strategy = "range_bounce" /\ scan.minRiskReward < 150

\* The multiple of the first target is set higher than that of the second.
Crossed(config, strategy) ==
    strategy # "mean_reversion" /\ config[strategy].tp1 > config[strategy].tp2
CrossedTargets == ~scan.fixedRoeEnabled /\ Crossed(scan.strategies, signal.strategy)

\* A signal's stop loses money and its targets, nearer one first, make some, in
\* its direction, but for the two units of the price that dropping fractions can
\* cost the first target of a bounce.  Three settings are exempt: a fixed loss that
\* the fees of a round trip already exceed does put the stop on the wrong side of
\* the entry; below a reward of 1.5 nothing keeps the first target of a bounce,
\* three tenths of an ATR short of the range's end, from lying behind the entry;
\* and nobody compares the two multiples of a strategy's targets.
TargetsAhead ==
    LET s == Sign(signal.direction)
    IN stage = "published" =>
         /\ LossWithinFees \/ s * signal.stopLoss < s * signal.entryPrice
         /\ CheapBounce \/ s * signal.entryPrice <= s * signal.takeProfit1 + 2
         /\ CrossedTargets \/ s * signal.takeProfit1 <= s * signal.takeProfit2

\* Stopped out, a position loses no more than the amount at risk it was sized for,
\* unless it is as small as the minimum allows.  The stop it was sized for was
\* computed with the leverage of the scan's settings, the one it gets with that of
\* the risk engine's: a leverage patched in between is the one way out.
LossIsBudgeted ==
    stage = "published" =>
       \/ signal.positionSize * Magnitude(signal.entryPrice - signal.stopLoss) <= signal.riskAmount
       \/ (signal.positionSize - 1) * signal.entryPrice < signal.minimum
       \/ /\ scan.fixedRoeEnabled
          /\ signal.leverage # LeverageOf(scan)

\* Every candidate that can be selected was sized with the confidence it ends up
\* with (the comment at ProvisionalConfidence promises that): the placeholder for
\* the risk score is what the risk engine gives to those it allows.
ConfidenceIsFinal == \A e \in selectable : e.sizedBy = e.confidence

\* What the risk engine allows is worth no more than the settings of that moment
\* permit and no less than they and the exchange demand, whatever the stop, the
\* balance and the roundings were.
SizeFits ==
    [][\A e \in selectable' \ selectable :
          LET notional == e.risk.positionSize * e.candidate.entryPrice
          IN /\ notional <= settings.maxPositionUsd
             /\ notional >= settings.minPositionUsd /\ notional >= MinNotional]_vars

=============================================================================
