--------------------------- MODULE SettingsRules ----------------------------
(***************************************************************************)
(* What a PATCH of the settings may contain and what it is turned into:    *)
(* the ranges of UpdateSettingsDto, validateSettingsConsistency,           *)
(* normalizeSettingsUpdate and the micro-account preset.  A body is a      *)
(* function from the fields it names to their values.  Numbers are in      *)
(* hundredths; minDailyVolumeUsd, too large for that, is left out.         *)
(***************************************************************************)
EXTENDS Integers, FiniteSets, TLC

Unbounded == 1000000000

\* Leverage, risk, holding, scores, scanner and expiry.
TradingRanges ==
    [defaultLeverage |-> <<100, 12500>>, maxLeverage |-> <<100, 12500>>,
     riskPerTradePercent |-> <<10, 10000>>, maxDailyLossPercent |-> <<10, 10000>>,
     maxOpenTrades |-> <<100, 5000>>, maxHoldingHours |-> <<0, 16800>>,
     maxConsecutiveLosses |-> <<100, 999900>>, minConfidenceScore |-> <<0, 10000>>,
     minRiskReward |-> <<10, 2000>>, scannerIntervalSeconds |-> <<1000, 360000>>,
     signalExpirationMinutes |-> <<100, 144000>>, maxSymbolsPerScan |-> <<100, 50000>>,
     minHotScoreForScan |-> <<0, 10000>>]

\* Spread, trading window, fixed ROE, position size.
MarketRanges ==
    [maxSpreadPercent |-> <<1, 1000>>, tradingWindowStartHourUtc |-> <<0, 2300>>,
     tradingWindowEndHourUtc |-> <<100, 2400>>, fixedRoeTpPercent |-> <<10, 100000>>,
     fixedRoeSlPercent |-> <<10, 100000>>, minPositionUsd |-> <<100, 100000000>>,
     maxPositionUsd |-> <<100, 100000000>>]

BreakoutRanges ==
    [breakoutMinVolumeRatio |-> <<10, 2000>>, breakoutLookbackPeriod |-> <<200, 20000>>,
     breakoutMaxSlPercent |-> <<10, 3000>>, breakoutTp1Multiplier |-> <<50, 2000>>,
     breakoutTp2Multiplier |-> <<50, 3000>>, breakoutMinHotScore |-> <<0, 10000>>]

PullbackRanges ==
    [pullbackRsiLongMin |-> <<0, 10000>>, pullbackRsiLongMax |-> <<0, 10000>>,
     pullbackRsiShortMin |-> <<0, 10000>>, pullbackRsiShortMax |-> <<0, 10000>>,
     pullbackAtrMultiplier |-> <<10, 1000>>, pullbackMaxSlPercent |-> <<10, 3000>>,
     pullbackMinHotScore |-> <<0, 10000>>, pullbackTp1Multiplier |-> <<50, 2000>>,
     pullbackTp2Multiplier |-> <<50, 3000>>]

ReversionRanges ==
    [reversionRsiOverbought |-> <<0, 10000>>, reversionRsiOversold |-> <<0, 10000>>,
     reversionVwapDeviationPct |-> <<10, 2500>>, reversionVolumeDeclineRatio |-> <<5, 500>>,
     reversionMaxSlPercent |-> <<10, 3000>>]

TrendReclaimRanges ==
    [trendReclaimEmaBufferAtr |-> <<10, 500>>, trendReclaimVolumeRatio |-> <<50, 500>>,
     trendReclaimMaxSlPercent |-> <<10, 3000>>, trendReclaimTp1Multiplier |-> <<50, 2000>>,
     trendReclaimTp2Multiplier |-> <<50, 3000>>, trendReclaimMinHotScore |-> <<0, 10000>>]

RangeBounceRanges ==
    [rangeBounceLookbackPeriod |-> <<500, 20000>>, rangeBounceProximityAtr |-> <<10, 500>>,
     rangeBounceRsiLongMax |-> <<0, 10000>>, rangeBounceRsiShortMin |-> <<0, 10000>>,
     rangeBounceMaxSlPercent |-> <<10, 3000>>, rangeBounceTp1Multiplier |-> <<50, 2000>>,
     rangeBounceTp2Multiplier |-> <<50, 3000>>, rangeBounceMinHotScore |-> <<0, 10000>>]

\* 0 stands for no cap.
CapRanges ==
    [f \in {"breakoutMaxOpenTrades", "pullbackMaxOpenTrades", "reversionMaxOpenTrades",
            "trendReclaimMaxOpenTrades", "rangeBounceMaxOpenTrades",
            "maxLongOpenTrades", "maxShortOpenTrades"} |-> <<0, Unbounded>>]

Ranges ==
    TradingRanges @@ MarketRanges @@ BreakoutRanges @@ PullbackRanges @@ ReversionRanges
        @@ TrendReclaimRanges @@ RangeBounceRanges @@ CapRanges

Numbers == DOMAIN Ranges

\* The validation pipe answers 400 before the handler runs.
WithinRanges(body) ==
    \A f \in DOMAIN body \cap Numbers : body[f] \in Ranges[f][1]..Ranges[f][2]

-----------------------------------------------------------------------------
\* The first of a pair must not exceed the second.
Pairs ==
    {<<"minPositionUsd", "maxPositionUsd">>, <<"defaultLeverage", "maxLeverage">>,
     <<"pullbackRsiLongMin", "pullbackRsiLongMax">>,
     <<"pullbackRsiShortMin", "pullbackRsiShortMax">>,
     <<"minRiskReward", "pullbackTp1Multiplier">>,
     <<"minRiskReward", "breakoutTp2Multiplier">>,
     <<"minRiskReward", "trendReclaimTp2Multiplier">>,
     <<"minRiskReward", "rangeBounceTp2Multiplier">>}

Names(body, pair) == {pair[1], pair[2]} \subseteq DOMAIN body

\* Faulty variant: the targets are compared with the first ones of the schema.
ConsistentButTargets(body) ==
    \A pair \in Pairs :
        Names(body, pair) /\ pair[1] # "minRiskReward" => body[pair[1]] <= body[pair[2]]

\* validateSettingsConsistency looks at the body alone, not at what is stored.
Consistent(body) ==
    /\ \A pair \in Pairs : Names(body, pair) => body[pair[1]] <= body[pair[2]]
    /\ \A f \in {"fixedRoeTpPercent", "fixedRoeSlPercent"} \cap DOMAIN body : body[f] > 0

-----------------------------------------------------------------------------
Aliases == {"enableRealTrading", "allowAutoLiveExecution"}

\* normalizeSettingsUpdate: the aliases of the dashboard win over the columns.
Normalized(body) ==
    LET named == DOMAIN body
        columns ==
            (named \ Aliases)
                \cup {f \in {"realTradingEnabled"} : "enableRealTrading" \in named}
                \cup {f \in {"requireDashboardConfirmation"} : "allowAutoLiveExecution" \in named}
    IN [f \in columns |->
          CASE f = "realTradingEnabled" /\ "enableRealTrading" \in named
                 -> body["enableRealTrading"]
            [] f = "requireDashboardConfirmation" /\ "allowAutoLiveExecution" \in named
                 -> ~body["allowAutoLiveExecution"]
            [] OTHER -> body[f]]

\* serializeSettings adds the aliases to what is stored.
Serialized(stored) ==
    [f \in DOMAIN stored \cup Aliases |->
        CASE f = "enableRealTrading" -> stored["realTradingEnabled"]
          [] f = "allowAutoLiveExecution" -> ~stored["requireDashboardConfirmation"]
          [] OTHER -> stored[f]]

\* Faulty variant: the dashboard's name for real trading is forgotten.
BlockedKeysShort == {"mode", "realTradingEnabled"}

BlockedKeys == {"mode", "realTradingEnabled", "enableRealTrading"}

\* What assertNoUnsafeLiveMutation refuses while live trades are open.
Unsafe(existing, body) ==
    \E f \in BlockedKeys \cap DOMAIN body : body[f] # existing[f]

-----------------------------------------------------------------------------
\* The defaults of the schema for the fields that rules or presets relate.
SchemaDefaults ==
    [mode |-> "testnet", realTradingEnabled |-> FALSE, requireDashboardConfirmation |-> TRUE,
     defaultLeverage |-> 300, maxLeverage |-> 500, minPositionUsd |-> 500,
     maxPositionUsd |-> 2000, minRiskReward |-> 200,
     pullbackRsiLongMin |-> 3800, pullbackRsiLongMax |-> 5800,
     pullbackRsiShortMin |-> 4200, pullbackRsiShortMax |-> 6200,
     pullbackTp1Multiplier |-> 150, breakoutTp2Multiplier |-> 250,
     trendReclaimTp2Multiplier |-> 230, rangeBounceTp2Multiplier |-> 200]

\* applyMicroAccountPreset.
MicroPreset ==
    [mode |-> "testnet", enableRealTrading |-> FALSE, allowAutoLiveExecution |-> FALSE,
     defaultLeverage |-> 300, maxLeverage |-> 400, riskPerTradePercent |-> 50,
     maxDailyLossPercent |-> 200, maxOpenTrades |-> 100, maxHoldingHours |-> 800,
     maxConsecutiveLosses |-> 200, minPositionUsd |-> 200, maxPositionUsd |-> 500,
     scannerIntervalSeconds |-> 4500, signalExpirationMinutes |-> 1000,
     maxSymbolsPerScan |-> 2500, minHotScoreForScan |-> 6000,
     minConfidenceScore |-> 7800, minRiskReward |-> 130]
    @@
    [breakoutEnabled |-> TRUE, breakoutMinVolumeRatio |-> 180,
     breakoutLookbackPeriod |-> 2000, breakoutMaxSlPercent |-> 300,
     breakoutTp1Multiplier |-> 120, breakoutTp2Multiplier |-> 180,
     breakoutMinHotScore |-> 6200, pullbackEnabled |-> TRUE,
     pullbackRsiLongMin |-> 4000, pullbackRsiLongMax |-> 5500,
     pullbackRsiShortMin |-> 4500, pullbackRsiShortMax |-> 6000,
     pullbackAtrMultiplier |-> 120, pullbackMaxSlPercent |-> 300,
     pullbackMinHotScore |-> 5000, reversionEnabled |-> FALSE,
     reversionRsiOverbought |-> 7800, reversionRsiOversold |-> 2200,
     reversionVwapDeviationPct |-> 250, reversionVolumeDeclineRatio |-> 50,
     reversionMaxSlPercent |-> 300]
    @@
    [trendReclaimEnabled |-> TRUE, trendReclaimEmaBufferAtr |-> 30,
     trendReclaimVolumeRatio |-> 120, trendReclaimMaxSlPercent |-> 300,
     trendReclaimTp1Multiplier |-> 130, trendReclaimTp2Multiplier |-> 200,
     trendReclaimMinHotScore |-> 5800, rangeBounceEnabled |-> TRUE,
     rangeBounceLookbackPeriod |-> 2400, rangeBounceProximityAtr |-> 70,
     rangeBounceRsiLongMax |-> 4300, rangeBounceRsiShortMin |-> 5700,
     rangeBounceMaxSlPercent |-> 280, rangeBounceTp1Multiplier |-> 120,
     rangeBounceTp2Multiplier |-> 180, rangeBounceMinHotScore |-> 4500]

=============================================================================
