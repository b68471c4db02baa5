----------------------- MODULE SignalExecutionProofs ------------------------
(***************************************************************************)
(* The safety of SignalExecution, for every set of signals, calls and      *)
(* symbols, every rounding of their quantities and every choice of failing *)
(* requests.  First the steps of a call: that they leave other calls alone *)
(* (Frame) and keep the call consistent with its rows and orders; then the *)
(* invariants.  ExecutionProofs says where the steps of a call lead.       *)
(***************************************************************************)
EXTENDS SignalExecution, ExecutionProofs

-----------------------------------------------------------------------------
\* What a trade owns: its row, its Order rows and its orders on the exchange.
SameHoldings(t) ==
    /\ trade'[t] = trade[t]
    /\ rows'[t] = rows[t]
    /\ \A k \in OrderKinds : <<t, k>> \in resting' <=> <<t, k>> \in resting

\* A call leaves the rows and orders of every other trade alone.
LEMMA Frame ==
    ASSUME NEW c \in Calls, CallTyped, CallStep(c), NEW t \in Trades, t # c
    PROVE  SameHoldings(t)
<1> USE DEF SameHoldings
<1>0. StateTypeOK /\ ExecutionTypeOK
  BY DEF CallTyped
<1>1. CASE CheckStep(c)
  BY <1>0, <1>1, ChecksTouchOnlySignals
<1>2. CASE SetLeverage(c) \/ FetchMarkForStop(c) \/ PlaceEntry(c) \/ EmergencyClose(c)
           \/ FailSignal(c) \/ MarkExecuted(c)
  BY <1>2 DEF SetLeverage, FetchMarkForStop, PlaceEntry, EmergencyClose, FailSignal,
              MarkExecuted, stateVars, dbVars, exchangeVars
<1>3. CASE CreateTrade(c) \/ FailTrade(c)
  BY <1>0, <1>3 DEF CreateTrade, FailTrade, StateTypeOK, exchangeVars
<1>4. ASSUME NEW kind, NEW lost, NEW next, NEW otherwise,
             PlaceConditional(c, kind, lost, next, otherwise)
      PROVE  SameHoldings(t)
  BY <1>4 DEF PlaceConditional, dbVars
<1>5. ASSUME NEW kind, NEW next, RecordOrder(c, kind, next) PROVE SameHoldings(t)
  BY <1>0, <1>5 DEF RecordOrder, StateTypeOK, exchangeVars
<1>6. CASE PlaceStop1(c) \/ PlaceStop2(c) \/ PlaceStop3(c) \/ PlaceTp1(c) \/ PlaceTp2(c)
  BY <1>6, <1>4 DEF PlaceStop1, PlaceStop2, PlaceStop3, PlaceTp1, PlaceTp2
<1>7. CASE RecordStop(c) \/ RecordTp1(c) \/ RecordTp2(c)
  BY <1>7, <1>5 DEF RecordStop, RecordTp1, RecordTp2
<1> QED
  BY <1>1, <1>2, <1>3, <1>6, <1>7 DEF CallStep, TradeStep

\* The checks keep a call consistent: before trade.create nothing changes
\* but the signal.
LEMMA ChecksConsistent ==
    ASSUME NEW c \in Calls, CallTyped, CallConsistent(c), CheckStep(c)
    PROVE  CallConsistent(c)'
<1>1. /\ UNCHANGED <<trade, rows, resting>>
      /\ ex[c].pc \in Unopened \/ ex'[c].pc \in {"catchWrite", "done"}
  BY ChecksTouchOnlySignals DEF CallTyped
<1>2. Moved(c, Checking \cup Refusing \cup {"leverage", "done"})
  BY ChecksMove DEF CallTyped
<1>3. ex'[c].pc \notin Opened
  BY <1>2 DEF Moved, Opened, Stopless, StopRecorded, Checking, Refusing
<1>4. ex'[c].pc \in Unopened \cup Stopless => ex[c].pc \in Unopened
  BY <1>1, <1>3 DEF Unopened, Opened, Checking
<1>5. ex'[c].to # "live_executed"
  BY <1>2 DEF Moved, Verdicts, CallConsistent
<1>6. ex'[c].pc \notin StopRecorded
  BY <1>3 DEF Opened
<1>7. ex[c].pc \in Unopened => trade[c].status = "none" /\ HasNoKnownOrder(c)
  BY DEF CallConsistent
<1>8. (ex[c].pc \in Unopened => trade[c].status = "none" /\ HasNoKnownOrder(c))
         => (ex'[c].pc \in Unopened \cup Stopless =>
               trade'[c].status = "none" /\ HasNoKnownOrder(c)')
  BY <1>1, <1>4 DEF HasNoKnownOrder
<1> QED
  BY <1>3, <1>5, <1>6, <1>7, <1>8 DEF CallConsistent

\* FailedHasNoKnownOrder for one call.
FailedIsBare(c) == trade[c].status = "failed" => HasNoKnownOrder(c)

\* From the leverage to the outcome of the entry.
LEMMA EntryConsistent ==
    ASSUME NEW c \in Calls, CallTyped, CallConsistent(c),
           SetLeverage(c) \/ PlaceEntry(c) \/ CreateTrade(c)
    PROVE  CallConsistent(c)' /\ (FailedIsBare(c) => FailedIsBare(c)')
<1> USE DEF At, Unopened, Opened, Stopless, StopRecorded, Checking, HasNoKnownOrder,
            FailedIsBare
<1>0. /\ ExecutionTypeOK
      /\ c \in Trades
      /\ trade \in [Trades -> TradeRow]
  BY DEF CallTyped, StateTypeOK, Trades
<1>1. CASE SetLeverage(c)
  <2>1. Moved(c, {"entry"}) \/ Moved(c, {"catch"})
    BY <1>0, <1>1, GotoMoves, ThrowMoves DEF SetLeverage, Pcs, Trading
  <2>2. UNCHANGED <<trade, rows, resting>>
    BY <1>1 DEF SetLeverage, stateVars
  <2> QED
    BY <1>1, <2>1, <2>2 DEF SetLeverage, Moved, Verdicts, CallConsistent
<1>2. CASE PlaceEntry(c)
  <2>1. Moved(c, {"create"}) \/ Moved(c, {"catch"})
    BY <1>0, <1>2, GotoMoves, ThrowMoves DEF PlaceEntry, Pcs, Trading
  <2>2. UNCHANGED <<trade, rows, resting>>
    BY <1>2 DEF PlaceEntry, dbVars
  <2> QED
    BY <1>2, <2>1, <2>2 DEF PlaceEntry, Moved, Verdicts, CallConsistent
<1>3. CASE CreateTrade(c)
  <2>1. UNCHANGED <<rows, resting>>
    BY <1>3 DEF CreateTrade, exchangeVars
  <2>2. CASE UNCHANGED trade /\ Throw(c, "active")
    <3>1. Moved(c, {"catch"})
      BY <1>0, <2>2, ThrowMoves
    <3> QED
      BY <2>1, <2>2, <3>1 DEF Moved, Verdicts, CallConsistent
  <2>3. CASE /\ Goto(c, "sl1")
             /\ trade' = [trade EXCEPT ![c] =
                            [status |-> "live_open", symbol |-> SymbolAt(c),
                             qty |-> LotsAt(c), signal |-> ex[c].signal]]
    <3>1. Moved(c, {"sl1"})
      BY <1>0, <2>3, GotoMoves DEF Pcs, Trading
    <3>2. trade'[c].status = "live_open" /\ trade'[c].signal = ex[c].signal
      BY <1>0, <2>3
    <3> QED
      BY <1>3, <2>1, <3>1, <3>2 DEF CreateTrade, Moved, Verdicts, CallConsistent
  <2> QED
    BY <1>3, <2>2, <2>3 DEF CreateTrade
<1> QED
  BY <1>1, <1>2, <1>3

\* From the first stop attempt to the failed trade: nothing rests but stops
\* whose answer was lost, or the stop was answered and its row comes next.
LEMMA StopConsistent ==
    ASSUME NEW c \in Calls, CallTyped, CallConsistent(c),
           \/ PlaceStop1(c) \/ FetchMarkForStop(c) \/ PlaceStop2(c) \/ PlaceStop3(c)
           \/ EmergencyClose(c) \/ FailTrade(c) \/ FailSignal(c)
    PROVE  CallConsistent(c)' /\ (FailedIsBare(c) => FailedIsBare(c)')
<1> USE DEF At, Unopened, Opened, Stopless, StopRecorded, Checking, HasNoKnownOrder,
            FailedIsBare
<1>0. /\ ExecutionTypeOK
      /\ c \in Trades
      /\ trade \in [Trades -> TradeRow]
      /\ "sl" \in Kinds
      /\ {"lost1", "lost2", "lost3"} = LostStops
      /\ Trading \subseteq Pcs
  BY DEF CallTyped, StateTypeOK, Trades, Kinds, LostStops, Pcs
<1>1. ASSUME NEW pc \in Stopless, At(c, pc), NEW lost \in LostStops, NEW next \in Stopless,
             PlaceConditional(c, "sl", lost, "slRow", next)
      PROVE  CallConsistent(c)' /\ FailedIsBare(c)'
  <2>1. UNCHANGED <<trade, rows>>
    BY <1>1 DEF PlaceConditional, dbVars
  <2>2. \/ Moved(c, {"slRow"})
        \/ /\ resting' \subseteq resting \cup {<<c, lost>>}
           /\ Moved(c, {next})
    BY <1>0, <1>1, PlacingMoves DEF Trading, OrderKinds, StopKinds
  <2>3. trade[c].status = "live_open"
    BY <1>1 DEF CallConsistent
  <2>4. CASE Moved(c, {"slRow"})
    BY <1>1, <2>1, <2>3, <2>4 DEF Moved, Verdicts, CallConsistent
  <2>5. CASE resting' \subseteq resting \cup {<<c, lost>>} /\ Moved(c, {next})
    <3>1. HasNoKnownOrder(c)'
      BY <1>1, <2>1, <2>5 DEF CallConsistent
    <3> QED
      BY <1>1, <2>1, <2>3, <2>5, <3>1 DEF Moved, Verdicts, CallConsistent
  <2> QED
    BY <2>2, <2>4, <2>5
<1>2. CASE PlaceStop1(c)
  BY <1>0, <1>2, <1>1 DEF PlaceStop1
<1>3. CASE PlaceStop2(c)
  BY <1>0, <1>3, <1>1 DEF PlaceStop2
<1>4. CASE PlaceStop3(c)
  BY <1>0, <1>4, <1>1 DEF PlaceStop3
<1>5. CASE FetchMarkForStop(c)
  <2>1. Moved(c, {"sl2"}) \/ Moved(c, {"emergency"})
    BY <1>0, <1>5, GotoMoves DEF FetchMarkForStop, Trading
  <2>2. UNCHANGED <<trade, rows, resting>>
    BY <1>5 DEF FetchMarkForStop, stateVars
  <2> QED
    BY <1>5, <2>1, <2>2 DEF FetchMarkForStop, Moved, Verdicts, CallConsistent
<1>6. CASE EmergencyClose(c)
  <2>1. Moved(c, {"failTrade"})
    BY <1>0, <1>6, GotoMoves DEF EmergencyClose, Trading
  <2>2. UNCHANGED <<trade, rows, resting>>
    BY <1>6 DEF EmergencyClose, dbVars
  <2> QED
    BY <1>6, <2>1, <2>2 DEF EmergencyClose, Moved, Verdicts, CallConsistent
<1>7. CASE FailTrade(c)
  <2>1. Moved(c, {"failSignal"})
    BY <1>0, <1>7, GotoMoves DEF FailTrade, Trading
  <2>2. UNCHANGED <<rows, resting>>
    BY <1>7 DEF FailTrade, exchangeVars
  <2> QED
    BY <1>7, <2>1, <2>2 DEF FailTrade, Moved, Verdicts, CallConsistent
<1>8. CASE FailSignal(c)
  <2>1. Moved(c, {"catch"})
    BY <1>0, <1>8, ThrowMoves DEF FailSignal
  <2>2. UNCHANGED <<trade, rows, resting>>
    BY <1>8 DEF FailSignal, exchangeVars
  <2> QED
    BY <1>8, <2>1, <2>2 DEF FailSignal, Moved, Verdicts, CallConsistent
<1> QED
  BY <1>2, <1>3, <1>4, <1>5, <1>6, <1>7, <1>8

\* From the stop's row to the end.
LEMMA ProfitConsistent ==
    ASSUME NEW c \in Calls, CallTyped, CallConsistent(c),
           \/ RecordStop(c) \/ PlaceTp1(c) \/ RecordTp1(c) \/ PlaceTp2(c)
           \/ RecordTp2(c) \/ MarkExecuted(c)
    PROVE  CallConsistent(c)' /\ (FailedIsBare(c) => FailedIsBare(c)')
<1> USE DEF At, Unopened, Opened, Stopless, StopRecorded, Checking, FailedIsBare
<1>0. /\ ExecutionTypeOK
      /\ c \in Trades
      /\ rows \in [Trades -> [Kinds -> RowStatus]]
      /\ {"sl", "tp1", "tp2"} \subseteq Kinds
      /\ Kinds \subseteq OrderKinds
      /\ Trading \subseteq Pcs
      /\ StopRecorded \subseteq Trading
  BY DEF CallTyped, StateTypeOK, Trades, Kinds, OrderKinds, StopKinds, LostStops,
         Pcs, Trading
<1>1. ASSUME NEW pc \in StopRecorded, At(c, pc), NEW kind \in {"tp1", "tp2"},
             NEW next \in StopRecorded, NEW otherwise \in StopRecorded,
             PlaceConditional(c, kind, kind, next, otherwise)
      PROVE  CallConsistent(c)' /\ FailedIsBare(c)'
  <2>1. UNCHANGED <<trade, rows>>
    BY <1>1 DEF PlaceConditional, dbVars
  <2>2. Moved(c, {next}) \/ Moved(c, {otherwise})
    BY <1>0, <1>1, PlacingMoves
  <2> QED
    BY <1>1, <2>1, <2>2 DEF Moved, Verdicts, CallConsistent
<1>2. ASSUME NEW kind \in {"sl", "tp1", "tp2"}, NEW next \in StopRecorded,
             \/ kind = "sl" /\ At(c, "slRow")
             \/ \E pc \in StopRecorded : At(c, pc),
             RecordOrder(c, kind, next)
      PROVE  CallConsistent(c)' /\ FailedIsBare(c)'
  <2>1. UNCHANGED trade /\ Moved(c, {next}) /\ rows' = [rows EXCEPT ![c][kind] = "open"]
    BY <1>0, <1>2, RecordingMoves
  <2>2. rows'[c]["sl"] # "none"
    BY <1>0, <1>2, <2>1 DEF CallConsistent
  <2> QED
    BY <1>2, <2>1, <2>2 DEF Moved, Verdicts, CallConsistent
<1>3. CASE RecordStop(c)
  BY <1>3, <1>2 DEF RecordStop
<1>4. CASE PlaceTp1(c)
  BY <1>4, <1>1 DEF PlaceTp1
<1>5. CASE RecordTp1(c)
  BY <1>5, <1>2 DEF RecordTp1
<1>6. CASE PlaceTp2(c)
  BY <1>6, <1>1 DEF PlaceTp2
<1>7. CASE RecordTp2(c)
  BY <1>7, <1>2 DEF RecordTp2
<1>8. CASE MarkExecuted(c)
  <2>1. Moved(c, {"done"})
    BY <1>0, <1>8, GotoMoves DEF MarkExecuted, Pcs
  <2>2. UNCHANGED <<trade, rows, resting>>
    BY <1>8 DEF MarkExecuted, exchangeVars
  <2> QED
    BY <1>8, <2>1, <2>2 DEF MarkExecuted, Moved, Verdicts, CallConsistent
<1> QED
  BY <1>3, <1>4, <1>5, <1>6, <1>7, <1>8

\* So every step of a call keeps that call consistent.
LEMMA CallStepConsistent ==
    ASSUME NEW c \in Calls, CallTyped, CallConsistent(c), CallStep(c)
    PROVE  CallConsistent(c)' /\ (FailedIsBare(c) => FailedIsBare(c)')
<1>1. CASE CheckStep(c)
  <2>1. UNCHANGED <<trade, rows, resting>>
    BY <1>1, ChecksTouchOnlySignals DEF CallTyped
  <2>2. FailedIsBare(c) => FailedIsBare(c)'
    BY <2>1 DEF FailedIsBare, HasNoKnownOrder
  <2> QED
    BY <1>1, <2>2, ChecksConsistent
<1>2. CASE TradeStep(c)
  BY <1>2, EntryConsistent, StopConsistent, ProfitConsistent DEF TradeStep
<1> QED
  BY <1>1, <1>2 DEF CallStep

-----------------------------------------------------------------------------
\* A call changes the Trade table in two ways only: it opens its own row under
\* the unique index, or fails its own open row.
Opening(c) ==
    /\ IndexAllows(SymbolAt(c))
    /\ SymbolAt(c) \in Symbols
    /\ trade[c].status = "none"
    /\ trade' = [trade EXCEPT ![c] =
                   [status |-> "live_open", symbol |-> SymbolAt(c),
                    qty |-> LotsAt(c), signal |-> ex[c].signal]]

Failing(c) ==
    /\ trade[c].status = "live_open"
    /\ trade' = [trade EXCEPT ![c].status = "failed"]

LEMMA TradeTableSteps ==
    ASSUME NEW c \in Calls, CallTyped, CallConsistent(c), CallStep(c)
    PROVE  trade' = trade \/ Opening(c) \/ Failing(c)
<1>1. CASE CheckStep(c)
  BY <1>1, ChecksTouchOnlySignals DEF CallTyped
<1>2. CASE CreateTrade(c)
  <2>1. trade[c].status = "none" /\ ex[c].signal \in Signals
    BY <1>2 DEF CreateTrade, At, CallConsistent, Unopened, CallTyped, Claimed
  <2>2. SymbolAt(c) \in Symbols
    BY <2>1, ConstantsAssumption DEF SymbolAt
  <2> QED
    BY <1>2, <2>1, <2>2 DEF CreateTrade, Opening
<1>3. CASE FailTrade(c)
  BY <1>3 DEF FailTrade, Failing, At, CallConsistent, Opened, Stopless
<1>4. CASE TradeStep(c) /\ ~CreateTrade(c) /\ ~FailTrade(c)
  BY <1>4 DEF TradeStep, SetLeverage, PlaceEntry, PlaceStop1, FetchMarkForStop,
              PlaceStop2, PlaceStop3, EmergencyClose, FailSignal, RecordStop, PlaceTp1,
              RecordTp1, PlaceTp2, RecordTp2, MarkExecuted, PlaceConditional,
              RecordOrder, stateVars, dbVars, exchangeVars
<1> QED
  BY <1>1, <1>2, <1>3, <1>4 DEF CallStep

\* The unique index keeps its promise: see OneLiveTradePerSymbol.
LEMMA CallStepOneLive ==
    ASSUME NEW c \in Calls, CallTyped, CallConsistent(c), CallStep(c),
           OneLiveTradePerSymbol
    PROVE  OneLiveTradePerSymbol'
<1> USE DEF OneLiveTradePerSymbol, LiveTrades
<1>0. c \in Trades /\ trade \in [Trades -> TradeRow]
  BY DEF CallTyped, StateTypeOK, Trades
<1>1. CASE trade' = trade
  BY <1>1
<1>2. CASE Opening(c)
  <2>1. \A t \in Trades : trade'[t].status = "live_open" =>
          \/ t = c /\ trade'[t].symbol = SymbolAt(c)
          \/ /\ t # c
             /\ trade'[t] = trade[t]
             /\ trade[t].status = "live_open"
             /\ trade[t].symbol # SymbolAt(c)
    BY <1>0, <1>2 DEF Opening, IndexAllows, LiveTradesOf
  <2> QED
    BY <2>1
<1>3. CASE Failing(c)
  <2>1. \A t \in Trades : trade'[t].status = "live_open" => trade'[t] = trade[t]
    BY <1>0, <1>3 DEF Failing, TradeRow
  <2> QED
    BY <2>1
<1> QED
  BY <1>1, <1>2, <1>3, TradeTableSteps

\* Trade t is the evidence ExecutedHasStop asks for.
Evidence(t, s) ==
    /\ trade[t].status # "none"
    /\ trade[t].signal = s
    /\ rows[t]["sl"] # "none"

\* No step of a call destroys it ...
LEMMA EvidenceStays ==
    ASSUME NEW c \in Calls, CallTyped, CallConsistent(c), CallStep(c),
           NEW t \in Calls, NEW s \in Signals, Evidence(t, s)
    PROVE  Evidence(t, s)'
<1> USE DEF Evidence
<1>0. /\ c \in Trades /\ t \in Trades
      /\ trade \in [Trades -> TradeRow]
      /\ rows \in [Trades -> [Kinds -> RowStatus]]
      /\ {"sl", "tp1", "tp2"} \subseteq Kinds
  BY DEF CallTyped, StateTypeOK, Trades, Kinds, StopKinds
<1>1. trade'[t].status # "none" /\ trade'[t].signal = s
  BY <1>0, TradeTableSteps DEF Opening, Failing, TradeRow
<1>2. rows' = rows \/ \E k \in {"sl", "tp1", "tp2"} : rows' = [rows EXCEPT ![c][k] = "open"]
  <2>1. CASE CheckStep(c)
    BY <2>1, ChecksTouchOnlySignals DEF CallTyped
  <2>2. CASE TradeStep(c)
    BY <2>2 DEF TradeStep, SetLeverage, PlaceEntry, CreateTrade, PlaceStop1,
                FetchMarkForStop, PlaceStop2, PlaceStop3, EmergencyClose, FailTrade,
                FailSignal, RecordStop, PlaceTp1, RecordTp1, PlaceTp2, RecordTp2,
                MarkExecuted, PlaceConditional, RecordOrder, stateVars, dbVars,
                exchangeVars
  <2> QED
    BY <2>1, <2>2 DEF CallStep
<1>3. rows'[t]["sl"] # "none"
  BY <1>0, <1>2
<1> QED
  BY <1>1, <1>3

\* ... and a signal is only reported as executed with it at hand.
LEMMA CallStepExecuted ==
    ASSUME NEW c \in Calls, CallTyped, CallConsistent(c), CallStep(c), ExecutedHasStop
    PROVE  ExecutedHasStop'
<1> SUFFICES ASSUME NEW s \in Signals, sig'[s] = "live_executed"
             PROVE  \E t \in Calls : Evidence(t, s)'
  BY DEF ExecutedHasStop, Evidence
<1>1. ASSUME sig[s] = "live_executed" PROVE \E t \in Calls : Evidence(t, s)'
  <2>1. PICK t \in Calls : Evidence(t, s)
    BY <1>1 DEF ExecutedHasStop, Evidence
  <2> QED
    BY <2>1, EvidenceStays
<1>2. ASSUME sig[s] # "live_executed" PROVE MarkExecuted(c) /\ s = ex[c].signal
  <2>1. ~CheckStep(c)
    BY <1>2, ChecksWriteVerdicts DEF CallConsistent
  <2>2. sig \in [Signals -> SignalStatus]
    BY DEF CallTyped, StateTypeOK
  <2> QED
    BY <1>2, <2>1, <2>2
       DEF CallStep, TradeStep, SetLeverage, PlaceEntry, CreateTrade, PlaceStop1,
           FetchMarkForStop, PlaceStop2, PlaceStop3, EmergencyClose, FailTrade,
           FailSignal, RecordStop, PlaceTp1, RecordTp1, PlaceTp2, RecordTp2,
           MarkExecuted, PlaceConditional, RecordOrder, stateVars, dbVars,
           SignalsWith
<1>3. CASE MarkExecuted(c) /\ s = ex[c].signal
  <2>1. Evidence(c, s)
    BY <1>3 DEF MarkExecuted, At, CallConsistent, Opened, StopRecorded, Evidence
  <2> QED
    BY <2>1, EvidenceStays
<1> QED
  BY <1>1, <1>2, <1>3

\* A call only passes its pause check while the bot runs.
LEMMA CallStepStopHolds ==
    ASSUME NEW c \in Calls, CallTyped, CallStep(c), StopHoldsTheRest, Observe
    PROVE  StopHoldsTheRest' /\ UNCHANGED settings
<1>1. UNCHANGED settings
  <2>1. CASE CheckStep(c)
    BY <2>1, ChecksTouchOnlySignals DEF CallTyped
  <2>2. CASE TradeStep(c)
    BY <2>2 DEF TradeStep, SetLeverage, PlaceEntry, CreateTrade, PlaceStop1,
                FetchMarkForStop, PlaceStop2, PlaceStop3, EmergencyClose, FailTrade,
                FailSignal, RecordStop, PlaceTp1, RecordTp1, PlaceTp2, RecordTp2,
                MarkExecuted, PlaceConditional, RecordOrder, stateVars, dbVars
  <2> QED
    BY <2>1, <2>2 DEF CallStep
<1>2. settings.isPaused => PastPauseCheck' \subseteq PastPauseCheck
  <2>1. ASSUME NEW d \in Calls \ {c} PROVE ex'[d] = ex[d]
    BY ChecksMove, TradingMoves DEF CallStep, CallTyped, Moved
  <2>2. CASE CheckStep(c)
    <3>1. settings.isPaused => ex'[c].pc \notin Trading
      BY <2>2, ChecksMove, ChecksTouchOnlySignals
         DEF CallTyped, Moved, Checking, Refusing, Trading
    <3> QED
      BY <2>1, <3>1 DEF PastPauseCheck
  <2>3. CASE TradeStep(c)
    <3>1. ex[c].pc \in Trading
      BY <2>3 DEF TradeStep, SetLeverage, PlaceEntry, CreateTrade, PlaceStop1,
                  FetchMarkForStop, PlaceStop2, PlaceStop3, EmergencyClose, FailTrade,
                  FailSignal, RecordStop, PlaceTp1, RecordTp1, PlaceTp2, RecordTp2,
                  MarkExecuted, At, Trading
    <3> QED
      BY <2>1, <3>1 DEF PastPauseCheck
  <2> QED
    BY <2>2, <2>3 DEF CallStep
<1> QED
  BY <1>1, <1>2 DEF StopHoldsTheRest, Observe

-----------------------------------------------------------------------------
\* The requests of the operator: see ControlSteps.
LEMMA ControlKeepsIInv ==
    ASSUME IInv, ControlStep \/ ExpireStaleSignals, UNCHANGED ex, Observe
    PROVE  IInv'
<1>1. ControlOnly /\ ControlTypeOK'
  BY ControlSteps DEF IInv, Typed, TypeOK
<1>2. Typed'
  BY <1>1 DEF IInv, Typed, TypeOK, StateTypeOK, ExecutionTypeOK, Claimed, ControlOnly,
              Observe, PastPauseCheck
<1>3. Consistent' /\ FailedHasNoKnownOrder'
  BY <1>1 DEF IInv, Consistent, CallConsistent, HasNoKnownOrder, FailedHasNoKnownOrder,
              ControlOnly
<1>4. OneLiveTradePerSymbol'
  BY <1>1 DEF IInv, OneLiveTradePerSymbol, LiveTrades, ControlOnly
<1>5. ExecutedHasStop'
  BY <1>1 DEF IInv, ExecutedHasStop, ControlOnly
<1>6. StopHoldsTheRest'
  BY <1>1 DEF IInv, StopHoldsTheRest, PastPauseCheck, Observe, ControlOnly
<1> QED
  BY <1>2, <1>3, <1>4, <1>5, <1>6 DEF IInv

-----------------------------------------------------------------------------
\* A claim: the signal becomes approved, the call starts.
LEMMA ClaimKeepsIInv ==
    ASSUME IInv, NEW c \in Calls, NEW s \in Signals, Claim(c, s),
           UNCHANGED controlVars, Observe
    PROVE  IInv'
<1>0. /\ CallTyped'
      /\ ex[c].pc = "ready"
      /\ sig' = [sig EXCEPT ![s] = "approved"]
      /\ UNCHANGED <<settings, expired, trade, rows, pos, resting, stopping, patch>>
  BY ClaimMoves DEF IInv, Typed, TypeOK, CallTyped, controlVars
<1>1. StateTypeOK /\ ExecutionTypeOK /\ ControlTypeOK
  BY DEF IInv, Typed, TypeOK
<1>2. /\ ex'[c].pc = "load" /\ ex'[c].to = ex[c].to
      /\ \A d \in Calls \ {c} : ex'[d] = ex[d]
  BY ClaimMoves DEF IInv, Typed, TypeOK, CallTyped
<1>3. Typed'
  BY <1>0 DEF IInv, Typed, TypeOK, CallTyped, ControlTypeOK, Observe, PastPauseCheck
<1>4. Consistent'
  <2>1. ASSUME NEW d \in Calls PROVE CallConsistent(d)'
    <3>1. CASE d = c
      BY <3>1, <1>0, <1>2 DEF IInv, Consistent, CallConsistent, HasNoKnownOrder, Unopened,
                              Opened, Stopless, StopRecorded, Checking
    <3>2. CASE d # c
      BY <3>2, <1>0, <1>2 DEF IInv, Consistent, CallConsistent, HasNoKnownOrder
    <3> QED
      BY <3>1, <3>2
  <2> QED
    BY <2>1 DEF Consistent
<1>5. FailedHasNoKnownOrder' /\ OneLiveTradePerSymbol'
  BY <1>0 DEF IInv, FailedHasNoKnownOrder, HasNoKnownOrder, OneLiveTradePerSymbol,
              LiveTrades
<1>6. ExecutedHasStop'
  BY <1>0, <1>1 DEF IInv, ExecutedHasStop, StateTypeOK
<1>7. StopHoldsTheRest'
  <2>1. PastPauseCheck' \subseteq PastPauseCheck
    BY <1>2 DEF PastPauseCheck, Trading
  <2> QED
    BY <1>0, <2>1 DEF IInv, StopHoldsTheRest, Observe
<1> QED
  BY <1>3, <1>4, <1>5, <1>6, <1>7 DEF IInv

\* A step of a call: what it does to the call itself by the lemmas above, to
\* the others by Frame.
LEMMA CallKeepsIInv ==
    ASSUME IInv, NEW c \in Calls, CallStep(c), UNCHANGED controlVars, Observe
    PROVE  IInv'
<1>1. CallTyped /\ CallConsistent(c)
  BY DEF IInv, Typed, TypeOK, CallTyped, Consistent
<1>2. Typed'
  <2>1. CallTyped'
    BY <1>1, CallStepTyped
  <2>2. ControlTypeOK' /\ late' \in SUBSET Calls
    BY DEF IInv, Typed, TypeOK, ControlTypeOK, controlVars, Observe, PastPauseCheck
  <2> QED
    BY <2>1, <2>2 DEF CallTyped, Typed, TypeOK
<1>3. ASSUME NEW d \in Calls, d # c PROVE SameHoldings(d) /\ ex'[d] = ex[d]
  <2>1. SameHoldings(d)
    BY <1>1, <1>3, Frame DEF Trades
  <2>2. ex'[d] = ex[d]
    BY <1>1, <1>3, ChecksMove, TradingMoves DEF CallStep, CallTyped, Moved
  <2> QED
    BY <2>1, <2>2
<1>4. Consistent'
  <2>1. ASSUME NEW d \in Calls, d # c PROVE CallConsistent(d)'
    BY <1>3, <2>1 DEF IInv, Consistent, CallConsistent, HasNoKnownOrder, SameHoldings
  <2>2. CallConsistent(c)'
    BY <1>1, CallStepConsistent
  <2> QED
    BY <2>1, <2>2 DEF Consistent
<1>5. FailedHasNoKnownOrder'
  <2>1. ASSUME NEW d \in Calls, d # c PROVE FailedIsBare(d)'
    BY <1>3, <2>1 DEF IInv, FailedHasNoKnownOrder, FailedIsBare, HasNoKnownOrder, SameHoldings
  <2>2. FailedIsBare(c)'
    BY <1>1, CallStepConsistent
       DEF IInv, FailedHasNoKnownOrder, FailedIsBare, HasNoKnownOrder
  <2> QED
    BY <2>1, <2>2 DEF FailedHasNoKnownOrder, FailedIsBare, HasNoKnownOrder
<1>6. OneLiveTradePerSymbol' /\ ExecutedHasStop' /\ StopHoldsTheRest'
  BY <1>1, CallStepOneLive, CallStepExecuted, CallStepStopHolds DEF IInv
<1> QED
  BY <1>2, <1>4, <1>5, <1>6 DEF IInv

\* A crash: every call in flight is dead, the tables stay.
LEMMA RestartKeepsIInv ==
    ASSUME IInv, Restart, Observe
    PROVE  IInv'
<1>0. /\ UNCHANGED <<settings, sig, expired, trade, rows, pos, resting>>
      /\ stopping' = {} /\ patch' = NoPatch
      /\ ex' = [c \in Calls |-> IF InFlight(c) THEN [ex[c] EXCEPT !.pc = "dead"]
                                               ELSE ex[c]]
  BY DEF Restart, Crash, CallsDie, stateVars
<1>1. StateTypeOK /\ ExecutionTypeOK
  BY DEF IInv, Typed, TypeOK
<1>2. ASSUME NEW c \in Calls
      PROVE  \/ ex'[c] = ex[c]
             \/ /\ ex'[c].pc = "dead"
                /\ ex'[c].signal = ex[c].signal
                /\ ex'[c].to = ex[c].to
                /\ ex[c].pc # "ready"
  BY <1>0, <1>1 DEF ExecutionTypeOK, InFlight
<1>3. Typed'
  <2>1. ExecutionTypeOK'
    <3>1. "dead" \in Pcs
      BY DEF Pcs
    <3> QED
      BY <1>0, <1>1, <3>1 DEF ExecutionTypeOK
  <2>2. StateTypeOK' /\ ControlTypeOK' /\ late' \in SUBSET Calls
    BY <1>0, <1>1 DEF StateTypeOK, ControlTypeOK, Observe, PastPauseCheck, IInv, Typed,
                      TypeOK
  <2>3. Claimed'
    BY <1>2 DEF IInv, Typed, Claimed
  <2> QED
    BY <2>1, <2>2, <2>3 DEF Typed, TypeOK
<1>4. Consistent'
  <2>1. ASSUME NEW c \in Calls PROVE CallConsistent(c)'
    BY <1>0, <1>2 DEF IInv, Consistent, CallConsistent, HasNoKnownOrder, Unopened, Opened,
                      Stopless, StopRecorded, Checking
  <2> QED
    BY <2>1 DEF Consistent
<1>5. FailedHasNoKnownOrder' /\ OneLiveTradePerSymbol' /\ ExecutedHasStop'
  BY <1>0 DEF IInv, FailedHasNoKnownOrder, HasNoKnownOrder, OneLiveTradePerSymbol,
              LiveTrades, ExecutedHasStop
<1>6. StopHoldsTheRest'
  <2>1. PastPauseCheck' \subseteq PastPauseCheck
    BY <1>2 DEF PastPauseCheck, Trading
  <2> QED
    BY <1>0, <2>1 DEF IInv, StopHoldsTheRest, Observe
<1> QED
  BY <1>3, <1>4, <1>5, <1>6 DEF IInv

-----------------------------------------------------------------------------
\* The invariant that carries every theorem below.
LEMMA InitIInv == Init => IInv
<1> SUFFICES ASSUME Init PROVE IInv
  OBVIOUS
<1> USE DEF Init, StateInit, AccountInit, ExecutionInit, ControlInit
<1>1. Typed
  BY DEF Typed, TypeOK, StateTypeOK, ExecutionTypeOK, ControlTypeOK, Claimed, Settings,
         SignalStatus, TradeRow, TradeStatus, NoTrade, RowStatus, Pcs, StopWrites
<1>2. Consistent
  BY DEF Consistent, CallConsistent, Unopened, Opened, Stopless, StopRecorded, Checking,
         HasNoKnownOrder, NoTrade, Trades, Kinds, StopKinds
<1>3. OneLiveTradePerSymbol /\ FailedHasNoKnownOrder
  BY DEF OneLiveTradePerSymbol, LiveTrades, FailedHasNoKnownOrder, NoTrade, Trades
<1>4. ExecutedHasStop /\ StopHoldsTheRest
  BY DEF ExecutedHasStop, StopHoldsTheRest, PastPauseCheck, Trading
<1> QED
  BY <1>1, <1>2, <1>3, <1>4 DEF IInv

LEMMA NextIInv == IInv /\ [Next]_vars => IInv'
<1> SUFFICES ASSUME IInv, [Next]_vars PROVE IInv'
  OBVIOUS
<1>1. ASSUME NEW c \in Calls, NEW s \in Signals, Claim(c, s), UNCHANGED controlVars, Observe
      PROVE  IInv'
  BY <1>1, ClaimKeepsIInv
<1>2. ASSUME NEW c \in Calls, CallStep(c), UNCHANGED controlVars, Observe
      PROVE  IInv'
  BY <1>2, CallKeepsIInv
<1>3. CASE (ControlStep \/ ExpireStaleSignals) /\ UNCHANGED ex /\ Observe
  BY <1>3, ControlKeepsIInv
<1>4. CASE Restart /\ Observe
  BY <1>4, RestartKeepsIInv
<1>5. CASE UNCHANGED vars
  BY <1>5 DEF vars, stateVars, controlVars, IInv, Typed, TypeOK, StateTypeOK,
              ExecutionTypeOK, ControlTypeOK, Claimed, Consistent, CallConsistent,
              HasNoKnownOrder, OneLiveTradePerSymbol, LiveTrades, ExecutedHasStop,
              FailedHasNoKnownOrder, StopHoldsTheRest, PastPauseCheck
<1> QED
  BY <1>1, <1>2, <1>3, <1>4, <1>5 DEF Next

THEOREM Invariance == Spec => []IInv
BY InitIInv, NextIInv, PTL DEF Spec

-----------------------------------------------------------------------------
\* Every variable keeps its type: statuses stay inside the enums of the
\* schema, and a quantity never becomes negative.
THEOREM TypeCorrect == Spec => []TypeOK
<1>1. IInv => TypeOK
  BY DEF IInv, Typed
<1> QED
  BY <1>1, Invariance, PTL

\* At most one open trade per symbol, for any number of concurrent calls.
THEOREM OneLiveTrade == Spec => []OneLiveTradePerSymbol
<1>1. IInv => OneLiveTradePerSymbol
  BY DEF IInv
<1> QED
  BY <1>1, Invariance, PTL

\* A signal reported as executed has a trade with a recorded stop.
THEOREM ExecutedImpliesStop == Spec => []ExecutedHasStop
<1>1. IInv => ExecutedHasStop
  BY DEF IInv
<1> QED
  BY <1>1, Invariance, PTL

\* A trade that is recorded as failed leaves nothing behind but stops whose
\* answer was lost: a call gives up only while it has no order on record and
\* none confirmed, in every pattern of refused and lost requests.
THEOREM FailedHasNothingKnown == Spec => []FailedHasNoKnownOrder
<1>1. IInv => FailedHasNoKnownOrder
  BY DEF IInv
<1> QED
  BY <1>1, Invariance, PTL

\* While the bot is stopped no further call gets to trade.
THEOREM StopHolds == Spec => []StopHoldsTheRest
<1>1. IInv => StopHoldsTheRest
  BY DEF IInv
<1> QED
  BY <1>1, Invariance, PTL

-----------------------------------------------------------------------------
\* A step of SignalExecution is a step of the ledger or leaves it alone.
LEMMA LedgerStep == IInv /\ [Next]_vars => [Ledger!Next]_(Ledger!vars)
<1> SUFFICES ASSUME IInv, [Next]_vars PROVE [Ledger!Next]_(Ledger!vars)
  OBVIOUS
<1> DEFINE phase == [t \in Trades |-> Phase(trade[t].status)]
           market == [t \in Trades |-> trade[t].symbol]
<1>0. trade \in [Trades -> TradeRow]
  BY DEF IInv, Typed, TypeOK, StateTypeOK
<1>1. CASE trade' = trade
  BY <1>1 DEF Ledger!vars
<1>2. ASSUME NEW c \in Calls, CallStep(c) PROVE [Ledger!Next]_(Ledger!vars)
  <2>0. c \in Trades
    BY DEF Trades
  <2>1. trade' = trade \/ Opening(c) \/ Failing(c)
    BY <1>2, TradeTableSteps DEF IInv, Typed, TypeOK, CallTyped, Consistent
  <2>2. CASE Opening(c)
    <3>1. PICK m \in Symbols : m = SymbolAt(c)
      BY <2>2 DEF Opening
    <3>2. phase[c] = "unopened"
      BY <2>0, <2>2 DEF Opening, Phase
    <3>3. \A u \in Trades : phase[u] = "open" => market[u] # m
      BY <2>2, <3>1 DEF Opening, IndexAllows, LiveTradesOf, LiveTrades, Phase
    <3>4. phase' = [phase EXCEPT ![c] = "open"]
      BY <1>0, <2>0, <2>2 DEF Opening, Phase
    <3>5. market' = [market EXCEPT ![c] = m]
      BY <1>0, <2>0, <2>2, <3>1 DEF Opening
    <3>6. Ledger!Open(c, m)
      BY <3>2, <3>3, <3>4, <3>5 DEF Ledger!Open
    <3> QED
      BY <2>0, <3>6 DEF Ledger!Next
  <2>3. CASE Failing(c)
    <3>1. phase[c] = "open"
      BY <2>0, <2>3 DEF Failing, Phase
    <3>2. phase' = [phase EXCEPT ![c] = "closed"]
      BY <1>0, <2>0, <2>3 DEF Failing, Phase, TradeRow
    <3>3. market' = market
      BY <1>0, <2>0, <2>3 DEF Failing, TradeRow
    <3>4. Ledger!Close(c)
      BY <3>1, <3>2, <3>3 DEF Ledger!Close
    <3> QED
      BY <2>0, <3>4 DEF Ledger!Next
  <2> QED
    BY <1>1, <2>1, <2>2, <2>3
<1>3. ASSUME ControlStep \/ ExpireStaleSignals, UNCHANGED ex
      PROVE  trade' = trade
  BY <1>3, ControlSteps DEF IInv, Typed, TypeOK, ControlOnly
<1>4. ASSUME NEW c \in Calls, NEW s \in Signals, Claim(c, s) PROVE trade' = trade
  BY <1>4 DEF Claim
<1>5. CASE Restart
  BY <1>1, <1>5 DEF Restart, Crash, CallsDie, stateVars
<1>6. CASE UNCHANGED vars
  BY <1>1, <1>6 DEF vars, stateVars
<1> QED
  BY <1>1, <1>2, <1>3, <1>4, <1>5, <1>6 DEF Next

\* The Trade table written by concurrent calls implements the ledger: a trade
\* is opened once, in a symbol nobody holds, and never reopened.
THEOREM LedgerImplemented == Spec => ImplementsLedger
<1>1. Init => Ledger!Init
  BY DEF Init, StateInit, AccountInit, NoTrade, Phase, Ledger!Init
<1> QED
  BY <1>1, Invariance, LedgerStep, PTL DEF Spec, ImplementsLedger, Ledger!Spec

=============================================================================
