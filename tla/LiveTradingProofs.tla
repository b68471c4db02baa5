------------------------- MODULE LiveTradingProofs --------------------------
(***************************************************************************)
(* The Trade table of the whole bot implements the ledger, for any number  *)
(* of calls, imports and symbols, any refused requests and any moves of    *)
(* the market, and every variable keeps its type; who can replace a        *)
(* verdict; and what protects a position over its whole life.              *)
(*                                                                         *)
(* Every component writes the table in one of two ways (TableStep): it     *)
(* opens a row under the unique index, or overwrites the status of a row   *)
(* that exists.  The sections show this of one component each, with what   *)
(* the component keeps of the invariant; the parts of the invariant that   *)
(* it does not touch stay by the lemmas of the first section.              *)
(***************************************************************************)
EXTENDS LiveTrading, ExecutionProofs

\* The statuses of a trade that is over.
Over == TradeStatus \ {"none", "live_open"}

\* prisma.trade.create
Opens(t, m) ==
    /\ trade[t].status = "none"
    /\ IndexAllows(m)
    /\ \E row \in TradeRow :
         /\ row.status = "live_open" /\ row.symbol = m
         /\ trade' = [trade EXCEPT ![t] = row]

\* prisma.trade.update and updateMany, whatever the status was.
Closes(t) == \E status \in Over : trade' = [trade EXCEPT ![t].status = status]

TableStep ==
    \/ trade' = trade
    \/ \E t \in Trades, m \in Symbols : Opens(t, m)
    \/ \E t \in Existing : Closes(t)

\* Orders and their rows only appear for trades that exist.
RowsFollow ==
    /\ \A t \in Trades, k \in Kinds :
           rows'[t][k] # "none" => rows[t][k] # "none" \/ t \in Existing
    /\ \A t \in Trades, k \in OrderKinds :
           <<t, k>> \in resting' => <<t, k>> \in resting \/ t \in Existing

-----------------------------------------------------------------------------
(* What stays when the table is written.                                   *)

\* No row disappears or changes its symbol or its quantity.
LEMMA TradesStay ==
    ASSUME StateTypeOK, RowsExist, TableStep
    PROVE  /\ trade' \in [Trades -> TradeRow]
           /\ Existing \subseteq Existing'
           /\ \A t \in Existing' : trade'[t].symbol \in Symbols
           /\ \A t \in Existing : /\ trade'[t].symbol = trade[t].symbol
                                /\ trade'[t].qty = trade[t].qty
<1> USE DEF Existing
<1>0. trade \in [Trades -> TradeRow]
  BY DEF StateTypeOK
<1>1. CASE trade' = trade
  BY <1>0, <1>1 DEF RowsExist
<1>2. ASSUME NEW t \in Trades, NEW m \in Symbols, Opens(t, m)
      PROVE  /\ trade' \in [Trades -> TradeRow]
             /\ Existing \subseteq Existing'
             /\ \A u \in Existing' : trade'[u].symbol \in Symbols
             /\ \A u \in Existing : /\ trade'[u].symbol = trade[u].symbol
                                  /\ trade'[u].qty = trade[u].qty
  BY <1>0, <1>2 DEF Opens, RowsExist
<1>3. ASSUME NEW t \in Existing, NEW status \in Over,
             trade' = [trade EXCEPT ![t].status = status]
      PROVE  /\ trade' \in [Trades -> TradeRow]
             /\ Existing \subseteq Existing'
             /\ \A u \in Existing' : trade'[u].symbol \in Symbols
             /\ \A u \in Existing : /\ trade'[u].symbol = trade[u].symbol
                                  /\ trade'[u].qty = trade[u].qty
  BY <1>0, <1>3 DEF Over, RowsExist, TradeRow
<1> QED
  BY <1>1, <1>2, <1>3 DEF TableStep, Closes

LEMMA RowsStay ==
    ASSUME StateTypeOK, RowsExist, TableStep, RowsFollow
    PROVE  RowsExist'
BY TradesStay DEF RowsExist, RowsFollow

LEMMA CallsStay ==
    ASSUME ExecutionTypeOK, Claimed, CallsExist, ex' = ex,
           \A c \in Calls : c \in Existing' <=> c \in Existing
    PROVE  ExecutionTypeOK' /\ Claimed' /\ CallsExist'
BY DEF ExecutionTypeOK, Claimed, CallsExist

LEMMA MonitorStays ==
    ASSUME MonitorTypeOK, MonitorExists, UNCHANGED monitorVars, Existing \subseteq Existing'
    PROVE  MonitorTypeOK' /\ MonitorExists'
BY DEF MonitorTypeOK, MonitorExists, monitorVars

LEMMA HandlersStay ==
    ASSUME StreamTypeOK, HandlersExist, ws' = ws, Existing \subseteq Existing'
    PROVE  StreamTypeOK' /\ HandlersExist'
BY DEF StreamTypeOK, HandlersExist

LEMMA CloserStays ==
    ASSUME ClosingTypeOK, CloserExists, closer' = closer, Existing \subseteq Existing'
    PROVE  ClosingTypeOK' /\ CloserExists'
BY DEF ClosingTypeOK, CloserExists

-----------------------------------------------------------------------------
(* A call of approveLive.                                                  *)

LEMMA CallTable ==
    ASSUME NEW c \in Calls, CallTyped, CallsExist, CallStep(c)
    PROVE  TableStep /\ RowsFollow
<1> USE DEF RowsFollow
<1>0. /\ c \in Trades
      /\ StateTypeOK /\ ExecutionTypeOK
      /\ \A pc \in Opened : At(c, pc) => c \in Existing
  BY DEF CallTyped, Trades, CallsExist, At
<1>1. CASE CheckStep(c)
  BY <1>0, <1>1, ChecksTouchOnlySignals DEF TableStep
<1>2. CASE SetLeverage(c) \/ PlaceEntry(c) \/ FetchMarkForStop(c) \/ EmergencyClose(c)
           \/ FailSignal(c) \/ MarkExecuted(c)
  BY <1>2 DEF SetLeverage, PlaceEntry, FetchMarkForStop, EmergencyClose, FailSignal,
              MarkExecuted, stateVars, dbVars, exchangeVars, TableStep
<1>3. CASE CreateTrade(c)
  <2>1. ex[c].signal \in Signals /\ trade[c].status = "none"
    BY <1>0, <1>3 DEF CreateTrade, At, CallTyped, Claimed, CallsExist, Unopened, Existing
  <2>2. SymbolAt(c) \in Symbols /\ LotsAt(c) \in Nat
    BY <2>1, ConstantsAssumption DEF SymbolAt, LotsAt
  <2>3. [status |-> "live_open", symbol |-> SymbolAt(c), qty |-> LotsAt(c),
         signal |-> ex[c].signal] \in TradeRow
    BY <2>1, <2>2 DEF TradeRow, TradeStatus
  <2> QED
    BY <1>0, <1>3, <2>1, <2>2, <2>3 DEF CreateTrade, TableStep, Opens, exchangeVars
<1>4. CASE FailTrade(c)
  <2>1. c \in Existing /\ "failed" \in Over
    BY <1>0, <1>4 DEF FailTrade, Opened, Stopless, Over, TradeStatus
  <2> QED
    BY <1>4, <2>1 DEF FailTrade, TableStep, Closes, exchangeVars
<1>5. ASSUME NEW pc \in Opened, At(c, pc), NEW kind, NEW lost, NEW next,
             NEW otherwise, PlaceConditional(c, kind, lost, next, otherwise)
      PROVE  TableStep /\ RowsFollow
  BY <1>0, <1>5 DEF PlaceConditional, dbVars, TableStep
<1>6. ASSUME NEW pc \in Opened, At(c, pc), NEW kind, NEW next, RecordOrder(c, kind, next)
      PROVE  TableStep /\ RowsFollow
  BY <1>0, <1>6 DEF RecordOrder, exchangeVars, TableStep, StateTypeOK
<1>7. CASE PlaceStop1(c) \/ PlaceStop2(c) \/ PlaceStop3(c) \/ PlaceTp1(c) \/ PlaceTp2(c)
  BY <1>5, <1>7 DEF PlaceStop1, PlaceStop2, PlaceStop3, PlaceTp1, PlaceTp2, Opened,
                    Stopless, StopRecorded
<1>8. CASE RecordStop(c) \/ RecordTp1(c) \/ RecordTp2(c)
  BY <1>6, <1>8 DEF RecordStop, RecordTp1, RecordTp2, Opened, StopRecorded
<1> QED
  BY <1>1, <1>2, <1>3, <1>4, <1>7, <1>8 DEF CallStep, TradeStep

\* A call is before trade.create as long as its row does not exist.
LEMMA CallKeepsCalls ==
    ASSUME NEW c \in Calls, CallTyped, CallsExist, RowsExist, CallStep(c)
    PROVE  CallsExist'
<1>0. ExecutionTypeOK /\ StateTypeOK /\ c \in Trades /\ Calls \subseteq Trades
  BY DEF CallTyped, Trades
<1>1. Existing \subseteq Existing'
  BY <1>0, CallTable, TradesStay
<1>2. CASE CheckStep(c)
  <2>1. Existing' = Existing
    BY <1>0, <1>2, ChecksTouchOnlySignals DEF Existing
  <2>2. Moved(c, Checking \cup Refusing \cup {"leverage", "done"})
    BY <1>0, <1>2, ChecksMove
  <2>3. ex'[c].pc \notin Opened
    BY <2>2 DEF Moved, Opened, Stopless, StopRecorded, Checking, Refusing
  <2>4. ex'[c].pc \in Unopened => ex[c].pc \in Unopened
    BY <1>0, <1>2, ChecksTouchOnlySignals DEF Unopened, Checking
  <2> QED
    BY <2>1, <2>2, <2>3, <2>4 DEF CallsExist, Moved
<1>3. CASE OpenedStep(c)
  <2>1. /\ ex[c].pc \in Opened \cup {"failSignal"}
        /\ Moved(c, Opened \cup {"failSignal", "catch", "done"})
    BY <1>0, <1>3, OpenedMoves
  <2>2. ex'[c].pc \notin Unopened
    BY <2>1 DEF Moved, Unopened, Opened, Stopless, StopRecorded, Checking
  <2>3. ex'[c].pc \in Opened => ex[c].pc \in Opened
    <3>1. CASE ex[c].pc = "failSignal"
      <4>1. FailSignal(c)
        BY <1>3, <3>1
           DEF OpenedStep, PlaceStop1, FetchMarkForStop, PlaceStop2, PlaceStop3,
               EmergencyClose, FailTrade, RecordStop, PlaceTp1, RecordTp1, PlaceTp2,
               RecordTp2, MarkExecuted, At
      <4>2. Moved(c, {"catch"})
        BY <1>0, <4>1, ThrowMoves DEF FailSignal
      <4> QED
        BY <4>2 DEF Moved, Opened, Stopless, StopRecorded
    <3> QED
      BY <2>1, <3>1
  <2>4. \A d \in Calls \ {c} : d \in Existing' <=> d \in Existing
    BY <1>0, <1>3
       DEF OpenedStep, PlaceStop1, FetchMarkForStop, PlaceStop2, PlaceStop3,
           EmergencyClose, FailTrade, FailSignal, RecordStop, PlaceTp1, RecordTp1,
           PlaceTp2, RecordTp2, MarkExecuted, PlaceConditional, RecordOrder, stateVars,
           dbVars, exchangeVars, Existing, StateTypeOK
  <2> QED
    BY <1>1, <2>1, <2>2, <2>3, <2>4 DEF CallsExist, Moved
<1>4. CASE SetLeverage(c) \/ PlaceEntry(c)
  <2>1. Moved(c, {"entry"}) \/ Moved(c, {"create"}) \/ Moved(c, {"catch"})
    BY <1>0, <1>4, GotoMoves, ThrowMoves DEF SetLeverage, PlaceEntry, Pcs, Trading
  <2>2. Existing' = Existing
    BY <1>4 DEF SetLeverage, PlaceEntry, stateVars, dbVars, Existing
  <2>3. ex[c].pc \in Unopened
    BY <1>4 DEF SetLeverage, PlaceEntry, At, Unopened
  <2>4. ex'[c].pc \notin Opened
    BY <2>1 DEF Moved, Opened, Stopless, StopRecorded
  <2> QED
    BY <2>1, <2>2, <2>3, <2>4 DEF CallsExist, Moved
<1>5. CASE CreateTrade(c)
  <2>1. CASE UNCHANGED trade /\ Throw(c, "active")
    <3>1. Moved(c, {"catch"})
      BY <1>0, <2>1, ThrowMoves
    <3> QED
      BY <2>1, <3>1 DEF CallsExist, Moved, Existing, Unopened, Opened, Stopless,
                        StopRecorded, Checking
  <2>2. CASE /\ Goto(c, "sl1")
             /\ trade' = [trade EXCEPT ![c] =
                            [status |-> "live_open", symbol |-> SymbolAt(c),
                             qty |-> LotsAt(c), signal |-> ex[c].signal]]
    <3>1. Moved(c, {"sl1"})
      BY <1>0, <2>2, GotoMoves DEF Pcs, Trading
    <3>2. c \in Existing' /\ \A d \in Calls \ {c} : d \in Existing' <=> d \in Existing
      BY <1>0, <2>2 DEF Existing, StateTypeOK
    <3>3. "sl1" \notin Unopened
      BY DEF Unopened, Checking
    <3> QED
      BY <3>1, <3>2, <3>3 DEF CallsExist, Moved
  <2> QED
    BY <1>5, <2>1, <2>2 DEF CreateTrade
<1> QED
  BY <1>2, <1>3, <1>4, <1>5 DEF CallStep, TradeStep, OpenedStep

-----------------------------------------------------------------------------
(* The monitor.                                                            *)

\* What its steps keep.
MonitorKeeps ==
    /\ StateTypeOK' /\ TableStep /\ RowsFollow
    /\ MonitorTypeOK' /\ MonitorExists'
    /\ \A c \in Calls : c \in Existing' <=> c \in Existing

\* The points at which it has nothing at hand.
MonitorFree == MonitorPcs \ (MonitorHolds \cup {"awaiting"})

LEMMA IdleTyped ==
    /\ Idle \in [pc : MonitorPcs, todo : SUBSET Trades, seen : SUBSET (Trades \X Kinds),
                cur : Trades \cup {None}, verdict : {"none"} \cup FinalStatus,
                positions : [Symbols -> Nat], orphans : SUBSET Symbols,
                queue : SUBSET Signals, taken : SUBSET Symbols, again : BOOLEAN]
    /\ Idle.todo = {}
    /\ Idle.pc = "idle"
BY DEF Idle, MonitorPcs

LEMMA StageTyped ==
    ASSUME MonitorTypeOK, aged' = aged, NEW pc \in MonitorFree,
           \/ MonStage(pc)
           \/ \E b \in BOOLEAN : mon' = [Idle EXCEPT !.pc = pc, !.again = b]
           \/ mon' = Idle
    PROVE  MonitorTypeOK' /\ MonitorExists'
<1>1. /\ mon' \in [pc : MonitorPcs, todo : SUBSET Trades, seen : SUBSET (Trades \X Kinds),
                   cur : Trades \cup {None}, verdict : {"none"} \cup FinalStatus,
                   positions : [Symbols -> Nat], orphans : SUBSET Symbols,
                   queue : SUBSET Signals, taken : SUBSET Symbols, again : BOOLEAN]
      /\ mon'.todo = {}
      /\ mon'.pc \in {"idle", pc}
  BY IdleTyped DEF MonStage, MonitorFree
<1>2. mon'.pc \notin MonitorHolds \cup {"awaiting"}
  BY <1>1 DEF MonitorFree, MonitorHolds
<1> QED
  BY <1>1, <1>2 DEF MonitorTypeOK, MonitorExists

\* The steps that only read.
LEMMA MonitorReads ==
    ASSUME IInv, UNCHANGED <<stateVars, ex, events, aged>>,
           \/ StartTick \/ NextTimeout \/ FetchPositions \/ ReadDb \/ StartTrail
           \/ ReadRefill \/ AwaitCall \/ ReadFlow \/ AwaitScan
    PROVE  MonitorTypeOK' /\ MonitorExists'
<1>0. /\ StateTypeOK /\ MonitorTypeOK /\ MonitorExists /\ RowsExist
      /\ Existing' = Existing /\ LiveTrades \subseteq Existing /\ Existing \subseteq Trades
      /\ \A t \in Existing : trade[t].symbol \in Symbols
  BY DEF IInv, TypeOK, Existing, LiveTrades, stateVars, RowsExist
<1>1. /\ mon \in [pc : MonitorPcs, todo : SUBSET Trades, seen : SUBSET (Trades \X Kinds),
                  cur : Trades \cup {None}, verdict : {"none"} \cup FinalStatus,
                  positions : [Symbols -> Nat], orphans : SUBSET Symbols,
                  queue : SUBSET Signals, taken : SUBSET Symbols, again : BOOLEAN]
      /\ aged' \in SUBSET Trades
  BY <1>0 DEF MonitorTypeOK
<1>2. CASE StartTick
  <2>1. OpenRows \subseteq Trades \X Kinds
    BY DEF OpenRows
  <2>2. ASSUME NEW T \in SUBSET Existing,
               mon' = [mon EXCEPT !.pc = "timeouts", !.todo = T, !.seen = OpenRows]
        PROVE  MonitorTypeOK' /\ MonitorExists'
    BY <1>0, <1>1, <2>1, <2>2 DEF MonitorTypeOK, MonitorExists, MonitorPcs, MonitorHolds
  <2>3. CASE MonGoto("expire")
    BY <1>0, <1>1, <2>3 DEF MonGoto, MonitorTypeOK, MonitorExists, MonitorPcs, MonitorHolds
  <2>4. (IF settings.isPaused THEN {} ELSE LiveTrades \cap aged) \in SUBSET Existing
    BY <1>0
  <2> QED
    BY <1>2, <2>2, <2>3, <2>4 DEF StartTick
<1>3. CASE NextTimeout
  <2>1. ASSUME NEW t \in mon.todo,
               mon' = [mon EXCEPT !.pc = "cancelOrders", !.cur = t, !.todo = @ \ {t}]
        PROVE  MonitorTypeOK' /\ MonitorExists'
    BY <1>0, <1>1, <2>1 DEF MonitorTypeOK, MonitorExists, MonitorPcs
  <2>2. CASE MonStage("fetch")
    BY <1>0, <2>2, StageTyped DEF MonitorFree, MonitorPcs, MonitorHolds
  <2> QED
    BY <1>3, <2>1, <2>2 DEF NextTimeout
<1>4. CASE FetchPositions
  <2>1. CASE mon' = [mon EXCEPT !.pc = "readDb", !.positions = pos]
    BY <1>0, <1>1, <2>1 DEF MonitorTypeOK, MonitorExists, MonitorPcs, MonitorHolds, StateTypeOK
  <2>2. CASE MonStage("trail")
    BY <1>0, <2>2, StageTyped DEF MonitorFree, MonitorPcs, MonitorHolds
  <2> QED
    BY <1>4, <2>1, <2>2 DEF FetchPositions
<1>5. CASE ReadDb
  BY <1>0, <1>1, <1>5 DEF ReadDb, MonitorTypeOK, MonitorExists, MonitorPcs, MonitorHolds
<1>6. CASE StartTrail
  BY <1>0, <1>1, <1>6 DEF StartTrail, MonitorTypeOK, MonitorExists, MonitorPcs, MonitorHolds
<1>7. CASE AfterRefill
  <2>1. "flow" \in MonitorFree
    BY DEF MonitorFree, MonitorPcs, MonitorHolds
  <2> QED
    BY <1>0, <1>7, <2>1, StageTyped DEF AfterRefill
<1>8. CASE ReadRefill
  <2>1. ASSUME NEW cooling \in SUBSET ClosedSymbols,
               mon' = [mon EXCEPT
                         !.pc = "claiming",
                         !.queue = {s \in Signals : sig[s] = "active" /\ s \notin expired},
                         !.taken = {trade[t].symbol : t \in LiveTrades} \cup cooling]
        PROVE  MonitorTypeOK' /\ MonitorExists'
    <3>1. ClosedSymbols \subseteq Symbols /\ {trade[t].symbol : t \in LiveTrades} \subseteq Symbols
      BY <1>0 DEF ClosedSymbols, Existing
    <3>2. /\ {trade[t].symbol : t \in LiveTrades} \cup cooling \in SUBSET Symbols
          /\ {s \in Signals : sig[s] = "active" /\ s \notin expired} \in SUBSET Signals
      BY <3>1
    <3> QED
      BY <1>0, <1>1, <2>1, <3>2 DEF MonitorTypeOK, MonitorExists, MonitorPcs, MonitorHolds
  <2> QED
    BY <1>7, <1>8, <2>1 DEF ReadRefill
<1>9. CASE AwaitCall
  <2>1. mon.cur \in Calls /\ mon.cur \in Trades /\ "sl" \in Kinds
    BY <1>0, <1>9 DEF AwaitCall, MonAt, MonitorExists, Trades, Kinds, StopKinds
  <2>2. Succeeded(mon.cur) => trade[mon.cur].symbol \in Symbols
    BY <1>0, <2>1 DEF Succeeded, RowsExist
  <2> QED
    BY <1>0, <1>1, <1>9, <2>2
       DEF AwaitCall, MonitorTypeOK, MonitorExists, MonitorPcs, MonitorHolds
<1>10. CASE ReadFlow
  <2>1. {"scanning", "idle"} \subseteq MonitorFree
    BY DEF MonitorFree, MonitorPcs, MonitorHolds
  <2>2. CASE mon' = [Idle EXCEPT !.pc = "scanning", !.again = TRUE]
    BY <1>0, <2>1, <2>2, StageTyped
  <2>3. CASE mon' = Idle
    BY <1>0, <2>1, <2>3, StageTyped
  <2> QED
    BY <1>10, <2>2, <2>3 DEF ReadFlow
<1>11. CASE AwaitScan
  <2>1. CASE MonGoto("refill")
    BY <1>0, <1>1, <2>1 DEF MonGoto, MonitorTypeOK, MonitorExists, MonitorPcs, MonitorHolds
  <2>2. CASE mon' = Idle
    <3>1. "idle" \in MonitorFree
      BY DEF MonitorFree, MonitorPcs, MonitorHolds
    <3> QED
      BY <1>0, <2>2, <3>1, StageTyped
  <2> QED
    BY <1>11, <2>1, <2>2 DEF AwaitScan
<1> QED
  BY <1>2, <1>3, <1>4, <1>5, <1>6, <1>8, <1>9, <1>10, <1>11

\* Only statuses of rows that exist change.
LEMMA RowsFromTyped ==
    ASSUME StateTypeOK, NEW t \in Existing, NEW status \in RowStatus,
           rows' = RowsFrom(t, status)
    PROVE  /\ rows' \in [Trades -> [Kinds -> RowStatus]]
           /\ \A u \in Trades, k \in Kinds : rows'[u][k] # "none" =>
                rows[u][k] # "none" \/ u \in Existing
BY DEF StateTypeOK, RowsFrom, Existing

\* The steps that cancel, place or record orders.
LEMMA MonitorOrders ==
    ASSUME IInv,
           \/ CancelAgedOrders \/ CancelAgedRows \/ CloseAged \/ FinalizeRows
           \/ MoveStop \/ CancelStopRow \/ PlaceBreakeven \/ RecordBreakeven
           \/ ExpireSignals
    PROVE  /\ MonitorKeeps
           /\ ex' = ex /\ events' = events
<1>0. /\ StateTypeOK /\ MonitorTypeOK /\ MonitorExists
      /\ Existing \subseteq Trades
      /\ {"sl", "be"} \subseteq Kinds
      /\ {"cancelled", "open", "filled", "triggered"} \subseteq RowStatus
  BY DEF IInv, TypeOK, Existing, Kinds, StopKinds, RowStatus
<1>1. /\ mon \in [pc : MonitorPcs, todo : SUBSET Trades, seen : SUBSET (Trades \X Kinds),
                  cur : Trades \cup {None}, verdict : {"none"} \cup FinalStatus,
                  positions : [Symbols -> Nat], orphans : SUBSET Symbols,
                  queue : SUBSET Signals, taken : SUBSET Symbols, again : BOOLEAN]
      /\ aged \in SUBSET Trades
      /\ mon.todo \subseteq Existing
      /\ mon.pc \in MonitorHolds => mon.cur \in Existing
  BY <1>0 DEF MonitorTypeOK, MonitorExists
<1>2. /\ trade' = trade /\ ex' = ex /\ events' = events /\ aged' = aged
      /\ settings' = settings /\ expired' = expired
  BY DEF CancelAgedOrders, CancelAgedRows, CloseAged, FinalizeRows, MoveStop,
         CancelStopRow, PlaceBreakeven, RecordBreakeven, ExpireSignals, monUnchanged,
         exchangeVars
<1>3. Existing' = Existing /\ TableStep
  BY <1>2 DEF Existing, TableStep
<1>4. ASSUME NEW pc \in {"cancelRows", "closeAged", "recordAged", "bePlace", "beRecord"},
             mon.pc \in MonitorHolds, MonGoto(pc)
      PROVE  MonitorTypeOK' /\ MonitorExists'
  BY <1>1, <1>2, <1>3, <1>4 DEF MonGoto, MonitorTypeOK, MonitorExists, MonitorPcs
<1>5. ASSUME NEW pc \in {"timeouts", "moving"}, mon' = [mon EXCEPT !.pc = pc, !.cur = None]
      PROVE  MonitorTypeOK' /\ MonitorExists'
  BY <1>1, <1>2, <1>3, <1>5 DEF MonitorTypeOK, MonitorExists, MonitorPcs, MonitorHolds
<1>6. CASE CancelAgedOrders
  <2>1. mon.pc \in MonitorHolds /\ MonGoto("cancelRows")
    BY <1>6 DEF CancelAgedOrders, MonAt, MonitorHolds
  <2>2. resting' \subseteq resting /\ UNCHANGED <<sig, rows, pos>>
    BY <1>6 DEF CancelAgedOrders, monUnchanged
  <2> QED
    BY <1>0, <1>2, <1>3, <1>4, <2>1, <2>2 DEF MonitorKeeps, StateTypeOK, RowsFollow
<1>7. CASE CancelAgedRows
  <2>1. mon.pc \in MonitorHolds /\ MonGoto("closeAged")
    BY <1>7 DEF CancelAgedRows, MonAt, MonitorHolds
  <2>2. rows' = RowsFrom(mon.cur, "cancelled") /\ UNCHANGED <<sig, resting, pos>>
    BY <1>7 DEF CancelAgedRows, monUnchanged
  <2>3. /\ rows' \in [Trades -> [Kinds -> RowStatus]]
        /\ \A u \in Trades, k \in Kinds : rows'[u][k] # "none" =>
             rows[u][k] # "none" \/ u \in Existing
    BY <1>0, <1>1, <2>1, <2>2, RowsFromTyped
  <2> QED
    BY <1>0, <1>2, <1>3, <1>4, <2>1, <2>2, <2>3 DEF MonitorKeeps, StateTypeOK, RowsFollow
<1>8. CASE CloseAged
  <2>1. mon.pc \in MonitorHolds /\ UNCHANGED <<sig, rows, resting>>
    BY <1>8 DEF CloseAged, MonAt, MonitorHolds, monUnchanged
  <2>2. MonitorTypeOK' /\ MonitorExists'
    BY <1>4, <1>5, <1>8, <2>1 DEF CloseAged
  <2>3. pos' \in [Symbols -> Nat]
    <3>1. mon.cur \in Existing /\ trade[mon.cur].symbol \in Symbols
          /\ trade[mon.cur].qty \in Nat
      BY <1>0, <1>1, <2>1 DEF IInv, RowsExist, StateTypeOK, TradeRow
    <3>2. Reduced(pos[trade[mon.cur].symbol], trade[mon.cur].qty) \in Nat
      BY <1>0, <3>1 DEF Reduced, StateTypeOK
    <3> QED
      BY <1>0, <1>8, <3>1, <3>2 DEF CloseAged, StateTypeOK
  <2> QED
    BY <1>0, <1>2, <1>3, <2>1, <2>2, <2>3 DEF MonitorKeeps, StateTypeOK, RowsFollow
<1>9. CASE FinalizeRows
  <2>1. /\ mon.pc \in MonitorHolds
        /\ mon' = [mon EXCEPT !.pc = "finalize", !.cur = None, !.verdict = "none"]
        /\ rows' = RowsFrom(mon.cur, RowStatusAfter(mon.verdict))
        /\ UNCHANGED <<sig, pos, resting>>
    BY <1>9 DEF FinalizeRows, MonAt, MonitorHolds, monUnchanged
  <2>2. RowStatusAfter(mon.verdict) \in RowStatus
    BY <1>0 DEF RowStatusAfter
  <2>3. /\ rows' \in [Trades -> [Kinds -> RowStatus]]
        /\ \A u \in Trades, k \in Kinds : rows'[u][k] # "none" =>
             rows[u][k] # "none" \/ u \in Existing
    BY <1>0, <1>1, <2>1, <2>2, RowsFromTyped
  <2>4. MonitorTypeOK' /\ MonitorExists'
    BY <1>1, <1>2, <1>3, <2>1 DEF MonitorTypeOK, MonitorExists, MonitorPcs, MonitorHolds
  <2> QED
    BY <1>0, <1>2, <1>3, <2>1, <2>3, <2>4 DEF MonitorKeeps, StateTypeOK, RowsFollow
<1>10. CASE MoveStop
  <2>1. resting' \subseteq resting /\ UNCHANGED <<sig, rows, pos>>
    BY <1>10 DEF MoveStop, monUnchanged
  <2>2. CASE MonStage("expire")
    <3>1. "expire" \in MonitorFree
      BY DEF MonitorFree, MonitorPcs, MonitorHolds
    <3>2. MonitorTypeOK' /\ MonitorExists'
      BY <1>0, <1>2, <2>2, <3>1, StageTyped
    <3> QED
      BY <1>0, <1>2, <1>3, <2>1, <3>2 DEF MonitorKeeps, StateTypeOK, RowsFollow
  <2>3. ASSUME NEW t \in mon.todo,
               \/ mon' = [mon EXCEPT !.todo = @ \ {t}]
               \/ mon' = [mon EXCEPT !.pc = "beRow", !.cur = t, !.todo = @ \ {t}]
        PROVE  MonitorTypeOK' /\ MonitorExists'
    <3>0. MonAt("moving")
      BY <1>10 DEF MoveStop
    <3>1. mon.pc = "moving" /\ mon.pc \notin MonitorHolds
      BY <3>0 DEF MonAt, MonitorHolds
    <3>2. CASE mon' = [mon EXCEPT !.todo = @ \ {t}]
      BY <1>1, <1>2, <1>3, <3>1, <3>2 DEF MonitorTypeOK, MonitorExists
    <3>3. CASE mon' = [mon EXCEPT !.pc = "beRow", !.cur = t, !.todo = @ \ {t}]
      BY <1>0, <1>1, <1>2, <1>3, <3>3 DEF MonitorTypeOK, MonitorExists, MonitorPcs
    <3> QED
      BY <2>3, <3>2, <3>3
  <2> QED
    BY <1>0, <1>2, <1>3, <1>10, <2>1, <2>2, <2>3
       DEF MoveStop, MonitorKeeps, StateTypeOK, RowsFollow
<1>11. CASE CancelStopRow
  <2>1. /\ mon.pc \in MonitorHolds /\ MonGoto("bePlace")
        /\ rows' = [rows EXCEPT ![mon.cur]["sl"] = "cancelled"]
        /\ UNCHANGED <<sig, pos, resting>>
    BY <1>11 DEF CancelStopRow, MonAt, MonitorHolds, monUnchanged
  <2> QED
    BY <1>0, <1>1, <1>2, <1>3, <1>4, <2>1 DEF MonitorKeeps, StateTypeOK, RowsFollow
<1>12. CASE PlaceBreakeven
  <2>1. mon.pc \in MonitorHolds /\ UNCHANGED <<sig, pos, rows>>
    BY <1>12 DEF PlaceBreakeven, MonAt, MonitorHolds, monUnchanged
  <2>2. MonitorTypeOK' /\ MonitorExists'
    BY <1>4, <1>5, <1>12, <2>1 DEF PlaceBreakeven
  <2>3. resting' = resting \cup {<<mon.cur, "be">>} \/ resting' = resting
    BY <1>12 DEF PlaceBreakeven
  <2>4. mon.cur \in Existing
    BY <1>1, <2>1
  <2> QED
    BY <1>0, <1>2, <1>3, <2>1, <2>2, <2>3, <2>4
       DEF MonitorKeeps, StateTypeOK, RowsFollow, OrderKinds, StopKinds
<1>13. CASE RecordBreakeven
  <2>1. /\ mon.pc \in MonitorHolds
        /\ mon' = [mon EXCEPT !.pc = "moving", !.cur = None]
        /\ rows' = [rows EXCEPT ![mon.cur]["be"] = "open"]
        /\ UNCHANGED <<sig, pos, resting>>
    BY <1>13 DEF RecordBreakeven, MonAt, MonitorHolds, monUnchanged
  <2> QED
    BY <1>0, <1>1, <1>2, <1>3, <1>5, <2>1 DEF MonitorKeeps, StateTypeOK, RowsFollow
<1>14. CASE ExpireSignals
  <2>1. MonGoto("refill") /\ sig' = StaleExpired /\ UNCHANGED <<rows, pos, resting>>
    BY <1>14 DEF ExpireSignals, exchangeVars
  <2>2. MonitorTypeOK' /\ MonitorExists'
    BY <1>1, <1>2, <1>3, <2>1 DEF MonGoto, MonitorTypeOK, MonitorExists, MonitorPcs,
                                  MonitorHolds
  <2>3. sig' \in [Signals -> SignalStatus]
    BY <1>0, <2>1 DEF StaleExpired, SignalsMoved, StateTypeOK, SignalStatus
  <2> QED
    BY <1>0, <1>2, <1>3, <2>1, <2>2, <2>3 DEF MonitorKeeps, StateTypeOK, RowsFollow
<1> QED
  BY <1>2, <1>6, <1>7, <1>8, <1>9, <1>10, <1>11, <1>12, <1>13, <1>14

\* updateMany over an open trade: it is closed, or was already.
LEMMA ClosedAsTyped ==
    ASSUME StateTypeOK, RowsExist, NEW t \in Existing, NEW status \in Over,
           trade' = TradeClosedAs(t, status)
    PROVE  /\ TableStep
           /\ trade' \in [Trades -> TradeRow]
           /\ Existing' = Existing
<1>1. TableStep
  BY DEF TableStep, Closes, TradeClosedAs
<1>2. trade' \in [Trades -> TradeRow] /\ Existing \subseteq Existing'
  BY <1>1, TradesStay
<1>3. Existing' \subseteq Existing
  BY DEF Existing, TradeClosedAs, StateTypeOK
<1> QED
  BY <1>1, <1>2, <1>3

\* The three steps of the monitor that write the table.
LEMMA MonitorWrites ==
    ASSUME IInv, RecordAged \/ FinalizeTrade \/ ImportOrphan
    PROVE  /\ MonitorKeeps
           /\ ex' = ex /\ events' = events
<1>0. /\ StateTypeOK /\ MonitorTypeOK /\ MonitorExists /\ RowsExist
      /\ Existing \subseteq Trades
      /\ {"time_stop"} \cup FinalStatus \subseteq Over
  BY DEF IInv, TypeOK, Existing, Over, FinalStatus, TradeStatus
<1>1. /\ mon \in [pc : MonitorPcs, todo : SUBSET Trades, seen : SUBSET (Trades \X Kinds),
                  cur : Trades \cup {None}, verdict : {"none"} \cup FinalStatus,
                  positions : [Symbols -> Nat], orphans : SUBSET Symbols,
                  queue : SUBSET Signals, taken : SUBSET Symbols, again : BOOLEAN]
      /\ aged \in SUBSET Trades
      /\ mon.todo \subseteq Existing
      /\ mon.pc \in MonitorHolds => mon.cur \in Existing
  BY <1>0 DEF MonitorTypeOK, MonitorExists
<1>2. /\ ex' = ex /\ events' = events /\ aged' = aged
      /\ UNCHANGED <<settings, sig, expired, rows, pos, resting>>
  BY DEF RecordAged, FinalizeTrade, ImportOrphan, monUnchanged
<1>3. ASSUME TableStep, \A c \in Calls : c \in Existing' <=> c \in Existing,
             MonitorTypeOK' /\ MonitorExists'
      PROVE  MonitorKeeps
  <2>1. trade' \in [Trades -> TradeRow]
    BY <1>0, <1>3, TradesStay
  <2> QED
    BY <1>0, <1>2, <1>3, <2>1 DEF MonitorKeeps, StateTypeOK, RowsFollow
<1>4. CASE RecordAged
  <2>1. /\ MonAt("recordAged")
        /\ trade' = TradeClosedAs(mon.cur, "time_stop")
        /\ mon' = [mon EXCEPT !.pc = "timeouts", !.cur = None]
    BY <1>4 DEF RecordAged
  <2>2. mon.cur \in Existing
    BY <1>1, <2>1 DEF MonAt, MonitorHolds
  <2>3. TableStep /\ Existing' = Existing
    BY <1>0, <2>1, <2>2, ClosedAsTyped
  <2>4. MonitorTypeOK' /\ MonitorExists'
    BY <1>1, <1>2, <2>1, <2>3 DEF MonitorTypeOK, MonitorExists, MonitorPcs, MonitorHolds
  <2> QED
    BY <1>2, <1>3, <2>3, <2>4
<1>5. ASSUME Existing' = Existing, NEW t \in mon.todo,
             mon' = [mon EXCEPT !.todo = @ \ {t}], MonAt("finalize")
      PROVE  MonitorTypeOK' /\ MonitorExists'
  <2>1. mon.pc \notin MonitorHolds /\ mon.pc # "awaiting"
    BY <1>5 DEF MonAt, MonitorHolds
  <2> QED
    BY <1>1, <1>2, <1>5, <2>1 DEF MonitorTypeOK, MonitorExists
<1>6. CASE FinalizeTrade
  <2>0. MonAt("finalize")
    BY <1>6 DEF FinalizeTrade
  <2>1. ASSUME NEW t \in mon.todo, NEW status \in FinalStatus,
               trade' = TradeClosedAs(t, status),
               mon' = IF trade[t].status = "live_open"
                      THEN [mon EXCEPT !.pc = "finalizeRows", !.cur = t,
                                       !.verdict = status, !.todo = @ \ {t}]
                      ELSE [mon EXCEPT !.todo = @ \ {t}]
        PROVE  MonitorKeeps
    <3>1. TableStep /\ Existing' = Existing
      BY <1>0, <1>1, <2>1, ClosedAsTyped
    <3>2. CASE mon' = [mon EXCEPT !.pc = "finalizeRows", !.cur = t,
                                  !.verdict = status, !.todo = @ \ {t}]
      <4>1. MonitorTypeOK' /\ MonitorExists'
        BY <1>0, <1>1, <1>2, <3>1, <3>2 DEF MonitorTypeOK, MonitorExists, MonitorPcs
      <4> QED
        BY <1>3, <3>1, <4>1
    <3>3. CASE mon' = [mon EXCEPT !.todo = @ \ {t}]
      BY <1>3, <1>5, <2>0, <3>1, <3>3
    <3> QED
      BY <2>1, <3>2, <3>3
  <2>2. ASSUME UNCHANGED trade PROVE Existing' = Existing /\ TableStep
    BY <2>2 DEF Existing, TableStep
  <2>3. ASSUME NEW t \in mon.todo, mon' = [mon EXCEPT !.todo = @ \ {t}], UNCHANGED trade
        PROVE  MonitorKeeps
    BY <1>3, <1>5, <2>0, <2>2, <2>3
  <2>4. ASSUME MonGoto("import"), UNCHANGED trade PROVE MonitorKeeps
    <3>1. MonitorTypeOK' /\ MonitorExists'
      BY <1>1, <1>2, <2>2, <2>4 DEF MonGoto, MonitorTypeOK, MonitorExists, MonitorPcs,
                                    MonitorHolds
    <3> QED
      BY <1>3, <2>2, <2>4, <3>1
  <2> QED
    BY <1>2, <1>6, <2>1, <2>3, <2>4 DEF FinalizeTrade
<1>7. CASE ImportOrphan
  <2>0. MonAt("import")
    BY <1>7 DEF ImportOrphan
  <2>1. ASSUME MonStage("trail"), UNCHANGED trade PROVE MonitorKeeps
    <3>1. Existing' = Existing /\ TableStep
      BY <2>1 DEF Existing, TableStep
    <3>2. "trail" \in MonitorFree
      BY DEF MonitorFree, MonitorPcs, MonitorHolds
    <3>3. MonitorTypeOK' /\ MonitorExists'
      BY <1>0, <1>2, <2>1, <3>2, StageTyped
    <3> QED
      BY <1>3, <3>1, <3>3
  <2>2. ASSUME NEW m \in mon.orphans, mon' = [mon EXCEPT !.orphans = @ \ {m}],
               TableStep, \A c \in Calls : c \in Existing' <=> c \in Existing
        PROVE  MonitorKeeps
    <3>1. mon.pc \notin MonitorHolds /\ mon.pc # "awaiting"
      BY <2>0 DEF MonAt, MonitorHolds
    <3>2. Existing \subseteq Existing'
      BY <1>0, <2>2, TradesStay
    <3>3. MonitorTypeOK' /\ MonitorExists'
      BY <1>1, <1>2, <2>2, <3>1, <3>2 DEF MonitorTypeOK, MonitorExists
    <3> QED
      BY <1>3, <2>2, <3>3
  <2>3. ASSUME NEW m \in mon.orphans, mon' = [mon EXCEPT !.orphans = @ \ {m}],
               IndexAllows(m), NEW i \in UnusedImports,
               trade' = [trade EXCEPT ![i] =
                           [status |-> "live_open", symbol |-> m,
                            qty |-> mon.positions[m], signal |-> None]]
        PROVE  MonitorKeeps
    <3>1. m \in Symbols /\ mon.positions[m] \in Nat
      BY <1>1, <2>3
    <3>2. /\ i \in Trades /\ i \notin Calls /\ trade[i].status = "none"
          /\ Calls \subseteq Trades
      BY <2>3, ConstantsAssumption DEF UnusedImports, Trades
    <3>3. [status |-> "live_open", symbol |-> m, qty |-> mon.positions[m],
           signal |-> None] \in TradeRow
      BY <3>1 DEF TradeRow, TradeStatus
    <3>4. TableStep
      BY <2>3, <3>1, <3>2, <3>3 DEF TableStep, Opens
    <3>5. \A c \in Calls : c \in Existing' <=> c \in Existing
      BY <1>0, <2>3, <3>2 DEF Existing, StateTypeOK
    <3> QED
      BY <2>2, <2>3, <3>4, <3>5
  <2>4. ASSUME NEW m \in mon.orphans, mon' = [mon EXCEPT !.orphans = @ \ {m}], UNCHANGED trade
        PROVE  MonitorKeeps
    <3>1. Existing' = Existing /\ TableStep
      BY <2>4 DEF Existing, TableStep
    <3> QED
      BY <2>2, <2>4, <3>1
  <2> QED
    BY <1>2, <1>7, <2>1, <2>3, <2>4 DEF ImportOrphan
<1> QED
  BY <1>2, <1>4, <1>6, <1>7

\* The refill claims a candidate for a call of its own.
LEMMA MonitorClaims ==
    ASSUME IInv, ClaimCandidate
    PROVE  /\ MonitorKeeps
           /\ ExecutionTypeOK' /\ Claimed' /\ CallsExist'
           /\ events' = events
<1>0. /\ StateTypeOK /\ ExecutionTypeOK /\ MonitorTypeOK /\ MonitorExists
      /\ Claimed /\ CallsExist
      /\ events' = events /\ aged' = aged
      /\ mon.pc = "claiming"
  BY DEF IInv, TypeOK, ClaimCandidate, MonAt
<1>1. mon \in [pc : MonitorPcs, todo : SUBSET Trades, seen : SUBSET (Trades \X Kinds),
               cur : Trades \cup {None}, verdict : {"none"} \cup FinalStatus,
               positions : [Symbols -> Nat], orphans : SUBSET Symbols,
               queue : SUBSET Signals, taken : SUBSET Symbols, again : BOOLEAN]
      /\ aged \in SUBSET Trades
      /\ mon.todo \subseteq Existing
  BY <1>0 DEF MonitorTypeOK, MonitorExists
<1>2. ASSUME NEW s \in Candidates, NEW c \in FreeCalls, Claim(c, s),
             mon' = [mon EXCEPT !.pc = "awaiting", !.cur = c, !.queue = @ \ {s}]
      PROVE  MonitorKeeps /\ ExecutionTypeOK' /\ Claimed' /\ CallsExist'
  <2>0. c \in Calls /\ s \in Signals /\ CallTyped
    BY <1>0, <1>1 DEF Candidates, FreeCalls, CallTyped
  <2>1. /\ CallTyped'
        /\ ex[c].pc = "ready" /\ ex'[c].pc = "load"
        /\ \A d \in Calls \ {c} : ex'[d] = ex[d]
        /\ UNCHANGED <<trade, rows, resting>>
    BY <1>2, <2>0, ClaimMoves
  <2>2. Existing' = Existing /\ TableStep /\ RowsFollow
    BY <2>1 DEF Existing, TableStep, RowsFollow
  <2>3. CallsExist'
    BY <1>0, <2>1, <2>2 DEF CallsExist, Unopened, Opened, Stopless, StopRecorded, Checking
  <2>4. MonitorTypeOK' /\ MonitorExists'
    BY <1>0, <1>1, <1>2, <2>0, <2>2
       DEF MonitorTypeOK, MonitorExists, MonitorPcs, MonitorHolds, Trades
  <2> QED
    BY <2>1, <2>2, <2>3, <2>4 DEF MonitorKeeps, CallTyped
<1>3. ASSUME UNCHANGED <<settings, sig, expired, trade, rows, pos, resting, ex>>,
             MonitorTypeOK' /\ MonitorExists'
      PROVE  MonitorKeeps /\ ExecutionTypeOK' /\ Claimed' /\ CallsExist'
  <2>1. Existing' = Existing /\ TableStep /\ RowsFollow /\ StateTypeOK'
    BY <1>0, <1>3 DEF Existing, TableStep, RowsFollow, StateTypeOK
  <2> QED
    BY <1>0, <1>3, <2>1, CallsStay DEF MonitorKeeps
<1>4. ASSUME NEW s \in Candidates, mon' = [mon EXCEPT !.queue = @ \ {s}], UNCHANGED trade
      PROVE  MonitorTypeOK' /\ MonitorExists'
  <2>1. Existing' = Existing /\ mon.pc \notin MonitorHolds /\ mon.pc # "awaiting"
    BY <1>0, <1>4 DEF Existing, MonitorHolds
  <2> QED
    BY <1>0, <1>1, <1>4, <2>1 DEF MonitorTypeOK, MonitorExists
<1>5. ASSUME AfterRefill PROVE MonitorTypeOK' /\ MonitorExists'
  <2>1. {"flow", "idle"} \subseteq MonitorFree
    BY DEF MonitorFree, MonitorPcs, MonitorHolds
  <2> QED
    BY <1>0, <1>5, <2>1, StageTyped DEF AfterRefill
<1> QED
  BY <1>0, <1>2, <1>3, <1>4, <1>5 DEF ClaimCandidate, stateVars

-----------------------------------------------------------------------------
(* Putting the invariant together again.                                   *)

\* What every step must show of the tables and of the account.
StateKept == StateTypeOK' /\ TableStep /\ RowsFollow

\* No row of a call appears: only a call creates its row.
CallRowsStay == \A c \in Calls : c \in Existing' <=> c \in Existing

LEMMA IInvKept ==
    ASSUME IInv, StateKept,
           \/ ExecutionTypeOK' /\ Claimed' /\ CallsExist'
           \/ ex' = ex /\ CallRowsStay,
           ExchangeTypeOK' \/ events' = events,
           ControlTypeOK' \/ UNCHANGED controlVars,
           (MonitorTypeOK' /\ MonitorExists') \/ UNCHANGED monitorVars,
           (StreamTypeOK' /\ HandlersExist') \/ ws' = ws,
           (ClosingTypeOK' /\ CloserExists') \/ closer' = closer
    PROVE  IInv'
<1>0. /\ TypeOK /\ Claimed /\ RowsExist /\ CallsExist
      /\ MonitorExists /\ HandlersExist /\ CloserExists
      /\ StateTypeOK /\ ExecutionTypeOK /\ ExchangeTypeOK /\ MonitorTypeOK
      /\ StreamTypeOK /\ ClosingTypeOK /\ ControlTypeOK
  BY DEF IInv, TypeOK
<1>1. RowsExist' /\ Existing \subseteq Existing'
  BY <1>0, RowsStay, TradesStay DEF StateKept
<1>2. ExecutionTypeOK' /\ Claimed' /\ CallsExist'
  BY <1>0, CallsStay DEF CallRowsStay
<1>3. ExchangeTypeOK' /\ ControlTypeOK'
  BY <1>0 DEF ExchangeTypeOK, ControlTypeOK, controlVars
<1>4. MonitorTypeOK' /\ MonitorExists'
  BY <1>0, <1>1, MonitorStays
<1>5. StreamTypeOK' /\ HandlersExist'
  BY <1>0, <1>1, HandlersStay
<1>6. ClosingTypeOK' /\ CloserExists'
  BY <1>0, <1>1, CloserStays
<1> QED
  BY <1>1, <1>2, <1>3, <1>4, <1>5, <1>6 DEF IInv, TypeOK, StateKept

\* A step that leaves the tables and the resting orders alone.
LEMMA TablesUntouched ==
    ASSUME IInv, UNCHANGED <<trade, rows>>, resting' \subseteq resting,
           settings' \in Settings, sig' \in [Signals -> SignalStatus],
           expired' \in SUBSET Signals, pos' \in [Symbols -> Nat]
    PROVE  StateKept /\ CallRowsStay /\ Existing' = Existing
BY DEF IInv, TypeOK, StateTypeOK, StateKept, CallRowsStay, TableStep, RowsFollow, Existing

LEMMA StateUntouched ==
    ASSUME IInv, UNCHANGED stateVars
    PROVE  StateKept /\ CallRowsStay /\ Existing' = Existing
<1>1. /\ UNCHANGED <<trade, rows, resting, settings, sig, expired, pos>>
      /\ StateTypeOK
  BY DEF stateVars, IInv, TypeOK
<1> QED
  BY <1>1, TablesUntouched DEF StateTypeOK

-----------------------------------------------------------------------------
(* The steps, component by component.                                      *)

LEMMA CallKeeps ==
    ASSUME IInv, NEW c \in Calls, Call(c)
    PROVE  IInv' /\ TableStep
<1>1. /\ CallStep(c) /\ UNCHANGED <<events, controlVars, ws, closer, monitorVars>>
      /\ CallTyped /\ CallsExist /\ RowsExist
  BY DEF Call, IInv, TypeOK, CallTyped, monitorVars
<1>2. CallTyped'
  BY <1>1, CallStepTyped
<1>3. StateKept
  BY <1>1, <1>2, CallTable DEF StateKept, CallTyped
<1>4. ExecutionTypeOK' /\ Claimed' /\ CallsExist'
  BY <1>1, <1>2, CallKeepsCalls DEF CallTyped
<1> QED
  BY <1>1, <1>3, <1>4, IInvKept DEF StateKept

LEMMA AskKeeps ==
    ASSUME IInv, NEW c \in Calls, Ask(c)
    PROVE  IInv' /\ TableStep /\ CallRowsStay
<1>1. PICK s \in Signals : Claim(c, s)
  BY DEF Ask
<1>2. /\ UNCHANGED <<events, controlVars, ws, closer, monitorVars>>
      /\ CallTyped /\ CallsExist
  BY DEF Ask, IInv, TypeOK, CallTyped, monitorVars
<1>3. /\ CallTyped'
      /\ ex[c].pc = "ready" /\ ex'[c].pc = "load"
      /\ \A d \in Calls \ {c} : ex'[d] = ex[d]
      /\ UNCHANGED <<trade, rows, resting>>
  BY <1>1, <1>2, ClaimMoves
<1>4. StateKept /\ CallRowsStay /\ Existing' = Existing
  BY <1>3 DEF StateKept, CallRowsStay, TableStep, RowsFollow, Existing, CallTyped
<1>5. CallsExist'
  BY <1>2, <1>3, <1>4 DEF CallsExist, Unopened, Opened, Stopless, StopRecorded, Checking
<1>6. ExecutionTypeOK' /\ Claimed'
  BY <1>3 DEF CallTyped
<1> QED
  BY <1>2, <1>4, <1>5, <1>6, IInvKept DEF StateKept

LEMMA MonitorKeepsIInv ==
    ASSUME IInv, Monitor
    PROVE  IInv' /\ TableStep /\ CallRowsStay
<1>0. MonitorStep /\ UNCHANGED <<ws, closer, controlVars>>
  BY DEF Monitor
<1>1. ASSUME MonitorKeeps, events' = events,
             ex' = ex \/ (ExecutionTypeOK' /\ Claimed' /\ CallsExist')
      PROVE  IInv' /\ TableStep /\ CallRowsStay
  BY <1>0, <1>1, IInvKept DEF MonitorKeeps, StateKept, CallRowsStay
<1>2. CASE \/ StartTick \/ NextTimeout \/ FetchPositions \/ ReadDb \/ StartTrail
           \/ ReadRefill \/ AwaitCall \/ ReadFlow \/ AwaitScan
  <2>1. UNCHANGED <<stateVars, ex, events, aged>>
    BY <1>2 DEF StartTick, NextTimeout, FetchPositions, ReadDb, StartTrail, ReadRefill,
                AwaitCall, ReadFlow, AwaitScan
  <2>2. MonitorTypeOK' /\ MonitorExists'
    BY <1>2, <2>1, MonitorReads
  <2>3. StateKept /\ CallRowsStay
    BY <2>1, StateUntouched
  <2> QED
    BY <1>0, <2>1, <2>2, <2>3, IInvKept DEF StateKept
<1>3. CASE \/ CancelAgedOrders \/ CancelAgedRows \/ CloseAged \/ FinalizeRows
           \/ MoveStop \/ CancelStopRow \/ PlaceBreakeven \/ RecordBreakeven
           \/ ExpireSignals
  BY <1>1, <1>3, MonitorOrders
<1>4. CASE RecordAged \/ FinalizeTrade \/ ImportOrphan
  BY <1>1, <1>4, MonitorWrites
<1>5. CASE ClaimCandidate
  BY <1>1, <1>5, MonitorClaims
<1> QED
  BY <1>0, <1>2, <1>3, <1>4, <1>5 DEF MonitorStep

LEMMA StreamKeeps ==
    ASSUME IInv, Stream
    PROVE  IInv' /\ TableStep /\ CallRowsStay
<1>0. /\ StateTypeOK /\ StreamTypeOK /\ ExchangeTypeOK /\ HandlersExist /\ RowsExist
      /\ Existing \subseteq Trades
      /\ FinalStatus \subseteq Over
  BY DEF IInv, TypeOK, Existing, FinalStatus, Over, TradeStatus
<1>1. /\ UNCHANGED <<closer, controlVars, monitorVars, ex>>
      /\ UNCHANGED <<settings, sig, expired, pos, resting>>
      /\ StreamStep
  BY DEF Stream, StreamStep, ReceiveFill, ConfirmFlat, FinalizeFilled, FilledRows,
         streamUnchanged
<1>2. ASSUME NEW e \in events, ReceiveFill(e) PROVE IInv' /\ TableStep /\ CallRowsStay
  <2>1. StateKept /\ CallRowsStay /\ Existing' = Existing
    BY <1>0, <1>1, <1>2, TablesUntouched DEF ReceiveFill, StateTypeOK
  <2>2. ExchangeTypeOK'
    BY <1>0, <1>2 DEF ReceiveFill, ExchangeTypeOK
  <2>3. LiveTradesOf(e.symbol) \subseteq Existing
    BY DEF LiveTradesOf, LiveTrades, Existing
  <2>4. ASSUME NEW h \in ws' PROVE h \in Handler /\ h.trade \in Existing
    <3>1. CASE h \in ws
      BY <1>0, <3>1 DEF StreamTypeOK, HandlersExist
    <3>2. CASE h \notin ws
      <4>1. PICK t \in LiveTradesOf(e.symbol) :
               h = [pc |-> IF e.type = "STOP_MARKET" THEN "finalize" ELSE "confirm",
                    trade |-> t, status |-> "none"]
        BY <1>2, <2>4, <3>2 DEF ReceiveFill
      <4> QED
        BY <1>0, <2>3, <4>1 DEF Handler
    <3> QED
      BY <3>1, <3>2
  <2>5. StreamTypeOK' /\ HandlersExist'
    BY <2>1, <2>4 DEF StreamTypeOK, HandlersExist
  <2> QED
    BY <1>1, <2>1, <2>2, <2>5, IInvKept DEF StateKept
<1>3. ASSUME NEW h \in ws, ConfirmFlat(h) \/ FinalizeFilled(h) \/ FilledRows(h),
             NEW pc \in {"confirm", "finalize", "rows"}, NEW status \in {"none"} \cup FinalStatus,
             NEW W \in SUBSET {[h EXCEPT !.pc = pc, !.status = status], [h EXCEPT !.pc = pc]},
             ws' = (ws \ {h}) \cup W,
             Existing \subseteq Existing'
      PROVE  StreamTypeOK' /\ HandlersExist'
  <2>1. ASSUME NEW g \in ws' PROVE g \in Handler /\ g.trade \in Existing
    <3>1. h \in Handler /\ h.trade \in Existing
      BY <1>0 DEF StreamTypeOK, HandlersExist
    <3>2. CASE g \in ws
      BY <1>0, <3>2 DEF StreamTypeOK, HandlersExist
    <3>3. CASE g = [h EXCEPT !.pc = pc, !.status = status] \/ g = [h EXCEPT !.pc = pc]
      BY <3>1, <3>3 DEF Handler
    <3> QED
      BY <1>3, <2>1, <3>2, <3>3
  <2> QED
    BY <1>3, <2>1 DEF StreamTypeOK, HandlersExist
<1>4. ASSUME NEW h \in ws, ConfirmFlat(h) PROVE IInv' /\ TableStep /\ CallRowsStay
  <2>1. StateKept /\ CallRowsStay /\ Existing' = Existing
    BY <1>0, <1>1, <1>4, TablesUntouched DEF ConfirmFlat, StateTypeOK
  <2>2. StreamTypeOK' /\ HandlersExist'
    <3>1. CASE Continue(h, "finalize")
      <4>1. {[h EXCEPT !.pc = "finalize"]}
              \in SUBSET {[h EXCEPT !.pc = "finalize", !.status = "none"],
                         [h EXCEPT !.pc = "finalize"]}
        OBVIOUS
      <4> QED
        BY <1>3, <1>4, <2>1, <3>1, <4>1 DEF Continue
    <3>2. CASE Return(h)
      BY <1>0, <2>1, <3>2 DEF Return, StreamTypeOK, HandlersExist
    <3> QED
      BY <1>4, <3>1, <3>2 DEF ConfirmFlat
  <2> QED
    BY <1>1, <1>4, <2>1, <2>2, IInvKept DEF ConfirmFlat, StateKept
<1>5. ASSUME NEW h \in ws, FinalizeFilled(h) PROVE IInv' /\ TableStep /\ CallRowsStay
  <2>1. /\ h.trade \in Existing
        /\ rows' = rows /\ events' = events
    BY <1>0, <1>5 DEF HandlersExist, FinalizeFilled
  <2>2. ASSUME NEW status \in FinalStatus, trade' = TradeClosedAs(h.trade, status),
               ws' = (ws \ {h}) \cup {g \in {[h EXCEPT !.pc = "rows", !.status = status]} :
                                        trade[h.trade].status = "live_open"}
        PROVE  IInv' /\ TableStep /\ CallRowsStay
    <3>1. TableStep /\ trade' \in [Trades -> TradeRow] /\ Existing' = Existing
      BY <1>0, <2>1, <2>2, ClosedAsTyped
    <3>2. StateKept /\ CallRowsStay
      BY <1>0, <1>1, <2>1, <3>1 DEF StateKept, StateTypeOK, RowsFollow, CallRowsStay
    <3>3. StreamTypeOK' /\ HandlersExist'
      <4>1. {g \in {[h EXCEPT !.pc = "rows", !.status = status]} :
               trade[h.trade].status = "live_open"}
              \in SUBSET {[h EXCEPT !.pc = "rows", !.status = status], [h EXCEPT !.pc = "rows"]}
        OBVIOUS
      <4> QED
        BY <1>3, <1>5, <2>2, <3>1, <4>1
    <3> QED
      BY <1>1, <2>1, <3>1, <3>2, <3>3, IInvKept
  <2>3. ASSUME Return(h), UNCHANGED trade PROVE IInv' /\ TableStep /\ CallRowsStay
    <3>1. StateKept /\ CallRowsStay /\ Existing' = Existing
      BY <1>0, <1>1, <2>1, <2>3, TablesUntouched DEF StateTypeOK
    <3>2. StreamTypeOK' /\ HandlersExist'
      BY <1>0, <2>3, <3>1 DEF Return, StreamTypeOK, HandlersExist
    <3> QED
      BY <1>1, <2>1, <3>1, <3>2, IInvKept DEF StateKept
  <2> QED
    BY <1>5, <2>2, <2>3 DEF FinalizeFilled
<1>6. ASSUME NEW h \in ws, FilledRows(h) PROVE IInv' /\ TableStep /\ CallRowsStay
  <2>1. /\ h.trade \in Existing
        /\ rows' = RowsFrom(h.trade, RowStatusAfter(h.status))
        /\ trade' = trade /\ events' = events /\ Return(h)
    BY <1>0, <1>6 DEF HandlersExist, FilledRows
  <2>2. RowStatusAfter(h.status) \in RowStatus
    BY DEF RowStatusAfter, RowStatus
  <2>3. /\ rows' \in [Trades -> [Kinds -> RowStatus]]
        /\ \A u \in Trades, k \in Kinds : rows'[u][k] # "none" =>
             rows[u][k] # "none" \/ u \in Existing
    BY <1>0, <2>1, <2>2, RowsFromTyped
  <2>4. StateKept /\ CallRowsStay /\ Existing' = Existing
    BY <1>0, <1>1, <2>1, <2>3 DEF StateKept, StateTypeOK, RowsFollow, CallRowsStay,
                                  TableStep, Existing
  <2>5. StreamTypeOK' /\ HandlersExist'
    BY <1>0, <2>1, <2>4 DEF Return, StreamTypeOK, HandlersExist
  <2> QED
    BY <1>1, <2>1, <2>4, <2>5, IInvKept DEF StateKept
<1> QED
  BY <1>1, <1>2, <1>4, <1>5, <1>6 DEF StreamStep


LEMMA MarketKeeps ==
    ASSUME IInv, Market
    PROVE  IInv' /\ TableStep /\ CallRowsStay
<1>0. /\ StateTypeOK /\ ExchangeTypeOK /\ MonitorTypeOK /\ MonitorExists /\ RowsExist
      /\ UNCHANGED <<ex, ws, closer, controlVars>>
  BY DEF IInv, TypeOK, Market, TradeAges
<1>1. ASSUME UNCHANGED <<dbVars, mon, aged>>, resting' \subseteq resting,
             pos' \in [Symbols -> Nat], ExchangeTypeOK'
      PROVE  IInv' /\ TableStep /\ CallRowsStay
  <2>1. /\ UNCHANGED <<trade, rows, settings, sig, expired>>
        /\ UNCHANGED monitorVars
    BY <1>1 DEF dbVars, monitorVars
  <2>2. StateKept /\ CallRowsStay
    BY <1>0, <1>1, <2>1, TablesUntouched DEF StateTypeOK
  <2> QED
    BY <1>0, <1>1, <2>1, <2>2, IInvKept DEF StateKept
<1>2. ASSUME NEW t \in Trades, NEW k \in OrderKinds, OrderTriggers(t, k), UNCHANGED <<mon, aged>>
      PROVE  IInv' /\ TableStep /\ CallRowsStay
  <2>1. trade[t].symbol \in Symbols
    BY <1>0, <1>2 DEF OrderTriggers, RowsExist
  <2>2. OrderQty(t, k) \in Nat
    BY <1>0 DEF OrderQty, StateTypeOK, TradeRow
  <2>3. Reduced(pos[trade[t].symbol], OrderQty(t, k)) \in Nat
    BY <1>0, <2>1, <2>2 DEF Reduced, StateTypeOK
  <2>4. pos' \in [Symbols -> Nat]
    BY <1>0, <1>2, <2>1, <2>3 DEF OrderTriggers, StateTypeOK
  <2>5. FillEvent(t, k) \in Event
    BY <2>1 DEF FillEvent, Event
  <2>6. ExchangeTypeOK'
    BY <1>0, <1>2, <2>5 DEF OrderTriggers, ExchangeTypeOK
  <2> QED
    BY <1>1, <1>2, <2>4, <2>6 DEF OrderTriggers
<1>3. ASSUME NEW t \in Trades, NEW k \in OrderKinds, OrderExpires(t, k), UNCHANGED <<mon, aged>>
      PROVE  IInv' /\ TableStep /\ CallRowsStay
  BY <1>0, <1>1, <1>3 DEF OrderExpires, ExchangeTypeOK, StateTypeOK
<1>4. ASSUME NEW m \in Symbols, ClosedOutside(m), UNCHANGED <<mon, aged>>
      PROVE  IInv' /\ TableStep /\ CallRowsStay
  <2>1. pos' \in [Symbols -> Nat] /\ resting' = resting /\ events' = events
    BY <1>0, <1>4 DEF ClosedOutside, StateTypeOK
  <2> QED
    BY <1>0, <1>1, <1>4, <2>1 DEF ClosedOutside, ExchangeTypeOK
<1>5. ASSUME NEW t \in Trades, TradeAges(t) PROVE IInv' /\ TableStep /\ CallRowsStay
  <2>1. /\ UNCHANGED stateVars /\ mon' = mon /\ events' = events
        /\ aged' = aged \cup {t}
    BY <1>5 DEF TradeAges
  <2>2. StateKept /\ CallRowsStay /\ Existing' = Existing
    BY <2>1, StateUntouched
  <2>3. MonitorTypeOK' /\ MonitorExists'
    BY <1>0, <2>1, <2>2 DEF MonitorTypeOK, MonitorExists
  <2> QED
    BY <1>0, <2>1, <2>2, <2>3, IInvKept DEF StateKept
<1> QED
  BY <1>2, <1>3, <1>4, <1>5 DEF Market, ExchangeStep

LEMMA OperatorKeeps ==
    ASSUME IInv, Operator
    PROVE  IInv' /\ TableStep /\ CallRowsStay
<1>0. /\ StateTypeOK /\ ClosingTypeOK /\ ControlTypeOK
      /\ UNCHANGED <<ex, events, ws, monitorVars>>
  BY DEF IInv, TypeOK, Operator, monitorVars
<1>1. ASSUME UNCHANGED <<stateVars, controlVars>>, ClosingTypeOK', CloserExists'
      PROVE  IInv' /\ TableStep /\ CallRowsStay
  <2>1. StateKept /\ CallRowsStay
    BY <1>1, StateUntouched
  <2> QED
    BY <1>0, <1>1, <2>1, IInvKept DEF StateKept
<1>2. ASSUME NEW t \in Trades, RequestClose(t), UNCHANGED controlVars
      PROVE  IInv' /\ TableStep /\ CallRowsStay
  <2>1. /\ UNCHANGED stateVars
        /\ t \in Existing
    BY <1>2 DEF RequestClose, Existing
  <2>2. Existing' = Existing
    BY <2>1, StateUntouched
  <2>3. {o \in {t} \X Kinds : rows[t][o[2]] = "open"} \subseteq Trades \X Kinds
    OBVIOUS
  <2>4. ClosingTypeOK' /\ CloserExists'
    BY <1>2, <2>1, <2>2, <2>3
       DEF RequestClose, NoRequest, ClosingTypeOK, CloserExists, CloserHolds
  <2> QED
    BY <1>1, <1>2, <2>1, <2>4
<1>3. ASSUME RequestReconcile, UNCHANGED controlVars PROVE IInv' /\ TableStep /\ CallRowsStay
  <2>1. UNCHANGED stateVars
    BY <1>3 DEF RequestReconcile
  <2>2. ClosingTypeOK' /\ CloserExists'
    BY <1>3, <2>1 DEF RequestReconcile, NoRequest, ClosingTypeOK, CloserExists, CloserHolds
  <2> QED
    BY <1>1, <1>3, <2>1, <2>2
<1>4. ASSUME ControlStep, closer' = closer PROVE IInv' /\ TableStep /\ CallRowsStay
  <2>1. ControlOnly /\ ControlTypeOK'
    BY <1>0, <1>4, ControlSteps
  <2>2. StateKept /\ CallRowsStay
    BY <1>0, <2>1, TablesUntouched DEF ControlOnly, StateTypeOK
  <2> QED
    BY <1>0, <1>4, <2>1, <2>2, IInvKept DEF StateKept
<1> QED
  BY <1>2, <1>3, <1>4 DEF Operator

LEMMA ClosingKeeps ==
    ASSUME IInv, Closing
    PROVE  IInv' /\ TableStep /\ CallRowsStay
<1>0. /\ StateTypeOK /\ ClosingTypeOK /\ CloserExists /\ RowsExist
      /\ Existing \subseteq Trades
      /\ UNCHANGED <<ex, events, ws, monitorVars, controlVars>>
      /\ ClosingStep
      /\ "manually_closed" \in Over
  BY DEF IInv, TypeOK, Closing, monitorVars, Existing, Over, TradeStatus
<1>1. /\ closer \in [pc : {"idle", "cancel", "rows", "close", "record", "readDb", "reconcile"},
                     trade : Trades \cup {None}, seen : SUBSET (Trades \X Kinds),
                     todo : SUBSET Trades, positions : SUBSET Symbols]
      /\ closer.todo \subseteq Existing
      /\ closer.pc \in CloserHolds => closer.trade \in Existing
  BY <1>0 DEF ClosingTypeOK, CloserExists
<1>2. ASSUME StateKept, CallRowsStay, ClosingTypeOK', CloserExists'
      PROVE  IInv' /\ TableStep /\ CallRowsStay
  BY <1>0, <1>2, IInvKept DEF StateKept
<1>3. ASSUME NEW pc \in CloserHolds, closer.pc \in CloserHolds, CloserGoto(pc),
             Existing \subseteq Existing'
      PROVE  ClosingTypeOK' /\ CloserExists'
  BY <1>1, <1>3 DEF CloserGoto, ClosingTypeOK, CloserExists, CloserHolds
<1>4. ASSUME closer' = NoRequest PROVE ClosingTypeOK' /\ CloserExists'
  BY <1>4 DEF NoRequest, ClosingTypeOK, CloserExists, CloserHolds
<1>5. CASE CloseCancels
  <2>1. /\ closer.pc \in CloserHolds /\ CloserGoto("rows") /\ "rows" \in CloserHolds
        /\ resting' \subseteq resting
        /\ UNCHANGED <<trade, rows, settings, sig, expired, pos>>
    BY <1>5 DEF CloseCancels, CloserAt, CloserHolds, dbVars
  <2>2. StateKept /\ CallRowsStay /\ Existing' = Existing
    BY <1>0, <2>1, TablesUntouched DEF StateTypeOK
  <2> QED
    BY <1>2, <1>3, <2>1, <2>2
<1>6. CASE CloseRows
  <2>1. /\ closer.pc \in CloserHolds /\ CloserGoto("close") /\ "close" \in CloserHolds
        /\ rows' = RowsFrom(closer.trade, "cancelled")
        /\ UNCHANGED <<trade, settings, sig, expired, pos, resting>>
    BY <1>6 DEF CloseRows, CloserAt, CloserHolds, exchangeVars, RowsFrom
  <2>2. /\ rows' \in [Trades -> [Kinds -> RowStatus]]
        /\ \A u \in Trades, k \in Kinds : rows'[u][k] # "none" =>
             rows[u][k] # "none" \/ u \in Existing
    BY <1>0, <1>1, <2>1, RowsFromTyped DEF RowStatus
  <2>3. StateKept /\ CallRowsStay /\ Existing' = Existing
    BY <1>0, <2>1, <2>2 DEF StateKept, StateTypeOK, RowsFollow, CallRowsStay, TableStep,
                            Existing
  <2> QED
    BY <1>2, <1>3, <2>1, <2>3
<1>7. CASE CloseAtMarket
  <2>1. /\ closer.pc \in CloserHolds /\ "record" \in CloserHolds
        /\ UNCHANGED <<trade, rows, settings, sig, expired, resting>>
    BY <1>7 DEF CloseAtMarket, CloserAt, CloserHolds, dbVars
  <2>2. trade[closer.trade].symbol \in Symbols /\ trade[closer.trade].qty \in Nat
    BY <1>0, <1>1, <2>1 DEF RowsExist, StateTypeOK, TradeRow
  <2>3. Reduced(pos[trade[closer.trade].symbol], trade[closer.trade].qty) \in Nat
    BY <1>0, <2>2 DEF Reduced, StateTypeOK
  <2>4. pos' \in [Symbols -> Nat]
    BY <1>0, <1>7, <2>2, <2>3 DEF CloseAtMarket, StateTypeOK
  <2>5. StateKept /\ CallRowsStay /\ Existing' = Existing
    BY <1>0, <2>1, <2>4, TablesUntouched DEF StateTypeOK
  <2>6. CloserGoto("record") \/ closer' = NoRequest
    BY <1>7 DEF CloseAtMarket
  <2> QED
    BY <1>2, <1>3, <1>4, <2>1, <2>5, <2>6
<1>8. ASSUME NEW t \in Existing, trade' = [trade EXCEPT ![t].status = "manually_closed"],
             UNCHANGED <<settings, sig, expired, rows, pos, resting>>
      PROVE  StateKept /\ CallRowsStay /\ Existing' = Existing
  <2>1. TableStep
    BY <1>0, <1>8 DEF TableStep, Closes
  <2>2. trade' \in [Trades -> TradeRow] /\ Existing \subseteq Existing'
    BY <1>0, <2>1, TradesStay
  <2>3. Existing' \subseteq Existing
    BY <1>0, <1>8 DEF Existing, StateTypeOK
  <2> QED
    BY <1>0, <1>8, <2>1, <2>2, <2>3 DEF StateKept, StateTypeOK, RowsFollow, CallRowsStay
<1>9. CASE RecordClose
  <2>1. /\ closer.pc \in CloserHolds /\ closer' = NoRequest
        /\ trade' = [trade EXCEPT ![closer.trade].status = "manually_closed"]
        /\ UNCHANGED <<settings, sig, expired, rows, pos, resting>>
    BY <1>9 DEF RecordClose, CloserAt, CloserHolds, exchangeVars
  <2> QED
    BY <1>1, <1>2, <1>4, <1>8, <2>1
<1>10. CASE ReconcileReads
  <2>1. /\ UNCHANGED stateVars
        /\ {t \in LiveTrades : trade[t].symbol \notin closer.positions} \subseteq Existing
    BY <1>10 DEF ReconcileReads, LiveTrades, Existing
  <2>2. StateKept /\ CallRowsStay /\ Existing' = Existing
    BY <2>1, StateUntouched
  <2>3. ClosingTypeOK' /\ CloserExists'
    BY <1>0, <1>1, <1>10, <2>1, <2>2
       DEF ReconcileReads, ClosingTypeOK, CloserExists, CloserHolds
  <2> QED
    BY <1>2, <2>2, <2>3
<1>11. CASE ReconcileCloses
  <2>0. /\ UNCHANGED <<settings, sig, expired, rows, pos, resting>>
        /\ closer.pc \notin CloserHolds
    BY <1>11 DEF ReconcileCloses, CloserAt, CloserHolds, exchangeVars
  <2>1. ASSUME NEW t \in closer.todo,
               trade' = [trade EXCEPT ![t].status = "manually_closed"],
               closer' = [closer EXCEPT !.todo = @ \ {t}]
        PROVE  IInv' /\ TableStep /\ CallRowsStay
    <3>1. t \in Existing
      BY <1>1, <2>1
    <3>2. StateKept /\ CallRowsStay /\ Existing' = Existing
      BY <1>8, <2>0, <2>1, <3>1
    <3>3. ClosingTypeOK' /\ CloserExists'
      BY <1>1, <2>0, <2>1, <3>2 DEF ClosingTypeOK, CloserExists
    <3> QED
      BY <1>2, <3>2, <3>3
  <2>2. ASSUME closer' = NoRequest, UNCHANGED trade PROVE IInv' /\ TableStep /\ CallRowsStay
    <3>1. StateKept /\ CallRowsStay
      BY <1>0, <2>0, <2>2, TablesUntouched DEF StateTypeOK
    <3> QED
      BY <1>2, <1>4, <2>2, <3>1
  <2> QED
    BY <1>11, <2>1, <2>2 DEF ReconcileCloses
<1> QED
  BY <1>0, <1>5, <1>6, <1>7, <1>9, <1>10, <1>11 DEF ClosingStep

\* The process dies: whoever was at work is gone, the tables stay.
LEMMA RestartKeeps ==
    ASSUME IInv, Restart
    PROVE  IInv' /\ TableStep /\ CallRowsStay
<1>0. /\ ExecutionTypeOK /\ Claimed /\ CallsExist /\ MonitorTypeOK
      /\ UNCHANGED stateVars
      /\ ex' = [c \in Calls |-> IF InFlight(c) THEN [ex[c] EXCEPT !.pc = "dead"] ELSE ex[c]]
      /\ mon' = Idle /\ ws' = {} /\ closer' = NoRequest
      /\ stopping' = {} /\ patch' = NoPatch /\ events' = {} /\ aged' = aged
  BY DEF IInv, TypeOK, Restart, Crash, CallsDie
<1>1. StateKept /\ CallRowsStay /\ Existing' = Existing
  BY <1>0, StateUntouched
<1>2. ExecutionTypeOK' /\ Claimed' /\ CallsExist'
  <2>1. "dead" \in Pcs \ (Unopened \cup Opened)
    BY DEF Pcs, Unopened, Opened, Stopless, StopRecorded, Checking
  <2>2. ExecutionTypeOK'
    BY <1>0, <2>1 DEF ExecutionTypeOK
  <2>3. \A c \in Calls : \/ ex'[c] = ex[c]
                         \/ /\ ex'[c].pc = "dead"
                            /\ ex'[c].signal = ex[c].signal
                            /\ ex[c].pc # "ready"
    BY <1>0 DEF ExecutionTypeOK, InFlight
  <2> QED
    BY <1>0, <1>1, <2>1, <2>2, <2>3 DEF Claimed, CallsExist
<1>3. ExchangeTypeOK' /\ ControlTypeOK'
  BY <1>0 DEF ExchangeTypeOK, ControlTypeOK
<1>4. MonitorTypeOK' /\ MonitorExists'
  <2>1. "idle" \in MonitorFree
    BY DEF MonitorFree, MonitorPcs, MonitorHolds
  <2> QED
    BY <1>0, <2>1, StageTyped
<1>5. StreamTypeOK' /\ HandlersExist'
  BY <1>0 DEF StreamTypeOK, HandlersExist
<1>6. ClosingTypeOK' /\ CloserExists'
  BY <1>0 DEF NoRequest, ClosingTypeOK, CloserExists, CloserHolds
<1> QED
  BY <1>1, <1>2, <1>3, <1>4, <1>5, <1>6, IInvKept DEF StateKept

-----------------------------------------------------------------------------
LEMMA InitIInv == Init => IInv
<1> SUFFICES ASSUME Init PROVE IInv
  OBVIOUS
<1> USE DEF Init, StateInit, AccountInit
<1>1. StateTypeOK
  BY DEF StateTypeOK, Settings, SignalStatus, TradeRow, TradeStatus, NoTrade, RowStatus
<1>2. ExecutionTypeOK /\ Claimed /\ ExchangeTypeOK /\ ControlTypeOK
  BY DEF ExecutionInit, ExecutionTypeOK, Claimed, Pcs, SignalStatus, ExchangeInit,
         ExchangeTypeOK, ControlInit, ControlTypeOK
<1>3. Existing = {}
  BY DEF Existing, NoTrade
<1>4. MonitorTypeOK /\ MonitorExists
  <2>1. mon = Idle /\ aged = {}
    BY DEF MonitorInit
  <2>2. mon.pc \notin MonitorHolds /\ mon.pc # "awaiting" /\ mon.todo = {}
    BY <2>1, IdleTyped DEF MonitorHolds
  <2> QED
    BY <2>1, <2>2, IdleTyped DEF MonitorTypeOK, MonitorExists
<1>5. StreamTypeOK /\ HandlersExist
  BY DEF StreamInit, StreamTypeOK, HandlersExist
<1>6. ClosingTypeOK /\ CloserExists
  BY DEF ClosingInit, NoRequest, ClosingTypeOK, CloserExists, CloserHolds
<1>7. RowsExist /\ CallsExist
  BY <1>3 DEF RowsExist, CallsExist, ExecutionInit, Opened, Stopless, StopRecorded
<1> QED
  BY <1>1, <1>2, <1>4, <1>5, <1>6, <1>7 DEF IInv, TypeOK

LEMMA NextIInv == IInv /\ [Next]_vars => IInv' /\ TableStep
<1> SUFFICES ASSUME IInv, [Next]_vars PROVE IInv' /\ TableStep
  OBVIOUS
<1>1. ASSUME NEW c \in Calls, Call(c) \/ Ask(c) PROVE IInv' /\ TableStep
  BY <1>1, CallKeeps, AskKeeps
<1>2. CASE Monitor \/ Stream \/ Market \/ Operator \/ Closing \/ Restart
  BY <1>2, MonitorKeepsIInv, StreamKeeps, MarketKeeps, OperatorKeeps, ClosingKeeps,
     RestartKeeps
<1>3. CASE UNCHANGED vars
  <2>1. UNCHANGED <<stateVars, ex, events, ws, closer, controlVars, monitorVars>>
    BY <1>3 DEF vars, monitorVars
  <2>2. StateKept /\ CallRowsStay
    BY <2>1, StateUntouched
  <2> QED
    BY <2>1, <2>2, IInvKept DEF StateKept
<1> QED
  BY <1>1, <1>2, <1>3 DEF Next

\* Only a step of a call makes a row of a call appear.
LEMMA OnlyCallsCreate ==
    ASSUME IInv, [Next]_vars, \A c \in Calls : ~Call(c)
    PROVE  CallRowsStay
<1>1. CASE UNCHANGED vars
  BY <1>1, StateUntouched DEF vars
<1> QED
  BY <1>1, AskKeeps, MonitorKeepsIInv, StreamKeeps, MarketKeeps, OperatorKeeps,
     ClosingKeeps, RestartKeeps DEF Next

\* The invariant of the composed bot: whoever works on a trade works on one
\* that was opened.
THEOREM Invariance == Spec => []IInv
BY InitIInv, NextIInv, PTL DEF Spec

\* Every variable keeps its type, whatever the components do to it together.
THEOREM TypeCorrect == Spec => []TypeOK
<1>1. IInv => TypeOK
  BY DEF IInv
<1> QED
  BY <1>1, Invariance, PTL

-----------------------------------------------------------------------------
\* A step of the bot is a step of the ledger or leaves it alone.
LEMMA LedgerStep == IInv /\ [Next]_vars => [Ledger!Next]_(Ledger!vars)
<1> SUFFICES ASSUME IInv, [Next]_vars PROVE [Ledger!Next]_(Ledger!vars)
  OBVIOUS
<1> DEFINE phase == [t \in Trades |-> Phase(trade[t].status)]
           market == [t \in Trades |-> trade[t].symbol]
<1>0. trade \in [Trades -> TradeRow]
  BY DEF IInv, TypeOK, StateTypeOK
<1>1. CASE trade' = trade
  BY <1>1 DEF Ledger!vars
<1>2. ASSUME NEW t \in Trades, NEW m \in Symbols, Opens(t, m)
      PROVE  [Ledger!Next]_(Ledger!vars)
  <2>1. PICK row \in TradeRow : /\ row.status = "live_open" /\ row.symbol = m
                                /\ trade' = [trade EXCEPT ![t] = row]
    BY <1>2 DEF Opens
  <2>2. phase[t] = "unopened"
    BY <1>2 DEF Opens, Phase
  <2>3. \A u \in Trades : phase[u] = "open" => market[u] # m
    BY <1>2 DEF Opens, IndexAllows, LiveTradesOf, LiveTrades, Phase
  <2>4. phase' = [phase EXCEPT ![t] = "open"]
    BY <1>0, <2>1 DEF Phase
  <2>5. market' = [market EXCEPT ![t] = m]
    BY <1>0, <2>1
  <2>6. Ledger!Open(t, m)
    BY <2>2, <2>3, <2>4, <2>5 DEF Ledger!Open
  <2> QED
    BY <2>6 DEF Ledger!Next
<1>3. ASSUME NEW t \in Existing, NEW status \in Over,
             trade' = [trade EXCEPT ![t].status = status]
      PROVE  [Ledger!Next]_(Ledger!vars)
  <2>0. t \in Trades /\ trade[t].status # "none"
    BY DEF Existing
  <2>1. Phase(status) = "closed"
    BY DEF Over, Phase
  <2>2. phase' = [phase EXCEPT ![t] = "closed"]
    BY <1>0, <1>3, <2>0, <2>1 DEF TradeRow
  <2>3. market' = market
    BY <1>0, <1>3, <2>0 DEF TradeRow
  <2>4. CASE phase[t] = "open"
    <3>1. Ledger!Close(t)
      BY <2>2, <2>3, <2>4 DEF Ledger!Close
    <3> QED
      BY <2>0, <3>1 DEF Ledger!Next
  <2>5. CASE phase[t] # "open"
    <3>1. phase[t] = "closed"
      BY <2>0, <2>5 DEF Phase
    <3>2. phase' = phase
      BY <2>0, <2>2, <3>1
    <3> QED
      BY <2>3, <3>2 DEF Ledger!vars
  <2> QED
    BY <2>4, <2>5
<1> QED
  BY <1>1, <1>2, <1>3, NextIInv DEF TableStep, Closes

\* However calls, the monitor, the stream and the operator interleave, fail and
\* restart, the Trade table implements the ledger: a row is opened once, in a
\* symbol nobody holds, and a closed trade is never reopened.
THEOREM LedgerImplemented == Spec => ImplementsLedger
<1>1. Init => Ledger!Init
  BY DEF Init, StateInit, AccountInit, NoTrade, Phase, Ledger!Init
<1> QED
  BY <1>1, Invariance, LedgerStep, PTL DEF Spec, ImplementsLedger, Ledger!Spec

-----------------------------------------------------------------------------
(* Who can replace a verdict.  The monitor and the stream close a trade     *)
(* under a guard; three writers have none.                                 *)

Verdict == {"take_profit", "stopped", "time_stop"}

\* The call that opened the trade gives it up, the operator's close records
\* its result, forceReconcileOpenTrades closes what it has on its list.
Overwrites(t) ==
    \/ t \in Calls /\ FailTrade(t)
    \/ RecordClose /\ closer.trade = t
    \/ ReconcileCloses /\ t \in closer.todo

VerdictStays(t) ==
    trade[t].status \in Verdict => trade'[t].status = trade[t].status

\* updateMany where the status is 'live_open' leaves a closed trade alone.
LEMMA GuardedClose ==
    ASSUME StateTypeOK, NEW u \in Trades, NEW status, trade' = TradeClosedAs(u, status)
    PROVE  \A t \in Trades : VerdictStays(t)
BY DEF VerdictStays, Verdict, TradeClosedAs, StateTypeOK

\* A row that is created had no status before.
LEMMA CreationSparesVerdicts ==
    ASSUME StateTypeOK, NEW u \in Trades, trade[u].status = "none", NEW row,
           trade' = [trade EXCEPT ![u] = row]
    PROVE  \A t \in Trades : VerdictStays(t)
BY DEF VerdictStays, Verdict, StateTypeOK

LEMMA CallSparesVerdicts ==
    ASSUME NEW c \in Calls, CallTyped, CallsExist, CallStep(c)
    PROVE  \A t \in Trades : VerdictStays(t) \/ Overwrites(t)
<1>0. StateTypeOK /\ ExecutionTypeOK /\ c \in Trades
  BY DEF CallTyped, Trades
<1>1. CASE trade' = trade
  BY <1>1 DEF VerdictStays
<1>2. CASE CheckStep(c)
  BY <1>0, <1>1, <1>2, ChecksTouchOnlySignals
<1>3. CASE CreateTrade(c)
  <2>1. trade[c].status = "none"
    BY <1>0, <1>3 DEF CreateTrade, At, CallsExist, Unopened, Existing
  <2>2. \/ trade' = trade
        \/ trade' = [trade EXCEPT ![c] =
                        [status |-> "live_open", symbol |-> SymbolAt(c),
                         qty |-> LotsAt(c), signal |-> ex[c].signal]]
    BY <1>3 DEF CreateTrade
  <2> QED
    BY <1>0, <1>1, <2>1, <2>2, CreationSparesVerdicts
<1>4. CASE FailTrade(c)
  <2>1. \A t \in Trades \ {c} : VerdictStays(t)
    BY <1>0, <1>4 DEF FailTrade, VerdictStays, StateTypeOK
  <2> QED
    BY <1>4, <2>1 DEF Overwrites
<1>5. ASSUME CallStep(c), ~CheckStep(c), ~CreateTrade(c), ~FailTrade(c)
      PROVE  trade' = trade
  BY <1>5
     DEF CallStep, TradeStep, SetLeverage, PlaceEntry, PlaceStop1, FetchMarkForStop,
         PlaceStop2, PlaceStop3, EmergencyClose, FailSignal, RecordStop, PlaceTp1,
         RecordTp1, PlaceTp2, RecordTp2, MarkExecuted, PlaceConditional, RecordOrder,
         stateVars, dbVars, exchangeVars
<1> QED
  BY <1>1, <1>2, <1>3, <1>4, <1>5

LEMMA MonitorSparesVerdicts ==
    ASSUME IInv, MonitorStep
    PROVE  \A t \in Trades : VerdictStays(t)
<1>0. /\ StateTypeOK /\ mon.todo \subseteq Trades
      /\ mon.pc \in MonitorHolds => mon.cur \in Trades
  BY DEF IInv, TypeOK, MonitorExists, Existing
<1>1. CASE trade' = trade
  BY <1>1 DEF VerdictStays
<1>2. CASE RecordAged
  <2>1. mon.cur \in Trades /\ trade' = TradeClosedAs(mon.cur, "time_stop")
    BY <1>0, <1>2 DEF RecordAged, MonAt, MonitorHolds
  <2> QED
    BY <1>0, <2>1, GuardedClose
<1>3. CASE FinalizeTrade
  <2>1. \/ trade' = trade
        \/ \E t \in mon.todo, status \in FinalStatus : trade' = TradeClosedAs(t, status)
    BY <1>3 DEF FinalizeTrade
  <2> QED
    BY <1>0, <1>1, <2>1, GuardedClose
<1>4. CASE ImportOrphan
  <2>1. \/ trade' = trade
        \/ \E i \in UnusedImports, row \in {[status |-> "live_open", symbol |-> m,
                     qty |-> mon.positions[m], signal |-> None] : m \in mon.orphans} :
             trade' = [trade EXCEPT ![i] = row]
    BY <1>4 DEF ImportOrphan
  <2>2. \A i \in UnusedImports : i \in Trades /\ trade[i].status = "none"
    BY DEF UnusedImports, Trades
  <2> QED
    BY <1>0, <1>1, <2>1, <2>2, CreationSparesVerdicts
<1>5. ASSUME ~RecordAged, ~FinalizeTrade, ~ImportOrphan PROVE trade' = trade
  BY <1>5
     DEF MonitorStep, StartTick, NextTimeout, CancelAgedOrders, CancelAgedRows, CloseAged,
         FetchPositions, ReadDb, FinalizeRows, StartTrail, MoveStop, CancelStopRow,
         PlaceBreakeven, RecordBreakeven, ExpireSignals, ReadRefill, ClaimCandidate,
         AwaitCall, ReadFlow, AwaitScan, Claim, stateVars, exchangeVars
<1> QED
  BY <1>1, <1>2, <1>3, <1>4, <1>5

LEMMA ClosingSparesVerdicts ==
    ASSUME StateTypeOK, ClosingStep
    PROVE  \A t \in Trades : VerdictStays(t) \/ Overwrites(t)
<1>1. CASE trade' = trade
  BY <1>1 DEF VerdictStays
<1>2. CASE RecordClose
  BY <1>2 DEF RecordClose, VerdictStays, Overwrites, StateTypeOK
<1>3. CASE ReconcileCloses
  <2>1. ASSUME NEW u \in closer.todo,
               trade' = [trade EXCEPT ![u].status = "manually_closed"]
        PROVE  \A t \in Trades : VerdictStays(t) \/ Overwrites(t)
    BY <1>3, <2>1 DEF VerdictStays, Overwrites, StateTypeOK
  <2> QED
    BY <1>1, <1>3, <2>1 DEF ReconcileCloses
<1>4. ASSUME ~RecordClose, ~ReconcileCloses PROVE trade' = trade
  BY <1>4 DEF ClosingStep, CloseCancels, CloseRows, CloseAtMarket, ReconcileReads,
              stateVars, dbVars, exchangeVars
<1> QED
  BY <1>1, <1>2, <1>3, <1>4

LEMMA VerdictStep ==
    ASSUME IInv, [Next]_vars
    PROVE  \A t \in Trades : VerdictStays(t) \/ Overwrites(t)
<1>0. StateTypeOK /\ CallTyped /\ CallsExist
  BY DEF IInv, TypeOK, CallTyped
<1>1. CASE trade' = trade
  BY <1>1 DEF VerdictStays
<1>2. ASSUME NEW c \in Calls, Call(c) PROVE \A t \in Trades : VerdictStays(t) \/ Overwrites(t)
  BY <1>0, <1>2, CallSparesVerdicts DEF Call
<1>3. ASSUME NEW c \in Calls, Ask(c) PROVE trade' = trade
  BY <1>3 DEF Ask, Claim
<1>4. CASE Monitor
  BY <1>4, MonitorSparesVerdicts DEF Monitor
<1>5. CASE Stream
  <2>1. \/ trade' = trade
        \/ \E h \in ws, status \in FinalStatus : trade' = TradeClosedAs(h.trade, status)
    BY <1>5 DEF Stream, StreamStep, ReceiveFill, ConfirmFlat, FinalizeFilled, FilledRows
  <2>2. \A h \in ws : h.trade \in Trades
    BY DEF IInv, HandlersExist, Existing
  <2> QED
    BY <1>0, <1>1, <2>1, <2>2, GuardedClose
<1>6. CASE Market
  <2>1. trade' = trade
    BY <1>6 DEF Market, ExchangeStep, OrderTriggers, OrderExpires, ClosedOutside,
                TradeAges, stateVars, dbVars
  <2> QED
    BY <1>1, <2>1
<1>7. CASE Operator
  <2>1. ControlStep /\ UNCHANGED ex => trade' = trade
    BY <1>0, ControlSteps DEF IInv, TypeOK, ControlOnly
  <2>2. trade' = trade
    BY <1>7, <2>1 DEF Operator, RequestClose, RequestReconcile, stateVars
  <2> QED
    BY <1>1, <2>2
<1>8. CASE Closing
  BY <1>0, <1>8, ClosingSparesVerdicts DEF Closing
<1>9. CASE Restart \/ UNCHANGED vars
  <2>1. trade' = trade
    BY <1>9 DEF Restart, Crash, stateVars, vars
  <2> QED
    BY <1>1, <2>1
<1> QED
  BY <1>1, <1>2, <1>3, <1>4, <1>5, <1>6, <1>7, <1>8, <1>9 DEF Next

\* However the bot's components race, the verdict on a closed trade is only
\* ever replaced by a call that could not place its stop, by the operator's
\* close and by a forced reconciliation: the three writers without a guard.
THEOREM OnlyThreeOverwrite ==
    Spec => [][\A t \in Trades : VerdictStays(t) \/ Overwrites(t)]_vars
BY Invariance, VerdictStep, PTL DEF Spec

\* No request to close is in progress.
NobodyCloses == closer.pc = "idle"

LEMMA NobodyStarts ==
    ASSUME {"closeLive", "reconcile"} \cap Requests = {}, NobodyCloses, [Next]_vars
    PROVE  NobodyCloses'
<1>1. CASE Closing
  BY <1>1 DEF Closing, ClosingStep, CloseCancels, CloseRows, CloseAtMarket, RecordClose,
              ReconcileReads, ReconcileCloses, CloserAt, NobodyCloses
<1>2. CASE Restart
  BY <1>2 DEF Restart, NobodyCloses, NoRequest
<1>3. CASE ~Closing /\ ~Restart
  <2>1. closer' = closer
    BY <1>3 DEF Next, Call, Ask, Monitor, Stream, Market, Operator, Asked, vars
  <2> QED
    BY <2>1 DEF NobodyCloses
<1> QED
  BY <1>1, <1>2, <1>3

\* "safe to call twice for the same trade": where the operator leaves the closing
\* to the bot, the stream, the monitor's poll and the holding limit cannot
\* replace each other's verdicts; only the call itself can, giving up a trade
\* none of whose stops was answered.
THEOREM FirstVerdict ==
    ASSUME {"closeLive", "reconcile"} \cap Requests = {}
    PROVE  Spec => FirstVerdictStands
<1>1. Init => NobodyCloses
  BY DEF Init, ClosingInit, NoRequest, NobodyCloses
<1>2. NobodyCloses /\ [Next]_vars => NobodyCloses'
  BY NobodyStarts
<1>3. IInv /\ NobodyCloses /\ [Next]_vars =>
        \A t \in Trades :
            trade[t].status \in {"take_profit", "stopped", "time_stop"}
                => \/ trade'[t].status = trade[t].status
                   \/ t \in Calls /\ FailTrade(t)
  <2> SUFFICES ASSUME IInv, NobodyCloses, [Next]_vars, NEW t \in Trades
               PROVE  VerdictStays(t) \/ (t \in Calls /\ FailTrade(t))
    BY DEF VerdictStays, Verdict
  <2>1. Overwrites(t) => t \in Calls /\ FailTrade(t)
    BY DEF Overwrites, NobodyCloses, RecordClose, ReconcileCloses, CloserAt
  <2> QED
    BY <2>1, VerdictStep
<1> QED
  BY <1>1, <1>2, <1>3, Invariance, PTL DEF Spec, FirstVerdictStands

-----------------------------------------------------------------------------
(* Protection over the whole life of a position.  Whoever takes a stop     *)
(* away (the holding limit, the move to breakeven, the operator's close)   *)
(* is at work on the position until it is closed or has its stop again.    *)
(* The cases in which the code breaks this have to be absent.              *)

\* No position is imported while its call has yet to create its trade, no
\* entry loses its answer, no close fails, no signal is deleted under a call,
\* the process lives, and a stop taken away for breakeven is known to be gone
\* and can be placed again.
NothingAmiss ==
    /\ Imports = {}
    /\ {"entryTimeout", "close"} \cap Faults = {}
    /\ "cleanup" \notin Requests
    /\ ~CrashAllowed
    /\ {"stop", "cancelTimeout"} \cap Faults = {} \/ "tp1" \notin Moves

\* An entry meets no position that a trade taken for closed left behind.
EntersFlat == \A c \in Calls : ex[c].pc = "entry" => pos[SymbolAt(c)] = 0

\* The call has created its trade and still looks after the position.
Keeping == Guarding \ {"create"}

\* A stop of the trade rests, or somebody is about to place one or to close.
HasStop(t) == {<<t, "sl">>, <<t, "be">>} \cap resting # {}
CallKeepsIt(t) == t \in Calls /\ ex[t].pc \in Keeping
MonitorKeepsIt(t) ==
    mon.cur = t /\ mon.pc \in {"beRow", "bePlace", "cancelRows", "closeAged"}
CloserKeepsIt(t) == closer.trade = t /\ closer.pc \in {"rows", "close"}

InHand(t) == HasStop(t) \/ MonitorKeepsIt(t) \/ CloserKeepsIt(t)
Kept(t) == CallKeepsIt(t) \/ InHand(t)

\* The position of m is no larger than what the call filled or the trade holds.
Fills(c, m) == ex[c].pc = "create" /\ SymbolAt(c) = m /\ pos[m] <= LotsAt(c)
Answers(t, m) == trade[t].symbol = m /\ pos[m] <= trade[t].qty
Held(m) ==
    \/ pos[m] = 0
    \/ \E c \in Calls : Fills(c, m)
    \/ \E t \in Existing : Answers(t, m) /\ Kept(t)

\* The row of a call at work on its trade says what it filled.
CallsBooked ==
    \A c \in Calls : ex[c].pc \in Opened => /\ trade[c].symbol = SymbolAt(c)
                                            /\ trade[c].qty = LotsAt(c)

\* A close takes away the orders of its own trade only.
OwnOrders == closer.seen \subseteq {closer.trade} \X Kinds

\* Stops are only moved once TP1 has been reached.
MovesAtTp1 == mon.pc \in {"beRow", "bePlace", "beRecord"} => "tp1" \in Moves

HInv ==
    /\ NobodyLost /\ EntersAlone /\ CallsBooked /\ OwnOrders /\ MovesAtTp1
    /\ \A m \in Symbols : Held(m)

-----------------------------------------------------------------------------
\* The table after a step: the rows that were there stay, and none is opened
\* but by trade.create.
RowsStand ==
    \A t \in Existing : /\ t \in Existing'
                        /\ trade'[t].symbol = trade[t].symbol
                        /\ trade'[t].qty = trade[t].qty

NothingOpens == \A m : LiveTradesOf(m)' \subseteq LiveTradesOf(m)

LEMMA RowsStandStill == IInv /\ [Next]_vars => RowsStand
BY NextIInv, TradesStay DEF IInv, TypeOK, RowsStand

LEMMA NothingOpensElsewhere ==
    ASSUME Imports = {}, IInv, [Next]_vars, \A c \in Calls : ~Call(c)
    PROVE  NothingOpens
<1>1. TableStep /\ RowsStand
  BY NextIInv, RowsStandStill
<1>2. CallRowsStay
  BY OnlyCallsCreate
<1>3. Trades = Calls /\ trade \in [Trades -> TradeRow]
  BY DEF Trades, IInv, TypeOK, StateTypeOK
<1>4. ASSUME NEW t \in Trades, trade'[t].status = "live_open"
      PROVE  trade[t].status = "live_open" /\ trade'[t].symbol = trade[t].symbol
  <2>1. t \in Existing
    BY <1>2, <1>3, <1>4 DEF CallRowsStay, Existing
  <2>2. CASE trade' = trade
    BY <1>4, <2>2
  <2>3. ASSUME NEW u \in Trades, NEW m, Opens(u, m) PROVE u = t => FALSE
    BY <2>1, <2>3 DEF Opens, Existing
  <2>4. ASSUME NEW u \in Trades, NEW m, Opens(u, m) PROVE trade[t].status = "live_open"
    BY <1>3, <1>4, <2>3, <2>4 DEF Opens
  <2>5. ASSUME NEW u \in Existing, Closes(u) PROVE trade[t].status = "live_open"
    BY <1>3, <1>4, <2>5 DEF Closes, Over, Existing
  <2>6. trade[t].status = "live_open"
    BY <1>1, <1>4, <2>2, <2>4, <2>5 DEF TableStep
  <2> QED
    BY <1>1, <2>1, <2>6 DEF RowsStand
<1> QED
  BY <1>4 DEF NothingOpens, LiveTradesOf, LiveTrades

\* A position stays held when it does not grow, whoever has filled it goes on
\* to trade.create, and whoever keeps it goes on or has closed it.
LEMMA HeldStays ==
    ASSUME IInv, IInv', RowsStand, NEW m \in Symbols, Held(m), pos'[m] <= pos[m],
           \A c \in Calls : ex[c].pc = "create" =>
               ex'[c].pc = "create" /\ ex'[c].signal = ex[c].signal,
           \A t \in Existing : Answers(t, m) /\ Kept(t) => Kept(t)' \/ pos'[m] = 0
    PROVE  Held(m)'
<1>0. /\ pos[m] \in Nat /\ pos'[m] \in Nat
      /\ \A t \in Existing : trade[t].qty \in Nat
  BY DEF IInv, TypeOK, StateTypeOK, Existing, TradeRow
<1>1. CASE pos[m] = 0
  BY <1>0, <1>1 DEF Held
<1>2. ASSUME NEW c \in Calls, Fills(c, m) PROVE Held(m)'
  <2>1. LotsAt(c) \in Nat
    BY <1>2, ConstantsAssumption DEF Fills, IInv, Claimed, LotsAt
  <2>2. SymbolAt(c)' = SymbolAt(c) /\ LotsAt(c)' = LotsAt(c) /\ ex'[c].pc = "create"
    BY <1>2 DEF Fills, SymbolAt, LotsAt
  <2>3. Fills(c, m)'
    BY <1>0, <1>2, <2>1, <2>2 DEF Fills
  <2> QED
    BY <2>3 DEF Held
<1>3. ASSUME NEW t \in Existing, Answers(t, m), Kept(t) PROVE Held(m)'
  <2>1. Answers(t, m)' /\ t \in Existing'
    BY <1>0, <1>3 DEF RowsStand, Answers
  <2> QED
    BY <1>3, <2>1 DEF Held
<1> QED
  BY <1>1, <1>2, <1>3 DEF Held

-----------------------------------------------------------------------------
\* Outside the steps of calls, a call at most claims its signal.
CallsWait == ex' = ex \/ \E c \in Calls, s \in Signals : Claim(c, s)

LEMMA WaitingCalls ==
    ASSUME IInv, IInv', RowsStand, NothingOpens, CallsWait, EntersAlone, CallsBooked
    PROVE  /\ EntersAlone' /\ CallsBooked'
           /\ \A c \in Calls : ex[c].pc = "create" =>
                  ex'[c].pc = "create" /\ ex'[c].signal = ex[c].signal
           /\ \A t : CallKeepsIt(t) => CallKeepsIt(t)'
<1>0. CallTyped /\ \A c \in Calls : ex[c].pc \in Opened => c \in Existing
  BY DEF IInv, TypeOK, CallTyped, CallsExist
<1>1. \A c \in Calls : \/ ex'[c] = ex[c]
                       \/ ex[c].pc = "ready" /\ ex'[c].pc = "load"
  BY <1>0, ClaimMoves DEF CallsWait
<1>2. \A c \in Calls : ex'[c] = ex[c] =>
                          SymbolAt(c)' = SymbolAt(c) /\ LotsAt(c)' = LotsAt(c)
  BY DEF SymbolAt, LotsAt
<1>3. {"ready", "load"} \cap (Entering \cup Opened \cup Keeping \cup {"create"}) = {}
  BY DEF Entering, Opened, Stopless, StopRecorded, Keeping, Guarding
<1>4. EntersAlone'
  BY <1>1, <1>2, <1>3 DEF EntersAlone, NothingOpens
<1>5. CallsBooked'
  BY <1>0, <1>1, <1>2, <1>3 DEF CallsBooked, RowsStand
<1>6. \A t : CallKeepsIt(t) => CallKeepsIt(t)'
  BY <1>1, <1>3 DEF CallKeepsIt
<1> QED
  BY <1>1, <1>3, <1>4, <1>5, <1>6

\* What a step other than a call's has to show.
LEMMA HInvKept ==
    ASSUME NothingAmiss, IInv, HInv, [Next]_vars, \A c \in Calls : ~Call(c), CallsWait,
           NobodyLost', OwnOrders', MovesAtTp1',
           \A m \in Symbols : pos'[m] <= pos[m],
           \A t \in Existing : InHand(t) =>
               InHand(t)' \/ \A m \in Symbols : Answers(t, m) => pos'[m] = 0
    PROVE  HInv'
<1>1. IInv' /\ RowsStand
  BY NextIInv, RowsStandStill
<1>2. NothingOpens
  BY NothingOpensElsewhere DEF NothingAmiss
<1>3. /\ EntersAlone' /\ CallsBooked'
      /\ \A c \in Calls : ex[c].pc = "create" =>
             ex'[c].pc = "create" /\ ex'[c].signal = ex[c].signal
      /\ \A t : CallKeepsIt(t) => CallKeepsIt(t)'
  BY <1>1, <1>2, WaitingCalls DEF HInv
<1>4. ASSUME NEW m \in Symbols PROVE Held(m)'
  <2>1. \A t \in Existing : Answers(t, m) /\ Kept(t) => Kept(t)' \/ pos'[m] = 0
    BY <1>3 DEF Kept
  <2>2. Held(m)
    BY DEF HInv
  <2> QED
    BY <1>1, <1>3, <2>1, <2>2, HeldStays
<1> QED
  BY <1>3, <1>4 DEF HInv

-----------------------------------------------------------------------------
\* The market: what triggers was resting, and closes what its trade holds.
LEMMA MarketHolds ==
    ASSUME NothingAmiss, IInv, HInv, [Next]_vars, \A c \in Calls : ~Call(c), Market
    PROVE  HInv'
<1>0. /\ UNCHANGED <<ex, closer>> /\ mon' = mon /\ UNCHANGED <<trade, sig>>
      /\ NobodyLost /\ OwnOrders /\ MovesAtTp1
      /\ pos \in [Symbols -> Nat] /\ Existing \subseteq Trades
      /\ \A t \in Existing : trade[t].symbol \in Symbols /\ trade[t].qty \in Nat
  BY DEF Market, ExchangeStep, OrderTriggers, OrderExpires, ClosedOutside, TradeAges,
         stateVars, dbVars, HInv, IInv, TypeOK, StateTypeOK, RowsExist, Existing, TradeRow
<1>1. NobodyLost' /\ OwnOrders' /\ MovesAtTp1' /\ CallsWait
  BY <1>0 DEF NobodyLost, OwnOrders, MovesAtTp1, CallsWait
<1>2. ASSUME \A m \in Symbols : pos'[m] <= pos[m],
             \A t \in Existing : HasStop(t) =>
                 HasStop(t)' \/ \A m \in Symbols : Answers(t, m) => pos'[m] = 0
      PROVE  HInv'
  <2>1. \A t : /\ MonitorKeepsIt(t) => MonitorKeepsIt(t)'
               /\ CloserKeepsIt(t) => CloserKeepsIt(t)'
    BY <1>0 DEF MonitorKeepsIt, CloserKeepsIt
  <2> QED
    BY <1>1, <1>2, <2>1, HInvKept DEF InHand
<1>3. ASSUME NEW t \in Trades, NEW k \in OrderKinds, OrderTriggers(t, k) PROVE HInv'
  <2>1. /\ <<t, k>> \in resting /\ resting' = resting \ {<<t, k>>}
        /\ pos' = [pos EXCEPT ![trade[t].symbol] = Reduced(@, OrderQty(t, k))]
        /\ t \in Existing
    BY <1>3 DEF OrderTriggers, IInv, RowsExist
  <2>2. OrderQty(t, k) \in Nat /\ (k \in StopKinds => OrderQty(t, k) = trade[t].qty)
    BY <1>0, <2>1 DEF OrderQty, StopKinds, LostStops
  <2>3. \A m \in Symbols : pos'[m] <= pos[m]
    BY <1>0, <2>1, <2>2 DEF Reduced
  <2>4. ASSUME NEW u \in Existing, HasStop(u), ~HasStop(u)', NEW m \in Symbols, Answers(u, m)
        PROVE  pos'[m] = 0
    <3>1. u = t /\ k \in StopKinds
      BY <2>1, <2>4 DEF HasStop, StopKinds
    <3> QED
      BY <1>0, <2>1, <2>2, <2>4, <3>1 DEF Answers, Reduced
  <2> QED
    BY <1>2, <2>3, <2>4
<1>4. ASSUME NEW t \in Trades, NEW k \in OrderKinds, OrderExpires(t, k) PROVE HInv'
  <2>1. /\ pos[trade[t].symbol] = 0 /\ pos' = pos /\ resting' = resting \ {<<t, k>>}
    BY <1>4 DEF OrderExpires
  <2>2. ASSUME NEW u \in Existing, HasStop(u), ~HasStop(u)', NEW m \in Symbols, Answers(u, m)
        PROVE  pos'[m] = 0
    BY <2>1, <2>2 DEF HasStop, Answers
  <2> QED
    BY <1>0, <1>2, <2>1, <2>2
<1>5. ASSUME NEW m \in Symbols, ClosedOutside(m) PROVE HInv'
  BY <1>0, <1>2, <1>5 DEF ClosedOutside, HasStop
<1>6. ASSUME NEW t \in Trades, TradeAges(t) PROVE HInv'
  BY <1>0, <1>2, <1>6 DEF TradeAges, stateVars, HasStop
<1> QED
  BY <1>3, <1>4, <1>5, <1>6 DEF Market, ExchangeStep

\* The stream finalises rows and leaves positions and orders alone.
LEMMA StreamHolds ==
    ASSUME NothingAmiss, IInv, HInv, [Next]_vars, \A c \in Calls : ~Call(c), Stream
    PROVE  HInv'
<1>1. UNCHANGED <<sig, pos, resting, ex, mon, closer>>
  BY DEF Stream, StreamStep, ReceiveFill, ConfirmFlat, FinalizeFilled, FilledRows,
         streamUnchanged, monitorVars
<1>2. NobodyLost' /\ OwnOrders' /\ MovesAtTp1' /\ CallsWait
  BY <1>1 DEF HInv, NobodyLost, OwnOrders, MovesAtTp1, CallsWait
<1>3. \A m \in Symbols : pos'[m] <= pos[m]
  BY <1>1 DEF IInv, TypeOK, StateTypeOK
<1>4. \A t : InHand(t) => InHand(t)'
  BY <1>1 DEF InHand, HasStop, MonitorKeepsIt, CloserKeepsIt
<1> QED
  BY <1>2, <1>3, <1>4, HInvKept

\* So do the operator's requests when they arrive.
LEMMA OperatorHolds ==
    ASSUME NothingAmiss, IInv, HInv, [Next]_vars, \A c \in Calls : ~Call(c), Operator
    PROVE  HInv'
<1>0. StateTypeOK /\ ControlTypeOK /\ UNCHANGED <<ex, mon>>
  BY DEF IInv, TypeOK, Operator
<1>1. UNCHANGED <<pos, resting>> /\ NobodyLost'
  <2>1. CASE ControlStep
    BY <1>0, <2>1, ControlSteps, RequestsLoseNothing DEF ControlOnly, NothingAmiss, HInv
  <2>2. CASE UNCHANGED stateVars
    BY <1>0, <2>2 DEF stateVars, HInv, NobodyLost
  <2> QED
    BY <2>1, <2>2 DEF Operator, RequestClose, RequestReconcile
<1>2. \/ closer' = closer
      \/ closer.pc = "idle" /\ OwnOrders'
  <2>1. ASSUME NEW t \in Trades, RequestClose(t) PROVE closer.pc = "idle" /\ OwnOrders'
    <3>1. closer'.trade = t /\ closer'.seen = {o \in {t} \X Kinds : rows[t][o[2]] = "open"}
      BY <2>1 DEF RequestClose, NoRequest
    <3> QED
      BY <2>1, <3>1 DEF RequestClose, CloserAt, OwnOrders
  <2>2. ASSUME RequestReconcile PROVE closer.pc = "idle" /\ OwnOrders'
    BY <2>2 DEF RequestReconcile, CloserAt, NoRequest, OwnOrders
  <2> QED
    BY <2>1, <2>2 DEF Operator
<1>3. OwnOrders' /\ MovesAtTp1' /\ CallsWait
  BY <1>0, <1>2 DEF HInv, OwnOrders, MovesAtTp1, CallsWait
<1>4. \A m \in Symbols : pos'[m] <= pos[m]
  BY <1>0, <1>1 DEF StateTypeOK
<1>5. \A t : InHand(t) => InHand(t)'
  BY <1>0, <1>1, <1>2 DEF InHand, HasStop, MonitorKeepsIt, CloserKeepsIt
<1> QED
  BY <1>1, <1>3, <1>4, <1>5, HInvKept

\* The operator's close: it keeps the position from cancelling its stop to the
\* market order, which closes all of it.
LEMMA ClosingHolds ==
    ASSUME NothingAmiss, IInv, HInv, [Next]_vars, \A c \in Calls : ~Call(c), Closing
    PROVE  HInv'
<1>0. /\ UNCHANGED <<ex, mon, sig>> /\ ClosingStep
      /\ NobodyLost /\ OwnOrders /\ MovesAtTp1
      /\ pos \in [Symbols -> Nat]
      /\ \A t \in Existing : trade[t].symbol \in Symbols /\ trade[t].qty \in Nat
      /\ ClosingTypeOK /\ CloserExists /\ Existing \subseteq Trades
  BY DEF Closing, ClosingStep, CloseCancels, CloseRows, CloseAtMarket, RecordClose,
         ReconcileReads, ReconcileCloses, stateVars, dbVars, HInv, IInv, TypeOK,
         StateTypeOK, RowsExist, Existing, TradeRow
<1>1. NobodyLost' /\ MovesAtTp1' /\ CallsWait
  BY <1>0 DEF NobodyLost, MovesAtTp1, CallsWait
<1>2. ASSUME OwnOrders', \A m \in Symbols : pos'[m] <= pos[m],
             \A t \in Existing : HasStop(t) \/ CloserKeepsIt(t) =>
                 \/ HasStop(t)' \/ CloserKeepsIt(t)'
                 \/ \A m \in Symbols : Answers(t, m) => pos'[m] = 0
      PROVE  HInv'
  <2>1. \A t : MonitorKeepsIt(t) => MonitorKeepsIt(t)'
    BY <1>0 DEF MonitorKeepsIt
  <2> QED
    BY <1>1, <1>2, <2>1, HInvKept DEF InHand
<1>3. CASE CloseCancels
  <2>1. /\ closer.pc = "cancel" /\ closer' = [closer EXCEPT !.pc = "rows"]
        /\ pos' = pos
        /\ resting \subseteq resting' \cup closer.seen
    BY <1>3 DEF CloseCancels, CloserAt, CloserGoto
  <2>2. closer'.pc = "rows" /\ closer'.trade = closer.trade /\ closer'.seen = closer.seen
    BY <1>0, <2>1 DEF ClosingTypeOK
  <2>3. ASSUME NEW t \in Existing, HasStop(t) PROVE HasStop(t)' \/ CloserKeepsIt(t)'
    BY <1>0, <2>1, <2>2, <2>3 DEF HasStop, CloserKeepsIt, OwnOrders
  <2>4. \A t : ~CloserKeepsIt(t)
    BY <2>1 DEF CloserKeepsIt
  <2> QED
    BY <1>0, <1>2, <2>1, <2>2, <2>3, <2>4 DEF OwnOrders
<1>4. CASE CloseRows
  <2>1. /\ closer.pc = "rows" /\ closer' = [closer EXCEPT !.pc = "close"]
        /\ UNCHANGED <<pos, resting>>
    BY <1>4 DEF CloseRows, CloserAt, CloserGoto, exchangeVars
  <2>2. closer'.pc = "close" /\ closer'.trade = closer.trade /\ closer'.seen = closer.seen
    BY <1>0, <2>1 DEF ClosingTypeOK
  <2> QED
    BY <1>0, <1>2, <2>1, <2>2 DEF OwnOrders, HasStop, CloserKeepsIt
<1>5. CASE CloseAtMarket
  <2> DEFINE t == closer.trade
             m == trade[t].symbol
  <2>1. /\ closer.pc = "close" /\ t \in Existing /\ resting' = resting
        /\ closer' = NoRequest \/ closer' = [closer EXCEPT !.pc = "record"]
    BY <1>0, <1>5 DEF CloseAtMarket, CloserAt, CloserGoto, CloserExists, CloserHolds
  <2>2. \/ pos' = [pos EXCEPT ![m] = Reduced(@, trade[t].qty)]
        \/ /\ pos[m] = 0
           /\ pos' = pos
    BY <1>5 DEF CloseAtMarket, MayFail, NothingAmiss
  <2>3. OwnOrders'
    BY <1>0, <2>1 DEF OwnOrders, NoRequest, ClosingTypeOK
  <2> HIDE DEF t
  <2>4. m \in Symbols /\ trade[t].qty \in Nat
    BY <1>0, <2>1 DEF t
  <2>5. \A n \in Symbols : pos'[n] <= pos[n]
    BY <1>0, <2>2, <2>4 DEF Reduced
  <2>6. \A n \in Symbols : Answers(t, n) => pos'[n] = 0
    BY <1>0, <2>2, <2>4 DEF Reduced, Answers
  <2>7. \A u : CloserKeepsIt(u) => u = t
    BY DEF CloserKeepsIt, t
  <2>8. ASSUME NEW u \in Existing, HasStop(u) \/ CloserKeepsIt(u)
        PROVE  \/ HasStop(u)' \/ CloserKeepsIt(u)'
               \/ \A n \in Symbols : Answers(u, n) => pos'[n] = 0
    <3>1. CASE HasStop(u)
      BY <2>1, <3>1 DEF HasStop
    <3>2. CASE CloserKeepsIt(u)
      BY <2>6, <2>7, <3>2
    <3> QED
      BY <2>8, <3>1, <3>2
  <2> QED
    BY <1>2, <2>3, <2>5, <2>8
<1>6. CASE RecordClose \/ ReconcileReads \/ ReconcileCloses
  <2>1. UNCHANGED <<pos, resting>> /\ closer.pc \notin {"rows", "close"}
    BY <1>6 DEF RecordClose, ReconcileReads, ReconcileCloses, CloserAt, stateVars,
                exchangeVars
  <2>2. \/ closer' = NoRequest
        \/ closer'.trade = closer.trade /\ closer'.seen = closer.seen
    BY <1>0, <1>6 DEF RecordClose, ReconcileReads, ReconcileCloses, ClosingTypeOK
  <2>3. OwnOrders'
    BY <1>0, <2>2 DEF NoRequest, OwnOrders
  <2> QED
    BY <1>0, <1>2, <2>1, <2>3 DEF HasStop, CloserKeepsIt
<1> QED
  BY <1>0, <1>3, <1>4, <1>5, <1>6 DEF ClosingStep

-----------------------------------------------------------------------------
(* The monitor: the holding limit keeps the position from cancelling its    *)
(* stop to the market order, the move to breakeven until the new stop.      *)

\* The points at which the monitor keeps a position.
MonitorKeeping == {"beRow", "bePlace", "cancelRows", "closeAged"}

\* Its steps that touch neither positions nor orders start and end elsewhere.
LEMMA MonitorPasses ==
    ASSUME IInv,
           \/ StartTick \/ NextTimeout \/ FetchPositions \/ ReadDb \/ StartTrail
           \/ ReadRefill \/ AwaitCall \/ ReadFlow \/ AwaitScan
           \/ RecordAged \/ FinalizeTrade \/ FinalizeRows \/ ImportOrphan
           \/ RecordBreakeven \/ ExpireSignals \/ ClaimCandidate
    PROVE  /\ UNCHANGED <<pos, resting>>
           /\ mon.pc \notin MonitorKeeping
           /\ mon'.pc \notin {"beRow", "bePlace", "beRecord"}
<1>0. /\ mon \in [pc : MonitorPcs, todo : SUBSET Trades, seen : SUBSET (Trades \X Kinds),
                  cur : Trades \cup {None}, verdict : {"none"} \cup FinalStatus,
                  positions : [Symbols -> Nat], orphans : SUBSET Symbols,
                  queue : SUBSET Signals, taken : SUBSET Symbols, again : BOOLEAN]
      /\ StateTypeOK /\ CallTyped
  BY DEF IInv, TypeOK, MonitorTypeOK, CallTyped
<1> DEFINE Free == mon'.pc \notin {"beRow", "bePlace", "beRecord"}
<1>1. ASSUME NEW pc, pc \notin {"beRow", "bePlace", "beRecord"},
             MonGoto(pc) \/ MonStage(pc)
      PROVE  Free
  BY <1>0, <1>1 DEF MonGoto, MonStage, Idle
<1>2. mon' = Idle => Free
  BY DEF Idle
<1>3. AfterRefill => Free
  BY <1>1, <1>2 DEF AfterRefill
<1> USE DEF MonAt, MonitorKeeping
<1>4. CASE StartTick
  <2>1. ASSUME NEW T, NEW S, mon' = [mon EXCEPT !.pc = "timeouts", !.todo = T, !.seen = S]
        PROVE  Free
    BY <1>0, <2>1
  <2> QED
    BY <1>1, <1>4, <2>1 DEF StartTick, stateVars
<1>5. CASE NextTimeout
  <2>1. ASSUME NEW t, mon' = [mon EXCEPT !.pc = "cancelOrders", !.cur = t, !.todo = @ \ {t}]
        PROVE  Free
    BY <1>0, <2>1
  <2> QED
    BY <1>1, <1>5, <2>1 DEF NextTimeout, stateVars
<1>6. CASE FetchPositions
  <2>1. mon' = [mon EXCEPT !.pc = "readDb", !.positions = pos] => Free
    BY <1>0
  <2> QED
    BY <1>1, <1>6, <2>1 DEF FetchPositions, stateVars
<1>7. CASE ReadDb \/ StartTrail
  BY <1>0, <1>7 DEF ReadDb, StartTrail, stateVars
<1>8. CASE ReadRefill
  <2>1. ASSUME NEW Q, NEW T,
               mon' = [mon EXCEPT !.pc = "claiming", !.queue = Q, !.taken = T]
        PROVE  Free
    BY <1>0, <2>1
  <2> QED
    BY <1>3, <1>8, <2>1 DEF ReadRefill, stateVars
<1>9. CASE AwaitCall
  <2>1. ASSUME NEW T, mon' = [mon EXCEPT !.pc = "claiming", !.cur = None, !.taken = T]
        PROVE  Free
    BY <1>0, <2>1
  <2> QED
    BY <1>9, <2>1 DEF AwaitCall, stateVars
<1>10. CASE ReadFlow \/ AwaitScan
  BY <1>0, <1>1, <1>2, <1>10 DEF ReadFlow, AwaitScan, stateVars, Idle
<1>11. CASE RecordAged \/ FinalizeRows \/ RecordBreakeven
  BY <1>0, <1>11 DEF RecordAged, FinalizeRows, RecordBreakeven
<1>12. CASE FinalizeTrade
  <2>1. ASSUME NEW t, NEW status,
               \/ mon' = [mon EXCEPT !.pc = "finalizeRows", !.cur = t, !.verdict = status,
                                     !.todo = @ \ {t}]
               \/ mon' = [mon EXCEPT !.todo = @ \ {t}] /\ mon.pc = "finalize"
        PROVE  Free
    BY <1>0, <2>1
  <2> QED
    BY <1>1, <1>12, <2>1 DEF FinalizeTrade
<1>13. CASE ImportOrphan
  <2>1. ASSUME NEW m, mon' = [mon EXCEPT !.orphans = @ \ {m}], mon.pc = "import" PROVE Free
    BY <1>0, <2>1
  <2> QED
    BY <1>1, <1>13, <2>1 DEF ImportOrphan
<1>14. CASE ExpireSignals
  BY <1>1, <1>14 DEF ExpireSignals, exchangeVars
<1>15. CASE ClaimCandidate
  <2>1. ASSUME NEW s, NEW c, mon' = [mon EXCEPT !.pc = "awaiting", !.cur = c, !.queue = @ \ {s}]
        PROVE  Free
    BY <1>0, <2>1
  <2>2. ASSUME NEW s, mon' = [mon EXCEPT !.queue = @ \ {s}], mon.pc = "claiming" PROVE Free
    BY <1>0, <2>2
  <2>3. UNCHANGED <<pos, resting>>
    BY <1>15 DEF ClaimCandidate, Claim, stateVars, exchangeVars
  <2> QED
    BY <1>3, <1>15, <2>1, <2>2, <2>3 DEF ClaimCandidate
<1> QED
  BY <1>4, <1>5, <1>6, <1>7, <1>8, <1>9, <1>10, <1>11, <1>12, <1>13, <1>14, <1>15

\* It deletes no signal and steps into a call only by claiming for it.
LEMMA MonitorWaits ==
    ASSUME IInv, NobodyLost, MonitorStep
    PROVE  NobodyLost' /\ CallsWait
<1>0. CallTyped /\ FreeCalls \subseteq Calls /\ Candidates \subseteq Signals
  BY DEF IInv, TypeOK, CallTyped, MonitorTypeOK, FreeCalls, Candidates
<1>1. CASE UNCHANGED <<sig, ex>>
  BY <1>1 DEF NobodyLost, CallsWait
<1>2. CASE ExpireSignals
  <2>1. ex' = ex /\ sig' = SignalsMoved(expired, Queued, "expired")
    BY <1>2 DEF ExpireSignals, StaleExpired
  <2> QED
    BY <2>1, SweepLosesNothing DEF CallsWait
<1>3. CASE ClaimCandidate
  <2>1. ASSUME NEW s \in Candidates, NEW c \in FreeCalls, Claim(c, s)
        PROVE  NobodyLost' /\ CallsWait
    BY <1>0, <2>1, ClaimLosesNothing DEF CallsWait
  <2> QED
    BY <1>1, <1>3, <2>1 DEF ClaimCandidate, stateVars
<1> QED
  BY <1>1, <1>2, <1>3
     DEF MonitorStep, StartTick, NextTimeout, CancelAgedOrders, CancelAgedRows, CloseAged,
         RecordAged, FetchPositions, ReadDb, FinalizeTrade, FinalizeRows, ImportOrphan,
         StartTrail, MoveStop, CancelStopRow, PlaceBreakeven, RecordBreakeven, ReadRefill,
         AwaitCall, ReadFlow, AwaitScan, monUnchanged, stateVars

LEMMA MonitorHoldsOn ==
    ASSUME NothingAmiss, IInv, HInv, [Next]_vars, \A c \in Calls : ~Call(c), Monitor
    PROVE  HInv'
<1>0. /\ closer' = closer /\ MonitorStep
      /\ NobodyLost /\ OwnOrders /\ MovesAtTp1
      /\ pos \in [Symbols -> Nat]
      /\ \A t \in Existing : trade[t].symbol \in Symbols /\ trade[t].qty \in Nat
      /\ MonitorTypeOK /\ MonitorExists /\ Existing \subseteq Trades
  BY DEF Monitor, HInv, IInv, TypeOK, StateTypeOK, RowsExist, Existing, TradeRow
<1>1. NobodyLost' /\ OwnOrders' /\ CallsWait
  BY <1>0, MonitorWaits DEF OwnOrders
<1>2. ASSUME MovesAtTp1', \A m \in Symbols : pos'[m] <= pos[m],
             \A t \in Existing : HasStop(t) \/ MonitorKeepsIt(t) =>
                 \/ HasStop(t)' \/ MonitorKeepsIt(t)'
                 \/ \A m \in Symbols : Answers(t, m) => pos'[m] = 0
      PROVE  HInv'
  <2>1. \A t : CloserKeepsIt(t) => CloserKeepsIt(t)'
    BY <1>0 DEF CloserKeepsIt
  <2> QED
    BY <1>1, <1>2, <2>1, HInvKept DEF InHand
<1>3. /\ mon \in [pc : MonitorPcs, todo : SUBSET Trades, seen : SUBSET (Trades \X Kinds),
                  cur : Trades \cup {None}, verdict : {"none"} \cup FinalStatus,
                  positions : [Symbols -> Nat], orphans : SUBSET Symbols,
                  queue : SUBSET Signals, taken : SUBSET Symbols, again : BOOLEAN]
  BY <1>0 DEF MonitorTypeOK
<1>4. CASE \/ StartTick \/ NextTimeout \/ FetchPositions \/ ReadDb \/ StartTrail
           \/ ReadRefill \/ AwaitCall \/ ReadFlow \/ AwaitScan
           \/ RecordAged \/ FinalizeTrade \/ FinalizeRows \/ ImportOrphan
           \/ RecordBreakeven \/ ExpireSignals \/ ClaimCandidate
  <2>1. /\ UNCHANGED <<pos, resting>>
        /\ mon.pc \notin MonitorKeeping
        /\ mon'.pc \notin {"beRow", "bePlace", "beRecord"}
    BY <1>4, MonitorPasses
  <2> QED
    BY <1>0, <1>2, <2>1 DEF MovesAtTp1, HasStop, MonitorKeepsIt, MonitorKeeping
<1>5. CASE CancelAgedOrders
  <2>1. /\ mon.pc = "cancelOrders" /\ mon' = [mon EXCEPT !.pc = "cancelRows"] /\ pos' = pos
        /\ resting \subseteq resting' \cup SeenOf(mon.cur)
    BY <1>5 DEF CancelAgedOrders, MonAt, MonGoto
  <2>2. mon'.pc = "cancelRows" /\ mon'.cur = mon.cur
    BY <1>3, <2>1
  <2>3. ASSUME NEW t \in Existing, HasStop(t) PROVE HasStop(t)' \/ MonitorKeepsIt(t)'
    BY <2>1, <2>2, <2>3 DEF HasStop, MonitorKeepsIt, SeenOf
  <2>4. \A t : ~MonitorKeepsIt(t)
    BY <2>1 DEF MonitorKeepsIt
  <2>5. MovesAtTp1'
    BY <2>2 DEF MovesAtTp1
  <2> QED
    BY <1>0, <1>2, <2>1, <2>3, <2>4, <2>5
<1>6. CASE CancelAgedRows \/ CancelStopRow
  <2>1. /\ UNCHANGED <<pos, resting>>
        /\ \/ mon.pc = "cancelRows" /\ mon' = [mon EXCEPT !.pc = "closeAged"]
           \/ mon.pc = "beRow" /\ mon' = [mon EXCEPT !.pc = "bePlace"]
    BY <1>6 DEF CancelAgedRows, CancelStopRow, MonAt, MonGoto
  <2>2. /\ mon'.cur = mon.cur /\ mon'.pc \in {"closeAged", "bePlace"}
        /\ mon'.pc = "bePlace" => mon.pc = "beRow"
    BY <1>3, <2>1
  <2> QED
    BY <1>0, <1>2, <2>1, <2>2 DEF MovesAtTp1, HasStop, MonitorKeepsIt
<1>7. CASE CloseAged
  <2> DEFINE t == mon.cur
             m == trade[t].symbol
  <2>1. mon.pc = "closeAged" /\ t \in Existing /\ resting' = resting
    BY <1>0, <1>7 DEF CloseAged, MonAt, MonitorExists, MonitorHolds
  <2>2. \/ pos' = [pos EXCEPT ![m] = Reduced(@, trade[t].qty)]
        \/ /\ pos[m] = 0
           /\ pos' = pos
    BY <1>7 DEF CloseAged, MayFail, NothingAmiss
  <2>3. MovesAtTp1'
    <3>1. mon'.pc \in {"recordAged", "timeouts"}
      BY <1>3, <1>7 DEF CloseAged, MonGoto
    <3> QED
      BY <3>1 DEF MovesAtTp1
  <2> HIDE DEF t
  <2>4. m \in Symbols /\ trade[t].qty \in Nat
    BY <1>0, <2>1 DEF t
  <2>5. \A n \in Symbols : pos'[n] <= pos[n]
    BY <1>0, <2>2, <2>4 DEF Reduced
  <2>6. \A n \in Symbols : Answers(t, n) => pos'[n] = 0
    BY <1>0, <2>2, <2>4 DEF Reduced, Answers
  <2>7. ASSUME NEW u \in Existing, HasStop(u) \/ MonitorKeepsIt(u)
        PROVE  \/ HasStop(u)' \/ MonitorKeepsIt(u)'
               \/ \A n \in Symbols : Answers(u, n) => pos'[n] = 0
    <3>1. CASE HasStop(u)
      BY <2>1, <3>1 DEF HasStop
    <3>2. CASE MonitorKeepsIt(u)
      BY <2>6, <3>2 DEF MonitorKeepsIt, t
    <3> QED
      BY <2>7, <3>1, <3>2
  <2> QED
    BY <1>2, <2>3, <2>5, <2>7
<1>8. CASE MoveStop
  <2>1. mon.pc = "moving" /\ pos' = pos
    BY <1>8 DEF MoveStop, MonAt
  <2>2. \A t : ~MonitorKeepsIt(t)
    BY <2>1 DEF MonitorKeepsIt
  <2>3. CASE resting' = resting /\ mon'.pc \notin {"beRow", "bePlace", "beRecord"}
    BY <1>0, <1>2, <2>1, <2>2, <2>3 DEF MovesAtTp1, HasStop
  <2>4. ASSUME NEW t \in mon.todo, Happens("tp1"), resting' = resting \ {<<t, "sl">>},
               mon' = [mon EXCEPT !.pc = "beRow", !.cur = t, !.todo = @ \ {t}]
        PROVE  HInv'
    <3>1. mon'.pc = "beRow" /\ mon'.cur = t
      BY <1>3, <2>4
    <3>2. ASSUME NEW u \in Existing, HasStop(u) PROVE HasStop(u)' \/ MonitorKeepsIt(u)'
      BY <2>4, <3>1, <3>2 DEF HasStop, MonitorKeepsIt
    <3>3. MovesAtTp1'
      BY <2>4 DEF MovesAtTp1, Happens
    <3> QED
      BY <1>0, <1>2, <2>1, <2>2, <3>2, <3>3
  <2>5. MonStage("expire") => mon'.pc = "expire"
    BY DEF MonStage, Idle
  <2>6. ASSUME NEW t, mon' = [mon EXCEPT !.todo = @ \ {t}] PROVE mon'.pc = "moving"
    BY <1>3, <2>1, <2>6
  <2>7. Happens("tp1") => ~MayFail("cancelTimeout")
    BY DEF Happens, MayFail, NothingAmiss
  <2> QED
    BY <1>8, <2>3, <2>4, <2>5, <2>6, <2>7 DEF MoveStop
<1>9. CASE PlaceBreakeven
  <2>1. mon.pc = "bePlace" /\ pos' = pos /\ "tp1" \in Moves
    BY <1>0, <1>9 DEF PlaceBreakeven, MonAt, MovesAtTp1
  <2>2. resting' = resting \cup {<<mon.cur, "be">>}
    BY <1>9, <2>1 DEF PlaceBreakeven, MayFail, NothingAmiss
  <2>3. ASSUME NEW u \in Existing, HasStop(u) \/ MonitorKeepsIt(u) PROVE HasStop(u)'
    BY <2>2, <2>3 DEF HasStop, MonitorKeepsIt
  <2>4. MovesAtTp1'
    BY <2>1 DEF MovesAtTp1
  <2> QED
    BY <1>0, <1>2, <2>1, <2>3, <2>4
<1> QED
  BY <1>0, <1>4, <1>5, <1>6, <1>7, <1>8, <1>9 DEF MonitorStep

-----------------------------------------------------------------------------
(* The calls: each keeps its position until a stop rests or it is closed.   *)

\* A step of a call that fills no entry and creates no trade.
LEMMA OtherCallHolds ==
    ASSUME IInv, HInv, [Next]_vars, NEW c \in Calls, Call(c), NEW to, Moved(c, to),
           NothingOpens, NobodyLost', resting \subseteq resting',
           \A m \in Symbols : pos'[m] <= pos[m],
           ex[c].pc # "create",
           ex'[c].pc \in Opened => ex[c].pc \in Opened,
           ex'[c].pc \in Entering => \/ ex[c].pc \in Entering
                                     \/ LiveTradesOf(SymbolAt(c)) = {},
           CallKeepsIt(c) => \/ Kept(c)'
                             \/ \A m \in Symbols : Answers(c, m) => pos'[m] = 0
    PROVE  HInv'
<1>0. /\ IInv' /\ RowsStand /\ UNCHANGED <<mon, closer>>
      /\ \A d \in Calls : ex[d].pc \in Opened => d \in Existing
  BY NextIInv, RowsStandStill DEF Call, IInv, CallsExist
<1>1. \A d \in Calls : /\ SymbolAt(d)' = SymbolAt(d) /\ LotsAt(d)' = LotsAt(d)
                       /\ d # c => ex'[d] = ex[d]
  BY SameSymbols
<1>2. EntersAlone' /\ CallsBooked'
  BY <1>0, <1>1 DEF HInv, EntersAlone, CallsBooked, NothingOpens, RowsStand
<1>3. OwnOrders' /\ MovesAtTp1'
  BY <1>0 DEF HInv, OwnOrders, MovesAtTp1
<1>4. \A t : InHand(t) => InHand(t)'
  BY <1>0 DEF InHand, HasStop, MonitorKeepsIt, CloserKeepsIt
<1>5. ASSUME NEW m \in Symbols PROVE Held(m)'
  <2>1. \A d \in Calls : ex[d].pc = "create" =>
            ex'[d].pc = "create" /\ ex'[d].signal = ex[d].signal
    BY <1>1
  <2>2. \A t \in Existing : Answers(t, m) /\ Kept(t) => Kept(t)' \/ pos'[m] = 0
    <3>1. \A t : t # c /\ CallKeepsIt(t) => CallKeepsIt(t)'
      BY <1>1 DEF CallKeepsIt
    <3> QED
      BY <1>4, <3>1 DEF Kept
  <2>3. Held(m)
    BY DEF HInv
  <2> QED
    BY <1>0, <2>1, <2>2, <2>3, HeldStays
<1> QED
  BY <1>2, <1>3, <1>5 DEF HInv

\* The entry is filled: it met no position, so the call has all there is.
LEMMA EntryHolds ==
    ASSUME NothingAmiss, IInv, HInv, [Next]_vars, EntersFlat, NobodyLost',
           NEW c \in Calls, Call(c), PlaceEntry(c)
    PROVE  HInv'
<1> DEFINE m == SymbolAt(c)
<1>0. /\ ExecutionTypeOK /\ ex[c].pc = "entry" /\ UNCHANGED <<trade, resting, mon, closer>>
      /\ {"create", "catch"} \subseteq Pcs
      /\ pos \in [Symbols -> Nat] /\ m \in Symbols /\ LotsAt(c) \in Nat
      /\ pos[m] = 0
      /\ IInv' /\ RowsStand
  <2>1. /\ ExecutionTypeOK /\ ex[c].pc = "entry" /\ pos \in [Symbols -> Nat] /\ Claimed
        /\ UNCHANGED <<mon, closer>>
    BY DEF PlaceEntry, At, IInv, TypeOK, StateTypeOK, Call
  <2>2. m \in Symbols /\ LotsAt(c) \in Nat
    BY <2>1, ConstantsAssumption DEF Claimed, SymbolAt, LotsAt
  <2> QED
    BY <2>1, <2>2, NextIInv, RowsStandStill
       DEF EntersFlat, Pcs, Trading, Refusing, PlaceEntry, dbVars
<1>1. \/ UNCHANGED pos /\ Moved(c, {"catch"})
      \/ pos' = [pos EXCEPT ![m] = @ + LotsAt(c)] /\ Moved(c, {"create"})
  BY <1>0, GotoMoves, ThrowMoves DEF PlaceEntry, NothingAmiss, MayFail
<1>2. CASE UNCHANGED pos /\ Moved(c, {"catch"})
  <2>1. NothingOpens /\ \A n \in Symbols : pos'[n] <= pos[n]
    BY <1>0, <1>2 DEF NothingOpens, LiveTradesOf, LiveTrades
  <2>2. ex'[c].pc = "catch" /\ ~CallKeepsIt(c)
    BY <1>0, <1>2 DEF Moved, CallKeepsIt, Keeping, Guarding
  <2> QED
    BY <1>0, <1>2, <2>1, <2>2, OtherCallHolds
       DEF Opened, Stopless, StopRecorded, Entering
<1>3. CASE pos' = [pos EXCEPT ![m] = @ + LotsAt(c)] /\ Moved(c, {"create"})
  <2>1. \A d \in Calls : /\ SymbolAt(d)' = SymbolAt(d) /\ LotsAt(d)' = LotsAt(d)
                         /\ d # c => ex'[d] = ex[d]
    BY <1>3, SameSymbols
  <2>2. ex'[c].pc = "create" /\ \A n : LiveTradesOf(n)' = LiveTradesOf(n)
    BY <1>0, <1>3 DEF Moved, LiveTradesOf, LiveTrades
  <2>3. pos'[m] = LotsAt(c) /\ \A n \in Symbols : n # m => pos'[n] = pos[n]
    BY <1>0, <1>3
  <2>4. EntersAlone'
    BY <1>0, <2>1, <2>2 DEF HInv, EntersAlone, Entering
  <2>5. CallsBooked'
    BY <1>0, <2>1, <2>2 DEF HInv, CallsBooked, Opened, Stopless, StopRecorded
  <2>6. OwnOrders' /\ MovesAtTp1'
    BY <1>0 DEF HInv, OwnOrders, MovesAtTp1
  <2>7. ASSUME NEW n \in Symbols, n = m PROVE Held(n)'
    <3>1. ex'[c].pc = "create" /\ SymbolAt(c)' = n /\ pos'[n] <= LotsAt(c)'
      BY <1>0, <2>1, <2>2, <2>3, <2>7
    <3> QED
      BY <3>1 DEF Held, Fills
  <2>8. ASSUME NEW n \in Symbols, n # m PROVE Held(n)'
    <3>1. \A d \in Calls : ex[d].pc = "create" =>
              ex'[d].pc = "create" /\ ex'[d].signal = ex[d].signal
      BY <1>0, <2>1
    <3>2. \A t : Kept(t) => Kept(t)'
      BY <1>0, <2>1 DEF Kept, CallKeepsIt, InHand, HasStop, MonitorKeepsIt, CloserKeepsIt,
                        Keeping, Guarding
    <3>3. Held(n) /\ pos'[n] <= pos[n]
      BY <1>0, <2>3, <2>8 DEF HInv
    <3> QED
      BY <1>0, <3>1, <3>2, <3>3, HeldStays
  <2> QED
    BY <2>4, <2>5, <2>6, <2>7, <2>8 DEF HInv
<1> QED
  BY <1>1, <1>2, <1>3

\* trade.create succeeds, and the trade holds what the call had filled.
LEMMA CreationHolds ==
    ASSUME NothingAmiss, IInv, HInv, [Next]_vars, OneEntryPerSymbol, NobodyLost',
           NEW c \in Calls, Call(c), CreateTrade(c)
    PROVE  HInv'
<1> DEFINE m == SymbolAt(c)
<1>0. /\ ExecutionTypeOK /\ ex[c].pc = "create" /\ UNCHANGED <<pos, resting, mon, closer>>
      /\ "sl1" \in Pcs /\ c \in Trades
      /\ trade \in [Trades -> TradeRow]
      /\ ex[c].signal \in Signals /\ c \notin Existing
      /\ IInv' /\ RowsStand
      /\ \A d \in Calls : ex[d].pc \in Opened => d \in Existing
  <2>1. /\ ex[c].pc = "create" /\ UNCHANGED <<pos, resting, mon, closer>>
        /\ "sl1" \in Pcs /\ c \in Trades
    BY DEF CreateTrade, At, exchangeVars, Call, Pcs, Trading, Trades
  <2> QED
    BY <2>1, NextIInv, RowsStandStill
       DEF IInv, TypeOK, StateTypeOK, Claimed, CallsExist, Unopened
<1>1. LiveTradesOf(m) = {} /\ sig[ex[c].signal] # "deleted"
  BY <1>0 DEF HInv, EntersAlone, Entering, NobodyLost
<1>2. /\ Moved(c, {"sl1"})
      /\ trade' = [trade EXCEPT ![c] =
                     [status |-> "live_open", symbol |-> m,
                      qty |-> LotsAt(c), signal |-> ex[c].signal]]
  BY <1>0, <1>1, GotoMoves DEF CreateTrade, IndexAllows
<1>3. \A d \in Calls : /\ SymbolAt(d)' = SymbolAt(d) /\ LotsAt(d)' = LotsAt(d)
                       /\ d # c => ex'[d] = ex[d]
  BY <1>2, SameSymbols
<1>4. /\ trade'[c].status = "live_open" /\ trade'[c].symbol = m /\ trade'[c].qty = LotsAt(c)
      /\ \A t \in Trades : t # c => trade'[t] = trade[t]
      /\ c \in Existing' /\ ex'[c].pc = "sl1"
  BY <1>0, <1>2 DEF Moved, Existing
<1>5. \A d \in Calls : d # c /\ ex[d].pc \in Entering => SymbolAt(d) # m
  BY <1>0 DEF OneEntryPerSymbol, Entering
<1>6. \A n : n # m => LiveTradesOf(n)' \subseteq LiveTradesOf(n)
  BY <1>4 DEF LiveTradesOf, LiveTrades
<1>7. EntersAlone'
  BY <1>3, <1>4, <1>5, <1>6 DEF HInv, EntersAlone, Entering
<1>8. CallsBooked'
  BY <1>0, <1>3, <1>4 DEF HInv, CallsBooked, RowsStand
<1>9. OwnOrders' /\ MovesAtTp1'
  BY <1>0 DEF HInv, OwnOrders, MovesAtTp1
<1>10. ASSUME NEW n \in Symbols PROVE Held(n)'
  <2>1. CASE pos[n] = 0
    BY <1>0, <2>1 DEF Held
  <2>2. ASSUME NEW d \in Calls, Fills(d, n) PROVE Held(n)'
    <3>1. CASE d = c
      <4>1. Answers(c, n)' /\ Kept(c)'
        BY <1>0, <1>4, <2>2, <3>1
           DEF Fills, Answers, Kept, CallKeepsIt, Keeping, Guarding
      <4> QED
        BY <1>4, <4>1 DEF Held
    <3>2. CASE d # c
      BY <1>0, <1>3, <2>2, <3>2 DEF Fills, Held
    <3> QED
      BY <3>1, <3>2
  <2>3. ASSUME NEW t \in Existing, Answers(t, n), Kept(t) PROVE Held(n)'
    <3>1. t # c /\ t \in Existing'
      BY <1>0 DEF RowsStand
    <3>2. Answers(t, n)'
      BY <1>0, <2>3 DEF Answers, RowsStand
    <3>3. Kept(t)'
      BY <1>0, <1>3, <2>3, <3>1
         DEF Kept, CallKeepsIt, InHand, HasStop, MonitorKeepsIt, CloserKeepsIt
    <3> QED
      BY <3>1, <3>2, <3>3 DEF Held
  <2> QED
    BY <2>1, <2>2, <2>3 DEF HInv, Held
<1> QED
  BY <1>7, <1>8, <1>9, <1>10 DEF HInv

\* A call whose trade exists: the stop is placed, or asked for again, or the
\* emergency closes what the trade holds.
LEMMA OpenedHolds ==
    ASSUME NothingAmiss, IInv, HInv, [Next]_vars, NobodyLost',
           NEW c \in Calls, Call(c), OpenedStep(c)
    PROVE  HInv'
<1> DEFINE Targets == Opened \cup {"failSignal", "catch", "done"}
           Left == ~CallKeepsIt(c)
<1>0. /\ ExecutionTypeOK /\ CallTyped
      /\ ex[c].pc \in Opened \cup {"failSignal"}
      /\ Moved(c, Targets)
      /\ pos \in [Symbols -> Nat]
      /\ trade \in [Trades -> TradeRow] /\ c \in Trades
  BY OpenedMoves DEF IInv, TypeOK, CallTyped, StateTypeOK, Trades
<1>1. /\ ex[c].pc # "create"
      /\ ex'[c].pc \notin Entering
      /\ ex[c].pc = "failSignal" => ~(ex'[c].pc \in Opened)
  <2>1. CASE ex[c].pc = "failSignal"
    <3>1. FailSignal(c)
      BY <2>1 DEF OpenedStep, PlaceStop1, FetchMarkForStop, PlaceStop2, PlaceStop3,
                  EmergencyClose, FailTrade, RecordStop, PlaceTp1, RecordTp1, PlaceTp2,
                  RecordTp2, MarkExecuted, At
    <3>2. ex'[c].pc = "catch"
      BY <1>0, <3>1, ThrowMoves DEF FailSignal, Moved
    <3> QED
      BY <2>1, <3>2 DEF Opened, Stopless, StopRecorded, Entering
  <2> QED
    BY <1>0, <2>1 DEF Moved, Opened, Stopless, StopRecorded, Entering
<1>2. NothingOpens
  <2>1. \A t \in Trades : trade'[t].status = "live_open" =>
            trade[t].status = "live_open" /\ trade'[t].symbol = trade[t].symbol
    BY <1>0 DEF OpenedStep, PlaceStop1, FetchMarkForStop, PlaceStop2, PlaceStop3,
                EmergencyClose, FailTrade, FailSignal, RecordStop, PlaceTp1, RecordTp1,
                PlaceTp2, RecordTp2, MarkExecuted, PlaceConditional, RecordOrder,
                stateVars, dbVars, TradeRow
  <2> QED
    BY <2>1 DEF NothingOpens, LiveTradesOf, LiveTrades
<1>3. SymbolAt(c) \in Symbols /\ LotsAt(c) \in Nat
  BY <1>0, ConstantsAssumption
     DEF CallTyped, Claimed, SymbolAt, LotsAt, Opened, Stopless, StopRecorded
<1>4. ASSUME resting \subseteq resting', \A m \in Symbols : pos'[m] <= pos[m],
             CallKeepsIt(c) => \/ Kept(c)'
                               \/ \A m \in Symbols : Answers(c, m) => pos'[m] = 0
      PROVE  HInv'
  BY <1>0, <1>1, <1>2, <1>4, OtherCallHolds
<1>5. CASE EmergencyClose(c)
  <2>1. /\ pos' = [pos EXCEPT ![SymbolAt(c)] = Reduced(@, LotsAt(c))]
        /\ resting' = resting /\ ex[c].pc = "emergency"
    BY <1>5 DEF EmergencyClose, MayFail, NothingAmiss, At
  <2>2. trade[c].symbol = SymbolAt(c) /\ trade[c].qty = LotsAt(c)
    BY <2>1 DEF HInv, CallsBooked, Opened, Stopless
  <2>3. \A m \in Symbols : pos'[m] <= pos[m]
    BY <1>0, <1>3, <2>1 DEF Reduced
  <2>4. \A m \in Symbols : Answers(c, m) => pos'[m] = 0
    BY <1>0, <1>3, <2>1, <2>2 DEF Answers, Reduced
  <2> QED
    BY <1>4, <2>1, <2>3, <2>4
<1>6. CASE PlaceStop1(c) \/ PlaceStop2(c) \/ PlaceStop3(c)
  <2>1. ASSUME NEW lost \in LostStops, NEW next \in {"slMark", "sl3", "emergency"},
               PlaceConditional(c, "sl", lost, "slRow", next)
        PROVE  HInv'
    <3>1. /\ pos' = pos /\ resting \subseteq resting'
          /\ <<c, "sl">> \in resting' \/ ex'[c].pc = next
      <4>1. {"slRow", next} \subseteq Pcs /\ "sl" \in Kinds /\ lost \in OrderKinds
        BY <2>1 DEF Pcs, Trading, Kinds, OrderKinds, StopKinds
      <4> QED
        BY <1>0, <2>1, <4>1, PlacingMoves DEF Moved
    <3>2. Kept(c)'
      BY <3>1 DEF Kept, InHand, HasStop, CallKeepsIt, Keeping, Guarding
    <3> QED
      BY <1>0, <1>4, <3>1, <3>2
  <2> QED
    BY <1>6, <2>1 DEF PlaceStop1, PlaceStop2, PlaceStop3, LostStops
<1>7. CASE FetchMarkForStop(c)
  <2>1. Moved(c, {"sl2", "emergency"})
    <3>1. {"sl2", "emergency"} \subseteq Pcs
      BY DEF Pcs, Trading
    <3> QED
      BY <1>0, <1>7, <3>1, GotoMoves DEF FetchMarkForStop, Moved
  <2>2. Kept(c)' /\ UNCHANGED <<pos, resting>>
    BY <1>7, <2>1 DEF FetchMarkForStop, Moved, Kept, CallKeepsIt, Keeping, Guarding,
                      stateVars, exchangeVars
  <2> QED
    BY <1>0, <1>4, <2>2
<1>8. CASE PlaceTp1(c) \/ PlaceTp2(c)
  <2>1. /\ pos' = pos /\ resting \subseteq resting' /\ ~CallKeepsIt(c)
    BY <1>8 DEF PlaceTp1, PlaceTp2, PlaceConditional, At, CallKeepsIt, Keeping, Guarding
  <2> QED
    BY <1>0, <1>4, <2>1
<1>9. CASE \/ FailTrade(c) \/ FailSignal(c) \/ RecordStop(c) \/ RecordTp1(c)
           \/ RecordTp2(c) \/ MarkExecuted(c)
  <2>1. UNCHANGED <<pos, resting>> /\ ~CallKeepsIt(c)
    BY <1>9 DEF FailTrade, FailSignal, RecordStop, RecordTp1, RecordTp2, MarkExecuted,
                RecordOrder, exchangeVars, At, CallKeepsIt, Keeping, Guarding
  <2> QED
    BY <1>0, <1>4, <2>1
<1> QED
  BY <1>5, <1>6, <1>7, <1>8, <1>9 DEF OpenedStep

\* Every step of a call.
LEMMA CallHoldsOn ==
    ASSUME NothingAmiss, IInv, HInv, [Next]_vars, OneEntryPerSymbol, EntersFlat,
           NEW c \in Calls, Call(c)
    PROVE  HInv'
<1>0. /\ CallTyped /\ ExecutionTypeOK /\ CallStep(c)
      /\ NobodyLost' /\ pos \in [Symbols -> Nat]
  <2>1. CallTyped /\ ExecutionTypeOK /\ CallStep(c) /\ pos \in [Symbols -> Nat] /\ NobodyLost
    BY DEF IInv, TypeOK, CallTyped, Call, StateTypeOK, HInv
  <2> QED
    BY <2>1, CallLosesNothing
<1>1. CASE CheckStep(c)
  <2>1. /\ Moved(c, Checking \cup Refusing \cup {"leverage", "done"})
        /\ UNCHANGED <<trade, pos, resting>>
        /\ ex[c].pc \in Checking \cup Refusing
    BY <1>0, <1>1, ChecksMove, ChecksTouchOnlySignals
  <2>2. /\ ex[c].pc # "create" /\ ~CallKeepsIt(c)
        /\ ex'[c].pc \notin Opened
    BY <2>1 DEF Moved, Checking, Refusing, CallKeepsIt, Keeping, Guarding, Opened,
                Stopless, StopRecorded
  <2>3. ex'[c].pc \in Entering => ex[c].pc \in Entering \/ LiveTradesOf(SymbolAt(c)) = {}
    BY <1>0, <1>1, ChecksEnter DEF Entering
  <2>4. NothingOpens /\ \A m \in Symbols : pos'[m] <= pos[m]
    BY <1>0, <2>1 DEF NothingOpens, LiveTradesOf, LiveTrades
  <2> QED
    BY <1>0, <2>1, <2>2, <2>3, <2>4, OtherCallHolds
<1>2. CASE SetLeverage(c)
  <2>1. Moved(c, {"entry", "catch"}) /\ UNCHANGED <<trade, pos, resting>>
        /\ ex[c].pc = "leverage"
    <3>1. {"entry", "catch"} \subseteq Pcs
      BY DEF Pcs, Trading, Refusing
    <3> QED
      BY <1>0, <1>2, <3>1, GotoMoves, ThrowMoves
         DEF SetLeverage, At, Moved, stateVars, exchangeVars
  <2>2. /\ ex[c].pc \in Entering /\ ~CallKeepsIt(c)
        /\ ex'[c].pc \notin Opened
    BY <2>1 DEF Moved, CallKeepsIt, Keeping, Guarding, Opened, Stopless, StopRecorded,
                Entering
  <2>3. NothingOpens /\ \A m \in Symbols : pos'[m] <= pos[m]
    BY <1>0, <2>1 DEF NothingOpens, LiveTradesOf, LiveTrades
  <2> QED
    BY <1>0, <2>1, <2>2, <2>3, OtherCallHolds
<1>3. CASE PlaceEntry(c)
  BY <1>0, <1>3, EntryHolds
<1>4. CASE CreateTrade(c)
  BY <1>0, <1>4, CreationHolds
<1>5. CASE OpenedStep(c)
  BY <1>0, <1>5, OpenedHolds
<1> QED
  BY <1>0, <1>1, <1>2, <1>3, <1>4, <1>5 DEF CallStep, TradeStep, OpenedStep

-----------------------------------------------------------------------------
LEMMA HInvStart == Init => HInv
<1> SUFFICES ASSUME Init PROVE HInv
  OBVIOUS
<1>1. /\ ex \in [Calls -> [pc : {"ready"}, signal : {None}, actor : Actors,
                           to : {"active"}, mark : {"active"}]]
      /\ mon = Idle /\ closer = NoRequest
      /\ \A m \in Symbols : pos[m] = 0
      /\ \A s \in Signals : sig[s] # "deleted"
  BY DEF Init, StateInit, AccountInit, ExecutionInit, MonitorInit, ClosingInit
<1>2. \A c \in Calls : ex[c].pc = "ready" /\ ex[c].to = "active"
  BY <1>1
<1>3. NobodyLost /\ EntersAlone /\ CallsBooked
  BY <1>1, <1>2 DEF NobodyLost, EntersAlone, CallsBooked, Entering, Opened, Stopless,
                    StopRecorded
<1>4. OwnOrders /\ MovesAtTp1
  BY <1>1 DEF OwnOrders, MovesAtTp1, NoRequest, Idle
<1> QED
  BY <1>1, <1>3, <1>4 DEF HInv, Held

LEMMA HInvStep ==
    ASSUME NothingAmiss, IInv, HInv, OneEntryPerSymbol, EntersFlat, [Next]_vars
    PROVE  HInv'
<1>1. CASE \E c \in Calls : Call(c)
  BY <1>1, CallHoldsOn
<1>2. CASE \A c \in Calls : ~Call(c)
  <2>1. ASSUME UNCHANGED <<pos, resting, mon, closer>>, NobodyLost', CallsWait
        PROVE  HInv'
    <3>1. OwnOrders' /\ MovesAtTp1' /\ \A m \in Symbols : pos'[m] <= pos[m]
      BY <2>1 DEF HInv, OwnOrders, MovesAtTp1, IInv, TypeOK, StateTypeOK
    <3>2. \A t : InHand(t) => InHand(t)'
      BY <2>1 DEF InHand, HasStop, MonitorKeepsIt, CloserKeepsIt
    <3> QED
      BY <1>2, <2>1, <3>1, <3>2, HInvKept
  <2>2. ASSUME NEW c \in Calls, Ask(c) PROVE HInv'
    <3>1. PICK s \in Signals : Claim(c, s)
      BY <2>2 DEF Ask
    <3>2. UNCHANGED <<pos, resting, mon, closer>> /\ CallsWait
      BY <2>2, <3>1 DEF Ask, Claim, exchangeVars, CallsWait
    <3>3. NobodyLost'
      BY <3>1, ClaimLosesNothing DEF CallTyped, IInv, TypeOK, HInv
    <3> QED
      BY <2>1, <3>2, <3>3
  <2>3. CASE UNCHANGED vars
    <3>1. UNCHANGED <<pos, resting, mon, closer>> /\ NobodyLost' /\ CallsWait
      BY <2>3 DEF vars, stateVars, exchangeVars, dbVars, HInv, NobodyLost, CallsWait
    <3> QED
      BY <2>1, <3>1
  <2>4. CASE Monitor
    BY <1>2, <2>4, MonitorHoldsOn
  <2>5. CASE Stream
    BY <1>2, <2>5, StreamHolds
  <2>6. CASE Market
    BY <1>2, <2>6, MarketHolds
  <2>7. CASE Operator
    BY <1>2, <2>7, OperatorHolds
  <2>8. CASE Closing
    BY <1>2, <2>8, ClosingHolds
  <2>9. ~Restart
    BY DEF Restart, NothingAmiss
  <2> QED
    BY <1>2, <2>2, <2>3, <2>4, <2>5, <2>6, <2>7, <2>8, <2>9 DEF Next
<1> QED
  BY <1>1, <1>2

\* A held position is attended or covered.
LEMMA HeldIsProtected == IInv /\ HInv => NeverUnprotected
<1> SUFFICES ASSUME IInv, HInv, NEW m \in Symbols
             PROVE  Attended(m) \/ pos[m] = 0 \/ Covered(m)
  BY DEF NeverUnprotected
<1>0. Held(m)
  BY DEF HInv
<1>1. ASSUME NEW c \in Calls, Fills(c, m) PROVE Attended(m)
  BY <1>1 DEF Fills, Attended, Guarding
<1>2. ASSUME NEW t \in Existing, Answers(t, m), CallKeepsIt(t) PROVE Attended(m)
  <2>1. t \in Calls /\ ex[t].pc \in Guarding /\ ex[t].pc \in Opened
    BY <1>2 DEF CallKeepsIt, Keeping, Guarding, Opened, Stopless
  <2>2. SymbolAt(t) = m
    BY <1>2, <2>1 DEF HInv, CallsBooked, Answers
  <2> QED
    BY <2>1, <2>2 DEF Attended
<1>3. ASSUME NEW t \in Existing, Answers(t, m), HasStop(t) PROVE Covered(m)
  <2>1. PICK k \in {"sl", "be"} : <<t, k>> \in resting
    BY <1>3 DEF HasStop
  <2>2. OrderQty(t, k) = trade[t].qty /\ trade[t].symbol = m /\ pos[m] <= trade[t].qty
    BY <1>3, <2>1 DEF OrderQty, Answers
  <2>3. trade[t].qty \in Nat /\ pos[m] \in Nat
    BY DEF IInv, TypeOK, StateTypeOK, Existing, TradeRow
  <2> DEFINE o == <<t, k>>
  <2>4. o \in resting /\ o[1] = t /\ o[2] = k
    BY <2>1
  <2>5. /\ o[2] \in StopKinds /\ trade[o[1]].symbol = m
        /\ OrderQty(o[1], o[2]) >= pos[m]
    BY <2>1, <2>2, <2>3, <2>4 DEF StopKinds
  <2> HIDE DEF o
  <2> QED
    BY <2>4, <2>5 DEF Covered
<1>4. ASSUME NEW t \in Existing, Answers(t, m), MonitorKeepsIt(t) PROVE Attended(m)
  BY <1>4 DEF MonitorKeepsIt, Answers, Attended
<1>5. ASSUME NEW t \in Existing, Answers(t, m), CloserKeepsIt(t) PROVE Attended(m)
  BY <1>5 DEF CloserKeepsIt, Answers, Attended
<1> QED
  BY <1>0, <1>1, <1>2, <1>3, <1>4, <1>5 DEF Held, Kept, InHand

\* "never leave real money in an unprotected position" (execution lines
\* 225-227) over the position's whole life, for every number of calls, signals
\* and symbols: while two calls do not enter one symbol at a time, and none
\* meets a position that the monitor has taken for closed, every position has a
\* stop for all of it or somebody at work on it, through the holding limit, the
\* move to breakeven, the operator's close and whatever triggers in between.
THEOREM LifelongProtection ==
    ASSUME NothingAmiss
    PROVE  Spec /\ []OneEntryPerSymbol /\ []EntersFlat => []NeverUnprotected
<1>1. Init => HInv
  BY HInvStart
<1>2. IInv /\ HInv /\ OneEntryPerSymbol /\ EntersFlat /\ [Next]_vars => HInv'
  BY HInvStep
<1>3. Spec => []IInv
  BY Invariance
<1>4. IInv /\ HInv => NeverUnprotected
  BY HeldIsProtected
<1> QED
  BY <1>1, <1>2, <1>3, <1>4, PTL DEF Spec

-----------------------------------------------------------------------------
(* With a single call the two temporal hypotheses are facts.                *)

\* Only an entry makes a position grow.
LEMMA PositionsShrink ==
    ASSUME IInv, [Next]_vars, \A c \in Calls : ~Call(c)
    PROVE  \A m \in Symbols : pos'[m] <= pos[m]
<1>0. /\ pos \in [Symbols -> Nat] /\ Existing \subseteq Trades
      /\ \A t \in Existing : trade[t].symbol \in Symbols /\ trade[t].qty \in Nat
  BY DEF IInv, TypeOK, StateTypeOK, RowsExist, Existing, TradeRow
<1>1. CASE pos' = pos
  BY <1>0, <1>1
<1>2. ASSUME NEW t \in Existing, NEW qty \in Nat,
             pos' = [pos EXCEPT ![trade[t].symbol] = Reduced(@, qty)]
      PROVE  \A m \in Symbols : pos'[m] <= pos[m]
  BY <1>0, <1>2 DEF Reduced
<1>3. CASE Monitor
  <2>1. pos' = pos \/ CloseAged
    BY <1>3 DEF Monitor, MonitorStep, StartTick, NextTimeout, CancelAgedOrders,
                CancelAgedRows, RecordAged, FetchPositions, ReadDb, FinalizeTrade,
                FinalizeRows, ImportOrphan, StartTrail, MoveStop, CancelStopRow,
                PlaceBreakeven, RecordBreakeven, ExpireSignals, ReadRefill,
                ClaimCandidate, Claim, AwaitCall, ReadFlow, AwaitScan, stateVars,
                exchangeVars
  <2>2. CASE CloseAged
    <3>1. mon.cur \in Existing
      BY <2>2 DEF CloseAged, MonAt, IInv, MonitorExists, MonitorHolds
    <3> QED
      BY <1>0, <1>1, <1>2, <2>2, <3>1 DEF CloseAged
  <2> QED
    BY <1>1, <2>1, <2>2
<1>4. CASE Closing
  <2>1. pos' = pos \/ CloseAtMarket
    BY <1>4 DEF Closing, ClosingStep, CloseCancels, CloseRows, RecordClose,
                ReconcileReads, ReconcileCloses, stateVars, exchangeVars
  <2>2. CASE CloseAtMarket
    <3>1. closer.trade \in Existing
      BY <2>2 DEF CloseAtMarket, CloserAt, IInv, CloserExists, CloserHolds
    <3> QED
      BY <1>0, <1>1, <1>2, <2>2, <3>1 DEF CloseAtMarket
  <2> QED
    BY <1>1, <2>1, <2>2
<1>5. CASE Market
  <2>1. ASSUME NEW t \in Trades, NEW k \in OrderKinds, OrderTriggers(t, k)
        PROVE  \A m \in Symbols : pos'[m] <= pos[m]
    <3>1. t \in Existing
      BY <2>1 DEF OrderTriggers, IInv, RowsExist
    <3>2. OrderQty(t, k) \in Nat
      BY <1>0, <3>1 DEF OrderQty, StopKinds
    <3> QED
      BY <1>2, <2>1, <3>1, <3>2 DEF OrderTriggers
  <2>2. ASSUME NEW m \in Symbols, ClosedOutside(m)
        PROVE  \A n \in Symbols : pos'[n] <= pos[n]
    BY <1>0, <2>2 DEF ClosedOutside
  <2>3. ASSUME NEW t \in Trades, NEW k \in OrderKinds, OrderExpires(t, k) PROVE pos' = pos
    BY <2>3 DEF OrderExpires
  <2>4. ASSUME NEW t \in Trades, TradeAges(t) PROVE pos' = pos
    BY <2>4 DEF TradeAges, stateVars, exchangeVars
  <2> QED
    BY <1>1, <1>5, <2>1, <2>2, <2>3, <2>4 DEF Market, ExchangeStep
<1>6. CASE Stream
  BY <1>1, <1>6 DEF Stream, StreamStep, ReceiveFill, ConfirmFlat, FinalizeFilled,
                    FilledRows, streamUnchanged
<1>7. CASE Operator
  <2>1. pos' = pos
    BY <1>7, ControlSteps
       DEF Operator, RequestClose, RequestReconcile, stateVars, exchangeVars, ControlOnly,
           IInv, TypeOK
  <2> QED
    BY <1>1, <2>1
<1>8. CASE UNCHANGED vars \/ Restart \/ \E c \in Calls : Ask(c)
  <2>1. pos' = pos
    BY <1>8 DEF vars, Restart, Crash, Ask, Claim, stateVars, exchangeVars
  <2> QED
    BY <1>1, <2>1
<1> QED
  BY <1>3, <1>4, <1>5, <1>6, <1>7, <1>8 DEF Next

\* There is no position before the entry of the only call.
BeforeFill == {"ready", "settle", "leverage", "entry"} \cup Checking
FlatBefore ==
    \A c \in Calls : ex[c].pc \in BeforeFill => \A m \in Symbols : pos[m] = 0

\* A call does not go back before its entry, and nothing else opens a position.
LEMMA FlatBeforeKept ==
    ASSUME NothingAmiss, \A c, d \in Calls : c = d, IInv, FlatBefore, [Next]_vars
    PROVE  FlatBefore'
<1>0. CallTyped /\ ExecutionTypeOK /\ pos \in [Symbols -> Nat] /\ pos' \in [Symbols -> Nat]
  BY NextIInv DEF IInv, TypeOK, CallTyped, StateTypeOK
<1>1. CASE \A c \in Calls : ~Call(c)
  <2>1. \A m \in Symbols : pos'[m] <= pos[m]
    BY <1>1, PositionsShrink
  <2>2. ASSUME NEW c \in Calls, ex'[c].pc \in BeforeFill PROVE ex[c].pc \in BeforeFill
    <3>1. ASSUME NEW d \in Calls, NEW s \in Signals, Claim(d, s) PROVE ex[c].pc = "ready"
      BY <1>0, <3>1, ClaimMoves
    <3>2. CASE ex' = ex
      BY <2>2, <3>2
    <3>3. ex' = ex \/ \E d \in Calls, s \in Signals : Claim(d, s)
      <4>1. CASE Monitor
        <5>1. FreeCalls \subseteq Calls /\ Candidates \subseteq Signals
          BY <1>0 DEF FreeCalls, Candidates, CallTyped, IInv, TypeOK, MonitorTypeOK
        <5> QED
          BY <4>1, <5>1
             DEF Monitor, MonitorStep, StartTick, NextTimeout, CancelAgedOrders,
                 CancelAgedRows, CloseAged, RecordAged, FetchPositions, ReadDb,
                 FinalizeTrade, FinalizeRows, ImportOrphan, StartTrail, MoveStop,
                 CancelStopRow, PlaceBreakeven, RecordBreakeven, ExpireSignals, ReadRefill,
                 ClaimCandidate, AwaitCall, ReadFlow, AwaitScan, monUnchanged, stateVars
      <4>2. CASE Stream \/ Market
        BY <4>2 DEF Stream, StreamStep, ReceiveFill, ConfirmFlat, FinalizeFilled,
                    FilledRows, streamUnchanged, Market, TradeAges
      <4>3. CASE UNCHANGED vars \/ Operator \/ Closing
        BY <4>3 DEF vars, Operator, Closing
      <4>4. ~Restart
        BY DEF Restart, NothingAmiss
      <4> QED
        BY <1>1, <4>1, <4>2, <4>3, <4>4 DEF Next, Ask
    <3> QED
      BY <3>1, <3>2, <3>3 DEF BeforeFill
  <2> QED
    BY <1>0, <2>1, <2>2 DEF FlatBefore
<1>2. ASSUME NEW c \in Calls, Call(c) PROVE FlatBefore'
  <2>0. CallStep(c) /\ \A d \in Calls : d = c
    BY <1>2 DEF Call
  <2>1. CASE CheckStep(c)
    <3>1. /\ pos' = pos /\ ex[c].pc \in Checking \cup Refusing
          /\ ex[c].pc \in Unopened \/ ex'[c].pc \in {"catchWrite", "done"}
      BY <1>0, <2>1, ChecksTouchOnlySignals
    <3>2. ex'[c].pc \in BeforeFill => ex[c].pc \in BeforeFill
      BY <3>1 DEF BeforeFill, Checking, Refusing, Unopened
    <3> QED
      BY <2>0, <3>1, <3>2 DEF FlatBefore
  <2>2. CASE SetLeverage(c)
    <3>1. pos' = pos /\ ex[c].pc \in BeforeFill
      BY <2>2 DEF SetLeverage, At, BeforeFill, stateVars, exchangeVars
    <3> QED
      BY <2>0, <3>1 DEF FlatBefore
  <2>3. CASE PlaceEntry(c) \/ CreateTrade(c)
    <3>1. {"create", "sl1", "catch"} \subseteq Pcs
      BY DEF Pcs, Trading, Refusing
    <3>2. Moved(c, {"create", "sl1", "catch"})
      BY <1>0, <2>3, <3>1, GotoMoves, ThrowMoves DEF PlaceEntry, CreateTrade, Moved
    <3>3. ex'[c].pc \notin BeforeFill
      BY <3>2 DEF Moved, BeforeFill, Checking
    <3> QED
      BY <2>0, <3>3 DEF FlatBefore
  <2>4. CASE OpenedStep(c)
    <3>1. Moved(c, Opened \cup {"failSignal", "catch", "done"})
      BY <1>0, <2>4, OpenedMoves
    <3>2. ex'[c].pc \notin BeforeFill
      BY <3>1 DEF Moved, BeforeFill, Checking, Opened, Stopless, StopRecorded
    <3> QED
      BY <2>0, <3>2 DEF FlatBefore
  <2> QED
    BY <2>0, <2>1, <2>2, <2>3, <2>4 DEF CallStep, TradeStep, OpenedStep
<1> QED
  BY <1>1, <1>2

\* The same of the life of one trade, and nothing is assumed of the behaviour:
\* whatever other request is refused, wherever the market goes, in whatever
\* order monitor, stream and operator get hold of the trade.
THEOREM OneCallProtected ==
    ASSUME NothingAmiss, \A c, d \in Calls : c = d
    PROVE  Spec => []NeverUnprotected
<1>1. Init => FlatBefore
  BY DEF Init, StateInit, AccountInit, FlatBefore
<1>2. IInv /\ FlatBefore /\ [Next]_vars => FlatBefore'
  BY FlatBeforeKept
<1>3. IInv /\ FlatBefore => EntersFlat
  <2>1. ASSUME IInv, FlatBefore, NEW c \in Calls, ex[c].pc = "entry"
        PROVE  pos[SymbolAt(c)] = 0
    <3>1. SymbolAt(c) \in Symbols
      BY <2>1, ConstantsAssumption DEF IInv, Claimed, SymbolAt
    <3> QED
      BY <2>1, <3>1 DEF FlatBefore, BeforeFill
  <2> QED
    BY <2>1 DEF EntersFlat
<1>4. OneEntryPerSymbol
  BY DEF OneEntryPerSymbol
<1> QED
  BY <1>1, <1>2, <1>3, <1>4, Invariance, LifelongProtection, PTL DEF Spec

=============================================================================
